----------------------------- MODULE MCScripting -----------------------------
(***************************************************************************)
(* One instance for the scripting side: the registry of entities under     *)
(* script commands, the host and its resources, the event loop of one      *)
(* isolate, its watchdog, native calls to clients, HTTP in both directions *)
(* and the key-value store.  The modules share no state, so a behaviour    *)
(* exercises one of them (focus) while the others rest in an initial       *)
(* state.                                                                  *)
(***************************************************************************)
EXTENDS ServerGameState, ScriptHost, Isolate, Watchdog, NativeCalls, ScriptHttp, KvpStore

VARIABLE focus

scriptingVars == <<regVars, hostVars, isoVars, wdVars, natVars, httpVars, kvpVars, focus>>

ScriptingInit ==
    /\ RegInit /\ HostInit /\ IsoInit /\ WdInit /\ NatInit /\ HttpInit /\ KvpInit
    /\ focus \in {"registry", "host", "isolate", "watchdog", "natives", "http", "kvp"}
    /\ focus # "host" => runtimes = {}
    /\ focus # "natives" => simulator = NoCallee

\* The services may come to rest; the registry may not (deadlock is checked).
ScriptingNext ==
    \/ focus = "registry" /\ RegNext /\ UNCHANGED <<hostVars, isoVars, wdVars, natVars, httpVars, kvpVars, focus>>
    \/ focus = "host" /\ HostNext /\ UNCHANGED <<regVars, isoVars, wdVars, natVars, httpVars, kvpVars, focus>>
    \/ focus = "isolate" /\ IsoNext /\ UNCHANGED <<regVars, hostVars, wdVars, natVars, httpVars, kvpVars, focus>>
    \/ focus = "watchdog" /\ WdNext /\ UNCHANGED <<regVars, hostVars, isoVars, natVars, httpVars, kvpVars, focus>>
    \/ focus = "natives" /\ NatNext /\ UNCHANGED <<regVars, hostVars, isoVars, wdVars, httpVars, kvpVars, focus>>
    \/ focus = "http" /\ HttpNext /\ UNCHANGED <<regVars, hostVars, isoVars, wdVars, natVars, kvpVars, focus>>
    \/ focus = "kvp" /\ KvpNext /\ UNCHANGED <<regVars, hostVars, isoVars, wdVars, natVars, httpVars, focus>>
    \/ focus # "registry" /\ UNCHANGED scriptingVars

\* No fair action is enabled in the initial states the others rest in, except
\* the first pass of the isolate's pump and the registry's tick.
ScriptingSpec ==
    /\ ScriptingInit /\ [][ScriptingNext]_scriptingVars
    /\ HostFairness /\ WdFairness /\ NatFairness /\ HttpFairness /\ KvpFairness
    /\ WF_isoVars(focus = "isolate" /\ IsoStep) /\ WF_regVars(focus = "registry" /\ Tick)

\* What scripts may rely on: a dispatched event is answered, a runaway script is
\* stopped, a native call returns, the callback of an HTTP request runs and a
\* request to a script is answered, and what the store holds reaches the disk.
ScriptsServed ==
    /\ RepliesCome
    /\ RunawayEnds
    /\ CallReturns
    /\ CallbacksRun /\ RequestsAnswered
    /\ SweepSaves
=============================================================================
