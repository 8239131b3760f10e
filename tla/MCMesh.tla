------------------------------- MODULE MCMesh -------------------------------
(***************************************************************************)
(* One instance for what keeps the mesh together: a handoff with a timeout, *)
(* a late answer and a leaver, state synchronisation, the zone directory    *)
(* and the forwarder.  The modules share no state, so a behaviour          *)
(* exercises one of them (focus) while the others rest in an initial       *)
(* state.                                                                  *)
(***************************************************************************)
EXTENDS Handoff, StateSync, ZoneDirectory, Forwarder

MCCapacity == (1 :> 1) @@ (2 :> 2) @@ (3 :> 1)

\* The pipeline starts at rest with one player and its vehicle, which nobody else
\* is there to see; the writes come on top.
FirstPed == CHOOSE p \in Peds : TRUE
SettledStore == [i \in Ids |-> IF i \in {FirstPed} \cup Vehicles
                               THEN [at |-> CHOOSE a \in Places : \A b \in Places : a <= b, owner |-> FirstPed]
                               ELSE Absent]
SettledInit ==
    /\ entities = SettledStore /\ world = SettledStore /\ joined = {FirstPed}
    /\ marks = <<>> /\ dirty = Drained /\ stream = <<>>
    /\ tracker = [c \in Peds |-> Drained] /\ known = [c \in Peds |-> Drained]
    /\ control = [c \in Peds |-> <<>>] /\ sync = [c \in Peds |-> <<>>]
    /\ desyncs = FALSE /\ writes = 0 /\ faults = {}

\* A crossing meets one lost call or one overtaken answer.
OneFault == spent'.timeouts + spent'.late <= 1

VARIABLE focus

meshVars == <<vars, syncVars, dirVars, fwdVars, focus>>

MeshInit ==
    /\ Init /\ SettledInit /\ DirInit /\ FwdInit
    /\ focus \in {"handoff", "sync", "directory", "forwarder"}
    /\ focus # "forwarder" => fwdRoute = CHOOSE z \in FwdZones : TRUE

\* The services may come to rest; a handoff may not (deadlock is checked).
MeshNext ==
    \/ focus = "handoff" /\ Next /\ OneFault /\ UNCHANGED <<syncVars, dirVars, fwdVars, focus>>
    \/ focus = "sync" /\ SyncNext /\ UNCHANGED <<vars, dirVars, fwdVars, focus>>
    \/ focus = "directory" /\ DirNext /\ UNCHANGED <<vars, syncVars, fwdVars, focus>>
    \/ focus = "forwarder" /\ FwdNext /\ UNCHANGED <<vars, syncVars, dirVars, focus>>
    \/ focus # "handoff" /\ UNCHANGED meshVars

\* No fair action is enabled in the initial states the others rest in.
MeshSpec == /\ MeshInit /\ [][MeshNext]_meshVars
            /\ Fairness /\ SyncFairness /\ DirFairness /\ FwdFairness

\* What the mesh must get done: a handoff ends and the route of a leaver is
\* forgotten, entities that went disappear at the clients, a failed zone's players
\* are spread over the survivors and a zone that was evicted comes back, and the
\* forwarder neither strands updates nor keeps anything of a leaver.
MeshSettles ==
    /\ EveryCallEnds /\ RouteForgotten
    /\ LeaversVanish
    /\ RecoveryBalanced /\ ZonesReturn
    /\ NoneStranded /\ LeaverForgotten
=============================================================================
