----------------------------- MODULE ScriptHost -----------------------------
(***************************************************************************)
(* Resource lifecycle and event dispatch: ResourceManager of baston-zone   *)
(* (start, stop, ensure, restart, discover) over ScriptHost of             *)
(* baston-scripting (load_resource, unload_resource, trigger_event), the   *)
(* fair read-write lock around the table of isolates, the isolates' reply  *)
(* rules, and the UDP task that both broadcasts events inline and is the   *)
(* only one that resolves native calls handlers wait for.                  *)
(*                                                                         *)
(* A task runs one operation at a time; its program counter names the      *)
(* await it is parked at.  Broadcasts hold the read lock until the last    *)
(* isolate has replied.                                                    *)
(***************************************************************************)
EXTENDS Naturals, Sequences

CONSTANTS Scripts,          \* resource names
          Managers,         \* tasks that run lifecycle operations (API, command queue, hot reload)
          Udp,              \* the UDP task
          NoScript,
          MaxEventChain,    \* MAX_EVENT_CHAIN
          MaxOps, MaxEvents, MaxLoadErrors

\* NoScript names no resource, and the UDP task runs no lifecycle operation.
ASSUME HostAssumption == NoScript \notin Scripts /\ Udp \notin Managers

Tasks == Managers \cup {Udp}

VARIABLES
    mstate,      \* ResourceEntry.state
    mirror,      \* ResourceRegistry, what GetResourceState answers
    runtimes,    \* names in ScriptHost.runtimes
    routes,      \* names with an HTTP handler or state-bag handlers registered
    lockq, readers,     \* the fair RwLock around runtimes: waiters, and holders of a read lock
    doing,       \* per task: [pc, op, name, next, chain]
    awaiting,    \* per task and isolate: how the dispatched handler will settle
    opsLeft, eventsLeft, errorsLeft,
    raced,       \* names two operations have worked on at the same time
    rescanned,   \* names a ScanResourceRoot has re-registered
    failedLoad   \* names whose scripts have thrown while loading

hostVars == <<mstate, mirror, runtimes, routes, lockq, readers, doing, awaiting,
              opsLeft, eventsLeft, errorsLeft, raced, rescanned, failedLoad>>

Rest == [pc |-> "rest", op |-> "none", name |-> NoScript, next |-> "rest", chain |-> 0]
MirrorOf == [unloaded |-> "uninitialized", loading |-> "starting", started |-> "started",
             stopped |-> "stopped", error |-> "unknown"]

\* Before start_all, or after it.
HostInit ==
    /\ \/ /\ mstate = [s \in Scripts |-> "unloaded"]
          /\ runtimes = {} /\ routes = {}
       \/ /\ mstate = [s \in Scripts |-> "started"]
          /\ runtimes = Scripts /\ routes = Scripts
    /\ mirror = [s \in Scripts |-> MirrorOf[mstate[s]]]
    /\ lockq = <<>> /\ readers = {}
    /\ doing = [t \in Tasks |-> Rest]
    /\ awaiting = [t \in Tasks |-> [s \in {} |-> "native"]]
    /\ opsLeft = MaxOps /\ eventsLeft = MaxEvents /\ errorsLeft = MaxLoadErrors
    /\ raced = {} /\ rescanned = {} /\ failedLoad = {}

Goto(t, pc) == doing' = [doing EXCEPT ![t].pc = pc]
Busy(s) == {t \in Tasks : doing[t].name = s /\ doing[t].pc # "rest"}
Holds(t) == t \in readers

----------------------------------------------------------------------------
\* The lock: requests queue in order and the head is granted when it is
\* compatible with the holders, so a waiting writer holds back later readers.
Request(t, mode) == lockq' = Append(lockq, [doing |-> t, mode |-> mode])

Granted(t, mode) ==
    /\ lockq # <<>> /\ Head(lockq) = [doing |-> t, mode |-> mode]
    /\ mode = "w" => readers = {}

lockVars == <<lockq, readers>>
budget == <<opsLeft, eventsLeft, errorsLeft>>
ghosts == <<raced, rescanned, failedLoad>>

----------------------------------------------------------------------------
\* A task enters a broadcast: read lock, one dispatch to every isolate.  A
\* handler returns at once, waits for a native result, leaves a promise
\* dangling, or awaits native after native without end.
Broadcast(t, next, chain) ==
    /\ doing' = [doing EXCEPT ![t].pc = "lock", ![t].next = next, ![t].chain = chain]
    /\ Request(t, "r")

Dispatch(t) ==
    /\ doing[t].pc = "lock" /\ Granted(t, "r")
    /\ lockq' = Tail(lockq) /\ readers' = readers \cup {t}
    /\ \E unsettled \in SUBSET runtimes : \E how \in [unsettled -> {"native", "dangle", "loop"}] :
         awaiting' = [awaiting EXCEPT ![t] = how]
    /\ Goto(t, "wait")
    /\ UNCHANGED <<mstate, mirror, runtimes, routes, budget, ghosts>>

Replied(t, replies) ==
    /\ awaiting' = [awaiting EXCEPT ![t] = [s \in DOMAIN awaiting[t] \ replies |-> awaiting[t][s]]]
    /\ UNCHANGED <<mstate, mirror, runtimes, routes, lockq, readers, doing, budget, ghosts>>

\* A native result comes in through the UDP task, when that is not itself
\* parked in a broadcast ...
NativeResult(t, s) ==
    /\ s \in DOMAIN awaiting[t] /\ awaiting[t][s] = "native"
    /\ doing[Udp].pc = "rest"
    /\ Replied(t, {s})

\* A slip: the await has no deadline.
NativeForever(t, s) == NativeResult(t, s)

\* ... and otherwise NATIVE_CALL_TIMEOUT ends the wait.
NativeTimeout(t, s) ==
    /\ s \in DOMAIN awaiting[t] /\ awaiting[t][s] = "native"
    /\ Replied(t, {s})

\* drive_event_loop: once the isolate's loop drains to idle, settle_ticket
\* takes the dangling promises for complete.
LoopIdle(t, s) ==
    /\ s \in DOMAIN awaiting[t] /\ awaiting[t][s] = "dangle"
    /\ \A u \in Tasks : s \in DOMAIN awaiting[u] => awaiting[u][s] = "dangle"
    /\ Replied(t, {s})

\* A slip: the lock is given up with replies still to come.
CollectEarly(t) ==
    /\ doing[t].pc = "wait"
    /\ readers' = readers \ {t}
    /\ \/ doing[t].chain + 1 <= MaxEventChain /\ Broadcast(t, doing[t].next, doing[t].chain + 1)
       \/ Goto(t, doing[t].next) /\ UNCHANGED lockq
    /\ UNCHANGED <<mstate, mirror, runtimes, routes, awaiting, budget, ghosts>>

\* All replies are in: the lock is dropped, and events the handlers queued are
\* broadcast in their turn, up to the cap on a chain.  State-bag callbacks that
\* became due are flushed the same way: one more round under the read lock.
Collect(t) ==
    /\ doing[t].pc = "wait" /\ DOMAIN awaiting[t] = {}
    /\ readers' = readers \ {t}
    /\ \/ doing[t].chain + 1 <= MaxEventChain /\ Broadcast(t, doing[t].next, doing[t].chain + 1)
       \/ Goto(t, doing[t].next) /\ UNCHANGED lockq
    /\ UNCHANGED <<mstate, mirror, runtimes, routes, awaiting, budget, ghosts>>

\* A slip: the mirror gets the manager's name of the state.
SetStateRaw(s, st) ==
    /\ mstate' = [mstate EXCEPT ![s] = st]
    /\ mirror' = [mirror EXCEPT ![s] = st]

\* A slip: the mirror is not told.
SetStateOnly(s, st) ==
    /\ mstate' = [mstate EXCEPT ![s] = st]
    /\ UNCHANGED mirror

\* set_state: the entry and its mirror in the ResourceRegistry.
SetState(s, st) ==
    /\ mstate' = [mstate EXCEPT ![s] = st]
    /\ mirror' = [mirror EXCEPT ![s] = MirrorOf[st]]

----------------------------------------------------------------------------
\* An operation begins: an API or script request, or a file change.
Begin(t, op, s) ==
    /\ t \in Managers /\ doing[t].pc = "rest" /\ opsLeft > 0
    /\ opsLeft' = opsLeft - 1
    /\ raced' = IF Busy(s) # {} THEN raced \cup {s} ELSE raced
    /\ doing' = [doing EXCEPT ![t] =
         [Rest EXCEPT !.pc = IF op = "start" THEN "start" ELSE "stop", !.op = op, !.name = s]]
    \* restart re-reads the manifest and re-registers it with the current state
    /\ mirror' = IF op = "restart" THEN [mirror EXCEPT ![s] = MirrorOf[mstate[s]]] ELSE mirror
    /\ UNCHANGED <<mstate, runtimes, routes, lockVars, awaiting, eventsLeft, errorsLeft,
                   rescanned, failedLoad>>

\* start: nothing to do for a started resource, otherwise Loading.
StartCheck(t) ==
    /\ doing[t].pc = "start"
    /\ LET s == doing[t].name IN
       IF mstate[s] = "started"
       THEN doing' = [doing EXCEPT ![t] = Rest] /\ UNCHANGED <<mstate, mirror, lockq>>
       ELSE /\ SetState(s, "loading")
            /\ Goto(t, "unmount") /\ Request(t, "w")
    /\ UNCHANGED <<runtimes, routes, readers, awaiting, budget, ghosts>>

\* A slip: the isolate goes, its routes stay.
UnregisterRuntime(s) == runtimes' = runtimes \ {s} /\ UNCHANGED routes

\* A slip: the routes go, the isolate stays.
UnregisterRoutes(s) == routes' = routes \ {s} /\ UNCHANGED runtimes

Unregister(s) == runtimes' = runtimes \ {s} /\ routes' = routes \ {s}

\* load_resource, first write lock: an old isolate goes, with its handlers.
Unmount(t) ==
    /\ doing[t].pc = "unmount" /\ Granted(t, "w")
    /\ lockq' = Tail(lockq)
    /\ Unregister(doing[t].name)
    /\ Goto(t, "execute")
    /\ UNCHANGED <<mstate, mirror, readers, awaiting, budget, ghosts>>

\* The scripts run in the fresh isolate, registering handlers as they go.
Execute(t) ==
    /\ doing[t].pc = "execute"
    /\ \E registers \in BOOLEAN :
         routes' = IF registers THEN routes \cup {doing[t].name} ELSE routes
    /\ Goto(t, "mount") /\ Request(t, "w")
    /\ UNCHANGED <<mstate, mirror, runtimes, readers, awaiting, budget, ghosts>>

\* A script is missing, cannot be decrypted or throws: the isolate is dropped
\* and the resource is in Error.
LoadFails(t) ==
    /\ doing[t].pc = "execute" /\ errorsLeft > 0
    /\ errorsLeft' = errorsLeft - 1
    /\ LET s == doing[t].name IN
       /\ \E registers \in BOOLEAN : routes' = IF registers THEN routes \cup {s} ELSE routes
       /\ failedLoad' = failedLoad \cup {s}
       /\ SetState(s, "error")
    /\ doing' = [doing EXCEPT ![t] = Rest]
    /\ UNCHANGED <<runtimes, lockVars, awaiting, opsLeft, eventsLeft, raced, rescanned>>

\* Second write lock: the isolate is published, then onResourceStart.
Mount(t) ==
    /\ doing[t].pc = "mount" /\ Granted(t, "w")
    /\ runtimes' = runtimes \cup {doing[t].name}
    /\ doing' = [doing EXCEPT ![t].pc = "lock", ![t].next = "started", ![t].chain = 1]
    /\ lockq' = Append(Tail(lockq), [doing |-> t, mode |-> "r"])
    /\ UNCHANGED <<mstate, mirror, routes, readers, awaiting, budget, ghosts>>

Started(t) ==
    /\ doing[t].pc = "started"
    /\ SetState(doing[t].name, "started")
    /\ doing' = [doing EXCEPT ![t] = Rest]
    /\ UNCHANGED <<runtimes, routes, lockVars, awaiting, budget, ghosts>>

\* stop: only a started resource is unloaded; a restart goes on to start.
StopCheck(t) ==
    /\ doing[t].pc = "stop"
    /\ IF mstate[doing[t].name] = "started" THEN Goto(t, "present") /\ Request(t, "r")
       ELSE /\ doing' = [doing EXCEPT ![t] = IF @.op = "restart" THEN [@ EXCEPT !.pc = "start"] ELSE Rest]
            /\ UNCHANGED lockq
    /\ UNCHANGED <<mstate, mirror, runtimes, routes, readers, awaiting, budget, ghosts>>

\* unload_resource: a missing isolate is an error that ends the operation.
Present(t) ==
    /\ doing[t].pc = "present" /\ Granted(t, "r")
    /\ IF doing[t].name \in runtimes
       THEN /\ doing' = [doing EXCEPT ![t].pc = "lock", ![t].next = "dismount", ![t].chain = 1]
            /\ lockq' = Append(Tail(lockq), [doing |-> t, mode |-> "r"])
       ELSE doing' = [doing EXCEPT ![t] = Rest] /\ lockq' = Tail(lockq)
    /\ UNCHANGED <<mstate, mirror, runtimes, routes, readers, awaiting, budget, ghosts>>

\* After onResourceStop: the write lock is asked for, then the isolate goes.
Dismount(t) ==
    /\ doing[t].pc = "dismount"
    /\ Goto(t, "drop") /\ Request(t, "w")
    /\ UNCHANGED <<mstate, mirror, runtimes, routes, readers, awaiting, budget, ghosts>>

DropRuntime(t) ==
    /\ doing[t].pc = "drop" /\ Granted(t, "w")
    /\ lockq' = Tail(lockq)
    /\ Unregister(doing[t].name)
    /\ Goto(t, "stopped")
    /\ UNCHANGED <<mstate, mirror, readers, awaiting, budget, ghosts>>

Stopped(t) ==
    /\ doing[t].pc = "stopped"
    /\ SetState(doing[t].name, "stopped")
    /\ doing' = [doing EXCEPT ![t] = IF @.op = "restart" THEN [@ EXCEPT !.pc = "start"] ELSE Rest]
    /\ UNCHANGED <<runtimes, routes, lockVars, awaiting, budget, ghosts>>

\* ScanResourceRoot: discover re-registers every resource as uninitialized.
Rescan(t) ==
    /\ t \in Managers /\ doing[t].pc = "rest" /\ opsLeft > 0
    /\ opsLeft' = opsLeft - 1
    /\ mirror' = [s \in Scripts |-> "uninitialized"]
    /\ rescanned' = Scripts
    /\ UNCHANGED <<mstate, runtimes, routes, lockVars, doing, awaiting, eventsLeft, errorsLeft,
                   raced, failedLoad>>

\* The UDP task broadcasts playerDropped inline when a peer disconnects.
PeerGone ==
    /\ doing[Udp].pc = "rest" /\ eventsLeft > 0
    /\ eventsLeft' = eventsLeft - 1
    /\ Broadcast(Udp, "rest", 1)
    /\ UNCHANGED <<mstate, mirror, runtimes, routes, readers, awaiting, opsLeft,
                   errorsLeft, ghosts>>

HostStep(t) ==
    \/ Dispatch(t) \/ Collect(t) \/ StartCheck(t) \/ Unmount(t) \/ Execute(t) \/ Mount(t)
    \/ Started(t) \/ StopCheck(t) \/ Present(t) \/ Dismount(t) \/ DropRuntime(t) \/ Stopped(t)

IsolateStep(t, s) == NativeTimeout(t, s) \/ LoopIdle(t, s)

HostNext ==
    \/ \E t \in Managers, op \in {"start", "stop", "restart"}, s \in Scripts : Begin(t, op, s)
    \/ \E t \in Managers : Rescan(t) \/ LoadFails(t)
    \/ \E t \in Tasks : HostStep(t)
    \/ \E t \in Tasks, s \in Scripts : IsolateStep(t, s) \/ NativeResult(t, s)
    \/ PeerGone

\* Tokio keeps polling a task that can go on, isolates run their handlers, and
\* the timer of a native call fires.
HostFairness ==
    \A t \in Tasks : WF_hostVars(HostStep(t) \/ \E s \in Scripts : IsolateStep(t, s))

HostSpec == HostInit /\ [][HostNext]_hostVars /\ HostFairness

----------------------------------------------------------------------------
\* Types of the manager's states, of their mirror and of the table of isolates.
HostTypeOK ==
    /\ mstate \in [Scripts -> {"unloaded", "loading", "started", "stopped", "error"}]
    /\ mirror \in [Scripts -> {"uninitialized", "starting", "started", "stopped", "unknown"}]
    /\ runtimes \subseteq Scripts /\ routes \subseteq Scripts
    /\ readers \subseteq Tasks

\* The manager's state and the table of isolates tell the same story once no
\* operation works on the resource: started exactly when an isolate is there.
\* Operations that overlapped on one name are excluded (see NeverStuckStarted).
LifecycleAgrees ==
    \A s \in Scripts : Busy(s) = {} /\ s \notin raced =>
        (mstate[s] = "started" <=> s \in runtimes)

\* The same without the exclusion; resource_manager.rs calls ensure an
\* "idempotent 'make it run'", but a stop that overlaps a start can leave a
\* resource Started without an isolate, which start and restart then refuse.
NeverStuckStarted ==
    \A s \in Scripts : Busy(s) = {} /\ mstate[s] = "started" => s \in runtimes

\* GetResourceState answers what the manager knows, across failed loads and
\* restarts, until a rescan has reset the mirror.
MirrorAgrees ==
    \A s \in Scripts : s \notin rescanned => mirror[s] = MirrorOf[mstate[s]]

\* host.rs on unload: a route "must stop answering with the isolate gone, or
\* the next request parks a waiter nobody can ever resolve".  Handlers are
\* registered only for an isolate that is there or being loaded, unless a load
\* of that resource has failed after registering them.
RouteHasIsolate ==
    \A s \in routes : s \in runtimes \/ s \in failedLoad \/ Busy(s) # {}

\* An isolate is never destroyed while a broadcast waits for its reply: the
\* table's lock keeps loads and unloads out until every handler has settled.
RepliesHaveIsolate == \A t \in Tasks : DOMAIN awaiting[t] \subseteq runtimes

\* The manager's states, the mirror scripts read, the table of isolates, the
\* routes and the awaited replies agree, through overlapping operations and
\* failed loads.
HostAgrees ==
    /\ HostTypeOK /\ LifecycleAgrees /\ MirrorAgrees
    /\ RouteHasIsolate /\ RepliesHaveIsolate

Wedged == \E t \in Tasks : \E s \in DOMAIN awaiting[t] : awaiting[t][s] = "loop"

\* Every operation ends, with the UDP task inside a broadcast whose handlers
\* wait for native results only it could deliver, and with writers queued
\* behind readers: unless some handler never stops awaiting natives.
OperationsEnd == []<>(Wedged \/ \A t \in Tasks : doing[t].pc = "rest")
=============================================================================
