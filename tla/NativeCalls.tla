---------------------------- MODULE NativeCalls -----------------------------
(***************************************************************************)
(* Native calls from scripts to game clients: PendingNatives (native.rs),  *)
(* op_invoke_native_on_client, the context-routed natives of rpc_natives,  *)
(* the bounded net bridge, and the UDP task at the other end of it.  A     *)
(* call is invoked by an isolate, queued, sent by the UDP task, executed   *)
(* by the client's shim, and its result comes back under the call's id,    *)
(* unless the call has timed out by then.                                  *)
(***************************************************************************)
EXTENDS Naturals, Sequences

CONSTANTS Callees,          \* clients
          BridgeCapacity,   \* NET_BRIDGE_CAPACITY
          MaxCalls, MaxOwnerMoves

NoCallee == 0
ASSUME NativeAssumption == /\ NoCallee \notin Callees
                           /\ BridgeCapacity \in Nat \ {0} /\ MaxCalls \in Nat

VARIABLES
    next_id, waiters,   \* PendingNatives
    calls,              \* per call, in order of invocation: [id, kind, to, state]
    bridge,             \* NetBridge, indices of calls
    atClient,           \* calls the client has received and not yet executed
    results,            \* calls whose result is on its way back
    simulator,          \* the client that owns the entity, NoCallee when nobody does
    present,            \* clients with a session
    ownerMoves, dropped \* calls whose isolate went away while they were awaited

natVars == <<next_id, waiters, calls, bridge, atClient, results, simulator, present, ownerMoves, dropped>>
net == <<bridge, atClient, results>>

NatInit ==
    /\ next_id = 0 /\ waiters = {} /\ calls = <<>>
    /\ bridge = <<>> /\ atClient = {} /\ results = {}
    /\ simulator \in Callees \cup {NoCallee} /\ present = Callees
    /\ ownerMoves = 0 /\ dropped = {}

----------------------------------------------------------------------------
\* A slip: the lowest free id is handed out again.
LowestFreeId == CHOOSE n \in 0..MaxCalls : n \notin waiters /\ \A m \in 0..(n - 1) : m \in waiters

NextId == next_id

\* A slip: one too many.
HasRoomLoose == Len(bridge) <= BridgeCapacity

BridgeHasRoom == Len(bridge) < BridgeCapacity

\* register, then try_send on the bridge: a full bridge cancels the call.
Queue(kind, to) ==
    /\ Len(calls) < MaxCalls
    /\ next_id' = next_id + 1
    /\ IF BridgeHasRoom
       THEN /\ waiters' = waiters \cup {NextId}
            /\ bridge' = Append(bridge, Len(calls) + 1)
            /\ calls' = Append(calls, [id |-> NextId, kind |-> kind, to |-> to, state |-> "queued"])
       ELSE /\ calls' = Append(calls, [id |-> NextId, kind |-> kind, to |-> to, state |-> "refused"])
            /\ UNCHANGED <<waiters, bridge>>
    /\ UNCHANGED <<atClient, results, simulator, present, ownerMoves, dropped>>

\* op_invoke_native_on_client: awaited or not.
Invoke(kind, to) == kind \in {"await", "forget"} /\ Queue(kind, to)

\* resolve_target for an entity: its owner, and no call when there is none.
resolve_target == simulator

DispatchContext == resolve_target # NoCallee /\ Queue("context", resolve_target)

\* A slip: the waiter of a call nobody awaits is kept.
ReleaseNot(k) ==
    /\ calls[k].state = "queued" /\ calls[k].kind # "await"
    /\ calls' = [calls EXCEPT ![k].state = "released"]
    /\ UNCHANGED <<next_id, waiters, net, simulator, present, ownerMoves, dropped>>

\* Nobody waits for a fire-and-forget or context call: its id is released.
Release(k) ==
    /\ calls[k].state = "queued" /\ calls[k].kind # "await"
    /\ calls' = [calls EXCEPT ![k].state = "released"]
    /\ waiters' = waiters \ {calls[k].id}
    /\ UNCHANGED <<next_id, net, simulator, present, ownerMoves, dropped>>

\* A slip: the await has no deadline.
TimeoutNever(k) == FALSE /\ UNCHANGED natVars

\* NATIVE_CALL_TIMEOUT.
NatTimeout(k) ==
    /\ calls[k].state = "queued" /\ calls[k].kind = "await" /\ k \notin dropped
    /\ calls' = [calls EXCEPT ![k].state = "timedout"]
    /\ waiters' = waiters \ {calls[k].id}
    /\ UNCHANGED <<next_id, net, simulator, present, ownerMoves, dropped>>

\* The isolate goes away with the awaiting future: nothing cancels the id.
DropAwaiting(k) ==
    /\ calls[k].state = "queued" /\ calls[k].kind = "await" /\ k \notin dropped
    /\ dropped' = dropped \cup {k}
    /\ UNCHANGED <<next_id, waiters, calls, net, simulator, present, ownerMoves>>

----------------------------------------------------------------------------
\* The UDP task drains the bridge; a call to an absent client is lost.
UdpSends ==
    /\ bridge # <<>> /\ bridge' = Tail(bridge)
    /\ atClient' = IF calls[Head(bridge)].to \in present THEN atClient \cup {Head(bridge)} ELSE atClient
    /\ UNCHANGED <<next_id, waiters, calls, results, simulator, present, ownerMoves, dropped>>

\* The shim executes a call and replies; it may take any time.
Executes(k) ==
    /\ k \in atClient /\ atClient' = atClient \ {k}
    /\ results' = results \cup {k}
    /\ UNCHANGED <<next_id, waiters, calls, bridge, simulator, present, ownerMoves, dropped>>

\* The call that waits under an id, if there is one.
Awaiting(id) == {k \in DOMAIN calls : calls[k].id = id /\ calls[k].state = "queued"
                                      /\ calls[k].kind = "await" /\ k \notin dropped}

\* __baston:nativeResult: resolve hands the result to whoever waits under its
\* id, or to nobody.
Resolve(k) ==
    /\ k \in results /\ results' = results \ {k}
    /\ waiters' = waiters \ {calls[k].id}
    /\ calls' = [j \in DOMAIN calls |->
                   IF calls[k].id \in waiters /\ j \in Awaiting(calls[k].id)
                   THEN [calls[j] EXCEPT !.state = IF j = k THEN "answered" ELSE "misled"]
                   ELSE calls[j]]
    /\ UNCHANGED <<next_id, bridge, atClient, simulator, present, ownerMoves, dropped>>

\* The entity migrates to another client; a client leaves with what it had.
OwnerMoves(c) ==
    /\ ownerMoves < MaxOwnerMoves /\ ownerMoves' = ownerMoves + 1
    /\ c # simulator /\ simulator' = c
    /\ UNCHANGED <<next_id, waiters, calls, net, present, dropped>>

Leaves(c) ==
    /\ c \in present /\ present' = present \ {c}
    /\ atClient' = {k \in atClient : calls[k].to # c}
    /\ simulator' = IF simulator = c THEN NoCallee ELSE simulator
    /\ UNCHANGED <<next_id, waiters, calls, bridge, results, ownerMoves, dropped>>

NatStep == UdpSends \/ \E k \in DOMAIN calls : Release(k) \/ NatTimeout(k)

NatNext ==
    \/ NatStep \/ DispatchContext
    \/ \E kind \in {"await", "forget"}, c \in Callees : Invoke(kind, c)
    \/ \E k \in DOMAIN calls : Executes(k) \/ Resolve(k) \/ DropAwaiting(k)
    \/ \E c \in Callees : OwnerMoves(c) \/ Leaves(c)

\* The UDP task and the timers run; clients promise nothing.
NatFairness == WF_natVars(NatStep)

NatSpec == NatInit /\ [][NatNext]_natVars /\ NatFairness

----------------------------------------------------------------------------
CallStates == {"queued", "refused", "released", "timedout", "answered", "misled"}

\* The counter numbers the calls, waiter ids are ids already handed out, and the
\* bridge holds no more than its capacity.
NatTypeOK ==
    /\ calls \in Seq([id : Nat, kind : {"await", "forget", "context"}, to : Callees, state : CallStates])
    /\ next_id = Len(calls) /\ next_id <= MaxCalls
    /\ \A k \in DOMAIN calls : calls[k].id = k - 1
    /\ waiters \subseteq {calls[k].id : k \in DOMAIN calls}
    /\ bridge \in Seq(DOMAIN calls) /\ Len(bridge) <= BridgeCapacity
    /\ atClient \cup results \cup dropped \subseteq DOMAIN calls
    /\ simulator \in Callees \cup {NoCallee} /\ present \subseteq Callees

\* PendingNatives never keeps a dead entry: an id is in the table only for a
\* call that is awaited or about to be released; except when the isolate of an
\* awaited call went away before an answer.
NoWaiterLeak ==
    \A id \in waiters : \E k \in DOMAIN calls :
        calls[k].id = id /\ (calls[k].state = "queued" \/ k \in dropped)

\* A call is answered by its own result: a result that comes after the timeout
\* never reaches another call.
OwnResultOnly == \A k \in DOMAIN calls : calls[k].state # "misled"

\* Native calls keep their books: a waiter exists exactly while its call is
\* open, and a call gets its own result or none.
NativesSafe ==
    /\ NatTypeOK /\ NoWaiterLeak /\ OwnResultOnly

\* An awaited call comes back, with a result or an error, whatever the client,
\* the bridge and the entity's owner do.
CallReturns == []<>(\A k \in DOMAIN calls \ dropped : calls[k].state # "queued")
=============================================================================
