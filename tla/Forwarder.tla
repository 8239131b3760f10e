----------------------------- MODULE Forwarder -----------------------------
(***************************************************************************)
(* The mesh forwarder of the gateway, for the messages of one player: the   *)
(* shard's bounded queue, the task that serves it, the hold after a handoff *)
(* commit and the timer tasks that end it.  It implements OrderedChannel.   *)
(*                                                                         *)
(* The messages of one player all go through one shard.  An update carries  *)
(* its number; the coordinates matter only for the first, which re-homes    *)
(* the player.                                                             *)
(***************************************************************************)
EXTENDS Naturals, Sequences, FiniteSets

CONSTANTS
    FwdZones,        \* zone servers
    NoFwdZone,       \* no route
    ForwardCapacity, \* FORWARD_CAPACITY: bound of the shard's queue
    MaxUpdates,      \* bound: updates of the player
    MaxCommits       \* bound: handoff commits of the player

ASSUME FwdAssumption == /\ ForwardCapacity \in Nat \ {0} /\ MaxUpdates \in Nat /\ MaxCommits \in Nat
                        /\ NoFwdZone \notin FwdZones

VARIABLES
    fwdQueue,     \* the shard's mpsc queue
    deferred,     \* control messages whose task waits for room in the queue
    hold,         \* holds[source]: its buffer and whether 50ms have passed
    timers,       \* tasks that sleep or wait to send FlushHold
    fwdHomed,     \* homed: the first update was seen
    fwdRoute,     \* ConnectionRouter: the zone of the player
    connected,    \* the client is connected
    sent,         \* updates received from the client
    published,    \* updates published to NATS, with the zone
    commits,      \* handoff commits so far
    lost          \* why updates were lost: "full", "replaced", "left"

fwdVars == <<fwdQueue, deferred, hold, timers, fwdHomed, fwdRoute, connected,
             sent, published, commits, lost>>

Update(n) == [kind |-> "Update", n |-> n]
BeginHold == [kind |-> "BeginHold", n |-> 0]
FlushHold == [kind |-> "FlushHold", n |-> 0]
Dropped == [kind |-> "Dropped", n |-> 0]
Messages == {BeginHold, FlushHold, Dropped} \cup {Update(n) : n \in 1 .. MaxUpdates}

NoHold == [on |-> FALSE, expired |-> FALSE, buf |-> <<>>]
NewHold == [on |-> TRUE, expired |-> FALSE, buf |-> <<>>]

FwdInit ==
    /\ fwdQueue = <<>> /\ deferred = <<>> /\ hold = NoHold /\ timers = 0
    /\ fwdHomed = FALSE
    /\ fwdRoute \in FwdZones
    /\ connected = TRUE
    /\ sent = 0 /\ published = <<>> /\ commits = 0 /\ lost = {}

\* A slip: one message too many.
HasRoomLoose == Len(fwdQueue) <= ForwardCapacity

HasRoom == Len(fwdQueue) < ForwardCapacity

-----------------------------------------------------------------------------
(* MeshForwarder: the sync side.                                            *)

\* forward: a full queue drops the update.
Forward ==
    /\ connected /\ sent < MaxUpdates
    /\ sent' = sent + 1
    /\ fwdQueue' = IF HasRoom THEN Append(fwdQueue, Update(sent + 1)) ELSE fwdQueue
    /\ lost' = IF HasRoom THEN lost ELSE lost \cup {"full"}
    /\ UNCHANGED <<deferred, hold, timers, fwdHomed, fwdRoute, connected, published, commits>>

\* send_control: a full queue leaves the message to a task of its own.
SendControl(m) ==
    /\ fwdQueue' = IF HasRoom THEN Append(fwdQueue, m) ELSE fwdQueue
    /\ deferred' = IF HasRoom THEN deferred ELSE Append(deferred, m)

\* The deferred tasks but the k-th.
OthersDeferred(k) == SubSeq(deferred, 1, k - 1) \o SubSeq(deferred, k + 1, Len(deferred))

\* The deferred tasks run in any order once there is room.
SendDeferred ==
    /\ HasRoom
    /\ \E k \in DOMAIN deferred : /\ fwdQueue' = Append(fwdQueue, deferred[k])
                                  /\ deferred' = OthersDeferred(k)
    /\ UNCHANGED <<hold, timers, fwdHomed, fwdRoute, connected, sent, published, commits, lost>>

\* confirm_handoff, from a zone that hosts the player: the route changes, whether
\* or not the client is still there, then the hook begins the hold.
Commit ==
    /\ commits < MaxCommits /\ published # <<>>
    /\ commits' = commits + 1
    /\ \E z \in FwdZones \ {fwdRoute} : fwdRoute' = z
    /\ SendControl(BeginHold)
    /\ UNCHANGED <<hold, timers, fwdHomed, connected, sent, published, lost>>

\* Routing-table hygiene, every 10s: routes of clients that are gone.
SweepRoutes ==
    /\ ~connected
    /\ fwdRoute' = NoFwdZone
    /\ UNCHANGED <<fwdQueue, deferred, hold, timers, fwdHomed, connected, sent, published, commits, lost>>

PlayerDropped ==
    /\ connected
    /\ connected' = FALSE
    /\ SendControl(Dropped)
    /\ UNCHANGED <<hold, timers, fwdHomed, fwdRoute, sent, published, commits, lost>>

\* 50ms have passed since the hold began.
HoldExpires ==
    /\ hold.on /\ ~hold.expired
    /\ hold' = [hold EXCEPT !.expired = TRUE]
    /\ UNCHANGED <<fwdQueue, deferred, timers, fwdHomed, fwdRoute, connected, sent, published, commits, lost>>

\* A slip: the timer gives up when the queue is full.
TimerGivesUp ==
    /\ timers > 0
    /\ timers' = timers - 1
    /\ fwdQueue' = IF HasRoom THEN Append(fwdQueue, FlushHold) ELSE fwdQueue
    /\ UNCHANGED <<deferred, hold, fwdHomed, fwdRoute, connected, sent, published, commits, lost>>

\* The timer task, 55ms after its BeginHold, waits for room and sends FlushHold.
TimerFires ==
    /\ timers > 0 /\ HasRoom
    /\ timers' = timers - 1
    /\ fwdQueue' = Append(fwdQueue, FlushHold)
    /\ UNCHANGED <<deferred, hold, fwdHomed, fwdRoute, connected, sent, published, commits, lost>>

-----------------------------------------------------------------------------
(* run: the task that serves the shard.                                     *)

\* publish: to the zone of the moment; without a zone the update is dropped.
Publish(route, ns) ==
    IF route = NoFwdZone
    THEN /\ UNCHANGED published
         /\ lost' = IF ns = <<>> THEN lost ELSE lost \cup {"left"}
    ELSE /\ published' = published \o [k \in DOMAIN ns |-> [n |-> ns[k], to |-> route]]
         /\ UNCHANGED lost

\* A slip: the update goes ahead of what the expired hold has buffered.
FlushedAfter(buf, n) == <<n>> \o buf

\* An update that meets an expired hold goes after what that has buffered.
Flushed(buf, n) == Append(buf, n)

ServeUpdate(n) ==
    /\ fwdHomed' = TRUE
    /\ \E z \in IF fwdHomed THEN {fwdRoute} ELSE FwdZones :
        /\ fwdRoute' = z
        /\ IF hold.on /\ ~hold.expired
           THEN /\ hold' = [hold EXCEPT !.buf = Append(@, n)]
                /\ UNCHANGED <<published, lost>>
           ELSE /\ hold' = NoHold
                /\ Publish(z, Flushed(hold.buf, n))
    /\ UNCHANGED timers

\* A second hold replaces the first, and with it what the first had buffered.
ServeBeginHold ==
    /\ hold' = NewHold
    /\ timers' = timers + 1
    /\ lost' = IF hold.buf = <<>> THEN lost ELSE lost \cup {"replaced"}
    /\ UNCHANGED <<fwdHomed, fwdRoute, published>>

ServeFlushHold ==
    /\ hold' = NoHold
    /\ Publish(fwdRoute, hold.buf)
    /\ UNCHANGED <<timers, fwdHomed, fwdRoute>>

\* A slip: the homed entry outlives the client.
ServeDroppedHomed ==
    /\ hold' = NoHold
    /\ fwdRoute' = NoFwdZone
    /\ lost' = IF hold.buf = <<>> THEN lost ELSE lost \cup {"left"}
    /\ UNCHANGED <<timers, fwdHomed, published>>

\* Dropped: release_in_zone, then the route is forgotten.
ServeDropped ==
    /\ hold' = NoHold
    /\ fwdHomed' = FALSE
    /\ fwdRoute' = NoFwdZone
    /\ lost' = IF hold.buf = <<>> THEN lost ELSE lost \cup {"left"}
    /\ UNCHANGED <<timers, published>>

Serve ==
    /\ fwdQueue # <<>>
    /\ fwdQueue' = Tail(fwdQueue)
    /\ LET m == Head(fwdQueue) IN
       \/ m.kind = "Update" /\ ServeUpdate(m.n)
       \/ m.kind = "BeginHold" /\ ServeBeginHold
       \/ m.kind = "FlushHold" /\ ServeFlushHold
       \/ m.kind = "Dropped" /\ ServeDropped
    /\ UNCHANGED <<deferred, connected, sent, commits>>

-----------------------------------------------------------------------------

FwdNext ==
    \/ Forward \/ SendDeferred \/ Commit \/ PlayerDropped
    \/ SweepRoutes \/ HoldExpires \/ TimerFires \/ Serve

\* Tokio runs the shard task, the timers, the deferred sends and the sweep.
FwdFairness ==
    /\ WF_fwdVars(Serve) /\ WF_fwdVars(TimerFires)
    /\ WF_fwdVars(SendDeferred) /\ WF_fwdVars(SweepRoutes)

FwdSpec == FwdInit /\ [][FwdNext]_fwdVars /\ FwdFairness

-----------------------------------------------------------------------------
(* Properties.                                                              *)

\* Types: the queue stays within its capacity, the hold buffers update numbers.
FwdTypeOK ==
    /\ fwdQueue \in Seq(Messages) /\ Len(fwdQueue) <= ForwardCapacity
    /\ deferred \in Seq({BeginHold, Dropped})
    /\ hold \in [on : BOOLEAN, expired : BOOLEAN, buf : Seq(1 .. MaxUpdates)]
    /\ timers \in Nat /\ fwdHomed \in BOOLEAN /\ connected \in BOOLEAN
    /\ fwdRoute \in FwdZones \cup {NoFwdZone}
    /\ sent \in 0 .. MaxUpdates /\ commits \in 0 .. MaxCommits
    /\ published \in Seq([n : 1 .. MaxUpdates, to : FwdZones])
    /\ lost \subseteq {"full", "replaced", "left"}

Channel == INSTANCE OrderedChannel WITH
               offered <- sent,
               delivered <- [k \in DOMAIN published |-> published[k].n]

\* The forwarder implements the ordered channel: through holds, expiries that
\* beat their flush, flushes of an earlier hold and deferred control messages, no
\* update of a player is published twice or after a later one.
ForwardsInOrder == Channel!ChannelSpec

\* What the order rests on: read from the zones back to the queue, the numbers of
\* the published, the held and the queued updates ascend up to the last one sent,
\* although control messages overtake each other; only a hold buffers.
OrderKept ==
    /\ FwdTypeOK
    /\ ~hold.on => hold.buf = <<>>
    /\ \A k \in DOMAIN published : published[k].n <= sent
    /\ \A k \in DOMAIN hold.buf : hold.buf[k] <= sent
    /\ \A k \in DOMAIN fwdQueue : fwdQueue[k].n <= sent
    /\ \A j, k \in DOMAIN published : j < k => published[j].n < published[k].n
    /\ \A j, k \in DOMAIN hold.buf : j < k => hold.buf[j] < hold.buf[k]
    /\ \A j, k \in DOMAIN fwdQueue :
          j < k /\ fwdQueue[k].kind = "Update" => fwdQueue[j].n < fwdQueue[k].n
    /\ \A j \in DOMAIN published, k \in DOMAIN hold.buf : published[j].n < hold.buf[k]
    /\ \A k \in DOMAIN fwdQueue : fwdQueue[k].kind = "Update" =>
          /\ \A j \in DOMAIN published : published[j].n < fwdQueue[k].n
          /\ \A j \in DOMAIN hold.buf : hold.buf[j] < fwdQueue[k].n

Published == {published[k].n : k \in DOMAIN published}

\* The forwarder catches up again and again: every update received so far has
\* reached a zone, unless the queue was full, a second hold replaced the buffer of
\* the first, or the player left.  A hold never strands what it buffered (the
\* FlushHold timer awaits room in the queue rather than giving up).
NoneStranded == []<>(lost # {} \/ 1 .. sent \subseteq Published)

\* A client that left leaves nothing behind in the forwarder: in the end there is
\* no route, no hold and no homed entry for it, although a commit may come after
\* the drop and control messages may be deferred past each other.
LeaverForgotten == <>[](connected \/ (fwdRoute = NoFwdZone /\ ~fwdHomed /\ ~hold.on))
=============================================================================
