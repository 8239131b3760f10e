----------------------------- MODULE StateSync -----------------------------
(***************************************************************************)
(* The state pipeline: from the entity store of a zone to what a client     *)
(* knows of the world.                                                     *)
(*                                                                         *)
(*   EntityManager  --dirty queue-->  StateSyncEmitter  --JetStream-->      *)
(*   StateAggregator.world_state  --push loop-->  UDP planes  -->  client   *)
(*                                                                         *)
(* A write to the store and the mark it leaves in the dirty queue are two   *)
(* critical sections: `marks' holds the writes that have left the first and *)
(* not reached the second.  Snapshots travel to the client on two queues of *)
(* the UDP task; the control queue is always served before the sync queue.  *)
(*                                                                         *)
(* Every player drives one ped, whose id is the player's source id here.    *)
(* An entity's state is its place and its network owner; the other fields   *)
(* take the same way as the place.                                         *)
(***************************************************************************)
EXTENDS Integers, Sequences, Functions, FiniteSets, TLC

CONSTANTS
    Peds,          \* the players, each standing for its own ped
    Vehicles,      \* entities that are owned by the nearest player
    NoOwner,       \* no network owner
    Absent,        \* no entity, no entry
    Places,        \* coordinates, on a line
    AoiRadius,     \* StateAggregator.aoi_radius
    MaxWrites,     \* bound: writes to the entity store
    MaxWriters,    \* bound: threads between the two critical sections
    MaxBacklog,    \* STATE stream limit: batches kept for a slow reader
    MaxFaults      \* bound: races, lost publications, evictions, lost packets

VARIABLES
    entities,     \* EntityManager.entities
    marks,        \* writes whose mark_dirty (or DELETED insert) is still to come
    dirty,        \* EntityManager.dirty_queue
    stream,       \* BASTON_STATE: published batches not yet merged
    world,        \* StateAggregator.world_state
    tracker,      \* ClientEntityTracker.last_sent of every client
    control,      \* UDP control plane: reliable snapshots of every client
    sync,         \* UDP sync plane: unreliable snapshots of every client
    known,        \* the loadtest client's copy of the world
    desyncs,      \* the loadtest client's desync counter is above zero
    joined,       \* players whose ped was spawned once
    writes,       \* writes so far
    faults        \* what went wrong so far: a set of fault names

syncVars == <<entities, marks, dirty, stream, world, tracker, control, sync,
              known, desyncs, joined, writes, faults>>

Ids == Peds \cup Vehicles
Owners == Peds \cup {NoOwner}
EntityState == [at : Places, owner : Owners]
Fields == {"at", "owner"}
Dirty == [id : Ids, del : BOOLEAN, st : EntityState]

ASSUME SyncAssumption ==
    /\ MaxWrites \in Nat /\ MaxWriters \in Nat \ {0} /\ MaxBacklog \in Nat \ {0}
    /\ AoiRadius \in Nat /\ Places \subseteq Int
    /\ Peds \cap Vehicles = {} /\ NoOwner \notin Peds
    /\ Absent \notin EntityState /\ Absent \notin Dirty

Faults == {"raced", "swallowed", "lost", "evicted", "dropped", "overtaken"}

\* Some fields of an entity.
Partial == {[f \in F |-> st[f]] : F \in SUBSET Fields, st \in EntityState}
EntityOp == [op : {"Upsert"}, id : Ids, st : EntityState]
            \cup [op : {"Delta"}, id : Ids, st : Partial]
            \cup [op : {"Delete"}, id : Ids, st : {Absent}]

\* Each fault is a class of events; a behaviour may meet MaxFaults classes.
Fault(f) == /\ Cardinality(faults \cup {f}) <= MaxFaults
            /\ faults' = faults \cup {f}

SyncInit ==
    /\ entities = [i \in Ids |-> Absent]
    /\ marks = <<>>
    /\ dirty = [i \in Ids |-> Absent]
    /\ stream = <<>>
    /\ world = [i \in Ids |-> Absent]
    /\ tracker = [c \in Peds |-> [i \in Ids |-> Absent]]
    /\ control = [c \in Peds |-> <<>>]
    /\ sync = [c \in Peds |-> <<>>]
    /\ known = [c \in Peds |-> [i \in Ids |-> Absent]]
    /\ desyncs = FALSE
    /\ joined = {}
    /\ writes = 0
    /\ faults = {}

-----------------------------------------------------------------------------
(* EntityManager: the first critical section of a write.                    *)

Write(i, st, del) ==
    /\ writes < MaxWrites
    /\ Len(marks) < MaxWriters
    /\ writes' = writes + 1
    /\ entities' = [entities EXCEPT ![i] = IF del THEN Absent ELSE st]
    /\ marks' = Append(marks, [id |-> i, del |-> del, st |-> st])
    /\ UNCHANGED <<dirty, stream, world, tracker, control, sync, known, desyncs, faults>>

\* spawn_entity: the ped of a player (spawn_player_entity, once per source), or
\* a vehicle a client registered or a handoff restored.
SpawnEntity(i, at) ==
    /\ entities[i] = Absent
    /\ i \notin joined
    /\ joined' = joined \cup ({i} \cap Peds)
    /\ \E o \in IF i \in Peds THEN {i} ELSE {p \in Peds : entities[p] # Absent} :
           Write(i, [at |-> at, owner |-> o], FALSE)

\* update_entity: an update that changes nothing publishes nothing.
UpdateEntity(i, at) ==
    /\ entities[i] # Absent
    /\ entities[i].at # at
    /\ Write(i, [entities[i] EXCEPT !.at = at], FALSE)
    /\ UNCHANGED joined

\* remove_entity.
RemoveEntity(i) ==
    /\ entities[i] # Absent
    /\ Write(i, entities[i], TRUE)
    /\ UNCHANGED joined

Distance(a, b) == IF a <= b THEN b - a ELSE a - b

\* assign_network_owner: a nearest player, none when nobody is connected.
Nearest(at) ==
    LET online == {p \in Peds : entities[p] # Absent} IN
    IF online = {} THEN {NoOwner}
    ELSE {p \in online : \A q \in online :
             Distance(entities[p].at, at) <= Distance(entities[q].at, at)}

\* OwnershipMonitor::scan, for one vehicle, and set_network_owner.
ScanOwner(v) ==
    /\ entities[v] # Absent
    /\ \E best \in Nearest(entities[v].at) :
           /\ best # entities[v].owner
           /\ Write(v, [entities[v] EXCEPT !.owner = best], FALSE)
    /\ UNCHANGED joined

-----------------------------------------------------------------------------
(* The second critical section: mark_dirty, and remove_entity's insert.     *)

\* A mark is out of order when an earlier write to its entity has yet to mark.
Overtakes(n) == \E k \in 1 .. n - 1 : marks[k].id = marks[n].id

Pending(m) == dirty[m.id] # Absent /\ dirty[m.id].del

\* A slip: the record queued first stays.
CoalescedFirst(m) == IF dirty[m.id] # Absent THEN dirty ELSE [dirty EXCEPT ![m.id] = m]

\* A later record replaces the queued one, which a deletion resists.
Coalesced(m) == IF ~m.del /\ Pending(m) THEN dirty ELSE [dirty EXCEPT ![m.id] = m]

\* A queue without its n-th entry.
Without(q, n) == SubSeq(q, 1, n - 1) \o SubSeq(q, n + 1, Len(q))

MarkDirty(n) ==
    LET m == marks[n] IN
    /\ marks' = Without(marks, n)
    /\ dirty' = Coalesced(m)
    /\ CASE Overtakes(n) -> Fault("raced")
         [] ~Overtakes(n) /\ ~m.del /\ Pending(m) -> Fault("swallowed")
         [] OTHER -> UNCHANGED faults
    /\ UNCHANGED <<entities, stream, world, tracker, control, sync, known, desyncs, joined, writes>>

-----------------------------------------------------------------------------
(* StateSyncEmitter and JetStream.                                          *)

DirtyIds == {i \in Ids : dirty[i] # Absent}
Drained == [i \in Ids |-> Absent]

\* emit_once: drain the queue and publish one batch.  A failed publication is
\* logged and forgotten; a full stream evicts its oldest batch.
EmitOnce ==
    /\ DirtyIds # {}
    /\ dirty' = Drained
    /\ \/ /\ Len(stream) < MaxBacklog
          /\ stream' = Append(stream, dirty)
          /\ UNCHANGED faults
       \/ /\ Len(stream) = MaxBacklog
          /\ stream' = Append(Tail(stream), dirty)
          /\ Fault("evicted")
       \/ /\ Fault("lost")
          /\ UNCHANGED stream
    /\ UNCHANGED <<entities, marks, world, tracker, control, sync, known, desyncs, joined, writes>>

\* What an entity is after a dirty record.
After(d) == IF d.del THEN Absent ELSE d.st

\* merge_batch: last write wins.
MergeBatch ==
    /\ stream # <<>>
    /\ stream' = Tail(stream)
    /\ world' = [i \in Ids |-> IF Head(stream)[i] = Absent THEN world[i] ELSE After(Head(stream)[i])]
    /\ UNCHANGED <<entities, marks, dirty, tracker, control, sync, known, desyncs, joined, writes, faults>>

-----------------------------------------------------------------------------
(* The push loop.                                                           *)

\* The owner is the authority on its own entities; the rest is culled by range.
Visible(c) == {i \in Ids : /\ world[i] # Absent
                           /\ world[i].owner # c
                           /\ Distance(entities[c].at, world[i].at) <= AoiRadius}

Changed(old, new) == {f \in Fields : old[f] # new[f]}

\* build_delta: the fields in which the baseline differs.
Delta(c, i) == [op |-> "Delta", id |-> i,
                st |-> [f \in Changed(tracker[c][i], world[i]) |-> world[i][f]]]
Upsert(i) == [op |-> "Upsert", id |-> i, st |-> world[i]]
Delete(i) == [op |-> "Delete", id |-> i, st |-> Absent]

\* A slip: everything out of range is deleted, known to the client or not.
GoneAll(c, tracked) == {i \in Ids : world[i] # Absent} \ Visible(c)

\* The entities a client has and should not have any more.
Gone(c, tracked) == tracked \ Visible(c)

\* compute_client_ops_from: `due' are the known entities whose rate limit has
\* passed.
ClientOps(c, due) ==
    LET tracked == {i \in Ids : tracker[c][i] # Absent} IN
    {Upsert(i) : i \in Visible(c) \ tracked}
    \cup {Delta(c, i) : i \in {j \in Visible(c) \cap due : Changed(tracker[c][j], world[j]) # {}}}
    \cup {Delete(i) : i \in Gone(c, tracked)}

\* A slip: a delta leaves the baseline where it was.
BaselineFirst(c, due) ==
    [i \in Ids |-> CASE i \notin Visible(c) -> Absent
                     [] i \in Visible(c) /\ tracker[c][i] = Absent -> world[i]
                     [] OTHER -> tracker[c][i]]

\* last_sent once the operations are computed.
Baseline(c, due) ==
    [i \in Ids |-> CASE i \notin Visible(c) -> Absent
                     [] i \in Visible(c) /\ (tracker[c][i] = Absent \/ i \in due) -> world[i]
                     [] OTHER -> tracker[c][i]]

\* A slip: deletions wait for something else to be sent.
WorthUnlessDeletes(ops) == \E o \in ops : o.op # "Delete"

\* An empty snapshot is not sent.
Worth(ops) == ops # {}

\* push_to_client: creates and deletes go by the control plane, a snapshot of
\* deltas alone by the sync plane.  A full queue drops the snapshot.
PushToClient(c) ==
    /\ entities[c] # Absent
    /\ \E due \in SUBSET {i \in Ids : tracker[c][i] # Absent} :
           LET ops == ClientOps(c, due)
               reliable == \E o \in ops : o.op # "Delta"
           IN  /\ Worth(ops)
               /\ tracker' = [tracker EXCEPT ![c] = Baseline(c, due)]
               /\ \/ /\ control' = IF reliable THEN [control EXCEPT ![c] = Append(@, ops)] ELSE control
                     /\ sync' = IF reliable THEN sync ELSE [sync EXCEPT ![c] = Append(@, ops)]
                     /\ UNCHANGED faults
                  \/ Fault("dropped") /\ UNCHANGED <<control, sync>>
    /\ UNCHANGED <<entities, marks, dirty, stream, world, known, desyncs, joined, writes>>

\* A player that left loses its tracker; what is still queued for it is dropped.
DropTracker(c) ==
    /\ entities[c] = Absent
    /\ tracker[c] # Drained \/ control[c] # <<>> \/ sync[c] # <<>> \/ known[c] # Drained
    /\ tracker' = [tracker EXCEPT ![c] = Drained]
    /\ control' = [control EXCEPT ![c] = <<>>]
    /\ sync' = [sync EXCEPT ![c] = <<>>]
    /\ known' = [known EXCEPT ![c] = Drained]
    /\ UNCHANGED <<entities, marks, dirty, stream, world, desyncs, joined, writes, faults>>

-----------------------------------------------------------------------------
(* The client: Client::consume_snapshot of the load test.                   *)

\* A slip: a delta for an unknown entity creates it.
PatchedBlind(old, delta) == IF old = Absent THEN delta ELSE delta @@ old

\* A delta on the client's copy.
Patched(old, delta) ==
    IF old = Absent THEN Absent
    ELSE [f \in Fields |-> IF f \in DOMAIN delta THEN delta[f] ELSE old[f]]

\* An entity after the operations on it in a snapshot.
Turned(old, mine) ==
    IF mine = {} THEN old
    ELSE LET o == CHOOSE o \in mine : TRUE IN
         CASE o.op = "Upsert" -> o.st
           [] o.op = "Delete" -> Absent
           [] o.op = "Delta" -> Patched(old, o.st)

\* The client's copy after a snapshot; a delta or a delete for an entity the
\* client does not know is a desync.
Apply(copy, ops) == [i \in Ids |-> Turned(copy[i], {o \in ops : o.id = i})]

Desynced(copy, ops) == \E o \in ops : o.op # "Upsert" /\ copy[o.id] = Absent

Consume(c, ops) ==
    /\ known' = [known EXCEPT ![c] = Apply(@, ops)]
    /\ desyncs' = (desyncs \/ Desynced(known[c], ops))

\* The UDP task serves the control plane first; ENet keeps a channel's order.
\* A control snapshot overtakes the deltas that wait in the sync plane.
DeliverControl(c) ==
    /\ control[c] # <<>>
    /\ control' = [control EXCEPT ![c] = Tail(@)]
    /\ Consume(c, Head(control[c]))
    /\ IF sync[c] # <<>> THEN Fault("overtaken") ELSE UNCHANGED faults
    /\ UNCHANGED <<entities, marks, dirty, stream, world, tracker, sync, joined, writes>>

DeliverSync(c) ==
    /\ control[c] = <<>> /\ sync[c] # <<>>
    /\ sync' = [sync EXCEPT ![c] = Tail(@)]
    /\ \/ Consume(c, Head(sync[c])) /\ UNCHANGED faults
       \/ Fault("dropped") /\ UNCHANGED <<known, desyncs>>
    /\ UNCHANGED <<entities, marks, dirty, stream, world, tracker, control, joined, writes>>

-----------------------------------------------------------------------------

SyncNext ==
    \/ \E i \in Ids, at \in Places : SpawnEntity(i, at) \/ UpdateEntity(i, at)
    \/ \E i \in Ids : RemoveEntity(i)
    \/ \E v \in Vehicles : ScanOwner(v)
    \/ \E n \in DOMAIN marks : MarkDirty(n)
    \/ EmitOnce
    \/ MergeBatch
    \/ \E c \in Peds : \/ PushToClient(c) \/ DropTracker(c)
                       \/ DeliverControl(c) \/ DeliverSync(c)

\* Every writer marks, the emitter and the push loop tick for ever, the
\* subscriber and the UDP task drain their queues.
SyncFairness ==
    /\ WF_syncVars(marks # <<>> /\ MarkDirty(1))
    /\ WF_syncVars(EmitOnce)
    /\ WF_syncVars(MergeBatch)
    /\ \A c \in Peds : /\ WF_syncVars(PushToClient(c))
                       /\ WF_syncVars(DeliverControl(c))
                       /\ WF_syncVars(DeliverSync(c))

SyncSpec == SyncInit /\ [][SyncNext]_syncVars /\ SyncFairness

-----------------------------------------------------------------------------
(* Properties.                                                              *)

Table(S) == [Ids -> S \cup {Absent}]

\* Types: the store, the queues, the aggregated world, every client's
\* baseline and copy hold entity states.
SyncTypeOK ==
    /\ entities \in Table(EntityState)
    /\ marks \in Seq(Dirty) /\ Len(marks) <= MaxWriters
    /\ dirty \in Table(Dirty)
    /\ stream \in Seq(Table(Dirty)) /\ Len(stream) <= MaxBacklog
    /\ world \in Table(EntityState)
    /\ tracker \in [Peds -> Table(EntityState)]
    /\ known \in [Peds -> Table(EntityState)]
    /\ \A c \in Peds : \A ops \in Range(control[c]) \cup Range(sync[c]) : ops \subseteq EntityOp
    /\ joined \subseteq Peds /\ writes \in 0 .. MaxWrites /\ faults \subseteq Faults

LastOf(s, Test(_), default) ==
    LET hits == {n \in DOMAIN s : Test(s[n])} IN
    IF hits = {} THEN default ELSE s[CHOOSE n \in hits : \A k \in hits : k <= n]

\* The last word on an entity that is under way from the store to the world.
LastWord(i) ==
    LET m == LastOf(marks, LAMBDA d : d.id = i, Absent)
        b == LastOf(stream, LAMBDA batch : batch[i] # Absent, Drained)[i]
    IN  CASE m # Absent -> After(m)
          [] m = Absent /\ dirty[i] # Absent -> After(dirty[i])
          [] m = Absent /\ dirty[i] = Absent /\ b # Absent -> After(b)
          [] OTHER -> world[i]

PipelineFaults == {"raced", "swallowed", "lost", "evicted"}

\* Between the store and the aggregated world nothing is forgotten: as long as
\* no write's mark is overtaken by a later write's, no respawn falls into the
\* flush window of its own deletion, and no batch is lost or evicted, the last
\* word under way about an entity is the store's.  Coalescing (mark_dirty), the
\* drain and merge_batch's last-write-wins all rest on this.
NothingForgotten ==
    faults \cap PipelineFaults = {} => \A i \in Ids : LastWord(i) = entities[i]

\* A client's copy once the queued snapshots have arrived.
Arrived(copy, packets) ==
    LET after[n \in 0 .. Len(packets)] ==
            IF n = 0 THEN copy ELSE Apply(after[n - 1], packets[n])
    IN  after[Len(packets)]

Overtaking(c) == sync[c] # <<>> /\ control[c] # <<>>

\* The delta baseline is honest: unless a snapshot was dropped or overtaken, what
\* the aggregator believes a client has (last_sent) is what the client has once
\* the queued snapshots arrive (compute_client_ops_from updates the baseline at
\* the moment of sending, not of delivery).
BaselineHonest ==
    \A c \in Peds :
        (faults \cap {"dropped", "overtaken"} = {} /\ ~Overtaking(c))
            => Arrived(Arrived(known[c], control[c]), sync[c]) = tracker[c]

\* No desync: unless a snapshot was dropped or overtaken, the client never gets a
\* delta or a delete for an entity it does not know (loadtest consume_snapshot).
NoDesync == faults \cap {"dropped", "overtaken"} = {} => ~desyncs

\* The pipeline is honest from the store to the client: no write is forgotten,
\* a delta's base is what the client was sent, and a client in step has what
\* the gateway believes.
PipelineHonest ==
    /\ SyncTypeOK /\ NothingForgotten /\ BaselineHonest /\ NoDesync

\* Players come and go, and again and again the views catch up: no client that
\* stays shows the ped of a player that left for good (on_player_dropped to
\* EntityOp::Delete), unless something was lost on the way.
LeaversVanish ==
    []<>(faults # {} \/ \A p \in joined, c \in Peds :
            entities[p] = Absent => known[c][p] = Absent \/ entities[c] = Absent)
=============================================================================
