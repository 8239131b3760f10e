----------------------------- MODULE StateBags -----------------------------
(***************************************************************************)
(* The process-wide state-bag store of baston-scripting (state_bag.rs).    *)
(* Every resource isolate is a thread: `set' draws a version from an       *)
(* atomic counter and only then takes the lock that stores the value,      *)
(* queues a delivery for each matching change handler and coalesces the    *)
(* change into the replication queue.  A value is its version; a bag and   *)
(* key pair is one member of BagKeys.                                      *)
(***************************************************************************)
EXTENDS Naturals, SequencesExt

CONSTANTS BagKeys, BagResources,
          AnyKey,              \* the empty filter, normalised to "matches all"
          NotSetting,               \* no `set' under way
          MaxPending,          \* MAX_PENDING_DELIVERIES_PER_RESOURCE
          MaxReplicated,       \* MAX_REPLICATED_CHANGES
          MaxVersion, MaxCookie

VARIABLES bags, handlers, pendingBag, replicated,   \* StateBagInner
          next_version, next_cookie,
          setting,             \* per resource: the change drawn but not stored
          shipped,             \* newest change per key handed to the network
          heard,               \* per cookie and key: last change delivered
          owed,                \* per cookie and key: last change stored since it registered
          lastShared,          \* per key: last replicated change stored
          enrolled,            \* per resource: cookies handed out since its clean-up
          overflowed           \* queues that have dropped their oldest entry

bagVars == <<bags, handlers, pendingBag, replicated, next_version, next_cookie,
             setting, shipped, heard, owed, lastShared, enrolled, overflowed>>

Cookies == 1..MaxCookie
Zero == [k \in BagKeys |-> 0]

BagInit ==
    /\ bags = Zero /\ handlers = {} /\ replicated = <<>>
    /\ pendingBag = [r \in BagResources |-> <<>>]
    /\ next_version = 0 /\ next_cookie = 0
    /\ setting = [r \in BagResources |-> NotSetting]
    /\ shipped = Zero /\ lastShared = Zero
    /\ heard = [c \in Cookies |-> Zero] /\ owed = [c \in Cookies |-> Zero]
    /\ enrolled = [r \in BagResources |-> {}] /\ overflowed = {}

\* set, before the lock: the version is drawn.
DrawVersion(r, k, rep) ==
    /\ setting[r] = NotSetting /\ next_version < MaxVersion
    /\ next_version' = next_version + 1
    /\ setting' = [setting EXCEPT ![r] = [key |-> k, version |-> next_version + 1, rep |-> rep]]
    /\ UNCHANGED <<bags, handlers, pendingBag, replicated, next_cookie, shipped, heard, owed,
                   lastShared, enrolled, overflowed>>

Matches(h, k) == h.key \in {AnyKey, k}

\* A slip: the cap is not looked at.
PushUnbounded(queue, item, cap) == Append(queue, item)

\* Append to a bounded queue that sheds its oldest entry.
PushBounded(queue, item, cap) ==
    Append(IF Len(queue) >= cap THEN Tail(queue) ELSE queue, item)

Delivery(h, change) == [cookie |-> h.cookie, key |-> change.key, version |-> change.version]

\* A slip: a handler that has a change of the key queued gets no other.
DeliverOnce(queue, h, change) ==
    IF \E i \in DOMAIN queue : queue[i].cookie = h.cookie /\ queue[i].key = change.key THEN queue
    ELSE PushBounded(queue, Delivery(h, change), MaxPending)

Deliver(queue, h, change) == PushBounded(queue, Delivery(h, change), MaxPending)

\* The queue of resource r once a change has been delivered to its handlers.
Queued(r, change) ==
    FoldLeft(LAMBDA queue, h : Deliver(queue, h, change),
             pendingBag[r],
             SetToSeq({h \in handlers : h.res = r /\ Matches(h, change.key)}))

\* A slip: a queued change of the key is left where it is.
CoalesceFirst(queue, change) ==
    IF \E i \in DOMAIN queue : queue[i].key = change.key THEN queue
    ELSE PushBounded(queue, change, MaxReplicated)

\* A replicated change replaces the unsent one of its key, at the back.
Coalesce(queue, change) ==
    IF \E i \in DOMAIN queue : queue[i].key = change.key
    THEN Append(SelectSeq(queue, LAMBDA c : c.key # change.key), change)
    ELSE PushBounded(queue, change, MaxReplicated)

\* set, under the lock.
StoreChange(r) ==
    /\ setting[r] # NotSetting
    /\ LET c == setting[r]
           change == [key |-> c.key, version |-> c.version]
           told == {h \in handlers : Matches(h, c.key)} IN
       /\ bags' = [bags EXCEPT ![c.key] = c.version]
       /\ pendingBag' = [s \in BagResources |-> Queued(s, change)]
       /\ owed' = [k \in Cookies |-> IF \E h \in told : h.cookie = k
                                     THEN [owed[k] EXCEPT ![c.key] = c.version] ELSE owed[k]]
       /\ replicated' = IF c.rep THEN Coalesce(replicated, change) ELSE replicated
       /\ lastShared' = IF c.rep THEN [lastShared EXCEPT ![c.key] = c.version] ELSE lastShared
       /\ overflowed' = overflowed
            \cup {s \in BagResources : Len(pendingBag[s])
                      + Cardinality({h \in told : h.res = s}) > MaxPending}
            \cup (IF c.rep /\ Len(replicated) >= MaxReplicated
                     /\ ~\E i \in DOMAIN replicated : replicated[i].key = c.key
                  THEN {"network"} ELSE {})
    /\ setting' = [setting EXCEPT ![r] = NotSetting]
    /\ UNCHANGED <<handlers, next_version, next_cookie, shipped, heard, enrolled>>

AddHandler(r, filter) ==
    /\ setting[r] = NotSetting /\ next_cookie < MaxCookie
    /\ next_cookie' = next_cookie + 1
    /\ handlers' = handlers \cup {[cookie |-> next_cookie + 1, res |-> r, key |-> filter]}
    /\ enrolled' = [enrolled EXCEPT ![r] = @ \cup {next_cookie + 1}]
    /\ UNCHANGED <<bags, pendingBag, replicated, next_version, setting, shipped, heard, owed,
                   lastShared, overflowed>>

\* remove_handler: only a handler of the calling resource goes.
RemoveHandler(r, cookie) ==
    /\ setting[r] = NotSetting
    /\ \E h \in handlers : h.cookie = cookie /\ h.res = r
    /\ handlers' = {h \in handlers : h.cookie # cookie}
    /\ UNCHANGED <<bags, pendingBag, replicated, next_version, next_cookie, setting, shipped,
                   heard, owed, lastShared, enrolled, overflowed>>

\* drain_deliveries from the poll op: the callbacks run in queue order; a
\* delivery whose handler is gone is skipped by the isolate.
DrainDeliveries(r) ==
    /\ setting[r] = NotSetting /\ pendingBag[r] # <<>>
    /\ pendingBag' = [pendingBag EXCEPT ![r] = <<>>]
    /\ heard' = FoldLeft(LAMBDA acc, d : [acc EXCEPT ![d.cookie][d.key] = d.version],
                         heard, pendingBag[r])
    /\ UNCHANGED <<bags, handlers, replicated, next_version, next_cookie, setting, shipped, owed,
                   lastShared, enrolled, overflowed>>

\* drain_replicated(limit): the network takes the oldest changes.
DrainReplicated(limit) ==
    /\ replicated # <<>> /\ limit \in 1..Len(replicated)
    /\ shipped' = FoldLeft(LAMBDA acc, c : [acc EXCEPT ![c.key] = c.version],
                           shipped, SubSeq(replicated, 1, limit))
    /\ replicated' = SubSeq(replicated, limit + 1, Len(replicated))
    /\ UNCHANGED <<bags, handlers, pendingBag, next_version, next_cookie, setting, heard, owed,
                   lastShared, enrolled, overflowed>>

\* A slip: the handlers go, what is queued for them stays.
CleanupHandlers(r) ==
    /\ handlers' = {h \in handlers : h.res # r}
    /\ UNCHANGED pendingBag

\* cleanup_resource, on load and unload of the resource.
Cleanup(r) ==
    /\ handlers' = {h \in handlers : h.res # r}
    /\ pendingBag' = [pendingBag EXCEPT ![r] = <<>>]

CleanupResource(r) ==
    /\ Cleanup(r)
    /\ enrolled' = [enrolled EXCEPT ![r] = {}]
    /\ UNCHANGED <<bags, replicated, next_version, next_cookie, setting, shipped, heard, owed,
                   lastShared, overflowed>>

\* remove_bag, when an entity is deleted by a script.
RemoveBag(k) ==
    /\ bags[k] # 0
    /\ bags' = [bags EXCEPT ![k] = 0]
    /\ UNCHANGED <<handlers, pendingBag, replicated, next_version, next_cookie, setting, shipped,
                   heard, owed, lastShared, enrolled, overflowed>>

BagNext ==
    \/ \E r \in BagResources, k \in BagKeys, rep \in BOOLEAN : DrawVersion(r, k, rep)
    \/ \E r \in BagResources : StoreChange(r) \/ DrainDeliveries(r) \/ CleanupResource(r)
    \/ \E r \in BagResources, f \in BagKeys \cup {AnyKey} : AddHandler(r, f)
    \/ \E r \in BagResources, c \in Cookies : RemoveHandler(r, c)
    \/ \E limit \in 1..MaxReplicated : DrainReplicated(limit)
    \/ \E k \in BagKeys : RemoveBag(k)

\* The last change of key k that sequence q holds, d when it holds none.
LastIn(q, k, d) ==
    LET mine == SelectSeq(q, LAMBDA c : c.key = k)
    IN  IF mine = <<>> THEN d ELSE Last(mine).version

\* Types, and the caps of the delivery and replication queues.
BagTypeOK ==
    /\ bags \in [BagKeys -> 0..MaxVersion]
    /\ \A h \in handlers : h.cookie \in 1..next_cookie /\ h.res \in BagResources
    /\ \A r \in BagResources : Len(pendingBag[r]) <= MaxPending
    /\ Len(replicated) <= MaxReplicated
    /\ next_version \in 0..MaxVersion /\ next_cookie \in 0..MaxCookie

\* state_bag.rs on replication: coalescing loses no final value.  The last
\* replicated change stored for a key is the last one the network gets, unless
\* the bounded queue has overflowed.
ReplicaFollows ==
    "network" \notin overflowed =>
        \A k \in BagKeys : LastIn(replicated, k, shipped[k]) = lastShared[k]

\* A registered handler misses no final value: the last change of a key stored
\* since it registered is delivered or queued for it, whatever the other
\* resources did to the store, unless its resource's queue has overflowed.
HandlerHearsLast ==
    \A h \in handlers : h.res \notin overflowed =>
        \A k \in BagKeys :
            LET mine == SelectSeq(pendingBag[h.res], LAMBDA d : d.cookie = h.cookie)
            IN  LastIn(mine, k, heard[h.cookie][k]) = owed[h.cookie][k]

\* cleanup_resource leaves nothing that flush_state_bag_callbacks would keep
\* polling for: a delivery is queued only for a resource that registered a
\* handler since its last clean-up.
NoOrphanDelivery ==
    \A r \in BagResources : \A i \in DOMAIN pendingBag[r] :
        pendingBag[r][i].cookie \in enrolled[r]

\* Replicas and change handlers end with the store's value, through coalescing,
\* full queues and clean-ups.
BagsFollow ==
    /\ BagTypeOK /\ ReplicaFollows /\ HandlerHearsLast /\ NoOrphanDelivery

\* state_bag.rs says of coalescing that it "preserves the newest version".  Two
\* isolates that draw their versions in one order and take the lock in the
\* other store, and ship, the older version last.
CoalesceKeepsNewest == [][\A k \in BagKeys : lastShared'[k] >= lastShared[k]]_bagVars
=============================================================================
