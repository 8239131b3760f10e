----------------------------- MODULE ClientView -----------------------------
(***************************************************************************)
(* What one client is told of the world: its sparse view on the server, the *)
(* send plan of every sync tick, the clone packets on an unreliable channel,*)
(* and the NACKs that are meant to repair what was lost.                    *)
(*                                                                         *)
(* Abstracted: the entity table (ServerGameState) to what a view reads of   *)
(* it; positions, buckets and owners to whether an entity is near the       *)
(* client, in its bucket and simulated by somebody else; the payload to the *)
(* frame of the update it carries.                                          *)
(***************************************************************************)
EXTENDS Naturals, FiniteSets, Sequences, SequencesExt

CONSTANTS
    Ids,           \* object ids, numbers
    Weight,        \* priority an entity near the client gains in a tick
    Cost,          \* size of the entity's record
    Budget,        \* budget_bytes
    RemoveBudget,  \* removes per tick
    PriorityCap,   \* PRIORITY_CAP
    MaxUniq,       \* how often an object id is used again
    MaxFrame,      \* bound on sync ticks
    MaxTransit,    \* bound on packets, and on NACKs, under way
    MaxFaults,     \* bound on packets lost and syncs not applied
    MaxWait        \* ticks an entity may be passed over

ASSUME ViewAssumption ==
    /\ Ids \subseteq Nat
    /\ Weight \in [Ids -> Nat \ {0}] /\ Cost \in [Ids -> Nat \ {0}]
    /\ {Budget, RemoveBudget, PriorityCap, MaxUniq, MaxFrame, MaxTransit, MaxFaults, MaxWait}
          \subseteq Nat
    /\ RemoveBudget > 0

VARIABLES
    frame,    \* ServerGameState.frame_index
    entity,   \* ServerEntity, as far as a view reads it
    view,     \* ClientView.views
    transit,  \* clone packets under way, in order
    nacks,    \* gameStateNAcks under way, in order
    client,   \* the client's copy of every entity: uniqifier and frame of its data
    seen,     \* the last frame the client received
    faults,   \* packets lost and syncs not applied
    waited    \* ticks in a row in which an entity was due and passed over

serverVars == <<frame, entity, view, waited>>
viewVars == <<serverVars, transit, nacks, client, seen, faults>>

\* A free id remembers the last uniqifier it was used with.
NoClone(uniq) == [alive |-> FALSE, near |-> FALSE, data |-> FALSE, uniq |-> uniq,
                   made |-> 0, frame |-> 0]
NoView == [scoped |-> FALSE, priority |-> 0, base |-> 0, created |-> FALSE, uniq |-> 0]
NewViewCreated(i) == [NoView EXCEPT !.scoped = TRUE, !.uniq = entity[i].uniq, !.created = TRUE]
NewView(i) == [NoView EXCEPT !.scoped = TRUE, !.uniq = entity[i].uniq]
Views == [scoped : BOOLEAN, priority : 0 .. PriorityCap, base : 0 .. MaxFrame,
          created : BOOLEAN, uniq : 0 .. MaxUniq]
Unknown == [uniq |-> 0, ver |-> 0]

ViewInit ==
    /\ frame = 1
    /\ entity = [i \in Ids |-> NoClone(0)]
    /\ view = [i \in Ids |-> NoView]
    /\ transit = <<>>
    /\ nacks = <<>>
    /\ client = [i \in Ids |-> Unknown]
    /\ seen = 1
    /\ faults = 0
    /\ waited = [i \in Ids |-> 0]

-----------------------------------------------------------------------------
(* The entity table between ticks.                                          *)

\* An entity is created on a free id, and placed: by its owner's first sync, which
\* leaves a sync blob, or by the server, which leaves none.
Appear(i, synced) ==
    /\ ~entity[i].alive
    /\ entity[i].uniq < MaxUniq
    /\ entity' = [entity EXCEPT ![i] =
                     [alive |-> TRUE, near |-> TRUE, data |-> synced,
                      uniq |-> @.uniq + 1, made |-> frame, frame |-> frame]]
    /\ UNCHANGED <<frame, view, waited, transit, nacks, client, seen, faults>>

\* apply_sync: the entity carries the frame of its last update.
Update(i) ==
    /\ entity[i].alive
    /\ entity' = [entity EXCEPT ![i].frame = frame, ![i].data = TRUE]
    /\ UNCHANGED <<frame, view, waited, transit, nacks, client, seen, faults>>

\* apply_create by the owner of a live entity: a new create blob, no sync blob.
Refresh(i) ==
    /\ entity[i].alive
    /\ entity' = [entity EXCEPT ![i].made = frame, ![i].frame = frame, ![i].data = FALSE]
    /\ UNCHANGED <<frame, view, waited, transit, nacks, client, seen, faults>>

\* apply_remove, a disconnect or a despawn.
Vanish(i) ==
    /\ entity[i].alive
    /\ entity' = [entity EXCEPT ![i] = NoClone(@.uniq)]
    /\ UNCHANGED <<frame, view, waited, transit, nacks, client, seen, faults>>

\* The entity or the client moves or changes bucket, or the entity changes hands.
Move(i) ==
    /\ entity[i].alive
    /\ entity' = [entity EXCEPT ![i].near = ~@]
    /\ UNCHANGED <<frame, view, waited, transit, nacks, client, seen, faults>>

-----------------------------------------------------------------------------
(* The tick.                                                                *)

Relevant(i) == entity[i].alive /\ entity[i].near
Uncapped(n) == n
Capped(n) == IF n < PriorityCap THEN n ELSE PriorityCap

ScoredAfresh(i) ==
    LET v == IF view[i].scoped THEN view[i] ELSE NewView(i)
    IN [v EXCEPT !.uniq = entity[i].uniq, !.priority = Capped(Weight[i])]

\* A relevant entity enters the view, or stays, and gains priority.
Scored(i) ==
    LET v == IF view[i].scoped THEN view[i] ELSE NewView(i)
    IN [v EXCEPT !.uniq = entity[i].uniq, !.priority = Capped(@ + Weight[i])]

\* The candidates of a tick, highest priority first, then lowest id.
Candidates(scored) ==
    SetToSortSeq({i \in Ids : Relevant(i)},
                 LAMBDA i, j : \/ scored[i].priority > scored[j].priority
                               \/ scored[i].priority = scored[j].priority /\ i < j)

Due(scored, i) == ~scored[i].created \/ entity[i].frame > scored[i].base

\* The records that fit the budget; the first one always does.
Chosen(scored) ==
    FoldLeft(LAMBDA acc, i :
                IF ~Due(scored, i) \/ (acc.spent > 0 /\ acc.spent + Cost[i] > Budget)
                THEN acc
                ELSE [spent |-> acc.spent + Cost[i], ids |-> acc.ids \cup {i}],
             [spent |-> 0, ids |-> {}], Candidates(scored)).ids

\* The entities that left the scope, as many as one tick may remove.
Removes ==
    LET exited == {i \in Ids : view[i].scoped /\ ~Relevant(i)}
    IN {i \in exited : Cardinality({j \in exited : j < i}) < RemoveBudget}

\* gs.tick, tick_with_context and encode_plan.  A tick that plans nothing sends no
\* packet.  A create carries the create blob, a sync the sync blob; a planned sync
\* of an entity without one is left out of the packet.
SyncTick ==
    /\ frame < MaxFrame
    /\ Len(transit) < MaxTransit
    /\ frame' = frame + 1
    /\ LET scored == [i \in Ids |-> IF Relevant(i) THEN Scored(i) ELSE view[i]]
           chosen == Chosen(scored)
           record(i, ver) == [id |-> i, uniq |-> entity[i].uniq, ver |-> ver]
       IN /\ view' = [i \in Ids |->
                IF i \in chosen
                THEN [scored[i] EXCEPT !.created = TRUE, !.base = entity[i].frame, !.priority = 0]
                ELSE IF i \in Removes THEN NoView
                ELSE scored[i]]
          /\ waited' = [i \in Ids |-> IF Relevant(i) /\ Due(scored, i) /\ i \notin chosen
                                      THEN waited[i] + 1 ELSE 0]
          /\ transit' = IF chosen \cup Removes = {} THEN transit
                        ELSE Append(transit,
                               [frame |-> frame + 1,
                                creates |-> {record(i, entity[i].made) : i \in {j \in chosen : ~scored[j].created}},
                                syncs |-> {record(i, entity[i].frame) : i \in
                                   {j \in chosen : scored[j].created /\ entity[j].data}},
                                removes |-> {[id |-> i, uniq |-> view[i].uniq] : i \in Removes}])
    /\ UNCHANGED <<entity, nacks, client, seen, faults>>

-----------------------------------------------------------------------------
(* The channel and the client.                                              *)

Lose ==
    /\ transit # <<>>
    /\ faults < MaxFaults
    /\ faults' = faults + 1
    /\ transit' = Tail(transit)
    /\ UNCHANGED <<serverVars, nacks, client, seen>>

\* The client applies a packet, except for the syncs it cannot apply now.  It reports
\* the frames it has not received and, for each of those syncs, the frame it has, and
\* asks for what it does not know to be created again.
Receive(ignored) ==
    /\ transit # <<>>
    /\ Len(nacks) < MaxTransit
    /\ ignored \subseteq {x.id : x \in Head(transit).syncs}
    /\ faults + Cardinality(ignored) <= MaxFaults
    /\ faults' = faults + Cardinality(ignored)
    /\ LET p == Head(transit)
           made == [i \in Ids |->
                      LET r == {x \in p.creates : x.id = i}
                      IN IF r = {} THEN client[i]
                         ELSE LET x == CHOOSE x \in r : TRUE IN [uniq |-> x.uniq, ver |-> x.ver]]
           strange == {x \in p.syncs : made[x.id].uniq # x.uniq}
           gap == p.frame > seen + 1
       IN /\ client' = [i \in Ids |->
                IF \E x \in p.removes : x.id = i /\ x.uniq = made[i].uniq THEN Unknown
                ELSE IF i \notin ignored /\ \E x \in p.syncs \ strange : x.id = i
                THEN [made[i] EXCEPT !.ver = (CHOOSE x \in p.syncs : x.id = i).ver]
                ELSE made[i]]
          /\ nacks' = IF gap \/ strange # {} \/ ignored # {}
                      THEN Append(nacks, [first |-> IF gap THEN seen + 1 ELSE 0,
                                          ignore |-> {[id |-> i, last |-> made[i].ver] : i \in ignored},
                                          recreate |-> {x.id : x \in strange}])
                      ELSE nacks
          /\ seen' = p.frame
    /\ transit' = Tail(transit)
    /\ UNCHANGED serverVars

\* rollback, rollback_all: the baseline goes back to a frame, never forward.
RolledBack(v, to) == [v EXCEPT !.base = IF @ < to THEN @ ELSE to]

\* force_recreate.
ForcedRecreate(v) == [v EXCEPT !.created = FALSE, !.base = 0]

\* apply_nack: back to the frame before the first missing one, then the entities the
\* client names.  apply_ack is the same without missing frames.
ApplyNack ==
    /\ nacks # <<>>
    /\ LET n == Head(nacks)
           gone(v) == IF n.first > 0 THEN RolledBack(v, n.first - 1) ELSE v
           passed(i, v) == FoldLeft(LAMBDA w, x : RolledBack(w, x.last), v,
                                    SetToSeq({x \in n.ignore : x.id = i}))
           again(i, v) == IF i \in n.recreate THEN ForcedRecreate(v) ELSE v
       IN view' = [i \in Ids |->
                     IF view[i].scoped THEN again(i, passed(i, gone(view[i]))) ELSE view[i]]
    /\ nacks' = Tail(nacks)
    /\ UNCHANGED <<frame, entity, waited, transit, client, seen, faults>>

ViewNext ==
    \/ \E i \in Ids : Appear(i, TRUE) \/ Appear(i, FALSE) \/ Update(i)
                       \/ Refresh(i) \/ Vanish(i) \/ Move(i)
    \/ SyncTick
    \/ Lose
    \/ \E ignored \in SUBSET Ids : Receive(ignored)
    \/ ApplyNack

ViewSpec == ViewInit /\ [][ViewNext]_viewVars

-----------------------------------------------------------------------------
(* Properties.                                                              *)

\* The shape of the views; a priority never exceeds its cap, and the client is
\* never ahead of the server.
ViewTypeOK ==
    /\ frame \in 1 .. MaxFrame
    /\ entity \in [Ids -> [alive : BOOLEAN, near : BOOLEAN, data : BOOLEAN, uniq : 0 .. MaxUniq,
                           made : 0 .. MaxFrame, frame : 0 .. MaxFrame]]
    /\ view \in [Ids -> Views]
    /\ client \in [Ids -> [uniq : 0 .. MaxUniq, ver : 0 .. MaxFrame]]
    /\ seen \in 1 .. frame

\* Priority accumulates while an entity is due, so the budget passes over none of
\* them for more than MaxWait ticks in a row, however large its record is and
\* however often the others change.
NoStarvation == \A i \in Ids : waited[i] <= MaxWait

\* Without loss, once the packets under way have arrived, the server is right about
\* what the client knows: it has every entity whose view says it was created, and
\* none that is in no view, through scope exits spread over several ticks, re-entries
\* and NACKs.  (While no object id was used twice.)
ScopeHonest ==
    faults = 0 /\ transit = <<>> =>
        \A i \in Ids : entity[i].uniq <= 1 =>
            IF view[i].created THEN client[i].uniq = 1
            ELSE view[i].scoped \/ client[i] = Unknown

\* A view keeps its shape, and without loss the server is right about what its
\* client knows.
ViewHonest ==
    /\ ViewTypeOK /\ ScopeHonest

\* "Re-send everything since the first missing frame" (apply_nack): once the
\* client has received the last frame, its NACKs are handled and the server has
\* nothing to send, the client has every entity its view says was created.
NackRecovers ==
    seen = frame /\ transit = <<>> /\ nacks = <<>> =>
        \A i \in Ids : Relevant(i) /\ view[i].created /\ ~Due(view, i)
                       => client[i].uniq = entity[i].uniq

\* "Last frame index we sent this client for this entity (delta baseline)": without
\* faults, a client that has applied everything has the data of an entity with a
\* sync blob as new as the baseline of its view.
BaselineSent ==
    faults = 0 /\ transit = <<>> /\ nacks = <<>> =>
        \A i \in Ids : view[i].created /\ entity[i].data /\ ~Due(view, i)
                          /\ client[i].uniq = entity[i].uniq
                       => client[i].ver >= view[i].base
=============================================================================
