--------------------------- MODULE ZoneDirectory ---------------------------
(***************************************************************************)
(* The gateway's directory of zones and the routes it hands out.            *)
(*                                                                         *)
(* ZoneRegistry keeps two structures under two locks: the map of zones and  *)
(* the quadtree of their bounds.  Registration and eviction take the locks  *)
(* one after the other, so they can interleave.  The heartbeat loop of a    *)
(* zone, the liveness monitor, the recovery of a failed zone, the routing   *)
(* of new players, spawn re-homing and the drain of a zone all act on the   *)
(* same structures.                                                        *)
(***************************************************************************)
EXTENDS Naturals, FiniteSets, FiniteSetsExt

CONSTANTS
    DirZones,      \* zone servers
    DirPlayers,    \* source ids
    Capacity,      \* max_players of every zone
    Nowhere,       \* no zone
    MaxSilences    \* bound: heartbeat silences longer than zone_timeout

ASSUME DirAssumption ==
    /\ Capacity \in [DirZones -> Nat] /\ Nowhere \notin DirZones /\ MaxSilences \in Nat
    /\ IsFiniteSet(DirPlayers)

VARIABLES
    zones,        \* ZoneRegistry.zones
    quadtree,     \* ZoneRegistry.quadtree
    registering,  \* RegisterZone calls: "idle", "called", or "half" (map done, tree not)
    evicting,     \* zones evicted from the map whose tree entry is still there
    failed,       \* zones whose handle_zone_failure task has yet to run
    silent,       \* zones whose last heartbeat is older than zone_timeout
    playerCount,  \* ZoneEntry.player_count: what the last heartbeat said
    routing,      \* ConnectionRouter.routing_table
    draining,     \* the zone an operator drains and the players still to move
    silences,     \* silences so far
    raced         \* a registration and an eviction of a zone interleaved

dirVars == <<zones, quadtree, registering, evicting, failed, silent, playerCount,
             routing, draining, silences, raced>>

NotDraining == [zone |-> Nowhere, todo |-> {}]

\* The mesh is up: every zone has registered once.
DirInit ==
    /\ zones = DirZones /\ quadtree = DirZones
    /\ registering = [z \in DirZones |-> "idle"]
    /\ evicting = {} /\ failed = {} /\ silent = {}
    /\ playerCount = [z \in DirZones |-> 0]
    /\ routing = [p \in DirPlayers |-> Nowhere]
    /\ draining = NotDraining
    /\ silences = 0
    /\ raced = FALSE

PlayersIn(z) == {p \in DirPlayers : routing[p] = z}

-----------------------------------------------------------------------------
(* Registration, heartbeats and the liveness monitor.                       *)

\* register_zone: the first lock.
RegisterInMap(z) ==
    /\ registering[z] = "called"
    /\ registering' = [registering EXCEPT ![z] = "half"]
    /\ zones' = zones \cup {z}
    /\ silent' = silent \ {z}
    /\ playerCount' = [playerCount EXCEPT ![z] = 0]
    /\ raced' = (raced \/ z \in evicting)
    /\ UNCHANGED <<quadtree, evicting, failed, routing, draining, silences>>

\* register_zone: the second lock.
RegisterInTree(z) ==
    /\ registering[z] = "half"
    /\ registering' = [registering EXCEPT ![z] = "idle"]
    /\ quadtree' = quadtree \cup {z}
    /\ UNCHANGED <<zones, evicting, failed, silent, playerCount, routing, draining, silences, raced>>

\* A slip: the reports add up.
ReportedSum(z) == playerCount[z] + Cardinality(PlayersIn(z))

\* The player count a heartbeat carries.
Reported(z) == Cardinality(PlayersIn(z))

\* A slip: "unknown zone" is only logged.
AnswerIgnored(z) == registering

\* The answer to a heartbeat says whether the zone is known.
AnswerUnknown(z) == [registering EXCEPT ![z] = "called"]

\* A heartbeat of a zone that is not registering: known, or the zone registers
\* again.
Heartbeat(z) ==
    /\ registering[z] = "idle"
    /\ IF z \in zones
       THEN /\ silent' = silent \ {z}
            /\ playerCount' = [playerCount EXCEPT ![z] = Reported(z)]
            /\ UNCHANGED registering
       ELSE /\ registering' = AnswerUnknown(z)
            /\ UNCHANGED <<silent, playerCount>>
    /\ UNCHANGED <<zones, quadtree, evicting, failed, routing, draining, silences, raced>>

\* Heartbeats fail or stall for longer than zone_timeout.
Silence(z) ==
    /\ z \in zones \ silent
    /\ silences < MaxSilences
    /\ silences' = silences + 1
    /\ silent' = silent \cup {z}
    /\ UNCHANGED <<zones, quadtree, registering, evicting, failed, playerCount, routing, draining, raced>>

\* evict_silent_zones: the first lock.
EvictFromMap ==
    LET dead == zones \cap silent IN
    /\ evicting = {} /\ dead # {}
    /\ zones' = zones \ dead
    /\ evicting' = dead
    /\ raced' = (raced \/ \E z \in dead : registering[z] = "half")
    /\ UNCHANGED <<quadtree, registering, failed, silent, playerCount, routing, draining, silences>>

\* A slip: only the map forgets the zone.
UnindexedNot == quadtree

Unindexed == quadtree \ evicting

\* evict_silent_zones: the second lock; then on_failure for every evicted zone.
EvictFromTree ==
    /\ evicting # {}
    /\ quadtree' = Unindexed
    /\ failed' = failed \cup evicting
    /\ evicting' = {}
    /\ UNCHANGED <<zones, registering, silent, playerCount, routing, draining, silences, raced>>

-----------------------------------------------------------------------------
(* Routes.                                                                  *)

\* A slip: any zone that ever reported a count.
LeastLoadedEver(exclude) ==
    {z \in DirZones \ exclude : \A y \in DirZones \ exclude : playerCount[z] <= playerCount[y]}

\* find_least_loaded_zone_excluding: by the heartbeat's count.
LeastLoaded(exclude) ==
    LET rest == zones \ exclude IN
    {z \in rest : \A y \in rest : playerCount[z] <= playerCount[y]}

\* route_new_player (a connection carries no coordinates).
RouteNewPlayer(p) ==
    /\ routing[p] = Nowhere
    /\ \E z \in LeastLoaded({}) : routing' = [routing EXCEPT ![p] = z]
    /\ UNCHANGED <<zones, quadtree, registering, evicting, failed, silent, playerCount, draining, silences, raced>>

\* The first update re-homes the player to the zone that covers it.
Rehome(p) ==
    /\ routing[p] # Nowhere
    /\ \E z \in quadtree \ {routing[p]} : routing' = [routing EXCEPT ![p] = z]
    /\ UNCHANGED <<zones, quadtree, registering, evicting, failed, silent, playerCount, draining, silences, raced>>

\* ConnectionRouter::remove, when the player left.
Leave(p) ==
    /\ routing[p] # Nowhere
    /\ routing' = [routing EXCEPT ![p] = Nowhere]
    /\ UNCHANGED <<zones, quadtree, registering, evicting, failed, silent, playerCount, draining, silences, raced>>

\* drain_zone: the players of the zone, taken once, are moved one by one.
DrainZone(z) ==
    /\ draining = NotDraining
    /\ z \in zones /\ PlayersIn(z) # {}
    /\ draining' = [zone |-> z, todo |-> PlayersIn(z)]
    /\ UNCHANGED <<zones, quadtree, registering, evicting, failed, silent, playerCount, routing, silences, raced>>

DrainPlayer ==
    /\ draining # NotDraining
    /\ \/ \E p \in draining.todo, z \in LeastLoaded({draining.zone}) :
              /\ routing' = [routing EXCEPT ![p] = z]
              /\ draining' = IF draining.todo = {p} THEN NotDraining
                             ELSE [draining EXCEPT !.todo = @ \ {p}]
       \/ /\ LeastLoaded({draining.zone}) = {}
          /\ draining' = NotDraining
          /\ UNCHANGED routing
    /\ UNCHANGED <<zones, quadtree, registering, evicting, failed, silent, playerCount, silences, raced>>

\* plan_rebalance: each orphan to the least loaded survivor that has room; the
\* tally starts from the live routes and counts the assignments it makes.
WithRoom(load, survivors) == {s \in survivors : load[s] < Capacity[s]}

\* A slip: the assignments made are not added to the tally.
AssignUncounted(p, plan, survivors) ==
    LET room == WithRoom(plan.load, survivors) IN
    IF room = {} THEN [plan EXCEPT !.route[p] = Nowhere]
    ELSE [plan EXCEPT !.route[p] =
             CHOOSE s \in room : \A t \in room : plan.load[s] <= plan.load[t]]

Assign(p, plan, survivors) ==
    LET room == WithRoom(plan.load, survivors) IN
    IF room = {} THEN [plan EXCEPT !.route[p] = Nowhere]
    ELSE LET s == CHOOSE s \in room : \A t \in room : plan.load[s] <= plan.load[t]
         IN  [plan EXCEPT !.route[p] = s, !.load[s] = @ + 1]

PlanRebalance(orphans, survivors) ==
    FoldSet(LAMBDA p, plan : Assign(p, plan, survivors),
            [route |-> routing, load |-> [z \in DirZones |-> Cardinality(PlayersIn(z))]],
            orphans)

\* handle_zone_failure: the unplaceable are kicked and lose their route.
HandleFailure(z) ==
    /\ z \in failed
    /\ failed' = failed \ {z}
    /\ routing' = PlanRebalance(PlayersIn(z), zones \ {z}).route
    /\ UNCHANGED <<zones, quadtree, registering, evicting, silent, playerCount, draining, silences, raced>>

-----------------------------------------------------------------------------

DirNext ==
    \/ \E z \in DirZones : \/ RegisterInMap(z) \/ RegisterInTree(z) \/ Heartbeat(z)
                           \/ Silence(z) \/ HandleFailure(z) \/ DrainZone(z)
    \/ EvictFromMap \/ EvictFromTree \/ DrainPlayer
    \/ \E p \in DirPlayers : RouteNewPlayer(p) \/ Rehome(p) \/ Leave(p)

\* The heartbeat loop of a zone and the registration it starts.
ZoneLoop(z) == Heartbeat(z) \/ RegisterInMap(z) \/ RegisterInTree(z)

DirFairness == \A z \in DirZones : WF_dirVars(ZoneLoop(z))

DirSpec == DirInit /\ [][DirNext]_dirVars /\ DirFairness

-----------------------------------------------------------------------------
(* Properties.                                                              *)

\* Types of the directory and of the routes.
DirTypeOK ==
    /\ zones \subseteq DirZones /\ quadtree \subseteq DirZones
    /\ registering \in [DirZones -> {"idle", "called", "half"}]
    /\ evicting \subseteq DirZones /\ failed \subseteq DirZones /\ silent \subseteq DirZones
    /\ playerCount \in [DirZones -> 0 .. Cardinality(DirPlayers)]
    /\ routing \in [DirPlayers -> DirZones \cup {Nowhere}]
    /\ draining \in [zone : DirZones \cup {Nowhere}, todo : SUBSET DirPlayers]
    /\ silences \in 0 .. MaxSilences /\ raced \in BOOLEAN

\* The two structures agree: a zone that no call is registering or evicting is in
\* the quadtree exactly when it is in the map, unless a registration and an
\* eviction of that zone interleaved between their two locks (register_zone,
\* evict_silent_zones).
IndexAgrees ==
    ~raced => \A z \in DirZones :
                  (registering[z] # "half" /\ z \notin evicting)
                      => (z \in zones <=> z \in quadtree)

\* Nobody is routed to a zone that no one will recover: the zone of a route is
\* registered, or its eviction or recovery is still under way, however routing,
\* re-homing by the quadtree, draining and eviction interleave.
RoutesRecoverable ==
    ~raced => \A p \in DirPlayers : routing[p] \in zones \cup evicting \cup failed \cup {Nowhere}

\* The registry's two structures and the routing table tell one story: map and
\* quadtree agree, and every route leads to a zone that is live or will be
\* recovered.
DirectoryAgrees ==
    /\ DirTypeOK /\ IndexAgrees /\ RoutesRecoverable

\* What a recovery of zone z over the survivors must have done.
Recovers(z, survivors) ==
    LET before(s) == Cardinality(PlayersIn(s))
        after(s) == Cardinality({p \in DirPlayers : routing'[p] = s})
        full(s) == after(s) >= Capacity[s]
    IN  /\ \A s \in survivors : after(s) > before(s) => after(s) <= Capacity[s]
        /\ (\E p \in PlayersIn(z) : routing'[p] = Nowhere) => \A s \in survivors : full(s)
        /\ \A s, t \in survivors : (after(s) > before(s) /\ ~full(t)) => after(s) <= after(t) + 1
        /\ \A p \in DirPlayers : routing[p] # z => routing'[p] = routing[p]

\* Recovery is fair and frugal: it never fills a survivor past its capacity, it
\* removes a player only when every survivor is full, and it does not give a
\* player to a zone when another with room had less to carry (plan_rebalance).
RecoveryBalanced ==
    [][\A z \in DirZones : (z \in failed /\ z \notin failed') => Recovers(z, zones \ {z})]_dirVars

\* Zones that keep heartbeating get back: evicted for a silence, a zone is
\* registered and indexed again (spawn_heartbeat_loop re-registers), so that the
\* directory is complete again and again.
ZonesReturn == []<>(raced \/ quadtree = DirZones)
=============================================================================
