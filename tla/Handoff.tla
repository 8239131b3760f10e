------------------------------ MODULE Handoff ------------------------------
(***************************************************************************)
(* The handoff of a player from one zone server to another.                 *)
(*                                                                         *)
(* Three kinds of process take part.  Every zone runs a boundary loop that  *)
(* scans its players, asks the gateway to prepare a neighbour zone, commits *)
(* the crossing, wakes the player in the neighbour and finally drops its    *)
(* own copy.  The gateway keeps the routing table, answers the two handoff  *)
(* calls and releases players that disconnect.  Zones answer                *)
(* PrepareForPlayer, ActivatePlayer and ReleasePlayer at any moment, in the *)
(* middle of their own scans.                                              *)
(*                                                                         *)
(* A call is a `call' record of the zone's coroutine for the player.  The   *)
(* server's step and the caller's continuation are one step when the answer *)
(* is prompt.  A late answer (MaxLate) leaves time between the two, in      *)
(* which anybody may act.  A timeout (MaxTimeouts) makes the caller go on   *)
(* without an answer, whether or not the server did its part.               *)
(*                                                                         *)
(* Abstracted: coordinates (a scan may find any player approaching an edge, *)
(* across it, or neither), the contents of updates and snapshots except the *)
(* identity of the ped and whether a vehicle travels with it.              *)
(***************************************************************************)
EXTENDS Naturals, FiniteSets

CONSTANTS
    Players,      \* source ids; a source is never reused
    Zones,        \* zone servers
    NoZone,       \* no zone
    Leavers,      \* the players that may disconnect
    Drivers,      \* the players that may come to own a vehicle
    MaxPeds,      \* bound: ped entities created over a behaviour
    MaxTimeouts,  \* bound: calls whose request or answer is lost
    MaxLate,      \* bound: answers that are overtaken, holds that expire early
    MaxInflight,  \* bound: updates in transit in NATS per zone and player
    MaxFailures   \* bound: zones that go silent or restart

ASSUME ConstantsAssumption ==
    /\ NoZone \notin Zones
    /\ Leavers \subseteq Players
    /\ Drivers \subseteq Players
    /\ MaxPeds \in Nat /\ MaxInflight \in Nat
    /\ MaxTimeouts \in Nat /\ MaxLate \in Nat /\ MaxFailures \in Nat

VARIABLES
    phase,      \* gateway PlayerDirectory: "offline", "online" or "dropped"
    homed,      \* forwarder: players whose first update was seen
    held,       \* forwarder: players whose updates are held after a commit
    route,      \* ConnectionRouter.routing_table
    release,    \* forwarder: progress of a disconnected player's release
    registered, \* ZoneRegistry: zones with a live heartbeat
    failing,    \* gateway: evicted zones whose recovery task has yet to run
    recovery,   \* gateway: what zone-failure recovery still does for a player
    pending,    \* HandoffManager.pending_handoffs of each zone
    cooldown,   \* HandoffManager.cooldowns that have not expired
    ghosts,     \* ZoneMesh.ghosts of each zone
    ped,        \* StateIngest.player_entities: the ped of a player, 0 if none
    strays,     \* peds of a player in the zone that player_entities forgot
    vehicle,    \* players that own a vehicle in the zone
    call,       \* boundary loop: the coroutine of a zone for a player
    inflight,   \* NATS: updates published to a zone, not yet ingested
    nextPed,    \* the next fresh ped id
    spent       \* how much of each bound is used up

gatewayVars == <<phase, homed, held, route, release, registered, failing, recovery>>
zoneVars == <<pending, cooldown, ghosts, ped, strays, vehicle, call>>
vars == <<gatewayVars, zoneVars, inflight, nextPed, spent>>

PedIds == 0 .. MaxPeds
Targets == Zones \cup {NoZone}

NoHandoff == [st |-> "None", to |-> NoZone]
Requested == [st |-> "PreparationRequested", to |-> NoZone]
ReadyToTransfer(t) == [st |-> "ReadyToTransfer", to |-> t]
Transferring == [st |-> "Transferring", to |-> NoZone]
HandoffStates == {NoHandoff, Requested, Transferring}
                 \cup {ReadyToTransfer(t) : t \in Zones}

\* A pending ghost carries the snapshot: the ped's id (0: no ped) and whether
\* the player's vehicle was in it.
NoGhost == [st |-> "none", ped |-> 0, veh |-> FALSE]
PendingGhost(snap) == [st |-> "pending", ped |-> snap.ped, veh |-> snap.veh]
ActiveGhost == [st |-> "active", ped |-> 0, veh |-> FALSE]
GhostStates == [st : {"none", "pending", "active"}, ped : PedIds, veh : BOOLEAN]

\* Where a coroutine stands.  "prepare" .. "rollback": the request is sent;
\* the "...Ok" twins: the server has answered and the answer is under way.
LocalPhases == {"idle", "toPrepare", "toComplete", "snapshot", "prepare"}
TargetPhases == {"prepareOk", "confirm", "confirmOk", "activate", "activateOk", "rollback"}
CallTo(pc, to) == [pc |-> pc, to |-> to, ped |-> 0, veh |-> FALSE]
At(pc) == CallTo(pc, NoZone)
Idle == At("idle")
SnapshotCall(pc, id, veh) == [pc |-> pc, to |-> NoZone, ped |-> id, veh |-> veh]
Calls == [pc : LocalPhases, to : {NoZone}, ped : PedIds, veh : BOOLEAN]
         \cup [pc : TargetPhases, to : Zones, ped : {0}, veh : {FALSE}]

Completing == {"toComplete", "confirm", "confirmOk", "activate", "activateOk", "rollback"}

NoRelease == [st |-> "none", zone |-> NoZone]
Releases == [st : {"none", "queued", "done"}, zone : {NoZone}]
            \cup [st : {"calling", "called"}, zone : Zones]

NoRecovery == [st |-> "none", zone |-> NoZone]
Recoveries == [st : {"none", "kick"}, zone : {NoZone}]
              \cup [st : {"prepare", "activate"}, zone : Zones]

Bounds == [timeouts |-> MaxTimeouts, late |-> MaxLate, failures |-> MaxFailures]
Spend(kind) == /\ spent[kind] < Bounds[kind]
               /\ spent' = [spent EXCEPT ![kind] = @ + 1]

Init ==
    /\ phase = [p \in Players |-> "offline"]
    /\ homed = {}
    /\ held = {}
    /\ route = [p \in Players |-> NoZone]
    /\ release = [p \in Players |-> NoRelease]
    /\ registered = Zones
    /\ failing = {}
    /\ recovery = [p \in Players |-> NoRecovery]
    /\ pending = [z \in Zones |-> [p \in Players |-> NoHandoff]]
    /\ cooldown = [z \in Zones |-> {}]
    /\ ghosts = [z \in Zones |-> [p \in Players |-> NoGhost]]
    /\ ped = [z \in Zones |-> [p \in Players |-> 0]]
    /\ strays = [z \in Zones |-> [p \in Players |-> {}]]
    /\ vehicle = [z \in Zones |-> {}]
    /\ call = [z \in Zones |-> [p \in Players |-> Idle]]
    /\ inflight = [z \in Zones |-> [p \in Players |-> 0]]
    /\ nextPed = 1
    /\ spent = [timeouts |-> 0, late |-> 0, failures |-> 0]

-----------------------------------------------------------------------------
(* Updates of one cell of a per-zone, per-player table.                     *)

SetPending(z, p, s) == pending' = [pending EXCEPT ![z][p] = s]
SetCall(z, p, c) == call' = [call EXCEPT ![z][p] = c]
StartCooldown(z, p) == cooldown' = [cooldown EXCEPT ![z] = @ \cup {p}]

\* HandoffManager::cancel: the cooldown starts only if an entry was there.
Cancel(z, p) ==
    IF pending[z][p] # NoHandoff
    THEN SetPending(z, p, NoHandoff) /\ StartCooldown(z, p)
    ELSE UNCHANGED <<pending, cooldown>>

-----------------------------------------------------------------------------
(* Players join and report their state.                                     *)

\* client_connect and route_new_player: no spawn coordinates are known yet, the
\* least loaded zone is any zone that is up; with none up there is no route.
Connect(p) ==
    /\ phase[p] = "offline"
    /\ phase' = [phase EXCEPT ![p] = "online"]
    /\ \E z \in IF registered = {} THEN {NoZone} ELSE registered :
          route' = [route EXCEPT ![p] = z]
    /\ UNCHANGED <<homed, held, release, registered, failing, recovery, zoneVars,
                   inflight, nextPed, spent>>

\* StateIngest::apply for the player's own ped: created by the first update.
Ingest(z, p) ==
    IF ped[z][p] = 0
    THEN /\ nextPed <= MaxPeds
         /\ ped' = [ped EXCEPT ![z][p] = nextPed]
         /\ nextPed' = nextPed + 1
    ELSE UNCHANGED <<ped, nextPed>>

\* The forwarder handles an update: the first one re-homes the player to the
\* zone that covers it (if one does), then it is published to the routed zone.
\* Updates that arrive during a hold wait and are published as later updates.
ForwardUpdate(p) ==
    /\ phase[p] = "online"
    /\ p \notin held
    /\ homed' = homed \cup {p}
    /\ \E z \in IF p \in homed THEN {route[p]} ELSE registered \cup {route[p]} :
          /\ route' = [route EXCEPT ![p] = z]
          /\ z # NoZone
          /\ \/ Ingest(z, p) /\ UNCHANGED inflight
             \/ /\ inflight[z][p] < MaxInflight
                /\ inflight' = [inflight EXCEPT ![z][p] = @ + 1]
                /\ UNCHANGED <<ped, nextPed>>
    /\ UNCHANGED <<phase, held, release, registered, failing, recovery,
                   pending, cooldown, ghosts, strays, vehicle, call, spent>>

\* The zone's NATS consumer takes an update off its subject.
ConsumeUpdate(z, p) ==
    /\ inflight[z][p] > 0
    /\ inflight' = [inflight EXCEPT ![z][p] = @ - 1]
    /\ Ingest(z, p)
    /\ UNCHANGED <<gatewayVars, pending, cooldown, ghosts, strays, vehicle, call, spent>>

\* The 50ms hold ends.  Normally the activation is over by then; a hold that
\* ends first is counted as a late answer.
EndHold(p) ==
    /\ p \in held
    /\ held' = held \ {p}
    /\ IF \E z \in Zones : call[z][p].pc \in {"confirmOk", "activate", "activateOk", "rollback"}
       THEN Spend("late")
       ELSE UNCHANGED spent
    /\ UNCHANGED <<phase, homed, route, release, registered, failing, recovery, zoneVars,
                   inflight, nextPed>>

\* The player comes to own a vehicle in its zone (spawned or mounted).
GainVehicle(z, p) ==
    /\ p \in Drivers
    /\ phase[p] = "online"
    /\ ped[z][p] # 0
    /\ route[p] = z
    /\ p \notin vehicle[z]
    /\ vehicle' = [vehicle EXCEPT ![z] = @ \cup {p}]
    /\ UNCHANGED <<gatewayVars, pending, cooldown, ghosts, ped, strays, call,
                   inflight, nextPed, spent>>

-----------------------------------------------------------------------------
(* The boundary loop of zone z.                                             *)

\* BoundaryLoop::scan_once, the decision: players near an edge are to be
\* prepared, prepared ones that crossed are to be completed, prepared ones that
\* turned around are cancelled.  The next scan starts when all work is done.
ScanDecide(z) ==
    /\ \A p \in Players : call[z][p] = Idle
    /\ \E approaching \in SUBSET {p \in Players : ped[z][p] # 0 /\ pending[z][p] = NoHandoff},
          crossed \in SUBSET {p \in Players : ped[z][p] # 0 /\ pending[z][p].st = "ReadyToTransfer"},
          turned \in SUBSET {p \in Players : ped[z][p] # 0 /\ pending[z][p].st = "ReadyToTransfer"} :
          /\ crossed \cap turned = {}
          /\ pending' = [pending EXCEPT ![z] =
                [p \in Players |-> IF p \in turned THEN NoHandoff ELSE @[p]]]
          /\ cooldown' = [cooldown EXCEPT ![z] = @ \cup turned]
          /\ call' = [call EXCEPT ![z] = [p \in Players |->
                CASE p \in approaching -> At("toPrepare")
                  [] p \in crossed -> At("toComplete")
                  [] OTHER -> Idle]]
    /\ UNCHANGED <<gatewayVars, ghosts, ped, strays, vehicle, inflight, nextPed, spent>>

\* Preparations start once the scan's crossings are over.  build_snapshot reads
\* the ped and the owned entities and then awaits the script state.
BuildSnapshot(z, p) ==
    /\ call[z][p].pc = "toPrepare"
    /\ \A q \in Players : call[z][q].pc \notin Completing
    /\ SetCall(z, p, SnapshotCall("snapshot", ped[z][p], p \in vehicle[z]))
    /\ UNCHANGED <<gatewayVars, pending, cooldown, ghosts, ped, strays, vehicle,
                   inflight, nextPed, spent>>

\* HandoffManager::request_handoff up to the call to the gateway.
RequestHandoff(z, p) ==
    /\ call[z][p].pc = "snapshot"
    /\ IF pending[z][p] # NoHandoff \/ p \in cooldown[z]
       THEN SetCall(z, p, Idle) /\ UNCHANGED pending
       ELSE /\ SetPending(z, p, Requested)
            /\ SetCall(z, p, SnapshotCall("prepare", call[z][p].ped, call[z][p].veh))
    /\ UNCHANGED <<gatewayVars, cooldown, ghosts, ped, strays, vehicle,
                   inflight, nextPed, spent>>

\* A slip: the answer's target zone is not recorded.
PrepareAnsweredNoTarget(z, p, t) ==
    /\ SetPending(z, p, ReadyToTransfer(NoZone))
    /\ SetCall(z, p, Idle)
    /\ UNCHANGED <<cooldown, spent>>

\* ... and what follows the gateway's answer.
PrepareAnswered(z, p, t) ==
    /\ SetPending(z, p, ReadyToTransfer(t))
    /\ SetCall(z, p, Idle)
    /\ UNCHANGED <<cooldown, spent>>

\* A slip: the error path returns without cancelling.
PrepareFailedNoCancel(z, p) ==
    /\ UNCHANGED <<pending, cooldown>>
    /\ SetCall(z, p, Idle)

PrepareFailed(z, p) ==
    /\ Cancel(z, p)
    /\ SetCall(z, p, Idle)

\* GatewayService::prepare_handoff resolves the target from the predicted
\* coordinates, and ZoneService::prepare_for_player inserts the ghost there.
\* No zone but the caller's may cover the coordinates: the gateway refuses.
PrepareHandoff(z, p) ==
    /\ call[z][p].pc = "prepare"
    /\ \/ \E t \in registered \ {z} :
             /\ ghosts' = [ghosts EXCEPT ![t][p] = PendingGhost(call[z][p])]
             /\ \/ PrepareAnswered(z, p, t)
                \/ /\ Spend("late")
                   /\ SetCall(z, p, CallTo("prepareOk", t))
                   /\ UNCHANGED <<pending, cooldown>>
       \/ PrepareFailed(z, p) /\ UNCHANGED <<ghosts, spent>>
    /\ UNCHANGED <<gatewayVars, ped, strays, vehicle, inflight, nextPed>>

LatePrepareAnswer(z, p) ==
    /\ call[z][p].pc = "prepareOk"
    /\ PrepareAnswered(z, p, call[z][p].to)
    /\ UNCHANGED <<gatewayVars, ghosts, ped, strays, vehicle, inflight, nextPed>>

PrepareTimeout(z, p) ==
    /\ call[z][p].pc \in {"prepare", "prepareOk"}
    /\ Spend("timeouts")
    /\ PrepareFailed(z, p)
    /\ UNCHANGED <<gatewayVars, ghosts, ped, strays, vehicle, inflight, nextPed>>

\* A slip: an entry that went away meanwhile is waited for.
ConfirmCrossingWaits(z, p) ==
    /\ call[z][p].pc = "toComplete"
    /\ pending[z][p].st = "ReadyToTransfer"
    /\ SetPending(z, p, Transferring)
    /\ SetCall(z, p, CallTo("confirm", pending[z][p].to))
    /\ UNCHANGED <<gatewayVars, cooldown, ghosts, ped, strays, vehicle,
                   inflight, nextPed, spent>>

\* HandoffManager::confirm_crossing up to the call to the gateway.
ConfirmCrossing(z, p) ==
    /\ call[z][p].pc = "toComplete"
    /\ IF pending[z][p].st = "ReadyToTransfer"
       THEN /\ SetPending(z, p, Transferring)
            /\ SetCall(z, p, CallTo("confirm", pending[z][p].to))
       ELSE SetCall(z, p, Idle) /\ UNCHANGED pending
    /\ UNCHANGED <<gatewayVars, cooldown, ghosts, ped, strays, vehicle,
                   inflight, nextPed, spent>>

ConfirmAnswered(z, p) ==
    /\ SetPending(z, p, NoHandoff)
    /\ StartCooldown(z, p)
    /\ SetCall(z, p, CallTo("activate", call[z][p].to))

\* GatewayService::confirm_handoff: move the route and begin the hold, whatever
\* the route was and whether or not the player is still connected.
CommitHandoff(p, t) ==
    /\ route' = [route EXCEPT ![p] = t]
    /\ held' = held \cup {p}

ConfirmHandoff(z, p) ==
    /\ call[z][p].pc = "confirm"
    /\ IF call[z][p].to \in registered
       THEN /\ CommitHandoff(p, call[z][p].to)
            /\ \/ ConfirmAnswered(z, p) /\ UNCHANGED spent
               \/ /\ Spend("late")
                  /\ SetCall(z, p, CallTo("confirmOk", call[z][p].to))
                  /\ UNCHANGED <<pending, cooldown>>
       ELSE PrepareFailed(z, p) /\ UNCHANGED <<route, held, spent>>
    /\ UNCHANGED <<phase, homed, release, registered, failing, recovery,
                   ghosts, ped, strays, vehicle, inflight, nextPed>>

LateConfirmAnswer(z, p) ==
    /\ call[z][p].pc = "confirmOk"
    /\ ConfirmAnswered(z, p)
    /\ UNCHANGED <<gatewayVars, ghosts, ped, strays, vehicle, inflight, nextPed, spent>>

ConfirmTimeout(z, p) ==
    /\ call[z][p].pc \in {"confirm", "confirmOk"}
    /\ Spend("timeouts")
    /\ PrepareFailed(z, p)
    /\ UNCHANGED <<gatewayVars, ghosts, ped, strays, vehicle, inflight, nextPed>>

\* ZoneService::activate_player wakes a pending ghost: restore_player_state
\* spawns the snapshot's ped and vehicle and makes that ped the player's own.  A
\* ped that updates had created there before stays behind as a stray.
Restored(t, p, g) ==
    [ped |-> IF g.ped = 0 THEN ped ELSE [ped EXCEPT ![t][p] = g.ped],
     strays |-> IF g.ped = 0 THEN strays
                ELSE [strays EXCEPT ![t][p] = (@ \cup ({ped[t][p]} \ {0})) \ {g.ped}],
     vehicle |-> IF g.veh THEN [vehicle EXCEPT ![t] = @ \cup {p}] ELSE vehicle]

\* A slip: the clean-up does nothing.
ForgottenNothing(world, z, p) == world

\* The zone drops the player's entities: release hook and handoff cleanup.
Forgotten(world, z, p) ==
    [ped |-> [world.ped EXCEPT ![z][p] = 0],
     strays |-> [world.strays EXCEPT ![z][p] = {}],
     vehicle |-> [world.vehicle EXCEPT ![z] = @ \ {p}]]

SetWorld(world) ==
    /\ ped' = world.ped
    /\ strays' = world.strays
    /\ vehicle' = world.vehicle

World == [ped |-> ped, strays |-> strays, vehicle |-> vehicle]

\* complete_handoff, the good end: the target is awake, so the caller forgets
\* the player (post_handoff_cleanup).
ActivatePlayer(z, p) ==
    /\ call[z][p].pc = "activate"
    /\ LET t == call[z][p].to
           g == ghosts[t][p]
       IN /\ g.st = "pending"
          /\ ghosts' = [ghosts EXCEPT ![t][p] = ActiveGhost]
          /\ \/ /\ SetWorld(Forgotten(Restored(t, p, g), z, p))
                /\ SetCall(z, p, Idle)
                /\ UNCHANGED spent
             \/ /\ Spend("late")
                /\ SetWorld(Restored(t, p, g))
                /\ SetCall(z, p, CallTo("activateOk", call[z][p].to))
    /\ UNCHANGED <<gatewayVars, pending, cooldown, inflight, nextPed>>

LateActivateAnswer(z, p) ==
    /\ call[z][p].pc = "activateOk"
    /\ SetWorld(Forgotten(World, z, p))
    /\ SetCall(z, p, Idle)
    /\ UNCHANGED <<gatewayVars, pending, cooldown, ghosts, inflight, nextPed, spent>>

\* No ghost, or one already active: refused.  The entry is removed either way.
ActivateRefused(z, p) ==
    /\ call[z][p].pc = "activate"
    /\ ghosts[call[z][p].to][p].st # "pending"
    /\ ghosts' = [ghosts EXCEPT ![call[z][p].to][p] = NoGhost]
    /\ SetCall(z, p, CallTo("rollback", call[z][p].to))
    /\ UNCHANGED <<gatewayVars, pending, cooldown, ped, strays, vehicle,
                   inflight, nextPed, spent>>

\* A slip: the zone releases the player although the activation failed.
ActivateTimeoutReleases(z, p) ==
    /\ call[z][p].pc \in {"activate", "activateOk"}
    /\ Spend("timeouts")
    /\ SetWorld(Forgotten(World, z, p))
    /\ SetCall(z, p, CallTo("rollback", call[z][p].to))
    /\ UNCHANGED <<gatewayVars, pending, cooldown, ghosts, inflight, nextPed>>

ActivateTimeout(z, p) ==
    /\ call[z][p].pc \in {"activate", "activateOk"}
    /\ Spend("timeouts")
    /\ SetCall(z, p, CallTo("rollback", call[z][p].to))
    /\ UNCHANGED <<gatewayVars, pending, cooldown, ghosts, ped, strays, vehicle,
                   inflight, nextPed>>

\* HandoffManager::rollback_crossing: commit the route back to this zone.  A
\* refusal or a timeout is only logged.
RollbackCrossing(z, p) ==
    /\ call[z][p].pc = "rollback"
    /\ SetCall(z, p, Idle)
    /\ \/ /\ z \in registered
          /\ CommitHandoff(p, z)
          /\ UNCHANGED spent
       \/ z \notin registered /\ UNCHANGED <<route, held, spent>>
       \/ Spend("timeouts") /\ UNCHANGED <<route, held>>
    /\ UNCHANGED <<phase, homed, release, registered, failing, recovery,
                   pending, cooldown, ghosts, ped, strays, vehicle, inflight, nextPed>>

CooldownExpires(z, p) ==
    /\ p \in cooldown[z]
    /\ cooldown' = [cooldown EXCEPT ![z] = @ \ {p}]
    /\ UNCHANGED <<gatewayVars, pending, ghosts, ped, strays, vehicle, call,
                   inflight, nextPed, spent>>

\* ZoneMesh::expire_stale_ghosts: only ghosts that are still pending expire.
ExpireGhost(z, p) ==
    /\ ghosts[z][p].st = "pending"
    /\ ghosts' = [ghosts EXCEPT ![z][p] = NoGhost]
    /\ UNCHANGED <<gatewayVars, pending, cooldown, ped, strays, vehicle, call,
                   inflight, nextPed, spent>>

-----------------------------------------------------------------------------
(* A player disconnects: the UDP layer removes it from the directory and    *)
(* queues Dropped behind its updates; the forwarder then releases it.       *)

Drop(p) ==
    /\ phase[p] = "online"
    /\ phase' = [phase EXCEPT ![p] = "dropped"]
    /\ release' = [release EXCEPT ![p] = [st |-> "queued", zone |-> NoZone]]

Disconnect(p) ==
    /\ p \in Leavers
    /\ Drop(p)
    /\ UNCHANGED <<homed, held, route, registered, failing, recovery, zoneVars,
                   inflight, nextPed, spent>>

\* Dropped: forget the hold, read the route, address its zone.
ReleaseInZone(p) ==
    /\ release[p].st = "queued"
    /\ held' = held \ {p}
    /\ homed' = homed \ {p}
    /\ release' = [release EXCEPT ![p] =
          IF route[p] = NoZone THEN [st |-> "done", zone |-> NoZone]
          ELSE [st |-> IF route[p] \in registered THEN "calling" ELSE "called",
                zone |-> route[p]]]
    /\ UNCHANGED <<phase, route, registered, failing, recovery, zoneVars,
                   inflight, nextPed, spent>>

\* ZoneService::release_player.
ReleasePlayer(p) ==
    /\ release[p].st = "calling"
    /\ LET z == release[p].zone
       IN /\ ghosts' = [ghosts EXCEPT ![z][p] = NoGhost]
          /\ SetPending(z, p, NoHandoff)
          /\ cooldown' = [cooldown EXCEPT ![z] = @ \ {p}]
          /\ SetWorld(Forgotten(World, z, p))
    /\ release' = [release EXCEPT ![p] = [st |-> "called", zone |-> @.zone]]
    /\ UNCHANGED <<phase, homed, held, route, registered, failing, recovery, call,
                   inflight, nextPed, spent>>

ReleaseTimeout(p) ==
    /\ release[p].st = "calling"
    /\ Spend("timeouts")
    /\ release' = [release EXCEPT ![p] = [st |-> "called", zone |-> @.zone]]
    /\ UNCHANGED <<phase, homed, held, route, registered, failing, recovery, zoneVars,
                   inflight, nextPed>>

ForgetRoute(p) ==
    /\ release[p].st = "called"
    /\ release' = [release EXCEPT ![p] = [st |-> "done", zone |-> NoZone]]
    /\ route' = [route EXCEPT ![p] = NoZone]
    /\ UNCHANGED <<phase, homed, held, registered, failing, recovery, zoneVars,
                   inflight, nextPed, spent>>

\* A slip: the sweep looks for players that never joined.
SweepRouteOffline(p) ==
    /\ phase[p] = "offline"
    /\ route[p] # NoZone
    /\ route' = [route EXCEPT ![p] = NoZone]
    /\ UNCHANGED <<phase, homed, held, release, registered, failing, recovery,
                   zoneVars, inflight, nextPed, spent>>

\* The gateway's routing-table sweep.
SweepRoute(p) ==
    /\ phase[p] = "dropped"
    /\ route[p] # NoZone
    /\ route' = [route EXCEPT ![p] = NoZone]
    /\ UNCHANGED <<phase, homed, held, release, registered, failing, recovery,
                   zoneVars, inflight, nextPed, spent>>

-----------------------------------------------------------------------------
(* Zones go silent, restart, register again; the gateway recovers.          *)

EvictZone(z) ==
    /\ z \in registered
    /\ Spend("failures")
    /\ registered' = registered \ {z}
    /\ failing' = failing \cup {z}
    /\ UNCHANGED <<phase, homed, held, route, release, recovery, zoneVars,
                   inflight, nextPed>>

\* A heartbeat answered "unknown": the zone registers again.
RegisterZone(z) ==
    /\ z \notin registered
    /\ registered' = registered \cup {z}
    /\ UNCHANGED <<phase, homed, held, route, release, failing, recovery, zoneVars,
                   inflight, nextPed, spent>>

RestartZone(z) ==
    /\ Spend("failures")
    /\ pending' = [pending EXCEPT ![z] = [p \in Players |-> NoHandoff]]
    /\ cooldown' = [cooldown EXCEPT ![z] = {}]
    /\ ghosts' = [ghosts EXCEPT ![z] = [p \in Players |-> NoGhost]]
    /\ ped' = [ped EXCEPT ![z] = [p \in Players |-> 0]]
    /\ strays' = [strays EXCEPT ![z] = [p \in Players |-> {}]]
    /\ vehicle' = [vehicle EXCEPT ![z] = {}]
    /\ call' = [call EXCEPT ![z] = [p \in Players |-> Idle]]
    /\ inflight' = [inflight EXCEPT ![z] = [p \in Players |-> 0]]
    /\ UNCHANGED <<gatewayVars, nextPed>>

\* GatewayMesh::handle_zone_failure: every orphan goes to a survivor with room
\* or, when there is none, is kicked and loses its route.
HandleZoneFailure(z) ==
    /\ z \in failing
    /\ failing' = failing \ {z}
    /\ LET orphaned == {p \in Players : route[p] = z}
           survivors == registered \ {z}
       IN \E unplaceable \in SUBSET orphaned :
             /\ survivors = {} => unplaceable = orphaned
             /\ \E place \in [orphaned \ unplaceable -> survivors] :
                   /\ route' = [p \in Players |->
                         CASE p \in unplaceable -> NoZone
                           [] p \in orphaned \ unplaceable -> place[p]
                           [] OTHER -> route[p]]
                   /\ recovery' = [p \in Players |->
                         CASE p \in unplaceable -> [st |-> "kick", zone |-> NoZone]
                           [] p \in orphaned \ unplaceable -> [st |-> "prepare", zone |-> place[p]]
                           [] OTHER -> recovery[p]]
    /\ UNCHANGED <<phase, homed, held, release, registered, zoneVars,
                   inflight, nextPed, spent>>

\* The kick reaches the UDP task.
KickOrphan(p) ==
    /\ recovery[p].st = "kick"
    /\ recovery' = [recovery EXCEPT ![p] = NoRecovery]
    /\ IF phase[p] = "online" THEN Drop(p) ELSE UNCHANGED <<phase, release>>
    /\ UNCHANGED <<homed, held, route, registered, failing, zoneVars,
                   inflight, nextPed, spent>>

\* activate_recovered: prepare, then activate, with a snapshot that has no ped.
RecoverPrepare(p) ==
    /\ recovery[p].st = "prepare"
    /\ \/ /\ recovery[p].zone \in registered
          /\ ghosts' = [ghosts EXCEPT ![recovery[p].zone][p] = PendingGhost(Idle)]
          /\ recovery' = [recovery EXCEPT ![p] = [st |-> "activate", zone |-> @.zone]]
          /\ UNCHANGED spent
       \/ /\ recovery[p].zone \notin registered
          /\ recovery' = [recovery EXCEPT ![p] = NoRecovery]
          /\ UNCHANGED <<ghosts, spent>>
       \/ /\ Spend("timeouts")
          /\ recovery' = [recovery EXCEPT ![p] = NoRecovery]
          /\ UNCHANGED ghosts
    /\ UNCHANGED <<phase, homed, held, route, release, registered, failing,
                   pending, cooldown, ped, strays, vehicle, call, inflight, nextPed>>

RecoverActivate(p) ==
    /\ recovery[p].st = "activate"
    /\ recovery' = [recovery EXCEPT ![p] = NoRecovery]
    /\ LET t == recovery[p].zone
           g == ghosts[t][p]
       IN \/ /\ g.st = "pending"
             /\ ghosts' = [ghosts EXCEPT ![t][p] = ActiveGhost]
             /\ SetWorld(Restored(t, p, g))
             /\ UNCHANGED spent
          \/ /\ g.st # "pending"
             /\ ghosts' = [ghosts EXCEPT ![t][p] = NoGhost]
             /\ UNCHANGED <<ped, strays, vehicle, spent>>
          \/ /\ Spend("timeouts")
             /\ UNCHANGED <<ghosts, ped, strays, vehicle>>
    /\ UNCHANGED <<phase, homed, held, route, release, registered, failing,
                   pending, cooldown, call, inflight, nextPed>>

-----------------------------------------------------------------------------
PlayerStep(p) ==
    \/ Connect(p) \/ ForwardUpdate(p) \/ EndHold(p)
    \/ Disconnect(p) \/ ReleaseInZone(p) \/ ReleasePlayer(p) \/ ReleaseTimeout(p)
    \/ ForgetRoute(p) \/ SweepRoute(p)
    \/ KickOrphan(p) \/ RecoverPrepare(p) \/ RecoverActivate(p)

\* The steps that carry an open coroutine forward.
CallStep(z, p) ==
    \/ BuildSnapshot(z, p) \/ RequestHandoff(z, p)
    \/ PrepareHandoff(z, p) \/ LatePrepareAnswer(z, p)
    \/ ConfirmCrossing(z, p) \/ ConfirmHandoff(z, p) \/ LateConfirmAnswer(z, p)
    \/ ActivatePlayer(z, p) \/ LateActivateAnswer(z, p) \/ ActivateRefused(z, p)
    \/ RollbackCrossing(z, p)

CallTimeout(z, p) ==
    PrepareTimeout(z, p) \/ ConfirmTimeout(z, p) \/ ActivateTimeout(z, p)

ZonePlayerStep(z, p) ==
    \/ CallStep(z, p) \/ CallTimeout(z, p)
    \/ ConsumeUpdate(z, p) \/ GainVehicle(z, p)
    \/ CooldownExpires(z, p) \/ ExpireGhost(z, p)

ZoneStep(z) ==
    ScanDecide(z) \/ EvictZone(z) \/ RegisterZone(z) \/ RestartZone(z) \/ HandleZoneFailure(z)

Next ==
    \/ \E p \in Players : PlayerStep(p)
    \/ \E z \in Zones : ZoneStep(z)
    \/ \E z \in Zones, p \in Players : ZonePlayerStep(z, p)

Spec == Init /\ [][Next]_vars

\* A runnable coroutine runs, the forwarder works its queue off, and the sweep
\* comes round every ten seconds.
Fairness ==
    /\ \A z \in Zones, p \in Players : WF_vars(CallStep(z, p))
    /\ \A p \in Players : /\ WF_vars(ReleaseInZone(p))
                          /\ WF_vars(ReleasePlayer(p))
                          /\ WF_vars(ForgetRoute(p))
                          /\ WF_vars(SweepRoute(p))

FairSpec == Spec /\ Fairness

-----------------------------------------------------------------------------
(* Properties.                                                              *)

\* The type invariant of the handoff state.
TypeOK ==
    /\ phase \in [Players -> {"offline", "online", "dropped"}]
    /\ homed \subseteq Players
    /\ held \subseteq Players
    /\ route \in [Players -> Targets]
    /\ release \in [Players -> Releases]
    /\ registered \subseteq Zones
    /\ failing \subseteq Zones
    /\ recovery \in [Players -> Recoveries]
    /\ pending \in [Zones -> [Players -> HandoffStates]]
    /\ cooldown \in [Zones -> SUBSET Players]
    /\ ghosts \in [Zones -> [Players -> GhostStates]]
    /\ ped \in [Zones -> [Players -> PedIds]]
    /\ strays \in [Zones -> [Players -> SUBSET PedIds]]
    /\ vehicle \in [Zones -> SUBSET Players]
    /\ call \in [Zones -> [Players -> Calls]]
    /\ inflight \in [Zones -> [Players -> Nat]]
    /\ nextPed \in Nat
    /\ spent \in [{"timeouts", "late", "failures"} -> Nat]

\* scan_once skips players that are PreparationRequested or Transferring
\* ("in flight") and prune_expired never sweeps Transferring: such an entry must
\* always have a coroutine that will resolve it, or the player could never be
\* handed off again.  Holds whatever is lost, late, released or restarted.
InFlightHasCoroutine ==
    \A z \in Zones, p \in Players :
        /\ pending[z][p] = Requested => call[z][p].pc \in {"prepare", "prepareOk"}
        /\ pending[z][p] = Transferring => call[z][p].pc \in {"confirm", "confirmOk"}

\* No step of a crossing is under way for the player.
Settled(p) ==
    \A z \in Zones :
        call[z][p].pc \notin {"confirm", "confirmOk", "activate", "activateOk", "rollback"}

\* As long as the network is kind (nothing lost, nothing overtaken on its way
\* to a zone, no zone fails), a connected player lives in exactly one zone between crossings, and it
\* is the zone its updates are routed to.  complete_handoff must get this right
\* also when the ghost expired, the player turned round or the activation is
\* refused.
SettledInOneZone ==
    \A p \in Players :
        /\ spent = [timeouts |-> 0, late |-> 0, failures |-> 0] /\ MaxInflight = 0
        /\ phase[p] = "online" /\ p \in homed /\ Settled(p)
        => /\ {z \in Zones : ped[z][p] # 0} = {route[p]}
           /\ strays[route[p]][p] = {}

\* A handoff is safe: none is in flight without the coroutine that ends it, and
\* when no call was lost a player at rest is hosted by the zone of its route alone.
HandoffSafe ==
    /\ TypeOK /\ InFlightHasCoroutine /\ SettledInOneZone

\* The player has a ped in a zone, or the update that creates it is under way.
KnownToSomeZone(p) ==
    phase[p] = "online" /\ p \in homed => \E z \in Zones : ped[z][p] # 0 \/ inflight[z][p] > 0

\* A player that joined is in some zone at every moment of a crossing, however
\* many calls are lost, as long as no answer is overtaken and no zone fails:
\* complete_handoff releases the local player only after the target has woken it.
NeverOrphaned ==
    spent.late = 0 /\ spent.failures = 0 => \A p \in Players : KnownToSomeZone(p)

\* "Releasing locally too would orphan it: known to nobody, updates landing
\* nowhere": complete_handoff orphans no player, slow answers included.
ReleaseNeverOrphans ==
    spent.failures = 0 => \A p \in Players : KnownToSomeZone(p)

\* Every coroutine of the boundary loop ends, so scan_once ends and the next
\* scan can start: a zone never stops handing players over.
EveryCallEnds ==
    \A z \in Zones : []<>(\A p \in Players : call[z][p].pc = "idle")

\* A disconnected player's release always runs to its end and its route goes,
\* also when a handoff under way enters the route again meanwhile
\* (confirm_handoff does not ask whether the player is still there).
RouteForgotten ==
    []<>(\A p \in Players : phase[p] = "dropped" => release[p].st = "done" /\ route[p] = NoZone)

\* A disconnected player that has been released leaves nothing in any zone once
\* the calls about it are over.
NothingLeftBehind ==
    \A p \in Players :
        release[p].st = "done" /\ (\A z \in Zones : call[z][p] = Idle /\ inflight[z][p] = 0)
            => \A z \in Zones : ped[z][p] = 0
=============================================================================
