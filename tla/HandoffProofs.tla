--------------------------- MODULE HandoffProofs ---------------------------
(* Theorems about Handoff, for all players, zones and bounds. *)
EXTENDS Handoff, TLAPS

\* A step goes to Zenon unless it names another prover.
USE ZenonT(60)

USE ConstantsAssumption DEF ConstantsAssumption

\* The types of the sets of entities a zone holds about players.
WorldType ==
    [ped : [Zones -> [Players -> PedIds]],
     strays : [Zones -> [Players -> SUBSET PedIds]],
     vehicle : [Zones -> SUBSET Players]]

\* Membership is a Boolean, also as a value that is stored.
LEMMA MembershipIsBoolean ==
    ASSUME NEW x, NEW S
    PROVE (x \in S) \in BOOLEAN
BY SMTT(30)

\* The coroutine states the actions store are calls, each at the phase it names.
LEMMA CallTypes ==
    /\ Idle \in Calls /\ Idle.pc = "idle"
    /\ \A pc \in LocalPhases : At(pc) \in Calls /\ At(pc).pc = pc
    /\ \A pc \in TargetPhases, t \in Zones : CallTo(pc, t) \in Calls /\ CallTo(pc, t).pc = pc
    /\ \A pc \in LocalPhases, id \in PedIds, veh \in BOOLEAN :
          SnapshotCall(pc, id, veh) \in Calls /\ SnapshotCall(pc, id, veh).pc = pc
BY SMTT(30) DEF PedIds, Idle, At, CallTo, SnapshotCall, Calls, LocalPhases, TargetPhases

\* What a call carries: a snapshot, and a zone exactly when it addresses one.
LEMMA CallFields ==
    ASSUME NEW c \in Calls
    PROVE /\ c.pc \in TargetPhases => c.to \in Zones
          /\ c.ped \in PedIds
          /\ c.veh \in BOOLEAN
<1>1. CASE c \in [pc : LocalPhases, to : {NoZone}, ped : PedIds, veh : BOOLEAN]
  <2>1. c.pc \in LocalPhases /\ c.ped \in PedIds /\ c.veh \in BOOLEAN
    BY <1>1, Zenon
  <2>2. c.pc \notin TargetPhases
    BY <2>1 DEF LocalPhases, TargetPhases
  <2>. QED
    BY <2>1, <2>2, Zenon
<1>2. CASE c \in [pc : TargetPhases, to : Zones, ped : {0}, veh : {FALSE}]
  <2>1. c.to \in Zones /\ c.ped \in {0} /\ c.veh \in {FALSE}
    BY <1>2, Zenon
  <2>2. c.ped \in PedIds
    BY SMTT(30), <2>1 DEF PedIds
  <2>. QED
    BY <2>1, <2>2, Zenon
<1>. QED
  BY <1>1, <1>2 DEF Calls

\* The ghosts the actions store are ghost states.
LEMMA GhostTypes ==
    /\ NoGhost \in GhostStates
    /\ ActiveGhost \in GhostStates
    /\ \A c \in Calls : PendingGhost(c) \in GhostStates
<1>1. NoGhost \in GhostStates /\ ActiveGhost \in GhostStates
  BY SMTT(30) DEF NoGhost, ActiveGhost, GhostStates, PedIds
<1>2. ASSUME NEW c \in Calls PROVE PendingGhost(c) \in GhostStates
  BY CallFields DEF PendingGhost, GhostStates
<1>. QED
  BY <1>1, <1>2

\* The entries of the handoff manager are distinct, and a ready one names its zone.
LEMMA HandoffTypes ==
    /\ NoHandoff \in HandoffStates
    /\ Requested \in HandoffStates
    /\ Transferring \in HandoffStates
    /\ \A t \in Zones : ReadyToTransfer(t) \in HandoffStates
    /\ NoHandoff # Requested /\ NoHandoff # Transferring /\ Requested # Transferring
    /\ \A t \in Zones : ReadyToTransfer(t) # Requested /\ ReadyToTransfer(t) # Transferring
    /\ \A s \in HandoffStates : s.st = "ReadyToTransfer" => s.to \in Zones
<1>. USE DEF HandoffStates, NoHandoff, Requested, Transferring, ReadyToTransfer
<1>1. /\ NoHandoff \in HandoffStates
      /\ Requested \in HandoffStates
      /\ Transferring \in HandoffStates
      /\ \A t \in Zones : ReadyToTransfer(t) \in HandoffStates
  OBVIOUS
<1>2. NoHandoff # Requested /\ NoHandoff # Transferring /\ Requested # Transferring
  <2>1. NoHandoff.st = "None" /\ Requested.st = "PreparationRequested" /\ Transferring.st = "Transferring"
    OBVIOUS
  <2>. QED
    BY <2>1 DEF NoHandoff
<1>3. \A t \in Zones : ReadyToTransfer(t) # Requested /\ ReadyToTransfer(t) # Transferring
  <2>1. TAKE t \in Zones
  <2>2. ReadyToTransfer(t).st = "ReadyToTransfer"
    OBVIOUS
  <2>. QED
    BY <2>2
<1>4. \A s \in HandoffStates : s.st = "ReadyToTransfer" => s.to \in Zones
  BY SMTT(30)
<1>. QED
  BY <1>1, <1>2, <1>3, <1>4

\* The stages of a release, with the zone that is called.
LEMMA ReleaseTypes ==
    /\ \A st \in {"none", "queued", "done"} : [st |-> st, zone |-> NoZone] \in Releases
    /\ \A st \in {"calling", "called"}, z \in Zones : [st |-> st, zone |-> z] \in Releases
    /\ \A r \in Releases : r.st \in {"calling", "called"} => r.zone \in Zones
BY DEF Releases

\* The stages of a recovery, with the zone that is called.
LEMMA RecoveryTypes ==
    /\ NoRecovery \in Recoveries
    /\ [st |-> "kick", zone |-> NoZone] \in Recoveries
    /\ \A st \in {"prepare", "activate"}, z \in Zones : [st |-> st, zone |-> z] \in Recoveries
    /\ \A r \in Recoveries : r.st \in {"prepare", "activate"} => r.zone \in Zones
BY DEF Recoveries, NoRecovery

\* The entities of all zones, as one record.
LEMMA WorldTyped ==
    ASSUME TypeOK
    PROVE World \in WorldType
BY DEF TypeOK, World, WorldType

\* restore_player_state keeps the types of the world.
LEMMA RestoredTyped ==
    ASSUME TypeOK, NEW t \in Zones, NEW p \in Players, NEW g \in GhostStates
    PROVE Restored(t, p, g) \in WorldType
BY SMTT(30) DEF TypeOK, Restored, WorldType, GhostStates

\* on_player_dropped keeps the types of the world.
LEMMA ForgottenTyped ==
    ASSUME NEW w \in WorldType, NEW z \in Zones, NEW p \in Players
    PROVE Forgotten(w, z, p) \in WorldType
BY SMTT(30) DEF Forgotten, WorldType, PedIds

\* Setting one cell of a table, or the whole world, keeps its type.
LEMMA CellTyped ==
    ASSUME NEW S, NEW f \in [Zones -> [Players -> S]],
           NEW z \in Zones, NEW p \in Players, NEW v \in S
    PROVE [f EXCEPT ![z][p] = v] \in [Zones -> [Players -> S]]
OBVIOUS

\* Storing a typed world keeps the types of its three tables.
LEMMA SetWorldTyped ==
    ASSUME NEW w \in WorldType, SetWorld(w)
    PROVE /\ ped' \in [Zones -> [Players -> PedIds]]
          /\ strays' \in [Zones -> [Players -> SUBSET PedIds]]
          /\ vehicle' \in [Zones -> SUBSET Players]
BY DEF SetWorld, WorldType

\* Writing a handoff entry keeps the table typed.
LEMMA SetPendingTyped ==
    ASSUME TypeOK, NEW z \in Zones, NEW p \in Players, NEW s \in HandoffStates, SetPending(z, p, s)
    PROVE pending' \in [Zones -> [Players -> HandoffStates]]
BY DEF TypeOK, SetPending

\* Moving a coroutine keeps the table typed.
LEMMA SetCallTyped ==
    ASSUME TypeOK, NEW z \in Zones, NEW p \in Players, NEW c \in Calls, SetCall(z, p, c)
    PROVE call' \in [Zones -> [Players -> Calls]]
BY DEF TypeOK, SetCall

\* So does sending a coroutine to a call on a zone.
LEMMA CallToTyped ==
    ASSUME TypeOK, NEW z \in Zones, NEW p \in Players, NEW pc \in TargetPhases, NEW t \in Zones,
           SetCall(z, p, CallTo(pc, t))
    PROVE call' \in [Zones -> [Players -> Calls]]
<1>1. CallTo(pc, t) \in Calls
  BY CallTypes
<1>. QED
  BY <1>1, SetCallTyped

\* Starting a cooldown keeps the table typed.
LEMMA StartCooldownTyped ==
    ASSUME TypeOK, NEW z \in Zones, NEW p \in Players, StartCooldown(z, p)
    PROVE cooldown' \in [Zones -> SUBSET Players]
BY DEF TypeOK, StartCooldown

\* Counting a fault keeps the budget typed.
LEMMA SpendTyped ==
    ASSUME TypeOK, NEW kind \in {"timeouts", "late", "failures"}, Spend(kind)
    PROVE spent' \in [{"timeouts", "late", "failures"} -> Nat]
BY SMTT(30) DEF TypeOK, Spend

\* HandoffManager::cancel keeps both of its tables typed.
LEMMA CancelTyped ==
    ASSUME TypeOK, NEW z \in Zones, NEW p \in Players, Cancel(z, p)
    PROVE /\ pending' \in [Zones -> [Players -> HandoffStates]]
          /\ cooldown' \in [Zones -> SUBSET Players]
BY HandoffTypes, SetPendingTyped, StartCooldownTyped DEF TypeOK, Cancel

\* StateIngest::apply keeps the peds typed; a fresh ped is within the bound.
LEMMA IngestTyped ==
    ASSUME TypeOK, NEW z \in Zones, NEW p \in Players, Ingest(z, p)
    PROVE ped' \in [Zones -> [Players -> PedIds]] /\ nextPed' \in Nat
<1>1. CASE ped[z][p] = 0
  <2>1. nextPed \in PedIds
    BY SMTT(30), <1>1 DEF TypeOK, Ingest, PedIds
  <2>2. ped' = [ped EXCEPT ![z][p] = nextPed] /\ nextPed' = nextPed + 1
    BY <1>1 DEF Ingest
  <2>3. ped \in [Zones -> [Players -> PedIds]] /\ nextPed \in Nat
    BY DEF TypeOK
  <2>4. [ped EXCEPT ![z][p] = nextPed] \in [Zones -> [Players -> PedIds]]
    BY <2>1, <2>3, CellTyped
  <2>. QED
    BY SMTT(30), <2>2, <2>3, <2>4
<1>2. CASE ped[z][p] # 0
  BY <1>2 DEF TypeOK, Ingest
<1>. QED
  BY <1>1, <1>2

\* A coroutine that addresses a zone knows which.
LEMMA TargetPhaseNames ==
    /\ "prepareOk" \in TargetPhases /\ "confirm" \in TargetPhases /\ "confirmOk" \in TargetPhases
    /\ "activate" \in TargetPhases /\ "activateOk" \in TargetPhases /\ "rollback" \in TargetPhases
BY DEF TargetPhases

\* The zone a coroutine addresses exists.
LEMMA TargetInZones ==
    ASSUME TypeOK, NEW z \in Zones, NEW p \in Players, call[z][p].pc \in TargetPhases
    PROVE call[z][p].to \in Zones
<1>1. call[z][p] \in Calls
  BY SMTT(30) DEF TypeOK
<1>. QED
  BY ONLY <1>1, call[z][p].pc \in TargetPhases, CallFields

\* The zone a ready entry was prepared in exists.
LEMMA ReadyInZones ==
    ASSUME TypeOK, NEW z \in Zones, NEW p \in Players, pending[z][p].st = "ReadyToTransfer"
    PROVE pending[z][p].to \in Zones
<1>1. pending[z][p] \in HandoffStates
  BY SMTT(30) DEF TypeOK
<1>. QED
  BY <1>1, HandoffTypes

\* Every step keeps the types: one step of the proof per action of Next.
LEMMA TypeStep ==
    ASSUME TypeOK, [Next]_vars
    PROVE TypeOK'
<1>. USE DEF TypeOK, Targets, gatewayVars, zoneVars
<1>1. CASE UNCHANGED vars
  BY <1>1 DEF vars
<1>2. ASSUME NEW p \in Players, Connect(p)
      PROVE TypeOK'
  BY SMTT(30), <1>2 DEF Connect
<1>3. ASSUME NEW p \in Players, ForwardUpdate(p)
      PROVE TypeOK'
  <2>1. PICK z \in IF p \in homed THEN {route[p]} ELSE registered \cup {route[p]} :
           /\ route' = [route EXCEPT ![p] = z]
           /\ z # NoZone
           /\ \/ Ingest(z, p) /\ UNCHANGED inflight
              \/ /\ inflight[z][p] < MaxInflight
                 /\ inflight' = [inflight EXCEPT ![z][p] = @ + 1]
                 /\ UNCHANGED <<ped, nextPed>>
    BY <1>3 DEF ForwardUpdate
  <2>2. z \in Zones
    BY <2>1
  <2>3. CASE Ingest(z, p) /\ UNCHANGED inflight
    BY <1>3, <2>1, <2>2, <2>3, IngestTyped DEF ForwardUpdate
  <2>4. CASE /\ inflight' = [inflight EXCEPT ![z][p] = @ + 1]
             /\ UNCHANGED <<ped, nextPed>>
    BY SMTT(30), <1>3, <2>1, <2>2, <2>4 DEF ForwardUpdate
  <2>. QED
    BY <2>1, <2>3, <2>4
<1>4. ASSUME NEW p \in Players, EndHold(p)
      PROVE TypeOK'
  BY <1>4, SpendTyped DEF EndHold
<1>5. ASSUME NEW p \in Players, Disconnect(p)
      PROVE TypeOK'
  BY <1>5, ReleaseTypes DEF Disconnect, Drop
<1>6. ASSUME NEW p \in Players, ReleaseInZone(p)
      PROVE TypeOK'
  BY <1>6, ReleaseTypes DEF ReleaseInZone
<1>7. ASSUME NEW p \in Players, ReleasePlayer(p)
      PROVE TypeOK'
  BY <1>7, ReleaseTypes, GhostTypes, HandoffTypes, SetPendingTyped, WorldTyped, ForgottenTyped, SetWorldTyped DEF ReleasePlayer
<1>8. ASSUME NEW p \in Players, ReleaseTimeout(p)
      PROVE TypeOK'
  BY <1>8, ReleaseTypes, SpendTyped DEF ReleaseTimeout
<1>9. ASSUME NEW p \in Players, ForgetRoute(p)
      PROVE TypeOK'
  BY <1>9, ReleaseTypes DEF ForgetRoute
<1>10. ASSUME NEW p \in Players, SweepRoute(p)
      PROVE TypeOK'
  BY <1>10 DEF SweepRoute
<1>11. ASSUME NEW p \in Players, KickOrphan(p)
      PROVE TypeOK'
  <2>1. recovery' \in [Players -> Recoveries]
    BY <1>11, RecoveryTypes DEF KickOrphan
  <2>2. /\ phase' \in [Players -> {"offline", "online", "dropped"}]
        /\ release' \in [Players -> Releases]
    <3>1. CASE Drop(p)
      BY <3>1, ReleaseTypes DEF Drop
    <3>2. CASE UNCHANGED <<phase, release>>
      BY <3>2
    <3>. QED
      BY <1>11, <3>1, <3>2 DEF KickOrphan
  <2>. QED
    BY <1>11, <2>1, <2>2 DEF KickOrphan
<1>12. ASSUME NEW p \in Players, RecoverPrepare(p)
      PROVE TypeOK'
  <2>1. recovery[p].zone \in Zones
    BY <1>12, RecoveryTypes DEF RecoverPrepare
  <2>2. PendingGhost(Idle) \in GhostStates
    BY CallTypes, GhostTypes
  <2>3. recovery' \in [Players -> Recoveries]
    <3>1. CASE recovery' = [recovery EXCEPT ![p] = [st |-> "activate", zone |-> @.zone]]
      BY <2>1, <3>1, RecoveryTypes
    <3>2. CASE recovery' = [recovery EXCEPT ![p] = NoRecovery]
      BY <3>2, RecoveryTypes
    <3>. QED
      BY <1>12, <3>1, <3>2 DEF RecoverPrepare
  <2>4. ghosts' \in [Zones -> [Players -> GhostStates]]
    <3>1. CASE ghosts' = [ghosts EXCEPT ![recovery[p].zone][p] = PendingGhost(Idle)]
      BY <2>1, <2>2, <3>1
    <3>2. CASE UNCHANGED ghosts
      BY <3>2
    <3>. QED
      BY <1>12, <3>1, <3>2 DEF RecoverPrepare
  <2>5. spent' \in [{"timeouts", "late", "failures"} -> Nat]
    BY <1>12, SpendTyped DEF RecoverPrepare
  <2>. QED
    BY <1>12, <2>3, <2>4, <2>5 DEF RecoverPrepare
<1>13. ASSUME NEW p \in Players, RecoverActivate(p)
      PROVE TypeOK'
  <2>. DEFINE t == recovery[p].zone
              g == ghosts[t][p]
  <2>1. t \in Zones
    BY <1>13, RecoveryTypes DEF RecoverActivate
  <2>2. g \in GhostStates
    BY SMTT(30), <2>1
  <2>3. CASE ghosts' = [ghosts EXCEPT ![t][p] = ActiveGhost] /\ SetWorld(Restored(t, p, g)) /\ UNCHANGED spent
    <3>1. Restored(t, p, g) \in WorldType
      BY <2>1, <2>2, RestoredTyped
    <3>2. /\ ped' \in [Zones -> [Players -> PedIds]]
          /\ strays' \in [Zones -> [Players -> SUBSET PedIds]]
          /\ vehicle' \in [Zones -> SUBSET Players]
      BY <2>3, <3>1, SetWorldTyped
    <3>3. ghosts' \in [Zones -> [Players -> GhostStates]]
      BY <2>1, <2>3, GhostTypes
    <3>. QED
      BY <1>13, <2>3, <3>2, <3>3, RecoveryTypes DEF RecoverActivate
  <2>4. CASE ghosts' = [ghosts EXCEPT ![t][p] = NoGhost] /\ UNCHANGED <<ped, strays, vehicle, spent>>
    BY <1>13, <2>1, <2>4, RecoveryTypes, GhostTypes DEF RecoverActivate
  <2>5. CASE Spend("timeouts") /\ UNCHANGED <<ghosts, ped, strays, vehicle>>
    BY <1>13, <2>5, RecoveryTypes, SpendTyped DEF RecoverActivate
  <2>. QED
    BY <1>13, <2>3, <2>4, <2>5 DEF RecoverActivate
<1>14. ASSUME NEW z \in Zones, ScanDecide(z)
      PROVE TypeOK'
  BY SMTT(30), <1>14, HandoffTypes, CallTypes DEF ScanDecide, LocalPhases
<1>15. ASSUME NEW z \in Zones, EvictZone(z)
      PROVE TypeOK'
  BY <1>15, SpendTyped DEF EvictZone
<1>16. ASSUME NEW z \in Zones, RegisterZone(z)
      PROVE TypeOK'
  BY <1>16 DEF RegisterZone
<1>17. ASSUME NEW z \in Zones, RestartZone(z)
      PROVE TypeOK'
  BY SMTT(30), <1>17, SpendTyped, HandoffTypes, GhostTypes, CallTypes DEF RestartZone, PedIds
<1>18. ASSUME NEW z \in Zones, HandleZoneFailure(z)
      PROVE TypeOK'
  BY SMTT(30), <1>18, RecoveryTypes DEF HandleZoneFailure
<1>19. ASSUME NEW z \in Zones, NEW p \in Players, BuildSnapshot(z, p)
      PROVE TypeOK'
  <2>1. (p \in vehicle[z]) \in BOOLEAN
    BY MembershipIsBoolean
  <2>2. ped[z][p] \in PedIds /\ "snapshot" \in LocalPhases
    BY SMTT(30) DEF LocalPhases
  <2>3. SnapshotCall("snapshot", ped[z][p], p \in vehicle[z]) \in Calls
    BY ONLY <2>1, <2>2, CallTypes, Zenon
  <2>. QED
    BY <1>19, <2>3, SetCallTyped DEF BuildSnapshot
<1>20. ASSUME NEW z \in Zones, NEW p \in Players, RequestHandoff(z, p)
      PROVE TypeOK'
  <2>1. SnapshotCall("prepare", call[z][p].ped, call[z][p].veh) \in Calls
    <3>1. call[z][p] \in Calls /\ "prepare" \in LocalPhases
      BY SMTT(30) DEF LocalPhases
    <3>2. call[z][p].ped \in PedIds /\ call[z][p].veh \in BOOLEAN
      BY ONLY <3>1, CallFields, Zenon
    <3>. QED
      BY ONLY <3>1, <3>2, CallTypes, Zenon
  <2>2. call' \in [Zones -> [Players -> Calls]]
    BY <1>20, <2>1, CallTypes, SetCallTyped DEF RequestHandoff
  <2>3. pending' \in [Zones -> [Players -> HandoffStates]]
    BY <1>20, HandoffTypes, SetPendingTyped DEF RequestHandoff
  <2>. QED
    BY <1>20, <2>2, <2>3 DEF RequestHandoff
<1>21. ASSUME NEW z \in Zones, NEW p \in Players, PrepareHandoff(z, p)
      PROVE TypeOK'
  <2>1. CASE PrepareFailed(z, p) /\ UNCHANGED <<ghosts, spent>>
    BY <1>21, <2>1, CallTypes, SetCallTyped, CancelTyped DEF PrepareHandoff, PrepareFailed
  <2>2. ASSUME NEW t \in registered \ {z}, ghosts' = [ghosts EXCEPT ![t][p] = PendingGhost(call[z][p])],
               PrepareAnswered(z, p, t)
        PROVE TypeOK'
    <3>1. t \in Zones /\ call[z][p] \in Calls
      BY SMTT(30)
    <3>2. call' \in [Zones -> [Players -> Calls]]
      BY <2>2, CallTypes, SetCallTyped DEF PrepareAnswered
    <3>3. pending' \in [Zones -> [Players -> HandoffStates]]
      BY <2>2, <3>1, HandoffTypes, SetPendingTyped DEF PrepareAnswered
    <3>4. ghosts' \in [Zones -> [Players -> GhostStates]]
      BY <2>2, <3>1, GhostTypes
    <3>. QED
      BY <1>21, <2>2, <3>2, <3>3, <3>4 DEF PrepareHandoff, PrepareAnswered
  <2>3. ASSUME NEW t \in registered \ {z}, ghosts' = [ghosts EXCEPT ![t][p] = PendingGhost(call[z][p])],
               Spend("late"), SetCall(z, p, CallTo("prepareOk", t)), UNCHANGED <<pending, cooldown>>
        PROVE TypeOK'
    <3>1. CallTo("prepareOk", t) \in Calls
      BY CallTypes DEF TargetPhases
    <3>2. call' \in [Zones -> [Players -> Calls]]
      BY <2>3, <3>1, SetCallTyped
    <3>4. t \in Zones /\ call[z][p] \in Calls
      BY SMTT(30)
    <3>3. ghosts' \in [Zones -> [Players -> GhostStates]]
      BY <2>3, <3>4, GhostTypes
    <3>. QED
      BY <1>21, <2>3, <3>2, <3>3, SpendTyped DEF PrepareHandoff
  <2>. QED
    BY <1>21, <2>1, <2>2, <2>3 DEF PrepareHandoff
<1>22. ASSUME NEW z \in Zones, NEW p \in Players, LatePrepareAnswer(z, p)
      PROVE TypeOK'
  <2>1. call[z][p].to \in Zones
    BY <1>22, TargetPhaseNames, TargetInZones DEF LatePrepareAnswer
  <2>2. call' \in [Zones -> [Players -> Calls]]
    BY <1>22, CallTypes, SetCallTyped DEF LatePrepareAnswer, PrepareAnswered
  <2>3. pending' \in [Zones -> [Players -> HandoffStates]]
    BY <1>22, <2>1, HandoffTypes, SetPendingTyped DEF LatePrepareAnswer, PrepareAnswered
  <2>. QED
    BY <1>22, <2>2, <2>3 DEF LatePrepareAnswer, PrepareAnswered
<1>23. ASSUME NEW z \in Zones, NEW p \in Players, PrepareTimeout(z, p)
      PROVE TypeOK'
  BY <1>23, CallTypes, SetCallTyped, CancelTyped, SpendTyped DEF PrepareTimeout, PrepareFailed
<1>24. ASSUME NEW z \in Zones, NEW p \in Players, ConfirmCrossing(z, p)
      PROVE TypeOK'
  <2>1. CASE pending[z][p].st = "ReadyToTransfer"
    <3>1. pending[z][p].to \in Zones
      BY <2>1, ReadyInZones
    <3>2. call' \in [Zones -> [Players -> Calls]]
      BY <1>24, <2>1, <3>1, TargetPhaseNames, CallToTyped DEF ConfirmCrossing
    <3>3. pending' \in [Zones -> [Players -> HandoffStates]]
      BY <1>24, <2>1, HandoffTypes, SetPendingTyped DEF ConfirmCrossing
    <3>. QED
      BY <1>24, <3>2, <3>3 DEF ConfirmCrossing
  <2>2. CASE pending[z][p].st # "ReadyToTransfer"
    BY <1>24, <2>2, CallTypes, SetCallTyped DEF ConfirmCrossing
  <2>. QED
    BY <2>1, <2>2
<1>25. ASSUME NEW z \in Zones, NEW p \in Players, ConfirmHandoff(z, p)
      PROVE TypeOK'
  <2>. DEFINE t == call[z][p].to
  <2>1. t \in Zones
    BY <1>25, TargetPhaseNames, TargetInZones DEF ConfirmHandoff
  <2>2. CallTo("activate", t) \in Calls /\ CallTo("confirmOk", t) \in Calls
    BY <2>1, CallTypes, TargetPhaseNames
  <2>3. CASE CommitHandoff(p, t) /\ ConfirmAnswered(z, p) /\ UNCHANGED spent
    BY <1>25, <2>1, <2>2, <2>3, SetCallTyped, HandoffTypes, SetPendingTyped, StartCooldownTyped
    DEF ConfirmHandoff, CommitHandoff, ConfirmAnswered
  <2>4. CASE /\ CommitHandoff(p, t) /\ Spend("late") /\ SetCall(z, p, CallTo("confirmOk", t))
             /\ UNCHANGED <<pending, cooldown>>
    BY <1>25, <2>1, <2>2, <2>4, SetCallTyped, SpendTyped DEF ConfirmHandoff, CommitHandoff
  <2>5. CASE PrepareFailed(z, p) /\ UNCHANGED <<route, held, spent>>
    BY <1>25, <2>5, CallTypes, SetCallTyped, CancelTyped DEF ConfirmHandoff, PrepareFailed
  <2>. QED
    BY <1>25, <2>3, <2>4, <2>5 DEF ConfirmHandoff
<1>26. ASSUME NEW z \in Zones, NEW p \in Players, LateConfirmAnswer(z, p)
      PROVE TypeOK'
  <2>1. call[z][p].to \in Zones
    BY <1>26, TargetPhaseNames, TargetInZones DEF LateConfirmAnswer
  <2>2. call' \in [Zones -> [Players -> Calls]]
    BY <1>26, <2>1, TargetPhaseNames, CallToTyped DEF LateConfirmAnswer, ConfirmAnswered
  <2>3. pending' \in [Zones -> [Players -> HandoffStates]]
    BY <1>26, HandoffTypes, SetPendingTyped DEF LateConfirmAnswer, ConfirmAnswered
  <2>4. cooldown' \in [Zones -> SUBSET Players]
    BY <1>26, StartCooldownTyped DEF LateConfirmAnswer, ConfirmAnswered
  <2>. QED
    BY <1>26, <2>2, <2>3, <2>4 DEF LateConfirmAnswer
<1>27. ASSUME NEW z \in Zones, NEW p \in Players, ConfirmTimeout(z, p)
      PROVE TypeOK'
  BY <1>27, CallTypes, SetCallTyped, CancelTyped, SpendTyped DEF ConfirmTimeout, PrepareFailed
<1>28. ASSUME NEW z \in Zones, NEW p \in Players, ActivatePlayer(z, p)
      PROVE TypeOK'
  <2>. DEFINE t == call[z][p].to
              g == ghosts[t][p]
  <2>1. t \in Zones
    BY <1>28, TargetPhaseNames, TargetInZones DEF ActivatePlayer
  <2>2. ghosts' \in [Zones -> [Players -> GhostStates]]
    BY <1>28, <2>1, GhostTypes DEF ActivatePlayer
  <2>3. Restored(t, p, g) \in WorldType
    BY SMTT(30), <2>1, RestoredTyped
  <2>4. Forgotten(Restored(t, p, g), z, p) \in WorldType
    BY <2>3, ForgottenTyped
  <2>5. CASE /\ SetWorld(Forgotten(Restored(t, p, g), z, p))
             /\ SetCall(z, p, Idle) /\ UNCHANGED spent
    BY <1>28, <2>2, <2>4, <2>5, CallTypes, SetCallTyped, SetWorldTyped DEF ActivatePlayer
  <2>6. CASE /\ Spend("late") /\ SetWorld(Restored(t, p, g))
             /\ SetCall(z, p, CallTo("activateOk", t))
    <3>1. CallTo("activateOk", t) \in Calls
      BY <2>1, CallTypes DEF TargetPhases
    <3>. QED
      BY <1>28, <2>2, <2>3, <2>6, <3>1, SetCallTyped, SetWorldTyped, SpendTyped DEF ActivatePlayer
  <2>. QED
    BY <1>28, <2>5, <2>6 DEF ActivatePlayer
<1>29. ASSUME NEW z \in Zones, NEW p \in Players, LateActivateAnswer(z, p)
      PROVE TypeOK'
  BY <1>29, CallTypes, SetCallTyped, WorldTyped, ForgottenTyped, SetWorldTyped DEF LateActivateAnswer
<1>30. ASSUME NEW z \in Zones, NEW p \in Players, ActivateRefused(z, p)
      PROVE TypeOK'
  <2>1. call[z][p].to \in Zones
    BY <1>30, TargetPhaseNames, TargetInZones DEF ActivateRefused
  <2>2. call' \in [Zones -> [Players -> Calls]]
    BY <1>30, <2>1, TargetPhaseNames, CallToTyped DEF ActivateRefused
  <2>3. ghosts' \in [Zones -> [Players -> GhostStates]]
    BY <1>30, <2>1, GhostTypes DEF ActivateRefused
  <2>. QED
    BY <1>30, <2>2, <2>3 DEF ActivateRefused
<1>31. ASSUME NEW z \in Zones, NEW p \in Players, ActivateTimeout(z, p)
      PROVE TypeOK'
  <2>1. call[z][p].to \in Zones
    BY <1>31, TargetPhaseNames, TargetInZones DEF ActivateTimeout
  <2>2. call' \in [Zones -> [Players -> Calls]]
    BY <1>31, <2>1, TargetPhaseNames, CallToTyped DEF ActivateTimeout
  <2>3. spent' \in [{"timeouts", "late", "failures"} -> Nat]
    BY <1>31, SpendTyped DEF ActivateTimeout
  <2>. QED
    BY <1>31, <2>2, <2>3 DEF ActivateTimeout
<1>32. ASSUME NEW z \in Zones, NEW p \in Players, RollbackCrossing(z, p)
      PROVE TypeOK'
  <2>1. call' \in [Zones -> [Players -> Calls]]
    BY <1>32, CallTypes, SetCallTyped DEF RollbackCrossing
  <2>2. spent' \in [{"timeouts", "late", "failures"} -> Nat]
    BY <1>32, SpendTyped DEF RollbackCrossing
  <2>3. route' \in [Players -> Targets] /\ held' \subseteq Players
    BY <1>32 DEF RollbackCrossing, CommitHandoff
  <2>. QED
    BY <1>32, <2>1, <2>2, <2>3 DEF RollbackCrossing
<1>33. ASSUME NEW z \in Zones, NEW p \in Players, ConsumeUpdate(z, p)
      PROVE TypeOK'
  BY SMTT(30), <1>33, IngestTyped DEF ConsumeUpdate
<1>34. ASSUME NEW z \in Zones, NEW p \in Players, GainVehicle(z, p)
      PROVE TypeOK'
  BY <1>34 DEF GainVehicle
<1>35. ASSUME NEW z \in Zones, NEW p \in Players, CooldownExpires(z, p)
      PROVE TypeOK'
  BY <1>35 DEF CooldownExpires
<1>36. ASSUME NEW z \in Zones, NEW p \in Players, ExpireGhost(z, p)
      PROVE TypeOK'
  BY <1>36, GhostTypes DEF ExpireGhost
<1>. QED
  BY <1>1, <1>2, <1>3, <1>4, <1>5, <1>6, <1>7, <1>8, <1>9, <1>10, <1>11, <1>12, <1>13, <1>14, <1>15, <1>16, <1>17, <1>18, <1>19, <1>20, <1>21, <1>22, <1>23, <1>24, <1>25, <1>26, <1>27, <1>28, <1>29, <1>30, <1>31, <1>32, <1>33, <1>34, <1>35, <1>36
  DEF Next, PlayerStep, ZoneStep, ZonePlayerStep, CallStep, CallTimeout

\* The inductive invariant behind InFlightHasCoroutine.
InFlightInv == TypeOK /\ InFlightHasCoroutine

\* Cells of the two tables: what a write to one cell leaves in every cell.
LEMMA SetCallCells ==
    ASSUME TypeOK, NEW z \in Zones, NEW p \in Players, NEW c, SetCall(z, p, c)
    PROVE \A y \in Zones, q \in Players :
             call'[y][q] = IF y = z /\ q = p THEN c ELSE call[y][q]
BY DEF TypeOK, SetCall

\* The same for the handoff entries.
LEMMA SetPendingCells ==
    ASSUME TypeOK, NEW z \in Zones, NEW p \in Players, NEW s, SetPending(z, p, s)
    PROVE \A y \in Zones, q \in Players :
             pending'[y][q] = IF y = z /\ q = p THEN s ELSE pending[y][q]
BY DEF TypeOK, SetPending

\* A coroutine that ends takes its in-flight entry with it.
LEMMA FailedCells ==
    ASSUME TypeOK, NEW z \in Zones, NEW p \in Players, PrepareFailed(z, p)
    PROVE /\ pending'[z][p] = NoHandoff
          /\ \A y \in Zones, q \in Players : (y # z \/ q # p) =>
                pending'[y][q] = pending[y][q] /\ call'[y][q] = call[y][q]
<1>1. CASE pending[z][p] # NoHandoff
  BY SMTT(30), <1>1, SetPendingCells, SetCallCells DEF PrepareFailed, Cancel
<1>2. CASE pending[z][p] = NoHandoff
  BY SMTT(30), <1>2, SetCallCells DEF PrepareFailed, Cancel
<1>. QED
  BY <1>1, <1>2

\* A coroutine may move on only within the call its in-flight entry waits for,
\* unless the same step settles the entry.
LEMMA CallMoves ==
    ASSUME InFlightInv, NEW z \in Zones, NEW p \in Players, NEW c, SetCall(z, p, c), UNCHANGED pending,
           call[z][p].pc \in {"prepare", "prepareOk"} => c.pc \in {"prepare", "prepareOk"},
           call[z][p].pc \in {"confirm", "confirmOk"} => c.pc \in {"confirm", "confirmOk"}
    PROVE InFlightHasCoroutine'
<1>1. \A y \in Zones, q \in Players : call'[y][q] = IF y = z /\ q = p THEN c ELSE call[y][q]
  BY SMTT(30), SetCallCells DEF InFlightInv
<1>. QED
  BY <1>1 DEF InFlightInv, InFlightHasCoroutine

\* A step that rewrites the entry leaves it attended if the coroutine is at its call.
LEMMA EntrySettled ==
    ASSUME InFlightInv, NEW z \in Zones, NEW p \in Players, NEW c, NEW s,
           SetCall(z, p, c), SetPending(z, p, s),
           s = Requested => c.pc \in {"prepare", "prepareOk"},
           s = Transferring => c.pc \in {"confirm", "confirmOk"}
    PROVE InFlightHasCoroutine'
<1>1. \A y \in Zones, q \in Players :
         /\ call'[y][q] = IF y = z /\ q = p THEN c ELSE call[y][q]
         /\ pending'[y][q] = IF y = z /\ q = p THEN s ELSE pending[y][q]
  BY SMTT(30), SetCallCells, SetPendingCells DEF InFlightInv
<1>. QED
  BY SMTT(30), <1>1 DEF InFlightInv, InFlightHasCoroutine

\* The error path settles the entry.
LEMMA FailedSettled ==
    ASSUME InFlightInv, NEW z \in Zones, NEW p \in Players, PrepareFailed(z, p)
    PROVE InFlightHasCoroutine'
BY SMTT(30), FailedCells, HandoffTypes DEF InFlightInv, InFlightHasCoroutine

\* The phase of each kind of call.
LEMMA CallPhases ==
    /\ Idle.pc = "idle"
    /\ \A pc, t : CallTo(pc, t).pc = pc
    /\ \A pc, id, veh : SnapshotCall(pc, id, veh).pc = pc
BY DEF Idle, At, CallTo, SnapshotCall

\* Every step keeps in-flight entries attended: one step per action that touches
\* an entry or a coroutine.
LEMMA InFlightStep ==
    ASSUME InFlightInv, [Next]_vars
    PROVE InFlightHasCoroutine'
<1>. USE CallPhases
<1>1. CASE UNCHANGED <<pending, call>>
  BY <1>1 DEF InFlightInv, InFlightHasCoroutine
<1>2. ASSUME NEW p \in Players, ReleasePlayer(p)
      PROVE InFlightHasCoroutine'
  BY <1>2, ReleaseTypes, SetPendingCells, HandoffTypes, SMTT(60)
  DEF ReleasePlayer, TypeOK, InFlightInv, InFlightHasCoroutine
<1>3. ASSUME NEW z \in Zones, ScanDecide(z)
      PROVE InFlightHasCoroutine'
  BY SMTT(30), <1>3, HandoffTypes DEF ScanDecide, TypeOK, InFlightInv, InFlightHasCoroutine
<1>4. ASSUME NEW z \in Zones, RestartZone(z)
      PROVE InFlightHasCoroutine'
  BY <1>4, HandoffTypes DEF RestartZone, TypeOK, InFlightInv, InFlightHasCoroutine
<1>5. ASSUME NEW z \in Zones, NEW p \in Players, BuildSnapshot(z, p)
      PROVE InFlightHasCoroutine'
  BY <1>5, CallMoves DEF BuildSnapshot
<1>6. ASSUME NEW z \in Zones, NEW p \in Players, RequestHandoff(z, p)
      PROVE InFlightHasCoroutine'
  <2>1. CASE SetCall(z, p, Idle) /\ UNCHANGED pending
    BY <1>6, <2>1, CallMoves DEF RequestHandoff
  <2>2. CASE /\ SetPending(z, p, Requested)
             /\ SetCall(z, p, SnapshotCall("prepare", call[z][p].ped, call[z][p].veh))
    BY SMTT(30), <2>2, EntrySettled, HandoffTypes
  <2>. QED
    BY <1>6, <2>1, <2>2 DEF RequestHandoff
<1>7. ASSUME NEW z \in Zones, NEW p \in Players, PrepareHandoff(z, p)
      PROVE InFlightHasCoroutine'
  <2>1. CASE PrepareFailed(z, p)
    BY <2>1, FailedSettled
  <2>2. ASSUME NEW t \in Zones, PrepareAnswered(z, p, t)
        PROVE InFlightHasCoroutine'
    BY <2>2, EntrySettled, HandoffTypes DEF PrepareAnswered
  <2>3. ASSUME NEW t \in Zones, SetCall(z, p, CallTo("prepareOk", t)), UNCHANGED pending
        PROVE InFlightHasCoroutine'
    <3>1. call[z][p].pc = "prepare"
      BY <1>7 DEF PrepareHandoff
    <3>. QED
      BY <2>3, <3>1, CallMoves
  <2>4. registered \subseteq Zones
    BY DEF InFlightInv, TypeOK
  <2>. QED
    BY <1>7, <2>1, <2>2, <2>3, <2>4 DEF PrepareHandoff
<1>8. ASSUME NEW z \in Zones, NEW p \in Players, LatePrepareAnswer(z, p)
      PROVE InFlightHasCoroutine'
  <2>1. call[z][p].to \in Zones
    BY <1>8, TargetPhaseNames, TargetInZones DEF LatePrepareAnswer, InFlightInv
  <2>2. /\ SetPending(z, p, ReadyToTransfer(call[z][p].to))
        /\ SetCall(z, p, Idle)
    BY <1>8 DEF LatePrepareAnswer, PrepareAnswered
  <2>. QED
    BY <2>1, <2>2, EntrySettled, HandoffTypes
<1>9. ASSUME NEW z \in Zones, NEW p \in Players, PrepareTimeout(z, p)
      PROVE InFlightHasCoroutine'
  BY <1>9, FailedSettled DEF PrepareTimeout
<1>10. ASSUME NEW z \in Zones, NEW p \in Players, ConfirmCrossing(z, p)
      PROVE InFlightHasCoroutine'
  <2>1. CASE SetCall(z, p, Idle) /\ UNCHANGED pending
    BY <1>10, <2>1, CallMoves DEF ConfirmCrossing
  <2>2. CASE /\ SetPending(z, p, Transferring)
             /\ SetCall(z, p, CallTo("confirm", pending[z][p].to))
    BY <2>2, EntrySettled, HandoffTypes
  <2>. QED
    BY <1>10, <2>1, <2>2 DEF ConfirmCrossing
<1>11. ASSUME NEW z \in Zones, NEW p \in Players, ConfirmHandoff(z, p)
      PROVE InFlightHasCoroutine'
  <2>1. call[z][p].pc = "confirm"
    BY <1>11 DEF ConfirmHandoff
  <2>2. CASE PrepareFailed(z, p)
    BY <2>2, FailedSettled
  <2>3. CASE ConfirmAnswered(z, p)
    BY <2>3, EntrySettled, HandoffTypes DEF ConfirmAnswered
  <2>4. CASE SetCall(z, p, CallTo("confirmOk", call[z][p].to)) /\ UNCHANGED pending
    BY SMTT(30), <2>1, <2>4, CallMoves
  <2>. QED
    BY <1>11, <2>2, <2>3, <2>4 DEF ConfirmHandoff
<1>12. ASSUME NEW z \in Zones, NEW p \in Players, LateConfirmAnswer(z, p)
      PROVE InFlightHasCoroutine'
  BY <1>12, EntrySettled, HandoffTypes DEF LateConfirmAnswer, ConfirmAnswered
<1>13. ASSUME NEW z \in Zones, NEW p \in Players, ConfirmTimeout(z, p)
      PROVE InFlightHasCoroutine'
  BY <1>13, FailedSettled DEF ConfirmTimeout
<1>14. ASSUME NEW z \in Zones, NEW p \in Players, ActivatePlayer(z, p)
      PROVE InFlightHasCoroutine'
  <2>1. call[z][p].pc = "activate" /\ UNCHANGED pending
    BY <1>14 DEF ActivatePlayer
  <2>2. PICK c : SetCall(z, p, c)
    BY <1>14 DEF ActivatePlayer
  <2>. QED
    BY <2>1, <2>2, CallMoves
<1>15. ASSUME NEW z \in Zones, NEW p \in Players, LateActivateAnswer(z, p)
      PROVE InFlightHasCoroutine'
  BY <1>15, CallMoves DEF LateActivateAnswer
<1>16. ASSUME NEW z \in Zones, NEW p \in Players, ActivateRefused(z, p)
      PROVE InFlightHasCoroutine'
  BY <1>16, CallMoves DEF ActivateRefused
<1>17. ASSUME NEW z \in Zones, NEW p \in Players, ActivateTimeout(z, p)
      PROVE InFlightHasCoroutine'
  BY <1>17, CallMoves DEF ActivateTimeout
<1>18. ASSUME NEW z \in Zones, NEW p \in Players, RollbackCrossing(z, p)
      PROVE InFlightHasCoroutine'
  BY <1>18, CallMoves DEF RollbackCrossing
<1>19. ASSUME NEW p \in Players,
             \/ Connect(p) \/ ForwardUpdate(p) \/ EndHold(p) \/ Disconnect(p)
             \/ ReleaseInZone(p) \/ ReleaseTimeout(p) \/ ForgetRoute(p) \/ SweepRoute(p)
             \/ KickOrphan(p) \/ RecoverPrepare(p) \/ RecoverActivate(p)
      PROVE UNCHANGED <<pending, call>>
  BY <1>19 DEF Connect, ForwardUpdate, EndHold, Disconnect, ReleaseInZone, ReleaseTimeout,
     ForgetRoute, SweepRoute, KickOrphan, RecoverPrepare, RecoverActivate, zoneVars
<1>20. ASSUME NEW z \in Zones, EvictZone(z) \/ RegisterZone(z) \/ HandleZoneFailure(z)
      PROVE UNCHANGED <<pending, call>>
  BY <1>20 DEF EvictZone, RegisterZone, HandleZoneFailure, zoneVars
<1>21. ASSUME NEW z \in Zones, NEW p \in Players,
             \/ ConsumeUpdate(z, p) \/ GainVehicle(z, p)
             \/ CooldownExpires(z, p) \/ ExpireGhost(z, p)
      PROVE UNCHANGED <<pending, call>>
  BY <1>21 DEF ConsumeUpdate, GainVehicle, CooldownExpires, ExpireGhost
<1>22. CASE UNCHANGED vars
  BY <1>1, <1>22 DEF vars, zoneVars
<1>. QED
  BY <1>1, <1>2, <1>3, <1>4, <1>5, <1>6, <1>7, <1>8, <1>9, <1>10, <1>11, <1>12, <1>13, <1>14, <1>15, <1>16, <1>17, <1>18, <1>19, <1>20, <1>21, <1>22
  DEF Next, PlayerStep, ZoneStep, ZonePlayerStep, CallStep, CallTimeout

\* Nothing is in flight at the start.
LEMMA InitInFlight ==
    ASSUME Init
    PROVE InFlightInv
<1>1. /\ phase \in [Players -> {"offline", "online", "dropped"}]
      /\ route \in [Players -> Targets]
      /\ release \in [Players -> Releases]
      /\ recovery \in [Players -> Recoveries]
  BY ReleaseTypes, RecoveryTypes DEF Init, Targets, NoRelease
<1>2. homed \subseteq Players /\ held \subseteq Players /\ registered \subseteq Zones /\ failing \subseteq Zones
  BY DEF Init
<1>3. /\ pending \in [Zones -> [Players -> HandoffStates]]
      /\ ghosts \in [Zones -> [Players -> GhostStates]]
      /\ call \in [Zones -> [Players -> Calls]]
  BY HandoffTypes, GhostTypes, CallTypes DEF Init
<1>4. /\ ped \in [Zones -> [Players -> PedIds]]
      /\ strays \in [Zones -> [Players -> SUBSET PedIds]]
      /\ cooldown \in [Zones -> SUBSET Players]
      /\ vehicle \in [Zones -> SUBSET Players]
  BY SMTT(30) DEF Init, PedIds
<1>5. /\ inflight \in [Zones -> [Players -> Nat]]
      /\ nextPed \in Nat
      /\ spent \in [{"timeouts", "late", "failures"} -> Nat]
  BY SMTT(30) DEF Init
<1>6. InFlightHasCoroutine
  BY HandoffTypes DEF Init, InFlightHasCoroutine
<1>. QED
  BY <1>1, <1>2, <1>3, <1>4, <1>5, <1>6 DEF InFlightInv, TypeOK

\* The tables of the gateway and of the zones keep their types in every behaviour.
THEOREM TypeCorrect == Spec => []TypeOK
<1>1. Init => TypeOK
  BY InitInFlight DEF InFlightInv
<1>2. TypeOK /\ [Next]_vars => TypeOK'
  BY TypeStep
<1>. QED
  BY <1>1, <1>2, PTL DEF Spec

\* Whatever is lost, late, released or restarted, a handoff entry that scan_once
\* skips as in flight has a coroutine that will resolve it.
THEOREM InFlightSafe == Spec => []InFlightHasCoroutine
<1>1. Init => InFlightInv
  BY InitInFlight
<1>2. InFlightInv /\ [Next]_vars => InFlightInv'
  BY TypeStep, InFlightStep DEF InFlightInv
<1>3. InFlightInv => InFlightHasCoroutine
  BY DEF InFlightInv
<1>. QED
  BY <1>1, <1>2, <1>3, PTL DEF Spec

HIDE ConstantsAssumption DEF ConstantsAssumption

-----------------------------------------------------------------------------
(* No player is orphaned.                                                   *)

\* What ties a player to the mesh while no answer is late and no zone fails: a
\* prepared snapshot has its ped in it, and a crossing leads to another zone.
Anchored(p) ==
    /\ recovery[p] = NoRecovery
    /\ \A z \in Zones :
          /\ call[z][p].pc \notin {"prepareOk", "confirmOk", "activateOk"}
          /\ call[z][p].pc \in {"confirm", "activate", "rollback"} => call[z][p].to # z
          /\ pending[z][p].st = "ReadyToTransfer" => pending[z][p].to # z
    /\ phase[p] # "dropped" =>
          /\ release[p].st = "none"
          /\ phase[p] = "offline" => p \notin homed
          /\ \A z \in Zones :
                /\ ghosts[z][p].st = "pending" => ghosts[z][p].ped # 0
                /\ call[z][p].pc \in {"snapshot", "prepare"} => call[z][p].ped # 0
                /\ call[z][p].pc = "toPrepare" => ped[z][p] # 0
          /\ KnownToSomeZone(p)

\* No zone has failed, and 0 is nobody's ped.
Calm == registered = Zones /\ failing = {} /\ nextPed > 0

\* No answer was overtaken, no hold expired early and no zone failed.
Kind == spent.late = 0 /\ spent.failures = 0

\* The inductive invariant behind NeverOrphaned.
OrphanInv == TypeOK /\ (Kind => Calm /\ \A p \in Players : Anchored(p))

\* Zone h hosts player p, alone; while a crossing is committed and not yet over
\* the updates wait and the route leads to the zone that will host it.
HostedBy(p, h) ==
    /\ ped[h][p] # 0
    /\ \A z \in Zones : strays[z][p] = {}
    /\ \A z \in Zones \ {h} : ped[z][p] = 0 /\ call[z][p] = Idle /\ pending[z][p] = NoHandoff
    /\ IF call[h][p].pc \in {"activate", "rollback"}
       THEN p \in held /\ route[p] = call[h][p].to /\ pending[h][p] = NoHandoff
       ELSE route[p] = h

\* No zone knows the player.
Unknown(p) ==
    \A z \in Zones : ped[z][p] = 0 /\ strays[z][p] = {} /\ call[z][p] = Idle /\ pending[z][p] = NoHandoff

\* A connected player is hosted from its first update on, not before.
Hosted(p) ==
    /\ \A z \in Zones : inflight[z][p] = 0
    /\ phase[p] # "dropped" => IF p \in homed THEN \E h \in Zones : HostedBy(p, h) ELSE Unknown(p)

\* The network is kind: nothing lost, late or overtaken, and no zone fails.
Kindest == spent = [timeouts |-> 0, late |-> 0, failures |-> 0] /\ MaxInflight = 0

\* The inductive invariant behind SettledInOneZone.
HostedInv == OrphanInv /\ (Kindest => \A p \in Players : Hosted(p))

\* The fields of the values that the steps store.
LEMMA StoredFields ==
    /\ Idle.pc = "idle"
    /\ \A pc, t : CallTo(pc, t).pc = pc /\ CallTo(pc, t).to = t
    /\ \A pc, id, veh : SnapshotCall(pc, id, veh).pc = pc /\ SnapshotCall(pc, id, veh).ped = id
    /\ NoHandoff.st = "None" /\ Requested.st = "PreparationRequested" /\ Transferring.st = "Transferring"
    /\ \A t : ReadyToTransfer(t).st = "ReadyToTransfer" /\ ReadyToTransfer(t).to = t
    /\ NoGhost.st = "none" /\ ActiveGhost.st = "active"
    /\ \A c : PendingGhost(c).st = "pending" /\ PendingGhost(c).ped = c.ped
BY DEF Idle, At, CallTo, SnapshotCall, NoHandoff, Requested, Transferring, ReadyToTransfer,
       NoGhost, ActiveGhost, PendingGhost

\* The types of single tables.
LEMMA SpentTyped ==
    ASSUME TypeOK
    PROVE spent \in [{"timeouts", "late", "failures"} -> Nat]
BY DEF TypeOK

\* A ghost of the zones' tables.
LEMMA GhostTyped ==
    ASSUME TypeOK, NEW t \in Zones, NEW p \in Players
    PROVE ghosts[t][p] \in GhostStates
BY SMTT(30) DEF TypeOK

\* A step that leaves no more faults than none has met none.
LEMMA NothingSpent ==
    ASSUME TypeOK, NEW kind \in {"timeouts", "late", "failures"}, spent'[kind] = 0
    PROVE ~Spend(kind)
BY SMTT(30), SpentTyped DEF Spend

\* An entry that stays is written with its own value.
LEMMA SamePending ==
    ASSUME TypeOK, NEW z \in Zones, NEW p \in Players, UNCHANGED pending
    PROVE SetPending(z, p, pending[z][p])
<1>1. pending \in [Zones -> [Players -> HandoffStates]]
  BY DEF TypeOK
<1>. QED
  BY <1>1 DEF SetPending

\* The ghost of p in t becomes g.
GhostSet(t, p, g) == ghosts' = [ghosts EXCEPT ![t][p] = g]
\* No ghost changes but those of p, which become g.
OnlyGhost(p, g) ==
    \A y \in Zones, q \in Players : ghosts'[y][q] = ghosts[y][q] \/ (q = p /\ ghosts'[y][q] = g)

\* An assignment to one ghost leaves the others as they were.
LEMMA GhostCells ==
    ASSUME TypeOK, NEW t, NEW p, NEW g, GhostSet(t, p, g)
    PROVE OnlyGhost(p, g)
<1>. SUFFICES ASSUME NEW y \in Zones, NEW q \in Players
              PROVE ghosts'[y][q] = ghosts[y][q] \/ (q = p /\ ghosts'[y][q] = g)
  BY DEF OnlyGhost
<1>1. ghosts \in [Zones -> [Players -> GhostStates]]
  BY DEF TypeOK
<1>. QED
  BY <1>1 DEF GhostSet

\* A coroutine of a zone z for player p may stand at c.
SoundCall(z, p, c) ==
    /\ c.pc \notin {"prepareOk", "confirmOk", "activateOk"}
    /\ c.pc \in {"confirm", "activate", "rollback"} => c.to # z
    /\ phase[p] # "dropped" /\ c.pc \in {"snapshot", "prepare"} => c.ped # 0
    /\ phase[p] # "dropped" /\ c.pc = "toPrepare" => ped[z][p] # 0

\* A ghost that the step leaves pending was there before or holds the ped of p.
SoundGhosts(p) ==
    \A y \in Zones, q \in Players : ghosts'[y][q].st = "pending" =>
        \/ ghosts'[y][q] = ghosts[y][q]
        \/ q = p /\ (phase[p] # "dropped" => ghosts'[y][q].ped # 0)

\* The step changes neither who is connected nor which peds exist.
SamePlayers == UNCHANGED <<phase, homed, release, recovery, ped, inflight>>

\* One coroutine and its entry move on, and at most a ghost of the same player
\* comes, changes or goes.
LEMMA CellsAnchored ==
    ASSUME TypeOK, \A q \in Players : Anchored(q), NEW z \in Zones, NEW p \in Players, NEW c, NEW s,
           SetCall(z, p, c), SoundCall(z, p, c),
           SetPending(z, p, s), s.st = "ReadyToTransfer" => s.to # z,
           SoundGhosts(p), SamePlayers
    PROVE \A q \in Players : Anchored(q)'
<1>. SUFFICES ASSUME NEW q \in Players
              PROVE Anchored(q)'
  OBVIOUS
<1>1. Anchored(q) /\ UNCHANGED <<phase, homed, release, recovery, ped, inflight>>
  BY DEF SamePlayers
<1>5. \A y \in Zones : call'[y][q] = IF y = z /\ q = p THEN c ELSE call[y][q]
  BY SMTT(30), SetCallCells
<1>6. \A y \in Zones : pending'[y][q] = IF y = z /\ q = p THEN s ELSE pending[y][q]
  BY SMTT(30), SetPendingCells
<1>2. /\ recovery'[q] = NoRecovery
      /\ \A y \in Zones : /\ call'[y][q].pc \notin {"prepareOk", "confirmOk", "activateOk"}
                          /\ call'[y][q].pc \in {"confirm", "activate", "rollback"} => call'[y][q].to # y
                          /\ pending'[y][q].st = "ReadyToTransfer" => pending'[y][q].to # y
  BY <1>1, <1>5, <1>6 DEF Anchored, SoundCall
<1>3. ASSUME phase'[q] # "dropped"
      PROVE /\ release'[q].st = "none"
            /\ phase'[q] = "offline" => q \notin homed'
            /\ \A y \in Zones : /\ ghosts'[y][q].st = "pending" => ghosts'[y][q].ped # 0
                                /\ call'[y][q].pc \in {"snapshot", "prepare"} => call'[y][q].ped # 0
                                /\ call'[y][q].pc = "toPrepare" => ped'[y][q] # 0
  BY SMTT(30), <1>1, <1>3, <1>5 DEF Anchored, SoundCall, SoundGhosts
<1>4. phase'[q] # "dropped" => KnownToSomeZone(q)'
  BY <1>1 DEF Anchored, KnownToSomeZone
<1>. QED
  BY <1>2, <1>3, <1>4 DEF Anchored

\* The same when the entry stays as it is.
LEMMA CallCellAnchored ==
    ASSUME TypeOK, \A q \in Players : Anchored(q), NEW z \in Zones, NEW p \in Players, NEW c,
           SetCall(z, p, c), SoundCall(z, p, c), UNCHANGED pending, SoundGhosts(p), SamePlayers
    PROVE \A q \in Players : Anchored(q)'
<1>1. SetPending(z, p, pending[z][p])
  BY SamePending
<1>2. pending[z][p].st = "ReadyToTransfer" => pending[z][p].to # z
  BY DEF Anchored
<1>. QED
  BY <1>1, <1>2, CellsAnchored

\* The gateway's part of a step: a player it does not concern stays anchored.
LEMMA ZonesUntouched ==
    ASSUME NEW q \in Players, Anchored(q), UNCHANGED <<pending, ghosts, ped, call, inflight>>,
           recovery'[q] = NoRecovery,
           \/ phase'[q] = "dropped"
           \/ /\ phase'[q] = phase[q] \/ (phase[q] = "offline" /\ phase'[q] = "online")
              /\ release'[q] = release[q]
              /\ q \in homed' <=> q \in homed
    PROVE Anchored(q)'
BY DEF Anchored, KnownToSomeZone

\* The steps of a coroutine.
LEMMA CallAnchored ==
    ASSUME OrphanInv, Calm, \A q \in Players : Anchored(q), Kind',
           NEW z \in Zones, NEW p \in Players, CallStep(z, p) \/ CallTimeout(z, p), ~ActivatePlayer(z, p)
    PROVE \A q \in Players : Anchored(q)'
<1>0. TypeOK /\ Anchored(p)
  BY DEF OrphanInv
<1>12. UNCHANGED ghosts => SoundGhosts(p)
  BY StoredFields DEF SoundGhosts
<1>13. SoundCall(z, p, Idle)
  BY StoredFields DEF SoundCall
<1>1. CASE BuildSnapshot(z, p)
  <2>. DEFINE c == SnapshotCall("snapshot", ped[z][p], p \in vehicle[z])
  <2>1. SetCall(z, p, c) /\ call[z][p].pc = "toPrepare" /\ UNCHANGED <<pending, ghosts>> /\ SamePlayers
    BY <1>1 DEF BuildSnapshot, gatewayVars, SamePlayers
  <2>2. SoundCall(z, p, c)
    BY SMTT(30), <1>0, <2>1, StoredFields DEF Anchored, SoundCall
  <2>. QED
    BY <1>0, <1>12, <2>1, <2>2, CallCellAnchored
<1>2. CASE RequestHandoff(z, p)
  <2>. DEFINE c == SnapshotCall("prepare", call[z][p].ped, call[z][p].veh)
  <2>1. call[z][p].pc = "snapshot" /\ UNCHANGED ghosts /\ SamePlayers
    BY <1>2 DEF RequestHandoff, gatewayVars, SamePlayers
  <2>2. CASE SetCall(z, p, Idle) /\ UNCHANGED pending
    BY <1>0, <1>12, <1>13, <2>1, <2>2, CallCellAnchored
  <2>3. CASE SetPending(z, p, Requested) /\ SetCall(z, p, c)
    <3>1. SoundCall(z, p, c)
      BY SMTT(30), <1>0, <2>1, StoredFields DEF Anchored, SoundCall
    <3>. QED
      BY <1>0, <1>12, <2>1, <2>3, <3>1, CellsAnchored, StoredFields
  <2>. QED
    BY <1>2, <2>2, <2>3 DEF RequestHandoff
<1>3. ASSUME PrepareFailed(z, p), UNCHANGED ghosts, SamePlayers
      PROVE \A q \in Players : Anchored(q)'
  <2>1. SetCall(z, p, Idle) /\ (SetPending(z, p, NoHandoff) \/ UNCHANGED pending)
    BY <1>3 DEF PrepareFailed, Cancel
  <2>2. CASE SetPending(z, p, NoHandoff)
    BY <1>0, <1>3, <1>12, <1>13, <2>1, <2>2, CellsAnchored, StoredFields
  <2>3. CASE UNCHANGED pending
    BY <1>0, <1>3, <1>12, <1>13, <2>1, <2>3, CallCellAnchored
  <2>. QED
    BY <2>1, <2>2, <2>3
<1>14. ~Spend("late")
  BY <1>0, NothingSpent DEF Kind
<1>4. CASE PrepareHandoff(z, p)
  <2>1. call[z][p].pc = "prepare" /\ SamePlayers
    BY <1>4 DEF PrepareHandoff, gatewayVars, SamePlayers
  <2>2. ASSUME NEW t \in registered \ {z}, ghosts' = [ghosts EXCEPT ![t][p] = PendingGhost(call[z][p])],
               PrepareAnswered(z, p, t)
        PROVE \A q \in Players : Anchored(q)'
    <3>1. SetPending(z, p, ReadyToTransfer(t)) /\ SetCall(z, p, Idle)
      BY <2>2 DEF PrepareAnswered
    <3>2. \A y \in Zones, q \in Players :
             ghosts'[y][q] = ghosts[y][q] \/ (q = p /\ ghosts'[y][q] = PendingGhost(call[z][p]))
      <4>0. GhostSet(t, p, PendingGhost(call[z][p]))
        BY <2>2 DEF GhostSet
      <4>9. OnlyGhost(p, PendingGhost(call[z][p]))
        BY <1>0, <4>0, GhostCells
      <4>. QED
        BY <4>9 DEF OnlyGhost
    <3>3. SoundGhosts(p)
      BY SMTT(30), <1>0, <2>1, <3>2, StoredFields DEF SoundGhosts, Anchored
    <3>4. ReadyToTransfer(t).to # z
      BY <2>2, StoredFields
    <3>. QED
      BY <1>0, <1>13, <2>1, <3>1, <3>3, <3>4, CellsAnchored, StoredFields
  <2>. QED
    BY <1>3, <1>4, <1>14, <2>1, <2>2 DEF PrepareHandoff
<1>5. CASE PrepareTimeout(z, p) \/ ConfirmTimeout(z, p)
  <2>1. PrepareFailed(z, p) /\ UNCHANGED ghosts /\ SamePlayers
    BY <1>5 DEF PrepareTimeout, ConfirmTimeout, gatewayVars, SamePlayers
  <2>. QED
    BY <1>3, <2>1
<1>6. CASE ConfirmCrossing(z, p)
  <2>1. call[z][p].pc = "toComplete" /\ UNCHANGED ghosts /\ SamePlayers
    BY <1>6 DEF ConfirmCrossing, gatewayVars, SamePlayers
  <2>2. CASE SetCall(z, p, Idle) /\ UNCHANGED pending
    BY <1>0, <1>12, <1>13, <2>1, <2>2, CallCellAnchored
  <2>3. CASE /\ SetPending(z, p, Transferring) /\ pending[z][p].st = "ReadyToTransfer"
             /\ SetCall(z, p, CallTo("confirm", pending[z][p].to))
    <3>1. SoundCall(z, p, CallTo("confirm", pending[z][p].to))
      BY SMTT(30), <1>0, <2>3, StoredFields DEF Anchored, SoundCall
    <3>. QED
      BY <1>0, <1>12, <2>1, <2>3, <3>1, CellsAnchored, StoredFields
  <2>. QED
    BY <1>6, <2>2, <2>3 DEF ConfirmCrossing
<1>7. CASE ConfirmHandoff(z, p)
  <2>1. call[z][p].pc = "confirm" /\ UNCHANGED ghosts /\ SamePlayers
    BY <1>7 DEF ConfirmHandoff, SamePlayers
  <2>2. CASE ConfirmAnswered(z, p)
    <3>1. SetPending(z, p, NoHandoff) /\ SetCall(z, p, CallTo("activate", call[z][p].to))
      BY <2>2 DEF ConfirmAnswered
    <3>2. SoundCall(z, p, CallTo("activate", call[z][p].to))
      BY SMTT(30), <1>0, <2>1, StoredFields DEF Anchored, SoundCall
    <3>. QED
      BY <1>0, <1>12, <2>1, <3>1, <3>2, CellsAnchored, StoredFields
  <2>. QED
    BY <1>3, <1>7, <1>14, <2>1, <2>2 DEF ConfirmHandoff
<1>8. CASE ActivateRefused(z, p) \/ ActivateTimeout(z, p)
  <2>1. /\ call[z][p].pc \in {"activate", "activateOk"} /\ SetCall(z, p, CallTo("rollback", call[z][p].to))
        /\ UNCHANGED pending /\ SamePlayers
        /\ ghosts' = ghosts \/ ghosts' = [ghosts EXCEPT ![call[z][p].to][p] = NoGhost]
    BY <1>8 DEF ActivateRefused, ActivateTimeout, gatewayVars, SamePlayers
  <2>2. \A y \in Zones, q \in Players : ghosts'[y][q] = ghosts[y][q] \/ ghosts'[y][q] = NoGhost
    <3>1. CASE ghosts' = ghosts
      BY <3>1
    <3>2. CASE ghosts' = [ghosts EXCEPT ![call[z][p].to][p] = NoGhost]
      <4>0. GhostSet(call[z][p].to, p, NoGhost)
        BY <3>2 DEF GhostSet
      <4>9. OnlyGhost(p, NoGhost)
        BY <1>0, <4>0, GhostCells
      <4>. QED
        BY <4>9 DEF OnlyGhost
    <3>. QED
      BY <2>1, <3>1, <3>2
  <2>3. SoundGhosts(p) /\ SoundCall(z, p, CallTo("rollback", call[z][p].to))
    BY SMTT(30), <1>0, <2>1, <2>2, StoredFields DEF Anchored, SoundCall, SoundGhosts
  <2>. QED
    BY <1>0, <2>1, <2>3, CallCellAnchored
<1>9. CASE RollbackCrossing(z, p)
  <2>1. SetCall(z, p, Idle) /\ UNCHANGED <<pending, ghosts>> /\ SamePlayers
    BY <1>9 DEF RollbackCrossing, SamePlayers
  <2>. QED
    BY <1>0, <1>12, <1>13, <2>1, CallCellAnchored
<1>11. ~LatePrepareAnswer(z, p) /\ ~LateConfirmAnswer(z, p) /\ ~LateActivateAnswer(z, p)
  BY <1>0, StoredFields DEF Anchored, LatePrepareAnswer, LateConfirmAnswer, LateActivateAnswer
<1>. QED
  BY <1>1, <1>2, <1>4, <1>5, <1>6, <1>7, <1>8, <1>9, <1>11 DEF CallStep, CallTimeout

\* The target wakes the player before the caller forgets it: the peds.
LEMMA ActivatePeds ==
    ASSUME TypeOK, NEW z \in Zones, NEW p \in Players, NEW t \in Zones, NEW g \in GhostStates,
           SetWorld(Forgotten(Restored(t, p, g), z, p))
    PROVE /\ \A y \in Zones, q \in Players : q # p => ped'[y][q] = ped[y][q]
          /\ g.ped # 0 => \A y \in Zones :
                ped'[y][p] = IF y = z THEN 0 ELSE IF y = t THEN g.ped ELSE ped[y][p]
<1>1. ped' = [(IF g.ped = 0 THEN ped ELSE [ped EXCEPT ![t][p] = g.ped]) EXCEPT ![z][p] = 0]
  BY DEF SetWorld, Forgotten, Restored
<1>2. ped \in [Zones -> [Players -> PedIds]]
  BY DEF TypeOK
<1>3. CASE g.ped = 0
  BY <1>1, <1>2, <1>3
<1>4. CASE g.ped # 0
  <2>1. ped' = [[ped EXCEPT ![t][p] = g.ped] EXCEPT ![z][p] = 0]
    BY <1>1, <1>4
  <2>2. \A y \in Zones, q \in Players : ped'[y][q] =
           IF q = p /\ y = z THEN 0 ELSE IF q = p /\ y = t THEN g.ped ELSE ped[y][q]
    BY <1>2, <2>1
  <2>. QED
    BY <2>2
<1>. QED
  BY <1>3, <1>4

\* The same for the peds that were left behind.
LEMMA ActivateStrays ==
    ASSUME TypeOK, NEW z \in Zones, NEW p \in Players, NEW t \in Zones, NEW g \in GhostStates,
           SetWorld(Forgotten(Restored(t, p, g), z, p))
    PROVE /\ \A y \in Zones, q \in Players : q # p => strays'[y][q] = strays[y][q]
          /\ ped[t][p] = 0 /\ (\A y \in Zones : strays[y][p] = {}) => \A y \in Zones : strays'[y][p] = {}
<1>. DEFINE left == (strays[t][p] \cup ({ped[t][p]} \ {0})) \ {g.ped}
<1>1. strays' = [(IF g.ped = 0 THEN strays ELSE [strays EXCEPT ![t][p] = left]) EXCEPT ![z][p] = {}]
  BY DEF SetWorld, Forgotten, Restored
<1>2. strays \in [Zones -> [Players -> SUBSET PedIds]]
  BY DEF TypeOK
<1>3. CASE g.ped = 0
  BY <1>1, <1>2, <1>3
<1>4. CASE g.ped # 0
  <2>1. ped[t][p] = 0 /\ strays[t][p] = {} => left = {}
    OBVIOUS
  <2>. HIDE DEF left
  <2>2. strays' = [[strays EXCEPT ![t][p] = left] EXCEPT ![z][p] = {}]
    BY <1>1, <1>4
  <2>3. \A y \in Zones, q \in Players : strays'[y][q] =
           IF q = p /\ y = z THEN {} ELSE IF q = p /\ y = t THEN left ELSE strays[y][q]
    BY <1>2, <2>2
  <2>. QED
    BY <2>1, <2>3
<1>. QED
  BY <1>3, <1>4

\* complete_handoff: the player is known in the zone it went to.
LEMMA ActivateAnchored ==
    ASSUME OrphanInv, \A q \in Players : Anchored(q), Kind',
           NEW z \in Zones, NEW p \in Players, ActivatePlayer(z, p)
    PROVE \A q \in Players : Anchored(q)'
<1>0. TypeOK /\ Anchored(p) /\ call[z][p].pc = "activate"
      /\ UNCHANGED <<phase, homed, release, recovery, pending, inflight>>
  BY DEF OrphanInv, ActivatePlayer, gatewayVars
<1>1. PICK t \in Zones : t = call[z][p].to /\ t # z
  BY <1>0, TargetPhaseNames, TargetInZones, StoredFields DEF Anchored
<1>9. PICK g \in GhostStates : g = ghosts[t][p]
  BY <1>0, GhostTyped
<1>2. ~Spend("late")
  BY <1>0, NothingSpent DEF Kind
<1>3. /\ ghosts' = [ghosts EXCEPT ![t][p] = ActiveGhost] /\ g.st = "pending"
      /\ SetWorld(Forgotten(Restored(t, p, g), z, p)) /\ SetCall(z, p, Idle)
  BY <1>1, <1>2, <1>9 DEF ActivatePlayer
<1>4. \A y \in Zones, q \in Players : call'[y][q] = IF y = z /\ q = p THEN Idle ELSE call[y][q]
  BY SMTT(30), <1>0, <1>3, SetCallCells
<1>5. \A y \in Zones, q \in Players : ghosts'[y][q] = IF y = t /\ q = p THEN ActiveGhost ELSE ghosts[y][q]
  BY <1>0, <1>3 DEF TypeOK
<1>6. /\ \A y \in Zones, q \in Players : q # p => ped'[y][q] = ped[y][q]
      /\ g.ped # 0 => \A y \in Zones : ped'[y][p] = IF y = z THEN 0 ELSE IF y = t THEN g.ped ELSE ped[y][p]
  <2>1. SetWorld(Forgotten(Restored(t, p, g), z, p)) /\ TypeOK
    BY <1>0, <1>3
  <2>. QED
    BY SMTT(30), <2>1, ActivatePeds
<1>7. ASSUME NEW q \in Players \ {p}
      PROVE Anchored(q)'
  <2>1. \A y \in Zones : call'[y][q] = call[y][q]
    BY <1>4
  <2>2. \A y \in Zones : ghosts'[y][q] = ghosts[y][q]
    BY <1>5
  <2>3. \A y \in Zones : ped'[y][q] = ped[y][q]
    BY <1>6
  <2>4. Anchored(q) /\ UNCHANGED <<phase, homed, release, recovery, pending, inflight>>
    BY <1>0
  <2>. QED
    BY SMTT(30), <2>1, <2>2, <2>3, <2>4 DEF Anchored, KnownToSomeZone
<1>8. Anchored(p)'
  <2>1. phase[p] # "dropped" => g.ped # 0
    BY <1>0, <1>3, <1>9, StoredFields DEF Anchored
  <2>2. phase[p] # "dropped" => KnownToSomeZone(p)'
    <3>1. g.ped # 0 => ped'[t][p] # 0
      BY <1>1, <1>6
    <3>. QED
      BY <1>0, <1>1, <2>1, <3>1 DEF KnownToSomeZone
  <2>. QED
    BY SMTT(30), <1>0, <1>1, <1>4, <1>5, <1>6, <2>1, <2>2, StoredFields DEF Anchored
<1>. QED
  BY <1>7, <1>8

\* An update that is ingested leaves a ped; nothing else changes.
LEMMA IngestCells ==
    ASSUME TypeOK, nextPed > 0, NEW z \in Zones, NEW p \in Players, Ingest(z, p)
    PROVE /\ ped'[z][p] # 0 /\ nextPed' > 0
          /\ ped[z][p] # 0 => ped' = ped
          /\ \A y \in Zones, q \in Players : (y # z \/ q # p) => ped'[y][q] = ped[y][q]
<1>1. ped \in [Zones -> [Players -> PedIds]] /\ nextPed \in Nat
  BY DEF TypeOK
<1>2. CASE ped[z][p] = 0
  BY SMTT(30), <1>1, <1>2 DEF Ingest
<1>3. CASE ped[z][p] # 0
  BY <1>1, <1>3 DEF Ingest
<1>. QED
  BY <1>2, <1>3

\* An update adds a ped or is under way; it takes no ped from anybody.
LEMMA UpdateAnchored ==
    ASSUME \A q \in Players : Anchored(q), NEW z \in Zones, NEW p \in Players,
           \A y \in Zones, q \in Players : ped[y][q] # 0 => ped'[y][q] # 0,
           \A y \in Zones, q \in Players : (y # z \/ q # p) => inflight'[y][q] = inflight[y][q],
           ped'[z][p] # 0 \/ inflight'[z][p] > 0,
           homed' = homed \/ (homed' = homed \cup {p} /\ phase[p] = "online"),
           UNCHANGED <<phase, release, recovery, pending, ghosts, call>>
    PROVE \A q \in Players : Anchored(q)'
<1>. SUFFICES ASSUME NEW q \in Players
              PROVE Anchored(q)'
  OBVIOUS
<1>1. Anchored(q)
  OBVIOUS
<1>2. phase'[q] = "offline" => q \notin homed'
  <2>1. phase[q] = "offline" => q \notin homed
    BY <1>1 DEF Anchored
  <2>2. "offline" # "online"
    OBVIOUS
  <2>3. q \in homed' => q \in homed \/ phase[q] = "online"
    OBVIOUS
  <2>. QED
    BY <2>1, <2>2, <2>3
<1>3. phase'[q] # "dropped" => KnownToSomeZone(q)'
  <2>1. CASE q = p
    BY <2>1 DEF KnownToSomeZone
  <2>2. CASE q # p
    <3>1. \A y \in Zones : inflight'[y][q] = inflight[y][q]
      BY <2>2
    <3>2. q \in homed' <=> q \in homed
      BY <2>2
    <3>. QED
      BY <1>1, <3>1, <3>2 DEF Anchored, KnownToSomeZone
  <2>. QED
    BY <2>1, <2>2
<1>. QED
  BY <1>1, <1>2, <1>3 DEF Anchored

\* The forwarder's and the zone's handling of an update.
LEMMA UpdatesAnchored ==
    ASSUME TypeOK, Calm, \A q \in Players : Anchored(q), NEW p \in Players,
           ForwardUpdate(p) \/ \E z \in Zones : ConsumeUpdate(z, p)
    PROVE nextPed' > 0 /\ \A q \in Players : Anchored(q)'
<1>0. nextPed > 0
  BY DEF Calm
<1>1. ASSUME NEW z \in Zones, ConsumeUpdate(z, p)
      PROVE nextPed' > 0 /\ \A q \in Players : Anchored(q)'
  <2>1. /\ ped'[z][p] # 0 /\ nextPed' > 0
        /\ \A y \in Zones, q \in Players : (y # z \/ q # p) => ped'[y][q] = ped[y][q]
    BY <1>0, <1>1, IngestCells DEF ConsumeUpdate
  <2>2. \A y \in Zones, q \in Players : (y # z \/ q # p) => inflight'[y][q] = inflight[y][q]
    BY <1>1 DEF ConsumeUpdate, TypeOK
  <2>3. UNCHANGED <<homed, phase, release, recovery, pending, ghosts, call>>
    BY <1>1 DEF ConsumeUpdate, gatewayVars
  <2>4. \A y \in Zones, q \in Players : ped[y][q] # 0 => ped'[y][q] # 0
    BY <2>1
  <2>. QED
    BY <2>1, <2>2, <2>3, <2>4, UpdateAnchored
<1>2. CASE ForwardUpdate(p)
  <2>1. /\ phase[p] = "online" /\ homed' = homed \cup {p}
        /\ UNCHANGED <<phase, release, recovery, pending, ghosts, call>>
    BY <1>2 DEF ForwardUpdate
  <2>2. PICK z \in Zones :
           \/ Ingest(z, p) /\ UNCHANGED inflight
           \/ /\ inflight' = [inflight EXCEPT ![z][p] = @ + 1]
              /\ UNCHANGED <<ped, nextPed>>
    BY <1>2 DEF ForwardUpdate, TypeOK, Targets
  <2>3. CASE Ingest(z, p) /\ UNCHANGED inflight
    <3>1. /\ ped'[z][p] # 0 /\ nextPed' > 0
          /\ \A y \in Zones, q \in Players : (y # z \/ q # p) => ped'[y][q] = ped[y][q]
      BY <1>0, <2>3, IngestCells
    <3>2. \A y \in Zones, q \in Players : ped[y][q] # 0 => ped'[y][q] # 0
      BY <3>1
    <3>. QED
      BY <2>1, <2>3, <3>1, <3>2, UpdateAnchored
  <2>4. CASE inflight' = [inflight EXCEPT ![z][p] = @ + 1] /\ UNCHANGED <<ped, nextPed>>
    <3>1. /\ inflight'[z][p] > 0
          /\ \A y \in Zones, q \in Players : (y # z \/ q # p) => inflight'[y][q] = inflight[y][q]
      BY SMTT(30), <2>4 DEF TypeOK
    <3>. QED
      BY <1>0, <2>1, <2>4, <3>1, UpdateAnchored
  <2>. QED
    BY <2>2, <2>3, <2>4
<1>. QED
  BY <1>1, <1>2

\* A scan picks players that have a ped here.
LEMMA ScanAnchored ==
    ASSUME TypeOK, NEW q \in Players, Anchored(q), NEW z \in Zones, ScanDecide(z)
    PROVE Anchored(q)'
<1>1. Anchored(q) /\ UNCHANGED <<phase, homed, release, recovery, ghosts, ped, inflight>>
  BY DEF ScanDecide, gatewayVars
<1>2. /\ \A y \in Zones : pending'[y][q] = pending[y][q] \/ pending'[y][q] = NoHandoff
      /\ \A y \in Zones : \/ call'[y][q] = call[y][q]
                          \/ call'[y][q] = At("toPrepare") /\ ped[y][q] # 0
                          \/ call'[y][q] = At("toComplete")
                          \/ call'[y][q] = Idle
  BY SMTT(30) DEF ScanDecide, TypeOK
<1>3. At("toPrepare").pc = "toPrepare" /\ At("toComplete").pc = "toComplete"
  BY DEF At, CallTo
<1>4. phase[q] # "dropped" => KnownToSomeZone(q)'
  BY <1>1 DEF Anchored, KnownToSomeZone
<1>5. Idle.pc = "idle" /\ NoHandoff.st = "None"
  BY StoredFields
<1>6. ASSUME NEW y \in Zones
      PROVE /\ call'[y][q].pc \notin {"prepareOk", "confirmOk", "activateOk"}
            /\ call'[y][q].pc \in {"confirm", "activate", "rollback"} => call'[y][q].to # y
            /\ pending'[y][q].st = "ReadyToTransfer" => pending'[y][q].to # y
            /\ phase'[q] # "dropped" =>
                  /\ ghosts'[y][q].st = "pending" => ghosts'[y][q].ped # 0
                  /\ call'[y][q].pc \in {"snapshot", "prepare"} => call'[y][q].ped # 0
                  /\ call'[y][q].pc = "toPrepare" => ped'[y][q] # 0
  <2>1. pending'[y][q].st = "ReadyToTransfer" => pending'[y][q].to # y
    BY <1>1, <1>2, <1>5 DEF Anchored
  <2>2. phase'[q] # "dropped" => (ghosts'[y][q].st = "pending" => ghosts'[y][q].ped # 0)
    BY <1>1 DEF Anchored
  <2>3. CASE call'[y][q] = call[y][q]
    BY <1>1, <2>1, <2>2, <2>3 DEF Anchored
  <2>4. CASE call'[y][q] = At("toPrepare") /\ ped[y][q] # 0
    BY <1>1, <1>3, <2>1, <2>2, <2>4
  <2>5. CASE call'[y][q] = At("toComplete") \/ call'[y][q] = Idle
    BY <1>3, <1>5, <2>1, <2>2, <2>5
  <2>. QED
    BY <1>2, <2>3, <2>4, <2>5
<1>. QED
  BY <1>1, <1>4, <1>6 DEF Anchored

\* ZoneService::release_player is called for a player that has gone.
LEMMA ReleaseAnchored ==
    ASSUME TypeOK, \A q \in Players : Anchored(q), NEW p \in Players, ReleasePlayer(p)
    PROVE \A q \in Players : Anchored(q)'
<1>. DEFINE z == release[p].zone
<1>1. /\ z \in Zones /\ release[p].st = "calling"
      /\ UNCHANGED <<phase, homed, recovery, call, inflight>>
      /\ ghosts' = [ghosts EXCEPT ![z][p] = NoGhost] /\ SetPending(z, p, NoHandoff)
      /\ ped' = [ped EXCEPT ![z][p] = 0]
      /\ release' = [release EXCEPT ![p] = [st |-> "called", zone |-> z]]
  BY ReleaseTypes DEF ReleasePlayer, SetWorld, Forgotten, World, TypeOK
<1>2. phase[p] = "dropped"
  BY <1>1 DEF Anchored
<1>. HIDE DEF z
<1>3. ASSUME NEW q \in Players \ {p}
      PROVE Anchored(q)'
  <2>1. Anchored(q) /\ release'[q] = release[q]
    BY <1>1 DEF TypeOK
  <2>2. \A y \in Zones : ghosts'[y][q] = ghosts[y][q] /\ ped'[y][q] = ped[y][q]
    BY <1>1 DEF TypeOK
  <2>3. \A y \in Zones : pending'[y][q] = pending[y][q]
    BY SMTT(30), <1>1, SetPendingCells
  <2>4. phase[q] # "dropped" => KnownToSomeZone(q)'
    BY <1>1, <2>1, <2>2 DEF Anchored, KnownToSomeZone
  <2>. QED
    BY SMTT(30), <1>1, <2>1, <2>2, <2>3, <2>4 DEF Anchored
<1>4. Anchored(p)'
  <2>1. \A y \in Zones : pending'[y][p] = pending[y][p] \/ pending'[y][p] = NoHandoff
    BY SMTT(30), <1>1, SetPendingCells
  <2>. QED
    BY SMTT(30), <1>1, <1>2, <2>1, StoredFields DEF Anchored
<1>. QED
  BY <1>3, <1>4

\* What a step of the gateway does to players, while nothing has failed.
LEMMA GatewayAnchored ==
    ASSUME TypeOK, \A q \in Players : Anchored(q), NEW p \in Players,
           \/ Connect(p) \/ EndHold(p) \/ Disconnect(p) \/ ReleaseInZone(p)
           \/ ReleaseTimeout(p) \/ ForgetRoute(p) \/ SweepRoute(p)
    PROVE /\ UNCHANGED <<registered, failing, nextPed>>
          /\ \A q \in Players : Anchored(q)'
<1>1. UNCHANGED <<registered, failing, nextPed>>
  BY DEF Connect, EndHold, Disconnect, ReleaseInZone, ReleaseTimeout, ForgetRoute, SweepRoute
<1>2. UNCHANGED <<recovery, pending, ghosts, ped, call, inflight>>
  BY DEF Connect, EndHold, Disconnect, ReleaseInZone, ReleaseTimeout, ForgetRoute, SweepRoute, zoneVars
<1>3. ASSUME NEW q \in Players
      PROVE \/ phase'[q] = "dropped"
            \/ /\ phase'[q] = phase[q] \/ (phase[q] = "offline" /\ phase'[q] = "online")
               /\ release'[q] = release[q]
               /\ q \in homed' <=> q \in homed
  <2>1. CASE Connect(p)
    BY <2>1 DEF Connect, TypeOK
  <2>2. CASE EndHold(p) \/ SweepRoute(p)
    BY <2>2 DEF EndHold, SweepRoute
  <2>3. CASE Disconnect(p)
    BY <2>3 DEF Disconnect, Drop, TypeOK
  <2>4. CASE ReleaseInZone(p) \/ ReleaseTimeout(p) \/ ForgetRoute(p)
    <3>1. release[p].st # "none" /\ Anchored(p)
      BY <2>4 DEF ReleaseInZone, ReleaseTimeout, ForgetRoute
    <3>2. phase[p] = "dropped" /\ UNCHANGED phase
      BY <2>4, <3>1 DEF Anchored, ReleaseInZone, ReleaseTimeout, ForgetRoute
    <3>3. q # p => release'[q] = release[q] /\ (q \in homed' <=> q \in homed)
      BY <2>4 DEF ReleaseInZone, ReleaseTimeout, ForgetRoute, TypeOK
    <3>. QED
      BY <3>2, <3>3
  <2>. QED
    BY <2>1, <2>2, <2>3, <2>4
<1>4. ASSUME NEW q \in Players
      PROVE Anchored(q)'
  <2>1. Anchored(q) /\ recovery'[q] = NoRecovery
    BY <1>2 DEF Anchored
  <2>. QED
    BY <1>2, <1>3, <2>1, ZonesUntouched
<1>. QED
  BY <1>1, <1>4

\* Faults are never forgotten.
LEMMA SpentGrows ==
    ASSUME TypeOK, [Next]_vars
    PROVE \A kind \in {"timeouts", "late", "failures"} : spent'[kind] = 0 => spent[kind] = 0
<1>1. spent' = spent \/ Spend("timeouts") \/ Spend("late") \/ Spend("failures")
  <2>1. ASSUME NEW p \in Players, PlayerStep(p)
        PROVE spent' = spent \/ Spend("timeouts") \/ Spend("late")
    BY <2>1 DEF PlayerStep, Connect, ForwardUpdate, EndHold, Disconnect, ReleaseInZone, ReleasePlayer,
       ReleaseTimeout, ForgetRoute, SweepRoute, KickOrphan, RecoverPrepare, RecoverActivate
  <2>2. ASSUME NEW z \in Zones, ZoneStep(z)
        PROVE spent' = spent \/ Spend("failures")
    BY <2>2 DEF ZoneStep, ScanDecide, EvictZone, RegisterZone, RestartZone, HandleZoneFailure
  <2>3. ASSUME NEW z \in Zones, NEW p \in Players, ZonePlayerStep(z, p)
        PROVE spent' = spent \/ Spend("timeouts") \/ Spend("late")
    BY <2>3 DEF ZonePlayerStep, CallStep, CallTimeout, BuildSnapshot, RequestHandoff, PrepareHandoff,
       LatePrepareAnswer, PrepareAnswered, ConfirmCrossing, ConfirmHandoff, LateConfirmAnswer, ActivatePlayer,
       LateActivateAnswer, ActivateRefused, RollbackCrossing, PrepareTimeout, ConfirmTimeout, ActivateTimeout,
       ConsumeUpdate, GainVehicle, CooldownExpires, ExpireGhost
  <2>. QED
    BY <2>1, <2>2, <2>3 DEF Next, vars
<1>2. spent \in [{"timeouts", "late", "failures"} -> Nat]
  BY DEF TypeOK
<1>. QED
  BY SMTT(30), <1>1, <1>2 DEF Spend

\* Every step keeps players anchored while no answer is late and no zone fails.
LEMMA OrphanStep ==
    ASSUME OrphanInv, [Next]_vars
    PROVE OrphanInv'
<1>0. TypeOK /\ TypeOK'
  BY TypeStep DEF OrphanInv
<1>. SUFFICES ASSUME Kind'
              PROVE Calm' /\ \A q \in Players : Anchored(q)'
  BY <1>0 DEF OrphanInv
<1>1. Kind
  BY <1>0, SpentGrows DEF Kind
<1>2. Calm /\ \A q \in Players : Anchored(q)
  BY <1>1 DEF OrphanInv
<1>3. ~Spend("failures")
  BY <1>0, NothingSpent DEF Kind
<1>4. ASSUME NEW p \in Players, PlayerStep(p)
      PROVE Calm' /\ \A q \in Players : Anchored(q)'
  <2>1. ~KickOrphan(p) /\ ~RecoverPrepare(p) /\ ~RecoverActivate(p)
    <3>1. recovery[p].st = "none"
      BY SMTT(30), <1>2 DEF Anchored, NoRecovery
    <3>. QED
      BY <3>1 DEF KickOrphan, RecoverPrepare, RecoverActivate
  <2>2. CASE ForwardUpdate(p)
    <3>1. UNCHANGED <<registered, failing>>
      BY <2>2 DEF ForwardUpdate
    <3>. QED
      BY <1>0, <1>2, <2>2, <3>1, UpdatesAnchored DEF Calm
  <2>3. CASE ReleasePlayer(p)
    <3>1. UNCHANGED <<registered, failing, nextPed>>
      BY <2>3 DEF ReleasePlayer
    <3>. QED
      BY <1>0, <1>2, <2>3, <3>1, ReleaseAnchored DEF Calm
  <2>4. CASE \/ Connect(p) \/ EndHold(p) \/ Disconnect(p) \/ ReleaseInZone(p)
             \/ ReleaseTimeout(p) \/ ForgetRoute(p) \/ SweepRoute(p)
    BY <1>0, <1>2, <2>4, GatewayAnchored DEF Calm
  <2>. QED
    BY <1>4, <2>1, <2>2, <2>3, <2>4 DEF PlayerStep
<1>5. ASSUME NEW z \in Zones, ZoneStep(z)
      PROVE Calm' /\ \A q \in Players : Anchored(q)'
  <2>1. ScanDecide(z)
    BY <1>2, <1>3, <1>5 DEF ZoneStep, EvictZone, RegisterZone, RestartZone, HandleZoneFailure, Calm
  <2>2. UNCHANGED <<registered, failing, nextPed>>
    BY <2>1 DEF ScanDecide, gatewayVars
  <2>. QED
    BY <1>0, <1>2, <2>1, <2>2, ScanAnchored DEF Calm
<1>6. ASSUME NEW z \in Zones, NEW p \in Players, ZonePlayerStep(z, p)
      PROVE Calm' /\ \A q \in Players : Anchored(q)'
  <2>1. CASE CallStep(z, p) \/ CallTimeout(z, p)
    <3>1. UNCHANGED <<registered, failing, nextPed>>
      BY <2>1 DEF CallStep, CallTimeout, BuildSnapshot, RequestHandoff, PrepareHandoff,
         LatePrepareAnswer, ConfirmCrossing, ConfirmHandoff, LateConfirmAnswer, ActivatePlayer,
         LateActivateAnswer, ActivateRefused, RollbackCrossing, PrepareTimeout, ConfirmTimeout, ActivateTimeout,
         gatewayVars
    <3>2. \A q \in Players : Anchored(q)'
      BY <1>2, <2>1, CallAnchored, ActivateAnchored
    <3>. QED
      BY <1>2, <3>1, <3>2 DEF Calm
  <2>2. CASE ConsumeUpdate(z, p)
    <3>1. UNCHANGED <<registered, failing>>
      BY <2>2 DEF ConsumeUpdate, gatewayVars
    <3>. QED
      BY <1>0, <1>2, <2>2, <3>1, UpdatesAnchored DEF Calm
  <2>3. CASE GainVehicle(z, p) \/ CooldownExpires(z, p) \/ ExpireGhost(z, p)
    <3>1. UNCHANGED <<registered, failing, nextPed, phase, homed, release, recovery, pending, ped, call, inflight>>
      BY <2>3 DEF GainVehicle, CooldownExpires, ExpireGhost, gatewayVars
    <3>2. \A y \in Zones, q \in Players : ghosts'[y][q] = ghosts[y][q] \/ ghosts'[y][q] = NoGhost
      <4>1. ghosts' = ghosts \/ ghosts' = [ghosts EXCEPT ![z][p] = NoGhost]
        BY <2>3 DEF GainVehicle, CooldownExpires, ExpireGhost
      <4>2. CASE ghosts' = ghosts
        BY <4>2
      <4>3. CASE ghosts' = [ghosts EXCEPT ![z][p] = NoGhost]
        <5>1. GhostSet(z, p, NoGhost)
          BY <4>3 DEF GhostSet
        <5>9. OnlyGhost(p, NoGhost)
          BY <1>0, <5>1, GhostCells
        <5>. QED
          BY <5>9 DEF OnlyGhost
      <4>. QED
        BY <4>1, <4>2, <4>3
    <3>3. \A q \in Players : Anchored(q)'
      BY SMTT(30), <1>2, <3>1, <3>2, StoredFields DEF Anchored, KnownToSomeZone
    <3>. QED
      BY <1>2, <3>1, <3>3 DEF Calm
  <2>. QED
    BY <1>6, <2>1, <2>2, <2>3 DEF ZonePlayerStep
<1>7. CASE UNCHANGED vars
  BY <1>2, <1>7 DEF vars, gatewayVars, zoneVars, Calm, Anchored, KnownToSomeZone
<1>. QED
  BY <1>4, <1>5, <1>6, <1>7 DEF Next

\* At the start nobody is connected.
LEMMA OrphanInit ==
    ASSUME Init
    PROVE OrphanInv
<1>1. TypeOK
  BY InitInFlight DEF InFlightInv
<1>2. Calm
  BY SMTT(30) DEF Init, Calm
<1>3. ASSUME NEW p \in Players
      PROVE Anchored(p)
  <2>1. /\ recovery[p] = NoRecovery /\ phase[p] = "offline" /\ p \notin homed /\ release[p].st = "none"
        /\ \A z \in Zones : call[z][p] = Idle /\ pending[z][p] = NoHandoff /\ ghosts[z][p] = NoGhost
    BY DEF Init, NoRelease
  <2>. QED
    BY <2>1, StoredFields DEF Anchored, KnownToSomeZone
<1>. QED
  BY <1>1, <1>2, <1>3 DEF OrphanInv

\* complete_handoff orphans nobody, however many calls are lost, as long as no
\* answer is overtaken and no zone fails: a player that joined has a ped in some
\* zone, or the update that creates it is under way.
THEOREM PlayersNeverOrphaned == Spec => []NeverOrphaned
<1>1. Init => OrphanInv
  BY OrphanInit
<1>2. OrphanInv /\ [Next]_vars => OrphanInv'
  BY OrphanStep
<1>3. OrphanInv => NeverOrphaned
  BY DEF OrphanInv, Kind, Anchored, NeverOrphaned, KnownToSomeZone
<1>. QED
  BY <1>1, <1>2, <1>3, PTL DEF Spec

-----------------------------------------------------------------------------
(* A player at rest is in one zone.                                         *)

\* The step leaves the zones' tables about player q alone.
SameAt(q) ==
    \A y \in Zones : /\ ped'[y][q] = ped[y][q] /\ strays'[y][q] = strays[y][q]
                     /\ call'[y][q] = call[y][q] /\ pending'[y][q] = pending[y][q]
                     /\ inflight'[y][q] = inflight[y][q]

\* The step leaves the gateway's tables about player q alone.
SameRoute(q) ==
    /\ phase'[q] = phase[q] /\ route'[q] = route[q]
    /\ q \in held' <=> q \in held
    /\ q \in homed' <=> q \in homed

\* Such a step leaves the player hosted.
LEMMA HostedKept ==
    ASSUME NEW q \in Players, Hosted(q), SameAt(q), SameRoute(q)
    PROVE Hosted(q)'
<1>1. ASSUME NEW h \in Zones, HostedBy(q, h)
      PROVE HostedBy(q, h)'
  BY <1>1 DEF HostedBy, SameAt, SameRoute
<1>2. Unknown(q) => Unknown(q)'
  BY DEF Unknown, SameAt
<1>. QED
  BY <1>1, <1>2 DEF Hosted, SameAt, SameRoute

\* A coroutine works for a player that its zone hosts.
LEMMA CallerHosts ==
    ASSUME NEW z \in Zones, NEW p \in Players, Hosted(p), phase[p] # "dropped", call[z][p].pc # "idle"
    PROVE p \in homed /\ HostedBy(p, z)
<1>1. call[z][p] # Idle
  BY StoredFields
<1>2. p \in homed
  BY <1>1 DEF Hosted, Unknown
<1>3. PICK h \in Zones : HostedBy(p, h)
  BY <1>2 DEF Hosted
<1>4. z = h
  BY <1>1, <1>3 DEF HostedBy
<1>. QED
  BY <1>2, <1>3, <1>4

\* Where the route leads when the coroutine of the host stands at c.
Committed(z, p, c, s) ==
    IF c.pc \in {"activate", "rollback"}
    THEN p \in held' /\ route'[p] = c.to /\ s = NoHandoff
    ELSE route'[p] = z

\* The gateway's tables about the others.
OthersRouted(p) == \A q \in Players \ {p} : route'[q] = route[q] /\ (q \in held' <=> q \in held)

\* The step makes, moves and forgets no entity.
SameEntities == UNCHANGED <<phase, homed, ped, strays, inflight>>

\* The coroutine of the host moves on, and the route with it.
LEMMA CrossingHosted ==
    ASSUME TypeOK, \A q \in Players : Hosted(q), NEW z \in Zones, NEW p \in Players, NEW c, NEW s,
           call[z][p].pc # "idle", SetCall(z, p, c), SetPending(z, p, s),
           phase[p] # "dropped" => Committed(z, p, c, s), OthersRouted(p), SameEntities
    PROVE \A q \in Players : Hosted(q)'
<1>1. \A y \in Zones, q \in Players : call'[y][q] = IF y = z /\ q = p THEN c ELSE call[y][q]
  BY SMTT(30), SetCallCells
<1>2. \A y \in Zones, q \in Players : pending'[y][q] = IF y = z /\ q = p THEN s ELSE pending[y][q]
  BY SMTT(30), SetPendingCells
<1>3. ASSUME NEW q \in Players \ {p}
      PROVE Hosted(q)'
  <2>1. SameAt(q)
    BY <1>1, <1>2 DEF SameAt, SameEntities
  <2>2. SameRoute(q)
    BY DEF SameRoute, SameEntities, OthersRouted
  <2>. QED
    BY <2>1, <2>2, HostedKept
<1>4. Hosted(p)'
  <2>1. CASE phase[p] = "dropped"
    BY <2>1 DEF Hosted, SameEntities
  <2>2. CASE phase[p] # "dropped"
    <3>1. p \in homed /\ HostedBy(p, z) /\ Committed(z, p, c, s)
      BY <2>2, CallerHosts
    <3>2. HostedBy(p, z)'
      <4>1. call'[z][p] = c /\ pending'[z][p] = s
        BY <1>1, <1>2
      <4>2. \A y \in Zones \ {z} : call'[y][p] = call[y][p] /\ pending'[y][p] = pending[y][p]
        BY <1>1, <1>2
      <4>. QED
        BY <3>1, <4>1, <4>2 DEF HostedBy, Committed, SameEntities
    <3>. QED
      BY <3>1, <3>2 DEF Hosted, SameEntities
  <2>. QED
    BY <2>1, <2>2
<1>. QED
  BY <1>3, <1>4

\* A step of the coroutine before the crossing is committed leaves the route alone.
LEMMA QuietHosted ==
    ASSUME TypeOK, \A q \in Players : Hosted(q), NEW z \in Zones, NEW p \in Players, NEW c, NEW s,
           call[z][p].pc \notin {"idle", "activate", "rollback"}, c.pc \notin {"activate", "rollback"},
           SetCall(z, p, c), SetPending(z, p, s), UNCHANGED <<route, held>>, SameEntities
    PROVE \A q \in Players : Hosted(q)'
<1>1. phase[p] # "dropped" => HostedBy(p, z)
  BY CallerHosts
<1>2. phase[p] # "dropped" => route[p] = z
  BY <1>1 DEF HostedBy
<1>3. phase[p] # "dropped" => Committed(z, p, c, s)
  BY <1>2 DEF Committed
<1>4. OthersRouted(p)
  BY DEF OthersRouted
<1>5. call[z][p].pc # "idle"
  OBVIOUS
<1>. QED
  BY <1>3, <1>4, <1>5, CrossingHosted

\* A call that fails is cancelled; the route is not touched.
LEMMA FailedHosted ==
    ASSUME TypeOK, \A q \in Players : Hosted(q), NEW z \in Zones, NEW p \in Players,
           call[z][p].pc \notin {"idle", "activate", "rollback"},
           PrepareFailed(z, p), UNCHANGED <<route, held>>, SameEntities
    PROVE \A q \in Players : Hosted(q)'
<1>1. SetCall(z, p, Idle) /\ (SetPending(z, p, NoHandoff) \/ UNCHANGED pending)
  BY DEF PrepareFailed, Cancel
<1>2. PICK s : SetPending(z, p, s)
  BY <1>1, SamePending
<1>3. Idle.pc \notin {"activate", "rollback"}
  BY StoredFields
<1>. QED
  BY <1>1, <1>2, <1>3, QuietHosted

\* What committing a handoff does to the routes.
LEMMA CommitRoutes ==
    ASSUME TypeOK, NEW p \in Players, NEW t, CommitHandoff(p, t)
    PROVE route'[p] = t /\ p \in held' /\ OthersRouted(p)
<1>1. route \in [Players -> Targets]
  BY DEF TypeOK
<1>. QED
  BY <1>1 DEF CommitHandoff, OthersRouted

\* The gateway prepares a zone and answers, or the preparation fails.
LEMMA PrepareHosted ==
    ASSUME TypeOK, \A q \in Players : Hosted(q), NEW z \in Zones, NEW p \in Players,
           ~Spend("late"), PrepareHandoff(z, p)
    PROVE \A q \in Players : Hosted(q)'
<1>1. call[z][p].pc \notin {"idle", "activate", "rollback"}
  BY DEF PrepareHandoff
<1>2. UNCHANGED <<route, held>> /\ SameEntities
  BY DEF PrepareHandoff, gatewayVars, SameEntities
<1>3. ASSUME NEW t, PrepareAnswered(z, p, t)
      PROVE \A q \in Players : Hosted(q)'
  <2>1. SetPending(z, p, ReadyToTransfer(t)) /\ SetCall(z, p, Idle)
    BY <1>3 DEF PrepareAnswered
  <2>2. Idle.pc \notin {"activate", "rollback"}
    BY StoredFields
  <2>. QED
    BY <1>1, <1>2, <2>1, <2>2, QuietHosted
<1>4. ASSUME PrepareFailed(z, p)
      PROVE \A q \in Players : Hosted(q)'
  BY <1>1, <1>2, <1>4, FailedHosted
<1>. QED
  BY <1>3, <1>4 DEF PrepareHandoff

\* The gateway commits the crossing: the route leads to the target, updates wait.
LEMMA ConfirmHosted ==
    ASSUME TypeOK, Calm, \A q \in Players : Hosted(q), NEW z \in Zones, NEW p \in Players,
           ~Spend("late"), ConfirmHandoff(z, p)
    PROVE \A q \in Players : Hosted(q)'
<1>1. call[z][p].pc = "confirm" /\ SameEntities
  BY DEF ConfirmHandoff, SameEntities
<1>2. PICK t \in Zones : t = call[z][p].to
  BY <1>1, TargetPhaseNames, TargetInZones
<1>3. CommitHandoff(p, t) /\ ConfirmAnswered(z, p)
  BY <1>2 DEF ConfirmHandoff, Calm
<1>4. SetPending(z, p, NoHandoff) /\ SetCall(z, p, CallTo("activate", t))
  BY <1>2, <1>3 DEF ConfirmAnswered
<1>5. route'[p] = t /\ p \in held' /\ OthersRouted(p)
  BY <1>3, CommitRoutes
<1>6. CallTo("activate", t).to = t
  BY SMTT(30), StoredFields
<1>7. Committed(z, p, CallTo("activate", t), NoHandoff)
  BY SMTT(30), <1>5, <1>6, StoredFields DEF Committed
<1>8. call[z][p].pc # "idle"
  BY <1>1
<1>. QED
  BY <1>1, <1>4, <1>5, <1>7, <1>8, CrossingHosted

\* A refused activation is rolled back: the route stays until then ...
LEMMA RefusedHosted ==
    ASSUME TypeOK, \A q \in Players : Hosted(q), NEW z \in Zones, NEW p \in Players, ActivateRefused(z, p)
    PROVE \A q \in Players : Hosted(q)'
<1>1. call[z][p].pc = "activate" /\ UNCHANGED <<route, held, pending>> /\ SameEntities
  BY DEF ActivateRefused, gatewayVars, SameEntities
<1>2. SetCall(z, p, CallTo("rollback", call[z][p].to)) /\ SetPending(z, p, pending[z][p])
  BY <1>1, SamePending DEF ActivateRefused
<1>3. call[z][p].pc # "idle"
  BY <1>1
<1>4. phase[p] # "dropped" => HostedBy(p, z)
  BY <1>3, CallerHosts
<1>5. phase[p] # "dropped" => p \in held /\ route[p] = call[z][p].to /\ pending[z][p] = NoHandoff
  BY <1>1, <1>4 DEF HostedBy
<1>6. CallTo("rollback", call[z][p].to).pc = "rollback" /\ CallTo("rollback", call[z][p].to).to = call[z][p].to
  BY DEF CallTo
<1>7. phase[p] # "dropped" => Committed(z, p, CallTo("rollback", call[z][p].to), pending[z][p])
  BY <1>1, <1>5, <1>6 DEF Committed
<1>8. OthersRouted(p)
  BY <1>1 DEF OthersRouted
<1>. QED
  BY <1>1, <1>2, <1>3, <1>7, <1>8, CrossingHosted

\* ... and leads back to the host after it.
LEMMA RollbackHosted ==
    ASSUME TypeOK, Calm, \A q \in Players : Hosted(q), NEW z \in Zones, NEW p \in Players,
           ~Spend("timeouts"), RollbackCrossing(z, p)
    PROVE \A q \in Players : Hosted(q)'
<1>1. call[z][p].pc # "idle" /\ SetCall(z, p, Idle) /\ UNCHANGED pending /\ SameEntities
  BY DEF RollbackCrossing, SameEntities
<1>2. CommitHandoff(p, z)
  BY DEF RollbackCrossing, Calm
<1>3. route'[p] = z /\ OthersRouted(p)
  BY <1>2, CommitRoutes
<1>4. SetPending(z, p, pending[z][p])
  BY <1>1, SamePending
<1>5. Idle.pc = "idle"
  BY StoredFields
<1>6. Committed(z, p, Idle, pending[z][p])
  BY <1>3, <1>5 DEF Committed
<1>. QED
  BY <1>1, <1>3, <1>4, <1>6, CrossingHosted

\* The steps of a coroutine, when none of its calls is lost or late.
LEMMA CallHosted ==
    ASSUME TypeOK, Calm, \A q \in Players : Anchored(q) /\ Hosted(q), Kindest',
           NEW z \in Zones, NEW p \in Players, CallStep(z, p), ~ActivatePlayer(z, p)
    PROVE \A q \in Players : Hosted(q)'
<1>1. ~Spend("late") /\ ~Spend("timeouts")
  BY NothingSpent DEF Kindest
<1>2. \A q \in Players : Hosted(q)
  OBVIOUS
<1>3. CASE BuildSnapshot(z, p)
  <2>. DEFINE c == SnapshotCall("snapshot", ped[z][p], p \in vehicle[z])
  <2>1. /\ call[z][p].pc \notin {"idle", "activate", "rollback"} /\ UNCHANGED <<route, held, pending>>
        /\ SetCall(z, p, c) /\ SameEntities
    BY <1>3 DEF BuildSnapshot, gatewayVars, SameEntities
  <2>2. c.pc \notin {"activate", "rollback"} /\ SetPending(z, p, pending[z][p])
    BY SMTT(30), <2>1, StoredFields, SamePending
  <2>. HIDE DEF c
  <2>. QED
    BY <1>2, <2>1, <2>2, QuietHosted
<1>4. CASE RequestHandoff(z, p) \/ ConfirmCrossing(z, p)
  <2>1. /\ call[z][p].pc \notin {"idle", "activate", "rollback"} /\ UNCHANGED <<route, held>> /\ SameEntities
    BY <1>4 DEF RequestHandoff, ConfirmCrossing, gatewayVars, SameEntities
  <2>2. PICK c : /\ SetCall(z, p, c)
                 /\ \/ c = Idle
                    \/ c = SnapshotCall("prepare", call[z][p].ped, call[z][p].veh)
                    \/ c = CallTo("confirm", pending[z][p].to)
    BY <1>4 DEF RequestHandoff, ConfirmCrossing
  <2>3. c.pc \notin {"activate", "rollback"}
    BY SMTT(30), <2>2, StoredFields
  <2>4. PICK s : SetPending(z, p, s)
    BY <1>4, SamePending DEF RequestHandoff, ConfirmCrossing
  <2>. QED
    BY <1>2, <2>1, <2>2, <2>3, <2>4, QuietHosted
<1>5. ~LatePrepareAnswer(z, p) /\ ~LateConfirmAnswer(z, p) /\ ~LateActivateAnswer(z, p)
  BY DEF Anchored, LatePrepareAnswer, LateConfirmAnswer, LateActivateAnswer
<1>. QED
  BY <1>1, <1>2, <1>3, <1>4, <1>5, PrepareHosted, ConfirmHosted, RefusedHosted, RollbackHosted DEF CallStep

\* complete_handoff: the zone it went to hosts the player from now on.
LEMMA ActivateHosted ==
    ASSUME TypeOK, \A q \in Players : Anchored(q) /\ Hosted(q), Kindest',
           NEW z \in Zones, NEW p \in Players, ActivatePlayer(z, p)
    PROVE \A q \in Players : Hosted(q)'
<1>0. /\ Anchored(p) /\ Hosted(p) /\ call[z][p].pc = "activate"
      /\ UNCHANGED <<phase, homed, held, route, pending, inflight>>
  BY DEF ActivatePlayer, gatewayVars
<1>1. PICK t \in Zones : t = call[z][p].to /\ t # z
  BY <1>0, TargetPhaseNames, TargetInZones DEF Anchored
<1>2. PICK g \in GhostStates : g = ghosts[t][p]
  BY GhostTyped
<1>3. ~Spend("late")
  BY NothingSpent DEF Kindest
<1>4. SetWorld(Forgotten(Restored(t, p, g), z, p)) /\ SetCall(z, p, Idle) /\ g.st = "pending"
  BY <1>1, <1>2, <1>3 DEF ActivatePlayer
<1>5. \A y \in Zones, q \in Players : call'[y][q] = IF y = z /\ q = p THEN Idle ELSE call[y][q]
  <2>1. SetCall(z, p, Idle)
    BY <1>4
  <2>. QED
    BY SMTT(30), <2>1, SetCallCells
<1>6. /\ \A y \in Zones, q \in Players : q # p => ped'[y][q] = ped[y][q]
      /\ \A y \in Zones, q \in Players : q # p => strays'[y][q] = strays[y][q]
      /\ g.ped # 0 => \A y \in Zones :
            ped'[y][p] = IF y = z THEN 0 ELSE IF y = t THEN g.ped ELSE ped[y][p]
      /\ ped[t][p] = 0 /\ (\A y \in Zones : strays[y][p] = {}) => \A y \in Zones : strays'[y][p] = {}
  <2>1. SetWorld(Forgotten(Restored(t, p, g), z, p))
    BY <1>4
  <2>2. /\ \A y \in Zones, q \in Players : q # p => ped'[y][q] = ped[y][q]
        /\ g.ped # 0 => \A y \in Zones :
              ped'[y][p] = IF y = z THEN 0 ELSE IF y = t THEN g.ped ELSE ped[y][p]
    BY SMTT(30), <2>1, ActivatePeds
  <2>3. /\ \A y \in Zones, q \in Players : q # p => strays'[y][q] = strays[y][q]
        /\ ped[t][p] = 0 /\ (\A y \in Zones : strays[y][p] = {}) => \A y \in Zones : strays'[y][p] = {}
    BY <2>1, ActivateStrays
  <2>. QED
    BY <2>2, <2>3
<1>7. ASSUME NEW q \in Players \ {p}
      PROVE Hosted(q)'
  <2>1. SameAt(q) /\ SameRoute(q)
    BY <1>0, <1>5, <1>6 DEF SameAt, SameRoute
  <2>. QED
    BY <2>1, HostedKept
<1>8. Hosted(p)'
  <2>1. CASE phase[p] = "dropped"
    BY <1>0, <2>1 DEF Hosted
  <2>2. CASE phase[p] # "dropped"
    <3>1. p \in homed /\ HostedBy(p, z) /\ g.ped # 0
      BY <1>0, <1>2, <1>4, <2>2, CallerHosts DEF Anchored
    <3>2. /\ \A y \in Zones \ {z} : ped[y][p] = 0 /\ call[y][p] = Idle /\ pending[y][p] = NoHandoff
          /\ \A y \in Zones : strays[y][p] = {}
          /\ route[p] = t /\ pending[z][p] = NoHandoff
      BY <1>0, <1>1, <3>1 DEF HostedBy
    <3>3. \A y \in Zones : strays'[y][p] = {}
      BY <1>1, <1>6, <3>2
    <3>4. \A y \in Zones : ped'[y][p] = IF y = t THEN g.ped ELSE 0
      BY <1>1, <1>6, <3>1, <3>2
    <3>5. \A y \in Zones : call'[y][p] = Idle /\ pending'[y][p] = NoHandoff
      BY <1>0, <1>5, <3>2
    <3>6. HostedBy(p, t)'
      <4>1. Idle.pc = "idle"
        BY StoredFields
      <4>. QED
        BY <1>0, <3>1, <3>2, <3>3, <3>4, <3>5, <4>1 DEF HostedBy
    <3>. QED
      BY <1>0, <3>1, <3>6 DEF Hosted
  <2>. QED
    BY <2>1, <2>2
<1>. QED
  BY <1>7, <1>8

\* The first update makes its zone the host; a later one finds the host there.
LEMMA UpdateHosted ==
    ASSUME TypeOK, Calm, MaxInflight = 0, \A q \in Players : Hosted(q), NEW p \in Players, ForwardUpdate(p)
    PROVE \A q \in Players : Hosted(q)'
<1>1. /\ phase[p] = "online" /\ p \notin held /\ homed' = homed \cup {p} /\ Hosted(p)
      /\ UNCHANGED <<phase, held, pending, strays, call>>
  BY DEF ForwardUpdate
<1>2. PICK z \in Zones : /\ z \in (IF p \in homed THEN {route[p]} ELSE registered \cup {route[p]})
                         /\ route' = [route EXCEPT ![p] = z]
                         /\ Ingest(z, p) /\ UNCHANGED inflight
  <2>1. \A y \in Zones : inflight[y][p] = 0
    BY <1>1 DEF Hosted
  <2>2. \A y \in Zones : ~(inflight[y][p] < MaxInflight)
    BY SMTT(30), <2>1
  <2>. QED
    BY <2>2 DEF ForwardUpdate, TypeOK, Targets
<1>3. /\ ped'[z][p] # 0
      /\ ped[z][p] # 0 => ped' = ped
      /\ \A y \in Zones, q \in Players : (y # z \/ q # p) => ped'[y][q] = ped[y][q]
  BY <1>2, IngestCells DEF Calm
<1>4. ASSUME NEW q \in Players \ {p}
      PROVE Hosted(q)'
  <2>1. SameAt(q) /\ SameRoute(q)
    BY <1>1, <1>2, <1>3 DEF SameAt, SameRoute, TypeOK
  <2>. QED
    BY <2>1, HostedKept
<1>5. Hosted(p)'
  <2>1. CASE p \in homed
    <3>1. PICK h \in Zones : HostedBy(p, h)
      BY <1>1, <2>1 DEF Hosted
    <3>2. z = h
      BY <1>1, <1>2, <2>1, <3>1 DEF HostedBy
    <3>3. ped' = ped
      BY <1>3, <3>1, <3>2 DEF HostedBy
    <3>4. SameAt(p) /\ SameRoute(p)
      BY <1>1, <1>2, <2>1, <3>3 DEF SameAt, SameRoute, TypeOK
    <3>. QED
      BY <1>1, <3>4, HostedKept
  <2>2. CASE p \notin homed
    <3>1. Unknown(p)
      BY <1>1, <2>2 DEF Hosted
    <3>2. route'[p] = z
      BY <1>2 DEF TypeOK
    <3>3. HostedBy(p, z)'
      BY <1>1, <1>3, <3>1, <3>2, StoredFields DEF HostedBy, Unknown
    <3>. QED
      BY <1>1, <1>2, <3>3 DEF Hosted
  <2>. QED
    BY <2>1, <2>2
<1>. QED
  BY <1>4, <1>5

\* A scan concerns the players that the zone hosts.
LEMMA ScanHosted ==
    ASSUME TypeOK, \A q \in Players : Hosted(q), NEW z \in Zones, ScanDecide(z)
    PROVE \A q \in Players : Hosted(q)'
<1>. SUFFICES ASSUME NEW q \in Players
              PROVE Hosted(q)'
  OBVIOUS
<1>1. Hosted(q) /\ call[z][q] = Idle /\ UNCHANGED <<phase, homed, held, route, ped, strays, inflight>>
  BY DEF ScanDecide, gatewayVars
<1>2. /\ \A y \in Zones \ {z} : pending'[y][q] = pending[y][q] /\ call'[y][q] = call[y][q]
      /\ call'[z][q] \in {Idle, At("toPrepare"), At("toComplete")}
      /\ ped[z][q] = 0 => call'[z][q] = Idle /\ pending'[z][q] = pending[z][q]
  BY SMTT(30) DEF ScanDecide, TypeOK
<1>3. call'[z][q].pc \notin {"activate", "rollback"}
  BY SMTT(30), <1>2, StoredFields DEF At
<1>4. ASSUME NEW h \in Zones, HostedBy(q, h)
      PROVE HostedBy(q, h)'
  <2>1. CASE z = h
    BY <1>1, <1>2, <1>3, <1>4, <2>1, StoredFields DEF HostedBy
  <2>2. CASE z # h
    BY <1>1, <1>2, <1>4, <2>2 DEF HostedBy
  <2>. QED
    BY <2>1, <2>2
<1>5. Unknown(q) => Unknown(q)'
  BY <1>1, <1>2 DEF Unknown
<1>. QED
  BY <1>1, <1>4, <1>5 DEF Hosted

\* The gateway's steps: a route is moved by a crossing or when the player is gone.
LEMMA GatewayHosted ==
    ASSUME TypeOK, \A q \in Players : Anchored(q) /\ Hosted(q), Kindest', NEW p \in Players,
           \/ Connect(p) \/ EndHold(p) \/ Disconnect(p) \/ ReleaseInZone(p)
           \/ ReleaseTimeout(p) \/ ForgetRoute(p) \/ SweepRoute(p)
    PROVE \A q \in Players : Hosted(q)'
<1>1. UNCHANGED <<pending, ped, strays, call, inflight>>
  BY DEF Connect, EndHold, Disconnect, ReleaseInZone, ReleaseTimeout, ForgetRoute, SweepRoute, zoneVars
<1>2. \A q \in Players : SameAt(q)
  BY <1>1 DEF SameAt
<1>3. ASSUME NEW q \in Players \ {p}
      PROVE Hosted(q)'
  <2>1. SameRoute(q)
    BY DEF SameRoute, TypeOK, Drop,
       Connect, EndHold, Disconnect, ReleaseInZone, ReleaseTimeout, ForgetRoute, SweepRoute
  <2>. QED
    BY <1>2, <2>1, HostedKept
<1>4. ASSUME phase'[p] = "dropped"
      PROVE Hosted(p)'
  BY <1>1, <1>4 DEF Hosted
<1>5. Anchored(p) /\ Hosted(p)
  OBVIOUS
<1>6. CASE Connect(p)
  <2>1. p \notin homed /\ homed' = homed /\ phase[p] # "dropped"
    BY <1>5, <1>6 DEF Connect, Anchored
  <2>. QED
    BY <1>1, <1>3, <1>5, <2>1 DEF Hosted, Unknown
<1>7. CASE EndHold(p)
  <2>1. ~Spend("late")
    BY NothingSpent DEF Kindest
  <2>2. \A z \in Zones : call[z][p].pc \notin {"activate", "rollback"}
    BY <1>7, <2>1 DEF EndHold
  <2>3. UNCHANGED <<phase, homed, route>>
    BY <1>7 DEF EndHold
  <2>4. ASSUME NEW h \in Zones, HostedBy(p, h)
        PROVE HostedBy(p, h)'
    BY <1>1, <2>2, <2>3, <2>4 DEF HostedBy
  <2>5. Unknown(p) => Unknown(p)'
    BY <1>1 DEF Unknown
  <2>6. Hosted(p)'
    BY <1>1, <1>5, <2>3, <2>4, <2>5 DEF Hosted
  <2>. QED
    BY <1>3, <2>6
<1>8. CASE Disconnect(p)
  BY <1>3, <1>4, <1>8 DEF Disconnect, Drop, TypeOK
<1>9. CASE ReleaseInZone(p) \/ ReleaseTimeout(p) \/ ForgetRoute(p) \/ SweepRoute(p)
  <2>1. release[p].st # "none" \/ phase[p] = "dropped"
    BY <1>9 DEF ReleaseInZone, ReleaseTimeout, ForgetRoute, SweepRoute
  <2>2. phase[p] = "dropped" /\ UNCHANGED phase
    BY <1>5, <1>9, <2>1 DEF Anchored, ReleaseInZone, ReleaseTimeout, ForgetRoute, SweepRoute
  <2>. QED
    BY <1>3, <1>4, <2>2
<1>. QED
  BY <1>6, <1>7, <1>8, <1>9

\* ZoneService::release_player is called for a player that has gone.
LEMMA ReleaseHosted ==
    ASSUME TypeOK, \A q \in Players : Anchored(q) /\ Hosted(q), NEW p \in Players, ReleasePlayer(p)
    PROVE \A q \in Players : Hosted(q)'
<1>1. PICK z \in Zones : z = release[p].zone /\ release[p].st = "calling"
  BY ReleaseTypes DEF ReleasePlayer, TypeOK
<1>2. /\ UNCHANGED <<phase, homed, held, route, call, inflight>> /\ SetPending(z, p, NoHandoff)
      /\ ped' = [ped EXCEPT ![z][p] = 0] /\ strays' = [strays EXCEPT ![z][p] = {}]
  BY <1>1 DEF ReleasePlayer, SetWorld, Forgotten, World
<1>3. phase[p] = "dropped"
  BY <1>1 DEF Anchored
<1>4. ASSUME NEW q \in Players \ {p}
      PROVE Hosted(q)'
  <2>1. \A y \in Zones : ped'[y][q] = ped[y][q] /\ strays'[y][q] = strays[y][q]
    BY <1>2 DEF TypeOK
  <2>2. \A y \in Zones : pending'[y][q] = pending[y][q]
    BY SMTT(30), <1>2, SetPendingCells
  <2>3. SameAt(q) /\ SameRoute(q)
    BY <1>2, <2>1, <2>2 DEF SameAt, SameRoute
  <2>. QED
    BY <2>3, HostedKept
<1>5. Hosted(p)'
  BY <1>2, <1>3 DEF Hosted
<1>. QED
  BY <1>4, <1>5

\* Every step keeps players hosted by one zone while the network is kind.
LEMMA HostedStep ==
    ASSUME HostedInv, [Next]_vars
    PROVE HostedInv'
<1>0. TypeOK /\ OrphanInv'
  BY OrphanStep DEF HostedInv, OrphanInv
<1>. SUFFICES ASSUME Kindest'
              PROVE \A q \in Players : Hosted(q)'
  BY <1>0 DEF HostedInv
<1>1. Kindest
  <2>1. \A kind \in {"timeouts", "late", "failures"} : spent'[kind] = 0
    BY SMTT(30) DEF Kindest
  <2>2. \A kind \in {"timeouts", "late", "failures"} : spent[kind] = 0
    BY <1>0, <2>1, SpentGrows
  <2>. QED
    BY <1>0, <2>2 DEF Kindest, TypeOK
<1>2. MaxInflight = 0 /\ Kind
  BY <1>1 DEF Kindest, Kind
<1>3. Calm /\ \A q \in Players : Anchored(q) /\ Hosted(q)
  BY <1>1, <1>2 DEF HostedInv, OrphanInv
<1>4. ~Spend("late") /\ ~Spend("timeouts") /\ ~Spend("failures")
  BY <1>0, NothingSpent DEF Kindest
<1>5. ASSUME NEW p \in Players, PlayerStep(p)
      PROVE \A q \in Players : Hosted(q)'
  <2>1. ~KickOrphan(p) /\ ~RecoverPrepare(p) /\ ~RecoverActivate(p)
    <3>1. Anchored(p)
      BY <1>3
    <3>2. recovery[p].st = "none"
      BY SMTT(30), <3>1 DEF Anchored, NoRecovery
    <3>. QED
      BY <3>2 DEF KickOrphan, RecoverPrepare, RecoverActivate
  <2>. QED
    BY <1>0, <1>2, <1>3, <1>5, <2>1, UpdateHosted, ReleaseHosted, GatewayHosted DEF PlayerStep
<1>6. ASSUME NEW z \in Zones, ZoneStep(z)
      PROVE \A q \in Players : Hosted(q)'
  <2>1. ScanDecide(z)
    BY <1>3, <1>4, <1>6 DEF ZoneStep, EvictZone, RegisterZone, RestartZone, HandleZoneFailure, Calm
  <2>. QED
    BY <1>0, <1>3, <2>1, ScanHosted
<1>7. ASSUME NEW z \in Zones, NEW p \in Players, ZonePlayerStep(z, p)
      PROVE \A q \in Players : Hosted(q)'
  <2>1. ~CallTimeout(z, p)
    BY <1>4 DEF CallTimeout, PrepareTimeout, ConfirmTimeout, ActivateTimeout
  <2>2. ~ConsumeUpdate(z, p)
    BY SMTT(30), <1>3 DEF ConsumeUpdate, Hosted
  <2>3. CASE CallStep(z, p)
    BY <1>0, <1>2, <1>3, <2>3, CallHosted, ActivateHosted
  <2>4. CASE GainVehicle(z, p) \/ CooldownExpires(z, p) \/ ExpireGhost(z, p)
    <3>1. UNCHANGED <<phase, homed, held, route, pending, ped, strays, call, inflight>>
      BY <2>4 DEF GainVehicle, CooldownExpires, ExpireGhost, gatewayVars
    <3>2. \A q \in Players : SameAt(q) /\ SameRoute(q)
      BY <3>1 DEF SameAt, SameRoute
    <3>. QED
      BY <1>3, <3>2, HostedKept
  <2>. QED
    BY <1>7, <2>1, <2>2, <2>3, <2>4 DEF ZonePlayerStep
<1>8. CASE UNCHANGED vars
  <2>1. \A q \in Players : SameAt(q) /\ SameRoute(q)
    BY <1>8 DEF SameAt, SameRoute, vars, gatewayVars, zoneVars
  <2>. QED
    BY <1>3, <2>1, HostedKept
<1>. QED
  BY <1>5, <1>6, <1>7, <1>8 DEF Next

\* At the start no zone knows anybody.
LEMMA HostedInit ==
    ASSUME Init
    PROVE HostedInv
<1>1. \A p \in Players : Hosted(p)
  BY DEF Init, Hosted, Unknown
<1>. QED
  BY <1>1, OrphanInit DEF HostedInv

\* A player that is hosted and at rest lives in the zone of its route only.
LEMMA HostedSettled ==
    ASSUME HostedInv
    PROVE SettledInOneZone
<1>. SUFFICES ASSUME NEW p \in Players, spent = [timeouts |-> 0, late |-> 0, failures |-> 0],
                     MaxInflight = 0, phase[p] = "online", p \in homed, Settled(p)
              PROVE /\ {z \in Zones : ped[z][p] # 0} = {route[p]}
                    /\ strays[route[p]][p] = {}
  BY DEF SettledInOneZone
<1>1. PICK h \in Zones : HostedBy(p, h)
  BY DEF HostedInv, Kindest, Hosted
<1>2. route[p] = h
  BY <1>1 DEF HostedBy, Settled
<1>. QED
  BY <1>1, <1>2 DEF HostedBy

\* As long as no message is lost, late or overtaken and no zone fails, a connected
\* player that is not crossing lives in the zone of its route and in no other,
\* whatever ghosts expire, whoever turns round and whatever activation is refused.
THEOREM PlayersSettled == Spec => []SettledInOneZone
<1>1. HostedInv /\ [Next]_vars => HostedInv'
  BY HostedStep
<1>. QED
  BY <1>1, HostedInit, HostedSettled, PTL DEF Spec

\* A handoff is safe for any number of players and zones.
THEOREM HandoffAlwaysSafe == Spec => []HandoffSafe
<1>1. TypeOK /\ InFlightHasCoroutine /\ SettledInOneZone => HandoffSafe
  BY DEF HandoffSafe
<1>. QED
  BY <1>1, TypeCorrect, InFlightSafe, PlayersSettled, PTL

=============================================================================
