----------------------------- MODULE MCOneSync ------------------------------
(***************************************************************************)
(* One instance for the OneSync side of a zone: the registry under routing *)
(* buckets, the view of a client, the sync trees it is sent, the session's *)
(* slots and world grid, and the rate of the tick.  The modules share no   *)
(* state, so a behaviour exercises one of them (focus) while the others    *)
(* rest in an initial state.                                               *)
(***************************************************************************)
EXTENDS ServerGameState, ClientView, SyncTree, SessionGrid, AdaptiveTick

\* Two entities: a near, small one and a far one whose record alone exceeds the
\* budget.
MCWeight == [i \in Ids |-> IF i = 1 THEN 2 ELSE 1]
MCCost == [i \in Ids |-> IF i = 1 THEN 1 ELSE 3]

\* Bits of the nodes; the long one mounts a ped on a vehicle.
MCPatterns == {<<0>>, <<0, 1, 1>>, [i \in 1..60 |-> IF i \in {23, 35, 37, 49} THEN 1 ELSE 0]}
\* The world's centre, both sides of a sector's edge, the highest sector.
MCPositions == {<<0, 0, 0>>, <<-1, 53, 70>>, <<54, -3000, 2715>>, <<0, 0, 3000>>}
MCModes == {<<1604, FALSE>>, <<3717, TRUE>>}

\* Two windows of two by two cells that meet in the middle of a grid of three by
\* three; a slice has room for three cells.
MCCoords == {-2, 1}

\* The defaults, a floor and a ceiling that are no safe rates, a range without a
\* safe rate, a controller that is switched off, and a section that is refused.
TickSection(on, min, initial, max, window) ==
    [enabled |-> on, min_hz |-> min, initial_hz |-> initial, max_hz |-> max,
     low |-> 10, high |-> 17, backoff |-> 10, recovery_window |-> window]
MCTickConfigs ==
    {TickSection(TRUE, 20, 60, 120, 2), TickSection(TRUE, 25, 50, 100, 3), TickSection(TRUE, 41, 50, 59, 1),
     TickSection(FALSE, 20, 60, 120, 2), TickSection(TRUE, 60, 30, 120, 2)}

\* With one packet under way at most, every tick finds the channel empty.  The table
\* and the channel's steps do not touch each other, so that the table changes while
\* the channel is empty loses no state a tick can be taken in.
QuietTable == entity' # entity => transit = <<>>

\* Lockdown refuses creates and syncs, and a despawn is neither: scripts despawn
\* while they have no bucket under lockdown.
OpenDespawn == queue' # <<>> \/ draining' # <<>> => strict' \cup script'.strict = {}

VARIABLE focus

oneSyncVars == <<regVars, viewVars, treeVars, slotVars, gridVars, tickVars, focus>>

OneSyncInit ==
    /\ RegInit /\ ViewInit /\ TreeInit /\ GridInit /\ TickInit
    /\ focus \in {"registry", "view", "tree", "grid", "tick"}
    /\ focus # "tree" => config = [type |-> "Ped", build |-> 1604, hack |-> FALSE]
    /\ focus # "tick" => cfg = TickSection(TRUE, 20, 60, 120, 2)

\* A view and a tree may come to rest; the registry, the grid and the tick may not
\* (deadlock is checked).
OneSyncNext ==
    \/ focus = "registry" /\ RegNext /\ OpenDespawn /\ UNCHANGED <<viewVars, treeVars, slotVars, gridVars, tickVars, focus>>
    \/ focus = "view" /\ ViewNext /\ QuietTable /\ UNCHANGED <<regVars, treeVars, slotVars, gridVars, tickVars, focus>>
    \/ focus = "tree" /\ TreeNext /\ UNCHANGED <<regVars, viewVars, slotVars, gridVars, tickVars, focus>>
    \/ focus = "grid" /\ GridNext /\ UNCHANGED <<regVars, viewVars, treeVars, tickVars, focus>>
    \/ focus = "tick" /\ TickNext /\ UNCHANGED <<regVars, viewVars, treeVars, slotVars, gridVars, focus>>
    \/ focus \in {"view", "tree"} /\ UNCHANGED oneSyncVars

OneSyncSpec == OneSyncInit /\ [][OneSyncNext]_oneSyncVars
=============================================================================
