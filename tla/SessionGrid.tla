---------------------------- MODULE SessionGrid ----------------------------
(***************************************************************************)
(* The two tables of OneSync's session layer (baston-protocol              *)
(* rage/session.rs): the allocator that maps the remote players in scope   *)
(* onto the physical player slots of the game, and the world grid that     *)
(* gives every cell of the map at most one client as its parent.           *)
(*                                                                         *)
(* A slice is a set of cells: the vector it is in the code only grows at   *)
(* its end and is compared as a whole.                                     *)
(***************************************************************************)
EXTENDS Integers, FiniteSets

CONSTANTS
    NetIds,               \* net ids of the clients
    NoNet,                \* nobody: an empty slot, u16::MAX in the grid
    GAME_PLAYER_CAP,      \* physical slots
    RESERVED_LOCAL_SLOT,  \* every client's own
    NoSlot,
    WORLD_OFFSET, WORLD_GRID_CELL, WORLD_GRID_DIM,
    WORLD_GRID_CLAIM_RADIUS,
    WORLD_GRID_ENTRIES,   \* cells one client may own
    Coords                \* coordinates of a player's focus

ASSUME GridAssumption ==
    /\ GAME_PLAYER_CAP \in Nat /\ WORLD_GRID_DIM \in Nat \ {0} /\ WORLD_GRID_ENTRIES \in Nat
    /\ NoNet \notin NetIds /\ NoSlot \notin 0 .. GAME_PLAYER_CAP - 1

VARIABLES
    slots,    \* SlotAllocator.slots: who has a slot
    by_net,   \* SlotAllocator.by_net: the slot of a net id
    accel,    \* WorldGrid.accel: the owner of a cell
    slices,   \* WorldGrid.slices: the cells of a client
    replica   \* the slice a client was last sent (msgWorldGrid3)

slotVars == <<slots, by_net>>
gridVars == <<accel, slices, replica>>

SlotIndices == 0 .. GAME_PLAYER_CAP - 1
Cells == (0 .. WORLD_GRID_DIM - 1) \X (0 .. WORLD_GRID_DIM - 1)

GridInit ==
    /\ slots = [s \in SlotIndices |-> NoNet] /\ by_net = [n \in NetIds |-> NoSlot]
    /\ accel = [c \in Cells |-> NoNet]
    /\ slices = [n \in NetIds |-> {}] /\ replica = [n \in NetIds |-> {}]

-----------------------------------------------------------------------------
(* SlotAllocator                                                            *)

\* A slip: the local player's slot is given away like any other.
FreeAny == {s \in SlotIndices : slots[s] = NoNet}

Free == {s \in SlotIndices \ {RESERVED_LOCAL_SLOT} : slots[s] = NoNet}

\* The lowest free slot; none is left when Free is empty, and a player that has
\* a slot keeps it.
assign(n) ==
    /\ by_net[n] = NoSlot /\ Free # {}
    /\ \E s \in Free :
        /\ \A t \in Free : s <= t
        /\ slots' = [slots EXCEPT ![s] = n]
        /\ by_net' = [by_net EXCEPT ![n] = s]
    /\ UNCHANGED gridVars

\* A slip: the slot keeps its player.
ReleaseOneWay(n) ==
    /\ by_net[n] # NoSlot
    /\ by_net' = [by_net EXCEPT ![n] = NoSlot]
    /\ UNCHANGED <<slots, accel, slices, replica>>

release(n) ==
    /\ by_net[n] # NoSlot
    /\ slots' = [slots EXCEPT ![by_net[n]] = NoNet]
    /\ by_net' = [by_net EXCEPT ![n] = NoSlot]
    /\ UNCHANGED gridVars

-----------------------------------------------------------------------------
(* WorldGrid                                                                *)

Larger(a, b) == IF a >= b THEN a ELSE b
Smaller(a, b) == IF a <= b THEN a ELSE b

sector_index(coord) ==
    Smaller(Larger(coord + WORLD_OFFSET, 0) \div WORLD_GRID_CELL, WORLD_GRID_DIM - 1)

claim_range(coord) ==
    sector_index(coord - WORLD_GRID_CLAIM_RADIUS) .. sector_index(coord + WORLD_GRID_CLAIM_RADIUS)

Window(x, y) == {c \in Cells : c[1] \in claim_range(x) /\ c[2] \in claim_range(y)}

\* The loops visit the cells column by column.
Earlier(c, d) == c[1] < d[1] \/ (c[1] = d[1] /\ c[2] < d[2])

FirstOf(cells, k) == {c \in cells : Cardinality({d \in cells : Earlier(d, c)}) < k}

\* The cells the two loops add: nobody's, or this client's and not in its slice,
\* while there is room in the slice.
Claimable(n, w) == {c \in w : accel[c] = NoNet \/ (accel[c] = n /\ c \notin slices[n])}

\* A slip: room is counted before the cells outside the window are given up.
ClaimsEarly(n, w) == FirstOf(Claimable(n, w), WORLD_GRID_ENTRIES - Cardinality(slices[n]))

Claims(n, w) == FirstOf(Claimable(n, w), WORLD_GRID_ENTRIES - Cardinality(slices[n] \cap w))

\* A slip: only a slice that grew is replicated.
GrownOnly(old, new) == ~ new \subseteq old

Changed(old, new) == new # old

\* A slip: a cell the client moved away from stays with it.
AccelKept(n, w, claims) == [c \in Cells |-> IF c \in claims THEN n ELSE accel[c]]

Accel(n, w, claims) ==
    [c \in Cells |-> IF c \in slices[n] \ w /\ accel[c] = n THEN NoNet
                     ELSE IF c \in claims THEN n ELSE accel[c]]

update_focus(n, x, y) ==
    LET w == Window(x, y)
        claims == Claims(n, w)
        kept == (slices[n] \cap w) \cup claims
    IN  /\ accel' = Accel(n, w, claims)
        /\ slices' = [slices EXCEPT ![n] = kept]
        /\ replica' = IF Changed(slices[n], kept) THEN [replica EXCEPT ![n] = kept] ELSE replica
        /\ UNCHANGED slotVars

\* Disconnect or handoff to another zone.
remove_client(n) ==
    /\ accel' = [c \in Cells |-> IF c \in slices[n] /\ accel[c] = n THEN NoNet ELSE accel[c]]
    /\ slices' = [slices EXCEPT ![n] = {}]
    /\ replica' = [replica EXCEPT ![n] = {}]
    /\ UNCHANGED slotVars

-----------------------------------------------------------------------------

GridNext ==
    \E n \in NetIds :
        \/ assign(n) \/ release(n)
        \/ \E x, y \in Coords : update_focus(n, x, y)
        \/ remove_client(n)

GridSpec == GridInit /\ [][GridNext]_<<slotVars, gridVars>>

-----------------------------------------------------------------------------
(* Properties.                                                              *)

\* Types: no client owns more cells than a slice may have, and the slot every
\* client uses for itself is nobody's.
GridTypeOK ==
    /\ slots \in [SlotIndices -> NetIds \cup {NoNet}]
    /\ by_net \in [NetIds -> (SlotIndices \ {RESERVED_LOCAL_SLOT}) \cup {NoSlot}]
    /\ accel \in [Cells -> NetIds \cup {NoNet}]
    /\ slices \in [NetIds -> SUBSET Cells] /\ replica \in [NetIds -> SUBSET Cells]

\* The two indices of the allocator are inverse to each other, over any sequence
\* of scope entries and exits: no slot is lost, and no two players share one
\* (assign, release).
SlotsInverse ==
    /\ \A n \in NetIds : by_net[n] # NoSlot => slots[by_net[n]] = n
    /\ \A s \in SlotIndices : slots[s] # NoNet => by_net[slots[s]] = s

\* The acceleration table and the slices tell the same story: a cell has an owner
\* exactly when it is in that client's slice, so no cell has two parents and none
\* keeps a client that moved away or left (update_focus, remove_client).
GridAgrees == \A n \in NetIds : slices[n] = {c \in Cells : accel[c] = n}

\* What update_focus returns is enough to keep the client's copy: a slice is
\* replicated whenever it differs from the one sent last, and it stays within the
\* 32 entries msgWorldGrid3 has room for.
SliceReplicated ==
    \A n \in NetIds : replica[n] = slices[n] /\ Cardinality(slices[n]) <= WORLD_GRID_ENTRIES

\* The session's tables agree: slots with their index, slices with the owner
\* table, and both with what clients were told.
GridTables ==
    /\ GridTypeOK /\ SlotsInverse /\ GridAgrees /\ SliceReplicated

\* A focus report that changes the slice leaves no cell of its window without a parent
\* unless the slice is full: cells given up in the same call make room first.
WindowCovered ==
    [][\A n \in NetIds, x, y \in Coords :
          slices'[n] # slices[n] /\ update_focus(n, x, y) =>
              \/ Cardinality(slices'[n]) >= WORLD_GRID_ENTRIES
              \/ \A c \in Window(x, y) : accel'[c] # NoNet]_<<slotVars, gridVars>>
=============================================================================
