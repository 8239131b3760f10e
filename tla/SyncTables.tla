----------------------------- MODULE SyncTables -----------------------------
(***************************************************************************)
(* The sync trees of the GTA V entity types (rage/sync_trees.rs): each the  *)
(* preorder traversal of a tree of parents and leaves.  A node has a depth, *)
(* three ids that gate it, and a name, "" for a parent.  Names drop the C++ *)
(* prefix C and the suffix Node or DataNode.                                *)
(***************************************************************************)
EXTENDS Integers, Sequences

Parent(depth, ids) == << [depth |-> depth, ids |-> ids, name |-> ""] >>

Leaves(depth, ids, names) ==
  [i \in DOMAIN names |-> [depth |-> depth, ids |-> ids, name |-> names[i]]]

Every   == <<127, 127, 0>>
Scripted == <<127, 127, 1>>
Live    == <<87, 87, 0>>
Unborn  == <<86, 86, 0>>  \* not part of a create
Once    == <<1, 0, 0>>
Moving  == <<127, 86, 0>>
Loose   == <<127, 87, 0>>
Handed  == <<4, 0, 0>>    \* migrations only
HandedScript == <<4, 0, 1>>

Created(names) == Parent(0, <<127, 0, 0>>) \o Parent(1, Once) \o Leaves(2, Once, names)

Migrated(ids, physical, more) ==
  Parent(1, ids) \o Leaves(2, Handed, <<"Migration">>) \o Leaves(2, physical, <<"PhysicalMigration">>)
  \o Leaves(2, HandedScript, <<"PhysicalScriptMigration">>) \o more

\* The seven vehicle trees differ in these five places only.
VehicleTree(creation, outer, inner, states, healths, controls) ==
  Created(creation) \o Parent(1, outer) \o Parent(2, inner) \o Parent(3, inner)
  \o Leaves(4, Every, <<"GlobalFlags", "DynamicEntityGameState", "PhysicalGameState",
                        "VehicleGameState">>) \o states
  \o Parent(3, Scripted)
  \o Leaves(4, Scripted, <<"EntityScriptGameState", "PhysicalScriptGameState",
                           "VehicleScriptGameState", "EntityScriptInfo">>)
  \o Leaves(2, Every, <<"PhysicalAttach", "VehicleAppearance", "VehicleDamageStatus",
                        "VehicleComponentReservation", "VehicleHealth", "VehicleTask">>) \o healths
  \o Parent(1, Moving)
  \o Leaves(2, Live, <<"Sector", "SectorPosition", "EntityOrientation", "PhysicalVelocity",
                       "VehicleAngVelocity">>)
  \o Parent(2, Moving) \o Leaves(3, Unborn, <<"VehicleSteering">>)
  \o Leaves(3, Live, <<"VehicleControl">>) \o Leaves(3, Every, <<"VehicleGadget">>) \o controls
  \o Migrated(Handed, Handed, Leaves(2, Handed, <<"VehicleProximityMigration">>))

Car == <<"VehicleCreation", "AutomobileCreation">>
AUTOMOBILE_TREE == VehicleTree(Car, Every, Every, <<>>, <<>>, <<>>)
BIKE_TREE == VehicleTree(<<"VehicleCreation">>, Every, Every,
                         Leaves(4, Every, <<"BikeGameState">>), <<>>, <<>>)
BOAT_TREE == VehicleTree(<<"VehicleCreation">>, Loose, Loose,
                         Leaves(4, Live, <<"BoatGameState">>), <<>>, <<>>)
HELI_TREE == VehicleTree(Car, Loose, Every, <<>>, Leaves(2, Live, <<"HeliHealth">>),
                         Leaves(3, Unborn, <<"HeliControl">>))
PLANE_TREE == VehicleTree(<<"VehicleCreation">>, Every, Every, <<>>,
                          Leaves(2, Every, <<"PlaneGameState">>),
                          Leaves(3, Unborn, <<"PlaneControl">>))
SUBMARINE_TREE == VehicleTree(<<"VehicleCreation">>, Loose, Loose,
                              Leaves(4, Live, <<"SubmarineGameState">>), <<>>,
                              Leaves(3, Unborn, <<"SubmarineControl">>))
TRAIN_TREE == VehicleTree(<<"VehicleCreation">>, Every, Every,
                          Leaves(4, Every, <<"TrainGameState">>), <<>>, <<>>)

DOOR_TREE ==
  Created(<<"DoorCreation">>) \o Parent(1, Every) \o Leaves(2, Every, <<"GlobalFlags">>)
  \o Leaves(2, Scripted, <<"DoorScriptInfo", "DoorScriptGameState">>)
  \o Leaves(1, Unborn, <<"DoorMovement">>)
  \o Parent(1, Handed) \o Leaves(2, Handed, <<"Migration">>)
  \o Leaves(2, HandedScript, <<"PhysicalScriptMigration">>)

OBJECT_TREE ==
  Created(<<"ObjectCreation">>) \o Parent(1, Every) \o Parent(2, Every) \o Parent(3, Every)
  \o Leaves(4, Every, <<"GlobalFlags", "DynamicEntityGameState", "PhysicalGameState",
                        "ObjectGameState">>)
  \o Parent(3, Scripted)
  \o Leaves(4, Scripted, <<"EntityScriptGameState", "PhysicalScriptGameState",
                           "ObjectScriptGameState", "EntityScriptInfo">>)
  \o Leaves(2, Every, <<"PhysicalAttach", "PhysicalHealth">>)
  \o Parent(1, Live)
  \o Leaves(2, Live, <<"Sector", "ObjectSectorPos", "ObjectOrientation", "PhysicalVelocity",
                       "PhysicalAngVelocity">>)
  \o Migrated(Handed, Handed, <<>>)

Tasks == Parent(2, Loose) \o Leaves(3, Every, <<"PedTaskTree">>)
         \o Leaves(3, Live, [i \in 1..8 |-> "PedTaskSpecific"])

PED_TREE ==
  Created(<<"PedCreation">>) \o Leaves(2, <<1, 0, 1>>, <<"PedScriptCreation">>)
  \o Parent(1, Loose) \o Parent(2, Every) \o Parent(3, Every)
  \o Leaves(4, Every, <<"GlobalFlags", "DynamicEntityGameState", "PhysicalGameState",
                        "PedGameState", "PedComponentReservation">>)
  \o Parent(3, Scripted)
  \o Leaves(4, Scripted, <<"EntityScriptGameState", "PhysicalScriptGameState",
                           "PedScriptGameState", "EntityScriptInfo">>)
  \o Leaves(2, Scripted, <<"PedAttach">>) \o Leaves(2, Every, <<"PedHealth">>)
  \o Leaves(2, Live, <<"PedMovementGroup">>) \o Leaves(2, Scripted, <<"PedAI">>)
  \o Leaves(2, Live, <<"PedAppearance">>)
  \o Parent(1, Loose) \o Leaves(2, Live, <<"PedOrientation", "PedMovement">>) \o Tasks
  \o Leaves(2, Live, <<"Sector", "PedSectorPosMap", "PedSectorPosNavMesh">>)
  \o Migrated(<<87, 0, 0>>, Handed,
              Leaves(2, <<87, 0, 0>>, <<"PedInventory">>) \o Leaves(2, <<4, 4, 1>>, <<"PedTaskSequence">>))

PICKUP_TREE ==
  Created(<<"PickupCreation">>) \o Parent(1, Every) \o Parent(2, Every)
  \o Leaves(3, Every, <<"GlobalFlags", "DynamicEntityGameState">>) \o Parent(2, Scripted)
  \o Leaves(3, Scripted, <<"PickupScriptGameState", "PhysicalGameState", "EntityScriptGameState",
                           "PhysicalScriptGameState", "EntityScriptInfo", "PhysicalHealth">>)
  \o Leaves(2, Scripted, <<"PhysicalAttach">>) \o Parent(1, Live)
  \o Leaves(2, Live, <<"Sector", "PickupSectorPos", "EntityOrientation", "PhysicalVelocity",
                       "PhysicalAngVelocity">>)
  \o Migrated(Handed, HandedScript, <<>>)

PICKUP_PLACEMENT_TREE ==
  Parent(0, <<127, 0, 0>>) \o Leaves(1, Once, <<"PickupPlacementCreation">>)
  \o Leaves(1, Handed, <<"Migration">>) \o Leaves(1, Every, <<"GlobalFlags", "PickupPlacementState">>)

PLAYER_TREE ==
  Created(<<"PlayerCreation">>) \o Parent(1, Moving) \o Parent(2, Loose) \o Parent(3, Every)
  \o Leaves(4, Every, <<"GlobalFlags", "DynamicEntityGameState", "PhysicalGameState",
                        "PedGameState", "PedComponentReservation">>)
  \o Parent(3, Loose) \o Leaves(4, Scripted, <<"EntityScriptGameState">>)
  \o Leaves(4, Live, <<"PlayerGameState">>)
  \o Leaves(2, Scripted, <<"PedAttach">>) \o Leaves(2, Every, <<"PedHealth">>)
  \o Leaves(2, Live, <<"PedMovementGroup">>) \o Leaves(2, Scripted, <<"PedAI">>)
  \o Leaves(2, Live, <<"PlayerAppearance">>)
  \o Leaves(2, Unborn, <<"PlayerPedGroup", "PlayerAmbientModelStreaming", "PlayerGamer",
                         "PlayerExtendedGameState">>)
  \o Parent(1, Moving) \o Leaves(2, Live, <<"PedOrientation", "PedMovement">>) \o Tasks
  \o Leaves(2, Live, <<"Sector", "PlayerSectorPos">>)
  \o Leaves(2, Unborn, <<"PlayerCamera", "PlayerWantedAndLOS">>)
  \o Migrated(Handed, Handed, <<>>)

tree_for(type) ==
  CASE type \in {"Automobile", "Trailer"} -> AUTOMOBILE_TREE
    [] type = "Bike" -> BIKE_TREE
    [] type = "Boat" -> BOAT_TREE
    [] type = "Door" -> DOOR_TREE
    [] type = "Heli" -> HELI_TREE
    [] type = "Object" -> OBJECT_TREE
    [] type = "Ped" -> PED_TREE
    [] type = "Pickup" -> PICKUP_TREE
    [] type = "PickupPlacement" -> PICKUP_PLACEMENT_TREE
    [] type = "Plane" -> PLANE_TREE
    [] type = "Submarine" -> SUBMARINE_TREE
    [] type = "Player" -> PLAYER_TREE
    [] type = "Train" -> TRAIN_TREE
=============================================================================
