------------------------------ MODULE SyncNodes ------------------------------
(***************************************************************************)
(* The leaf decoders of rage/sync_parse.rs.  A decoder is a straight-line   *)
(* program over a bounded view of bits, so it is written as a layout: a     *)
(* sequence of items the interpreter Run reads in order.                    *)
(*                                                                          *)
(*   need(f, w)     a checked read; past the end it abandons the decoder    *)
(*   soft(f, w)     a checked read; past the end the field is not reported  *)
(*   flag(f)        read_bit: past the end it reads 0 and does not fail     *)
(*   either(f, y, n) a flag, then the items y when it is set and n when not *)
(*   when(f, y, n)  the same, on a flag read before                         *)
(*   put(f, v)      a constant; copy(f, g) an earlier field, if reported    *)
(*   count(w, y, n) a checked count, then y that many times, then n         *)
(*   some(f, w, y)  a checked read, then y unless it is zero                *)
(*   mask(w, n, y)  a checked mask, then y for each set bit of the low n    *)
(*                                                                          *)
(* A field no one reports is named "".  A value is the bits it was read     *)
(* from; the float, angle or quaternion they stand for is left out.         *)
(***************************************************************************)
EXTENDS Integers, Sequences, SequencesExt, FiniteSets, TLC

item(k, f, w, y, n) == << [k |-> k, f |-> f, w |-> w, y |-> y, n |-> n] >>
need(f, w) == item("need", f, w, <<>>, <<>>)
soft(f, w) == item("soft", f, w, <<>>, <<>>)
flag(f) == item("flag", f, 1, <<>>, <<>>)
either(f, y, n) == item("either", f, 1, y, n)
opt(y) == either("", y, <<>>)
when(f, y, n) == item("when", f, 0, y, n)
put(f, v) == item("put", f, v, <<>>, <<>>)
copy(f, g) == item("copy", f, g, <<>>, <<>>)
count(w, y, n) == item("count", "", w, y, n)
some(f, w, y) == item("some", f, w, y, <<>>)
mask(w, n, y) == item("mask", "", w, y, n)
times(n, y) == FlattenSeq([i \in 1..n |-> y])
skip(n) == times(n, flag(""))
since(build, gate, y) == IF build >= gate THEN y ELSE <<>>

\* MSB first; only counts, masks and lengths are ever taken as numbers.
RECURSIVE Value(_)
Value(bits) == IF bits = <<>> THEN 0 ELSE 2 * Value(Front(bits)) + Last(bits)
Bits(v, w) == [i \in 1..w |-> IF w - i > 29 THEN 0 ELSE (v \div 2^(w - i)) % 2]
SetBits(v, n) == Cardinality({i \in 0..(n - 1) : (v \div 2^i) % 2 = 1})

\* MessageBuffer::read_bit and read_bits_single on a view of exactly its body.
BitAt(body, at) == IF at < Len(body) THEN body[at + 1] ELSE 0
Field(body, at, w) == SubSeq(body, at + 1, at + w)

RECURSIVE Run(_, _, _)
Run(items, body, s) ==
  IF items = <<>> \/ ~s.ok THEN s
  ELSE LET i == Head(items)
           rest == Tail(items)
           bit == BitAt(body, s.at)
           fits == s.at + i.w <= Len(body)
           past == [s EXCEPT !.at = @ + i.w]
           told(v) == [past EXCEPT !.env = (i.f :> v) @@ @]
           read == Field(body, s.at, i.w)
       IN CASE i.k = "need" -> Run(rest, body, IF fits THEN told(read) ELSE [past EXCEPT !.ok = FALSE])
            [] i.k = "soft" -> Run(rest, body, IF fits THEN told(read) ELSE past)
            [] i.k = "flag" -> Run(rest, body, told(bit))
            [] i.k = "either" -> Run((IF bit = 1 THEN i.y ELSE i.n) \o rest, body, told(bit))
            [] i.k = "when" -> Run((IF s.env[i.f] = 1 THEN i.y ELSE i.n) \o rest, body, s)
            [] i.k = "put" -> Run(rest, body, [s EXCEPT !.env = (i.f :> i.w) @@ @])
            [] i.k = "copy" -> Run(rest, body, IF i.w \in DOMAIN s.env
                                               THEN [s EXCEPT !.env = (i.f :> s.env[i.w]) @@ @] ELSE s)
            [] ~fits -> [past EXCEPT !.ok = FALSE]
            [] i.k = "count" -> Run(times(Value(read), i.y) \o times(Value(read), i.n) \o rest, body, past)
            [] i.k = "some" -> Run((IF Value(read) = 0 THEN <<>> ELSE i.y) \o rest, body, told(read))
            [] i.k = "mask" -> Run(times(SetBits(Value(read), i.n), i.y) \o rest, body, past)

-----------------------------------------------------------------------------
(* The layouts, in wire order; `b' is the enforced game build.              *)

offset(w) == need("x", w) \o need("y", w) \o need("z", w)
quaternion == need("heading", 2 + 3 * 11)
rgb(f) == need(f, 3 * 8)

vehicle_game_state(b) ==
  need("radio_station", IF b >= 2545 THEN 7 ELSE 6) \o flag("") \o flag("engine_on")
  \o flag("engine_starting") \o flag("") \o flag("handbrake") \o skip(2)
  \o either("state_absent", put("default_headlights", 1),
       either("default_headlights", <<>>, need("headlights_colour", 8)) \o flag("siren_on")
       \o since(b, 3407, flag("")) \o opt(flag("")) \o flag("")
       \o opt(need("lock_status", 5) \o need("", 7) \o need("", 7)
               \o mask(7, 7, need("", 4)) \o mask(8, 7, need("", 5)))
       \o opt(need("", 6)) \o skip(2) \o flag("is_stationary") \o skip(3) \o opt(need("", 10)))
  \o opt(need("", 32) \o need("", 13)) \o opt(need("", 13) \o need("", 13)) \o opt(need("", 13))
  \o flag("lights_on") \o flag("highbeams_on") \o need("light_state", 3) \o skip(6)
  \o need("", 32) \o need("", 3) \o flag("") \o flag("has_been_owned_by_player") \o skip(6)
  \o since(b, 2699, skip(2)) \o either("has_lock", need("locked_players", 32), <<>>)

vehicle_health(b) ==
  LET tyre == since(b, 2060, opt(need("", 8))) \o skip(4)
      wear == opt(need("", 10))
  IN skip(2) \o flag("engine_damaged") \o flag("tank_damaged")
     \o when("engine_damaged", need("engine_health", 19), <<>>)
     \o when("tank_damaged", need("petrol_tank_health", 19), <<>>)
     \o flag("tyres_fine") \o flag("extra_fine")
     \o when("tyres_fine",
          when("extra_fine", <<>>, count(4, wear, <<>>)),
          when("extra_fine", count(4, tyre, <<>>), count(4, tyre, wear)))
     \o either("", <<>>, need("health", 19)) \o either("", <<>>, need("body_health", 19))
     \o opt(need("", 13) \o need("", 32)) \o need("", 4) \o need("total_repairs", 4)

vehicle_appearance(b) ==
  need("colours", 48) \o either("is_primary_colour_rgb", rgb("primary_rgb"), <<>>)
  \o either("is_secondary_colour_rgb", rgb("secondary_rgb"), <<>>) \o need("", 8)
  \o opt(need("dirt_level", 5) \o need("extras", 16) \o opt(need("livery_index", 5))
          \o opt(need("roof_livery_index", 5)))
  \o some("kit_index", 2,
       times(13, opt(need("", 32))) \o opt(need("", 6)) \o need("wheel_choice", 8)
       \o need("wheel_type", 4) \o opt(need("", 8)) \o skip(2))
  \o opt(need("window_tint_index", 8)) \o opt(rgb("tyre_smoke_colour")) \o opt(need("plate", 8 * 7))
  \o need("number_plate_text_index", 32) \o need("horn_type_hash", 32)
  \o opt(either("", need("", 32) \o need("", 32), need("", 1) \o need("", 32) \o flag("") \o need("", 3))
          \o times(4, opt(need("", 10) \o need("", 8)
                           \o times(3, need("", 14) \o need("", 14) \o need("", 10)) \o need("", 16))))
  \o either("has_neon_lights", rgb("neon_colour") \o skip(4) \o since(b, 2372, flag("")), <<>>)

vehicle_damage ==
  opt(times(6, need("", 2))) \o either("damaged_by_bullets", times(6, need("", 8)), <<>>)
  \o opt(times(2, need("", 2))) \o opt(skip(22)) \o either("any_window_broken", skip(8), <<>>)

ped_game_state(b) ==
  skip(6) \o since(b, 2060, skip(2)) \o since(b, 2189, flag("")) \o since(b, 2372, flag(""))
  \o since(b, 3407, skip(2)) \o need("arrest_state", 1) \o need("death_state", 2)
  \o opt(need("cur_weapon", 32) \o since(b, 3258, need("", 3))) \o since(b, 2060, flag(""))
  \o skip(5) \o opt(need("", 5))
  \o count(4, need("", 32) \o since(b, 2372, opt(need("", 5))), <<>>) \o count(2, need("", 32), <<>>)
  \o opt(need("vehicle", 13)
          \o opt(copy("cur_vehicle", "vehicle") \o need("cur_vehicle_seat", 5)))
  \o opt(flag("")) \o opt(need("", 13) \o flag("is_handcuffed") \o skip(4))
  \o flag("is_flashlight_on") \o flag("action_mode_enabled") \o flag("stealth_mode_enabled")

ped_movement ==
  need("", 32)
  \o either("default", <<>>, need("", 3) \o need("", 5) \o need("", 32) \o flag("")
                    \o flag("is_stealthy") \o flag("is_strafing") \o flag("is_ragdolling"))

ped_tasks ==
  opt(need("script_command", 32) \o need("script_task_stage", 3))
  \o mask(8, 8, need("", 10) \o flag("") \o need("", 3) \o need("", 3) \o need("", 5))

ped_health(b) ==
  LET w == IF b >= 3717 THEN 14 ELSE 13
  IN flag("is_fine") \o either("max_changed", soft("max_health", w), <<>>)
     \o when("is_fine", copy("health", "max_health"), soft("health", w) \o skip(2))
     \o either("no_armour", put("armour", 0), soft("armour", 13))
     \o since(b, 2060, flag("has_first") \o opt(need("", 13)) \o when("has_first", <<>>, need("", 13)))
     \o either("", need("source_of_damage", 13), put("source_of_damage", 0))
     \o need("cause_of_death", 32)

player_sector_pos ==
  opt(skip(2) \o opt(soft("", 13) \o soft("", 14) \o soft("", 14) \o soft("", 10))) \o offset(12)

ped_creation ==
  skip(2) \o soft("population_type", 4) \o soft("model", 32) \o soft("", 16) \o flag("in_vehicle")
  \o soft("", 32) \o when("in_vehicle", soft("vehicle_seat", 18), <<>>)

Layout(name, b) ==
  CASE name = "Sector" -> need("x", 10) \o need("y", 10) \o need("z", 6)
    [] name \in {"SectorPosition", "PedSectorPosMap"} -> offset(12)
    [] name = "PlayerSectorPos" -> player_sector_pos
    [] name = "ObjectSectorPos" -> either("", offset(20), offset(12))
    [] name = "PedHealth" -> ped_health(b)
    [] name = "VehicleCreation" -> soft("model", 32) \o soft("population_type", 4)
    [] name = "PedCreation" -> ped_creation
    [] name = "EntityOrientation" -> quaternion
    [] name = "ObjectOrientation" -> either("", need("", 2 * 20) \o need("heading", 20), quaternion)
    [] name = "PedOrientation" -> soft("heading", 8) \o soft("desired_heading", 8)
    [] name = "PhysicalVelocity" -> need("velocity", 3 * 12)
    [] name = "VehicleGameState" -> vehicle_game_state(b)
    [] name = "VehicleHealth" -> vehicle_health(b)
    [] name = "VehicleAppearance" -> vehicle_appearance(b)
    [] name = "VehicleDamageStatus" -> vehicle_damage
    [] name = "PedGameState" -> ped_game_state(b)
    [] name = "PedMovementGroup" -> ped_movement
    [] name = "PedAI" -> soft("relationship_group", 32)
    [] name = "PedTaskTree" -> ped_tasks
    [] name = "PedScriptGameState" -> soft("population_type", 4)
    [] name = "PhysicalGameState" -> flag("is_visible")
    [] name = "EntityScriptInfo" -> opt(soft("script_hash", 32))
    [] name \in {"PhysicalAttach", "PedAttach"} -> either("", soft("attached_to", 13), put("attached_to", 0))

decodes == {"Sector", "SectorPosition", "PlayerSectorPos", "ObjectSectorPos", "PedSectorPosMap",
            "PedHealth", "VehicleCreation", "PedCreation", "EntityOrientation", "ObjectOrientation",
            "PedOrientation", "PhysicalVelocity", "VehicleGameState", "VehicleHealth",
            "VehicleAppearance", "VehicleDamageStatus", "PedGameState", "PedMovementGroup", "PedAI",
            "PedTaskTree", "PedScriptGameState", "PhysicalGameState", "EntityScriptInfo",
            "PhysicalAttach", "PedAttach"}

\* Nodes whose decoder reports all of its fields or nothing, and the field of
\* SyncNodeData it reports them in.
Whole(name) ==
  CASE name = "Sector" -> "sector"
    [] name \in {"SectorPosition", "PlayerSectorPos", "ObjectSectorPos", "PedSectorPosMap"} ->
         "sector_position"
    [] name = "VehicleGameState" -> "vehicle_game_state"
    [] name = "VehicleHealth" -> "vehicle_health"
    [] name = "VehicleAppearance" -> "vehicle_appearance"
    [] name = "VehicleDamageStatus" -> "vehicle_damage"
    [] name = "PedGameState" -> "ped_game_state"
    [] name = "PedMovementGroup" -> "ped_movement"
    [] name = "PedTaskTree" -> "ped_tasks"
    [] OTHER -> ""

Unreported == {"", "is_fine", "max_changed", "no_armour", "has_first", "in_vehicle"}

Start == [at |-> 0, ok |-> TRUE, env |-> <<>>]

decode_leaf(name, body, b) ==
  LET s == Run(Layout(name, b), body, Start)
      fields == [f \in DOMAIN s.env \ Unreported |-> s.env[f]]
  IN IF Whole(name) = "" THEN fields
     ELSE IF s.ok THEN Whole(name) :> fields ELSE <<>>
=============================================================================
