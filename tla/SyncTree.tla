------------------------------ MODULE SyncTree ------------------------------
(***************************************************************************)
(* The sync-tree payload of a clone record, from writer to registry: the    *)
(* server's writer (rage/sync_write.rs), its reader (rage/sync_parse.rs)    *)
(* and what the registry keeps of what the reader decodes (apply_create,    *)
(* apply_sync, apply_sync_data, EntityNodeState::merge) for one entity.     *)
(*                                                                          *)
(* A payload is a sequence of bits, framed as MessageBuffer frames them.    *)
(* The walks run along the flattened tree: `skip' is the depth below        *)
(* which nodes belong to a node that was skipped, so one pass visits the    *)
(* nodes the recursive functions visit, in their order.  A client writes    *)
(* payloads the way the server does, with either object type.               *)
(***************************************************************************)
EXTENDS SyncTables, SyncNodes, FiniteSetsExt

CONSTANTS
  TreeTypes,   \* entity types that appear
  Modes,       \* <<game build, length_hack>> of the servers that appear
  Sendable,    \* names of the nodes a client sends in sync records
  Creations,   \* and in create records
  Patterns,    \* cycles of bits that fill the bodies it sends
  Positions,   \* where scripts spawn, <<x, y, z>> in metres
  Losses,      \* bytes a payload may have lost at its end
  MaxBody,     \* bound: bits of the longest body it sends
  MaxSyncs     \* bound: sync records of one behaviour

ASSUME TreeAssumption == MaxSyncs \in Nat /\ Losses \subseteq Nat /\ 0 \in Losses

VARIABLES
  config,      \* [type, build, hack]: the entity's type, GameBuild, length_hack
  born,        \* "no", "spawned" by a script or "created" by a client
  create_data, \* the blob replayed to clients that enter scope
  learned,     \* field -> last decoded value: ServerEntity and its nodes
  syncs,
  at,          \* ghost: where a script spawned it
  said,        \* ghost: field -> value of the nodes that arrived whole
  birth,       \* ghost: field -> value its create record carried
  rode         \* ghost: the vehicle a ped sat in last

treeVars == <<config, born, create_data, learned, syncs, at, said, birth, rode>>

-----------------------------------------------------------------------------
(* MessageBuffer: the bits of a blob of whole bytes.                        *)

NODE_LENGTH_BITS == 13
effective_len(hack) == IF hack THEN 16 ELSE NODE_LENGTH_BITS

\* Slip: the last byte is left unfinished.
RoundNot(bits) == bits
RoundUp(bits) == bits \o [i \in 1..((8 - (Len(bits) % 8)) % 8) |-> 0]

-----------------------------------------------------------------------------
(* Gates of a node, and the writer.                                         *)

Has(id, sync) == (id \div sync) % 2 = 1
Reached(n, sync, obj) == Has(n.ids[1], sync) /\ (n.ids[3] = 0 \/ obj = 1)
Asks(n, sync) == Has(n.ids[2], sync)   \* a presence bit is on the wire

subtree_has_payload(tree, i, sync, obj, nodes) ==
  \E j \in (i + 1)..Len(tree) :
    /\ tree[j].name \in DOMAIN nodes
    /\ Reached(tree[j], sync, obj)
    /\ \A k \in (i + 1)..j : tree[k].depth > tree[i].depth

Framed(body, hack) == Bits(Len(body), effective_len(hack)) \o body

\* Slip: nothing for a node nobody authored.
PayloadIfAny(name, nodes, hack) ==
  IF name \in DOMAIN nodes THEN Framed(nodes[name], hack) ELSE <<>>

\* What a node that is read contributes: a parent nothing of its own, a leaf its
\* body, empty when nobody authored it.
Payload(name, nodes, hack) ==
  IF name = "" THEN <<>>
  ELSE Framed(IF name \in DOMAIN nodes THEN nodes[name] ELSE <<>>, hack)

write_node(acc, tree, i, sync, obj, nodes, hack) ==
  LET n == tree[i]
      present == IF n.name = "" THEN subtree_has_payload(tree, i, sync, obj, nodes)
                 ELSE n.name \in DOMAIN nodes
      put1(bits, skipped) ==
        [skip |-> IF skipped THEN n.depth ELSE 99, bits |-> acc.bits \o bits,
         ends |-> IF skipped THEN acc.ends
                  ELSE Append(acc.ends, <<n.name, Len(acc.bits \o bits)>>)]
  IN IF n.depth > acc.skip THEN acc
     ELSE IF ~Reached(n, sync, obj) THEN put1(<<>>, TRUE)
     ELSE IF ~Asks(n, sync) THEN put1(Payload(n.name, nodes, hack), FALSE)
     ELSE IF ~present THEN put1(<<0>>, TRUE)
     ELSE put1(<<1>> \o Payload(n.name, nodes, hack), FALSE)

RECURSIVE WriteFrom(_, _, _, _, _, _, _)
WriteFrom(i, acc, tree, sync, obj, nodes, hack) ==
  IF acc.skip < 0 \/ i > Len(tree) THEN acc
  ELSE WriteFrom(i + 1, write_node(acc, tree, i, sync, obj, nodes, hack), tree, sync, obj, nodes, hack)

\* [bits, ends]: the blob, and for the nodes on it where each ends.
write_tree(type, create, obj, nodes, hack) ==
  LET done == WriteFrom(1, [skip |-> 99, bits |-> IF create THEN <<>> ELSE <<obj>>, ends |-> <<>>],
                        tree_for(type), IF create THEN 1 ELSE 2, obj, nodes, hack)
  IN [bits |-> RoundUp(done.bits), ends |-> done.ends]

\* The server writes creates with object type 0 and syncs with object type 1.
write_sync_tree(type, create, nodes, hack) ==
  write_tree(type, create, IF create THEN 0 ELSE 1, nodes, hack).bits

-----------------------------------------------------------------------------
(* The reader.                                                              *)

\* Slip: a view that is not bounded to the node's length.
BodyUnbounded(bits, from, length) == SubSeq(bits, from + 1, Len(bits))
Body(bits, from, length) == SubSeq(bits, from + 1, from + length)

\* walk of one node: `pos' is the cursor, `ok' turns false when the blob ends.
walk(acc, n, bits, sync, obj, c) ==
  LET asks == Asks(n, sync)
      start == acc.pos + (IF asks THEN 1 ELSE 0)
      read == Reached(n, sync, obj) /\ (asks => BitAt(bits, acc.pos) = 1)
      w == effective_len(c.hack)
      length == Value(Field(bits, start, w))
      end == start + w + length
  IN IF n.depth > acc.skip THEN acc
     ELSE IF ~Reached(n, sync, obj) THEN [acc EXCEPT !.skip = n.depth]
     ELSE IF ~read THEN [acc EXCEPT !.skip = n.depth, !.pos = start]
     ELSE IF n.name = "" THEN [acc EXCEPT !.skip = 99, !.pos = start]
     ELSE IF start + w > Len(bits) \/ end > Len(bits) THEN [acc EXCEPT !.ok = FALSE]
     ELSE [skip |-> 99, pos |-> end, ok |-> TRUE,
           out |-> IF n.name \in decodes
                   THEN decode_leaf(n.name, Body(bits, start + w, length), c.build) @@ acc.out
                   ELSE acc.out]

RECURSIVE WalkFrom(_, _, _, _, _, _)
WalkFrom(i, acc, bits, sync, obj, c) ==
  IF ~acc.ok \/ i > Len(tree_for(c.type)) THEN acc
  ELSE WalkFrom(i + 1, walk(acc, tree_for(c.type)[i], bits, sync, obj, c), bits, sync, obj, c)

WalkAll(c, create, bits) ==
  WalkFrom(1, [skip |-> 99, pos |-> IF create THEN 0 ELSE 1, ok |-> TRUE, out |-> <<>>],
           bits, IF create THEN 1 ELSE 2, IF create THEN 0 ELSE BitAt(bits, 0), c)

parse_sync_tree(c, create, bits) == WalkAll(c, create, bits).out

-----------------------------------------------------------------------------
(* What the registry keeps.                                                 *)

Riding(state) == "cur_vehicle" \in DOMAIN state

\* EntityNodeState::merge: a ped that reports no vehicle after one has left it.
LeftVehicle(known, decoded) ==
  IF /\ {"ped_game_state"} \subseteq DOMAIN decoded \cap DOMAIN known
     /\ ~Riding(decoded["ped_game_state"]) /\ Riding(known["ped_game_state"])
  THEN "last_vehicle" :> known["ped_game_state"]["cur_vehicle"]
  ELSE <<>>

\* Slip: the fields are merged before the vehicle that was left is looked up.
MergeFirst(known, decoded) == LeftVehicle(decoded @@ known, decoded) @@ decoded @@ known
\* A record replaces the fields it carries and leaves the others.
apply_sync_data(known, decoded) == LeftVehicle(known, decoded) @@ decoded @@ known

-----------------------------------------------------------------------------
(* What a script spawns.                                                    *)

Model == Bits(11, 32)
Heading == [i \in 1..35 |-> i % 2]   \* a compressed quaternion
POPTYPE_MISSION == 7

sector_of(p) == <<(p[1] + 512 * 54) \div 54, (p[2] + 512 * 54) \div 54, (p[3] + 1700) \div 69>>
OffsetOf(p) == LET s == sector_of(p)
               IN <<p[1] - (s[1] - 512) * 54, p[2] - (s[2] - 512) * 54, p[3] - (s[3] * 69 - 1700)>>

write_offset(p, w) ==
  LET quantised(v, size) == Bits((v * (2^w - 1)) \div size, w)
      o == OffsetOf(p)
  IN quantised(o[1], 54) \o quantised(o[2], 54) \o quantised(o[3], 69)

author_sector(p) ==
  LET s == sector_of(p) IN Bits(s[1], 10) \o Bits(s[2], 10) \o Bits(s[3], 6)

author_vehicle(p) ==
  [VehicleCreation |-> Model \o Bits(POPTYPE_MISSION, 4) \o Bits(0, 17) \o Bits(1000, 19)
                       \o Bits(2, 3) \o Bits(1, 32) \o Bits(0, 3),
   AutomobileCreation |-> <<1>>, Sector |-> author_sector(p), SectorPosition |-> write_offset(p, 12),
   EntityOrientation |-> Heading]

author_ped(p) ==
  [PedCreation |-> Bits(0, 2) \o Bits(POPTYPE_MISSION, 4) \o Model \o Bits(0, 17) \o Bits(9, 32)
                   \o <<0, 1, 0>> \o Bits(200, 13) \o <<0>>,
   Sector |-> author_sector(p), PedSectorPosMap |-> write_offset(p, 12) \o <<0>>,
   PedOrientation |-> SubSeq(Heading, 1, 16)]

author_object(p) ==
  [ObjectCreation |-> Bits(4, 5) \o Model \o Bits(1, 1) \o Bits(0, 5),
   Sector |-> author_sector(p), ObjectSectorPos |-> <<1>> \o write_offset(p, 20),
   ObjectOrientation |-> <<0>> \o Heading]

Spawned == {"Automobile", "Ped", "Object"}
author(type, p) == CASE type = "Ped" -> author_ped(p)
                     [] type = "Object" -> author_object(p)
                     [] OTHER -> author_vehicle(p)

-----------------------------------------------------------------------------
(* What a client sends: bodies that run as far as their decoder reads, cut  *)
(* in half, or empty.                                                       *)

Cycle(p, n) == [i \in 1..n |-> p[((i - 1) % Len(p)) + 1]]
BodyOf == [x \in (Sendable \cup Creations) \X Patterns \X {m[1] : m \in Modes} \X (0..2) |->
             LET full == IF x[1] \in decodes THEN Run(Layout(x[1], x[3]), Cycle(x[2], MaxBody), Start).at
                         ELSE 11
             IN Cycle(x[2], (full * x[4]) \div 2)]

Named(type) == {tree_for(type)[i].name : i \in 1..Len(tree_for(type))}
NodesOf(c, names) == {[n \in names |-> BodyOf[<<n, f[n][1], c.build, f[n][2]>>]] :
                        f \in [names -> Patterns \X (0..2)]}

\* The nodes of a blob that arrived whole, decoded each from its own body.
Intact(w, kept, nodes, c) ==
  FoldLeft(LAMBDA out, e : IF e[2] <= kept /\ e[1] \in DOMAIN nodes \cap decodes
                           THEN decode_leaf(e[1], nodes[e[1]], c.build) @@ out ELSE out,
           <<>>, w.ends)

-----------------------------------------------------------------------------
TreeInit ==
  /\ config \in {[type |-> t, build |-> m[1], hack |-> m[2]] : t \in TreeTypes, m \in Modes}
  /\ born = "no" /\ create_data = <<>> /\ syncs = 0
  /\ learned = <<>> /\ at = <<>> /\ said = <<>> /\ birth = <<>> /\ rode = <<>>

\* ServerGameState::spawn_server_entity_with_id.
SpawnEntity(p) ==
  /\ born = "no" /\ config.type \in Spawned
  /\ born' = "spawned" /\ at' = p
  /\ create_data' = write_sync_tree(config.type, TRUE, author(config.type, p), config.hack)
  /\ UNCHANGED <<config, learned, syncs, said, birth, rode>>

\* The payload apply_create hands to the parser: entity.data, which it has just
\* set to Vec::new(); the record's own payload went into create_data.
CreateParses(w) == <<>>

\* apply_create of a record its checks accept.
apply_create(nodes) ==
  LET w == write_tree(config.type, TRUE, 0, nodes, config.hack)
  IN /\ born = "no"
     /\ born' = "created" /\ create_data' = w.bits
     /\ learned' = apply_sync_data(learned, parse_sync_tree(config, TRUE, CreateParses(w)))
     /\ birth' = Intact(w, Len(w.bits), nodes, config)
     /\ UNCHANGED <<config, syncs, at, said, rode>>

\* apply_sync of a record its checks accept, `lost' bytes short.
apply_sync(nodes, obj, lost) ==
  LET w == write_tree(config.type, FALSE, obj, nodes, config.hack)
      kept == Len(w.bits) - 8 * lost
      data == SubSeq(w.bits, 1, kept)
      own == Intact(w, kept, nodes, config)
  IN /\ born # "no" /\ syncs < MaxSyncs /\ kept >= 0
     /\ learned' = IF data = <<>> THEN learned
                   ELSE apply_sync_data(learned, parse_sync_tree(config, FALSE, data))
     /\ said' = own @@ said
     /\ rode' = IF "ped_game_state" \in DOMAIN own /\ Riding(own["ped_game_state"])
                THEN own["ped_game_state"]["cur_vehicle"] ELSE rode
     /\ UNCHANGED <<config, born, create_data, at, birth>>

\* Bounds: only entities a client created are followed past their creation, for
\* apply_sync is the same for the others; such an entity hears one record of two
\* nodes, perhaps with a lost tail, or a series of whole records of one node.
TreeNext ==
  \/ \E p \in Positions : SpawnEntity(p)
  \/ \E n \in Named(config.type) \cap Creations : \E nodes \in NodesOf(config, {n}) : apply_create(nodes)
  \/ /\ born = "created" /\ syncs' = syncs + 1
     /\ \E n \in Named(config.type) \cap Sendable : \E nodes \in NodesOf(config, {n}) : apply_sync(nodes, 1, 0)
  \/ /\ born = "created" /\ birth = <<>> /\ syncs = 0 /\ syncs' = MaxSyncs
     /\ \E names \in kSubset(2, Named(config.type) \cap Sendable) : \E nodes \in NodesOf(config, names) :
          \E obj \in {0, 1}, lost \in Losses : apply_sync(nodes, obj, lost)

-----------------------------------------------------------------------------
\* Blobs are whole bytes, and only fields some decoder reports are kept.
TreeTypeOK ==
  /\ born \in {"no", "spawned", "created"} /\ syncs \in 0..MaxSyncs
  /\ Len(create_data) % 8 = 0 /\ \A i \in 1..Len(create_data) : create_data[i] \in {0, 1}
  /\ DOMAIN learned \cap Unreported = {}

\* What the registry knows of an entity is what the nodes that arrived whole say
\* when each is decoded from its own body: no presence bit, unknown node, short
\* body, length widening or lost tail makes the walk read one node's bits as
\* another's, and a record leaves alone the fields it does not carry.
LearnedIsSaid ==
  [f \in DOMAIN learned \ {"last_vehicle"} |-> learned[f]] = said

\* A ped that reports no vehicle was last in the vehicle it last reported, over
\* any number of records in between (EntityNodeState::merge).
LastVehicleHonest ==
  ("ped_game_state" \in DOMAIN learned /\ ~Riding(learned["ped_game_state"]) /\ rode # <<>>)
     => ("last_vehicle" \in DOMAIN learned /\ learned["last_vehicle"] = rode)

\* The create blob the server authors is framed for the reader: every node the
\* reader reads unconditionally is there, the walk ends in the blob's last byte,
\* and the position, heading, model and population type come back, in every
\* mode and build, for positions below the height six bits of sector can say.
SpawnReadable ==
  born = "spawned" =>
    LET r == WalkAll(config, TRUE, create_data)
        s == sector_of(at)
        o == OffsetOf(at)
        w == IF config.type = "Object" THEN 20 ELSE 12
        near(v, bits, size) == LET d == v * (2^w - 1) - Value(bits) * size IN 0 <= d /\ d < size
    IN /\ r.ok /\ Len(create_data) - r.pos < 8
       /\ at[3] < 64 * 69 - 1700 =>
            <<Value(r.out["sector"]["x"]), Value(r.out["sector"]["y"]), Value(r.out["sector"]["z"])>> = s
       /\ near(o[1], r.out["sector_position"]["x"], 54) /\ near(o[2], r.out["sector_position"]["y"], 54)
       /\ near(o[3], r.out["sector_position"]["z"], 69)
       /\ r.out["heading"] = IF config.type = "Ped" THEN SubSeq(Heading, 1, 8) ELSE Heading
       /\ config.type # "Object" => r.out["model"] = Model /\ Value(r.out["population_type"]) = POPTYPE_MISSION

\* What the registry learned of an entity is what its records said, and what
\* the server writes it can read.
SyncsLearned ==
    /\ TreeTypeOK /\ LearnedIsSaid /\ LastVehicleHonest /\ SpawnReadable

\* ServerEntity.model: "Model hash, decoded from the creation node": what a
\* client's create record says is known once apply_create accepted it.
CreateLearned == \A f \in DOMAIN birth : f \in DOMAIN learned
=============================================================================
