-------------------------- MODULE ServerGameState --------------------------
(***************************************************************************)
(* The authoritative OneSync registry of one server: object ids, the        *)
(* entities on them, who owns an entity and in which routing bucket it is.  *)
(*                                                                         *)
(* Everything but the scripts runs on the UDP task, one handler at a time.  *)
(* Scripts run on threads of their own: they change the routing store and   *)
(* queue spawns and despawns at any moment, also in the middle of a sync    *)
(* tick, and the tick takes them over.                                      *)
(*                                                                         *)
(* Abstracted: sync payloads (ClientView treats the downlink); positions,   *)
(* of which only whether one is known matters here.  `granted' is what the  *)
(* clients do with the ids they are given: a client creates entities on ids *)
(* it was leased and has not used yet.                                      *)
(***************************************************************************)
EXTENDS Naturals, FiniteSets, Sequences

CONSTANTS
    Clients,      \* source ids; a source is never reused
    NoOwner,      \* owner 0: no simulating client
    NoEntity,     \* no entity on the id
    MaxObjectId,  \* max_object_id
    Uniqifiers,   \* uniqifiers a creator may choose
    Buckets,      \* routing buckets; 0 is the default one
    LeaseSize,    \* ids_per_request
    Departing,      \* the clients that may disconnect
    Natives,      \* the natives scripts call, a subset of AllNatives
    MaxCommands   \* COMMAND_CAPACITY of the world command queue

AllNatives == {"spawn", "despawn", "moveEntity", "movePlayer", "lockdown"}

ObjectIds == 0 .. MaxObjectId
Entity == [uniq : Uniqifiers, owner : Clients \cup {NoOwner}, player : BOOLEAN,
           server : BOOLEAN, placed : BOOLEAN, bucket : Buckets]

ASSUME RegistryAssumption ==
    /\ MaxObjectId \in Nat /\ LeaseSize \in Nat /\ MaxCommands \in Nat
    /\ NoOwner \notin Clients
    /\ NoEntity \notin Entity
    /\ Buckets \subseteq Nat /\ 0 \in Buckets
    /\ Departing \subseteq Clients
    /\ Natives \subseteq AllNatives

VARIABLES
    clients,       \* clients, the map's keys
    left,          \* sources that have disconnected
    leased,        \* ClientState.leased of each client
    ids,           \* IdState of every object id
    entities,      \* entities by object id
    playerBucket,  \* RoutingBucketRegistry.players
    entityBucket,  \* RoutingBucketRegistry.entities
    strict,        \* RoutingBucketRegistry.policies: buckets under strict lockdown
    script,        \* InMemoryRoutingControl: what the scripts set
    changed,       \* its revision differs from the one mirrored last
    nextId,        \* GatewayWorldControl.next_id
    queue,         \* world commands submitted
    task,          \* the UDP task: "idle", or in the middle of a "tick"
    draining,      \* world commands the tick has taken and not applied yet
    granted        \* ids a client was leased and has not created on

clientVars == <<clients, left, leased, granted>>
routingVars == <<playerBucket, entityBucket, strict>>
scriptVars == <<script, changed, nextId, queue>>
regVars == <<clientVars, routingVars, scriptVars, ids, entities, task, draining>>

Exists(i) == entities[i] # NoEntity
Spawn(i) == [op |-> "spawn", id |-> i]
Despawn(i) == [op |-> "despawn", id |-> i]
Commands == [op : {"spawn", "despawn"}, id : ObjectIds]

RegInit ==
    /\ clients = {}
    /\ left = {}
    /\ leased = [c \in Clients |-> {}]
    /\ ids = [i \in ObjectIds |-> "Free"]
    /\ entities = [i \in ObjectIds |-> NoEntity]
    /\ playerBucket = [c \in Clients |-> 0]
    /\ entityBucket = [i \in ObjectIds |-> 0]
    /\ strict = {}
    /\ script = [player |-> [c \in Clients |-> 0], entity |-> [i \in ObjectIds |-> 0], strict |-> {}]
    /\ changed = FALSE
    /\ nextId = MaxObjectId
    /\ queue = <<>>
    /\ task = "idle"
    /\ draining = <<>>
    /\ granted = [c \in Clients |-> {}]

-----------------------------------------------------------------------------
(* Clients.                                                                 *)

\* refresh_routing_source: the sender's bucket and that bucket's policy.
RefreshRoutingSource(c) ==
    LET b == script.player[c]
    IN /\ playerBucket' = [playerBucket EXCEPT ![c] = b]
       /\ strict' = IF b \in script.strict THEN strict \cup {b} ELSE strict \ {b}

AddClientStale(c) ==
    /\ task = "idle"
    /\ c \notin clients \cup left
    /\ clients' = clients \cup {c}
    /\ UNCHANGED <<left, leased, granted, routingVars, scriptVars, ids, entities, task, draining>>

\* send_post_connect.
AddClient(c) ==
    /\ task = "idle"
    /\ c \notin clients \cup left
    /\ clients' = clients \cup {c}
    /\ RefreshRoutingSource(c)
    /\ UNCHANGED <<left, leased, granted, entityBucket, scriptVars, ids, entities, task, draining>>

\* The n lowest members of S.
Lowest(S, n) == {i \in S : Cardinality({j \in S : j < i}) < n}

LeaseUnusedIds(c) ==
    /\ task = "idle"
    /\ c \in clients
    /\ LET new == Lowest({i \in 1 .. MaxObjectId - 1 : ids[i] # "Used"}, LeaseSize)
       IN /\ ids' = [i \in ObjectIds |-> IF i \in new THEN "Leased" ELSE ids[i]]
          /\ leased' = [leased EXCEPT ![c] = @ \cup new]
          /\ granted' = [granted EXCEPT ![c] = @ \cup new]
    /\ UNCHANGED <<clients, left, routingVars, scriptVars, entities, task, draining>>

\* on_request_object_ids: the lowest free ids below the last one are leased.
LeaseObjectIds(c) ==
    /\ task = "idle"
    /\ c \in clients
    /\ LET new == Lowest({i \in 1 .. MaxObjectId - 1 : ids[i] = "Free"}, LeaseSize)
       IN /\ ids' = [i \in ObjectIds |-> IF i \in new THEN "Leased" ELSE ids[i]]
          /\ leased' = [leased EXCEPT ![c] = @ \cup new]
          /\ granted' = [granted EXCEPT ![c] = @ \cup new]
    /\ UNCHANGED <<clients, left, routingVars, scriptVars, entities, task, draining>>

ApplyCreateClaims(c, i, u, player) ==
    /\ task = "idle"
    /\ c \in clients
    /\ i \in granted[c] \/ (Exists(i) /\ entities[i].owner = c /\ ~entities[i].server)
    /\ RefreshRoutingSource(c)
    /\ LET b == script.player[c]
       IN IF b \in script.strict \/ (Exists(i) /\ (entities[i].owner # c \/ entities[i].uniq # u))
          THEN /\ ids' = [ids EXCEPT ![i] = "Used"]
               /\ UNCHANGED <<entities, entityBucket>>
          ELSE /\ ids' = [ids EXCEPT ![i] = "Used"]
               /\ entities' = [entities EXCEPT ![i] =
                     [uniq |-> u, owner |-> c, player |-> player, server |-> FALSE,
                      placed |-> Exists(i) /\ entities[i].placed, bucket |-> b]]
               /\ entityBucket' = [entityBucket EXCEPT ![i] = b]
    /\ granted' = [granted EXCEPT ![c] = @ \ {i}]
    /\ UNCHANGED <<clients, left, leased, scriptVars, task, draining>>

\* apply_create: strict lockdown refuses; so does a live entity that is not the
\* sender's own.  A re-create keeps what was known of the position.
ApplyCreate(c, i, u, player) ==
    /\ task = "idle"
    /\ c \in clients
    /\ i \in granted[c] \/ (Exists(i) /\ entities[i].owner = c /\ ~entities[i].server)
    /\ RefreshRoutingSource(c)
    /\ LET b == script.player[c]
       IN IF b \in script.strict \/ (Exists(i) /\ (entities[i].owner # c \/ entities[i].uniq # u))
          THEN UNCHANGED <<ids, entities, entityBucket>>
          ELSE /\ ids' = [ids EXCEPT ![i] = "Used"]
               /\ entities' = [entities EXCEPT ![i] =
                     [uniq |-> u, owner |-> c, player |-> player, server |-> FALSE,
                      placed |-> Exists(i) /\ entities[i].placed, bucket |-> b]]
               /\ entityBucket' = [entityBucket EXCEPT ![i] = b]
    /\ granted' = [granted EXCEPT ![c] = @ \ {i}]
    /\ UNCHANGED <<clients, left, leased, scriptVars, task, draining>>

\* What a sync or a remove must match: the owner sends it, for the entity it
\* means, from the entity's bucket.
OwnRecord(c, i, u) ==
    /\ Exists(i)
    /\ entities[i].uniq = u
    /\ entities[i].owner = c
    /\ entities[i].bucket = script.player[c]

\* apply_sync: the blob may place the entity.
ApplySync(c, i, u) ==
    /\ task = "idle"
    /\ c \in clients
    /\ RefreshRoutingSource(c)
    /\ entities' = IF OwnRecord(c, i, u)
                   THEN [entities EXCEPT ![i] = [@ EXCEPT !.placed = TRUE]]
                   ELSE entities
    /\ UNCHANGED <<clientVars, entityBucket, scriptVars, ids, task, draining>>

ApplyRemoveKeepsBucket(c, i, u) ==
    /\ task = "idle"
    /\ c \in clients
    /\ RefreshRoutingSource(c)
    /\ IF OwnRecord(c, i, u)
       THEN /\ entities' = [entities EXCEPT ![i] = NoEntity]
            /\ ids' = [ids EXCEPT ![i] = "Free"]
       ELSE UNCHANGED <<entities, ids>>
    /\ UNCHANGED <<clientVars, scriptVars, entityBucket, task, draining>>

\* apply_remove.
ApplyRemove(c, i, u) ==
    /\ task = "idle"
    /\ c \in clients
    /\ RefreshRoutingSource(c)
    /\ IF OwnRecord(c, i, u)
       THEN /\ entities' = [entities EXCEPT ![i] = NoEntity]
            /\ ids' = [ids EXCEPT ![i] = "Free"]
            /\ entityBucket' = [entityBucket EXCEPT ![i] = 0]
       ELSE UNCHANGED <<entities, ids, entityBucket>>
    /\ UNCHANGED <<clientVars, scriptVars, task, draining>>

\* apply_takeover: any net id is a valid target, connected or not.  Clients hand
\* on what they simulate, never their own player.
ApplyTakeover(c, i, t) ==
    /\ task = "idle"
    /\ c \in clients
    /\ t \in clients \cup left
    /\ Exists(i) => ~entities[i].player
    /\ RefreshRoutingSource(c)
    /\ entities' =
          IF /\ playerBucket'[c] = entityBucket[i]
             /\ playerBucket'[t] = entityBucket[i]
             /\ Exists(i)
             /\ entities[i].owner = c
          THEN [entities EXCEPT ![i] = [@ EXCEPT !.owner = t]]
          ELSE entities
    /\ UNCHANGED <<clientVars, entityBucket, scriptVars, ids, task, draining>>

\* on_disconnect and remove_client: leases end, server entities become
\* ownerless, the client's own entities go.  At its end the handler resets the
\* script store's bucket of the player.
RemoveClient(c) ==
    /\ task = "idle"
    /\ c \in clients \cap Departing
    /\ LET orphaned == {i \in ObjectIds : Exists(i) /\ entities[i].owner = c}
           gone == {i \in orphaned : ~entities[i].server}
       IN /\ ids' = [i \in ObjectIds |->
                        IF i \in gone \/ (i \in leased[c] /\ ids[i] = "Leased")
                        THEN "Free" ELSE ids[i]]
          /\ entities' = [i \in ObjectIds |->
                             IF i \in gone THEN NoEntity
                             ELSE IF i \in orphaned THEN [entities[i] EXCEPT !.owner = NoOwner]
                             ELSE entities[i]]
          /\ entityBucket' = [i \in ObjectIds |-> IF i \in gone THEN 0 ELSE entityBucket[i]]
    /\ clients' = clients \ {c}
    /\ left' = left \cup {c}
    /\ leased' = [leased EXCEPT ![c] = {}]
    /\ granted' = [granted EXCEPT ![c] = {}]
    /\ playerBucket' = [playerBucket EXCEPT ![c] = 0]
    /\ script' = [script EXCEPT !.player[c] = 0]
    /\ changed' = TRUE
    /\ UNCHANGED <<strict, nextId, queue, task, draining>>

-----------------------------------------------------------------------------
(* Scripts, on their own threads.                                           *)

\* WorldControl::submit: a full queue drops the command.
Submit(command) ==
    queue' = IF Len(queue) < MaxCommands THEN Append(queue, command) ELSE queue

CreateNativeUnbounded ==
    /\ "spawn" \in Natives
    /\ nextId' = nextId - 1
    /\ Submit(Spawn(nextId))
    /\ script' = [script EXCEPT !.entity = [@ EXCEPT ![nextId] = 0]]
    /\ changed' = TRUE
    /\ UNCHANGED <<clientVars, routingVars, ids, entities, task, draining>>

\* CREATE_VEHICLE and its kin: reserve_network_id walks down and never goes
\* back; an exhausted space leaves the script with an entity of its own.
CreateNative ==
    /\ "spawn" \in Natives
    /\ nextId > 0
    /\ nextId' = nextId - 1
    /\ Submit(Spawn(nextId))
    /\ script' = [script EXCEPT !.entity = [@ EXCEPT ![nextId] = 0]]
    /\ changed' = TRUE
    /\ UNCHANGED <<clientVars, routingVars, ids, entities, task, draining>>

\* DELETE_ENTITY.
DeleteNative(i) ==
    /\ "despawn" \in Natives
    /\ Exists(i) \/ i > nextId
    /\ Submit(Despawn(i))
    /\ script' = [script EXCEPT !.entity = [@ EXCEPT ![i] = 0]]
    /\ changed' = TRUE
    /\ UNCHANGED <<clientVars, routingVars, nextId, ids, entities, task, draining>>

\* SET_ENTITY_ROUTING_BUCKET, on a handle the script holds: an entity of the
\* published world, or one it has just created.
SetEntityBucket(i, b) ==
    /\ "moveEntity" \in Natives
    /\ Exists(i) \/ i > nextId
    /\ script' = [script EXCEPT !.entity = [@ EXCEPT ![i] = b]]
    /\ changed' = TRUE
    /\ UNCHANGED <<clientVars, routingVars, nextId, queue, ids, entities, task, draining>>

\* SET_PLAYER_ROUTING_BUCKET.
SetPlayerBucket(c, b) ==
    /\ "movePlayer" \in Natives
    /\ c \notin left
    /\ script' = [script EXCEPT !.player = [@ EXCEPT ![c] = b]]
    /\ changed' = TRUE
    /\ UNCHANGED <<clientVars, routingVars, nextId, queue, ids, entities, task, draining>>

\* SET_ROUTING_BUCKET_ENTITY_LOCKDOWN_MODE.
SetLockdown(b, mode) ==
    /\ "lockdown" \in Natives
    /\ script' = [script EXCEPT !.strict = IF mode = "strict" THEN @ \cup {b} ELSE @ \ {b}]
    /\ changed' = TRUE
    /\ UNCHANGED <<clientVars, routingVars, nextId, queue, ids, entities, task, draining>>

-----------------------------------------------------------------------------
(* onesync_tick.                                                            *)

\* refresh_routing_state: mirrors the script store when its revision moved.
RefreshRoutingState ==
    LET used == {0} \cup {script.player[c] : c \in clients}
                    \cup {script.entity[i] : i \in {j \in ObjectIds : Exists(j)}}
    IN IF changed
       THEN /\ playerBucket' = [c \in Clients |->
                                   IF c \in clients THEN script.player[c] ELSE playerBucket[c]]
            /\ entityBucket' = [i \in ObjectIds |->
                                   IF Exists(i) THEN script.entity[i] ELSE entityBucket[i]]
            /\ entities' = [i \in ObjectIds |->
                               IF Exists(i) THEN [entities[i] EXCEPT !.bucket = script.entity[i]]
                               ELSE NoEntity]
            /\ strict' = (strict \ used) \cup (script.strict \cap used)
            /\ changed' = FALSE
       ELSE UNCHANGED <<routingVars, entities, changed>>

\* The tick mirrors the routing store, then takes what is queued.
TickStart ==
    /\ task = "idle"
    /\ RefreshRoutingState
    /\ task' = "tick"
    /\ draining' = queue
    /\ queue' = <<>>
    /\ UNCHANGED <<clientVars, script, nextId, ids>>

SpawnServerEntityUnclaimed(i, u) ==
    /\ entities' = [entities EXCEPT ![i] =
          [uniq |-> u, owner |-> NoOwner, player |-> FALSE, server |-> TRUE,
           placed |-> TRUE, bucket |-> 0]]
    /\ UNCHANGED ids

\* spawn_server_entity_with_id: an id that is not free refuses the spawn.
SpawnServerEntity(i, u) ==
    IF ids[i] = "Free"
    THEN /\ ids' = [ids EXCEPT ![i] = "Used"]
         /\ entities' = [entities EXCEPT ![i] =
               [uniq |-> u, owner |-> NoOwner, player |-> FALSE, server |-> TRUE,
                placed |-> TRUE, bucket |-> 0]]
    ELSE UNCHANGED <<ids, entities>>

DespawnEntityKeepsId(i) ==
    /\ ids' = ids
    /\ entities' = [entities EXCEPT ![i] = NoEntity]
    /\ entityBucket' = IF Exists(i) THEN [entityBucket EXCEPT ![i] = 0] ELSE entityBucket

\* despawn_entity.
DespawnEntity(i) ==
    /\ ids' = IF Exists(i) THEN [ids EXCEPT ![i] = "Free"] ELSE ids
    /\ entities' = [entities EXCEPT ![i] = NoEntity]
    /\ entityBucket' = IF Exists(i) THEN [entityBucket EXCEPT ![i] = 0] ELSE entityBucket

\* apply_world_commands, one command; scripts go on meanwhile.
ApplyCommand ==
    /\ task = "tick"
    /\ draining # <<>>
    /\ LET command == Head(draining)
       IN \/ /\ command.op = "spawn"
             /\ \E u \in Uniqifiers : SpawnServerEntity(command.id, u)
             /\ UNCHANGED entityBucket
          \/ /\ command.op = "despawn"
             /\ DespawnEntity(command.id)
    /\ draining' = Tail(draining)
    /\ UNCHANGED <<clientVars, playerBucket, strict, scriptVars, task>>

\* seed_unknown_player_positions, for the players that reported a position.
Seeded(reported) ==
    [i \in ObjectIds |->
        IF Exists(i) /\ entities[i].player /\ entities[i].owner \in reported
        THEN [entities[i] EXCEPT !.placed = TRUE]
        ELSE entities[i]]

TickEndNoReassign ==
    /\ task = "tick"
    /\ draining = <<>>
    /\ task' = "idle"
    /\ \E reported \in SUBSET clients : entities' = Seeded(reported)
    /\ UNCHANGED <<clientVars, routingVars, scriptVars, ids, draining>>

\* reassign_ownerless_server_entities: the nearest placed player adopts, if any.
Reassigned(es) ==
    LET players == {es[i].owner : i \in {j \in ObjectIds :
                        es[j] # NoEntity /\ es[j].player /\ es[j].placed}}
        ownerless == {i \in ObjectIds :
                        es[i] # NoEntity /\ es[i].server /\ es[i].owner = NoOwner}
    IN IF players = {} THEN {es}
       ELSE {[i \in ObjectIds |->
                 IF i \in ownerless THEN [es[i] EXCEPT !.owner = nearest[i]] ELSE es[i]] :
             nearest \in [ownerless -> players]}

TickEnd ==
    /\ task = "tick"
    /\ draining = <<>>
    /\ task' = "idle"
    /\ \E reported \in SUBSET clients : entities' \in Reassigned(Seeded(reported))
    /\ UNCHANGED <<clientVars, routingVars, scriptVars, ids, draining>>

Tick == TickStart \/ ApplyCommand \/ TickEnd

RegNext ==
    \/ \E c \in Clients :
         \/ AddClient(c)
         \/ LeaseObjectIds(c)
         \/ RemoveClient(c)
         \/ \E b \in Buckets : SetPlayerBucket(c, b)
         \/ \E i \in ObjectIds, u \in Uniqifiers :
              \/ \E player \in BOOLEAN : ApplyCreate(c, i, u, player)
              \/ ApplySync(c, i, u)
              \/ ApplyRemove(c, i, u)
         \/ \E i \in ObjectIds, t \in Clients : ApplyTakeover(c, i, t)
    \/ CreateNative
    \/ \E i \in ObjectIds : DeleteNative(i) \/ \E b \in Buckets : SetEntityBucket(i, b)
    \/ \E b \in Buckets, mode \in {"strict", "inactive"} : SetLockdown(b, mode)
    \/ Tick

RegSpec == RegInit /\ [][RegNext]_regVars

\* The sync interval keeps firing on the UDP task.
RegFairSpec == RegSpec /\ WF_regVars(Tick)

-----------------------------------------------------------------------------
(* Properties.                                                              *)

\* The shape of the registry: one state per object id, every command on a real id.
RegTypeOK ==
    /\ clients \subseteq Clients /\ left \subseteq Clients
    /\ leased \in [Clients -> SUBSET ObjectIds]
    /\ granted \in [Clients -> SUBSET ObjectIds]
    /\ ids \in [ObjectIds -> {"Free", "Leased", "Used"}]
    /\ entities \in [ObjectIds -> Entity \cup {NoEntity}]
    /\ playerBucket \in [Clients -> Buckets]
    /\ entityBucket \in [ObjectIds -> Buckets]
    /\ strict \subseteq Buckets
    /\ script \in [player : [Clients -> Buckets], entity : [ObjectIds -> Buckets],
                   strict : SUBSET Buckets]
    /\ changed \in BOOLEAN
    /\ nextId \in ObjectIds
    /\ queue \in Seq(Commands) /\ draining \in Seq(Commands)
    /\ task \in {"idle", "tick"}

\* IdState never diverges from the entity table: an id is Used exactly while an
\* entity lives on it, through rejected creates, removes, disconnects, takeovers
\* and script spawns and despawns.
IdsMatchEntities == \A i \in ObjectIds : ids[i] = "Used" <=> Exists(i)

\* The bucket takeover is checked against (the registry's) is the bucket sync and
\* remove are checked against (the entity's own), and a free id has none left over.
BucketsAgree ==
    \A i \in ObjectIds : entityBucket[i] = IF Exists(i) THEN entities[i].bucket ELSE 0

\* Once the routing revision is mirrored, every connected client is in the bucket
\* the scripts put it in, under the lockdown they chose for it.
RoutingMirrored ==
    ~changed => \A c \in clients :
                   /\ playerBucket[c] = script.player[c]
                   /\ playerBucket[c] \in strict <=> playerBucket[c] \in script.strict

LeasesApart ==
    /\ \A c \in Clients : \A i \in granted[c] : ids[i] = "Leased"
    /\ \A c, d \in Clients : c # d => granted[c] \cap granted[d] = {}

\* Until a client leaves, an id a client may still create on is leased, and to that
\* client alone: neither lease_object_ids nor a script spawn takes it.
LeaseExclusive == left = {} => LeasesApart

\* The registry is consistent under clients, scripts and the tick: ids match
\* entities, bucket records agree and follow the scripts, leases are exclusive.
RegistrySafe ==
    /\ RegTypeOK /\ IdsMatchEntities /\ BucketsAgree
    /\ RoutingMirrored /\ LeaseExclusive

\* "Drop a client and release every object id it held", and no other: the lease of
\* a client survives the disconnect of another.
LeaseSurvivesOthers == LeasesApart

Inert(i) == Exists(i) /\ entities[i].server /\ entities[i].owner = NoOwner
PlacedPlayer == \E i \in ObjectIds : Exists(i) /\ entities[i].player /\ entities[i].placed

\* reassign_ownerless_server_entities: a server entity nobody simulates does not
\* stay so while a placed player is there to adopt it.
OwnerlessAdopted == []<>(PlacedPlayer => \A i \in ObjectIds : ~Inert(i))

\* "Routing bucket captured at creation and preserved across syncs": mirroring the
\* script store leaves an entity that no script ever moved in its bucket.
BucketPreserved ==
    [][TickStart => \A i \in ObjectIds :
         Exists(i) /\ script.entity[i] = 0 /\ ~entities[i].server
         => entities'[i].bucket = entities[i].bucket]_regVars
=============================================================================
