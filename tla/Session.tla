------------------------------ MODULE Session ------------------------------
(***************************************************************************)
(* How a player comes and goes: the HTTP connect handler with its           *)
(* deferrals, the player directory with its connection tokens, the ENet     *)
(* task with its two peer tables, the hosting arbiter, the overlay          *)
(* subscriptions and the control queue of the UDP handle.                   *)
(*                                                                         *)
(* A source is allocated by one connect request and never again, and its    *)
(* token is as unique, so the token is identified with the source.          *)
(***************************************************************************)
EXTENDS Naturals, Sequences, FiniteSets

CONSTANTS
    Sources,          \* players, in other words connect requests
    Early,            \* the sources whose connect request was accepted before
    BastonClients,    \* the sources that declare bastonClient=1
    Operators,        \* the sources cleared for the overlay
    Peers,            \* ENet peer slots
    NoSource,         \* no player
    NoPeer,           \* no peer
    ControlCapacity,  \* CONTROL_CAPACITY: bound of the control queue
    MaxReconnects,    \* bound: handshakes with a token that is already in use
    MaxKicks,         \* bound: kicks and drops by operators
    MaxMoves          \* bound: bucket changes by scripts

\* Players that connected before are players, and the stand-ins are neither.
ASSUME SessionAssumption ==
    /\ Early \subseteq Sources /\ NoSource \notin Sources /\ NoPeer \notin Peers
    /\ ControlCapacity \in Nat

VARIABLES
    conAt,        \* where the connect request of a source is
    entry,        \* DeferralRegistry: the entry of a source
    outcome,      \* what was sent into the oneshot of its connect request
    directory,    \* PlayerDirectory.players
    tokens,       \* PlayerDirectory.session_tokens
    enet,         \* ENet: the state of a peer slot
    peer_sources,
    source_peers,
    session_host,
    grant,        \* current_hosting: its holder
    waiters,      \* host_release_waiters; all are told the same, so a set
    subs,         \* the overlay's subscribers
    ctlQueue,     \* the control queue of the UDP task: sources to drop
    bucket,       \* routing bucket of a player
    told,         \* the last sessionHostResult a client received
    knows,        \* the players a client believes to be there
    fired,        \* how often playerDropped fired for a source
    rebound,      \* sources whose token was presented by a second peer, or
                  \* whose peer presented another token
    removed,      \* sources dropped through the drop route of the game port
    kicked,       \* sources an operator kicked
    lostKicks,    \* kicks refused by a full control queue
    moved         \* players whose bucket was changed

conVars == <<conAt, entry, outcome>>
hostVars == <<session_host, grant, waiters, told>>
tableVars == <<enet, peer_sources, source_peers>>
ghostVars == <<rebound, removed, kicked, lostKicks, moved>>
sessVars == <<conVars, directory, tokens, tableVars, hostVars, subs, ctlQueue,
              bucket, knows, fired, ghostVars>>

NoEntry == [there |-> FALSE, tx |-> FALSE, deferred |-> FALSE]
NewEntry == [there |-> TRUE, tx |-> TRUE, deferred |-> FALSE]

SessInit ==
    /\ conAt = [s \in Sources |-> IF s \in Early THEN "accepted" ELSE "new"]
    /\ entry = [s \in Sources |-> NoEntry]
    /\ outcome = [s \in Sources |-> IF s \in Early THEN "ok" ELSE "none"]
    /\ directory = Early /\ tokens = Early
    /\ enet = [p \in Peers |-> "free"]
    /\ peer_sources = [p \in Peers |-> NoSource]
    /\ source_peers = [s \in Sources |-> NoPeer]
    /\ session_host = NoSource /\ grant = NoSource /\ waiters = {}
    /\ subs = {} /\ ctlQueue = <<>>
    /\ bucket = [s \in Sources |-> 0]
    /\ told = [s \in Sources |-> "none"]
    /\ knows = [s \in Sources |-> {}]
    /\ fired = [s \in Sources |-> 0]
    /\ rebound = {} /\ removed = {} /\ kicked = {} /\ lostKicks = {} /\ moved = {}

Connected(s) == source_peers[s] # NoPeer

-----------------------------------------------------------------------------
(* client_connect and DeferralRegistry.                                     *)

udpVars == <<directory, tokens, tableVars, hostVars, subs, ctlQueue, bucket, knows, fired, ghostVars>>

\* The version gate and authenticate may refuse; else the deferral is registered
\* and playerConnecting is fired.
InitConnect(s) ==
    /\ conAt[s] = "new"
    /\ \/ /\ conAt' = [conAt EXCEPT ![s] = "refused"]
          /\ UNCHANGED entry
       \/ /\ conAt' = [conAt EXCEPT ![s] = "firing"]
          /\ entry' = [entry EXCEPT ![s] = NewEntry]
    /\ UNCHANGED <<outcome, udpVars>>

\* A script of any runtime: deferrals.defer().
Defer(s) ==
    /\ entry[s].there
    /\ entry' = [entry EXCEPT ![s].deferred = TRUE]
    /\ UNCHANGED <<conAt, outcome, udpVars>>

\* A slip: a later done() overwrites the outcome.
SendOutcomeAgain(s, result) ==
    /\ entry' = [entry EXCEPT ![s].tx = FALSE]
    /\ outcome' = [outcome EXCEPT ![s] = result]

\* deferrals.done(reason): only the first call sends.
SendOutcome(s, result) ==
    /\ entry' = [entry EXCEPT ![s].tx = FALSE]
    /\ outcome' = IF entry[s].tx THEN [outcome EXCEPT ![s] = result] ELSE outcome

Done(s) ==
    /\ entry[s].there
    /\ \E result \in {"ok", "reason"} : SendOutcome(s, result)
    /\ UNCHANGED <<conAt, udpVars>>

\* The handlers have run: resolve_if_not_deferred looks at the entry first and
\* resolves it in a second step.
HandlersRan(s) ==
    /\ conAt[s] = "firing"
    /\ conAt' = [conAt EXCEPT ![s] = IF ~entry[s].deferred /\ entry[s].tx THEN "resolving" ELSE "waiting"]
    /\ UNCHANGED <<entry, outcome, udpVars>>

ResolveIfNotDeferred(s) ==
    /\ conAt[s] = "resolving"
    /\ conAt' = [conAt EXCEPT ![s] = "waiting"]
    /\ SendOutcome(s, "ok")
    /\ UNCHANGED udpVars

\* The outcome arrives, or deferral_timeout_secs pass without one; the entry is
\* removed either way.
ConnectEnds(s) ==
    /\ conAt[s] = "waiting"
    /\ entry' = [entry EXCEPT ![s] = NoEntry]
    /\ IF outcome[s] = "ok"
       THEN /\ conAt' = [conAt EXCEPT ![s] = "accepted"]
            /\ directory' = directory \cup {s}
            /\ tokens' = tokens \cup {s}
       ELSE /\ conAt' = [conAt EXCEPT ![s] = "refused"]
            /\ UNCHANGED <<directory, tokens>>
    /\ UNCHANGED <<outcome, tableVars, hostVars, subs, ctlQueue, bucket, knows, fired, ghostVars>>

\* The HTTP connection closes while the handler waits, which drops the handler.
ConnectAborted(s) ==
    /\ conAt[s] \in {"firing", "waiting"}
    /\ conAt' = [conAt EXCEPT ![s] = "aborted"]
    /\ UNCHANGED <<entry, outcome, udpVars>>

-----------------------------------------------------------------------------
(* The ENet task: connections.                                              *)

\* handle_command(SendToSource): nothing is sent to a source without a peer.
Send(f, s, v) == IF source_peers[s] = NoPeer THEN f ELSE [f EXCEPT ![s] = v]

PeerConnects(p) ==
    /\ enet[p] = "free"
    /\ enet' = [enet EXCEPT ![p] = "up"]
    /\ UNCHANGED <<conVars, directory, tokens, peer_sources, source_peers, hostVars, subs, ctlQueue,
                   bucket, knows, fired, ghostVars>>

\* The sources of peer_sources whose players share the bucket of s.
SameBucket(tab, s) == {tab[p] : p \in {q \in Peers : tab[q] # NoSource /\ bucket[tab[q]] = bucket[s]}}

\* A slip: the newcomer is told of the others, not they of the newcomer.
IntroducedOneWay(s, others) == [knows EXCEPT ![s] = @ \cup others]

\* send_post_connect: the newcomer and the players of its bucket hear of each other.
Introduced(s, others) ==
    [c \in Sources |-> CASE c = s -> knows[c] \cup others
                         [] c # s /\ c \in others \ BastonClients /\ source_peers'[c] # NoPeer
                              -> knows[c] \cup {s}
                         [] OTHER -> knows[c]]

\* on_handshake with a bound token, and send_post_connect.
Handshake(p, s) ==
    /\ enet[p] = "up" /\ s \in tokens
    /\ LET again == \/ Connected(s)
                    \/ peer_sources[p] \notin {NoSource, s} IN
       /\ again => Cardinality(rebound) < MaxReconnects
       /\ rebound' = IF again THEN rebound \cup ({s, peer_sources[p]} \ {NoSource}) ELSE rebound
    /\ peer_sources' = [peer_sources EXCEPT ![p] = s]
    /\ source_peers' = [source_peers EXCEPT ![s] = p]
    /\ knows' = IF s \in BastonClients THEN knows
                ELSE Introduced(s, SameBucket(peer_sources', s))
    /\ UNCHANGED <<conVars, directory, tokens, enet, hostVars, subs, ctlQueue, bucket, fired,
                   removed, kicked, lostKicks, moved>>

\* A token nobody holds (its player was removed): the peer is sent away.
HandshakeRefused(p, s) ==
    /\ enet[p] = "up" /\ s \notin tokens /\ conAt[s] = "accepted"
    /\ enet' = [enet EXCEPT ![p] = "closing"]
    /\ UNCHANGED <<conVars, directory, tokens, peer_sources, source_peers, hostVars, subs, ctlQueue,
                   bucket, knows, fired, ghostVars>>

\* A slip: the grant is freed and nobody is told.
ReleasedQuietly(to) == told

\* release_hosting_grant: every waiter that has a peer is told "free".
Released(to) == [s \in Sources |-> IF s \in to /\ source_peers'[s] # NoPeer THEN "free" ELSE told[s]]

\* A slip: the peer is forgotten, the source keeps pointing at it.
UnboundNot(s) == source_peers

Unbound(s) == [source_peers EXCEPT ![s] = NoPeer]

\* A slip: the player is looked up after the directory has forgotten it.
FiredIfFound(s) == [fired EXCEPT ![s] = IF s \in directory' THEN @ + 1 ELSE @]

\* playerDropped.
Fired(s) == [fired EXCEPT ![s] = @ + 1]

\* on_disconnect.
OnDisconnect(p) ==
    LET s == peer_sources[p]
        rest == waiters \ {s} IN
    IF s = NoSource
    THEN UNCHANGED <<directory, tokens, peer_sources, source_peers, hostVars, subs, bucket, knows, fired>>
    ELSE /\ peer_sources' = [peer_sources EXCEPT ![p] = NoSource]
         /\ source_peers' = Unbound(s)
         /\ subs' = subs \ {s}
         /\ session_host' = IF session_host = s THEN NoSource ELSE session_host
         /\ IF grant = s
            THEN grant' = NoSource /\ waiters' = {} /\ told' = [Released(rest) EXCEPT ![s] = "none"]
            ELSE waiters' = rest /\ told' = [told EXCEPT ![s] = "none"] /\ UNCHANGED grant
         /\ directory' = directory \ {s}
         /\ tokens' = tokens \ {s}
         /\ knows' = [c \in Sources |->
                        IF c = s THEN {}
                        ELSE IF c \in SameBucket(peer_sources', s) /\ source_peers[c] # NoPeer
                             THEN knows[c] \ {s} ELSE knows[c]]
         /\ fired' = Fired(s)
         /\ bucket' = [bucket EXCEPT ![s] = 0]

\* enet::Event::Disconnect: the client went, timed out, or answered our disconnect.
PeerDisconnects(p) ==
    /\ enet[p] # "free"
    /\ enet' = [enet EXCEPT ![p] = "free"]
    /\ OnDisconnect(p)
    /\ UNCHANGED <<conVars, ctlQueue, ghostVars>>

\* MSG_I_QUIT: the handler runs at once, ENet's own event follows later.
Quit(p) ==
    /\ enet[p] = "up"
    /\ enet' = [enet EXCEPT ![p] = "closing"]
    /\ OnDisconnect(p)
    /\ UNCHANGED <<conVars, ctlQueue, ghostVars>>

-----------------------------------------------------------------------------
(* The ENet task: hosting arbitration and overlay.                          *)

Talks(p, s) == enet[p] = "up" /\ peer_sources[p] = s /\ s # NoSource

restVars == <<conVars, directory, tokens, tableVars, ctlQueue, bucket, knows, fired, ghostVars>>

OnIHost(p, s) ==
    /\ Talks(p, s) /\ session_host = NoSource
    /\ session_host' = s
    /\ UNCHANGED <<restVars, subs, grant, waiters, told>>

\* on_hosting_session.
OnHostingSession(p, s) ==
    /\ Talks(p, s)
    /\ LET reply(r) == told' = Send(told, s, r) IN
       IF session_host \notin {NoSource, s} /\ Connected(session_host)
       THEN reply("conflict") /\ UNCHANGED <<grant, waiters>>
       ELSE IF grant = NoSource THEN grant' = s /\ reply("go") /\ UNCHANGED waiters
       ELSE IF grant = s THEN reply("go") /\ UNCHANGED <<grant, waiters>>
       ELSE waiters' = waiters \cup {s} /\ reply("wait") /\ UNCHANGED grant
    /\ UNCHANGED <<restVars, subs, session_host>>

ReleaseHostingGrant ==
    /\ grant' = NoSource
    /\ waiters' = {}
    /\ UNCHANGED <<restVars, subs, session_host>>
    /\ told' = Released(waiters)

OnHostedSession(p, s) == Talks(p, s) /\ grant = s /\ ReleaseHostingGrant

\* A slip: only a grant whose holder became the host expires.
ExpireHostsOnly == grant # NoSource /\ session_host = grant /\ ReleaseHostingGrant

\* expire_hosting_grant, on every pump: HOSTING_GRANT_TIMEOUT has passed.
ExpireHostingGrant == grant # NoSource /\ ReleaseHostingGrant

\* on_debug_info_toggle: identifiers come from the directory, so a player that is
\* not in it has none; turning the overlay off is always honoured.
OnDebugInfoToggle(p, s) ==
    /\ Talks(p, s)
    /\ \/ subs' = subs \ {s}
       \/ s \in Operators \cap directory /\ subs' = subs \cup {s}
    /\ UNCHANGED <<restVars, hostVars>>

\* debug_tick: a subscriber without a peer is forgotten.
DebugTick ==
    /\ subs' = {s \in subs : Connected(s)}
    /\ UNCHANGED <<restVars, hostVars>>

-----------------------------------------------------------------------------
(* Operators and scripts.                                                   *)

Kicks == Cardinality(kicked) + Cardinality(removed)

\* A slip: one command too many.
CtlRoomLoose == Len(ctlQueue) <= ControlCapacity

CtlRoom == Len(ctlQueue) < ControlCapacity

\* kick_player: a known player is dropped through the control queue.
KickPlayer(s) ==
    /\ s \in directory /\ s \notin kicked /\ Kicks < MaxKicks
    /\ kicked' = kicked \cup {s}
    /\ IF CtlRoom
       THEN ctlQueue' = Append(ctlQueue, s) /\ UNCHANGED lostKicks
       ELSE lostKicks' = lostKicks \cup {s} /\ UNCHANGED ctlQueue
    /\ UNCHANGED <<conVars, directory, tokens, tableVars, hostVars, subs, bucket, knows, fired,
                   rebound, removed, moved>>

\* A slip: the player is told the reason, the peer stays.
ClosingNot(p) == enet

Closing(p) == IF p # NoPeer /\ enet[p] = "up" THEN [enet EXCEPT ![p] = "closing"] ELSE enet

\* handle_command(DropSource): only a player with a peer is disconnected.
DropSource ==
    /\ ctlQueue # <<>>
    /\ ctlQueue' = Tail(ctlQueue)
    /\ enet' = Closing(source_peers[Head(ctlQueue)])
    /\ UNCHANGED <<conVars, directory, tokens, peer_sources, source_peers, hostVars, subs, bucket,
                   knows, fired, ghostVars>>

\* admin_drop_player: the directory forgets the player, ENet is not told.
AdminDropPlayer(s) ==
    /\ s \in directory /\ Kicks < MaxKicks
    /\ directory' = directory \ {s}
    /\ tokens' = tokens \ {s}
    /\ fired' = [fired EXCEPT ![s] = @ + 1]
    /\ removed' = removed \cup {s}
    /\ UNCHANGED <<conVars, tableVars, hostVars, subs, ctlQueue, bucket, knows,
                   rebound, kicked, lostKicks, moved>>

\* SetPlayerRoutingBucket, from a script.
MovePlayer(s) ==
    /\ s \in directory /\ Cardinality(moved) < MaxMoves
    /\ bucket' = [bucket EXCEPT ![s] = 1 - @]
    /\ moved' = moved \cup {s}
    /\ UNCHANGED <<conVars, directory, tokens, tableVars, hostVars, subs, ctlQueue, knows, fired,
                   rebound, removed, kicked, lostKicks>>

-----------------------------------------------------------------------------

SessNext ==
    \/ \E s \in Sources : \/ InitConnect(s) \/ Defer(s) \/ Done(s) \/ HandlersRan(s)
                          \/ ResolveIfNotDeferred(s) \/ ConnectEnds(s) \/ ConnectAborted(s)
                          \/ KickPlayer(s) \/ AdminDropPlayer(s) \/ MovePlayer(s)
    \/ \E p \in Peers : PeerConnects(p) \/ PeerDisconnects(p) \/ Quit(p)
    \/ \E p \in Peers, s \in Sources :
        \/ Handshake(p, s) \/ HandshakeRefused(p, s) \/ OnIHost(p, s) \/ OnHostingSession(p, s)
        \/ OnHostedSession(p, s) \/ OnDebugInfoToggle(p, s)
    \/ ExpireHostingGrant \/ DebugTick \/ DropSource

\* The ENet task keeps pumping: commands are handled, grants expire, a peer that
\* was told to go is reported disconnected.
SessFairness ==
    /\ WF_sessVars(DropSource) /\ WF_sessVars(ExpireHostingGrant)
    /\ \A p \in Peers : WF_sessVars(enet[p] = "closing" /\ PeerDisconnects(p))

SessSpec == SessInit /\ [][SessNext]_sessVars /\ SessFairness

-----------------------------------------------------------------------------
(* Properties.                                                              *)

\* Types of the tables, and the bound of the control queue.
SessTypeOK ==
    /\ conAt \in [Sources -> {"new", "firing", "resolving", "waiting", "accepted", "refused", "aborted"}]
    /\ entry \in [Sources -> [there : BOOLEAN, tx : BOOLEAN, deferred : BOOLEAN]]
    /\ outcome \in [Sources -> {"none", "ok", "reason"}]
    /\ directory \subseteq Sources /\ tokens \subseteq Sources /\ subs \subseteq Sources
    /\ enet \in [Peers -> {"free", "up", "closing"}]
    /\ peer_sources \in [Peers -> Sources \cup {NoSource}]
    /\ source_peers \in [Sources -> Peers \cup {NoPeer}]
    /\ session_host \in Sources \cup {NoSource} /\ grant \in Sources \cup {NoSource}
    /\ told \in [Sources -> {"none", "wait", "go", "free", "conflict"}]
    /\ knows \in [Sources -> SUBSET Sources]
    /\ ctlQueue \in Seq(Sources) /\ Len(ctlQueue) <= ControlCapacity

Undisturbed(s) == s \notin rebound \cup removed

\* The two peer tables are inverse to each other and within the directory, through
\* quits, late ENet events, kicks and refused handshakes, as long as no second
\* handshake put two peers or two tokens together.
TablesAgree ==
    \A s \in Sources : Undisturbed(s) =>
        /\ \A p \in Peers : peer_sources[p] = s <=> source_peers[s] = p
        /\ Connected(s) => s \in directory
        /\ s \in directory <=> s \in tokens

\* playerDropped fires once for a player that was in the directory and is not any
\* more, and never for one that is: a quit and the ENet event that follows it
\* count once.
DroppedOnce ==
    \A s \in Sources : Undisturbed(s) => fired[s] = IF conAt[s] = "accepted" /\ s \notin directory THEN 1 ELSE 0

\* A player is accepted only when no handler deferred the connection or a handler
\* said done(), and a refusal is never overruled: the first outcome stands.
FirstOutcomeStands ==
    [][\A s \in Sources : outcome[s] # "none" => outcome'[s] = outcome[s]]_sessVars

\* A client that was told to wait for the hosting grant is on the waiting list of
\* a grant that will be released; so nobody waits for an answer that never comes.
WaitersQueued ==
    \A s \in Sources : told[s] = "wait" => s \in waiters /\ grant # NoSource

\* Two connected clients of one bucket know each other, and nobody still shows a
\* player that left, unless scripts moved players between buckets meanwhile.
MutualKnowledge ==
    (moved = {} /\ rebound \cup removed = {}) =>
        \A s \in Sources \ BastonClients : Connected(s) =>
            /\ {c \in Sources \ BastonClients : Connected(c)} \subseteq knows[s]
            /\ knows[s] \subseteq {c \in Sources : Connected(c)}

\* The tables of the UDP task, the directory and the clients' own knowledge
\* agree, through second handshakes, kicks, moves and drops, and every drop is
\* announced once.
SessionsAgree ==
    /\ SessTypeOK /\ TablesAgree /\ DroppedOnce
    /\ WaitersQueued /\ MutualKnowledge

\* Every waiting client is answered in the end, whatever the holder of the grant
\* does: it finishes, leaves, or its five seconds run out.
WaiterAnswered == []<>(\A s \in Sources : told[s] # "wait")

\* A kick that waits in the control queue while its player is connected ends in
\* the drop path, unless a second handshake moves the player to another peer.
KickTakesEffect ==
    \A s \in Sources :
        ((\E i \in DOMAIN ctlQueue : ctlQueue[i] = s) /\ Connected(s)) ~> (fired[s] > 0 \/ s \in rebound)

\* A connection's first outcome stands, whoever waits for the hosting grant is
\* answered, and a kick ends in the drop path.
SessionsServed ==
    /\ FirstOutcomeStands /\ WaiterAnswered /\ KickTakesEffect

\* As the control API states it: a kick that was accepted ends in the drop path.
KickAlwaysDrops ==
    \A s \in Sources : s \in kicked ~> (fired[s] > 0 \/ s \in lostKicks)
=============================================================================
