------------------------------- MODULE Voice -------------------------------
(***************************************************************************)
(* The voice server: one mutex-protected VoiceState shared by the control   *)
(* connections (one task each), the UDP receive loop and the game server's  *)
(* natives (baston-voice/src/server, session.rs, channel.rs, target.rs,     *)
(* router.rs).  A session id is the player's netId; a client authenticates  *)
(* as "[netId]", once per connection: <<n, k>> is the k-th one of player n.  *)
(* Every locked section is one action.  The login burst is sent after the   *)
(* lock is released: Authenticate and SendBurst are two steps.              *)
(*                                                                          *)
(* Frames go through unbounded channels to a TCP writer and are never lost  *)
(* or reordered: `roster' is what the client of a connection knows once it  *)
(* has read everything queued for it.                                       *)
(***************************************************************************)
EXTENDS Naturals, FiniteSets

CONSTANTS Nets,        \* net ids of players
          Addrs,       \* UDP source addresses
          GameChannels,\* channel ids a script or a client may use
          NoConn, NoAddr, NoNet, Nowhere,
          Reconnecting,\* players that open a second connection
          MaxRequests  \* client requests and native calls that change settings

ASSUME VoiceAssumption ==
    /\ Reconnecting \subseteq Nets
    /\ NoConn \notin (Nets \X {1}) \union (Reconnecting \X {2})
    /\ NoAddr \notin Addrs /\ NoNet \notin Nets
    /\ Nowhere \notin {0} \union GameChannels

Root == 0
Channels == {Root} \union GameChannels
Conns == (Nets \X {1}) \union (Reconnecting \X {2})

VARIABLES conn,      \* control connections: idle, open, burst, live, closed
          burst,     \* login burst computed under the lock, not yet sent
          sessions,  \* SessionRegistry: [n -> mute, self_deaf, targets] of the present
          channels,  \* ChannelStore: ids that exist
          members, listeners,
          crypt,     \* whose key material is installed for n
          control_tx,\* the connection whose writer n's frames go to
          udp_addr, addr_index,
          roster,    \* what the client of a connection shows: [n -> channel]
          requests,  \* settings changed so far
          latest,    \* the connection of a player that authenticated last
          overtaken, \* a broadcast was queued between c's snapshot and its burst
          outlived,  \* players torn down while a connection of theirs was open
          dropped,   \* players the game server dropped from voice
          stolen     \* players torn down by a connection that had been replaced
voiceVars == <<conn, burst, sessions, channels, members, listeners, crypt, control_tx,
               udp_addr, addr_index, roster, requests, latest, overtaken, outlived, dropped, stolen>>
places == <<channels, members, listeners>>
tables == <<sessions, crypt, control_tx>>
flows == <<udp_addr, addr_index>>
faultsMet == <<requests, latest, outlived, dropped, stolen>>

Present == {n \in Nets : sessions[n] # {}}
Fresh == {[mute |-> FALSE, self_deaf |-> FALSE, targets |-> {}]}
In(n) == {ch \in channels : n \in members[ch]}
Established == {c \in Conns : control_tx[c[1]] = c}

VoiceInit ==
    /\ conn = [c \in Conns |-> "idle"]
    /\ burst = [c \in Conns |-> [n \in Nets |-> Nowhere]]
    /\ roster = [c \in Conns |-> [n \in Nets |-> Nowhere]]
    /\ sessions = [n \in Nets |-> {}]
    /\ channels = {Root}
    /\ members = [ch \in Channels |-> {}] /\ listeners = [ch \in Channels |-> {}]
    /\ crypt = [n \in Nets |-> NoConn] /\ control_tx = [n \in Nets |-> NoConn]
    /\ udp_addr = [n \in Nets |-> NoAddr] /\ addr_index = [a \in Addrs |-> NoNet]
    /\ requests = 0 /\ latest = [n \in Nets |-> NoConn] /\ overtaken = {} /\ outlived = {} /\ dropped = {} /\ stolen = {}

\* broadcast_control: the frame `n is in ch' (Nowhere: UserRemove) is queued for
\* every established connection of `to'.
Broadcast(to, n, ch) ==
    /\ roster' = [c \in Conns |-> IF c \in to THEN [roster[c] EXCEPT ![n] = ch] ELSE roster[c]]
    /\ overtaken' = overtaken \union {c \in to : conn[c] = "burst"}

Accept(c) ==
    /\ conn[c] = "idle"
    /\ conn' = [conn EXCEPT ![c] = "open"]
    /\ UNCHANGED <<burst, tables, places, flows, roster, overtaken, faultsMet>>

\* join: leave the previous channel, enter the new one.
JoinedBoth(n, ch) == [members EXCEPT ![ch] = @ \union {n}]
Joined(n, ch) == [x \in Channels |-> IF x = ch THEN members[x] \union {n} ELSE members[x] \ {n}]

\* crypt.insert, control_tx.insert: the newest connection replaces the previous one.
OldWriter(n, c) == IF control_tx[n] = NoConn THEN c ELSE control_tx[n]
Writer(n, c) == c

\* handle_authenticate, under the lock: SessionRegistry.insert keeps an existing
\* session; the key material and the writer are this connection's.
Authenticate(c) ==
    LET n == c[1] IN
        /\ conn[c] = "open"
        /\ sessions' = [sessions EXCEPT ![n] = IF @ = {} THEN Fresh ELSE @]
        /\ members' = Joined(n, Root)
        /\ crypt' = [crypt EXCEPT ![n] = Writer(n, c)]
        /\ control_tx' = [control_tx EXCEPT ![n] = Writer(n, c)]
        /\ burst' = [burst EXCEPT ![c] =
               [m \in Nets |-> IF sessions'[m] # {} /\ \E ch \in channels : m \in members'[ch]
                               THEN CHOOSE ch \in channels : m \in members'[ch] ELSE Nowhere]]
        /\ conn' = [conn EXCEPT ![c] = "burst"]
        /\ Broadcast({d \in Established : d[1] # n}, n, Root)
        /\ latest' = [latest EXCEPT ![n] = c]
        /\ UNCHANGED <<channels, listeners, flows, requests, outlived, dropped, stolen>>

\* The login burst (CryptSetup, channels, users, ServerSync) goes out unlocked.
SendBurst(c) ==
    /\ conn[c] = "burst"
    /\ conn' = [conn EXCEPT ![c] = "live"]
    /\ roster' = [roster EXCEPT ![c] =
           [n \in Nets |-> IF burst[c][n] # Nowhere THEN burst[c][n] ELSE roster[c][n]]]
    /\ burst' = [burst EXCEPT ![c] = [n \in Nets |-> Nowhere]]
    /\ UNCHANGED <<tables, places, flows, overtaken, faultsMet>>

Request == requests < MaxRequests /\ requests' = requests + 1
lastly == <<latest, outlived, dropped, stolen>>

\* handle_user_state with a channel: created permanent when unknown, then joined,
\* whether or not the session still exists.
MoveTo(c, ch) ==
    LET n == c[1] IN
    /\ conn[c] = "live" /\ Request
    /\ channels' = channels \union {ch}
    /\ members' = Joined(n, ch)
    /\ Broadcast(Established, n, ch)
    /\ UNCHANGED <<conn, burst, tables, listeners, flows, lastly>>

\* handle_user_state with listening_channel_add / _remove: only existing channels.
Listen(c, ch) ==
    /\ conn[c] = "live" /\ ch \in channels /\ Request
    /\ \/ listeners' = [listeners EXCEPT ![ch] = @ \union {c[1]}]
       \/ listeners' = [listeners EXCEPT ![ch] = @ \ {c[1]}]
    /\ UNCHANGED <<conn, burst, tables, channels, members, flows, roster, overtaken, lastly>>

\* handle_user_state with self_deaf, handle_voice_target, MUMBLE_SET_PLAYER_MUTED:
\* nothing without a session.
SetSession(n, s) ==
    /\ Request
    /\ sessions' = [sessions EXCEPT ![n] = {s}]
    /\ UNCHANGED <<conn, burst, crypt, control_tx, places, flows, roster, latest, overtaken, outlived, dropped, stolen>>
SelfDeaf(c) ==
    /\ conn[c] = "live"
    /\ \E s \in sessions[c[1]] : SetSession(c[1], [s EXCEPT !.self_deaf = ~@])
VoiceTarget(c, ts) ==
    /\ conn[c] = "live"
    /\ \E s \in sessions[c[1]] : SetSession(c[1], [s EXCEPT !.targets = ts])
SetMuted(n) == \E s \in sessions[n] : SetSession(n, [s EXCEPT !.mute = ~@])

\* MUMBLE_CREATE_CHANNEL.
CreateChannel(ch) ==
    /\ ch \notin channels /\ Request
    /\ channels' = channels \union {ch}
    /\ UNCHANGED <<conn, burst, tables, members, listeners, flows, roster, overtaken, lastly>>

\* drop_session, and what else both teardown paths clear once the session was found.
KeepListens(n) == listeners' = listeners
ForgetListens(n) == listeners' = [ch \in Channels |-> listeners[ch] \ {n}]
KeepIndex(n) == addr_index' = addr_index
ForgetAddress(n) == addr_index' = [a \in Addrs |-> IF a = udp_addr[n] THEN NoNet ELSE addr_index[a]]
Without(n) ==
    /\ sessions' = [sessions EXCEPT ![n] = {}]
    /\ members' = [ch \in Channels |-> members[ch] \ {n}] /\ ForgetListens(n)
    /\ crypt' = [crypt EXCEPT ![n] = NoConn] /\ control_tx' = [control_tx EXCEPT ![n] = NoConn]
    /\ udp_addr' = [udp_addr EXCEPT ![n] = NoAddr] /\ ForgetAddress(n)
    /\ UNCHANGED channels

\* The UserRemove broadcast; the client of c itself is gone.
NoUserRemove(n, c) ==
    /\ roster' = [roster EXCEPT ![c] = [m \in Nets |-> Nowhere]]
    /\ overtaken' = overtaken \ {c}
UserRemove(n, c) ==
    LET to == {d \in Established : d[1] # n} IN
    /\ roster' = [d \in Conns |-> IF d = c THEN [m \in Nets |-> Nowhere]
                                 ELSE IF d \in to THEN [roster[d] EXCEPT ![n] = Nowhere] ELSE roster[d]]
    /\ overtaken' = (overtaken \union {d \in to : conn[d] = "burst"}) \ {c}
Outlives(n, rest) ==
    outlived' = IF \E c \in rest : c[1] = n /\ conn[c] \in {"burst", "live"}
                THEN outlived \union {n} ELSE outlived

\* A connection ends (EOF, error, protocol error): teardown of its session.
HangUp(c) ==
    LET n == c[1] IN
    /\ conn[c] \in {"open", "live"}
    /\ conn' = [conn EXCEPT ![c] = "closed"]
    /\ IF conn[c] = "live" /\ n \in Present
       THEN /\ Without(n) /\ Outlives(n, Conns \ {c}) /\ UserRemove(n, c)
            /\ stolen' = IF control_tx[n] # c THEN stolen \union {n} ELSE stolen
       ELSE /\ roster' = [roster EXCEPT ![c] = [m \in Nets |-> Nowhere]]
            /\ overtaken' = overtaken \ {c}
            /\ UNCHANGED <<tables, places, flows, outlived, stolen>>
    /\ UNCHANGED <<burst, requests, latest, dropped>>

\* VoiceHandle::on_player_dropped, from the game server.
OnPlayerDropped(n) ==
    /\ n \in Present
    /\ Without(n) /\ Broadcast({c \in Established : c[1] # n}, n, Nowhere)
    /\ Outlives(n, Conns) /\ dropped' = dropped \union {n}
    /\ UNCHANGED <<conn, burst, requests, latest, stolen>>

\* decrypt_from: client n sends from address a under the key of its connection c.
\* A bound address only tries its session; an unknown one tries every session.
Binds(n, a) ==
    /\ udp_addr' = [udp_addr EXCEPT ![n] = a]
    /\ addr_index' = [x \in Addrs |-> CASE x = a -> n
                                        [] x = udp_addr[n] /\ x # a -> NoNet
                                        [] OTHER -> addr_index[x]]
Datagram(c, a) ==
    /\ conn[c] = "live" /\ addr_index[a] = NoNet /\ crypt[c[1]] = c
    /\ Binds(c[1], a)
    /\ UNCHANGED <<conn, burst, tables, places, roster, overtaken, faultsMet>>

\* router::resolve: a muted speaker is silent; normal talk reaches the members and
\* listeners of the speaker's channel, a whisper its targets; never oneself, never
\* a session that is gone or deaf.
CanHearGone(m) == \A s \in sessions[m] : ~s.self_deaf
CanHear(m) == \E s \in sessions[m] : ~s.self_deaf
Scope(n, kind) ==
    CASE kind = "normal"  -> UNION {members[ch] \union listeners[ch] : ch \in In(n)}
      [] kind = "whisper" -> UNION {s.targets : s \in sessions[n]}
resolve(n, kind) ==
    IF \E s \in sessions[n] : ~s.mute THEN {m \in Scope(n, kind) \ {n} : CanHear(m)} ELSE {}

----------------------------------------------------------------------------
VoiceNext ==
    \/ \E c \in Conns : \/ Accept(c) \/ Authenticate(c) \/ SendBurst(c) \/ SelfDeaf(c)
                        \/ HangUp(c)
                        \/ \E ch \in Channels : MoveTo(c, ch) \/ Listen(c, ch)
                        \/ \E ts \in SUBSET Nets : VoiceTarget(c, ts)
                        \/ \E a \in Addrs : Datagram(c, a)
    \/ \E n \in Nets : SetMuted(n) \/ OnPlayerDropped(n)
    \/ \E ch \in GameChannels : CreateChannel(ch)
VoiceSpec == VoiceInit /\ [][VoiceNext]_voiceVars

\* The type of the voice server's state.
VoiceTypeOK ==
    /\ conn \in [Conns -> {"idle", "open", "burst", "live", "closed"}]
    /\ burst \in [Conns -> [Nets -> Channels \union {Nowhere}]]
    /\ roster \in [Conns -> [Nets -> Channels \union {Nowhere}]]
    /\ \A n \in Nets : Cardinality(sessions[n]) <= 1 /\ Cardinality(In(n)) <= 1
    /\ channels \subseteq Channels
    /\ crypt \in [Nets -> Conns \union {NoConn}] /\ control_tx \in [Nets -> Conns \union {NoConn}]
    /\ udp_addr \in [Nets -> Addrs \union {NoAddr}] /\ addr_index \in [Addrs -> Nets \union {NoNet}]

\* The six tables teardown clears one after the other agree at every unlock: the
\* sessions, their key material and their writers are of the same players, and the
\* two UDP address maps are inverse to each other and name present players only.
VoiceTablesAgree ==
    /\ \A n \in Nets :
        /\ n \in Present <=> control_tx[n] # NoConn
        /\ crypt[n] = control_tx[n]
        /\ udp_addr[n] # NoAddr => n \in Present /\ addr_index[udp_addr[n]] = n
    /\ \A a \in Addrs : addr_index[a] # NoNet => udp_addr[addr_index[a]] = a

\* Channel membership and listening belong to sessions: a player without a session
\* is in no channel, unless one of its connections outlived the session (the game
\* server dropped the player, or a replaced connection tore the session down):
\* handle_user_state joins and listens without looking at the session.
NoGhostMembers ==
    \A n \in Nets \ (Present \union outlived) :
        \A ch \in Channels : n \notin members[ch] \union listeners[ch]

\* Whatever audio is routed reaches a connection that is still open, under the key
\* that connection was given at login: resolve never names a session whose writer
\* or key belongs to a closed connection.
AudienceServed ==
    \A n \in Nets : \A m \in resolve(n, "normal") \union resolve(n, "whisper") :
        /\ crypt[m] = control_tx[m]
        /\ control_tx[m] \in Conns /\ conn[control_tx[m]] \in {"burst", "live"}

\* What a client shows is what the server routes by: the users and channels a
\* logged-in client knows are those of the server, unless a broadcast was queued
\* before its login burst or some session was torn down under a live connection.
RosterHonest ==
    outlived = {} =>
        \A c \in Established \ overtaken : conn[c] = "live" =>
            \A n \in Nets : roster[c][n] = (IF In(n) = {} THEN Nowhere
                                           ELSE CHOOSE ch \in channels : n \in members[ch])

\* The newest logged-in connection of a player is the one that is served, unless
\* the game server dropped the player or an older connection's teardown took the
\* session away.
NewestServed ==
    \A c \in Conns : conn[c] = "live" /\ latest[c[1]] = c /\ c[1] \notin dropped \union stolen
        => control_tx[c[1]] = c

\* Sessions, channels, addresses and what clients know agree, through logins
\* that replace each other, teardowns and drops by the game server, and whoever
\* may hear is served.
VoiceAgrees ==
    /\ VoiceTypeOK /\ VoiceTablesAgree /\ NoGhostMembers
    /\ AudienceServed /\ RosterHonest /\ NewestServed

\* control.rs:298: a reconnect replaces the previous session, so the end of the
\* stale socket leaves the newest connection served.
ReconnectReplaces ==
    \A c \in Conns : conn[c] = "live" /\ latest[c[1]] = c /\ c[1] \notin dropped
        => control_tx[c[1]] = c
============================================================================
