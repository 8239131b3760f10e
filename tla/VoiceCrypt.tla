----------------------------- MODULE VoiceCrypt -----------------------------
(***************************************************************************)
(* The nonce bookkeeping of one client's encrypted UDP voice flow           *)
(* (baston-voice/src/crypto.rs, CryptState) with a network that loses,      *)
(* duplicates and reorders datagrams, and the client-initiated resync over  *)
(* the TCP control channel (server/control.rs, CryptSetup).                 *)
(*                                                                          *)
(* A nonce is a natural number; a datagram carries only its lowest byte.    *)
(* ByteBase is 256 in the code, HalfByte 128 and LateWindow 30.  OCB2 is    *)
(* abstracted to what the bookkeeping relies on: the three tag bytes match  *)
(* exactly when the datagram is decrypted under the nonce it was encrypted  *)
(* with.  decrypt_history keeps the second byte of the last nonce accepted  *)
(* in each slot and starts as zeros.                                        *)
(***************************************************************************)
EXTENDS Integers, FiniteSets

CONSTANTS ByteBase, HalfByte, LateWindow,
          StartNonces,   \* client nonces handed out at login
          MaxDatagrams, MaxInFlight, MaxResyncs

ASSUME CryptAssumption ==
    /\ ByteBase \in Nat \ {0, 1} /\ HalfByte * 2 = ByteBase
    /\ HalfByte \in Nat /\ LateWindow \in 1..HalfByte
    /\ StartNonces \subseteq Nat /\ MaxDatagrams \in Nat

VARIABLES start,        \* nonce at login
          encrypt_iv,   \* the client's counter
          flight,       \* nonces of datagrams in the network
          decrypt_iv, decrypt_history, written,
          good, late, lost,
          setup,        \* nonce of a CryptSetup on its way (a set of at most one)
          resyncs,
          accepted,     \* nonces decrypted so far
          again,        \* nonces decrypted a second time
          refused,      \* fresh datagrams inside the window that were refused
          rewound       \* a resync moved decrypt_iv back
cryptVars == <<start, encrypt_iv, flight, decrypt_iv, decrypt_history, written, good, late,
               lost, setup, resyncs, accepted, again, refused, rewound>>

Low(iv) == iv % ByteBase
SecondWide(iv) == iv \div ByteBase
Second(iv) == (iv \div ByteBase) % ByteBase

CryptInit ==
    /\ start \in StartNonces /\ encrypt_iv = start /\ decrypt_iv = start
    /\ decrypt_history = [b \in 0..(ByteBase - 1) |-> 0] /\ written = {}
    /\ flight = {} /\ accepted = {} /\ again = {} /\ refused = {}
    /\ good = 0 /\ late = 0 /\ lost = 0
    /\ setup = {} /\ resyncs = 0 /\ rewound = FALSE

\* The client encrypts: the counter moves first.
Encrypt ==
    /\ encrypt_iv - start < MaxDatagrams /\ Cardinality(flight) < MaxInFlight
    /\ encrypt_iv' = encrypt_iv + 1 /\ flight' = flight \cup {encrypt_iv + 1}
    /\ UNCHANGED <<start, decrypt_iv, decrypt_history, written, good, late, lost, setup, resyncs,
                   accepted, again, refused, rewound>>

LoseDatagram(p) ==
    /\ flight' = flight \ {p}
    /\ UNCHANGED <<start, encrypt_iv, decrypt_iv, decrypt_history, written, good, late, lost,
                   setup, resyncs, accepted, again, refused, rewound>>

\* The distance from decrypt_iv the low byte stands for.
DiffUnwrapped(p) == Low(p) - Low(decrypt_iv)
Diff(p) ==
    LET d == Low(p) - Low(decrypt_iv)
    IN  IF d > HalfByte THEN d - ByteBase ELSE IF d < -HalfByte THEN d + ByteBase ELSE d
InOrder(p) == Low(decrypt_iv + 1) = Low(p)
IsLate(p) == ~InOrder(p) /\ Diff(p) > -LateWindow /\ Diff(p) < 0
Guess(p) == IF InOrder(p) THEN decrypt_iv + 1 ELSE decrypt_iv + Diff(p)

\* The replay guard is consulted for out-of-order datagrams only.
NotReplayedEver(p) == TRUE
NotReplayed(p) == InOrder(p) \/ decrypt_history[Low(Guess(p))] # Second(Guess(p))
TagIgnored(p) == TRUE
TagMatches(p) == Guess(p) = p
Decrypts(p) == /\ InOrder(p) \/ IsLate(p) \/ Diff(p) > 0
               /\ NotReplayed(p) /\ TagMatches(p)

\* What a successful decrypt commits: a late datagram leaves the nonce where it was.
AdvanceAlways(p) == decrypt_iv' = Guess(p)
Advance(p) == decrypt_iv' = IF IsLate(p) THEN decrypt_iv ELSE Guess(p)
LostByGap(p) == Guess(p) - decrypt_iv
Lost(p) == IF InOrder(p) \/ IsLate(p) THEN 0 ELSE Diff(p) - 1

\* A datagram a reader of the code would expect to be accepted: never seen, within
\* reach of the byte arithmetic, its slot not mistaken for a replay.
Acceptable(p) == /\ p \notin accepted
                 /\ p - decrypt_iv \in ((1 - LateWindow)..(HalfByte - 1)) \ {0}
                 /\ Low(p) \in written => decrypt_history[Low(p)] # Second(p)
                 /\ Low(p) \in written \/ Second(p) # 0

\* CryptState::decrypt on an arriving datagram, which may arrive again.
Decrypt(p) ==
    /\ IF Decrypts(p)
       THEN /\ Advance(p)
            /\ decrypt_history' = [decrypt_history EXCEPT ![Low(p)] = Second(p)]
            /\ written' = written \cup {Low(p)}
            /\ good' = good + 1 /\ lost' = lost + Lost(p)
            /\ late' = late + (IF IsLate(p) THEN 1 ELSE 0)
            /\ accepted' = accepted \cup {p}
            /\ again' = IF p \in accepted THEN again \cup {p} ELSE again
            /\ UNCHANGED refused
       ELSE /\ refused' = IF Acceptable(p) THEN refused \cup {p} ELSE refused
            /\ UNCHANGED <<decrypt_iv, decrypt_history, written, good, late, lost, accepted, again>>
    /\ flight' \in {flight, flight \ {p}}
    /\ UNCHANGED <<start, encrypt_iv, setup, resyncs, rewound>>

\* The client asks for a resync with its current counter; the frame travels over TCP.
Resync ==
    /\ resyncs < MaxResyncs /\ setup = {}
    /\ setup' = {encrypt_iv} /\ resyncs' = resyncs + 1
    /\ UNCHANGED <<start, encrypt_iv, flight, decrypt_iv, decrypt_history, written, good, late,
                   lost, accepted, again, refused, rewound>>

\* control.rs, CryptSetup with a 16-byte nonce: adopted as it is.
AdoptNonce(nonce) ==
    /\ setup = {nonce} /\ setup' = {}
    /\ decrypt_iv' = nonce
    /\ rewound' = (rewound \/ nonce < decrypt_iv)
    /\ UNCHANGED <<start, encrypt_iv, flight, decrypt_history, written, good, late, lost, resyncs,
                   accepted, again, refused>>

CryptNext ==
    \/ Encrypt \/ Resync
    \/ \E p \in flight : LoseDatagram(p) \/ Decrypt(p)
    \/ \E nonce \in setup : AdoptNonce(nonce)
CryptSpec == CryptInit /\ [][CryptNext]_cryptVars

\* The type of the flow's state; the second byte of a nonce fits its history slot.
CryptTypeOK ==
    /\ encrypt_iv \in start..(start + MaxDatagrams) /\ flight \subseteq start..encrypt_iv
    /\ decrypt_iv \in Nat /\ {good, late, lost} \subseteq Nat
    /\ decrypt_history \in [0..(ByteBase - 1) -> 0..(ByteBase - 1)]
    /\ Cardinality(setup) <= 1

\* However datagrams are lost, duplicated and reordered, no voice datagram is
\* decrypted twice, as long as no resync moved the nonce back: in-order datagrams
\* are not looked up in the history.
AcceptedOnce == ~rewound => again = {}

\* crypto.rs:228: decrypt answers None for a replay, resync or not.
ReplaysRefused == again = {}

\* The nonce the server tracks is never ahead of the client's own counter: a low
\* byte that wraps is never taken for a future datagram.
NonceBehind == decrypt_iv <= encrypt_iv

\* A datagram that was never seen and lies within the window the low byte can
\* express is accepted, unless its history slot looks like a replay or a resync
\* adopted its very nonce.
FreshAccepted == refused = {}

\* The statistics Ping reports add up: every nonce the server moved past was
\* received in turn or counted as lost, while no resync was adopted.
LossAccounted == resyncs = 0 => decrypt_iv = start + (good - late) + lost
\* The nonce bookkeeping is right under loss, duplication and reordering: no
\* datagram twice, the newest first seen is accepted, and losses are counted
\* once.
NoncesHonest ==
    /\ CryptTypeOK /\ AcceptedOnce /\ NonceBehind
    /\ FreshAccepted /\ LossAccounted
============================================================================
