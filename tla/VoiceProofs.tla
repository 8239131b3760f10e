---------------------------- MODULE VoiceProofs -----------------------------
(****************************************************************************)
(* Proofs about voice: the nonces of an encrypted flow, and the server's tables,*)
(* for any players, connections, channels, addresses and sizes of the window.*)
(****************************************************************************)
EXTENDS Voice, VoiceCrypt, FiniteSetTheorems, TLAPS

\* A step goes to Zenon unless it names another prover.
USE ZenonT(60)

-----------------------------------------------------------------------------
(* The nonces of a flow. *)

\* Division with remainder.
LEMMA Parts ==
    ASSUME NEW B \in Nat \ {0}, NEW p \in Int
    PROVE  p \div B \in Int /\ p % B \in 0..(B - 1) /\ p % B = p - B * (p \div B)
<1>1. B \in Int /\ B > 0 /\ p \in Int
  BY SMTT(30)
<1>2. p % B = p - B * (p \div B)
  BY SMTT(30), <1>1
<1>3. p \div B \in Int /\ p % B \in Int /\ p % B < B /\ p % B >= 0
  BY SMTT(30), <1>1
<1>4. p % B \in 0..(B - 1)
  BY SMTT(30), <1>1, <1>3
<1> QED
  BY <1>2, <1>3, <1>4

\* A multiple of B less than B away from 0 is 0, and one less than 2 B away is
\* at most one step off.
LEMMA Multiples ==
    ASSUME NEW B \in Nat \ {0}, NEW k \in Int
    PROVE  /\ k >= 1 => B * k >= B /\ (k >= 2 => B * k >= 2 * B)
           /\ k <= -1 => B * k <= -B /\ (k <= -2 => B * k <= -(2 * B))
           /\ B * k \in Int /\ (k = 0 => B * k = 0) /\ (k = 1 => B * k = B) /\ (k = -1 => B * k = -B)
<1>1. k >= 1 => B * k >= B
  BY SMTT(30)
<1>2. k >= 2 => B * k >= 2 * B
  BY SMTT(30)
<1>3. k <= -1 => B * k <= -B
  BY SMTT(30)
<1>4. k <= -2 => B * k <= -(2 * B)
  BY SMTT(30)
<1>5. B * k \in Int /\ (k = 0 => B * k = 0) /\ (k = 1 => B * k = B) /\ (k = -1 => B * k = -B)
  BY SMTT(30)
<1> QED
  BY <1>1, <1>2, <1>3, <1>4, <1>5

\* Two nonces less than a byte apart that share their low byte are one.
LEMMA SameSlot ==
    ASSUME NEW B \in Nat \ {0}, NEW p \in Nat, NEW q \in Nat, NEW a \in Int, NEW b \in Int,
           NEW u \in Int, u = p - B * a, u = q - B * b, p - q < B, q - p < B
    PROVE  p = q
<1>1. PICK k \in Int : k = a - b
  BY SMTT(30)
<1>2. PICK m \in Int : m = B * k
  BY Multiples
<1>3. p - q = B * k
  BY SMTT(30), <1>1
<1>4. p - q = m
  BY <1>2, <1>3
<1>5. (k >= 1 => m >= B) /\ (k <= -1 => m <= -B) /\ (k = 0 => m = 0)
  BY <1>2, Multiples
<1> QED
  BY SMTT(30), <1>4, <1>5

\* What the sizes of the nonce arithmetic have in common.
LEMMA Sizes ==
    /\ ByteBase \in Nat \ {0} /\ HalfByte \in Nat \ {0} /\ ByteBase = 2 * HalfByte
    /\ LateWindow \in Nat /\ LateWindow >= 1 /\ LateWindow <= HalfByte /\ HalfByte < ByteBase
    /\ MaxDatagrams \in Nat /\ StartNonces \subseteq Nat
<1>1. ByteBase \in Nat \ {0, 1} /\ HalfByte * 2 = ByteBase /\ HalfByte \in Nat /\ LateWindow \in 1..HalfByte
  BY CryptAssumption DEF CryptAssumption
<1>2. /\ ByteBase \in Nat \ {0} /\ HalfByte \in Nat \ {0} /\ ByteBase = 2 * HalfByte
      /\ LateWindow \in Nat /\ LateWindow >= 1 /\ LateWindow <= HalfByte /\ HalfByte < ByteBase
  BY SMTT(30), <1>1
<1> QED
  BY <1>2, CryptAssumption DEF CryptAssumption

\* The difference d of two low bytes, wrapped.
Wrapped(d) == IF d > HalfByte THEN d - ByteBase ELSE IF d < -HalfByte THEN d + ByteBase ELSE d

\* u is the low byte of the nonce p, and a the bytes above it.
Splits(p, a, u) == p \in Nat /\ a \in Int /\ u \in 0..(ByteBase - 1) /\ u = p - ByteBase * a

\* Nonces less than half a byte apart.
Near(p, q) == p - q < HalfByte /\ q - p < HalfByte

\* The difference of the low bytes u and v stands for that of p and q.
StandsFor(u, v, p, q) == Wrapped(u - v) = p - q

\* The difference of the low bytes, wrapped, is the difference of nonces that
\* are less than half a byte apart.
LEMMA Wraps ==
    ASSUME NEW p, NEW q, NEW a, NEW b, NEW u, NEW v, Splits(p, a, u), Splits(q, b, v), Near(p, q)
    PROVE  StandsFor(u, v, p, q)
<1> USE Sizes DEF Splits, Near
<1>0. PICK B \in Nat \ {0} : B = ByteBase
  OBVIOUS
<1>1. PICK k \in Int : k = a - b
  BY SMTT(30)
<1>2. PICK m \in Int : m = B * k
  BY Multiples
<1>3. p - q = B * k + (u - v)
  BY SMTT(30), <1>0, <1>1
<1>4. p - q = m + (u - v)
  BY <1>2, <1>3
<1>5. PICK d \in Int : d = u - v /\ d < B /\ d > -B /\ p - q = m + d
  BY SMTT(30), <1>0, <1>4
<1>6. m < 2 * B /\ m > -(2 * B)
  BY SMTT(30), <1>0, <1>5
<1>7. /\ k >= 2 => m >= 2 * B
      /\ k <= -2 => m <= -(2 * B)
      /\ (k = 0 => m = 0) /\ (k = 1 => m = B) /\ (k = -1 => m = -B)
  <2>1. k >= 2 => k >= 1
    BY SMTT(30)
  <2>2. k <= -2 => k <= -1
    BY SMTT(30)
  <2> QED
    BY <1>2, <2>1, <2>2, Multiples
<1>8. m \in {-B, 0, B}
  BY SMTT(30), <1>6, <1>7
<1>9. Wrapped(d) = p - q
  BY SMTT(30), <1>0, <1>5, <1>8 DEF Wrapped
<1>10. Wrapped(u - v) = p - q
  BY <1>5, <1>9
<1> QED
  BY <1>10 DEF StandsFor

\* The two bytes of a nonce the bookkeeping looks at.
LEMMA Bytes ==
    ASSUME NEW p \in Nat
    PROVE  /\ Low(p) \in 0..(ByteBase - 1) /\ Low(p) \in Int
           /\ Second(p) \in 0..(ByteBase - 1)
           /\ \E a \in Int : Low(p) = p - ByteBase * a
<1>1. p \in Int
  BY SMTT(30)
<1>2. p \div ByteBase \in Int /\ Low(p) \in 0..(ByteBase - 1) /\ Low(p) = p - ByteBase * (p \div ByteBase)
  BY <1>1, Sizes, Parts DEF Low
<1>3. Second(p) \in 0..(ByteBase - 1)
  BY <1>2, Sizes, Parts DEF Second
<1>4. Low(p) \in Int
  BY SMTT(30), <1>2
<1> QED
  BY <1>2, <1>3, <1>4

\* Nonces less than a byte apart have slots of their own.
LEMMA OwnSlot ==
    ASSUME NEW p \in Nat, NEW q \in Nat, Low(p) = Low(q), p - q < ByteBase, q - p < ByteBase
    PROVE  p = q
<1>1. PICK a \in Int : Low(p) = p - ByteBase * a
  BY Bytes
<1>2. PICK b \in Int : Low(p) = q - ByteBase * b
  BY Bytes
<1>3. PICK u \in Int : u = Low(p)
  BY Bytes
<1>4. u = p - ByteBase * a /\ u = q - ByteBase * b
  BY <1>1, <1>2, <1>3
<1> QED
  BY <1>4, Sizes, SameSlot

\* The distance the low byte stands for.
LEMMA Distance ==
    ASSUME NEW p \in Nat, decrypt_iv \in Nat
    PROVE  /\ Diff(p) \in Int
           /\ p - decrypt_iv < HalfByte /\ decrypt_iv - p < HalfByte => Diff(p) = p - decrypt_iv
<1>1. PICK a \in Int, u \in 0..(ByteBase - 1) : u = Low(p) /\ u = p - ByteBase * a
  BY Bytes
<1>2. PICK q \in Nat : q = decrypt_iv
  OBVIOUS
<1>3. PICK b \in Int, v \in 0..(ByteBase - 1) : v = Low(q) /\ v = q - ByteBase * b
  BY Bytes
<1>4. Diff(p) = Wrapped(u - v)
  BY <1>1, <1>2, <1>3 DEF Diff, Wrapped
<1>5. Diff(p) \in Int
  BY SMTT(30), <1>4, Sizes DEF Wrapped
<1>6. ASSUME p - q < HalfByte, q - p < HalfByte PROVE Diff(p) = p - q
  <2>1. Splits(p, a, u)
    BY <1>1 DEF Splits
  <2>2. Splits(q, b, v)
    BY <1>3 DEF Splits
  <2>3. Near(p, q)
    BY <1>6 DEF Near
  <2>4. StandsFor(u, v, p, q)
    BY <2>1, <2>2, <2>3, Wraps
  <2> QED
    BY <1>4, <2>4 DEF StandsFor
<1> QED
  BY <1>2, <1>5, <1>6

\* The values of the variables.
CryptTypes ==
    /\ start \in Nat /\ encrypt_iv \in Nat /\ encrypt_iv >= start /\ encrypt_iv <= start + MaxDatagrams
    /\ flight \subseteq start..encrypt_iv
    /\ decrypt_iv \in Nat /\ good \in Nat /\ late \in Nat /\ lost \in Nat /\ resyncs \in Nat
    /\ decrypt_history \in [0..(ByteBase - 1) -> 0..(ByteBase - 1)]
    /\ accepted \subseteq Nat /\ rewound \in BOOLEAN

\* A setup on its way carries a counter the client has had.
SetupAgrees == setup = {} \/ (resyncs > 0 /\ \E n \in Nat : setup = {n} /\ n <= encrypt_iv)

\* A slot nothing was written to is still zero.
Blank == \A b \in 0..(ByteBase - 1) : b \notin written => decrypt_history[b] = 0

\* An accepted nonce lies behind the tracked one, and its slot remembers it as
\* long as it could pass for a late datagram.
Remembered(p) == /\ p <= decrypt_iv
                 /\ decrypt_iv - p < LateWindow => decrypt_history[Low(p)] = Second(p)
\* All of it is remembered while the nonce never moved back.
Seen == ~rewound => \A p \in accepted : Remembered(p)

\* The inductive invariant.
CryptInv ==
    /\ CryptTypes /\ SetupAgrees /\ Blank /\ Seen
    /\ AcceptedOnce /\ NonceBehind /\ FreshAccepted /\ LossAccounted

\* The inductive invariant implies the property.
LEMMA CryptHonest == CryptInv => NoncesHonest
<1> SUFFICES ASSUME CryptInv PROVE NoncesHonest
  OBVIOUS
<1>1. CryptTypes
  BY DEF CryptInv
<1>2. encrypt_iv \in start..(start + MaxDatagrams)
  BY SMTT(30), <1>1, Sizes DEF CryptTypes
<1>3. Cardinality(setup) <= 1
  <2>1. CASE setup = {}
    <3>1. Cardinality(setup) = 0
      BY <2>1, FS_EmptySet
    <3> QED
      BY SMTT(30), <3>1
  <2>2. CASE \E n \in Nat : setup = {n}
    <3>1. Cardinality(setup) = 1
      BY <2>2, FS_Singleton
    <3> QED
      BY SMTT(30), <3>1
  <2> QED
    BY <2>1, <2>2 DEF CryptInv, SetupAgrees
<1>4. CryptTypeOK
  BY <1>1, <1>2, <1>3 DEF CryptTypes, CryptTypeOK
<1> QED
  BY <1>4 DEF CryptInv, NoncesHonest

\* It holds at login.
LEMMA CryptStart == CryptInit => CryptInv
<1> SUFFICES ASSUME CryptInit PROVE CryptInv
  OBVIOUS
<1>1. start \in Nat /\ encrypt_iv = start /\ decrypt_iv = start
  BY Sizes DEF CryptInit
<1>2. encrypt_iv >= start /\ encrypt_iv <= start + MaxDatagrams /\ decrypt_iv <= encrypt_iv
  BY SMTT(30), <1>1, Sizes
<1>3. decrypt_history \in [0..(ByteBase - 1) -> 0..(ByteBase - 1)]
  <2>1. 0 \in 0..(ByteBase - 1)
    BY SMTT(30), Sizes
  <2> QED
    BY <2>1 DEF CryptInit
<1>4. good \in Nat /\ late \in Nat /\ lost \in Nat /\ resyncs \in Nat /\ start = start + (good - late) + lost
  BY SMTT(30), <1>1 DEF CryptInit
<1>5. CryptTypes
  BY <1>1, <1>2, <1>3, <1>4 DEF CryptTypes, CryptInit
<1>6. Blank /\ Seen /\ SetupAgrees
  BY DEF Blank, Seen, SetupAgrees, CryptInit
<1>7. AcceptedOnce /\ NonceBehind /\ FreshAccepted
  BY <1>2 DEF AcceptedOnce, NonceBehind, FreshAccepted, CryptInit
<1>8. LossAccounted
  BY <1>1, <1>4 DEF LossAccounted
<1> QED
  BY <1>5, <1>6, <1>7, <1>8 DEF CryptInv

\* The client encrypts, or a datagram is lost.
LEMMA SendStep ==
    ASSUME CryptInv, Encrypt \/ \E p \in flight : LoseDatagram(p)
    PROVE  CryptInv'
<1>1. UNCHANGED <<start, decrypt_iv, decrypt_history, written, good, late, lost, setup, resyncs,
                  accepted, again, refused, rewound>>
  BY DEF Encrypt, LoseDatagram
<1>2. CryptTypes
  BY DEF CryptInv
<1>3. /\ encrypt_iv' \in Nat /\ encrypt_iv' >= start /\ encrypt_iv' <= start + MaxDatagrams
      /\ encrypt_iv <= encrypt_iv'
  <2>1. CASE Encrypt
    <3>1. encrypt_iv - start < MaxDatagrams /\ encrypt_iv' = encrypt_iv + 1
      BY <2>1 DEF Encrypt
    <3> QED
      BY SMTT(30), <3>1, <1>2, Sizes DEF CryptTypes
  <2>2. CASE \E p \in flight : LoseDatagram(p)
    <3>1. encrypt_iv' = encrypt_iv
      BY <2>2 DEF LoseDatagram
    <3> QED
      BY SMTT(30), <3>1, <1>2, Sizes DEF CryptTypes
  <2> QED
    BY <2>1, <2>2
<1>4. flight' \subseteq start..encrypt_iv'
  <2>1. CASE Encrypt
    <3>1. encrypt_iv' = encrypt_iv + 1 /\ flight' = flight \cup {encrypt_iv + 1}
      BY <2>1 DEF Encrypt
    <3>2. start \in Nat /\ encrypt_iv \in Nat /\ encrypt_iv >= start /\ flight \subseteq start..encrypt_iv
      BY <1>2 DEF CryptTypes
    <3> QED
      BY SMTT(30), <3>1, <3>2
  <2>2. CASE \E p \in flight : LoseDatagram(p)
    BY <2>2, <1>2 DEF LoseDatagram, CryptTypes
  <2> QED
    BY <2>1, <2>2
<1>5. CryptTypes'
  BY <1>1, <1>2, <1>3, <1>4 DEF CryptTypes
<1>6. \A n \in Nat : n <= encrypt_iv => n <= encrypt_iv'
  BY SMTT(30), <1>2, <1>3 DEF CryptTypes
<1>7. SetupAgrees'
  BY <1>1, <1>6 DEF SetupAgrees, CryptInv
<1>8. Blank' /\ Seen'
  BY <1>1 DEF Blank, Seen, Remembered, CryptInv
<1>9. NonceBehind'
  BY <1>1, <1>2, <1>6 DEF NonceBehind, CryptInv, CryptTypes
<1>10. AcceptedOnce' /\ FreshAccepted' /\ LossAccounted'
  BY <1>1 DEF AcceptedOnce, FreshAccepted, LossAccounted, CryptInv
<1> QED
  BY <1>5, <1>7, <1>8, <1>9, <1>10 DEF CryptInv

\* The client asks for a resync.
LEMMA ResyncStep ==
    ASSUME CryptInv, Resync
    PROVE  CryptInv'
<1>1. UNCHANGED <<start, encrypt_iv, flight, decrypt_iv, decrypt_history, written, good, late,
                  lost, accepted, again, refused, rewound>>
  BY DEF Resync
<1>2. setup' = {encrypt_iv} /\ resyncs' = resyncs + 1
  BY DEF Resync
<1>3. encrypt_iv \in Nat /\ resyncs \in Nat
  BY DEF CryptInv, CryptTypes
<1>4. resyncs' \in Nat /\ resyncs' > 0 /\ resyncs' # 0 /\ encrypt_iv <= encrypt_iv
  BY SMTT(30), <1>2, <1>3
<1>5. CryptTypes'
  BY <1>1, <1>4 DEF CryptTypes, CryptInv
<1>6. SetupAgrees'
  BY <1>1, <1>2, <1>3, <1>4 DEF SetupAgrees
<1>7. Blank' /\ Seen' /\ AcceptedOnce' /\ NonceBehind' /\ FreshAccepted'
  BY <1>1 DEF Blank, Seen, Remembered, AcceptedOnce, NonceBehind, FreshAccepted, CryptInv
<1>8. LossAccounted'
  BY <1>4 DEF LossAccounted
<1> QED
  BY <1>5, <1>6, <1>7, <1>8 DEF CryptInv

\* The server adopts the client's counter.
LEMMA AdoptStep ==
    ASSUME CryptInv, NEW nonce \in setup, AdoptNonce(nonce)
    PROVE  CryptInv'
<1>1. /\ UNCHANGED <<start, encrypt_iv, flight, decrypt_history, written, good, late, lost, resyncs,
                     accepted, again, refused>>
      /\ setup' = {} /\ decrypt_iv' = nonce /\ rewound' = (rewound \/ nonce < decrypt_iv)
  BY DEF AdoptNonce
<1>2. nonce \in Nat /\ nonce <= encrypt_iv /\ resyncs > 0
  BY DEF CryptInv, SetupAgrees
<1>3. decrypt_iv \in Nat /\ rewound \in BOOLEAN /\ resyncs \in Nat /\ accepted \subseteq Nat
  BY DEF CryptInv, CryptTypes
<1>4. CryptTypes'
  BY <1>1, <1>2, <1>3 DEF CryptTypes, CryptInv
<1>5. Seen'
  <2>1. SUFFICES ASSUME ~rewound', NEW p \in accepted PROVE Remembered(p)'
    BY <1>1 DEF Seen
  <2>2. ~rewound /\ ~(nonce < decrypt_iv)
    BY <1>1, <2>1
  <2>3. p <= decrypt_iv /\ (decrypt_iv - p < LateWindow => decrypt_history[Low(p)] = Second(p))
    BY <2>2 DEF CryptInv, Seen, Remembered
  <2>4. p \in Nat
    BY <1>3
  <2>5. p <= nonce /\ (nonce - p < LateWindow => decrypt_iv - p < LateWindow)
    BY SMTT(30), <1>2, <1>3, <2>2, <2>3, <2>4, Sizes
  <2> QED
    BY <1>1, <2>3, <2>5 DEF Remembered, Low, Second
<1>6. SetupAgrees' /\ Blank' /\ FreshAccepted'
  BY <1>1 DEF SetupAgrees, Blank, FreshAccepted, CryptInv
<1>7. AcceptedOnce'
  BY <1>1 DEF AcceptedOnce, CryptInv
<1>8. NonceBehind'
  BY <1>1, <1>2 DEF NonceBehind
<1>9. LossAccounted'
  <2>1. resyncs # 0
    BY SMTT(30), <1>2, <1>3
  <2> QED
    BY <1>1, <2>1 DEF LossAccounted
<1> QED
  BY <1>4, <1>5, <1>6, <1>7, <1>8, <1>9 DEF CryptInv

\* What the bookkeeping makes of a datagram that decrypts: the next one, a late
\* one, or one after a gap.
LEMMA Outcome ==
    ASSUME CryptInv, NEW p \in flight, Decrypts(p), Advance(p)
    PROVE  /\ p \in Nat /\ decrypt_iv' \in Nat /\ Lost(p) \in Nat
           /\ decrypt_iv <= decrypt_iv' /\ p <= decrypt_iv' /\ decrypt_iv' <= encrypt_iv
           /\ decrypt_iv' = decrypt_iv + (1 - (IF IsLate(p) THEN 1 ELSE 0)) + Lost(p)
           /\ p <= decrypt_iv => decrypt_iv - p < LateWindow /\ decrypt_history[Low(p)] # Second(p)
<1>1. /\ start \in Nat /\ encrypt_iv \in Nat /\ decrypt_iv \in Nat /\ decrypt_iv <= encrypt_iv
      /\ p \in start..encrypt_iv
  BY DEF CryptInv, CryptTypes, NonceBehind
<1>2. p \in Nat /\ p <= encrypt_iv
  BY SMTT(30), <1>1
<1>3. PICK d \in Int : d = Diff(p)
  BY <1>1, <1>2, Distance
<1>4. /\ InOrder(p) \/ IsLate(p) \/ d > 0
      /\ NotReplayed(p) /\ Guess(p) = p
  BY <1>3 DEF Decrypts, TagMatches
<1>5. CASE InOrder(p)
  <2>1. p = decrypt_iv + 1 /\ ~IsLate(p) /\ Lost(p) = 0
    BY <1>4, <1>5 DEF Guess, IsLate, Lost
  <2>2. decrypt_iv' = p
    BY <1>4, <2>1 DEF Advance
  <2>3. decrypt_iv' = decrypt_iv + (1 - 0) + Lost(p)
    BY SMTT(30), <2>1, <2>2, <1>1, <1>2
  <2>4. /\ decrypt_iv <= decrypt_iv' /\ p <= decrypt_iv' /\ decrypt_iv' <= encrypt_iv
        /\ ~(p <= decrypt_iv) /\ 0 \in Nat
    BY SMTT(30), <2>1, <2>2, <1>1, <1>2
  <2> QED
    BY <1>2, <2>1, <2>2, <2>3, <2>4
<1>6. CASE IsLate(p)
  <2>1. p = decrypt_iv + d /\ Lost(p) = 0 /\ decrypt_iv' = decrypt_iv /\ d > -LateWindow /\ d < 0
    BY <1>3, <1>4, <1>6 DEF Guess, IsLate, Lost, Advance
  <2>2. decrypt_iv' = decrypt_iv + (1 - 1) + Lost(p)
    BY SMTT(30), <2>1, <1>1
  <2>3. /\ decrypt_iv <= decrypt_iv' /\ p <= decrypt_iv' /\ decrypt_iv' <= encrypt_iv
        /\ decrypt_iv - p < LateWindow /\ 0 \in Nat
    BY SMTT(30), <2>1, <1>1, <1>2, Sizes
  <2>4. decrypt_history[Low(p)] # Second(p)
    BY <1>4, <1>6 DEF NotReplayed, IsLate
  <2> QED
    BY <1>1, <1>2, <1>6, <2>1, <2>2, <2>3, <2>4
<1>7. CASE ~InOrder(p) /\ ~IsLate(p)
  <2>1. p = decrypt_iv + d /\ Lost(p) = d - 1 /\ decrypt_iv' = p /\ d > 0
    BY <1>3, <1>4, <1>7 DEF Guess, Lost, Advance
  <2>2. decrypt_iv' = decrypt_iv + (1 - 0) + Lost(p)
    BY SMTT(30), <2>1, <1>1, <1>2
  <2>3. /\ decrypt_iv <= decrypt_iv' /\ p <= decrypt_iv' /\ decrypt_iv' <= encrypt_iv
        /\ ~(p <= decrypt_iv) /\ Lost(p) \in Nat
    BY SMTT(30), <2>1, <1>1, <1>2
  <2> QED
    BY <1>2, <1>7, <2>1, <2>2, <2>3
<1> QED
  BY <1>5, <1>6, <1>7

\* The window moves with the nonce, and what lies in it is less than a byte apart.
LEMMA Windows ==
    \A p, q, i, j \in Nat : q <= i /\ i <= j /\ p <= j =>
        /\ q <= j /\ (j - q < LateWindow => i - q < LateWindow)
        /\ j - q < LateWindow /\ (p <= i => i - p < LateWindow) => p - q < ByteBase /\ q - p < ByteBase
<1>1. LateWindow \in Nat /\ ByteBase \in Nat /\ LateWindow < ByteBase
  BY SMTT(30), Sizes
<1> QED
  BY SMTT(30), <1>1

\* A datagram decrypts.
LEMMA TakeStep ==
    ASSUME CryptInv, NEW p \in flight, Decrypt(p), Decrypts(p)
    PROVE  CryptInv'
<1>1. /\ Advance(p) /\ decrypt_history' = [decrypt_history EXCEPT ![Low(p)] = Second(p)]
      /\ written' = written \cup {Low(p)} /\ accepted' = accepted \cup {p}
      /\ again' = IF p \in accepted THEN again \cup {p} ELSE again
      /\ flight' \subseteq flight
      /\ UNCHANGED <<start, encrypt_iv, setup, resyncs, rewound, refused>>
  BY DEF Decrypt
<1>2. PICK l \in {0, 1} : l = IF IsLate(p) THEN 1 ELSE 0
  OBVIOUS
<1>3. good' = good + 1 /\ lost' = lost + Lost(p) /\ late' = late + l
  BY <1>2 DEF Decrypt
<1>4. /\ p \in Nat /\ decrypt_iv' \in Nat /\ Lost(p) \in Nat
      /\ decrypt_iv <= decrypt_iv' /\ p <= decrypt_iv' /\ decrypt_iv' <= encrypt_iv
      /\ p <= decrypt_iv => decrypt_iv - p < LateWindow /\ decrypt_history[Low(p)] # Second(p)
  BY <1>1, Outcome
<1>5. decrypt_iv' = decrypt_iv + (1 - l) + Lost(p)
  BY <1>1, <1>2, Outcome
<1>6. CryptTypes
  BY DEF CryptInv
<1>7. Low(p) \in 0..(ByteBase - 1) /\ Second(p) \in 0..(ByteBase - 1)
  BY <1>4, Bytes
<1>8. decrypt_history \in [0..(ByteBase - 1) -> 0..(ByteBase - 1)]
  BY <1>6 DEF CryptTypes
<1>9. CryptTypes'
  <2>1. good' \in Nat /\ late' \in Nat /\ lost' \in Nat
    BY SMTT(30), <1>2, <1>3, <1>4, <1>6 DEF CryptTypes
  <2>2. decrypt_history' \in [0..(ByteBase - 1) -> 0..(ByteBase - 1)]
    BY <1>1, <1>7, <1>8
  <2>3. accepted' \subseteq Nat /\ flight' \subseteq start..encrypt_iv
    BY <1>1, <1>4, <1>6 DEF CryptTypes
  <2> QED
    BY <1>1, <1>4, <1>6, <2>1, <2>2, <2>3 DEF CryptTypes
<1>10. SetupAgrees' /\ FreshAccepted'
  BY <1>1 DEF SetupAgrees, FreshAccepted, CryptInv
<1>11. Blank'
  BY <1>1, <1>7, <1>8 DEF Blank, CryptInv
<1>12. Seen'
  <2>1. SUFFICES ASSUME ~rewound, NEW q \in accepted' PROVE Remembered(q)'
    BY <1>1 DEF Seen
  <2>2. decrypt_history'[Low(p)] = Second(p)
    BY <1>1, <1>7, <1>8
  <2>3. CASE q = p
    BY <2>2, <2>3, <1>4 DEF Remembered, Low, Second
  <2>4. CASE q # p
    <3>1. q \in accepted /\ q \in Nat
      BY <1>1, <2>4, <1>6 DEF CryptTypes
    <3>2. q <= decrypt_iv /\ (decrypt_iv - q < LateWindow => decrypt_history[Low(q)] = Second(q))
      BY <2>1, <3>1 DEF CryptInv, Seen, Remembered
    <3>3. decrypt_iv \in Nat
      BY <1>6 DEF CryptTypes
    <3>0. /\ p \in Nat /\ q \in Nat /\ decrypt_iv' \in Nat /\ q <= decrypt_iv
          /\ decrypt_iv <= decrypt_iv' /\ p <= decrypt_iv'
      BY <1>4, <3>1, <3>2
    <3>4. q <= decrypt_iv' /\ (decrypt_iv' - q < LateWindow => decrypt_iv - q < LateWindow)
      BY <3>0, <3>3, Windows
    <3>5. ASSUME decrypt_iv' - q < LateWindow PROVE Low(q) # Low(p)
      <4>1. p - q < ByteBase /\ q - p < ByteBase
        BY <3>0, <3>3, <3>5, <1>4, Windows
      <4> QED
        BY <4>1, <3>1, <1>4, <2>4, OwnSlot
    <3>6. Low(q) \in 0..(ByteBase - 1)
      BY <3>1, Bytes
    <3>7. ASSUME decrypt_iv' - q < LateWindow PROVE decrypt_history'[Low(q)] = Second(q)
      <4>1. decrypt_history[Low(q)] = Second(q)
        BY <3>2, <3>4, <3>7
      <4>2. decrypt_history'[Low(q)] = decrypt_history[Low(q)]
        BY <1>1, <1>8, <3>5, <3>6, <3>7
      <4> QED
        BY <4>1, <4>2
    <3> QED
      BY <3>4, <3>7 DEF Remembered, Low, Second
  <2> QED
    BY <2>3, <2>4
<1>13. AcceptedOnce'
  <2>1. SUFFICES ASSUME ~rewound PROVE again' = {}
    BY <1>1 DEF AcceptedOnce
  <2>2. again = {}
    BY <2>1 DEF CryptInv, AcceptedOnce
  <2>3. ASSUME p \in accepted PROVE FALSE
    <3>1. p <= decrypt_iv /\ (decrypt_iv - p < LateWindow => decrypt_history[Low(p)] = Second(p))
      BY <2>1, <2>3 DEF CryptInv, Seen, Remembered
    <3> QED
      BY <3>1, <1>4
  <2> QED
    BY <2>2, <2>3, <1>1
<1>14. NonceBehind'
  BY <1>1, <1>4 DEF NonceBehind
<1>15. LossAccounted'
  <2>1. SUFFICES ASSUME resyncs = 0 PROVE decrypt_iv' = start' + (good' - late') + lost'
    BY <1>1 DEF LossAccounted
  <2>2. decrypt_iv = start + (good - late) + lost /\ start' = start
    BY <1>1, <2>1 DEF CryptInv, LossAccounted
  <2>3. l \in Int /\ Lost(p) \in Nat
    BY SMTT(30), <1>2, <1>4
  <2>4. start \in Nat /\ good \in Nat /\ late \in Nat /\ lost \in Nat
    BY <1>6 DEF CryptTypes
  <2> QED
    BY SMTT(30), <2>2, <2>3, <2>4, <1>3, <1>5
<1> QED
  BY <1>9, <1>10, <1>11, <1>12, <1>13, <1>14, <1>15 DEF CryptInv

\* A datagram that was never seen, within reach, and not taken for a replay decrypts.
LEMMA FreshDecrypts ==
    ASSUME CryptInv, NEW p \in flight, Acceptable(p)
    PROVE  Decrypts(p)
<1>1. start \in Nat /\ encrypt_iv \in Nat /\ decrypt_iv \in Nat /\ p \in start..encrypt_iv
  BY DEF CryptInv, CryptTypes
<1>2. p \in Nat /\ decrypt_iv + 1 \in Nat
  BY SMTT(30), <1>1
<1>3. p - decrypt_iv \in (1 - LateWindow)..(HalfByte - 1) /\ p - decrypt_iv # 0
  BY DEF Acceptable
<1>4. /\ p - decrypt_iv < HalfByte /\ decrypt_iv - p < HalfByte /\ p - decrypt_iv > -LateWindow
      /\ p - (decrypt_iv + 1) < ByteBase /\ (decrypt_iv + 1) - p < ByteBase
  BY SMTT(30), <1>1, <1>2, <1>3, Sizes
<1>5. PICK d \in Int : d = Diff(p) /\ d = p - decrypt_iv
  BY <1>1, <1>2, <1>4, Distance
<1>6. d # 0 /\ d > -LateWindow /\ decrypt_iv + d = p /\ (d < 0 \/ d > 0)
  BY SMTT(30), <1>1, <1>2, <1>3, <1>4, <1>5
<1>7. InOrder(p) => p = decrypt_iv + 1
  BY <1>2, <1>4, OwnSlot DEF InOrder
<1>8. Guess(p) = p
  BY <1>5, <1>6, <1>7 DEF Guess
<1>9. InOrder(p) \/ IsLate(p) \/ Diff(p) > 0
  BY <1>5, <1>6 DEF IsLate
<1>10. decrypt_history[Low(p)] # Second(p)
  <2>1. Low(p) \in 0..(ByteBase - 1)
    BY <1>2, Bytes
  <2>2. CASE Low(p) \in written
    BY <2>2 DEF Acceptable
  <2>3. CASE Low(p) \notin written
    BY <2>1, <2>3 DEF Acceptable, CryptInv, Blank
  <2> QED
    BY <2>2, <2>3
<1> QED
  BY <1>8, <1>9, <1>10 DEF Decrypts, NotReplayed, TagMatches

\* A datagram is refused.
LEMMA RefuseStep ==
    ASSUME CryptInv, NEW p \in flight, Decrypt(p), ~Decrypts(p)
    PROVE  CryptInv'
<1>1. ~Acceptable(p)
  BY FreshDecrypts
<1>2. /\ refused' = refused /\ flight' \subseteq flight
      /\ UNCHANGED <<start, encrypt_iv, decrypt_iv, decrypt_history, written, good, late, lost, setup,
                     resyncs, accepted, again, rewound>>
  BY <1>1 DEF Decrypt
<1>3. CryptTypes'
  BY <1>2 DEF CryptTypes, CryptInv
<1>4. SetupAgrees' /\ Blank' /\ Seen'
  BY <1>2 DEF SetupAgrees, Blank, Seen, Remembered, CryptInv
<1>5. AcceptedOnce' /\ NonceBehind' /\ FreshAccepted' /\ LossAccounted'
  BY <1>2 DEF AcceptedOnce, NonceBehind, FreshAccepted, LossAccounted, CryptInv
<1> QED
  BY <1>3, <1>4, <1>5 DEF CryptInv

\* Every step preserves the inductive invariant.
LEMMA CryptStep == CryptInv /\ [CryptNext]_cryptVars => CryptInv'
<1> SUFFICES ASSUME CryptInv, [CryptNext]_cryptVars PROVE CryptInv'
  OBVIOUS
<1>1. CASE Encrypt \/ \E p \in flight : LoseDatagram(p)
  BY <1>1, SendStep
<1>2. CASE Resync
  BY <1>2, ResyncStep
<1>3. ASSUME NEW p \in flight, Decrypt(p) PROVE CryptInv'
  BY <1>3, TakeStep, RefuseStep
<1>4. ASSUME NEW nonce \in setup, AdoptNonce(nonce) PROVE CryptInv'
  BY <1>4, AdoptStep
<1>5. CASE UNCHANGED cryptVars
  <2>1. CryptTypes' /\ SetupAgrees' /\ Blank' /\ Seen'
    BY <1>5 DEF CryptTypes, SetupAgrees, Blank, Seen, Remembered, CryptInv, cryptVars
  <2>2. AcceptedOnce' /\ NonceBehind' /\ FreshAccepted' /\ LossAccounted'
    BY <1>5 DEF AcceptedOnce, NonceBehind, FreshAccepted, LossAccounted, CryptInv, cryptVars
  <2> QED
    BY <2>1, <2>2 DEF CryptInv
<1> QED
  BY <1>1, <1>2, <1>3, <1>4, <1>5 DEF CryptNext

\* NoncesHonest: however datagrams are lost, duplicated and reordered, none is
\* decrypted twice unless a resync moved the nonce back, a fresh one within the
\* window is accepted, the tracked nonce stays behind the client's counter and
\* losses are counted once, for any sizes of the byte and the late window.
THEOREM NoncesAlwaysHonest == CryptSpec => []NoncesHonest
<1>1. CryptInit => CryptInv
  BY CryptStart
<1>2. CryptInv /\ [CryptNext]_cryptVars => CryptInv'
  BY CryptStep
<1>3. CryptInv => NoncesHonest
  BY CryptHonest
<1> QED
  BY <1>1, <1>2, <1>3, PTL DEF CryptSpec

-----------------------------------------------------------------------------
(* The tables of the server. *)

\* The settings of a session.
SessionRecords == [mute : BOOLEAN, self_deaf : BOOLEAN, targets : SUBSET Nets]

\* The type of the server's state, in the form that steps preserve.
VoiceTypes ==
    /\ conn \in [Conns -> {"idle", "open", "burst", "live", "closed"}]
    /\ burst \in [Conns -> [Nets -> Channels \union {Nowhere}]]
    /\ roster \in [Conns -> [Nets -> Channels \union {Nowhere}]]
    /\ sessions \in [Nets -> SUBSET SessionRecords]
    /\ \A n \in Nets : \A s, t \in sessions[n] : s = t
    /\ channels \subseteq Channels /\ Root \in channels
    /\ members \in [Channels -> SUBSET Nets] /\ listeners \in [Channels -> SUBSET Nets]
    /\ crypt \in [Nets -> Conns \union {NoConn}] /\ control_tx \in [Nets -> Conns \union {NoConn}]
    /\ udp_addr \in [Nets -> Addrs \union {NoAddr}] /\ addr_index \in [Addrs -> Nets \union {NoNet}]
    /\ latest \in [Nets -> Conns \union {NoConn}]

\* A player is in one channel, and that channel exists.
PlacesAgree ==
    /\ \A n \in Nets : \A x, y \in Channels : n \in members[x] /\ n \in members[y] => x = y
    /\ \A n \in Nets : \A x \in Channels : n \in members[x] => x \in channels

\* A connection that has authenticated and has not ended.
LoggedIn(c) == conn[c] \in {"burst", "live"}

\* The writer of a session is a logged-in connection of that player.
WritersAgree ==
    \A n \in Nets : control_tx[n] # NoConn => control_tx[n] \in Conns /\ control_tx[n][1] = n /\ LoggedIn(control_tx[n])

\* A logged-in connection has a session unless it outlived it; the newest is the writer.
OwnersAgree ==
    \A c \in Conns : LoggedIn(c) =>
        /\ c[1] \in Present \/ c[1] \in outlived
        /\ latest[c[1]] = c /\ c[1] \notin dropped \union stolen => control_tx[c[1]] = c

\* v is where n is.
RightPlace(n, v) ==
    \/ v = Nowhere /\ \A x \in Channels : n \notin members[x]
    \/ v \in Channels /\ n \in members[v]

\* What a client shows, or will show once the login burst is sent.
RosterAgrees(c) ==
    /\ conn[c] \in {"idle", "open"} => \A n \in Nets : roster[c][n] = Nowhere
    /\ conn[c] = "burst" /\ c \notin overtaken => \A n \in Nets : roster[c][n] = Nowhere
    /\ control_tx[c[1]] = c /\ c \notin overtaken /\ outlived = {} =>
           /\ conn[c] = "burst" => \A n \in Nets : RightPlace(n, burst[c][n])
           /\ conn[c] = "live" => \A n \in Nets : RightPlace(n, roster[c][n])

\* The inductive invariant of the voice server.
VoiceInv ==
    /\ VoiceTypes /\ PlacesAgree /\ VoiceTablesAgree /\ WritersAgree /\ OwnersAgree /\ NoGhostMembers
    /\ \A c \in Conns : RosterAgrees(c)

\* A connection is of a player.
LEMMA ConnOf == \A c \in Conns : c[1] \in Nets /\ c # NoConn
  BY SMTT(30), VoiceAssumption DEF Conns

\* Nowhere is no channel, and the root is one.
LEMMA ChannelOf == Nowhere \notin Channels /\ Root \in Channels /\ GameChannels \subseteq Channels
  BY VoiceAssumption DEF Channels, Root

\* A set with at most one element.
LEMMA AtMostOne ==
    ASSUME NEW S, \A x, y \in S : x = y
    PROVE  Cardinality(S) <= 1
<1>1. CASE S = {}
  BY SMTT(30), <1>1, FS_EmptySet
<1>2. CASE S # {}
  <2>1. PICK x \in S : TRUE
    BY <1>2
  <2>2. S = {x}
    BY <2>1
  <2>3. Cardinality(S) = 1
    BY <2>2, FS_Singleton
  <2> QED
    BY SMTT(30), <2>3
<1> QED
  BY <1>1, <1>2

\* The inductive invariant implies the property.
LEMMA VoiceHonest == VoiceInv => VoiceAgrees
<1> SUFFICES ASSUME VoiceInv PROVE VoiceAgrees
  OBVIOUS
<1>1. VoiceTypeOK
  <2>1. \A n \in Nets : Cardinality(sessions[n]) <= 1
    BY AtMostOne DEF VoiceInv, VoiceTypes
  <2>2. \A n \in Nets : Cardinality(In(n)) <= 1
    BY AtMostOne DEF VoiceInv, VoiceTypes, PlacesAgree, In
  <2> QED
    BY <2>1, <2>2 DEF VoiceInv, VoiceTypes, VoiceTypeOK
<1>2. AudienceServed
  <2>1. ASSUME NEW n \in Nets, NEW m \in resolve(n, "normal") \union resolve(n, "whisper")
        PROVE  m \in Nets /\ sessions[m] # {}
    <3>1. CanHear(m) /\ (m \in Scope(n, "normal") \/ m \in Scope(n, "whisper"))
      BY <2>1 DEF resolve
    <3>2. ASSUME m \in Scope(n, "normal") PROVE m \in Nets
      <4>1. m \in UNION {members[ch] \union listeners[ch] : ch \in In(n)}
        BY <3>2 DEF Scope
      <4>2. PICK ch \in In(n) : m \in members[ch] \union listeners[ch]
        BY <4>1
      <4>3. members[ch] \subseteq Nets /\ listeners[ch] \subseteq Nets
        BY DEF In, VoiceInv, VoiceTypes
      <4> QED
        BY <4>2, <4>3
    <3>3. ASSUME m \in Scope(n, "whisper") PROVE m \in Nets
      <4>1. m \in UNION {s.targets : s \in sessions[n]}
        BY <3>3 DEF Scope
      <4>3. sessions[n] \subseteq SessionRecords
        BY DEF VoiceInv, VoiceTypes
      <4>2. \A s \in sessions[n] : s.targets \subseteq Nets
        BY <4>3, SMTT(30) DEF SessionRecords
      <4>4. PICK s \in sessions[n] : m \in s.targets
        BY <4>1
      <4> QED
        BY <4>2, <4>4
    <3> QED
      BY <3>1, <3>2, <3>3 DEF CanHear
  <2>2. ASSUME NEW m \in Nets, sessions[m] # {}
        PROVE  crypt[m] = control_tx[m] /\ control_tx[m] \in Conns /\ conn[control_tx[m]] \in {"burst", "live"}
    BY <2>2 DEF VoiceInv, VoiceTablesAgree, WritersAgree, LoggedIn, Present
  <2> QED
    BY <2>1, <2>2 DEF AudienceServed
<1>3. RosterHonest
  <2> SUFFICES ASSUME outlived = {}, NEW c \in Established \ overtaken, conn[c] = "live", NEW n \in Nets
               PROVE  roster[c][n] = (IF In(n) = {} THEN Nowhere ELSE CHOOSE ch \in channels : n \in members[ch])
    BY DEF RosterHonest
  <2>1. RightPlace(n, roster[c][n])
    BY DEF VoiceInv, RosterAgrees, Established
  <2>2. channels \subseteq Channels /\ \A x \in Channels : n \in members[x] => x \in channels
    BY DEF VoiceInv, VoiceTypes, PlacesAgree
  <2>3. CASE \A x \in Channels : n \notin members[x]
    <3>1. In(n) = {}
      BY <2>2, <2>3 DEF In
    <3> QED
      BY <2>1, <2>3, <3>1 DEF RightPlace
  <2>4. CASE roster[c][n] \in Channels /\ n \in members[roster[c][n]]
    <3>1. In(n) # {}
      BY <2>2, <2>4 DEF In
    <3>2. \A y \in channels : n \in members[y] => y = roster[c][n]
      BY <2>2, <2>4 DEF VoiceInv, PlacesAgree
    <3>3. (CHOOSE ch \in channels : n \in members[ch]) = roster[c][n]
      BY <2>2, <2>4, <3>2
    <3> QED
      BY <3>1, <3>3
  <2> QED
    BY <2>1, <2>3, <2>4 DEF RightPlace
<1>4. NewestServed
  BY DEF VoiceInv, OwnersAgree, LoggedIn, NewestServed
<1> QED
  BY <1>1, <1>2, <1>3, <1>4 DEF VoiceInv, VoiceAgrees

\* It holds initially.
LEMMA VoiceStart == VoiceInit => VoiceInv
<1> SUFFICES ASSUME VoiceInit PROVE VoiceInv
  OBVIOUS
<1>1. VoiceTypes
  BY ChannelOf DEF VoiceInit, VoiceTypes
<1>2. PlacesAgree /\ NoGhostMembers
  BY DEF VoiceInit, PlacesAgree, NoGhostMembers
<1>3. VoiceTablesAgree /\ WritersAgree /\ OwnersAgree
  BY DEF VoiceInit, VoiceTablesAgree, WritersAgree, OwnersAgree, LoggedIn, Present
<1>4. \A c \in Conns : RosterAgrees(c)
  BY DEF VoiceInit, RosterAgrees
<1> QED
  BY <1>1, <1>2, <1>3, <1>4 DEF VoiceInv

\* Facts that hold as long as the tables they are about stay.
LEMMA TablesStay ==
    ASSUME VoiceTablesAgree, WritersAgree, UNCHANGED <<crypt, control_tx, udp_addr, addr_index>>,
           Present' = Present, \A c \in Conns : LoggedIn(c) => LoggedIn(c)'
    PROVE  VoiceTablesAgree' /\ WritersAgree'
  BY DEF VoiceTablesAgree, WritersAgree, LoggedIn

\* Ownership stays while sessions and connections do.
LEMMA OwnersStay ==
    ASSUME OwnersAgree, UNCHANGED <<control_tx, latest, outlived, dropped, stolen>>,
           Present' = Present, \A c \in Conns : LoggedIn(c)' => LoggedIn(c)
    PROVE  OwnersAgree'
  BY DEF OwnersAgree, LoggedIn

\* A roster stays right while nothing moves.
LEMMA RosterStays ==
    ASSUME NEW c \in Conns, RosterAgrees(c), UNCHANGED <<burst, roster, overtaken, control_tx, outlived, members>>,
           conn'[c] = conn[c] \/ (conn'[c] = "open" /\ conn[c] = "idle")
    PROVE  RosterAgrees(c)'
  BY DEF RosterAgrees, RightPlace

\* A connection is accepted.
LEMMA AcceptStep == ASSUME VoiceInv, NEW c \in Conns, Accept(c) PROVE VoiceInv'
<1>1. /\ conn[c] = "idle" /\ conn' = [conn EXCEPT ![c] = "open"]
      /\ UNCHANGED <<burst, sessions, channels, members, listeners, crypt, control_tx, udp_addr, addr_index, roster,
                     requests, latest, overtaken, outlived, dropped, stolen>>
  BY DEF Accept, tables, places, flows, faultsMet
<1>2. /\ conn' \in [Conns -> {"idle", "open", "burst", "live", "closed"}]
      /\ conn'[c] = "open" /\ \A d \in Conns \ {c} : conn'[d] = conn[d]
  BY <1>1 DEF VoiceInv, VoiceTypes
<1>3. VoiceTypes'
  BY <1>1, <1>2 DEF VoiceInv, VoiceTypes
<1>4. PlacesAgree' /\ NoGhostMembers' /\ Present' = Present
  BY <1>1 DEF VoiceInv, PlacesAgree, NoGhostMembers, Present
<1>5. \A d \in Conns : LoggedIn(d)' <=> LoggedIn(d)
  BY <1>1, <1>2 DEF LoggedIn
<1>6. VoiceTablesAgree' /\ WritersAgree' /\ OwnersAgree'
  BY <1>1, <1>4, <1>5, TablesStay, OwnersStay DEF VoiceInv
<1>7. \A d \in Conns : RosterAgrees(d)'
  BY <1>1, <1>2, RosterStays DEF VoiceInv
<1> QED
  BY <1>3, <1>4, <1>6, <1>7 DEF VoiceInv

\* A setting of a session that exists.
LEMMA SettingStep ==
    ASSUME VoiceInv, NEW n \in Nets, NEW s \in SessionRecords, sessions[n] # {}, SetSession(n, s)
    PROVE  VoiceInv'
<1>1. /\ sessions' = [sessions EXCEPT ![n] = {s}]
      /\ UNCHANGED <<conn, burst, channels, members, listeners, crypt, control_tx, udp_addr, addr_index, roster,
                     latest, overtaken, outlived, dropped, stolen>>
  BY DEF SetSession, places, flows
<1>2. sessions \in [Nets -> SUBSET SessionRecords]
  BY DEF VoiceInv, VoiceTypes
<1>3. /\ sessions' \in [Nets -> SUBSET SessionRecords] /\ sessions'[n] = {s}
      /\ \A m \in Nets \ {n} : sessions'[m] = sessions[m]
  BY <1>1, <1>2
<1>4. Present' = Present
  BY <1>3 DEF Present
<1>5. VoiceTypes'
  BY <1>1, <1>3 DEF VoiceInv, VoiceTypes
<1>6. PlacesAgree' /\ NoGhostMembers' /\ \A d \in Conns : LoggedIn(d)' <=> LoggedIn(d)
  BY <1>1, <1>4 DEF VoiceInv, PlacesAgree, NoGhostMembers, LoggedIn
<1>7. VoiceTablesAgree' /\ WritersAgree' /\ OwnersAgree'
  BY <1>1, <1>4, <1>6, TablesStay, OwnersStay DEF VoiceInv
<1>8. \A d \in Conns : RosterAgrees(d)'
  BY <1>1, RosterStays DEF VoiceInv
<1> QED
  BY <1>5, <1>6, <1>7, <1>8 DEF VoiceInv

\* Deafness, whisper targets and muting change settings only.
LEMMA SettingsStep ==
    ASSUME VoiceInv,
           \/ \E c \in Conns : SelfDeaf(c) \/ \E ts \in SUBSET Nets : VoiceTarget(c, ts)
           \/ \E n \in Nets : SetMuted(n)
    PROVE  VoiceInv'
<1>a. PICK n \in Nets : \E s \in sessions[n], ts \in SUBSET Nets :
         \/ SetSession(n, [s EXCEPT !.self_deaf = ~@])
         \/ SetSession(n, [s EXCEPT !.targets = ts])
         \/ SetSession(n, [s EXCEPT !.mute = ~@])
  BY ConnOf DEF SelfDeaf, VoiceTarget, SetMuted
<1>1. PICK s \in sessions[n], ts \in SUBSET Nets :
         \/ SetSession(n, [s EXCEPT !.self_deaf = ~@])
         \/ SetSession(n, [s EXCEPT !.targets = ts])
         \/ SetSession(n, [s EXCEPT !.mute = ~@])
  BY <1>a
<1>2. s \in SessionRecords /\ sessions[n] # {}
  BY DEF VoiceInv, VoiceTypes
<1>3. /\ [s EXCEPT !.self_deaf = ~@] \in SessionRecords /\ [s EXCEPT !.targets = ts] \in SessionRecords
      /\ [s EXCEPT !.mute = ~@] \in SessionRecords
  BY <1>2 DEF SessionRecords
<1> QED
  BY <1>1, <1>2, <1>3, SettingStep

\* A script creates a channel.
LEMMA CreateStep == ASSUME VoiceInv, NEW ch \in GameChannels, CreateChannel(ch) PROVE VoiceInv'
<1>1. /\ channels' = channels \union {ch}
      /\ UNCHANGED <<conn, burst, sessions, members, listeners, crypt, control_tx, udp_addr, addr_index, roster,
                     latest, overtaken, outlived, dropped, stolen>>
  BY DEF CreateChannel, tables, flows, lastly
<1>2. VoiceTypes'
  BY <1>1, ChannelOf DEF VoiceInv, VoiceTypes
<1>3. PlacesAgree' /\ NoGhostMembers' /\ Present' = Present
  BY <1>1 DEF VoiceInv, PlacesAgree, NoGhostMembers, Present
<1>4. \A d \in Conns : LoggedIn(d)' <=> LoggedIn(d)
  BY <1>1 DEF LoggedIn
<1>5. VoiceTablesAgree' /\ WritersAgree' /\ OwnersAgree'
  BY <1>1, <1>3, <1>4, TablesStay, OwnersStay DEF VoiceInv
<1>6. \A d \in Conns : RosterAgrees(d)'
  BY <1>1, RosterStays DEF VoiceInv
<1> QED
  BY <1>2, <1>3, <1>5, <1>6 DEF VoiceInv

\* A client starts or stops listening to a channel.
LEMMA ListenStep == ASSUME VoiceInv, NEW c \in Conns, NEW ch \in Channels, Listen(c, ch) PROVE VoiceInv'
<1>1. /\ conn[c] = "live" /\ \E S \in SUBSET Nets : listeners' = [listeners EXCEPT ![ch] = S]
      /\ \A n \in Nets \ {c[1]} : \A x \in Channels : n \in listeners'[x] => n \in listeners[x]
      /\ UNCHANGED <<conn, burst, sessions, channels, members, crypt, control_tx, udp_addr, addr_index, roster,
                     latest, overtaken, outlived, dropped, stolen>>
  <2>1. c[1] \in Nets /\ listeners \in [Channels -> SUBSET Nets]
    BY ConnOf DEF VoiceInv, VoiceTypes
  <2> QED
    BY <2>1 DEF Listen, tables, flows, lastly
<1>2. VoiceTypes'
  <2>a. PICK S \in SUBSET Nets : listeners' = [listeners EXCEPT ![ch] = S]
    BY <1>1
  <2>b. listeners \in [Channels -> SUBSET Nets]
    BY DEF VoiceInv, VoiceTypes
  <2>1. listeners' \in [Channels -> SUBSET Nets]
    BY <2>a, <2>b
  <2> QED
    BY <1>1, <2>1 DEF VoiceInv, VoiceTypes
<1>3. PlacesAgree' /\ Present' = Present
  BY <1>1 DEF VoiceInv, PlacesAgree, Present
<1>4. \A d \in Conns : LoggedIn(d)' <=> LoggedIn(d)
  BY <1>1 DEF LoggedIn
<1>5. NoGhostMembers'
  <2>1. c[1] \in Present \union outlived
    BY <1>1 DEF VoiceInv, OwnersAgree, LoggedIn
  <2> QED
    BY <1>1, <1>3, <2>1 DEF VoiceInv, NoGhostMembers
<1>6. VoiceTablesAgree' /\ WritersAgree' /\ OwnersAgree'
  BY <1>1, <1>3, <1>4, TablesStay, OwnersStay DEF VoiceInv
<1>7. \A d \in Conns : RosterAgrees(d)'
  BY <1>1, RosterStays DEF VoiceInv
<1> QED
  BY <1>2, <1>3, <1>5, <1>6, <1>7 DEF VoiceInv

\* A datagram binds its source address.
LEMMA DatagramStep == ASSUME VoiceInv, NEW c \in Conns, NEW a \in Addrs, Datagram(c, a) PROVE VoiceInv'
<1>n. PICK n \in Nets : n = c[1]
  BY ConnOf
<1>1. /\ conn[c] = "live" /\ addr_index[a] = NoNet /\ crypt[n] = c
      /\ udp_addr' = [udp_addr EXCEPT ![n] = a]
      /\ addr_index' = [x \in Addrs |-> CASE x = a -> n
                                          [] x = udp_addr[n] /\ x # a -> NoNet
                                          [] OTHER -> addr_index[x]]
      /\ UNCHANGED <<conn, burst, sessions, channels, members, listeners, crypt, control_tx, roster,
                     latest, overtaken, outlived, dropped, stolen>>
  BY <1>n DEF Datagram, Binds, tables, places, faultsMet
<1>2. udp_addr \in [Nets -> Addrs \union {NoAddr}] /\ addr_index \in [Addrs -> Nets \union {NoNet}]
  BY DEF VoiceInv, VoiceTypes
<1>3. /\ udp_addr' \in [Nets -> Addrs \union {NoAddr}] /\ udp_addr'[n] = a
      /\ \A m \in Nets \ {n} : udp_addr'[m] = udp_addr[m]
  BY <1>1, <1>2
<1>4. /\ addr_index'[a] = n
      /\ \A x \in Addrs : x = udp_addr[n] /\ x # a => addr_index'[x] = NoNet
      /\ \A x \in Addrs : x # udp_addr[n] /\ x # a => addr_index'[x] = addr_index[x]
      /\ DOMAIN addr_index' = Addrs /\ addr_index' = [x \in Addrs |-> addr_index'[x]]
  BY <1>1
<1>5. addr_index' \in [Addrs -> Nets \union {NoNet}]
  BY <1>2, <1>4
<1>6. VoiceTypes'
  BY <1>1, <1>3, <1>5 DEF VoiceInv, VoiceTypes
<1>7. PlacesAgree' /\ NoGhostMembers' /\ Present' = Present
  BY <1>1 DEF VoiceInv, PlacesAgree, NoGhostMembers, Present
<1>8. \A d \in Conns : LoggedIn(d)' <=> LoggedIn(d)
  BY <1>1 DEF LoggedIn
<1>9. WritersAgree' /\ OwnersAgree'
  BY <1>1, <1>7, <1>8, OwnersStay DEF VoiceInv, WritersAgree
<1>10. \A d \in Conns : RosterAgrees(d)'
  BY <1>1, RosterStays DEF VoiceInv
<1>11. VoiceTablesAgree'
  <2>1. n \in Present
    BY <1>1, ConnOf DEF VoiceInv, VoiceTablesAgree
  <2>2. ASSUME NEW m \in Nets, udp_addr'[m] # NoAddr PROVE m \in Present' /\ addr_index'[udp_addr'[m]] = m
    <3>1. CASE m = n
      BY <1>3, <1>4, <1>7, <2>1, <3>1
    <3>2. CASE m # n
      <4>1. udp_addr[m] # NoAddr /\ udp_addr'[m] = udp_addr[m]
        BY <1>3, <2>2, <3>2
      <4>2. m \in Present /\ addr_index[udp_addr[m]] = m /\ udp_addr[m] \in Addrs
        BY <1>2, <4>1 DEF VoiceInv, VoiceTablesAgree
      <4>3. udp_addr[m] # a
        BY <1>1, <4>2, VoiceAssumption
      <4>4. udp_addr[m] # udp_addr[n]
        BY <3>2, <4>1, <4>2 DEF VoiceInv, VoiceTablesAgree
      <4> QED
        BY <1>4, <1>7, <4>1, <4>2, <4>3, <4>4
    <3> QED
      BY <3>1, <3>2
  <2>3. ASSUME NEW x \in Addrs, addr_index'[x] # NoNet PROVE udp_addr'[addr_index'[x]] = x
    <3>1. CASE x = a
      BY <1>3, <1>4, <3>1
    <3>2. CASE x # a
      <4>1. x # udp_addr[n] /\ addr_index'[x] = addr_index[x]
        BY <1>4, <2>3, <3>2
      <4>2. udp_addr[addr_index[x]] = x /\ addr_index[x] \in Nets
        BY <1>2, <2>3, <4>1 DEF VoiceInv, VoiceTablesAgree
      <4> QED
        BY <1>3, <4>1, <4>2
    <3> QED
      BY <3>1, <3>2
  <2> QED
    BY <1>1, <1>7, <2>2, <2>3 DEF VoiceInv, VoiceTablesAgree
<1> QED
  BY <1>6, <1>7, <1>9, <1>10, <1>11 DEF VoiceInv

\* The login burst is sent.
LEMMA BurstStep == ASSUME VoiceInv, NEW c \in Conns, SendBurst(c) PROVE VoiceInv'
<1>0. /\ conn[c] = "burst" /\ conn' = [conn EXCEPT ![c] = "live"]
      /\ roster' = [roster EXCEPT ![c] =
             [n \in Nets |-> IF burst[c][n] # Nowhere THEN burst[c][n] ELSE roster[c][n]]]
      /\ burst' = [burst EXCEPT ![c] = [n \in Nets |-> Nowhere]]
  BY DEF SendBurst
<1>1. UNCHANGED <<sessions, channels, members, listeners, crypt, control_tx, udp_addr, addr_index,
                 latest, overtaken, outlived, dropped, stolen>>
  BY DEF SendBurst, tables, places, flows, faultsMet
<1>2. /\ conn' \in [Conns -> {"idle", "open", "burst", "live", "closed"}]
      /\ conn'[c] = "live" /\ \A d \in Conns \ {c} : conn'[d] = conn[d]
  BY <1>0 DEF VoiceInv, VoiceTypes
<1>3. PICK shown \in [Nets -> Channels \union {Nowhere}] :
         shown = [n \in Nets |-> IF burst[c][n] # Nowhere THEN burst[c][n] ELSE roster[c][n]]
  <2>1. burst[c] \in [Nets -> Channels \union {Nowhere}] /\ roster[c] \in [Nets -> Channels \union {Nowhere}]
    BY DEF VoiceInv, VoiceTypes
  <2> QED
    BY <2>1
<1>4. roster' = [roster EXCEPT ![c] = shown]
  BY <1>0, <1>3
<1>5. /\ roster' \in [Conns -> [Nets -> Channels \union {Nowhere}]]
      /\ roster'[c] = shown /\ \A d \in Conns \ {c} : roster'[d] = roster[d]
  BY <1>4 DEF VoiceInv, VoiceTypes
<1>6. /\ burst' \in [Conns -> [Nets -> Channels \union {Nowhere}]] /\ \A d \in Conns \ {c} : burst'[d] = burst[d]
  BY <1>0 DEF VoiceInv, VoiceTypes
<1>7. VoiceTypes'
  BY <1>1, <1>2, <1>5, <1>6 DEF VoiceInv, VoiceTypes
<1>8. PlacesAgree' /\ NoGhostMembers' /\ Present' = Present
  BY <1>1 DEF VoiceInv, PlacesAgree, NoGhostMembers, Present
<1>9. \A d \in Conns : LoggedIn(d)' <=> LoggedIn(d)
  BY <1>0, <1>2 DEF LoggedIn
<1>10. VoiceTablesAgree' /\ WritersAgree' /\ OwnersAgree'
  BY <1>1, <1>8, <1>9, TablesStay, OwnersStay DEF VoiceInv
<1>11. ASSUME NEW d \in Conns \ {c} PROVE RosterAgrees(d)'
  <2>1. conn'[d] = conn[d] /\ roster'[d] = roster[d] /\ burst'[d] = burst[d] /\ RosterAgrees(d)
    BY <1>2, <1>5, <1>6 DEF VoiceInv
  <2> QED
    BY <1>1, <2>1 DEF RosterAgrees, RightPlace
<1>12. RosterAgrees(c)'
  <2> SUFFICES ASSUME control_tx'[c[1]] = c, c \notin overtaken', outlived' = {}, NEW n \in Nets
               PROVE  RightPlace(n, roster[c][n])'
    BY <1>2 DEF RosterAgrees
  <2>1. control_tx[c[1]] = c /\ c \notin overtaken /\ outlived = {} /\ RosterAgrees(c)
    BY <1>1 DEF VoiceInv
  <2>2. RightPlace(n, burst[c][n]) /\ roster[c][n] = Nowhere
    BY <1>0, <2>1 DEF RosterAgrees
  <2>3. roster'[c][n] = burst[c][n]
    BY <1>3, <1>5, <2>2
  <2> QED
    BY <1>1, <2>2, <2>3 DEF RightPlace
<1> QED
  BY <1>7, <1>8, <1>10, <1>11, <1>12 DEF VoiceInv

\* Broadcast reaches the established, and nobody in the middle of a login keeps
\* an unmarked copy.
LEMMA BroadcastKeeps ==
    ASSUME VoiceInv, NEW to, to \subseteq Established, NEW n \in Nets, NEW v \in Channels \union {Nowhere},
           Broadcast(to, n, v)
    PROVE  /\ roster' \in [Conns -> [Nets -> Channels \union {Nowhere}]]
           /\ \A d \in Conns : \A m \in Nets \ {n} : roster'[d][m] = roster[d][m]
           /\ \A d \in Conns : (d \in to => roster'[d][n] = v) /\ (d \notin to => roster'[d] = roster[d])
           /\ \A d \in Conns : d \notin overtaken' => d \notin overtaken /\ ~(d \in to /\ conn[d] = "burst")
           /\ \A d \in to : LoggedIn(d)
<1>1. roster' = [c \in Conns |-> IF c \in to THEN [roster[c] EXCEPT ![n] = v] ELSE roster[c]]
  BY DEF Broadcast
<1>2. \A d \in Conns : roster[d] \in [Nets -> Channels \union {Nowhere}]
  BY DEF VoiceInv, VoiceTypes
<1>3. \A d \in Conns : [roster[d] EXCEPT ![n] = v] \in [Nets -> Channels \union {Nowhere}]
  BY <1>2
<1>4. \A d \in Conns : roster'[d] = IF d \in to THEN [roster[d] EXCEPT ![n] = v] ELSE roster[d]
  BY <1>1
<1>5. roster' \in [Conns -> [Nets -> Channels \union {Nowhere}]]
  BY <1>1, <1>2, <1>3
<1>6. \A d \in Conns : \A m \in Nets \ {n} : roster'[d][m] = roster[d][m]
  BY <1>2, <1>4
<1>7. \A d \in Conns : (d \in to => roster'[d][n] = v) /\ (d \notin to => roster'[d] = roster[d])
  BY <1>2, <1>4
<1>8. \A d \in Conns : d \notin overtaken' => d \notin overtaken /\ ~(d \in to /\ conn[d] = "burst")
  BY DEF Broadcast
<1>9. \A d \in to : LoggedIn(d)
  BY ConnOf DEF VoiceInv, WritersAgree, Established
<1> QED
  BY <1>5, <1>6, <1>7, <1>8, <1>9

\* join: a player leaves the channel it is in and enters another.
LEMMA JoinKeeps ==
    ASSUME members \in [Channels -> SUBSET Nets], PlacesAgree, NEW n \in Nets, NEW ch \in Channels,
           members' = Joined(n, ch), channels \subseteq channels', ch \in channels'
    PROVE  /\ members' \in [Channels -> SUBSET Nets] /\ n \in members'[ch]
           /\ \A x \in Channels \ {ch} : n \notin members'[x]
           /\ \A m \in Nets \ {n} : \A x \in Channels : m \in members'[x] <=> m \in members[x]
           /\ PlacesAgree'
<1>1. members' = [x \in Channels |-> IF x = ch THEN members[x] \union {n} ELSE members[x] \ {n}]
  BY DEF Joined
<1>2. /\ members'[ch] = members[ch] \union {n}
      /\ \A x \in Channels \ {ch} : members'[x] = members[x] \ {n}
  BY <1>1
<1>3. members' \in [Channels -> SUBSET Nets]
  BY <1>1
<1>4. n \in members'[ch] /\ \A x \in Channels \ {ch} : n \notin members'[x]
  BY <1>2
<1>5. ASSUME NEW m \in Nets \ {n}, NEW x \in Channels PROVE m \in members'[x] <=> m \in members[x]
  <2>1. CASE x = ch
    BY <1>2, <2>1
  <2>2. CASE x # ch
    BY <1>2, <2>2
  <2> QED
    BY <2>1, <2>2
<1>6. ASSUME NEW m \in Nets, NEW x \in Channels, NEW y \in Channels, m \in members'[x], m \in members'[y]
      PROVE  x = y
  <2>1. CASE m = n
    BY <1>4, <1>6, <2>1
  <2>2. CASE m # n
    BY <1>5, <1>6, <2>2 DEF PlacesAgree
  <2> QED
    BY <2>1, <2>2
<1>7. ASSUME NEW m \in Nets, NEW x \in Channels, m \in members'[x] PROVE x \in channels'
  <2>1. CASE m = n
    BY <1>4, <1>7, <2>1
  <2>2. CASE m # n
    BY <1>5, <1>7, <2>2 DEF PlacesAgree
  <2> QED
    BY <2>1, <2>2
<1> QED
  BY <1>3, <1>4, <1>5, <1>6, <1>7 DEF PlacesAgree

\* The place of n changes to v: a connection that is told stays right, and one
\* that is not told is not, or no longer, the writer of its player.
LEMMA ToldOrGone ==
    ASSUME VoiceInv, NEW d \in Conns, NEW n \in Nets, NEW v, conn'[d] = conn[d], burst'[d] = burst[d],
           \A m \in Nets \ {n} : \A x \in Channels : m \in members'[x] <=> m \in members[x],
           RightPlace(n, v)', \A m \in Nets \ {n} : roster'[d][m] = roster[d][m],
           \/ roster'[d][n] = v /\ LoggedIn(d) /\ (conn[d] = "burst" => d \in overtaken')
           \/ roster'[d] = roster[d] /\ control_tx'[d[1]] # d,
           d \notin overtaken' => d \notin overtaken,
           control_tx'[d[1]] = d => control_tx[d[1]] = d, outlived' = {} => outlived = {}
    PROVE  RosterAgrees(d)'
<1>1. RosterAgrees(d)
  BY DEF VoiceInv
<1>2. CASE roster'[d] = roster[d] /\ control_tx'[d[1]] # d
  BY <1>1, <1>2 DEF RosterAgrees
<1>3. CASE roster'[d][n] = v /\ LoggedIn(d) /\ (conn[d] = "burst" => d \in overtaken')
  <2>1. ASSUME control_tx'[d[1]] = d, d \notin overtaken', outlived' = {}, conn[d] = "live", NEW m \in Nets
        PROVE  RightPlace(m, roster[d][m])'
    <3>1. CASE m = n
      BY <1>3, <3>1 DEF RightPlace
    <3>2. CASE m # n
      <4>1. RightPlace(m, roster[d][m]) /\ roster'[d][m] = roster[d][m]
        BY <1>1, <2>1, <3>2 DEF RosterAgrees
      <4>2. \A x \in Channels : m \in members'[x] <=> m \in members[x]
        BY <3>2
      <4> QED
        BY <4>1, <4>2 DEF RightPlace
    <3> QED
      BY <3>1, <3>2
  <2> QED
    BY <1>3, <2>1 DEF RosterAgrees, LoggedIn
<1> QED
  BY <1>2, <1>3

\* A player moves to a channel, and every established client is told.
LEMMA MoveStep == ASSUME VoiceInv, NEW c \in Conns, NEW ch \in Channels, MoveTo(c, ch) PROVE VoiceInv'
<1>n. PICK n \in Nets : n = c[1]
  BY ConnOf
<1>0. /\ conn[c] = "live" /\ channels' = channels \union {ch}
      /\ members' = Joined(n, ch) /\ Broadcast(Established, n, ch)
  BY <1>n DEF MoveTo
<1>1. UNCHANGED <<conn, burst, sessions, listeners, crypt, control_tx, udp_addr, addr_index,
                 latest, outlived, dropped, stolen>>
  BY DEF MoveTo, tables, flows, lastly
<1>2. /\ roster' \in [Conns -> [Nets -> Channels \union {Nowhere}]]
      /\ \A d \in Conns : \A m \in Nets \ {n} : roster'[d][m] = roster[d][m]
      /\ \A d \in Conns : (d \in Established => roster'[d][n] = ch) /\ (d \notin Established => roster'[d] = roster[d])
      /\ \A d \in Conns : d \notin overtaken' => d \notin overtaken /\ ~(d \in Established /\ conn[d] = "burst")
      /\ \A d \in Established : LoggedIn(d)
  BY <1>0, BroadcastKeeps
<1>3. /\ members' \in [Channels -> SUBSET Nets] /\ n \in members'[ch]
      /\ \A x \in Channels \ {ch} : n \notin members'[x]
      /\ \A m \in Nets \ {n} : \A x \in Channels : m \in members'[x] <=> m \in members[x]
      /\ PlacesAgree'
  BY <1>0, JoinKeeps DEF VoiceInv, VoiceTypes
<1>4. VoiceTypes'
  <2>1. channels' \subseteq Channels /\ Root \in channels'
    BY <1>0 DEF VoiceInv, VoiceTypes
  <2>2. roster' \in [Conns -> [Nets -> Channels \union {Nowhere}]] /\ members' \in [Channels -> SUBSET Nets]
    BY <1>2, <1>3
  <2> QED
    BY <1>1, <2>1, <2>2 DEF VoiceInv, VoiceTypes
<1>5. Present' = Present /\ \A d \in Conns : LoggedIn(d)' <=> LoggedIn(d)
  BY <1>1 DEF Present, LoggedIn
<1>7. NoGhostMembers'
  <2>1. n \in Present \union outlived
    BY <1>0, <1>n DEF VoiceInv, OwnersAgree, LoggedIn
  <2> QED
    BY <1>1, <1>3, <1>5, <2>1 DEF VoiceInv, NoGhostMembers
<1>8. VoiceTablesAgree' /\ WritersAgree' /\ OwnersAgree'
  BY <1>1, <1>5, TablesStay, OwnersStay DEF VoiceInv
<1>9. ASSUME NEW d \in Conns PROVE RosterAgrees(d)'
  <2>1. RightPlace(n, ch)'
    BY <1>3 DEF RightPlace
  <2>2. \/ roster'[d][n] = ch /\ LoggedIn(d) /\ (conn[d] = "burst" => d \in overtaken')
        \/ roster'[d] = roster[d] /\ control_tx'[d[1]] # d
    BY <1>1, <1>2 DEF Established
  <2> QED
    BY <1>1, <1>2, <1>3, <2>1, <2>2, ToldOrGone
<1> QED
  BY <1>3, <1>4, <1>7, <1>8, <1>9 DEF VoiceInv

\* A client logs in, and takes over from an earlier connection of its player.
LEMMA AuthStep == ASSUME VoiceInv, NEW c \in Conns, Authenticate(c) PROVE VoiceInv'
<1>n. PICK n \in Nets : n = c[1]
  BY ConnOf
<1>to. PICK to : to = {d \in Established : d[1] # n}
  OBVIOUS
<1>0. /\ conn[c] = "open" /\ sessions' = [sessions EXCEPT ![n] = IF @ = {} THEN Fresh ELSE @]
      /\ members' = Joined(n, Root) /\ crypt' = [crypt EXCEPT ![n] = c]
      /\ control_tx' = [control_tx EXCEPT ![n] = c]
      /\ burst' = [burst EXCEPT ![c] =
             [m \in Nets |-> IF sessions'[m] # {} /\ \E ch \in channels : m \in members'[ch]
                             THEN CHOOSE ch \in channels : m \in members'[ch] ELSE Nowhere]]
      /\ conn' = [conn EXCEPT ![c] = "burst"] /\ Broadcast(to, n, Root) /\ latest' = [latest EXCEPT ![n] = c]
  BY <1>n, <1>to DEF Authenticate, Writer
<1>1. UNCHANGED <<channels, listeners, udp_addr, addr_index, outlived, dropped, stolen>>
  BY DEF Authenticate, flows
<1>2. /\ roster' \in [Conns -> [Nets -> Channels \union {Nowhere}]]
      /\ \A d \in Conns : \A m \in Nets \ {n} : roster'[d][m] = roster[d][m]
      /\ \A d \in Conns : (d \in to => roster'[d][n] = Root) /\ (d \notin to => roster'[d] = roster[d])
      /\ \A d \in Conns : d \notin overtaken' => d \notin overtaken /\ ~(d \in to /\ conn[d] = "burst")
      /\ \A d \in to : LoggedIn(d)
  <2>1. to \subseteq Established /\ Root \in Channels \union {Nowhere} /\ Broadcast(to, n, Root)
    BY <1>0, <1>to, ChannelOf
  <2> QED
    BY <2>1, BroadcastKeeps
<1>3. /\ members' \in [Channels -> SUBSET Nets] /\ n \in members'[Root]
      /\ \A x \in Channels \ {Root} : n \notin members'[x]
      /\ \A m \in Nets \ {n} : \A x \in Channels : m \in members'[x] <=> m \in members[x]
      /\ PlacesAgree'
  <2>1. members \in [Channels -> SUBSET Nets] /\ PlacesAgree /\ channels \subseteq channels' /\ Root \in channels'
    BY <1>1 DEF VoiceInv, VoiceTypes
  <2> QED
    BY <1>0, <2>1, ChannelOf, JoinKeeps
<1>4. /\ sessions' \in [Nets -> SUBSET SessionRecords] /\ sessions'[n] # {}
      /\ \A m \in Nets \ {n} : sessions'[m] = sessions[m]
      /\ \A m \in Nets : \A s, t \in sessions'[m] : s = t
  <2>1. PICK S : S = IF sessions[n] = {} THEN Fresh ELSE sessions[n]
    OBVIOUS
  <2>2. Fresh \subseteq SessionRecords /\ Fresh # {} /\ \A s, t \in Fresh : s = t
    <3>1. [mute |-> FALSE, self_deaf |-> FALSE, targets |-> {}] \in SessionRecords
      BY DEF SessionRecords
    <3> QED
      BY <3>1 DEF Fresh
  <2>3. sessions \in [Nets -> SUBSET SessionRecords] /\ \A m \in Nets : \A s, t \in sessions[m] : s = t
    BY DEF VoiceInv, VoiceTypes
  <2>4. S \in SUBSET SessionRecords /\ S # {} /\ \A s, t \in S : s = t
    BY <2>1, <2>2, <2>3
  <2>5. sessions' = [sessions EXCEPT ![n] = S]
    BY <1>0, <2>1
  <2>6. sessions' \in [Nets -> SUBSET SessionRecords] /\ sessions'[n] = S
        /\ \A m \in Nets \ {n} : sessions'[m] = sessions[m]
    BY <2>3, <2>4, <2>5
  <2> QED
    BY <2>3, <2>4, <2>6
<1>5. /\ crypt' \in [Nets -> Conns \union {NoConn}] /\ control_tx' \in [Nets -> Conns \union {NoConn}]
      /\ crypt'[n] = c /\ control_tx'[n] = c
      /\ \A m \in Nets \ {n} : crypt'[m] = crypt[m] /\ control_tx'[m] = control_tx[m]
  <2>1. crypt \in [Nets -> Conns \union {NoConn}] /\ control_tx \in [Nets -> Conns \union {NoConn}]
    BY DEF VoiceInv, VoiceTypes
  <2> QED
    BY <1>0, <2>1
<1>6. /\ conn' \in [Conns -> {"idle", "open", "burst", "live", "closed"}]
      /\ conn'[c] = "burst" /\ \A d \in Conns \ {c} : conn'[d] = conn[d]
  <2>1. conn \in [Conns -> {"idle", "open", "burst", "live", "closed"}]
    BY DEF VoiceInv, VoiceTypes
  <2> QED
    BY <1>0, <2>1
<1>7. PICK snap \in [Nets -> Channels \union {Nowhere}] :
         /\ snap = [m \in Nets |-> IF sessions'[m] # {} /\ \E ch \in channels : m \in members'[ch]
                                   THEN CHOOSE ch \in channels : m \in members'[ch] ELSE Nowhere]
         /\ \A m \in Nets : \/ snap[m] \in Channels /\ m \in members'[snap[m]]
                            \/ /\ snap[m] = Nowhere
                               /\ sessions'[m] = {} \/ \A ch \in channels : m \notin members'[ch]
  <2>1. channels \subseteq Channels
    BY DEF VoiceInv, VoiceTypes
  <2>2. ASSUME NEW m \in Nets, \E ch \in channels : m \in members'[ch]
        PROVE  /\ (CHOOSE ch \in channels : m \in members'[ch]) \in channels
               /\ m \in members'[CHOOSE ch \in channels : m \in members'[ch]]
    BY <2>2
  <2>3. PICK snap : snap = [m \in Nets |-> IF sessions'[m] # {} /\ \E ch \in channels : m \in members'[ch]
                                           THEN CHOOSE ch \in channels : m \in members'[ch] ELSE Nowhere]
    OBVIOUS
  <2>4. ASSUME NEW m \in Nets
        PROVE  \/ snap[m] \in Channels /\ m \in members'[snap[m]]
               \/ /\ snap[m] = Nowhere
                  /\ sessions'[m] = {} \/ \A ch \in channels : m \notin members'[ch]
    <3>1. CASE sessions'[m] # {} /\ \E ch \in channels : m \in members'[ch]
      <4>1. snap[m] = CHOOSE ch \in channels : m \in members'[ch]
        BY <2>3, <3>1
      <4> QED
        BY <2>1, <2>2, <3>1, <4>1
    <3>2. CASE ~(sessions'[m] # {} /\ \E ch \in channels : m \in members'[ch])
      BY <2>3, <3>2
    <3> QED
      BY <3>1, <3>2
  <2>5. snap \in [Nets -> Channels \union {Nowhere}]
    <3>1. \A m \in Nets : snap[m] \in Channels \union {Nowhere}
      BY <2>4
    <3>2. snap = [m \in Nets |-> snap[m]]
      BY <2>3
    <3> QED
      BY <3>1, <3>2
  <2> QED
    BY <2>3, <2>4, <2>5
<1>8. /\ burst' \in [Conns -> [Nets -> Channels \union {Nowhere}]]
      /\ burst'[c] = snap /\ \A d \in Conns \ {c} : burst'[d] = burst[d]
  <2>1. burst' = [burst EXCEPT ![c] = snap]
    BY <1>0, <1>7
  <2>2. burst \in [Conns -> [Nets -> Channels \union {Nowhere}]]
    BY DEF VoiceInv, VoiceTypes
  <2> QED
    BY <2>1, <2>2
<1>18. /\ latest' \in [Nets -> Conns \union {NoConn}] /\ latest'[n] = c
       /\ \A m \in Nets \ {n} : latest'[m] = latest[m]
  <2>1. latest \in [Nets -> Conns \union {NoConn}]
    BY DEF VoiceInv, VoiceTypes
  <2> QED
    BY <1>0, <2>1
<1>9. VoiceTypes'
  <2>1. roster' \in [Conns -> [Nets -> Channels \union {Nowhere}]] /\ members' \in [Channels -> SUBSET Nets]
    BY <1>2, <1>3
  <2> QED
    BY <1>1, <1>4, <1>5, <1>6, <1>8, <1>18, <2>1 DEF VoiceInv, VoiceTypes
<1>10. \A m \in Nets : m \in Present' <=> m \in Present \/ m = n
  BY <1>4 DEF Present
<1>11. \A d \in Conns : LoggedIn(d)' <=> LoggedIn(d) \/ d = c
  BY <1>6 DEF LoggedIn
<1>12. NoGhostMembers'
  BY <1>1, <1>3, <1>10 DEF VoiceInv, NoGhostMembers
<1>13. VoiceTablesAgree'
  <2>1. ASSUME NEW m \in Nets
        PROVE  (m \in Present' <=> control_tx'[m] # NoConn) /\ crypt'[m] = control_tx'[m]
    <3>1. CASE m = n
      BY <1>5, <1>10, <3>1, ConnOf
    <3>2. CASE m # n
      BY <1>5, <1>10, <3>2 DEF VoiceInv, VoiceTablesAgree
    <3> QED
      BY <3>1, <3>2
  <2>2. \A m \in Nets : udp_addr'[m] # NoAddr => m \in Present' /\ addr_index'[udp_addr'[m]] = m
    BY <1>1, <1>10 DEF VoiceInv, VoiceTablesAgree
  <2>3. \A a \in Addrs : addr_index'[a] # NoNet => udp_addr'[addr_index'[a]] = a
    BY <1>1 DEF VoiceInv, VoiceTablesAgree
  <2> QED
    BY <2>1, <2>2, <2>3 DEF VoiceTablesAgree
<1>14. WritersAgree'
  <2>1. ASSUME NEW m \in Nets, control_tx'[m] # NoConn
        PROVE  control_tx'[m] \in Conns /\ control_tx'[m][1] = m /\ conn'[control_tx'[m]] \in {"burst", "live"}
    <3>1. CASE m = n
      BY <1>n, <1>5, <1>6, <3>1
    <3>2. CASE m # n
      <4>1. control_tx'[m] = control_tx[m]
        BY <1>5, <3>2
      <4>2. control_tx[m] \in Conns /\ control_tx[m][1] = m /\ LoggedIn(control_tx[m])
        BY <2>1, <4>1 DEF VoiceInv, WritersAgree
      <4> QED
        BY <1>11, <4>1, <4>2 DEF LoggedIn
    <3> QED
      BY <3>1, <3>2
  <2> QED
    BY <2>1 DEF WritersAgree, LoggedIn
<1>15. OwnersAgree'
  <2>1. ASSUME NEW d \in Conns, LoggedIn(d)'
        PROVE  /\ d[1] \in Present' \/ d[1] \in outlived'
               /\ latest'[d[1]] = d /\ d[1] \notin dropped' \union stolen' => control_tx'[d[1]] = d
    <3>1. CASE d[1] = n
      <4>1. ASSUME latest'[n] = d, d # c PROVE FALSE
        BY <1>18, <4>1
      <4> QED
        BY <1>5, <1>10, <3>1, <4>1
    <3>2. CASE d[1] # n
      <4>1. LoggedIn(d) /\ d[1] \in Nets \ {n}
        BY <1>n, <1>11, <2>1, <3>2, ConnOf
      <4>2. latest'[d[1]] = latest[d[1]] /\ control_tx'[d[1]] = control_tx[d[1]]
        BY <1>5, <1>18, <4>1
      <4> QED
        BY <1>1, <1>10, <4>1, <4>2 DEF VoiceInv, OwnersAgree
    <3> QED
      BY <3>1, <3>2
  <2> QED
    BY <2>1 DEF OwnersAgree
<1>16. ASSUME NEW d \in Conns \ {c} PROVE RosterAgrees(d)'
  <2>1. RightPlace(n, Root)'
    BY <1>3, ChannelOf DEF RightPlace
  <2>2. \/ roster'[d][n] = Root /\ LoggedIn(d) /\ (conn[d] = "burst" => d \in overtaken')
        \/ roster'[d] = roster[d] /\ control_tx'[d[1]] # d
    <3>1. CASE d \in to
      BY <1>2, <3>1
    <3>2. CASE d \notin to
      <4>1. CASE d[1] = n
        BY <1>2, <1>5, <3>2, <4>1
      <4>2. CASE d[1] # n
        <5>1. control_tx[d[1]] # d /\ d[1] \in Nets \ {n}
          BY <1>to, <3>2, <4>2, ConnOf DEF Established
        <5> QED
          BY <1>2, <1>5, <3>2, <5>1
      <4> QED
        BY <4>1, <4>2
    <3> QED
      BY <3>1, <3>2
  <2>3. control_tx'[d[1]] = d => control_tx[d[1]] = d
    BY <1>5, ConnOf
  <2> QED
    BY <1>1, <1>2, <1>3, <1>6, <1>8, <2>1, <2>2, <2>3, ToldOrGone
<1>17. RosterAgrees(c)'
  <2>1. c \notin to
    BY <1>n, <1>to
  <2>2. \A m \in Nets : roster'[c][m] = Nowhere
    <3>1. roster'[c] = roster[c] /\ RosterAgrees(c) /\ conn[c] = "open"
      BY <1>0, <1>2, <2>1 DEF VoiceInv
    <3> QED
      BY <3>1 DEF RosterAgrees
  <2>3. ASSUME outlived' = {}, NEW m \in Nets PROVE RightPlace(m, burst[c][m])'
    <3>1. CASE snap[m] \in Channels /\ m \in members'[snap[m]]
      BY <1>8, <3>1 DEF RightPlace
    <3>2. CASE snap[m] = Nowhere /\ sessions'[m] = {}
      <4>1. m \notin Present'
        BY <3>2 DEF Present
      <4>2. \A x \in Channels : m \notin members'[x]
        BY <1>12, <2>3, <4>1 DEF NoGhostMembers
      <4> QED
        BY <1>8, <3>2, <4>2 DEF RightPlace
    <3>3. CASE snap[m] = Nowhere /\ \A ch \in channels : m \notin members'[ch]
      <4>1. \A x \in Channels : m \notin members'[x]
        BY <1>1, <1>3, <3>3 DEF PlacesAgree
      <4> QED
        BY <1>8, <3>3, <4>1 DEF RightPlace
    <3> QED
      BY <1>7, <3>1, <3>2, <3>3
  <2> QED
    BY <1>6, <2>2, <2>3 DEF RosterAgrees
<1> QED
  BY <1>3, <1>9, <1>12, <1>13, <1>14, <1>15, <1>16, <1>17 DEF VoiceInv

\* A session is torn down: the tables of the player are cleared together.
LEMMA GoneKeeps ==
    ASSUME VoiceInv, NEW n \in Nets, Without(n)
    PROVE  /\ sessions' \in [Nets -> SUBSET SessionRecords] /\ \A m \in Nets : \A s, t \in sessions'[m] : s = t
           /\ \A m \in Nets : m \in Present' <=> m \in Present /\ m # n
           /\ members' \in [Channels -> SUBSET Nets] /\ listeners' \in [Channels -> SUBSET Nets]
           /\ \A x \in Channels : n \notin members'[x] /\ n \notin listeners'[x]
           /\ \A m \in Nets \ {n} : \A x \in Channels : m \in members'[x] <=> m \in members[x]
           /\ \A m \in Nets \ {n} : \A x \in Channels : m \in listeners'[x] <=> m \in listeners[x]
           /\ crypt' \in [Nets -> Conns \union {NoConn}] /\ control_tx' \in [Nets -> Conns \union {NoConn}]
           /\ control_tx'[n] = NoConn /\ \A m \in Nets \ {n} : control_tx'[m] = control_tx[m]
           /\ udp_addr' \in [Nets -> Addrs \union {NoAddr}] /\ addr_index' \in [Addrs -> Nets \union {NoNet}]
           /\ PlacesAgree' /\ VoiceTablesAgree' /\ UNCHANGED channels
<1>0. /\ sessions' = [sessions EXCEPT ![n] = {}]
      /\ members' = [ch \in Channels |-> members[ch] \ {n}] /\ listeners' = [ch \in Channels |-> listeners[ch] \ {n}]
      /\ crypt' = [crypt EXCEPT ![n] = NoConn] /\ control_tx' = [control_tx EXCEPT ![n] = NoConn]
      /\ udp_addr' = [udp_addr EXCEPT ![n] = NoAddr]
      /\ addr_index' = [a \in Addrs |-> IF a = udp_addr[n] THEN NoNet ELSE addr_index[a]]
      /\ UNCHANGED channels
  BY DEF Without, ForgetListens, ForgetAddress
<1>1. /\ sessions \in [Nets -> SUBSET SessionRecords] /\ \A m \in Nets : \A s, t \in sessions[m] : s = t
      /\ members \in [Channels -> SUBSET Nets] /\ listeners \in [Channels -> SUBSET Nets]
      /\ crypt \in [Nets -> Conns \union {NoConn}] /\ control_tx \in [Nets -> Conns \union {NoConn}]
      /\ udp_addr \in [Nets -> Addrs \union {NoAddr}] /\ addr_index \in [Addrs -> Nets \union {NoNet}]
  BY DEF VoiceInv, VoiceTypes
<1>2. sessions' \in [Nets -> SUBSET SessionRecords] /\ sessions'[n] = {}
      /\ \A m \in Nets \ {n} : sessions'[m] = sessions[m]
  BY <1>0, <1>1
<1>3. \A m \in Nets : \A s, t \in sessions'[m] : s = t
  BY <1>1, <1>2
<1>4. \A m \in Nets : m \in Present' <=> m \in Present /\ m # n
  BY <1>2 DEF Present
<1>5. /\ members' \in [Channels -> SUBSET Nets] /\ \A x \in Channels : members'[x] = members[x] \ {n}
  BY <1>0, <1>1
<1>6. /\ listeners' \in [Channels -> SUBSET Nets] /\ \A x \in Channels : listeners'[x] = listeners[x] \ {n}
  BY <1>0, <1>1
<1>7. /\ \A x \in Channels : n \notin members'[x] /\ n \notin listeners'[x]
      /\ \A m \in Nets \ {n} : \A x \in Channels : m \in members'[x] <=> m \in members[x]
      /\ \A m \in Nets \ {n} : \A x \in Channels : m \in listeners'[x] <=> m \in listeners[x]
  BY <1>5, <1>6
<1>8. /\ crypt' \in [Nets -> Conns \union {NoConn}] /\ crypt'[n] = NoConn
      /\ \A m \in Nets \ {n} : crypt'[m] = crypt[m]
  BY <1>0, <1>1
<1>9. /\ control_tx' \in [Nets -> Conns \union {NoConn}] /\ control_tx'[n] = NoConn
      /\ \A m \in Nets \ {n} : control_tx'[m] = control_tx[m]
  BY <1>0, <1>1
<1>10. /\ udp_addr' \in [Nets -> Addrs \union {NoAddr}] /\ udp_addr'[n] = NoAddr
       /\ \A m \in Nets \ {n} : udp_addr'[m] = udp_addr[m]
  BY <1>0, <1>1
<1>11. /\ addr_index' \in [Addrs -> Nets \union {NoNet}]
       /\ \A a \in Addrs : (a = udp_addr[n] => addr_index'[a] = NoNet) /\ (a # udp_addr[n] => addr_index'[a] = addr_index[a])
  BY <1>0, <1>1
<1>12. PlacesAgree'
  BY <1>0, <1>5 DEF VoiceInv, PlacesAgree
<1>13. VoiceTablesAgree'
  <2>1. ASSUME NEW m \in Nets
        PROVE  (m \in Present' <=> control_tx'[m] # NoConn) /\ crypt'[m] = control_tx'[m]
    <3>1. CASE m = n
      BY <1>4, <1>8, <1>9, <3>1
    <3>2. CASE m # n
      BY <1>4, <1>8, <1>9, <3>2 DEF VoiceInv, VoiceTablesAgree
    <3> QED
      BY <3>1, <3>2
  <2>2. ASSUME NEW m \in Nets, udp_addr'[m] # NoAddr PROVE m \in Present' /\ addr_index'[udp_addr'[m]] = m
    <3>1. m # n /\ udp_addr'[m] = udp_addr[m] /\ udp_addr[m] # NoAddr
      BY <1>10, <2>2
    <3>2. m \in Present /\ addr_index[udp_addr[m]] = m /\ udp_addr[m] \in Addrs
      BY <1>1, <3>1 DEF VoiceInv, VoiceTablesAgree
    <3>3. udp_addr[m] # udp_addr[n]
      BY <3>1, <3>2 DEF VoiceInv, VoiceTablesAgree
    <3> QED
      BY <1>4, <1>11, <3>1, <3>2, <3>3
  <2>3. ASSUME NEW x \in Addrs, addr_index'[x] # NoNet PROVE udp_addr'[addr_index'[x]] = x
    <3>1. x # udp_addr[n] /\ addr_index'[x] = addr_index[x]
      BY <1>11, <2>3
    <3>2. udp_addr[addr_index[x]] = x /\ addr_index[x] \in Nets
      BY <1>1, <2>3, <3>1 DEF VoiceInv, VoiceTablesAgree
    <3> QED
      BY <1>10, <3>1, <3>2
  <2> QED
    BY <2>1, <2>2, <2>3 DEF VoiceTablesAgree
<1> QED
  BY <1>0, <1>2, <1>3, <1>4, <1>5, <1>6, <1>7, <1>8, <1>9, <1>10, <1>11, <1>12, <1>13

\* What either way of tearing a session down does: the connections `gone' close,
\* and the established clients of other players are told.
TornDown(n, gone) ==
    /\ Without(n) /\ \A d \in gone : d[1] = n /\ conn'[d] = "closed"
    /\ conn' \in [Conns -> {"idle", "open", "burst", "live", "closed"}]
    /\ \A d \in Conns \ gone : conn'[d] = conn[d]
    /\ roster' \in [Conns -> [Nets -> Channels \union {Nowhere}]]
    /\ \A d \in Conns \ gone : \A m \in Nets \ {n} : roster'[d][m] = roster[d][m]
    /\ \A d \in Conns \ gone : IF d \in Established /\ d[1] # n THEN roster'[d][n] = Nowhere
                                                              ELSE roster'[d] = roster[d]
    /\ \A d \in Conns \ gone : d \notin overtaken' =>
           d \notin overtaken /\ ~(d \in Established /\ d[1] # n /\ conn[d] = "burst")
    /\ UNCHANGED <<burst, latest>>
    /\ outlived \subseteq outlived' /\ dropped \subseteq dropped' /\ stolen \subseteq stolen'
    /\ \A d \in Conns \ gone : d[1] = n /\ LoggedIn(d) =>
           n \in outlived' /\ (control_tx[n] = d => n \in dropped' \union stolen')

\* Tearing a session down preserves the inductive invariant.
LEMMA GoneStep == ASSUME VoiceInv, NEW n \in Nets, NEW gone, TornDown(n, gone) PROVE VoiceInv'
<1>a. Without(n) /\ \A d \in gone : d[1] = n /\ conn'[d] = "closed"
  BY DEF TornDown
<1>b. /\ conn' \in [Conns -> {"idle", "open", "burst", "live", "closed"}]
      /\ roster' \in [Conns -> [Nets -> Channels \union {Nowhere}]] /\ UNCHANGED <<burst, latest>>
  BY DEF TornDown
<1>c. \A d \in Conns \ gone : conn'[d] = conn[d]
  BY DEF TornDown
<1>d. /\ \A d \in Conns \ gone : \A m \in Nets \ {n} : roster'[d][m] = roster[d][m]
      /\ \A d \in Conns \ gone : IF d \in Established /\ d[1] # n THEN roster'[d][n] = Nowhere
                                                                ELSE roster'[d] = roster[d]
      /\ \A d \in Conns \ gone : d \notin overtaken' =>
             d \notin overtaken /\ ~(d \in Established /\ d[1] # n /\ conn[d] = "burst")
  BY DEF TornDown
<1>e. outlived \subseteq outlived' /\ dropped \subseteq dropped' /\ stolen \subseteq stolen'
  BY DEF TornDown
<1>f. \A d \in Conns \ gone : d[1] = n /\ LoggedIn(d) =>
         n \in outlived' /\ (control_tx[n] = d => n \in dropped' \union stolen')
  BY DEF TornDown
<1>1. /\ sessions' \in [Nets -> SUBSET SessionRecords] /\ \A m \in Nets : \A s, t \in sessions'[m] : s = t
      /\ members' \in [Channels -> SUBSET Nets] /\ listeners' \in [Channels -> SUBSET Nets]
      /\ crypt' \in [Nets -> Conns \union {NoConn}] /\ control_tx' \in [Nets -> Conns \union {NoConn}]
      /\ udp_addr' \in [Nets -> Addrs \union {NoAddr}] /\ addr_index' \in [Addrs -> Nets \union {NoNet}]
      /\ UNCHANGED channels
  BY <1>a, GoneKeeps
<1>2. PlacesAgree' /\ VoiceTablesAgree' /\ \A m \in Nets : m \in Present' <=> m \in Present /\ m # n
  BY <1>a, GoneKeeps
<1>3. /\ \A x \in Channels : n \notin members'[x] /\ n \notin listeners'[x]
      /\ \A m \in Nets \ {n} : \A x \in Channels : m \in members'[x] <=> m \in members[x]
      /\ \A m \in Nets \ {n} : \A x \in Channels : m \in listeners'[x] <=> m \in listeners[x]
  BY <1>a, GoneKeeps
<1>4. control_tx'[n] = NoConn /\ \A m \in Nets \ {n} : control_tx'[m] = control_tx[m]
  BY <1>a, GoneKeeps
<1>5. VoiceTypes'
  BY <1>b, <1>1 DEF VoiceInv, VoiceTypes
<1>6. NoGhostMembers'
  <2> SUFFICES ASSUME NEW m \in Nets \ (Present' \union outlived'), NEW x \in Channels
               PROVE  m \notin members'[x] /\ m \notin listeners'[x]
    BY DEF NoGhostMembers
  <2>1. CASE m = n
    BY <1>3, <2>1
  <2>2. CASE m # n
    <3>1. m \in Nets \ (Present \union outlived)
      BY <1>e, <1>2, <2>2
    <3>2. m \notin members[x] /\ m \notin listeners[x]
      BY <3>1 DEF VoiceInv, NoGhostMembers
    <3> QED
      BY <1>3, <2>2, <3>2
  <2> QED
    BY <2>1, <2>2
<1>7. WritersAgree'
  <2>1. ASSUME NEW m \in Nets, control_tx'[m] # NoConn
        PROVE  control_tx'[m] \in Conns /\ control_tx'[m][1] = m /\ conn'[control_tx'[m]] \in {"burst", "live"}
    <3>1. m # n /\ control_tx'[m] = control_tx[m]
      BY <1>4, <2>1
    <3>2. control_tx[m] \in Conns /\ control_tx[m][1] = m /\ LoggedIn(control_tx[m])
      BY <2>1, <3>1 DEF VoiceInv, WritersAgree
    <3>3. control_tx[m] \in Conns \ gone
      BY <1>a, <3>1, <3>2
    <3>4. conn'[control_tx[m]] = conn[control_tx[m]]
      BY <1>c, <3>3
    <3> QED
      BY <3>1, <3>2, <3>4 DEF LoggedIn
  <2> QED
    BY <2>1 DEF WritersAgree, LoggedIn
<1>8. OwnersAgree'
  <2>1. ASSUME NEW d \in Conns, LoggedIn(d)'
        PROVE  /\ d[1] \in Present' \/ d[1] \in outlived'
               /\ latest'[d[1]] = d /\ d[1] \notin dropped' \union stolen' => control_tx'[d[1]] = d
    <3>1. d \in Conns \ gone
      BY <1>a, <2>1 DEF LoggedIn
    <3>2. LoggedIn(d) /\ d[1] \in Nets
      BY <1>c, <2>1, <3>1, ConnOf DEF LoggedIn
    <3>3. /\ d[1] \in Present \/ d[1] \in outlived
          /\ latest[d[1]] = d /\ d[1] \notin dropped \union stolen => control_tx[d[1]] = d
      BY <3>2 DEF VoiceInv, OwnersAgree
    <3>4. CASE d[1] = n
      BY <1>b, <1>e, <1>f, <3>1, <3>2, <3>3, <3>4
    <3>5. CASE d[1] # n
      BY <1>b, <1>e, <1>2, <1>4, <3>2, <3>3, <3>5
    <3> QED
      BY <3>4, <3>5
  <2> QED
    BY <2>1 DEF OwnersAgree
<1>9. ASSUME NEW d \in Conns PROVE RosterAgrees(d)'
  <2>1. CASE d \in gone
    BY <1>a, <2>1 DEF RosterAgrees
  <2>2. CASE d \notin gone
    <3>1. RightPlace(n, Nowhere)'
      BY <1>3 DEF RightPlace
    <3>2. d[1] \in Nets /\ d # NoConn
      BY ConnOf
    <3>3. control_tx'[d[1]] = d => control_tx[d[1]] = d /\ d[1] # n
      BY <1>4, <3>2
    <3>4. \/ roster'[d][n] = Nowhere /\ LoggedIn(d) /\ (conn[d] = "burst" => d \in overtaken')
          \/ roster'[d] = roster[d] /\ control_tx'[d[1]] # d
      <4>1. CASE d \in Established /\ d[1] # n
        <5>1. LoggedIn(d)
          BY <3>2, <4>1 DEF VoiceInv, WritersAgree, Established
        <5> QED
          BY <1>d, <2>2, <4>1, <5>1
      <4>2. CASE ~(d \in Established /\ d[1] # n)
        <5>1. control_tx'[d[1]] # d
          BY <3>3, <4>2 DEF Established
        <5>2. roster'[d] = roster[d]
          BY <1>d, <2>2, <4>2
        <5> QED
          BY <5>1, <5>2
      <4> QED
        BY <4>1, <4>2
    <3>5. conn'[d] = conn[d] /\ burst'[d] = burst[d] /\ (d \notin overtaken' => d \notin overtaken)
      BY <1>b, <1>c, <1>d, <2>2
    <3>6. outlived' = {} => outlived = {}
      BY <1>e
    <3>7. \A m \in Nets \ {n} : roster'[d][m] = roster[d][m]
      BY <1>d, <2>2
    <3>8. \A m \in Nets \ {n} : \A x \in Channels : m \in members'[x] <=> m \in members[x]
      BY <1>3
    <3> QED
      BY <3>1, <3>3, <3>4, <3>5, <3>6, <3>7, <3>8, ToldOrGone
  <2> QED
    BY <2>1, <2>2
<1> QED
  BY <1>2, <1>5, <1>6, <1>7, <1>8, <1>9 DEF VoiceInv

\* The game server drops a player.
LEMMA DroppedStep == ASSUME VoiceInv, NEW n \in Nets, OnPlayerDropped(n) PROVE VoiceInv'
<1>1. /\ Without(n) /\ Broadcast({c \in Established : c[1] # n}, n, Nowhere)
      /\ Outlives(n, Conns) /\ dropped' = dropped \union {n} /\ UNCHANGED <<conn, burst, latest, stolen>>
  BY DEF OnPlayerDropped
<1>to. PICK to : to = {c \in Established : c[1] # n}
  OBVIOUS
<1>2. /\ roster' \in [Conns -> [Nets -> Channels \union {Nowhere}]]
      /\ \A d \in Conns : \A m \in Nets \ {n} : roster'[d][m] = roster[d][m]
      /\ \A d \in Conns : (d \in to => roster'[d][n] = Nowhere) /\ (d \notin to => roster'[d] = roster[d])
      /\ \A d \in Conns : d \notin overtaken' => d \notin overtaken /\ ~(d \in to /\ conn[d] = "burst")
      /\ \A d \in to : LoggedIn(d)
  <2>1. to \subseteq Established /\ Nowhere \in Channels \union {Nowhere} /\ Broadcast(to, n, Nowhere)
    BY <1>1, <1>to
  <2> QED
    BY <2>1, BroadcastKeeps
<1>3. /\ outlived \subseteq outlived' /\ dropped \subseteq dropped' /\ stolen \subseteq stolen'
      /\ \A d \in Conns : d[1] = n /\ LoggedIn(d) => n \in outlived'
  BY <1>1 DEF Outlives, LoggedIn
<1>4. conn \in [Conns -> {"idle", "open", "burst", "live", "closed"}]
  BY DEF VoiceInv, VoiceTypes
<1>5. /\ \A d \in Conns \ {} : conn'[d] = conn[d] /\ \A m \in Nets \ {n} : roster'[d][m] = roster[d][m]
      /\ \A d \in Conns \ {} : IF d \in Established /\ d[1] # n THEN roster'[d][n] = Nowhere
                                                              ELSE roster'[d] = roster[d]
      /\ \A d \in Conns \ {} : d \notin overtaken' =>
             d \notin overtaken /\ ~(d \in Established /\ d[1] # n /\ conn[d] = "burst")
      /\ \A d \in Conns \ {} : d[1] = n /\ LoggedIn(d) =>
             n \in outlived' /\ (control_tx[n] = d => n \in dropped' \union stolen')
  BY <1>1, <1>to, <1>2, <1>3
<1>6. \A d \in {} : d[1] = n /\ conn'[d] = "closed"
  OBVIOUS
<1>7. conn' \in [Conns -> {"idle", "open", "burst", "live", "closed"}]
  BY <1>1, <1>4
<1>8. TornDown(n, {})
  BY <1>1, <1>2, <1>3, <1>5, <1>6, <1>7 DEF TornDown
<1> QED
  BY <1>8, GoneStep

\* A connection ends.
LEMMA HangUpStep == ASSUME VoiceInv, NEW c \in Conns, HangUp(c) PROVE VoiceInv'
<1>n. PICK n \in Nets : n = c[1]
  BY ConnOf
<1>0. /\ conn[c] \in {"open", "live"} /\ conn' = [conn EXCEPT ![c] = "closed"] /\ UNCHANGED <<burst, latest, dropped>>
  BY DEF HangUp
<1>1. /\ conn' \in [Conns -> {"idle", "open", "burst", "live", "closed"}]
      /\ conn'[c] = "closed" /\ \A d \in Conns \ {c} : conn'[d] = conn[d]
  <2>1. conn \in [Conns -> {"idle", "open", "burst", "live", "closed"}]
    BY DEF VoiceInv, VoiceTypes
  <2> QED
    BY <1>0, <2>1
<1>2. PICK none \in [Nets -> Channels \union {Nowhere}] : none = [m \in Nets |-> Nowhere]
  OBVIOUS
<1>r. roster \in [Conns -> [Nets -> Channels \union {Nowhere}]]
  BY DEF VoiceInv, VoiceTypes
<1>3. CASE conn[c] = "live" /\ n \in Present
  <2>1. /\ Without(n) /\ Outlives(n, Conns \ {c}) /\ UserRemove(n, c)
        /\ stolen' = IF control_tx[n] # c THEN stolen \union {n} ELSE stolen
    BY <1>n, <1>3 DEF HangUp
  <2>to. PICK to : to = {d \in Established : d[1] # n}
    OBVIOUS
  <2>2. roster' = [d \in Conns |-> IF d = c THEN none
                                   ELSE IF d \in to THEN [roster[d] EXCEPT ![n] = Nowhere] ELSE roster[d]]
    BY <1>2, <2>1, <2>to DEF UserRemove
  <2>3. overtaken' = (overtaken \union {d \in to : conn[d] = "burst"}) \ {c}
    BY <2>1, <2>to DEF UserRemove
  <2>4. \A d \in Conns : roster[d] \in [Nets -> Channels \union {Nowhere}]
                        /\ [roster[d] EXCEPT ![n] = Nowhere] \in [Nets -> Channels \union {Nowhere}]
    BY <1>r
  <2>5. roster' \in [Conns -> [Nets -> Channels \union {Nowhere}]]
    BY <2>2, <2>4
  <2>6. \A d \in Conns \ {c} : roster'[d] = IF d \in to THEN [roster[d] EXCEPT ![n] = Nowhere] ELSE roster[d]
    BY <2>2
  <2>7. /\ \A d \in Conns \ {c} : \A m \in Nets \ {n} : roster'[d][m] = roster[d][m]
        /\ \A d \in Conns \ {c} : (d \in to => roster'[d][n] = Nowhere) /\ (d \notin to => roster'[d] = roster[d])
    BY <2>4, <2>6
  <2>8. \A d \in Conns \ {c} : IF d \in Established /\ d[1] # n THEN roster'[d][n] = Nowhere
                                                              ELSE roster'[d] = roster[d]
    BY <2>to, <2>7
  <2>9. \A d \in Conns \ {c} : d \notin overtaken' =>
             d \notin overtaken /\ ~(d \in Established /\ d[1] # n /\ conn[d] = "burst")
    BY <2>to, <2>3
  <2>10. outlived \subseteq outlived' /\ dropped \subseteq dropped' /\ stolen \subseteq stolen'
    BY <1>0, <2>1 DEF Outlives
  <2>11. \A d \in Conns \ {c} : d[1] = n /\ LoggedIn(d) =>
             n \in outlived' /\ (control_tx[n] = d => n \in dropped' \union stolen')
    BY <2>1 DEF Outlives, LoggedIn
  <2>12. \A d \in {c} : d[1] = n /\ conn'[d] = "closed"
    BY <1>n, <1>1
  <2>13. TornDown(n, {c})
    BY <1>0, <1>1, <2>1, <2>5, <2>7, <2>8, <2>9, <2>10, <2>11, <2>12 DEF TornDown
  <2> QED
    BY <2>13, GoneStep
<1>4. CASE ~(conn[c] = "live" /\ n \in Present)
  <2>1. /\ roster' = [roster EXCEPT ![c] = none] /\ overtaken' = overtaken \ {c}
        /\ UNCHANGED <<sessions, channels, members, listeners, crypt, control_tx, udp_addr, addr_index, outlived, stolen>>
    BY <1>n, <1>2, <1>4 DEF HangUp, tables, places, flows
  <2>2. /\ roster' \in [Conns -> [Nets -> Channels \union {Nowhere}]]
        /\ \A d \in Conns \ {c} : roster'[d] = roster[d]
    BY <1>r, <2>1
  <2>3. VoiceTypes'
    BY <1>0, <1>1, <2>1, <2>2 DEF VoiceInv, VoiceTypes
  <2>4. PlacesAgree' /\ NoGhostMembers' /\ Present' = Present
    BY <2>1 DEF VoiceInv, PlacesAgree, NoGhostMembers, Present
  <2>5. \A d \in Conns : LoggedIn(d)' => LoggedIn(d)
    BY <1>1 DEF LoggedIn
  <2>6. \A m \in Nets : control_tx[m] # c
    <3>1. ASSUME NEW m \in Nets, control_tx[m] = c PROVE FALSE
      <4>1. c # NoConn
        BY ConnOf
      <4>2. c[1] = m /\ conn[c] \in {"burst", "live"} /\ m \in Present
        BY <3>1, <4>1 DEF VoiceInv, WritersAgree, LoggedIn, VoiceTablesAgree
      <4> QED
        BY <1>n, <1>0, <1>4, <4>2
    <3> QED
      BY <3>1
  <2>7. OwnersAgree' /\ VoiceTablesAgree'
    BY <1>0, <2>1, <2>4, <2>5, OwnersStay DEF VoiceInv, VoiceTablesAgree
  <2>8. WritersAgree'
    BY <1>1, <2>1, <2>6 DEF VoiceInv, WritersAgree, LoggedIn
  <2>9. RosterAgrees(c)'
    BY <1>1 DEF RosterAgrees
  <2>10. ASSUME NEW d \in Conns \ {c} PROVE RosterAgrees(d)'
    <3>1. /\ conn'[d] = conn[d] /\ roster'[d] = roster[d] /\ (d \notin overtaken' => d \notin overtaken)
          /\ RosterAgrees(d)
      BY <1>1, <2>1, <2>2 DEF VoiceInv
    <3> QED
      BY <1>0, <2>1, <3>1 DEF RosterAgrees, RightPlace
  <2> QED
    BY <2>3, <2>4, <2>7, <2>8, <2>9, <2>10 DEF VoiceInv
<1> QED
  BY <1>3, <1>4

\* Every step preserves the inductive invariant.
LEMMA VoiceNextStep == VoiceInv /\ [VoiceNext]_voiceVars => VoiceInv'
<1> SUFFICES ASSUME VoiceInv, [VoiceNext]_voiceVars PROVE VoiceInv'
  OBVIOUS
<1>1. CASE UNCHANGED voiceVars
  <2>1. UNCHANGED <<conn, burst, sessions, channels, members, listeners, crypt, control_tx, udp_addr, addr_index, roster,
                    latest, overtaken, outlived, dropped, stolen>>
    BY <1>1 DEF voiceVars
  <2>2. VoiceTypes' /\ PlacesAgree' /\ NoGhostMembers' /\ Present' = Present
    BY <2>1 DEF VoiceInv, VoiceTypes, PlacesAgree, NoGhostMembers, Present
  <2>3. \A d \in Conns : LoggedIn(d)' <=> LoggedIn(d)
    BY <2>1 DEF LoggedIn
  <2>4. VoiceTablesAgree' /\ WritersAgree' /\ OwnersAgree'
    BY <2>1, <2>2, <2>3, TablesStay, OwnersStay DEF VoiceInv
  <2>5. \A d \in Conns : RosterAgrees(d)'
    BY <2>1, RosterStays DEF VoiceInv
  <2> QED
    BY <2>2, <2>4, <2>5 DEF VoiceInv
<1>2. CASE VoiceNext
  BY <1>2, AcceptStep, AuthStep, BurstStep, HangUpStep, MoveStep, ListenStep, DatagramStep, SettingsStep, DroppedStep,
     CreateStep DEF VoiceNext
<1> QED
  BY <1>1, <1>2

\* VoiceAgrees, for any players, connections, channels and addresses: the tables
\* of the voice server agree, whoever may hear is served over an open connection
\* under its own key, and a client shows what the server routes by, through
\* replaced logins, teardowns and drops (run_client, teardown, resolve).
THEOREM VoiceAlwaysAgrees == VoiceSpec => []VoiceAgrees
  BY VoiceHonest, VoiceStart, VoiceNextStep, PTL DEF VoiceSpec

=============================================================================
