----------------------------- MODULE MeshProofs -----------------------------
(****************************************************************************)
(* Proofs about the zones of the mesh: the updates forwarded to the zone that*)
(* hosts a player, the directory of zones, and the recovery of a failed zone; each*)
(* for any players, zones, capacities and number of updates.                *)
(****************************************************************************)
EXTENDS Forwarder, ZoneDirectory, Integers, TLAPS

\* A step goes to Zenon unless it names another prover.
USE ZenonT(60)

-----------------------------------------------------------------------------
(* Sequences. *)

\* A sequence is a function on the numbers up to its length.
LEMMA SeqLength ==
    ASSUME NEW S, NEW q \in Seq(S)
    PROVE  Len(q) \in Nat /\ DOMAIN q = 1..Len(q) /\ q \in [1..Len(q) -> S]
  BY SMTT(30)

\* Its elements are of the set it is over.
LEMMA SeqElement ==
    ASSUME NEW S, NEW q \in Seq(S), NEW i \in 1..Len(q)
    PROVE  q[i] \in S
  BY SMTT(30)

\* The empty sequence is over any set, and the only one of length 0.
LEMMA SeqEmpty ==
    ASSUME NEW S
    PROVE  <<>> \in Seq(S) /\ Len(<<>>) = 0 /\ \A q \in Seq(S) : q # <<>> => Len(q) # 0
  BY SMTT(30)

\* The head and the rest of a sequence that is not empty.
LEMMA SeqHeadTail ==
    ASSUME NEW S, NEW q \in Seq(S), q # <<>>
    PROVE  /\ Head(q) \in S /\ Tail(q) \in Seq(S) /\ Len(Tail(q)) = Len(q) - 1
           /\ \A k \in 1..Len(Tail(q)) : Tail(q)[k] = q[k + 1]
  BY SMTT(30)

\* A function on the numbers up to n is a sequence.
LEMMA SeqOfFunction ==
    ASSUME NEW S, NEW n \in Nat, NEW f \in [1..n -> S]
    PROVE  f \in Seq(S) /\ Len(f) = n
  BY SMTT(30)

\* One sequence after another.
LEMMA SeqConcat ==
    ASSUME NEW S, NEW p \in Seq(S), NEW q \in Seq(S)
    PROVE  /\ p \o q \in Seq(S) /\ Len(p \o q) = Len(p) + Len(q)
           /\ \A k \in 1..Len(p) + Len(q) : (p \o q)[k] = IF k <= Len(p) THEN p[k] ELSE q[k - Len(p)]
  BY SMTT(30)

\* A part of a sequence.
LEMMA SeqPart ==
    ASSUME NEW S, NEW q \in Seq(S), NEW i \in Nat, NEW j \in Nat, 1 <= i, j <= Len(q)
    PROVE  /\ SubSeq(q, i, j) \in Seq(S) /\ Len(SubSeq(q, i, j)) = IF i <= j THEN j - i + 1 ELSE 0
           /\ \A k \in 1..j - i + 1 : SubSeq(q, i, j)[k] = q[i + k - 1]
  BY SMTT(30)

\* Sequences of the same length with the same elements are the same.
LEMMA SeqSame ==
    ASSUME NEW S, NEW p \in Seq(S), NEW q \in Seq(S), Len(p) = Len(q), \A i \in 1..Len(p) : p[i] = q[i]
    PROVE  p = q
  BY SMTT(30)

-----------------------------------------------------------------------------
(* The forwarder. *)

\* What the forwarder publishes: an update and the zone it goes to.
Entries == [n : 1 .. MaxUpdates, to : FwdZones]

\* Only updates carry a number; control messages carry none.
LEMMA MessageFacts ==
    ASSUME NEW m \in Messages
    PROVE  /\ m.kind \in {"Update", "BeginHold", "FlushHold", "Dropped"}
           /\ m.n \in 0 .. MaxUpdates
           /\ m.kind = "Update" => m.n \in 1 .. MaxUpdates
           /\ m.kind # "Update" => m.n = 0
  BY SMTT(30), FwdAssumption DEF Messages, Update, BeginHold, FlushHold, Dropped

\* A deferred control message leaves the others what they were.
LEMMA OthersTyped ==
    ASSUME NEW S, deferred \in Seq(S), NEW k \in DOMAIN deferred
    PROVE  OthersDeferred(k) \in Seq(S)
  <1>1. k \in 1 .. Len(deferred)
    BY SMTT(30)
  <1>2. /\ SubSeq(deferred, 1, k - 1) \in Seq(S)
        /\ SubSeq(deferred, k + 1, Len(deferred)) \in Seq(S)
    BY SMTT(30), <1>1, SeqPart
  <1> QED BY <1>2, SeqConcat DEF OthersDeferred

\* What a message appended to the queue leaves in place.
LEMMA Appended ==
    ASSUME NEW S, NEW s \in Seq(S), NEW x \in S
    PROVE  /\ Append(s, x) \in Seq(S) /\ Len(Append(s, x)) = Len(s) + 1
           /\ DOMAIN Append(s, x) = 1 .. Len(s) + 1
           /\ \A k \in 1 .. Len(s) : Append(s, x)[k] = s[k]
           /\ Append(s, x)[Len(s) + 1] = x
  BY SMTT(30)

\* What serving the head of the queue leaves in place.
LEMMA Served ==
    ASSUME NEW S, NEW s \in Seq(S), s # <<>>
    PROVE  /\ Tail(s) \in Seq(S) /\ Len(Tail(s)) = Len(s) - 1 /\ Len(s) \in Nat \ {0}
           /\ Head(s) = s[1] /\ Head(s) \in S
           /\ DOMAIN s = 1 .. Len(s) /\ DOMAIN Tail(s) = 1 .. Len(s) - 1
           /\ \A k \in 1 .. Len(s) - 1 : Tail(s)[k] = s[k + 1]
  <1>1. Len(s) \in Nat /\ Len(s) # 0 /\ DOMAIN s = 1 .. Len(s)
    BY SeqEmpty, SeqLength
  <1>2. /\ Head(s) \in S /\ Tail(s) \in Seq(S)
        /\ Len(Tail(s)) = Len(s) - 1
        /\ \A i \in 1 .. Len(Tail(s)) : Tail(s)[i] = s[i + 1]
    BY SeqHeadTail
  <1> QED BY SMTT(30), <1>1, <1>2, SeqLength

\* What publish appends: the numbers it was given, in their order.
LEMMA PublishedRun ==
    ASSUME NEW P \in Seq(Entries), NEW ns \in Seq(1 .. MaxUpdates), NEW z \in FwdZones
    PROVE  LET Q == P \o [k \in DOMAIN ns |-> [n |-> ns[k], to |-> z]]
           IN  /\ Q \in Seq(Entries) /\ Len(Q) = Len(P) + Len(ns)
               /\ DOMAIN Q = 1 .. Len(P) + Len(ns)
               /\ Len(P) \in Nat /\ Len(ns) \in Nat
               /\ DOMAIN P = 1 .. Len(P) /\ DOMAIN ns = 1 .. Len(ns)
               /\ \A k \in 1 .. Len(P) : Q[k] = P[k]
               /\ \A k \in 1 .. Len(ns) : Q[Len(P) + k].n = ns[k]
  <1> DEFINE R == [k \in DOMAIN ns |-> [n |-> ns[k], to |-> z]]
  <1>1. /\ Len(ns) \in Nat /\ DOMAIN ns = 1 .. Len(ns) /\ Len(P) \in Nat /\ DOMAIN P = 1 .. Len(P)
        /\ \A k \in 1 .. Len(ns) : ns[k] \in 1 .. MaxUpdates
    BY SeqLength, SeqElement
  <1>2. R \in [1 .. Len(ns) -> Entries] /\ \A k \in 1 .. Len(ns) : R[k].n = ns[k]
    BY <1>1 DEF Entries
  <1>3. R \in Seq(Entries) /\ Len(R) = Len(ns)
    BY SMTT(30), <1>1, <1>2, SeqOfFunction, SeqLength
  <1> HIDE DEF R
  <1>4. /\ P \o R \in Seq(Entries) /\ Len(P \o R) = Len(P) + Len(R)
        /\ \A i \in 1 .. Len(P) + Len(R) :
              (P \o R)[i] = IF i <= Len(P) THEN P[i] ELSE R[i - Len(P)]
    BY <1>3, SeqConcat
  <1>5. DOMAIN (P \o R) = 1 .. Len(P) + Len(ns)
    BY <1>3, <1>4, SeqLength
  <1>6. \A k \in 1 .. Len(P) : (P \o R)[k] = P[k]
    BY SMTT(30), <1>1, <1>3, <1>4
  <1>7. \A k \in 1 .. Len(ns) : (P \o R)[Len(P) + k] = R[k]
    BY SMTT(30), <1>1, <1>3, <1>4
  <1> QED BY <1>1, <1>2, <1>3, <1>4, <1>5, <1>6, <1>7 DEF R

-----------------------------------------------------------------------------
(* The invariant is inductive.                                              *)

\* The domains and the elements of the three sequences.
LEMMA Numbers ==
    ASSUME FwdTypeOK
    PROVE  /\ Len(fwdQueue) \in Nat /\ DOMAIN fwdQueue = 1 .. Len(fwdQueue)
           /\ Len(hold.buf) \in Nat /\ DOMAIN hold.buf = 1 .. Len(hold.buf)
           /\ Len(published) \in Nat /\ DOMAIN published = 1 .. Len(published)
           /\ \A k \in DOMAIN fwdQueue : fwdQueue[k] \in Messages /\ fwdQueue[k].n \in 0 .. MaxUpdates
           /\ \A k \in DOMAIN hold.buf : hold.buf[k] \in 1 .. MaxUpdates
           /\ \A k \in DOMAIN published : published[k].n \in 1 .. MaxUpdates
  <1>1. /\ fwdQueue \in Seq(Messages) /\ hold.buf \in Seq(1 .. MaxUpdates)
        /\ published \in Seq(Entries)
    BY DEF FwdTypeOK, Entries
  <1>2. /\ Len(fwdQueue) \in Nat /\ DOMAIN fwdQueue = 1 .. Len(fwdQueue)
        /\ Len(hold.buf) \in Nat /\ DOMAIN hold.buf = 1 .. Len(hold.buf)
        /\ Len(published) \in Nat /\ DOMAIN published = 1 .. Len(published)
    BY <1>1, SeqLength
  <1>3. \A k \in DOMAIN fwdQueue : fwdQueue[k] \in Messages
    BY <1>1, <1>2, SeqElement
  <1>4. \A k \in DOMAIN hold.buf : hold.buf[k] \in 1 .. MaxUpdates
    BY <1>1, <1>2, SeqElement
  <1>5. \A k \in DOMAIN published : published[k] \in Entries
    BY <1>1, <1>2, SeqElement
  <1>6. \A k \in DOMAIN published : published[k].n \in 1 .. MaxUpdates
    BY <1>5 DEF Entries
  <1> QED BY <1>2, <1>3, <1>4, <1>6, MessageFacts

\* The forwarder starts empty.
LEMMA OrderInit == FwdInit => OrderKept
  <1> SUFFICES ASSUME FwdInit PROVE OrderKept
    OBVIOUS
  <1>1. DOMAIN <<>> = {} /\ Len(<<>>) = 0
    BY SMTT(30)
  <1>2. fwdQueue = <<>> /\ hold.buf = <<>> /\ published = <<>> /\ ~hold.on
    BY DEF FwdInit, NoHold
  <1>3. FwdTypeOK
    <2>1. <<>> \in Seq(Messages) /\ <<>> \in Seq({BeginHold, Dropped})
          /\ <<>> \in Seq(1 .. MaxUpdates) /\ <<>> \in Seq([n : 1 .. MaxUpdates, to : FwdZones])
      BY SeqEmpty
    <2>2. hold \in [on : BOOLEAN, expired : BOOLEAN, buf : Seq(1 .. MaxUpdates)]
      BY <2>1 DEF FwdInit, NoHold
    <2>3. /\ fwdQueue \in Seq(Messages) /\ Len(fwdQueue) <= ForwardCapacity
          /\ deferred \in Seq({BeginHold, Dropped})
          /\ published \in Seq([n : 1 .. MaxUpdates, to : FwdZones])
      BY SMTT(30), <1>1, <2>1, FwdAssumption DEF FwdInit
    <2>4. /\ timers \in Nat /\ sent \in 0 .. MaxUpdates /\ commits \in 0 .. MaxCommits
          /\ fwdRoute \in FwdZones \cup {NoFwdZone} /\ lost \subseteq {"full", "replaced", "left"}
      BY SMTT(30), FwdAssumption DEF FwdInit
    <2>5. fwdHomed \in BOOLEAN /\ connected \in BOOLEAN
      BY DEF FwdInit
    <2> QED BY <2>2, <2>3, <2>4, <2>5 DEF FwdTypeOK
  <1> QED BY <1>1, <1>2, <1>3 DEF OrderKept

\* A control message at the end of the queue has no number to be out of order.
LEMMA ControlQueued ==
    ASSUME OrderKept, FwdTypeOK', UNCHANGED <<hold, sent, published>>,
           NEW m \in Messages, m.kind # "Update", fwdQueue' = Append(fwdQueue, m)
    PROVE  OrderKept'
  <1>1. FwdTypeOK /\ fwdQueue \in Seq(Messages) /\ sent \in Nat /\ m.n = 0
    BY SMTT(30), MessageFacts, FwdAssumption DEF OrderKept, FwdTypeOK
  <1>2. Len(fwdQueue) \in Nat /\ DOMAIN fwdQueue = 1 .. Len(fwdQueue)
    BY <1>1, Numbers
  <1>3. /\ DOMAIN fwdQueue' = 1 .. Len(fwdQueue) + 1
        /\ \A i \in 1 .. Len(fwdQueue) : fwdQueue'[i] = fwdQueue[i]
        /\ fwdQueue'[Len(fwdQueue) + 1] = m
    BY SMTT(30), <1>1, Appended
  <1>4. /\ \A k \in DOMAIN fwdQueue' : fwdQueue'[k].n <= sent
        /\ \A j, k \in DOMAIN fwdQueue' :
              j < k /\ fwdQueue'[k].kind = "Update" => fwdQueue'[j].n < fwdQueue'[k].n
        /\ \A k \in DOMAIN fwdQueue' : fwdQueue'[k].kind = "Update" =>
              /\ \A j \in DOMAIN published : published[j].n < fwdQueue'[k].n
              /\ \A j \in DOMAIN hold.buf : hold.buf[j] < fwdQueue'[k].n
    <2> SUFFICES ASSUME NEW k \in DOMAIN fwdQueue'
                 PROVE  /\ fwdQueue'[k].n <= sent
                        /\ fwdQueue'[k].kind = "Update" =>
                             /\ k \in DOMAIN fwdQueue
                             /\ \A j \in DOMAIN fwdQueue' : j < k => fwdQueue'[j].n < fwdQueue'[k].n
      BY <1>2, <1>3 DEF OrderKept
    <2>1. CASE k = Len(fwdQueue) + 1
      BY SMTT(30), <1>1, <1>3, <2>1
    <2>2. CASE k \in 1 .. Len(fwdQueue)
      <3>1. fwdQueue'[k] = fwdQueue[k] /\ k \in DOMAIN fwdQueue
        BY <1>2, <1>3, <2>2
      <3>2. \A j \in DOMAIN fwdQueue' : j < k => j \in DOMAIN fwdQueue /\ fwdQueue'[j] = fwdQueue[j]
        BY SMTT(30), <1>2, <1>3, <2>2
      <3> QED BY <3>1, <3>2 DEF OrderKept
    <2> QED BY SMTT(30), <1>2, <1>3, <2>1, <2>2
  <1> QED BY <1>4 DEF OrderKept

\* A control message enters the queue, or waits for room.
LEMMA ControlStep ==
    ASSUME OrderKept, NEW m \in {BeginHold, Dropped}, SendControl(m),
           UNCHANGED <<hold, timers, fwdHomed, sent, published, lost>>,
           fwdRoute' \in FwdZones \cup {NoFwdZone}, connected' \in BOOLEAN,
           commits' \in 0 .. MaxCommits
    PROVE  OrderKept'
  <1>1. m \in Messages /\ m.n = 0 /\ m.kind # "Update"
    BY SMTT(30) DEF Messages, BeginHold, Dropped
  <1>2. FwdTypeOK /\ fwdQueue \in Seq(Messages) /\ deferred \in Seq({BeginHold, Dropped})
    BY DEF OrderKept, FwdTypeOK
  <1>3. CASE HasRoom
    <2>1. fwdQueue' = Append(fwdQueue, m) /\ deferred' = deferred
      BY <1>3 DEF SendControl
    <2>2. Len(fwdQueue) \in Nat /\ DOMAIN fwdQueue = 1 .. Len(fwdQueue)
      BY <1>2, SeqLength
    <2>3. /\ fwdQueue' \in Seq(Messages) /\ Len(fwdQueue') = Len(fwdQueue) + 1
          /\ DOMAIN fwdQueue' = 1 .. Len(fwdQueue) + 1
          /\ \A k \in 1 .. Len(fwdQueue) : fwdQueue'[k] = fwdQueue[k]
          /\ fwdQueue'[Len(fwdQueue) + 1] = m
      BY SMTT(30), <1>1, <1>2, <2>1, Appended
    <2>4. FwdTypeOK'
      BY SMTT(30), <1>2, <1>3, <2>1, <2>2, <2>3, FwdAssumption DEF FwdTypeOK, HasRoom
    <2> QED BY <1>1, <2>1, <2>4, ControlQueued
  <1>4. CASE ~HasRoom
    <2>1. fwdQueue' = fwdQueue /\ deferred' = Append(deferred, m)
      BY <1>4 DEF SendControl
    <2>2. deferred' \in Seq({BeginHold, Dropped})
      BY <1>2, <2>1, Appended
    <2>3. FwdTypeOK'
      BY <1>2, <2>1, <2>2 DEF FwdTypeOK
    <2> QED BY <2>1, <2>3 DEF OrderKept
  <1> QED BY <1>3, <1>4

\* An update gets the next number and goes to the end of the queue, or is lost.
LEMMA ForwardStep == OrderKept /\ Forward => OrderKept'
  <1> SUFFICES ASSUME OrderKept, Forward PROVE OrderKept'
    OBVIOUS
  <1>1. FwdTypeOK /\ fwdQueue \in Seq(Messages)
    BY DEF OrderKept, FwdTypeOK
  <1>2. sent \in Nat /\ sent' = sent + 1 /\ sent' \in 1 .. MaxUpdates
    BY SMTT(30), <1>1, FwdAssumption DEF Forward, FwdTypeOK
  <1>3. UNCHANGED <<deferred, hold, timers, fwdHomed, fwdRoute, connected, published, commits>>
    BY DEF Forward
  <1>4. CASE ~HasRoom
    <2>1. fwdQueue' = fwdQueue /\ lost' = lost \cup {"full"}
      BY <1>4 DEF Forward
    <2>2. FwdTypeOK'
      BY SMTT(30), <1>1, <1>2, <1>3, <2>1 DEF FwdTypeOK
    <2>3. \A x \in Int : x <= sent => x <= sent'
      BY SMTT(30), <1>2
    <2>4. /\ \A k \in DOMAIN published : published[k].n \in Int
          /\ \A k \in DOMAIN hold.buf : hold.buf[k] \in Int
          /\ \A k \in DOMAIN fwdQueue : fwdQueue[k].n \in Int
      BY SMTT(30), <1>1, Numbers, FwdAssumption
    <2> QED BY <1>3, <2>1, <2>2, <2>3, <2>4 DEF OrderKept
  <1>5. CASE HasRoom
    <2> DEFINE m == Update(sent + 1)
    <2>1. fwdQueue' = Append(fwdQueue, m) /\ lost' = lost
      BY <1>5 DEF Forward
    <2>2. m \in Messages /\ m.n = sent + 1
      BY <1>2 DEF Messages, Update
    <2>3. Len(fwdQueue) \in Nat /\ DOMAIN fwdQueue = 1 .. Len(fwdQueue)
      BY <1>1, SeqLength
    <2> HIDE DEF m
    <2>4. /\ fwdQueue' \in Seq(Messages) /\ Len(fwdQueue') = Len(fwdQueue) + 1
          /\ DOMAIN fwdQueue' = 1 .. Len(fwdQueue) + 1
          /\ \A k \in 1 .. Len(fwdQueue) : fwdQueue'[k] = fwdQueue[k]
          /\ fwdQueue'[Len(fwdQueue) + 1] = m
      BY SMTT(30), <1>1, <2>1, <2>2, Appended
    <2>5. FwdTypeOK'
      BY SMTT(30), <1>1, <1>2, <1>3, <1>5, <2>1, <2>3, <2>4, FwdAssumption DEF FwdTypeOK, HasRoom
    <2>6. /\ \A k \in DOMAIN published : published[k].n \in Nat
          /\ \A k \in DOMAIN hold.buf : hold.buf[k] \in Nat
          /\ \A k \in DOMAIN fwdQueue : fwdQueue[k].n \in Nat
      BY SMTT(30), <1>1, Numbers, FwdAssumption
    <2>7. /\ \A k \in DOMAIN published : published[k].n < sent'
          /\ \A k \in DOMAIN hold.buf : hold.buf[k] < sent'
          /\ \A k \in DOMAIN fwdQueue : fwdQueue[k].n < sent'
      BY SMTT(30), <1>2, <2>6 DEF OrderKept
    <2>8. /\ \A k \in DOMAIN fwdQueue' : fwdQueue'[k].n <= sent'
          /\ \A j, k \in DOMAIN fwdQueue' :
                j < k /\ fwdQueue'[k].kind = "Update" => fwdQueue'[j].n < fwdQueue'[k].n
      <3> SUFFICES ASSUME NEW j \in DOMAIN fwdQueue', NEW k \in DOMAIN fwdQueue'
                   PROVE  /\ fwdQueue'[k].n <= sent'
                          /\ j < k /\ fwdQueue'[k].kind = "Update" => fwdQueue'[j].n < fwdQueue'[k].n
        OBVIOUS
      <3>1. CASE k = Len(fwdQueue) + 1
        BY SMTT(30), <1>2, <2>2, <2>3, <2>4, <2>7, <3>1
      <3>2. CASE k \in 1 .. Len(fwdQueue)
        BY SMTT(30), <1>2, <2>3, <2>4, <2>6, <2>7, <3>2 DEF OrderKept
      <3> QED BY SMTT(30), <2>3, <2>4, <3>1, <3>2
    <2>9. \A k \in DOMAIN fwdQueue' : fwdQueue'[k].kind = "Update" =>
             /\ \A j \in DOMAIN published : published[j].n < fwdQueue'[k].n
             /\ \A j \in DOMAIN hold.buf : hold.buf[j] < fwdQueue'[k].n
      BY SMTT(30), <1>2, <2>2, <2>3, <2>4, <2>7 DEF OrderKept
    <2>10. /\ \A k \in DOMAIN published : published[k].n <= sent'
           /\ \A k \in DOMAIN hold.buf : hold.buf[k] <= sent'
      BY SMTT(30), <1>2, <2>6, <2>7
    <2> QED BY <1>3, <2>5, <2>8, <2>9, <2>10 DEF OrderKept
  <1> QED BY <1>4, <1>5

\* A deferred message enters the queue, in any order among the deferred.
LEMMA DeferredStep == OrderKept /\ SendDeferred => OrderKept'
  <1> SUFFICES ASSUME OrderKept, SendDeferred PROVE OrderKept'
    OBVIOUS
  <1>1. FwdTypeOK /\ fwdQueue \in Seq(Messages) /\ deferred \in Seq({BeginHold, Dropped})
    BY DEF OrderKept, FwdTypeOK
  <1>2. PICK k \in DOMAIN deferred : /\ fwdQueue' = Append(fwdQueue, deferred[k])
                                     /\ deferred' = OthersDeferred(k)
    BY DEF SendDeferred
  <1>3. deferred' \in Seq({BeginHold, Dropped})
    BY <1>1, <1>2, OthersTyped
  <1> DEFINE m == deferred[k]
  <1>4. m \in {BeginHold, Dropped}
    BY <1>1, SeqLength, SeqElement
  <1> HIDE DEF m
  <1>5. m \in Messages /\ m.n = 0 /\ m.kind # "Update"
    BY SMTT(30), <1>4 DEF Messages, BeginHold, Dropped
  <1>6. /\ fwdQueue' \in Seq(Messages) /\ Len(fwdQueue') = Len(fwdQueue) + 1
        /\ DOMAIN fwdQueue' = 1 .. Len(fwdQueue) + 1
        /\ \A i \in 1 .. Len(fwdQueue) : fwdQueue'[i] = fwdQueue[i]
        /\ fwdQueue'[Len(fwdQueue) + 1] = m
    BY SMTT(30), <1>1, <1>2, <1>5, Appended DEF m
  <1>7. Len(fwdQueue) \in Nat /\ DOMAIN fwdQueue = 1 .. Len(fwdQueue)
    BY <1>1, Numbers
  <1>8. UNCHANGED <<hold, timers, fwdHomed, fwdRoute, connected, sent, published, commits, lost>>
    BY DEF SendDeferred
  <1>9. FwdTypeOK'
    BY SMTT(30), <1>1, <1>3, <1>6, <1>7, <1>8, FwdAssumption DEF FwdTypeOK, SendDeferred, HasRoom
  <1> QED BY <1>2, <1>5, <1>8, <1>9, ControlQueued DEF m

\* FlushHold enters the queue.
LEMMA TimerStep == OrderKept /\ TimerFires => OrderKept'
  <1> SUFFICES ASSUME OrderKept, TimerFires PROVE OrderKept'
    OBVIOUS
  <1>1. FwdTypeOK /\ fwdQueue \in Seq(Messages)
    BY DEF OrderKept, FwdTypeOK
  <1>2. FlushHold \in Messages /\ FlushHold.n = 0 /\ FlushHold.kind # "Update"
    BY DEF Messages, FlushHold
  <1>3. fwdQueue' = Append(fwdQueue, FlushHold) /\ timers' \in Nat
    BY SMTT(30), <1>1 DEF TimerFires, FwdTypeOK
  <1> HIDE DEF FlushHold
  <1>4. /\ fwdQueue' \in Seq(Messages) /\ Len(fwdQueue') = Len(fwdQueue) + 1
        /\ DOMAIN fwdQueue' = 1 .. Len(fwdQueue) + 1
        /\ \A i \in 1 .. Len(fwdQueue) : fwdQueue'[i] = fwdQueue[i]
        /\ fwdQueue'[Len(fwdQueue) + 1] = FlushHold
    BY SMTT(30), <1>1, <1>2, <1>3, Appended
  <1>5. Len(fwdQueue) \in Nat /\ DOMAIN fwdQueue = 1 .. Len(fwdQueue)
    BY <1>1, Numbers
  <1>6. UNCHANGED <<deferred, hold, fwdHomed, fwdRoute, connected, sent, published, commits, lost>>
    BY DEF TimerFires
  <1>7. FwdTypeOK'
    BY SMTT(30), <1>1, <1>3, <1>4, <1>5, <1>6, FwdAssumption DEF FwdTypeOK, TimerFires, HasRoom
  <1> QED BY <1>2, <1>3, <1>6, <1>7, ControlQueued

\* What publish appends continues the ascending numbers, if what it is given does.
LEMMA PublishAscends ==
    ASSUME FwdTypeOK, NEW ns \in Seq(1 .. MaxUpdates), NEW z \in FwdZones \cup {NoFwdZone},
           Publish(z, ns),
           \A j, k \in DOMAIN published : j < k => published[j].n < published[k].n,
           \A j, k \in DOMAIN ns : j < k => ns[j] < ns[k],
           \A j \in DOMAIN published, k \in DOMAIN ns : published[j].n < ns[k]
    PROVE  /\ published' \in Seq(Entries)
           /\ \A j, k \in DOMAIN published' : j < k => published'[j].n < published'[k].n
           /\ \A x : (\A k \in DOMAIN published : published[k].n < x) /\ (\A k \in DOMAIN ns : ns[k] < x)
                     => \A k \in DOMAIN published' : published'[k].n < x
           /\ \A x : (\A k \in DOMAIN published : published[k].n <= x) /\ (\A k \in DOMAIN ns : ns[k] <= x)
                     => \A k \in DOMAIN published' : published'[k].n <= x
           /\ \/ published' = published
              \/ /\ Len(published') = Len(published) + Len(ns)
                 /\ \A k \in 1 .. Len(published) : published'[k] = published[k]
           /\ lost' \subseteq {"full", "replaced", "left"}
  <1>1. published \in Seq(Entries) /\ lost \subseteq {"full", "replaced", "left"}
    BY DEF FwdTypeOK, Entries
  <1>2. lost' \subseteq {"full", "replaced", "left"}
    BY <1>1 DEF Publish
  <1>3. CASE z = NoFwdZone
    <2>1. published' = published
      BY <1>3 DEF Publish
    <2> QED BY <1>1, <1>2, <2>1
  <1>4. CASE z # NoFwdZone
    <2> DEFINE Q == published \o [k \in DOMAIN ns |-> [n |-> ns[k], to |-> z]]
    <2>1. published' = Q /\ z \in FwdZones
      BY <1>4 DEF Publish
    <2>2. /\ Q \in Seq(Entries) /\ Len(Q) = Len(published) + Len(ns)
          /\ DOMAIN Q = 1 .. Len(published) + Len(ns)
          /\ Len(published) \in Nat /\ Len(ns) \in Nat
          /\ DOMAIN published = 1 .. Len(published) /\ DOMAIN ns = 1 .. Len(ns)
          /\ \A k \in 1 .. Len(published) : Q[k] = published[k]
          /\ \A k \in 1 .. Len(ns) : Q[Len(published) + k].n = ns[k]
      BY <1>1, <2>1, PublishedRun
    <2> HIDE DEF Q
    <2>3. \A k \in DOMAIN Q : \/ k \in DOMAIN published /\ Q[k].n = published[k].n
                              \/ /\ k - Len(published) \in DOMAIN ns
                                 /\ Q[k].n = ns[k - Len(published)]
      <3> SUFFICES ASSUME NEW k \in DOMAIN Q
                   PROVE  \/ k \in DOMAIN published /\ Q[k].n = published[k].n
                          \/ /\ k - Len(published) \in DOMAIN ns
                             /\ Q[k].n = ns[k - Len(published)]
        OBVIOUS
      <3>1. CASE k <= Len(published)
        BY SMTT(30), <2>2, <3>1
      <3>2. CASE k > Len(published)
        <4>1. k - Len(published) \in 1 .. Len(ns) /\ k = Len(published) + (k - Len(published))
          BY SMTT(30), <2>2, <3>2
        <4> QED BY <2>2, <4>1
      <3> QED BY SMTT(30), <2>2, <3>1, <3>2
    <2>4. ASSUME NEW j \in DOMAIN Q, NEW k \in DOMAIN Q, j < k
          PROVE  Q[j].n < Q[k].n
      <3>1. CASE k \in DOMAIN published
        BY SMTT(30), <2>2, <2>4, <3>1
      <3>2. CASE k \notin DOMAIN published /\ j \in DOMAIN published
        BY <2>2, <2>3, <3>2
      <3>3. CASE k \notin DOMAIN published /\ j \notin DOMAIN published
        <4>1. /\ k - Len(published) \in DOMAIN ns /\ j - Len(published) \in DOMAIN ns
              /\ Q[k].n = ns[k - Len(published)] /\ Q[j].n = ns[j - Len(published)]
          BY <2>3, <3>3
        <4>2. j - Len(published) < k - Len(published)
          BY SMTT(30), <2>2, <2>4
        <4> QED BY <4>1, <4>2
      <3> QED BY <3>1, <3>2, <3>3
    <2>5. ASSUME NEW x, \A k \in DOMAIN published : published[k].n < x, \A k \in DOMAIN ns : ns[k] < x
          PROVE  \A k \in DOMAIN Q : Q[k].n < x
      BY <2>3, <2>5
    <2>6. ASSUME NEW x, \A k \in DOMAIN published : published[k].n <= x, \A k \in DOMAIN ns : ns[k] <= x
          PROVE  \A k \in DOMAIN Q : Q[k].n <= x
      BY <2>3, <2>6
    <2> QED BY <1>2, <2>1, <2>2, <2>4, <2>5, <2>6
  <1> QED BY <1>3, <1>4

\* The rest of the queue after its head, and what it still promises.
LEMMA QueueServed ==
    ASSUME OrderKept, fwdQueue # <<>>, fwdQueue' = Tail(fwdQueue)
    PROVE  /\ Head(fwdQueue) \in Messages /\ fwdQueue[1] = Head(fwdQueue) /\ 1 \in DOMAIN fwdQueue
           /\ fwdQueue' \in Seq(Messages) /\ Len(fwdQueue') <= ForwardCapacity
           /\ \A k \in DOMAIN fwdQueue' : fwdQueue'[k].n <= sent
           /\ \A k \in DOMAIN fwdQueue' : k + 1 \in DOMAIN fwdQueue /\ fwdQueue'[k] = fwdQueue[k + 1]
           /\ \A k \in DOMAIN fwdQueue' :
                 fwdQueue'[k].kind = "Update" => Head(fwdQueue).n < fwdQueue'[k].n
           /\ \A j, k \in DOMAIN fwdQueue' :
                 j < k /\ fwdQueue'[k].kind = "Update" => fwdQueue'[j].n < fwdQueue'[k].n
  <1>1. fwdQueue \in Seq(Messages) /\ Len(fwdQueue) <= ForwardCapacity
    BY DEF OrderKept, FwdTypeOK
  <1>2. /\ fwdQueue' \in Seq(Messages) /\ Len(fwdQueue') = Len(fwdQueue) - 1
        /\ Len(fwdQueue) \in Nat \ {0}
        /\ Head(fwdQueue) = fwdQueue[1] /\ Head(fwdQueue) \in Messages
        /\ DOMAIN fwdQueue = 1 .. Len(fwdQueue) /\ DOMAIN fwdQueue' = 1 .. Len(fwdQueue) - 1
        /\ \A k \in 1 .. Len(fwdQueue) - 1 : fwdQueue'[k] = fwdQueue[k + 1]
    BY <1>1, Served
  <1>3. \A k \in DOMAIN fwdQueue' : k \in Int /\ k + 1 \in DOMAIN fwdQueue /\ 1 < k + 1
    BY SMTT(30), <1>2
  <1>4. 1 \in DOMAIN fwdQueue /\ \A j, k \in DOMAIN fwdQueue' : j < k => j + 1 < k + 1
    BY SMTT(30), <1>2
  <1>5. Len(fwdQueue') <= ForwardCapacity
    BY SMTT(30), <1>1, <1>2, FwdAssumption
  <1> QED BY SMTT(30), <1>2, <1>3, <1>4, <1>5 DEF OrderKept

\* An update is published behind what an expired hold has buffered, or joins the
\* buffer of a hold that is on.
LEMMA UpdateStep ==
    ASSUME OrderKept, fwdQueue # <<>>, fwdQueue' = Tail(fwdQueue),
           NEW u \in 1 .. MaxUpdates, Head(fwdQueue).kind = "Update", Head(fwdQueue).n = u,
           ServeUpdate(u), UNCHANGED <<deferred, connected, sent, commits>>
    PROVE  OrderKept'
  <1>1. FwdTypeOK /\ hold.buf \in Seq(1 .. MaxUpdates)
    BY DEF OrderKept, FwdTypeOK
  <1>2. /\ fwdQueue[1].kind = "Update" /\ fwdQueue[1].n = u /\ 1 \in DOMAIN fwdQueue
        /\ fwdQueue' \in Seq(Messages) /\ Len(fwdQueue') <= ForwardCapacity
        /\ \A k \in DOMAIN fwdQueue' : fwdQueue'[k].n <= sent
        /\ \A k \in DOMAIN fwdQueue' : k + 1 \in DOMAIN fwdQueue /\ fwdQueue'[k] = fwdQueue[k + 1]
        /\ \A k \in DOMAIN fwdQueue' : fwdQueue'[k].kind = "Update" => u < fwdQueue'[k].n
        /\ \A j, k \in DOMAIN fwdQueue' :
              j < k /\ fwdQueue'[k].kind = "Update" => fwdQueue'[j].n < fwdQueue'[k].n
    BY QueueServed
  <1>3. /\ u <= sent
        /\ \A j \in DOMAIN published : published[j].n < u
        /\ \A j \in DOMAIN hold.buf : hold.buf[j] < u
    BY <1>2 DEF OrderKept
  <1>4. \A k \in DOMAIN fwdQueue' : fwdQueue'[k].kind = "Update" =>
           /\ \A j \in DOMAIN published : published[j].n < fwdQueue'[k].n
           /\ \A j \in DOMAIN hold.buf : hold.buf[j] < fwdQueue'[k].n
    BY <1>2 DEF OrderKept
  <1> DEFINE ns == Append(hold.buf, u)
  <1>5. Len(hold.buf) \in Nat /\ DOMAIN hold.buf = 1 .. Len(hold.buf)
    BY <1>1, Numbers
  <1>6. /\ ns \in Seq(1 .. MaxUpdates) /\ Len(ns) = Len(hold.buf) + 1
        /\ DOMAIN ns = 1 .. Len(hold.buf) + 1
        /\ \A k \in 1 .. Len(hold.buf) : ns[k] = hold.buf[k]
        /\ ns[Len(hold.buf) + 1] = u
    BY SMTT(30), <1>1, Appended
  <1> HIDE DEF ns
  <1>7. /\ \A j, k \in DOMAIN ns : j < k => ns[j] < ns[k]
        /\ \A k \in DOMAIN ns : ns[k] <= sent
        /\ \A j \in DOMAIN published, k \in DOMAIN ns : published[j].n < ns[k]
        /\ \A k \in DOMAIN fwdQueue' : fwdQueue'[k].kind = "Update" =>
              \A j \in DOMAIN ns : ns[j] < fwdQueue'[k].n
    <2>1. \A k \in DOMAIN ns : \/ k \in DOMAIN hold.buf /\ ns[k] = hold.buf[k]
                               \/ k = Len(hold.buf) + 1 /\ ns[k] = u
      BY SMTT(30), <1>5, <1>6
    <2>2. ASSUME NEW j \in DOMAIN ns, NEW k \in DOMAIN ns, j < k PROVE ns[j] < ns[k]
      <3>1. j \in DOMAIN hold.buf /\ ns[j] = hold.buf[j]
        BY SMTT(30), <1>5, <1>6, <2>2
      <3> QED BY <1>3, <2>1, <2>2, <3>1 DEF OrderKept
    <2>3. \A k \in DOMAIN ns : ns[k] <= sent
      BY <1>3, <2>1 DEF OrderKept
    <2>4. \A j \in DOMAIN published, k \in DOMAIN ns : published[j].n < ns[k]
      BY <1>3, <2>1 DEF OrderKept
    <2>5. \A k \in DOMAIN fwdQueue' : fwdQueue'[k].kind = "Update" =>
              \A j \in DOMAIN ns : ns[j] < fwdQueue'[k].n
      BY <1>2, <1>4, <2>1
    <2> QED BY <2>2, <2>3, <2>4, <2>5
  <1>8. PICK z \in FwdZones \cup {NoFwdZone} :
           /\ fwdRoute' = z
           /\ IF hold.on /\ ~hold.expired
              THEN hold' = [hold EXCEPT !.buf = Append(@, u)] /\ UNCHANGED <<published, lost>>
              ELSE hold' = NoHold /\ Publish(z, Flushed(hold.buf, u))
    BY <1>1 DEF ServeUpdate, FwdTypeOK
  <1>9. fwdHomed' = TRUE /\ timers' = timers
    BY DEF ServeUpdate
  <1>10. CASE hold.on /\ ~hold.expired
    <2>1. /\ hold' = [hold EXCEPT !.buf = ns] /\ UNCHANGED <<published, lost>>
      BY <1>8, <1>10 DEF ns
    <2>2. hold'.on /\ hold'.buf = ns
      BY <1>1, <1>10, <2>1 DEF FwdTypeOK
    <2>3. hold' \in [on : BOOLEAN, expired : BOOLEAN, buf : Seq(1 .. MaxUpdates)]
      BY <1>1, <1>6, <2>1 DEF FwdTypeOK
    <2>4. FwdTypeOK'
      BY <1>1, <1>2, <1>8, <1>9, <2>1, <2>3 DEF FwdTypeOK
    <2> QED BY <1>2, <1>4, <1>7, <2>1, <2>2, <2>4 DEF OrderKept
  <1>11. CASE ~(hold.on /\ ~hold.expired)
    <2>1. hold' = NoHold /\ Publish(z, ns)
      BY <1>8, <1>11 DEF Flushed, ns
    <2>2. ~hold'.on /\ hold'.buf = <<>> /\ DOMAIN hold'.buf = {}
      BY SMTT(30), <2>1 DEF NoHold
    <2>3. hold' \in [on : BOOLEAN, expired : BOOLEAN, buf : Seq(1 .. MaxUpdates)]
      BY <2>1, SeqEmpty DEF NoHold
    <2>4. /\ published' \in Seq(Entries)
          /\ \A j, k \in DOMAIN published' : j < k => published'[j].n < published'[k].n
          /\ \A k \in DOMAIN published' : published'[k].n <= sent
          /\ lost' \subseteq {"full", "replaced", "left"}
          /\ \A i \in DOMAIN fwdQueue' : fwdQueue'[i].kind = "Update" =>
                \A k \in DOMAIN published' : published'[k].n < fwdQueue'[i].n
      BY <1>1, <1>4, <1>6, <1>7, <2>1, PublishAscends DEF OrderKept
    <2>5. FwdTypeOK'
      BY <1>1, <1>2, <1>8, <1>9, <2>3, <2>4 DEF FwdTypeOK, Entries
    <2> QED BY <1>2, <2>2, <2>4, <2>5 DEF OrderKept
  <1> QED BY <1>10, <1>11

\* Serving a control message: the hold is emptied into the zone or thrown away.
LEMMA ServeControlStep ==
    ASSUME OrderKept, fwdQueue # <<>>, fwdQueue' = Tail(fwdQueue),
           ServeBeginHold \/ ServeFlushHold \/ ServeDropped,
           UNCHANGED <<deferred, connected, sent, commits>>
    PROVE  OrderKept'
  <1>1. FwdTypeOK /\ hold.buf \in Seq(1 .. MaxUpdates)
    BY DEF OrderKept, FwdTypeOK
  <1>2. /\ fwdQueue' \in Seq(Messages) /\ Len(fwdQueue') <= ForwardCapacity
        /\ \A k \in DOMAIN fwdQueue' : fwdQueue'[k].n <= sent
        /\ \A j, k \in DOMAIN fwdQueue' :
              j < k /\ fwdQueue'[k].kind = "Update" => fwdQueue'[j].n < fwdQueue'[k].n
        /\ \A k \in DOMAIN fwdQueue' : k + 1 \in DOMAIN fwdQueue /\ fwdQueue'[k] = fwdQueue[k + 1]
    BY QueueServed
  <1>3. \A k \in DOMAIN fwdQueue' : fwdQueue'[k].kind = "Update" =>
           /\ \A j \in DOMAIN published : published[j].n < fwdQueue'[k].n
           /\ \A j \in DOMAIN hold.buf : hold.buf[j] < fwdQueue'[k].n
    BY <1>2 DEF OrderKept
  <1>4. hold' \in {NoHold, NewHold}
    BY DEF ServeBeginHold, ServeFlushHold, ServeDropped
  <1>5. hold'.buf = <<>> /\ DOMAIN hold'.buf = {}
    BY SMTT(30), <1>4 DEF NoHold, NewHold
  <1>6. hold' \in [on : BOOLEAN, expired : BOOLEAN, buf : Seq(1 .. MaxUpdates)]
    <2>1. <<>> \in Seq(1 .. MaxUpdates)
      BY SeqEmpty
    <2>2. CASE hold' = NoHold
      BY <2>1, <2>2 DEF NoHold
    <2>3. CASE hold' = NewHold
      BY <2>1, <2>3 DEF NewHold
    <2> QED BY <1>4, <2>2, <2>3
  <1>7. timers' \in Nat /\ fwdHomed' \in BOOLEAN /\ fwdRoute' \in FwdZones \cup {NoFwdZone}
    <2>1. CASE ServeBeginHold
      BY SMTT(30), <1>1, <2>1 DEF FwdTypeOK, ServeBeginHold
    <2>2. CASE ServeFlushHold
      BY <1>1, <2>2 DEF FwdTypeOK, ServeFlushHold
    <2>3. CASE ServeDropped
      BY <1>1, <2>3 DEF FwdTypeOK, ServeDropped
    <2> QED BY <2>1, <2>2, <2>3
  <1>8. CASE ServeBeginHold \/ ServeDropped
    <2>1. published' = published /\ lost' \subseteq {"full", "replaced", "left"}
      BY <1>1, <1>8 DEF FwdTypeOK, ServeBeginHold, ServeDropped
    <2>2. FwdTypeOK'
      BY <1>1, <1>2, <1>6, <1>7, <2>1 DEF FwdTypeOK
    <2> QED BY <1>2, <1>3, <1>5, <2>1, <2>2 DEF OrderKept
  <1>9. CASE ServeFlushHold
    <2>1. Publish(fwdRoute, hold.buf) /\ fwdRoute \in FwdZones \cup {NoFwdZone}
      BY <1>1, <1>9 DEF ServeFlushHold, FwdTypeOK
    <2>2. /\ published' \in Seq(Entries)
          /\ \A j, k \in DOMAIN published' : j < k => published'[j].n < published'[k].n
          /\ \A k \in DOMAIN published' : published'[k].n <= sent
          /\ lost' \subseteq {"full", "replaced", "left"}
          /\ \A i \in DOMAIN fwdQueue' : fwdQueue'[i].kind = "Update" =>
                \A k \in DOMAIN published' : published'[k].n < fwdQueue'[i].n
      BY <1>1, <1>3, <2>1, PublishAscends DEF OrderKept
    <2>3. FwdTypeOK'
      BY <1>1, <1>2, <1>6, <1>7, <2>2 DEF FwdTypeOK, Entries
    <2> QED BY <1>2, <1>5, <2>2, <2>3 DEF OrderKept
  <1> QED BY <1>8, <1>9

\* One step per action.
LEMMA OrderStep == OrderKept /\ [FwdNext]_fwdVars => OrderKept'
  <1> SUFFICES ASSUME OrderKept, [FwdNext]_fwdVars PROVE OrderKept'
    OBVIOUS
  <1>1. FwdTypeOK
    BY DEF OrderKept
  <1>2. CASE Forward
    BY <1>2, ForwardStep
  <1>3. CASE SendDeferred
    BY <1>3, DeferredStep
  <1>4. CASE Commit
    <2>1. commits' \in 0 .. MaxCommits /\ fwdRoute' \in FwdZones \cup {NoFwdZone}
          /\ connected' \in BOOLEAN
      BY SMTT(30), <1>1, <1>4, FwdAssumption DEF Commit, FwdTypeOK
    <2> QED BY <1>4, <2>1, ControlStep DEF Commit
  <1>5. CASE PlayerDropped
    <2>1. commits' \in 0 .. MaxCommits /\ fwdRoute' \in FwdZones \cup {NoFwdZone}
      BY <1>1, <1>5 DEF PlayerDropped, FwdTypeOK
    <2>2. connected' \in BOOLEAN
      BY <1>5 DEF PlayerDropped
    <2> QED BY <1>5, <2>1, <2>2, ControlStep DEF PlayerDropped
  <1>6. CASE SweepRoutes
    <2>1. FwdTypeOK'
      BY <1>1, <1>6 DEF SweepRoutes, FwdTypeOK
    <2> QED BY <1>6, <2>1 DEF SweepRoutes, OrderKept
  <1>7. CASE HoldExpires
    <2>1. /\ hold'.on = hold.on /\ hold'.buf = hold.buf
          /\ hold' \in [on : BOOLEAN, expired : BOOLEAN, buf : Seq(1 .. MaxUpdates)]
      BY <1>1, <1>7 DEF HoldExpires, FwdTypeOK
    <2>2. FwdTypeOK'
      BY <1>1, <1>7, <2>1 DEF HoldExpires, FwdTypeOK
    <2> QED BY <1>7, <2>1, <2>2 DEF HoldExpires, OrderKept
  <1>8. CASE TimerFires
    BY <1>8, TimerStep
  <1>9. CASE Serve
    <2> DEFINE m == Head(fwdQueue)
    <2>1. fwdQueue # <<>> /\ fwdQueue' = Tail(fwdQueue) /\ UNCHANGED <<deferred, connected, sent, commits>>
      BY <1>9 DEF Serve
    <2>2. m \in Messages
      BY <2>1, QueueServed
    <2>3. CASE m.kind = "Update" /\ ServeUpdate(m.n)
      <3>1. m.n \in 1 .. MaxUpdates
        BY <2>2, <2>3, MessageFacts
      <3> QED BY <2>1, <2>3, <3>1, UpdateStep
    <2>4. CASE ServeBeginHold \/ ServeFlushHold \/ ServeDropped
      BY <2>1, <2>4, ServeControlStep
    <2> QED BY <1>9, <2>3, <2>4 DEF Serve
  <1>10. CASE UNCHANGED fwdVars
    <2>1. FwdTypeOK'
      BY <1>1, <1>10 DEF fwdVars, FwdTypeOK
    <2> QED BY <1>10, <2>1 DEF fwdVars, OrderKept
  <1> QED BY <1>2, <1>3, <1>4, <1>5, <1>6, <1>7, <1>8, <1>9, <1>10 DEF FwdNext

\* A sequence that only grew still begins with what it was.
LEMMA PrefixKept ==
    ASSUME NEW S, NEW s \in Seq(S), NEW t \in Seq(S), Len(s) <= Len(t),
           \A k \in 1 .. Len(s) : t[k] = s[k]
    PROVE  SubSeq(t, 1, Len(s)) = s
  <1> DEFINE n == Len(s)
  <1>1. n \in Nat /\ Len(t) \in Nat /\ \A k \in 1 .. n : t[k] \in S
    BY SeqLength, SeqElement
  <1>2. n \in Int /\ 1 \in Int /\ n - 1 + 1 = n
    BY SMTT(30), <1>1
  <1> HIDE DEF n
  <1>3. /\ SubSeq(t, 1, n) \in Seq(S)
        /\ Len(SubSeq(t, 1, n)) = IF 1 <= n THEN n - 1 + 1 ELSE 0
        /\ \A k \in 1 .. n - 1 + 1 : SubSeq(t, 1, n)[k] = t[1 + k - 1]
    BY SMTT(30), <1>1, <1>2, SeqPart
  <1>4. Len(SubSeq(t, 1, n)) = n
    BY SMTT(30), <1>1, <1>3
  <1>5. \A k \in 1 .. n : SubSeq(t, 1, n)[k] = s[k]
    BY SMTT(30), <1>1, <1>3 DEF n
  <1> QED BY <1>3, <1>4, <1>5, SeqSame DEF n

\* When the shard task publishes, the channel delivers: it only appends, in order,
\* numbers that were sent.
LEMMA ServeDelivers ==
    ASSUME OrderKept, OrderKept', Serve, sent' = sent, published' # published
    PROVE  Channel!Deliver
  <1> DEFINE numbers == [k \in DOMAIN published |-> published[k].n]
  <1>1. FwdTypeOK /\ FwdTypeOK' /\ hold.buf \in Seq(1 .. MaxUpdates)
    BY DEF OrderKept, FwdTypeOK
  <1>2. /\ Len(published) \in Nat /\ DOMAIN published = 1 .. Len(published)
        /\ Len(published') \in Nat /\ DOMAIN published' = 1 .. Len(published')
        /\ published \in Seq(Entries) /\ published' \in Seq(Entries)
        /\ \A k \in DOMAIN published : published[k].n \in 1 .. MaxUpdates
        /\ \A k \in DOMAIN published' : published'[k].n \in 1 .. MaxUpdates
    <2>1. published \in Seq(Entries) /\ published' \in Seq(Entries)
      BY <1>1 DEF FwdTypeOK, Entries
    <2>2. \A k \in DOMAIN published' : published'[k] \in Entries
      BY <2>1, SeqLength, SeqElement
    <2>3. \A k \in DOMAIN published' : published'[k].n \in 1 .. MaxUpdates
      BY <2>2 DEF Entries
    <2> QED BY <1>1, <2>1, <2>3, Numbers, SeqLength
  <1>3. /\ Len(published') > Len(published)
        /\ \A k \in 1 .. Len(published) : published'[k] = published[k]
    <2>1. PICK ns \in Seq(1 .. MaxUpdates), z \in FwdZones \cup {NoFwdZone} : Publish(z, ns)
      <3> DEFINE m == Head(fwdQueue)
      <3>1. CASE m.kind = "Update" /\ ServeUpdate(m.n)
        <4>1. m.n \in 1 .. MaxUpdates
          BY <3>1, MessageFacts, QueueServed DEF Serve
        <4>2. Flushed(hold.buf, m.n) \in Seq(1 .. MaxUpdates)
          BY <1>1, <4>1, Appended DEF Flushed
        <4>3. \E z \in FwdZones \cup {NoFwdZone} : Publish(z, Flushed(hold.buf, m.n))
          BY <1>1, <3>1 DEF ServeUpdate, FwdTypeOK
        <4> QED BY <4>2, <4>3
      <3>2. CASE ServeFlushHold
        BY <1>1, <3>2 DEF ServeFlushHold, FwdTypeOK
      <3>3. ~ServeBeginHold /\ ~ServeDropped
        BY DEF ServeBeginHold, ServeDropped
      <3> QED BY <3>1, <3>2, <3>3 DEF Serve
    <2>2. z # NoFwdZone /\ published' = published \o [k \in DOMAIN ns |-> [n |-> ns[k], to |-> z]]
      BY <2>1 DEF Publish
    <2>3. /\ Len(published') = Len(published) + Len(ns) /\ Len(ns) \in Nat
          /\ \A k \in 1 .. Len(published) : published'[k] = published[k]
      BY <1>2, <2>2, PublishedRun
    <2>4. Len(ns) # 0
      <3> SUFFICES ASSUME Len(ns) = 0 PROVE FALSE
        OBVIOUS
      <3>1. Len(published') = Len(published)
        BY SMTT(30), <1>2, <2>3
      <3> QED BY <1>2, <2>3, <3>1, SeqSame
    <2> QED BY SMTT(30), <1>2, <2>3, <2>4
  <1>4. /\ numbers \in Seq(1 .. MaxUpdates) /\ Len(numbers) = Len(published)
        /\ numbers' \in Seq(1 .. MaxUpdates) /\ Len(numbers') = Len(published')
    BY SMTT(30), <1>2, SeqOfFunction, SeqLength
  <1>5. /\ \A k \in 1 .. Len(published) : numbers[k] = published[k].n
        /\ \A k \in 1 .. Len(published') : numbers'[k] = published'[k].n
        /\ DOMAIN numbers' = 1 .. Len(published')
    BY <1>2
  <1>6. \A k \in 1 .. Len(published) : numbers'[k] = numbers[k]
    BY SMTT(30), <1>2, <1>3, <1>5
  <1> HIDE DEF numbers
  <1>7. SubSeq(numbers', 1, Len(numbers)) = numbers
    BY SMTT(30), <1>2, <1>3, <1>4, <1>6, PrefixKept
  <1>8. Channel!Increasing(numbers')
    BY SMTT(30), <1>2, <1>5 DEF Channel!Increasing, OrderKept
  <1>9. \A k \in DOMAIN numbers' : numbers'[k] \in 1 .. sent
    <2>1. \A k \in DOMAIN published' : published'[k].n <= sent /\ published'[k].n \in 1 .. MaxUpdates
      BY <1>2 DEF OrderKept
    <2>2. sent \in Nat
      BY SMTT(30), <1>1, FwdAssumption DEF FwdTypeOK
    <2> QED BY SMTT(30), <1>2, <1>5, <2>1, <2>2
  <1> QED BY <1>2, <1>3, <1>4, <1>7, <1>8, <1>9 DEF Channel!Deliver, numbers

-----------------------------------------------------------------------------
(* The theorems.                                                            *)

\* In every reachable state the numbers of the published, the held and the queued
\* updates of a player ascend (forward, run, publish).
THEOREM OrderAlwaysKept == FwdSpec => []OrderKept
  <1> QED BY OrderInit, OrderStep, PTL DEF FwdSpec

\* The forwarder implements OrderedChannel: an update of a player that is published
\* comes after all those published before it, and was sent (forward, run, publish).
THEOREM ForwardingOrdered == FwdSpec => ForwardsInOrder
  <1> DEFINE numbers == [k \in DOMAIN published |-> published[k].n]
  <1>1. FwdInit => Channel!ChannelInit
    BY SMTT(30) DEF FwdInit, Channel!ChannelInit
  <1>2. OrderKept /\ OrderKept' /\ [FwdNext]_fwdVars => [Channel!ChannelNext]_<<sent, numbers>>
    <2> SUFFICES ASSUME OrderKept, OrderKept', [FwdNext]_fwdVars
                 PROVE  [Channel!ChannelNext]_<<sent, numbers>>
      OBVIOUS
    <2>1. CASE Forward
      <3>1. sent' = sent + 1 /\ published' = published
        BY <2>1 DEF Forward
      <3> QED BY <3>1 DEF Channel!ChannelNext, Channel!Offer
    <2>2. CASE sent' = sent /\ published' = published
      BY <2>2
    <2>3. CASE sent' = sent /\ published' # published /\ Serve
      BY <2>3, ServeDelivers DEF Channel!ChannelNext
    <2>4. SendDeferred \/ Commit \/ PlayerDropped \/ SweepRoutes \/ HoldExpires \/ TimerFires
            \/ UNCHANGED fwdVars => sent' = sent /\ published' = published
      BY DEF SendDeferred, Commit, PlayerDropped, SweepRoutes, HoldExpires, TimerFires, fwdVars
    <2>5. Serve => sent' = sent
      BY DEF Serve
    <2> QED BY <2>1, <2>2, <2>3, <2>4, <2>5 DEF FwdNext
  <1> QED BY <1>1, <1>2, OrderAlwaysKept, PTL DEF FwdSpec, ForwardsInOrder, Channel!ChannelSpec

-----------------------------------------------------------------------------
(* The directory of zones. *)

\* The facts about finite sets are used from here on.
INSTANCE FiniteSetTheorems

\* The player a fold over s takes.
Chosen(s) == CHOOSE x \in s : TRUE
\* The plan before the first placement.
Start == [route |-> routing, load |-> [z \in DirZones |-> Cardinality(PlayersIn(z))]]
\* g places the players of every subset of S, one at a time.
Unfolds(g, S, base, surv) ==
    g = [s \in SUBSET S |-> IF s = {} THEN base ELSE Assign(Chosen(s), g[s \ {Chosen(s)}], surv)]
\* The placement the fold stands for.
Unfolding(S, base, surv) == CHOOSE g : Unfolds(g, S, base, surv)

\* plan_rebalance is that placement of all the players.
LEMMA FoldUnfolds ==
    ASSUME NEW S, NEW surv
    PROVE  PlanRebalance(S, surv) = Unfolding(S, Start, surv)[S]
BY DEF PlanRebalance, FoldSet, MapThenFoldSet, Unfolding, Unfolds, Start, Chosen

\* A set of subsets of a finite set has a smallest member.
LEMMA SmallestSubset ==
    ASSUME NEW S, IsFiniteSet(S), NEW bad \in SUBSET SUBSET S, bad # {}
    PROVE  \E T \in bad : \A U \in bad : U \subseteq T => U = T
<1>1. bad \subseteq FiniteSubsetsOf(S)
  BY FS_FiniteSubsetsOfFinite
<1>2. PICK T \in bad : \A U \in bad : ~(<<U, T>> \in StrictSubsetOrdering(S))
  BY <1>1, WFMin, FS_StrictSubsetOrderingWellFounded
<1>3. ASSUME NEW U \in bad, U \subseteq T, U # T
      PROVE  <<U, T>> \in StrictSubsetOrdering(S)
  BY <1>3 DEF StrictSubsetOrdering
<1>4. \A U \in bad : U \subseteq T => U = T
  BY <1>2, <1>3
<1> QED BY <1>4

\* Two folds give a set they both reach the same result.
LEMMA UnfoldsOnce ==
    ASSUME NEW S, IsFiniteSet(S), NEW V, NEW base, NEW surv, NEW g, NEW h,
           Unfolds(g, S, base, surv), Unfolds(h, V, base, surv),
           NEW s \in SUBSET S, s \in SUBSET V
    PROVE  g[s] = h[s]
<1> DEFINE bad == {t \in SUBSET S : t \subseteq V /\ g[t] # h[t]}
<1> SUFFICES ASSUME bad # {} PROVE FALSE
  OBVIOUS
<1>1. PICK t \in bad : \A u \in bad : u \subseteq t => u = t
  <2>1. bad \in SUBSET SUBSET S
    OBVIOUS
  <2> HIDE DEF bad
  <2> QED BY <2>1, SmallestSubset, SMTT(30)
<1>2. t \in SUBSET S /\ t \in SUBSET V /\ g[t] # h[t]
  OBVIOUS
<1>3. /\ g[t] = IF t = {} THEN base ELSE Assign(Chosen(t), g[t \ {Chosen(t)}], surv)
      /\ h[t] = IF t = {} THEN base ELSE Assign(Chosen(t), h[t \ {Chosen(t)}], surv)
  BY <1>2 DEF Unfolds
<1>4. t # {} /\ Chosen(t) \in t
  BY <1>2, <1>3 DEF Chosen
<1>5. t \ {Chosen(t)} \notin bad
  BY <1>1, <1>4
<1>6. g[t \ {Chosen(t)}] = h[t \ {Chosen(t)}]
  BY <1>2, <1>5
<1> QED BY <1>2, <1>3, <1>6

\* The fold over a finite set exists.
LEMMA UnfoldingExists ==
    ASSUME NEW S, IsFiniteSet(S), NEW base, NEW surv
    PROVE  Unfolds(Unfolding(S, base, surv), S, base, surv)
<1> DEFINE Exists(T) == \E g : Unfolds(g, T, base, surv)
           bad == {T \in SUBSET S : ~Exists(T)}
           Val(s) == Unfolding(s, base, surv)[s]
<1>1. ASSUME NEW T, Exists(T) PROVE Unfolds(Unfolding(T, base, surv), T, base, surv)
  BY <1>1 DEF Unfolding
<1> SUFFICES ASSUME bad # {} PROVE FALSE
  BY <1>1
<1>2. PICK T \in bad : \A U \in bad : U \subseteq T => U = T
  <2>1. bad \in SUBSET SUBSET S
    OBVIOUS
  <2> HIDE DEF bad
  <2> QED BY <2>1, SmallestSubset, SMTT(30)
<1> DEFINE g == [s \in SUBSET T |-> IF s = {} THEN base ELSE Assign(Chosen(s), Val(s \ {Chosen(s)}), surv)]
<1>3. ASSUME NEW s \in SUBSET T, s # {}
      PROVE  /\ Chosen(s) \in s /\ s \ {Chosen(s)} \in SUBSET T /\ IsFiniteSet(s \ {Chosen(s)})
             /\ Unfolds(Unfolding(s \ {Chosen(s)}, base, surv), s \ {Chosen(s)}, base, surv)
  <2>1. Chosen(s) \in s
    BY <1>3 DEF Chosen
  <2>2. s \ {Chosen(s)} \in SUBSET S /\ s \ {Chosen(s)} \subseteq T /\ s \ {Chosen(s)} # T
    BY <1>2, <1>3, <2>1
  <2>3. Exists(s \ {Chosen(s)})
    BY <1>2, <2>2
  <2>4. IsFiniteSet(s \ {Chosen(s)})
    BY <2>2, FS_Subset
  <2> HIDE DEF Exists
  <2> QED BY <1>1, <2>1, <2>2, <2>3, <2>4
<1>4. ASSUME NEW s \in SUBSET T, s # {}
      PROVE  g[s \ {Chosen(s)}] = Val(s \ {Chosen(s)})
  <2> DEFINE u == s \ {Chosen(s)}
             fu == Unfolding(u, base, surv)
  <2>1. u \in SUBSET T /\ IsFiniteSet(u) /\ Unfolds(fu, u, base, surv)
    BY <1>3, <1>4
  <2> HIDE DEF u
  <2>2. g[u] = IF u = {} THEN base ELSE Assign(Chosen(u), Val(u \ {Chosen(u)}), surv)
    BY <2>1
  <2>3. fu[u] = IF u = {} THEN base ELSE Assign(Chosen(u), fu[u \ {Chosen(u)}], surv)
    BY <2>1 DEF Unfolds
  <2>4. CASE u = {}
    BY <2>2, <2>3, <2>4 DEF u
  <2>5. CASE u # {}
    <3> DEFINE w == u \ {Chosen(u)}
    <3>1. w \in SUBSET u /\ w \in SUBSET w
      OBVIOUS
    <3>2. Unfolds(Unfolding(w, base, surv), w, base, surv)
      BY <1>3, <2>1, <2>5
    <3> HIDE DEF w, fu
    <3>3. fu[w] = Unfolding(w, base, surv)[w]
      BY <2>1, <3>1, <3>2, UnfoldsOnce, SMTT(30)
    <3> QED BY <2>2, <2>3, <2>5, <3>3 DEF w, fu, u
  <2> QED BY <2>4, <2>5
<1>5. Unfolds(g, T, base, surv)
  BY <1>4 DEF Unfolds
<1> QED BY <1>2, <1>5

-----------------------------------------------------------------------------
(* plan_rebalance.                                                           *)

\* The players a routing table sends to zone t.
On(route, t) == {p \in DirPlayers : route[p] = t}
\* What plan_rebalance found in a zone.
Found(t) == Cardinality(On(routing, t))

\* The plans plan_rebalance works on.
Plans == [route : [DirPlayers -> DirZones \cup {Nowhere}], load : [DirZones -> Nat]]

\* The plan so far has placed the players s and no other.
Sane(plan, s, surv) ==
    /\ plan \in Plans
    /\ \A p \in s : plan.route[p] \in surv \cup {Nowhere}
    /\ \A p \in DirPlayers \ s : plan.route[p] = routing[p]

\* The tally is the table's, and the placements so far are fair.
Counted(plan, surv) ==
    \A t \in surv : plan.load[t] = Cardinality(On(plan.route, t)) /\ Found(t) <= plan.load[t]
\* No survivor is filled beyond its capacity, nobody is left out while there is
\* room, and who took players is at most one ahead of who could take more.
Fair(plan, s, surv) ==
    /\ \A t \in surv : plan.load[t] > Found(t) => plan.load[t] <= Capacity[t]
    /\ (\E p \in s : plan.route[p] = Nowhere) => \A t \in surv : plan.load[t] >= Capacity[t]
    /\ \A t, u \in surv : plan.load[t] > Found(t) /\ plan.load[u] < Capacity[u]
            => plan.load[t] <= plan.load[u] + 1

\* A zone with room that carries least.
Least(room, load) == CHOOSE s \in room : \A t \in room : load[s] <= load[t]

\* Among zones with room there is one that carries least.
LEMMA LeastIsThere ==
    ASSUME NEW room, NEW load, \A s \in room : load[s] \in Nat, room # {}
    PROVE  /\ Least(room, load) \in room
           /\ \A t \in room : load[Least(room, load)] <= load[t]
<1> DEFINE loads == {load[s] : s \in room}
<1>1. loads \subseteq Nat /\ loads # {}
  OBVIOUS
<1>2. PICK n \in loads : \A m \in loads : ~(<<m, n>> \in OpToRel(<, Nat))
  <2> HIDE DEF loads
  <2> QED BY <1>1, WFMin, NatLessThanWellFounded
<1>3. \A m \in loads : ~(m < n)
  BY <1>1, <1>2 DEF OpToRel
<1>4. PICK s \in room : n = load[s]
  OBVIOUS
<1>5. \A t \in room : load[s] <= load[t]
  <2> TAKE t \in room
  <2>1. load[t] \in Nat /\ load[s] \in Nat /\ ~(load[t] < load[s])
    BY <1>3, <1>4
  <2> QED BY <2>1, SMTT(30)
<1> QED BY <1>5 DEF Least

\* Player p was placed in zone t.
Placed(next, plan, p, t) ==
    /\ \A q \in DirPlayers : next.route[q] = IF q = p THEN t ELSE plan.route[q]
    /\ next \in Plans
\* Its load grew by one.
Tallied(next, plan, t) ==
    \A u \in DirZones : next.load[u] = IF u = t THEN plan.load[u] + 1 ELSE plan.load[u]

\* One placement, as two cases.
LEMMA NoRoom ==
    ASSUME NEW plan \in Plans, NEW p \in DirPlayers, NEW surv, WithRoom(plan.load, surv) = {}
    PROVE  Placed(Assign(p, plan, surv), plan, p, Nowhere) /\ Assign(p, plan, surv).load = plan.load
<1>1. Assign(p, plan, surv) = [plan EXCEPT !.route[p] = Nowhere]
  BY DEF Assign
<1> QED BY <1>1, SMTT(30) DEF Plans, Placed

\* With room the player goes to a zone that carries least.
LEMMA Room ==
    ASSUME NEW plan \in Plans,
           NEW p \in DirPlayers, NEW surv, surv \subseteq DirZones, WithRoom(plan.load, surv) # {},
           NEW t, t = Least(WithRoom(plan.load, surv), plan.load)
    PROVE  /\ Placed(Assign(p, plan, surv), plan, p, t)
           /\ Tallied(Assign(p, plan, surv), plan, t)
           /\ t \in surv /\ plan.load[t] < Capacity[t]
           /\ \A u \in surv : plan.load[u] < Capacity[u] => plan.load[t] <= plan.load[u]
<1>1. Assign(p, plan, surv) = [plan EXCEPT !.route[p] = t, !.load[t] = @ + 1]
  BY DEF Assign, Least
<1>2. \A u \in WithRoom(plan.load, surv) : u \in surv /\ plan.load[u] < Capacity[u] /\ plan.load[u] \in Nat
  BY DEF WithRoom, Plans
<1>3. t \in WithRoom(plan.load, surv) /\ \A u \in WithRoom(plan.load, surv) : plan.load[t] <= plan.load[u]
  BY <1>2, LeastIsThere
<1>4. t \in DirZones
  BY <1>2, <1>3
<1> DEFINE f == [plan EXCEPT !.route[p] = t]
<1>5. /\ f \in Plans /\ f.load = plan.load
      /\ \A q \in DirPlayers : f.route[q] = IF q = p THEN t ELSE plan.route[q]
  BY <1>4, SMTT(30) DEF Plans
<1>6. Assign(p, plan, surv) = [f EXCEPT !.load[t] = @ + 1]
  BY <1>1
<1> HIDE DEF f
<1>7. /\ [f EXCEPT !.load[t] = @ + 1] \in Plans /\ [f EXCEPT !.load[t] = @ + 1].route = f.route
      /\ \A u \in DirZones : [f EXCEPT !.load[t] = @ + 1].load[u] = IF u = t THEN f.load[u] + 1 ELSE f.load[u]
  BY <1>4, <1>5, SMTT(30) DEF Plans
<1>8. Placed(Assign(p, plan, surv), plan, p, t) /\ Tallied(Assign(p, plan, surv), plan, t)
  BY <1>5, <1>6, <1>7 DEF Placed, Tallied
<1>9. \A u \in surv : plan.load[u] < Capacity[u] => plan.load[t] <= plan.load[u]
  BY <1>3 DEF WithRoom
<1> QED BY <1>2, <1>3, <1>8, <1>9

\* One more player placed.
LEMMA StaysSane ==
    ASSUME NEW s \in SUBSET DirPlayers, NEW p \in DirPlayers \ s, NEW surv \in SUBSET DirZones,
           NEW plan, Sane(plan, s, surv)
    PROVE  Sane(Assign(p, plan, surv), s \cup {p}, surv)
<1> DEFINE next == Assign(p, plan, surv)
<1>1. plan \in Plans
  BY DEF Sane
<1>2. PICK t \in surv \cup {Nowhere} :
          Placed(next, plan, p, t)
  <2>1. CASE WithRoom(plan.load, surv) = {}
    BY <1>1, <2>1, NoRoom
  <2>2. CASE WithRoom(plan.load, surv) # {}
    BY <1>1, <2>2, Room
  <2> QED BY <2>1, <2>2
<1> HIDE DEF next
<1>4. \A q \in s \cup {p} : next.route[q] \in surv \cup {Nowhere}
  BY <1>2 DEF Sane, Placed
<1>5. \A q \in DirPlayers \ (s \cup {p}) : next.route[q] = routing[q]
  BY <1>2 DEF Sane, Placed
<1> QED BY <1>2, <1>4, <1>5 DEF Sane, next, Placed

\* The counts of a routing table are natural numbers.
LEMMA CountsTyped ==
    ASSUME NEW route, NEW t
    PROVE  IsFiniteSet(On(route, t)) /\ Cardinality(On(route, t)) \in Nat
BY DirAssumption, FS_Subset, FS_CardinalityType DEF On

\* A placement keeps the tally what the table says.
LEMMA StaysCounted ==
    ASSUME NEW s \in SUBSET DirPlayers, NEW p \in DirPlayers \ s, NEW surv \in SUBSET DirZones,
           NEW plan, Sane(plan, s, surv), Counted(plan, surv), routing[p] \notin surv \cup {Nowhere}
    PROVE  Counted(Assign(p, plan, surv), surv)
<1> DEFINE next == Assign(p, plan, surv)
<1>1. plan \in Plans
  BY DEF Sane
<1>2. plan.route[p] \notin surv \cup {Nowhere}
  BY DEF Sane
<1>a. ASSUME NEW u \in surv PROVE plan.load[u] \in Nat /\ Found(u) \in Nat
  BY <1>1, CountsTyped DEF Found, Plans
<1>3. CASE WithRoom(plan.load, surv) = {}
  <2>1. Placed(next, plan, p, Nowhere) /\ next.load = plan.load
    BY <1>1, <1>3, NoRoom
  <2>2. ASSUME NEW u \in surv PROVE On(next.route, u) = On(plan.route, u)
    BY <1>1, <1>2, <2>1, DirAssumption DEF On, Placed
  <2> QED BY <2>1, <2>2 DEF Counted
<1>4. CASE WithRoom(plan.load, surv) # {}
  <2>0. PICK t : t = Least(WithRoom(plan.load, surv), plan.load)
    OBVIOUS
  <2>1. Placed(next, plan, p, t) /\ Tallied(next, plan, t) /\ t \in surv
    BY <1>1, <1>4, <2>0, Room
  <2> HIDE DEF next
  <2>2. ASSUME NEW u \in surv, u # t PROVE On(next.route, u) = On(plan.route, u) /\ next.load[u] = plan.load[u]
    BY <1>1, <1>2, <2>1, <2>2 DEF On, Placed, Tallied
  <2>3. On(next.route, t) = On(plan.route, t) \cup {p} /\ p \notin On(plan.route, t)
    BY <1>1, <1>2, <2>1 DEF On, Placed
  <2>4. Cardinality(On(next.route, t)) = Cardinality(On(plan.route, t)) + 1
    BY <2>3, CountsTyped, FS_AddElement
  <2>5. next.load[t] = plan.load[t] + 1
    BY <1>1, <2>1 DEF Tallied
  <2>6. next.load[t] = Cardinality(On(next.route, t))
    BY <2>1, <2>4, <2>5 DEF Counted
  <2>7. Found(t) <= next.load[t]
    <3>1. Found(t) <= plan.load[t] /\ Found(t) \in Nat /\ plan.load[t] \in Nat
      BY <1>a, <2>1 DEF Counted
    <3> QED BY <2>5, <3>1, SMTT(30)
  <2> QED BY <2>2, <2>6, <2>7 DEF Counted, next
<1> QED BY <1>3, <1>4

\* A placement keeps the plan fair.
LEMMA StaysFair ==
    ASSUME NEW s \in SUBSET DirPlayers, NEW p \in DirPlayers \ s, NEW surv \in SUBSET DirZones,
           NEW plan, Sane(plan, s, surv), Fair(plan, s, surv)
    PROVE  Fair(Assign(p, plan, surv), s \cup {p}, surv)
<1> DEFINE next == Assign(p, plan, surv)
<1>1. plan \in Plans /\ \A u \in surv : u \in DirZones /\ u # Nowhere
  BY DirAssumption DEF Sane
<1>2. ASSUME NEW u \in surv PROVE plan.load[u] \in Nat /\ Found(u) \in Nat /\ Capacity[u] \in Nat
  BY <1>1, CountsTyped, DirAssumption DEF Found, Plans
<1>3. CASE WithRoom(plan.load, surv) = {}
  <2>1. Placed(next, plan, p, Nowhere) /\ next.load = plan.load
    BY <1>1, <1>3, NoRoom
  <2> HIDE DEF next
  <2>2. ASSUME NEW u \in surv PROVE next.load[u] >= Capacity[u]
    <3>1. ~(plan.load[u] < Capacity[u])
      BY <1>3 DEF WithRoom
    <3> QED BY <1>2, <2>1, <3>1, SMTT(30)
  <2> QED BY <2>1, <2>2 DEF Fair, next
<1>4. CASE WithRoom(plan.load, surv) # {}
  <2>0. PICK t : t = Least(WithRoom(plan.load, surv), plan.load)
    OBVIOUS
  <2>1. /\ Placed(next, plan, p, t) /\ Tallied(next, plan, t)
        /\ t \in surv /\ plan.load[t] < Capacity[t]
        /\ \A u \in surv : plan.load[u] < Capacity[u] => plan.load[t] <= plan.load[u]
    BY <1>1, <1>4, <2>0, Room
  <2> HIDE DEF next
  <2>2. /\ next.load[t] = plan.load[t] + 1
        /\ \A u \in surv : u # t => next.load[u] = plan.load[u]
    BY <1>1, <2>1 DEF Tallied
  <2>3. ASSUME NEW u \in surv, next.load[u] > Found(u) PROVE next.load[u] <= Capacity[u]
    <3>1. CASE u = t
      BY <1>2, <2>1, <2>2, <3>1, SMTT(30)
    <3>2. CASE u # t
      BY <2>2, <2>3, <3>2 DEF Fair
    <3> QED BY <3>1, <3>2
  <2>4. ASSUME NEW q \in s \cup {p}, next.route[q] = Nowhere PROVE FALSE
    <3>1. q # p
      BY <1>1, <2>1, <2>4 DEF Placed
    <3>2. q \in s /\ plan.route[q] = Nowhere
      BY <2>1, <2>4, <3>1 DEF Placed
    <3>3. plan.load[t] >= Capacity[t]
      BY <2>1, <3>2 DEF Fair
    <3> QED BY <1>2, <2>1, <3>3, SMTT(30)
  <2>5. ASSUME NEW u \in surv, NEW v \in surv, next.load[u] > Found(u), next.load[v] < Capacity[v]
        PROVE  next.load[u] <= next.load[v] + 1
    <3>1. CASE u = t /\ v = t
      BY <1>2, <2>2, <3>1, SMTT(30)
    <3>2. CASE u = t /\ v # t
      BY <1>2, <2>1, <2>2, <2>5, <3>2, SMTT(30)
    <3>3. CASE u # t
      <4>1. plan.load[u] > Found(u) /\ plan.load[v] < Capacity[v]
        BY <1>2, <2>1, <2>2, <2>5, <3>3, SMTT(30)
      <4>2. plan.load[u] <= plan.load[v] + 1
        BY <4>1 DEF Fair
      <4> QED BY <1>2, <2>2, <3>3, <4>2, SMTT(30)
    <3> QED BY <3>1, <3>2, <3>3
  <2> QED BY <2>3, <2>4, <2>5 DEF Fair, next
<1> QED BY <1>3, <1>4

\* What plan_rebalance makes of the orphans of zone z.
LEMMA PlanHolds ==
    ASSUME NEW z \in DirZones, NEW surv \in SUBSET DirZones, z \notin surv,
           routing \in [DirPlayers -> DirZones \cup {Nowhere}]
    PROVE  LET plan == PlanRebalance(PlayersIn(z), surv)
           IN  Sane(plan, PlayersIn(z), surv) /\ Counted(plan, surv) /\ Fair(plan, PlayersIn(z), surv)
<1> DEFINE S == PlayersIn(z)
           f == Unfolding(S, Start, surv)
           OK(s) == Sane(f[s], s, surv) /\ Counted(f[s], surv) /\ Fair(f[s], s, surv)
           bad == {s \in SUBSET S : ~OK(s)}
<1>1. S \in SUBSET DirPlayers /\ IsFiniteSet(S) /\ \A p \in S : routing[p] = z /\ routing[p] \notin surv \cup {Nowhere}
  BY DirAssumption, FS_Subset DEF PlayersIn
<1>2. PlanRebalance(S, surv) = f[S] /\ Unfolds(f, S, Start, surv)
  BY <1>1, FoldUnfolds, UnfoldingExists
<1> HIDE DEF S, f
<1> SUFFICES ASSUME bad # {} PROVE FALSE
  BY <1>2 DEF S
<1>3. PICK s \in bad : \A u \in bad : u \subseteq s => u = s
  <2>1. bad \in SUBSET SUBSET S
    OBVIOUS
  <2> HIDE DEF bad
  <2> QED BY <1>1, <2>1, SmallestSubset, SMTT(30)
<1>4. s \in SUBSET S /\ ~OK(s)
  OBVIOUS
<1>5. f[s] = IF s = {} THEN Start ELSE Assign(Chosen(s), f[s \ {Chosen(s)}], surv)
  BY <1>2, <1>4 DEF Unfolds
<1>6. CASE s = {}
  <2>1. /\ Start.route = routing /\ \A t \in DirZones : Start.load[t] = Found(t)
        /\ Start \in Plans
    <3>1. \A t \in DirZones : Cardinality(PlayersIn(t)) = Found(t)
      BY DEF PlayersIn, Found, On
    <3>2. \A t \in DirZones : Found(t) \in Nat
      BY CountsTyped DEF Found
    <3> QED BY <3>1, <3>2 DEF Start, Plans
  <2>2. \A t \in surv : Start.load[t] = Found(t) /\ Found(t) \in Nat /\ Found(t) <= Start.load[t] /\ ~(Start.load[t] > Found(t))
    <3> TAKE t \in surv
    <3>1. Start.load[t] = Found(t) /\ Found(t) \in Nat
      BY <2>1, CountsTyped DEF Found
    <3> QED BY <3>1, SMTT(30)
  <2>3. Sane(Start, {}, surv)
    BY <2>1 DEF Sane
  <2>4. Counted(Start, surv)
    BY <2>1, <2>2 DEF Counted, Found
  <2>5. Fair(Start, {}, surv)
    BY <2>2 DEF Fair
  <2> QED BY <1>4, <1>5, <1>6, <2>3, <2>4, <2>5
<1>7. CASE s # {}
  <2> DEFINE p == Chosen(s)
             u == s \ {p}
  <2>1. p \in s /\ u \in SUBSET S /\ u # s /\ u \subseteq s /\ u \cup {p} = s
    BY <1>4, <1>7 DEF Chosen
  <2>2. OK(u)
    BY <1>3, <2>1
  <2>3. p \in DirPlayers \ u /\ u \in SUBSET DirPlayers /\ routing[p] \notin surv \cup {Nowhere}
    BY <1>1, <1>4, <2>1
  <2>4. f[s] = Assign(p, f[u], surv)
    BY <1>5, <1>7
  <2> HIDE DEF u, p
  <2>5. Sane(f[s], u \cup {p}, surv)
    BY <2>2, <2>3, <2>4, StaysSane, SMTT(30)
  <2>6. Counted(f[s], surv)
    BY <2>2, <2>3, <2>4, StaysCounted
  <2>7. Fair(f[s], u \cup {p}, surv)
    BY <2>2, <2>3, <2>4, StaysFair, SMTT(30)
  <2> QED BY <1>4, <2>1, <2>5, <2>6, <2>7
<1> QED BY <1>6, <1>7

-----------------------------------------------------------------------------
(* The directory.                                                            *)

\* A registration and an eviction that did not interleave: between its two
\* locks a registering zone is in the map, an evicted one is not, and nobody
\* is both.
LocksAgree ==
    ~raced => \A z \in DirZones :
        /\ registering[z] = "half" => z \in zones /\ z \notin evicting
        /\ z \in evicting => z \notin zones

\* The inductive invariant.
DirInv == DirTypeOK /\ LocksAgree /\ IndexAgrees /\ RoutesRecoverable

\* The players of a zone can be counted.
LEMMA CountBounded ==
    ASSUME NEW z
    PROVE  Cardinality(PlayersIn(z)) \in 0 .. Cardinality(DirPlayers) /\ Cardinality(DirPlayers) \in Nat
<1>1. PlayersIn(z) \in SUBSET DirPlayers
  BY DEF PlayersIn
<1>2. IsFiniteSet(PlayersIn(z)) /\ Cardinality(PlayersIn(z)) <= Cardinality(DirPlayers)
  BY <1>1, DirAssumption, FS_Subset
<1>3. Cardinality(PlayersIn(z)) \in Nat /\ Cardinality(DirPlayers) \in Nat
  BY <1>2, DirAssumption, FS_CardinalityType
<1> QED BY <1>2, <1>3, SMTT(30)

\* The directory starts empty.
LEMMA DirStart == DirInit => DirInv
<1> SUFFICES ASSUME DirInit PROVE DirInv
  OBVIOUS
<1>1. 0 \in 0 .. Cardinality(DirPlayers) /\ 0 \in 0 .. MaxSilences
  <2>1. Cardinality(DirPlayers) \in Nat
    BY CountBounded
  <2> QED BY <2>1, DirAssumption, SMTT(30)
<1>2. DirTypeOK
  BY <1>1 DEF DirInit, DirTypeOK, NotDraining
<1>3. LocksAgree
  BY DEF DirInit, LocksAgree
<1>4. IndexAgrees /\ RoutesRecoverable
  BY DEF DirInit, IndexAgrees, RoutesRecoverable
<1> QED BY <1>2, <1>3, <1>4 DEF DirInv

\* What a route may lead to.
Recoverable(z) == z \in zones \cup evicting \cup failed \cup {Nowhere}

\* What the quadtree finds is in the map or being evicted.
LEMMA IndexedRecoverable ==
    ASSUME DirInv, ~raced, NEW z \in quadtree
    PROVE  Recoverable(z)
<1>1. z \in DirZones
  BY DEF DirInv, DirTypeOK
<1>2. CASE registering[z] = "half"
  BY <1>1, <1>2 DEF DirInv, LocksAgree, Recoverable
<1>3. CASE registering[z] # "half" /\ z \notin evicting
  BY <1>1, <1>3 DEF DirInv, IndexAgrees, Recoverable
<1> QED BY <1>2, <1>3 DEF Recoverable

\* A player is routed to a zone that is registered.
LEMMA LeastLoadedLive ==
    ASSUME NEW ex, NEW z \in LeastLoaded(ex)
    PROVE  z \in zones
BY DEF LeastLoaded

\* Everything but the routes and the drain stays.
Still == UNCHANGED <<zones, quadtree, registering, evicting, failed, silent, playerCount, silences, raced>>

\* A player is given a route.
LEMMA RerouteStep ==
    ASSUME DirInv, Still, NEW p \in DirPlayers, NEW z \in DirZones \cup {Nowhere},
           ~raced => Recoverable(z), routing' = [routing EXCEPT ![p] = z],
           draining' \in [zone : DirZones \cup {Nowhere}, todo : SUBSET DirPlayers]
    PROVE  DirInv'
<1>1. DirTypeOK'
  BY DEF DirInv, DirTypeOK, Still
<1>2. LocksAgree' /\ IndexAgrees'
  BY DEF DirInv, LocksAgree, IndexAgrees, Still
<1>3. RoutesRecoverable'
  <2>1. \A q \in DirPlayers : routing'[q] = IF q = p THEN z ELSE routing[q]
    BY DEF DirInv, DirTypeOK
  <2> QED BY <2>1 DEF DirInv, RoutesRecoverable, Still, Recoverable
<1> QED BY <1>1, <1>2, <1>3 DEF DirInv

\* The routes stay.
LEMMA DrainStep ==
    ASSUME DirInv, Still, UNCHANGED routing,
           draining' \in [zone : DirZones \cup {Nowhere}, todo : SUBSET DirPlayers]
    PROVE  DirInv'
<1>1. DirTypeOK'
  BY DEF DirInv, DirTypeOK, Still
<1>2. LocksAgree' /\ IndexAgrees' /\ RoutesRecoverable'
  BY DEF DirInv, LocksAgree, IndexAgrees, RoutesRecoverable, Still
<1> QED BY <1>1, <1>2 DEF DirInv

\* A zone registers, in the map and then in the tree, or sends a heartbeat.
LEMMA RegisterStep ==
    ASSUME DirInv, NEW z \in DirZones, RegisterInMap(z) \/ RegisterInTree(z) \/ Heartbeat(z)
    PROVE  DirInv'
<1> USE DEF DirInv
<1>1. CASE RegisterInMap(z)
  <2>0. 0 \in 0 .. Cardinality(DirPlayers)
    BY CountBounded, SMTT(30)
  <2>1. DirTypeOK'
    BY <1>1, <2>0 DEF DirTypeOK, RegisterInMap
  <2>2. LocksAgree'
    BY <1>1 DEF DirTypeOK, RegisterInMap, LocksAgree
  <2>3. IndexAgrees'
    BY <1>1 DEF DirTypeOK, RegisterInMap, IndexAgrees
  <2>4. RoutesRecoverable'
    BY <1>1 DEF DirTypeOK, RegisterInMap, RoutesRecoverable
  <2> QED BY <2>1, <2>2, <2>3, <2>4
<1>2. CASE RegisterInTree(z)
  <2>1. DirTypeOK'
    BY <1>2 DEF DirTypeOK, RegisterInTree
  <2>2. LocksAgree'
    BY <1>2 DEF DirTypeOK, RegisterInTree, LocksAgree
  <2>3. IndexAgrees'
    BY <1>2 DEF DirTypeOK, RegisterInTree, IndexAgrees, LocksAgree
  <2>4. RoutesRecoverable'
    BY <1>2 DEF RegisterInTree, RoutesRecoverable
  <2> QED BY <2>1, <2>2, <2>3, <2>4
<1>3. CASE Heartbeat(z)
  <2>0. Reported(z) \in 0 .. Cardinality(DirPlayers)
    BY CountBounded DEF Reported
  <2>a. /\ registering[z] = "idle"
        /\ registering' = registering \/ registering' = [registering EXCEPT ![z] = "called"]
        /\ playerCount' = playerCount \/ playerCount' = [playerCount EXCEPT ![z] = Reported(z)]
        /\ silent' = silent \/ silent' = silent \ {z}
        /\ UNCHANGED <<zones, quadtree, evicting, failed, routing, draining, silences, raced>>
    BY <1>3 DEF Heartbeat, AnswerUnknown
  <2>1. DirTypeOK'
    BY <2>0, <2>a DEF DirTypeOK
  <2>2. \A y \in DirZones : registering'[y] = "half" <=> registering[y] = "half"
    BY <2>a DEF DirTypeOK
  <2>3. LocksAgree' /\ IndexAgrees' /\ RoutesRecoverable'
    BY <2>a, <2>2 DEF LocksAgree, IndexAgrees, RoutesRecoverable
  <2> QED BY <2>1, <2>3
<1> QED BY <1>1, <1>2, <1>3

\* A zone falls silent and is evicted, from the map and then from the tree.
LEMMA EvictStep ==
    ASSUME DirInv, EvictFromMap \/ EvictFromTree \/ \E z \in DirZones : Silence(z)
    PROVE  DirInv'
<1> USE DEF DirInv
<1>1. CASE EvictFromMap
  <2>1. DirTypeOK'
    BY <1>1 DEF DirTypeOK, EvictFromMap
  <2>2. LocksAgree'
    BY <1>1 DEF DirTypeOK, EvictFromMap, LocksAgree
  <2>3. IndexAgrees'
    BY <1>1 DEF DirTypeOK, EvictFromMap, IndexAgrees
  <2>4. RoutesRecoverable'
    BY <1>1 DEF EvictFromMap, RoutesRecoverable
  <2> QED BY <2>1, <2>2, <2>3, <2>4
<1>2. CASE EvictFromTree
  <2>1. DirTypeOK'
    BY <1>2 DEF DirTypeOK, EvictFromTree, Unindexed
  <2>2. LocksAgree'
    BY <1>2 DEF EvictFromTree, LocksAgree
  <2>3. IndexAgrees'
    BY <1>2 DEF EvictFromTree, Unindexed, IndexAgrees, LocksAgree
  <2>4. RoutesRecoverable'
    BY <1>2 DEF EvictFromTree, RoutesRecoverable
  <2> QED BY <2>1, <2>2, <2>3, <2>4
<1>3. ASSUME NEW z \in DirZones, Silence(z) PROVE DirInv'
  <2>0. silences + 1 \in 0 .. MaxSilences
    BY <1>3, DirAssumption, SMTT(30) DEF Silence, DirTypeOK
  <2>1. DirTypeOK'
    BY <1>3, <2>0 DEF DirTypeOK, Silence
  <2>2. LocksAgree' /\ IndexAgrees' /\ RoutesRecoverable'
    BY <1>3 DEF Silence, LocksAgree, IndexAgrees, RoutesRecoverable
  <2> QED BY <2>1, <2>2
<1> QED BY <1>1, <1>2, <1>3

\* A player is routed, moves or leaves.
LEMMA RouteStep ==
    ASSUME DirInv, NEW p \in DirPlayers, RouteNewPlayer(p) \/ Rehome(p) \/ Leave(p)
    PROVE  DirInv'
<1>0. /\ Still /\ UNCHANGED draining
      /\ draining' \in [zone : DirZones \cup {Nowhere}, todo : SUBSET DirPlayers]
  BY DEF RouteNewPlayer, Rehome, Leave, Still, DirInv, DirTypeOK
<1>1. zones \subseteq DirZones /\ quadtree \subseteq DirZones
  BY DEF DirInv, DirTypeOK
<1>2. PICK z \in DirZones \cup {Nowhere} : routing' = [routing EXCEPT ![p] = z] /\ (~raced => Recoverable(z))
  <2>1. CASE RouteNewPlayer(p)
    BY <1>1, <2>1, LeastLoadedLive DEF RouteNewPlayer, Recoverable
  <2>2. CASE Rehome(p)
    <3>1. PICK z \in quadtree : routing' = [routing EXCEPT ![p] = z]
      BY <2>2 DEF Rehome
    <3>2. ~raced => Recoverable(z)
      BY IndexedRecoverable
    <3> QED BY <1>1, <3>1, <3>2
  <2>3. CASE Leave(p)
    BY <2>3 DEF Leave, Recoverable
  <2> QED BY <2>1, <2>2, <2>3
<1> QED BY <1>0, <1>2, RerouteStep

\* A zone starts to drain, and a player is moved off it.
LEMMA DrainingStep ==
    ASSUME DirInv, DrainPlayer \/ \E z \in DirZones : DrainZone(z)
    PROVE  DirInv'
<1> DEFINE Drains == [zone : DirZones \cup {Nowhere}, todo : SUBSET DirPlayers]
<1>0. zones \subseteq DirZones /\ draining \in Drains /\ NotDraining \in Drains
  BY DEF DirInv, DirTypeOK, NotDraining
<1>1. ASSUME NEW z \in DirZones, DrainZone(z) PROVE DirInv'
  <2>1. Still /\ UNCHANGED routing /\ draining' = [zone |-> z, todo |-> PlayersIn(z)]
    BY <1>1 DEF DrainZone, Still
  <2>2. draining' \in Drains
    BY <2>1 DEF PlayersIn
  <2> QED BY <2>1, <2>2, DrainStep
<1>2. ASSUME NEW p \in draining.todo, NEW z \in LeastLoaded({draining.zone}), DrainPlayer,
             routing' = [routing EXCEPT ![p] = z],
             draining' = IF draining.todo = {p} THEN NotDraining ELSE [draining EXCEPT !.todo = @ \ {p}]
      PROVE  DirInv'
  <2>1. Still /\ p \in DirPlayers /\ z \in DirZones /\ Recoverable(z)
    BY <1>0, <1>2, LeastLoadedLive DEF DrainPlayer, Still, Recoverable
  <2>2. draining' \in Drains
    BY <1>0, <1>2
  <2> QED BY <1>2, <2>1, <2>2, RerouteStep
<1>3. ASSUME DrainPlayer, draining' = NotDraining, UNCHANGED routing PROVE DirInv'
  <2>1. Still
    BY <1>3 DEF DrainPlayer, Still
  <2> QED BY <1>0, <1>3, <2>1, DrainStep
<1> QED BY <1>1, <1>2, <1>3 DEF DrainPlayer

\* A recovery gives every orphan a survivor or takes its route.
LEMMA RecoveryStep ==
    ASSUME DirInv, NEW z \in DirZones, HandleFailure(z)
    PROVE  DirInv'
<1> DEFINE surv == zones \ {z}
           plan == PlanRebalance(PlayersIn(z), surv)
<1>1. /\ z \in failed /\ failed' = failed \ {z} /\ routing' = plan.route
      /\ UNCHANGED <<zones, quadtree, registering, evicting, silent, playerCount, draining, silences, raced>>
  BY DEF HandleFailure
<1>2. surv \in SUBSET DirZones /\ z \notin surv /\ routing \in [DirPlayers -> DirZones \cup {Nowhere}]
  BY DEF DirInv, DirTypeOK
<1>3. Sane(plan, PlayersIn(z), surv)
  BY <1>2, PlanHolds
<1> HIDE DEF plan
<1>4. DirTypeOK'
  BY <1>1, <1>3 DEF DirInv, DirTypeOK, Sane, Plans
<1>5. LocksAgree' /\ IndexAgrees'
  BY <1>1 DEF DirInv, LocksAgree, IndexAgrees
<1>6. RoutesRecoverable'
  <2> SUFFICES ASSUME ~raced, NEW p \in DirPlayers
               PROVE  routing'[p] \in zones \cup evicting \cup (failed \ {z}) \cup {Nowhere}
    BY <1>1 DEF RoutesRecoverable
  <2>1. CASE p \in PlayersIn(z)
    BY <1>1, <1>3, <2>1 DEF Sane
  <2>2. CASE p \notin PlayersIn(z)
    <3>1. routing'[p] = routing[p] /\ routing[p] # z
      BY <1>1, <1>3, <2>2 DEF Sane, PlayersIn
    <3> QED BY <3>1 DEF DirInv, RoutesRecoverable
  <2> QED BY <2>1, <2>2
<1> QED BY <1>4, <1>5, <1>6 DEF DirInv

\* Every step of the zones, the monitor, the router and the operator preserves it.
LEMMA DirStep == DirInv /\ [DirNext]_dirVars => DirInv'
<1> SUFFICES ASSUME DirInv, [DirNext]_dirVars PROVE DirInv'
  OBVIOUS
<1>1. CASE UNCHANGED dirVars
  BY <1>1 DEF dirVars, DirInv, DirTypeOK, LocksAgree, IndexAgrees, RoutesRecoverable
<1>2. CASE DirNext
  <2>1. ASSUME NEW z \in DirZones, \/ RegisterInMap(z) \/ RegisterInTree(z) \/ Heartbeat(z)
                                   \/ Silence(z) \/ HandleFailure(z) \/ DrainZone(z)
        PROVE  DirInv'
    BY <2>1, RegisterStep, EvictStep, RecoveryStep, DrainingStep
  <2>2. ASSUME EvictFromMap \/ EvictFromTree \/ DrainPlayer PROVE DirInv'
    BY <2>2, EvictStep, DrainingStep
  <2>3. ASSUME NEW p \in DirPlayers, RouteNewPlayer(p) \/ Rehome(p) \/ Leave(p) PROVE DirInv'
    BY <2>3, RouteStep
  <2> QED BY <1>2, <2>1, <2>2, <2>3 DEF DirNext
<1> QED BY <1>1, <1>2

\* DirectoryAgrees: unless a registration and an eviction of one zone interleaved
\* between their locks, the map and the quadtree agree on every zone that no call
\* is working on, and every route leads to a zone that is registered or that an
\* eviction or a recovery under way will deal with.
THEOREM DirectoryAlwaysAgrees == DirSpec => []DirectoryAgrees
<1>1. DirInv => DirectoryAgrees
  BY DEF DirInv, DirectoryAgrees
<1> QED BY <1>1, DirStart, DirStep, PTL DEF DirSpec

\* A recovery is fair and frugal.
LEMMA RecoveryRecovers ==
    ASSUME DirInv, NEW z \in DirZones, HandleFailure(z)
    PROVE  Recovers(z, zones \ {z})
<1> DEFINE surv == zones \ {z}
           plan == PlanRebalance(PlayersIn(z), surv)
<1>1. routing' = plan.route
  BY DEF HandleFailure
<1>2. surv \in SUBSET DirZones /\ z \notin surv /\ routing \in [DirPlayers -> DirZones \cup {Nowhere}]
  BY DEF DirInv, DirTypeOK
<1>3. Sane(plan, PlayersIn(z), surv) /\ Counted(plan, surv) /\ Fair(plan, PlayersIn(z), surv)
  BY <1>2, PlanHolds
<1> HIDE DEF plan, surv
<1>4. ASSUME NEW s \in surv
      PROVE  /\ Cardinality(PlayersIn(s)) = Found(s)
             /\ Cardinality({p \in DirPlayers : routing'[p] = s}) = plan.load[s]
  BY <1>1, <1>3 DEF Counted, On, PlayersIn, Found
<1>5. \A s \in surv : plan.load[s] > Found(s) => plan.load[s] <= Capacity[s]
  BY <1>3 DEF Fair
<1>6. (\E p \in PlayersIn(z) : routing'[p] = Nowhere) => \A s \in surv : plan.load[s] >= Capacity[s]
  BY <1>1, <1>3 DEF Fair
<1>7. ASSUME NEW s \in surv, NEW t \in surv, plan.load[s] > Found(s), ~(plan.load[t] >= Capacity[t])
      PROVE  plan.load[s] <= plan.load[t] + 1
  <2>1. plan.load[t] \in Nat /\ Capacity[t] \in Nat
    BY <1>2, <1>3, DirAssumption DEF Sane, Plans
  <2>2. plan.load[t] < Capacity[t]
    BY <1>7, <2>1, SMTT(30)
  <2> QED BY <1>3, <1>7, <2>2 DEF Fair
<1>8. \A p \in DirPlayers : routing[p] # z => routing'[p] = routing[p]
  BY <1>1, <1>3 DEF Sane, PlayersIn
<1> QED BY <1>4, <1>5, <1>6, <1>7, <1>8 DEF Recovers, surv

\* RecoveryBalanced: a recovery places the players of a failed zone on the
\* survivors within their capacities, leaves one out only when all are full, and
\* leaves no survivor more than one player ahead of one with room, however the
\* fold orders the players.
THEOREM RecoveryAlwaysBalanced == DirSpec => RecoveryBalanced
<1> DEFINE Balanced == \A z \in DirZones : (z \in failed /\ z \notin failed') => Recovers(z, zones \ {z})
<1>1. DirInv /\ [DirNext]_dirVars => [Balanced]_dirVars
  <2> SUFFICES ASSUME DirInv, DirNext, NEW z \in DirZones, z \in failed, z \notin failed'
               PROVE  Recovers(z, zones \ {z})
    OBVIOUS
  <2>1. PICK y \in DirZones : HandleFailure(y)
    BY DEF DirNext, RegisterInMap, RegisterInTree, Heartbeat, Silence, DrainZone, EvictFromMap,
           EvictFromTree, DrainPlayer, RouteNewPlayer, Rehome, Leave
  <2>2. y = z
    BY <2>1 DEF HandleFailure
  <2> QED BY <2>1, <2>2, RecoveryRecovers
<1>2. DirInv /\ [DirNext]_dirVars => DirInv'
  BY DirStep
<1> HIDE DEF Balanced
<1>3. DirSpec => [][Balanced]_dirVars
  BY <1>1, <1>2, DirStart, PTL DEF DirSpec
<1> QED BY <1>3 DEF RecoveryBalanced, Balanced

=============================================================================
