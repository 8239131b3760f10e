-------------------------- MODULE StateSyncProofs ---------------------------
(****************************************************************************)
(* Proofs about the state pipeline, from the entity store of a zone to a client's*)
(* copy of the world, for any players, entities, writers, and number of batches and*)
(* snapshots under way.                                                     *)
(****************************************************************************)
EXTENDS StateSync, WellFoundedInduction, TLAPS

\* A step goes to Zenon unless it names another prover.
USE ZenonT(60)

-----------------------------------------------------------------------------
(* Sequences. *)

\* A sequence is a function on the numbers up to its length.
LEMMA SeqLength ==
    ASSUME NEW S, NEW q \in Seq(S)
    PROVE  Len(q) \in Nat /\ DOMAIN q = 1..Len(q) /\ q \in [1..Len(q) -> S]
  BY SMTT(30)

\* Its elements are of the set it is over.
LEMMA SeqElement ==
    ASSUME NEW S, NEW q \in Seq(S), NEW i \in 1..Len(q)
    PROVE  q[i] \in S
  BY SMTT(30)

\* One sequence after another.
LEMMA SeqConcat ==
    ASSUME NEW S, NEW p \in Seq(S), NEW q \in Seq(S)
    PROVE  /\ p \o q \in Seq(S) /\ Len(p \o q) = Len(p) + Len(q)
           /\ \A k \in 1..Len(p) + Len(q) : (p \o q)[k] = IF k <= Len(p) THEN p[k] ELSE q[k - Len(p)]
  BY SMTT(30)

-----------------------------------------------------------------------------
(* The last of some positions of a queue.                                    *)

\* n is the last position of H.
LastHit(H, n) == n \in H /\ \A k \in H : k <= n

\* Some positions of a queue have a last one.
LEMMA LastHitExists ==
    ASSUME NEW len \in Nat, NEW H \in SUBSET (1 .. len), H # {}
    PROVE  \E n : LastHit(H, n)
<1> DEFINE T == {len - n : n \in H}
<1>0. \A n \in H : len - n \in Nat
  BY SMTT(30)
<1>1. T \subseteq Nat /\ T # {}
  BY <1>0
<1>2. PICK t \in T : \A u \in T : ~(<<u, t>> \in OpToRel(<, Nat))
  <2> HIDE DEF T
  <2> QED BY <1>1, WFMin, NatLessThanWellFounded
<1>3. \A u \in T : ~(u < t)
  BY <1>1, <1>2 DEF OpToRel
<1>4. PICK n \in H : t = len - n
  OBVIOUS
<1>5. \A k \in H : k <= n
  <2> TAKE k \in H
  <2>1. len - k \in T
    OBVIOUS
  <2>2. ~(len - k < len - n)
    BY <1>3, <1>4, <2>1
  <2> QED BY <2>2, SMTT(30)
<1> QED BY <1>5 DEF LastHit

\* There is one last position.
LEMMA LastHitUnique ==
    ASSUME NEW H \in SUBSET Int, NEW m, NEW n, LastHit(H, m), LastHit(H, n)
    PROVE  m = n
BY SMTT(30) DEF LastHit

\* A queue without its n-th entry.
LEMMA Removed ==
    ASSUME NEW S, NEW q \in Seq(S), NEW n \in 1 .. Len(q)
    PROVE  /\ Without(q, n) \in Seq(S) /\ Len(Without(q, n)) = Len(q) - 1
           /\ \A k \in 1 .. Len(q) - 1 : Without(q, n)[k] = IF k < n THEN q[k] ELSE q[k + 1]
<1>1. /\ SubSeq(q, 1, n - 1) \in Seq(S) /\ Len(SubSeq(q, 1, n - 1)) = n - 1
      /\ \A k \in 1 .. n - 1 : SubSeq(q, 1, n - 1)[k] = q[k]
  BY SMTT(30)
<1>2. /\ SubSeq(q, n + 1, Len(q)) \in Seq(S) /\ Len(SubSeq(q, n + 1, Len(q))) = Len(q) - n
      /\ \A k \in 1 .. Len(q) - n : SubSeq(q, n + 1, Len(q))[k] = q[k + n]
  BY SMTT(30)
<1> DEFINE a == SubSeq(q, 1, n - 1)
           b == SubSeq(q, n + 1, Len(q))
<1>3. Without(q, n) = a \o b
  BY DEF Without
<1> HIDE DEF a, b
<1>4. /\ a \o b \in Seq(S) /\ Len(a \o b) = Len(a) + Len(b)
      /\ \A k \in 1 .. Len(a) + Len(b) : (a \o b)[k] = IF k <= Len(a) THEN a[k] ELSE b[k - Len(a)]
  BY <1>1, <1>2, SeqConcat DEF a, b
<1>5. Len(a) = n - 1 /\ Len(b) = Len(q) - n /\ Len(q) \in Nat /\ Len(a) + Len(b) = Len(q) - 1
  <2>1. Len(a) = n - 1 /\ Len(b) = Len(q) - n
    BY <1>1, <1>2 DEF a, b
  <2>2. Len(q) \in Nat
    BY SeqLength
  <2> QED BY <2>1, <2>2, SMTT(30)
<1>6. ASSUME NEW k \in 1 .. Len(q) - 1
      PROVE  (a \o b)[k] = IF k < n THEN q[k] ELSE q[k + 1]
  <2>1. CASE k < n
    <3>1. k \in 1 .. Len(a) + Len(b) /\ k <= Len(a) /\ k \in 1 .. n - 1
      BY <1>5, <2>1, SMTT(30)
    <3>2. (a \o b)[k] = a[k]
      BY <1>4, <3>1
    <3> QED BY <1>1, <2>1, <3>1, <3>2 DEF a
  <2>2. CASE ~(k < n)
    <3>1. k \in 1 .. Len(a) + Len(b) /\ ~(k <= Len(a)) /\ k - Len(a) \in 1 .. Len(q) - n /\ k - Len(a) + n = k + 1
      BY <1>5, <2>2, SMTT(30)
    <3>2. (a \o b)[k] = b[k - Len(a)]
      BY <1>4, <3>1
    <3>3. b[k - Len(a)] = q[k - Len(a) + n]
      BY <1>2, <3>1 DEF b
    <3> QED BY <2>2, <3>1, <3>2, <3>3
  <2> QED BY <2>1, <2>2
<1> QED BY <1>3, <1>4, <1>5, <1>6

-----------------------------------------------------------------------------
(* The last word on an entity.                                               *)

\* The positions of the marks for entity i.
MarksFor(q, i) == {n \in DOMAIN q : q[n].id = i}
\* The positions of the batches that name entity i.
BatchesFor(q, i) == {n \in DOMAIN q : q[n][i] # Absent}

\* The last mark for entity i.
MarkOf(q, i) == LastOf(q, LAMBDA d : d.id = i, Absent)
\* The last record for entity i in the batches.
BatchOf(q, i) == LastOf(q, LAMBDA batch : batch[i] # Absent, Drained)[i]

\* What the last mark is.
LEMMA MarkOfIs ==
    ASSUME NEW q \in Seq(Dirty), NEW i
    PROVE  /\ MarksFor(q, i) = {} => MarkOf(q, i) = Absent
           /\ \A n : LastHit(MarksFor(q, i), n) => MarkOf(q, i) = q[n]
<1>1. MarkOf(q, i) = IF MarksFor(q, i) = {} THEN Absent ELSE q[CHOOSE n \in MarksFor(q, i) : \A k \in MarksFor(q, i) : k <= n]
  BY DEF MarkOf, LastOf, MarksFor
<1>2. MarksFor(q, i) \in SUBSET Int
  BY SMTT(30) DEF MarksFor
<1>3. ASSUME NEW n, LastHit(MarksFor(q, i), n)
      PROVE  n = CHOOSE m \in MarksFor(q, i) : \A k \in MarksFor(q, i) : k <= m
  <2> DEFINE c == CHOOSE m \in MarksFor(q, i) : \A k \in MarksFor(q, i) : k <= m
  <2>1. LastHit(MarksFor(q, i), c)
    BY <1>3 DEF LastHit
  <2> QED BY <1>2, <1>3, <2>1, LastHitUnique
<1>4. \A n : LastHit(MarksFor(q, i), n) => MarksFor(q, i) # {}
  BY DEF LastHit
<1> QED BY <1>1, <1>3, <1>4

\* What the last record is.
LEMMA BatchOfIs ==
    ASSUME NEW q \in Seq(Table(Dirty)), NEW i \in Ids
    PROVE  /\ BatchesFor(q, i) = {} => BatchOf(q, i) = Absent
           /\ \A n : LastHit(BatchesFor(q, i), n) => BatchOf(q, i) = q[n][i]
<1>1. BatchOf(q, i) = (IF BatchesFor(q, i) = {} THEN Drained ELSE q[CHOOSE n \in BatchesFor(q, i) : \A k \in BatchesFor(q, i) : k <= n])[i]
  BY DEF BatchOf, LastOf, BatchesFor
<1>2. BatchesFor(q, i) \in SUBSET Int
  BY SMTT(30) DEF BatchesFor
<1>3. ASSUME NEW n, LastHit(BatchesFor(q, i), n)
      PROVE  n = CHOOSE m \in BatchesFor(q, i) : \A k \in BatchesFor(q, i) : k <= m
  <2> DEFINE c == CHOOSE m \in BatchesFor(q, i) : \A k \in BatchesFor(q, i) : k <= m
  <2>1. LastHit(BatchesFor(q, i), c)
    BY <1>3 DEF LastHit
  <2> QED BY <1>2, <1>3, <2>1, LastHitUnique
<1>4. \A n : LastHit(BatchesFor(q, i), n) => BatchesFor(q, i) # {}
  BY DEF LastHit
<1>5. Drained[i] = Absent
  BY DEF Drained
<1> QED BY <1>1, <1>3, <1>4, <1>5

\* A write leaves its mark behind the others.
LEMMA MarkAppended ==
    ASSUME NEW q \in Seq(Dirty), NEW m \in Dirty, NEW i
    PROVE  MarkOf(Append(q, m), i) = IF m.id = i THEN m ELSE MarkOf(q, i)
<1> DEFINE r == Append(q, m)
<1>1. /\ r \in Seq(Dirty) /\ Len(r) = Len(q) + 1 /\ Len(q) \in Nat /\ r[Len(q) + 1] = m
      /\ \A k \in 1 .. Len(q) : r[k] = q[k]
  BY SMTT(30)
<1>2. DOMAIN r = 1 .. Len(q) + 1 /\ DOMAIN q = 1 .. Len(q)
  BY <1>1, SeqLength
<1> HIDE DEF r
<1>3. CASE m.id = i
  <2>1. LastHit(MarksFor(r, i), Len(q) + 1)
    BY <1>1, <1>2, <1>3, SMTT(30) DEF LastHit, MarksFor
  <2> QED BY <1>1, <1>3, <2>1, MarkOfIs DEF r
<1>4. CASE m.id # i
  <2>1. MarksFor(r, i) = MarksFor(q, i)
    BY <1>1, <1>2, <1>4, SMTT(30) DEF MarksFor
  <2>2. CASE MarksFor(q, i) = {}
    BY <1>1, <1>4, <2>1, <2>2, MarkOfIs DEF r
  <2>3. CASE MarksFor(q, i) # {}
    <3>1. MarksFor(q, i) \in SUBSET (1 .. Len(q))
      BY <1>2 DEF MarksFor
    <3>2. PICK n : LastHit(MarksFor(q, i), n)
      BY <1>1, <2>3, <3>1, LastHitExists
    <3>3. n \in 1 .. Len(q)
      BY <3>1, <3>2 DEF LastHit
    <3>4. MarkOf(r, i) = r[n] /\ MarkOf(q, i) = q[n]
      BY <1>1, <2>1, <3>2, MarkOfIs
    <3> QED BY <1>1, <1>4, <3>3, <3>4 DEF r
  <2> QED BY <2>2, <2>3
<1> QED BY <1>3, <1>4

\* The emitter publishes behind the other batches.
LEMMA BatchAppended ==
    ASSUME NEW q \in Seq(Table(Dirty)), NEW b \in Table(Dirty), NEW i \in Ids
    PROVE  BatchOf(Append(q, b), i) = IF b[i] # Absent THEN b[i] ELSE BatchOf(q, i)
<1> DEFINE r == Append(q, b)
<1>1. /\ r \in Seq(Table(Dirty)) /\ Len(r) = Len(q) + 1 /\ Len(q) \in Nat /\ r[Len(q) + 1] = b
      /\ \A k \in 1 .. Len(q) : r[k] = q[k]
  BY SMTT(30)
<1>2. DOMAIN r = 1 .. Len(q) + 1 /\ DOMAIN q = 1 .. Len(q)
  BY <1>1, SeqLength
<1> HIDE DEF r
<1>3. CASE b[i] # Absent
  <2>1. LastHit(BatchesFor(r, i), Len(q) + 1)
    BY <1>1, <1>2, <1>3, SMTT(30) DEF LastHit, BatchesFor
  <2>2. BatchOf(r, i) = r[Len(q) + 1][i]
    BY <1>1, <2>1, BatchOfIs
  <2> QED BY <1>1, <1>3, <2>2 DEF r
<1>4. CASE b[i] = Absent
  <2>1. BatchesFor(r, i) = BatchesFor(q, i)
    BY <1>1, <1>2, <1>4, SMTT(30) DEF BatchesFor
  <2>2. CASE BatchesFor(q, i) = {}
    BY <1>1, <1>4, <2>1, <2>2, BatchOfIs DEF r
  <2>3. CASE BatchesFor(q, i) # {}
    <3>1. BatchesFor(q, i) \in SUBSET (1 .. Len(q))
      BY <1>2 DEF BatchesFor
    <3>2. PICK n : LastHit(BatchesFor(q, i), n)
      BY <1>1, <2>3, <3>1, LastHitExists
    <3>3. n \in 1 .. Len(q)
      BY <3>1, <3>2 DEF LastHit
    <3>4. BatchOf(r, i) = r[n][i] /\ BatchOf(q, i) = q[n][i]
      BY <1>1, <2>1, <3>2, BatchOfIs
    <3> QED BY <1>1, <1>4, <3>3, <3>4 DEF r
  <2> QED BY <2>2, <2>3
<1> QED BY <1>3, <1>4

\* The subscriber takes the oldest batch.
LEMMA BatchTaken ==
    ASSUME NEW q \in Seq(Table(Dirty)), q # <<>>, NEW i \in Ids
    PROVE  \/ BatchOf(Tail(q), i) # Absent /\ BatchOf(q, i) = BatchOf(Tail(q), i)
           \/ BatchOf(Tail(q), i) = Absent /\ BatchOf(q, i) = Head(q)[i]
<1> DEFINE r == Tail(q)
<1>1. /\ r \in Seq(Table(Dirty)) /\ Len(r) = Len(q) - 1 /\ Len(q) \in Nat \ {0} /\ Head(q) = q[1]
      /\ \A k \in 1 .. Len(q) - 1 : r[k] = q[k + 1]
  BY SMTT(30)
<1>2. DOMAIN r = 1 .. Len(q) - 1 /\ DOMAIN q = 1 .. Len(q)
  BY <1>1, SeqLength
<1> HIDE DEF r
<1>3. CASE BatchesFor(r, i) # {}
  <2>1. BatchesFor(r, i) \in SUBSET (1 .. Len(r)) /\ Len(r) \in Nat
    BY <1>1, <1>2, SMTT(30) DEF BatchesFor
  <2>2. PICK n : LastHit(BatchesFor(r, i), n)
    BY <1>3, <2>1, LastHitExists
  <2>3. n \in 1 .. Len(q) - 1 /\ r[n][i] # Absent /\ n + 1 \in 1 .. Len(q) /\ q[n + 1] = r[n]
    BY <1>1, <1>2, <2>2, SMTT(30) DEF LastHit, BatchesFor
  <2>4. LastHit(BatchesFor(q, i), n + 1)
    <3>1. n + 1 \in BatchesFor(q, i)
      BY <1>2, <2>3 DEF BatchesFor
    <3>2. ASSUME NEW k \in BatchesFor(q, i) PROVE k <= n + 1
      <4>1. CASE k = 1
        BY <2>3, <4>1, SMTT(30)
      <4>2. CASE k # 1
        <5>1. k \in 1 .. Len(q) /\ k - 1 \in 1 .. Len(q) - 1 /\ q[k] = q[(k - 1) + 1] /\ q[k][i] # Absent
          BY <1>1, <1>2, <4>2, SMTT(30) DEF BatchesFor
        <5>2. k - 1 \in BatchesFor(r, i)
          BY <1>1, <1>2, <5>1 DEF BatchesFor
        <5>3. k - 1 <= n
          BY <2>2, <5>2 DEF LastHit
        <5> QED BY <2>3, <5>1, <5>3, SMTT(30)
      <4> QED BY <4>1, <4>2
    <3> QED BY <3>1, <3>2 DEF LastHit
  <2>5. BatchOf(r, i) = r[n][i] /\ BatchOf(q, i) = q[n + 1][i]
    BY <1>1, <2>2, <2>4, BatchOfIs
  <2> QED BY <2>3, <2>5 DEF r
<1>4. CASE BatchesFor(r, i) = {}
  <2>1. BatchOf(r, i) = Absent
    BY <1>1, <1>4, BatchOfIs
  <2>2. ASSUME NEW k \in BatchesFor(q, i) PROVE k = 1
    <3> SUFFICES ASSUME k # 1 PROVE FALSE
      OBVIOUS
    <3>1. k \in 1 .. Len(q) /\ k - 1 \in 1 .. Len(q) - 1 /\ q[k] = q[(k - 1) + 1] /\ q[k][i] # Absent
      BY <1>1, <1>2, SMTT(30) DEF BatchesFor
    <3>2. k - 1 \in BatchesFor(r, i)
      BY <1>1, <1>2, <3>1 DEF BatchesFor
    <3> QED BY <1>4, <3>2
  <2>3. CASE q[1][i] # Absent
    <3>1. LastHit(BatchesFor(q, i), 1)
      BY <1>1, <1>2, <2>2, <2>3, SMTT(30) DEF LastHit, BatchesFor
    <3>2. BatchOf(q, i) = q[1][i]
      BY <3>1, BatchOfIs
    <3> QED BY <1>1, <2>1, <3>2 DEF r
  <2>4. CASE q[1][i] = Absent
    <3>1. BatchesFor(q, i) = {}
      BY <2>2, <2>4 DEF BatchesFor
    <3> QED BY <1>1, <2>1, <2>4, <3>1, BatchOfIs DEF r
  <2> QED BY <2>3, <2>4
<1> QED BY <1>3, <1>4

\* A writer marks: its own mark goes, and it was the oldest of its entity.
LEMMA MarkTaken ==
    ASSUME NEW q \in Seq(Dirty), NEW n \in 1 .. Len(q), NEW i,
           \A k \in 1 .. n - 1 : q[k].id # q[n].id
    PROVE  \/ MarkOf(Without(q, n), i) = MarkOf(q, i) /\ (q[n].id = i => MarkOf(q, i) # Absent)
           \/ q[n].id = i /\ MarkOf(Without(q, n), i) = Absent /\ MarkOf(q, i) = q[n]
<1> DEFINE r == Without(q, n)
<1>1. /\ r \in Seq(Dirty) /\ Len(r) = Len(q) - 1 /\ Len(q) \in Nat
      /\ \A k \in 1 .. Len(q) - 1 : r[k] = IF k < n THEN q[k] ELSE q[k + 1]
  BY Removed, SeqLength
<1>2. DOMAIN r = 1 .. Len(q) - 1 /\ DOMAIN q = 1 .. Len(q)
  BY <1>1, SeqLength
<1> HIDE DEF r
<1>3. \A k \in MarksFor(q, i) : k \in 1 .. Len(q) /\ q[k].id = i
  BY <1>2 DEF MarksFor
<1>4. ASSUME NEW k \in 1 .. Len(q), q[k].id = i, k < n PROVE k \in MarksFor(r, i)
  <2>1. k \in 1 .. Len(q) - 1
    BY <1>1, <1>4, SMTT(30)
  <2> QED BY <1>1, <1>2, <1>4, <2>1 DEF MarksFor
<1>5. ASSUME NEW k \in 1 .. Len(q), q[k].id = i, k > n PROVE k - 1 \in MarksFor(r, i)
  <2>1. k - 1 \in 1 .. Len(q) - 1 /\ ~(k - 1 < n) /\ (k - 1) + 1 = k
    BY <1>1, <1>5, SMTT(30)
  <2> QED BY <1>1, <1>2, <1>5, <2>1 DEF MarksFor
<1>6. ASSUME NEW k \in MarksFor(r, i)
      PROVE  /\ k \in 1 .. Len(q) - 1
             /\ k < n => k \in MarksFor(q, i)
             /\ ~(k < n) => k + 1 \in MarksFor(q, i)
  <2>1. k \in 1 .. Len(q) - 1 /\ r[k].id = i
    BY <1>2 DEF MarksFor
  <2>2. k \in 1 .. Len(q) /\ k + 1 \in 1 .. Len(q)
    BY <1>1, <2>1, SMTT(30)
  <2> QED BY <1>1, <1>2, <2>1, <2>2 DEF MarksFor
<1>7. CASE MarksFor(r, i) = {}
  <2>1. MarkOf(r, i) = Absent
    BY <1>1, <1>7, MarkOfIs
  <2>2. \A k \in MarksFor(q, i) : k = n
    <3> TAKE k \in MarksFor(q, i)
    <3>1. k \in 1 .. Len(q) /\ ~(k < n) /\ ~(k > n)
      BY <1>3, <1>4, <1>5, <1>7
    <3> QED BY <3>1, SMTT(30)
  <2>3. CASE n \in MarksFor(q, i)
    <3>1. LastHit(MarksFor(q, i), n)
      BY <2>2, <2>3, SMTT(30) DEF LastHit
    <3>2. MarkOf(q, i) = q[n]
      BY <3>1, MarkOfIs
    <3> QED BY <1>3, <2>1, <2>3, <3>2 DEF r
  <2>4. CASE n \notin MarksFor(q, i)
    <3>1. MarksFor(q, i) = {} /\ q[n].id # i
      BY <1>2, <2>2, <2>4 DEF MarksFor
    <3> QED BY <2>1, <3>1, MarkOfIs DEF r
  <2> QED BY <2>3, <2>4
<1>8. CASE MarksFor(r, i) # {}
  <2>1. MarksFor(r, i) \in SUBSET (1 .. Len(r)) /\ Len(r) \in Nat
    BY <1>1, <1>2, SMTT(30) DEF MarksFor
  <2>2. PICK m : LastHit(MarksFor(r, i), m)
    BY <1>8, <2>1, LastHitExists
  <2>3. m \in MarksFor(r, i) /\ m \in 1 .. Len(q) - 1
    BY <1>6, <2>2 DEF LastHit
  <2>4. MarkOf(r, i) = r[m]
    BY <1>1, <2>2, MarkOfIs
  <2>5. ASSUME NEW k \in MarksFor(q, i), k # n PROVE IF k < n THEN k <= m ELSE k - 1 <= m
    <3>1. k \in 1 .. Len(q) /\ (k < n \/ k > n)
      BY <1>3, <2>5, SMTT(30)
    <3>2. CASE k < n
      BY <1>3, <1>4, <2>2, <3>1, <3>2 DEF LastHit
    <3>3. CASE k > n
      <4>1. k - 1 <= m
        BY <1>3, <1>5, <2>2, <3>1, <3>3 DEF LastHit
      <4>2. ~(k < n)
        BY <3>1, <3>3, SMTT(30)
      <4> QED BY <4>1, <4>2
    <3> QED BY <3>1, <3>2, <3>3
  <2>6. n \in MarksFor(q, i) => ~(m < n)
    <3> SUFFICES ASSUME n \in MarksFor(q, i), m < n PROVE FALSE
      OBVIOUS
    <3>1. m \in 1 .. n - 1 /\ q[m].id = i /\ q[n].id = i
      BY <1>3, <1>6, <2>3, SMTT(30)
    <3> QED BY <3>1
  <2>7. CASE m < n
    <3>1. m \in MarksFor(q, i) /\ n \notin MarksFor(q, i)
      BY <1>6, <2>3, <2>6, <2>7
    <3>2. \A k \in MarksFor(q, i) : k <= m
      <4> TAKE k \in MarksFor(q, i)
      <4>1. k # n /\ k \in 1 .. Len(q)
        BY <1>3, <3>1
      <4>2. CASE k < n
        BY <2>5, <4>1, <4>2
      <4>3. CASE ~(k < n)
        <5>1. k - 1 <= m
          BY <2>5, <4>1, <4>3
        <5> QED BY <2>3, <2>7, <4>1, <4>3, <5>1, SMTT(30)
      <4> QED BY <4>2, <4>3
    <3>3. LastHit(MarksFor(q, i), m)
      BY <3>1, <3>2 DEF LastHit
    <3>4. MarkOf(q, i) = q[m] /\ r[m] = q[m] /\ q[n].id # i
      <4>1. MarkOf(q, i) = q[m]
        BY <3>3, MarkOfIs
      <4>2. r[m] = q[m]
        BY <1>1, <2>3, <2>7
      <4>3. q[n].id # i
        BY <1>2, <3>1 DEF MarksFor
      <4> QED BY <4>1, <4>2, <4>3
    <3> QED BY <2>4, <3>4 DEF r
  <2>8. CASE ~(m < n)
    <3>1. m + 1 \in MarksFor(q, i)
      BY <1>6, <2>3, <2>8
    <3>2. \A k \in MarksFor(q, i) : k <= m + 1
      <4> TAKE k \in MarksFor(q, i)
      <4>1. k \in 1 .. Len(q)
        BY <1>3
      <4>2. CASE k = n
        BY <2>3, <2>8, <4>1, <4>2, SMTT(30)
      <4>3. CASE k # n
        <5>1. IF k < n THEN k <= m ELSE k - 1 <= m
          BY <2>5, <4>3
        <5> QED BY <2>3, <4>1, <5>1, SMTT(30)
      <4> QED BY <4>2, <4>3
    <3>3. LastHit(MarksFor(q, i), m + 1)
      BY <3>1, <3>2 DEF LastHit
    <3>4. MarkOf(q, i) = q[m + 1] /\ r[m] = q[m + 1]
      BY <1>1, <2>3, <2>8, <3>3, MarkOfIs
    <3>5. q[m + 1] \in Dirty
      BY <1>3, <3>1, SeqElement
    <3> QED BY <2>4, <3>4, <3>5, SyncAssumption DEF r
  <2> QED BY <2>7, <2>8
<1> QED BY <1>7, <1>8

-----------------------------------------------------------------------------
(* From the store to the world: the last word under way.                     *)

\* The last word, given the last mark, the dirty record, the last batch and the
\* aggregated world of an entity.
Word(m, d, b, w) ==
    IF m # Absent THEN After(m) ELSE IF d # Absent THEN After(d)
    ELSE IF b # Absent THEN After(b) ELSE w

\* The types of the pipeline, the snapshots in the queues included.
PipeTypeOK ==
    /\ entities \in Table(EntityState)
    /\ marks \in Seq(Dirty) /\ Len(marks) <= MaxWriters
    /\ dirty \in Table(Dirty)
    /\ stream \in Seq(Table(Dirty)) /\ Len(stream) <= MaxBacklog
    /\ world \in Table(EntityState)
    /\ tracker \in [Peds -> Table(EntityState)]
    /\ known \in [Peds -> Table(EntityState)]
    /\ control \in [Peds -> Seq(SUBSET EntityOp)]
    /\ sync \in [Peds -> Seq(SUBSET EntityOp)]
    /\ joined \subseteq Peds /\ writes \in 0 .. MaxWrites /\ faults \subseteq Faults

\* A table with one entry replaced.
Put(t, i, v) == [t EXCEPT ![i] = v]

\* A table with one entry replaced is a table.
LEMMA TableUpdated ==
    ASSUME NEW S, NEW t \in Table(S), NEW i \in Ids, NEW v \in S \cup {Absent}
    PROVE  Put(t, i, v) \in Table(S)
BY DEF Table, Put

\* The entries of a table.
LEMMA TableDomain ==
    ASSUME NEW S, NEW t \in Table(S)
    PROVE  DOMAIN t = Ids
BY DEF Table

\* An entry of a table is there or absent.
LEMMA TableEntry ==
    ASSUME NEW S, NEW t \in Table(S), NEW i \in Ids
    PROVE  t[i] \in S \cup {Absent}
BY DEF Table

\* The empty table.
LEMMA DrainedTable ==
    ASSUME NEW S
    PROVE  Drained \in Table(S) /\ \A i \in Ids : Drained[i] = Absent
BY DEF Drained, Table

\* What a record makes of its entity.
LEMMA AfterTyped ==
    ASSUME NEW d \in Dirty
    PROVE  After(d) \in EntityState \cup {Absent} /\ d.id \in Ids
BY DEF After, Dirty

\* A dirty record from its parts.
LEMMA MarkIs ==
    ASSUME NEW i \in Ids, NEW del \in BOOLEAN, NEW st \in EntityState
    PROVE  LET m == [id |-> i, del |-> del, st |-> st]
           IN  m \in Dirty /\ m.id = i /\ After(m) = (IF del THEN Absent ELSE st)
BY DEF After, Dirty

\* The last word about an entity is the store's.
WordKept(q, d, s, w, e) == \A i \in Ids : Word(MarkOf(q, i), d[i], BatchOf(s, i), w[i]) = e[i]

\* A write has the last word.
LEMMA WordWritten ==
    ASSUME NEW q \in Seq(Dirty), NEW d, NEW s, NEW w, NEW e \in Table(EntityState),
           NEW m \in Dirty, WordKept(q, d, s, w, e)
    PROVE  WordKept(Append(q, m), d, s, w, Put(e, m.id, After(m)))
<1>1. m \in Dirty /\ m # Absent /\ m.id \in Ids /\ After(m) \in EntityState \cup {Absent}
  BY SyncAssumption, AfterTyped
<1>2. SUFFICES ASSUME NEW i \in Ids
               PROVE  Word(MarkOf(Append(q, m), i), d[i], BatchOf(s, i), w[i])
                          = Put(e, m.id, After(m))[i]
  BY DEF WordKept
<1>3. MarkOf(Append(q, m), i) = IF m.id = i THEN m ELSE MarkOf(q, i)
  BY MarkAppended
<1>4. i \in DOMAIN e
  BY TableDomain
<1>5. Word(MarkOf(q, i), d[i], BatchOf(s, i), w[i]) = e[i]
  BY DEF WordKept
<1>6. CASE m.id = i
  <2>1. MarkOf(Append(q, m), i) = m
    BY <1>3, <1>6
  <2>2. Put(e, m.id, After(m))[i] = After(m)
    BY <1>4, <1>6, SMTT(30) DEF Put
  <2> QED BY <1>1, <2>1, <2>2 DEF Word
<1>7. CASE m.id # i
  <2>1. MarkOf(Append(q, m), i) = MarkOf(q, i)
    BY <1>3, <1>7
  <2>2. Put(e, m.id, After(m))[i] = e[i]
    BY <1>4, <1>7, SMTT(30) DEF Put
  <2> QED BY <1>5, <2>1, <2>2
<1> QED BY <1>6, <1>7

\* A mark that reaches the dirty queue in order keeps its word.
LEMMA WordMarked ==
    ASSUME NEW q \in Seq(Dirty), NEW n \in 1 .. Len(q), NEW d \in Table(Dirty), NEW s, NEW w, NEW e,
           \A k \in 1 .. n - 1 : q[k].id # q[n].id,
           WordKept(q, d, s, w, e)
    PROVE  WordKept(Without(q, n), Put(d, q[n].id, q[n]), s, w, e)
<1>0. PICK m : m = q[n]
  OBVIOUS
<1>1. m \in Dirty /\ m # Absent /\ m.id \in Ids
  <2>1. m \in Dirty
    BY <1>0, SeqElement
  <2> QED BY <2>1, SyncAssumption, AfterTyped
<1>2. SUFFICES ASSUME NEW i \in Ids
               PROVE  Word(MarkOf(Without(q, n), i), Put(d, m.id, m)[i], BatchOf(s, i), w[i]) = e[i]
  BY <1>0 DEF WordKept
<1>3. i \in DOMAIN d
  BY TableDomain
<1>4. Word(MarkOf(q, i), d[i], BatchOf(s, i), w[i]) = e[i]
  BY DEF WordKept
<1>5. \/ MarkOf(Without(q, n), i) = MarkOf(q, i) /\ (m.id = i => MarkOf(q, i) # Absent)
      \/ m.id = i /\ MarkOf(Without(q, n), i) = Absent /\ MarkOf(q, i) = m
  <2>1. \/ MarkOf(Without(q, n), i) = MarkOf(q, i) /\ (q[n].id = i => MarkOf(q, i) # Absent)
        \/ q[n].id = i /\ MarkOf(Without(q, n), i) = Absent /\ MarkOf(q, i) = q[n]
    BY MarkTaken
  <2> QED BY <1>0, <2>1
<1>6. CASE m.id # i
  <2>1. MarkOf(Without(q, n), i) = MarkOf(q, i) /\ Put(d, m.id, m)[i] = d[i]
    <3>1. Put(d, m.id, m)[i] = d[i]
      BY <1>3, <1>6, SMTT(30) DEF Put
    <3> QED BY <1>5, <1>6, <3>1
  <2> QED BY <1>4, <2>1
<1>7. CASE m.id = i /\ MarkOf(Without(q, n), i) = MarkOf(q, i) /\ MarkOf(q, i) # Absent
  BY <1>4, <1>7 DEF Word
<1>8. CASE m.id = i /\ MarkOf(Without(q, n), i) = Absent /\ MarkOf(q, i) = m
  <2>1. Put(d, m.id, m)[i] = m
    BY <1>3, <1>8, SMTT(30) DEF Put
  <2>2. e[i] = After(m)
    BY <1>1, <1>4, <1>8 DEF Word
  <2> QED BY <1>1, <1>8, <2>1, <2>2 DEF Word
<1> QED BY <1>5, <1>6, <1>7, <1>8

\* A batch on the stream keeps the words of the queue.
LEMMA WordEmitted ==
    ASSUME NEW q, NEW d \in Table(Dirty), NEW s \in Seq(Table(Dirty)), NEW w, NEW e,
           WordKept(q, d, s, w, e)
    PROVE  WordKept(q, Drained, Append(s, d), w, e)
<1> SUFFICES ASSUME NEW i \in Ids
             PROVE  Word(MarkOf(q, i), Drained[i], BatchOf(Append(s, d), i), w[i]) = e[i]
  BY DEF WordKept
<1>1. BatchOf(Append(s, d), i) = IF d[i] # Absent THEN d[i] ELSE BatchOf(s, i)
  BY BatchAppended
<1>2. Drained[i] = Absent
  BY DrainedTable
<1>3. Word(MarkOf(q, i), d[i], BatchOf(s, i), w[i]) = e[i]
  BY DEF WordKept
<1> QED BY <1>1, <1>2, <1>3 DEF Word

\* A merged batch keeps its words in the world.
LEMMA WordMerged ==
    ASSUME NEW q, NEW d, NEW s \in Seq(Table(Dirty)), s # <<>>, NEW w, NEW e,
           WordKept(q, d, s, w, e)
    PROVE  WordKept(q, d, Tail(s),
                    [i \in Ids |-> IF Head(s)[i] = Absent THEN w[i] ELSE After(Head(s)[i])], e)
<1> DEFINE v == [i \in Ids |-> IF Head(s)[i] = Absent THEN w[i] ELSE After(Head(s)[i])]
<1> SUFFICES ASSUME NEW i \in Ids
             PROVE  Word(MarkOf(q, i), d[i], BatchOf(Tail(s), i), v[i]) = e[i]
  BY DEF WordKept
<1>1. v[i] = IF Head(s)[i] = Absent THEN w[i] ELSE After(Head(s)[i])
  OBVIOUS
<1>2. \/ BatchOf(Tail(s), i) # Absent /\ BatchOf(s, i) = BatchOf(Tail(s), i)
      \/ BatchOf(Tail(s), i) = Absent /\ BatchOf(s, i) = Head(s)[i]
  BY BatchTaken
<1>3. Word(MarkOf(q, i), d[i], BatchOf(s, i), w[i]) = e[i]
  BY DEF WordKept
<1> HIDE DEF v
<1> QED BY <1>1, <1>2, <1>3 DEF Word

-----------------------------------------------------------------------------
(* From the aggregator to the client: what the queued snapshots lead to.     *)

\* tr[n] is the client's copy after n of the queued snapshots, none of which is
\* a desync when it arrives.
Trace(copy, q, tr) ==
    /\ tr[0] = copy
    /\ \A n \in 1 .. Len(q) : tr[n] = Apply(tr[n - 1], q[n]) /\ ~Desynced(tr[n - 1], q[n])

\* The queued snapshots turn the copy into the goal without a desync.
Leads(copy, q, goal) == \E tr : Trace(copy, q, tr) /\ tr[Len(q)] = goal

\* With nothing queued the client has what it is believed to have.
LEMMA LeadsNowhere ==
    ASSUME NEW copy
    PROVE  Leads(copy, <<>>, copy)
<1> DEFINE tr == [n \in {0} |-> copy]
<1>1. tr[0] = copy /\ Len(<<>>) = 0
  BY SMTT(30)
<1> HIDE DEF tr
<1>2. 1 .. 0 = {}
  BY SMTT(30)
<1>3. Trace(copy, <<>>, tr)
  BY <1>1, <1>2 DEF Trace
<1> QED BY <1>1, <1>3 DEF Leads

\* One more snapshot behind the others.
LEMMA LeadsFurther ==
    ASSUME NEW copy, NEW q \in Seq(SUBSET EntityOp), NEW goal, NEW ops \in SUBSET EntityOp,
           Leads(copy, q, goal), ~Desynced(goal, ops)
    PROVE  Leads(copy, Append(q, ops), Apply(goal, ops))
<1>1. PICK tr : Trace(copy, q, tr) /\ tr[Len(q)] = goal
  BY DEF Leads
<1> DEFINE r == Append(q, ops)
           more == [n \in 0 .. Len(q) + 1 |-> IF n <= Len(q) THEN tr[n] ELSE Apply(goal, ops)]
<1>2. /\ Len(q) \in Nat /\ Len(r) = Len(q) + 1 /\ r[Len(q) + 1] = ops
      /\ \A k \in 1 .. Len(q) : r[k] = q[k]
  BY SMTT(30)
<1>3. /\ 0 \in 0 .. Len(q) + 1 /\ 0 <= Len(q) /\ Len(q) + 1 \in 0 .. Len(q) + 1
      /\ ~(Len(q) + 1 <= Len(q)) /\ (Len(q) + 1) - 1 = Len(q) /\ Len(q) \in 0 .. Len(q) + 1 /\ Len(q) <= Len(q)
      /\ \A k \in 1 .. Len(q) : /\ k \in 0 .. Len(q) + 1 /\ k <= Len(q)
                                /\ k - 1 \in 0 .. Len(q) + 1 /\ k - 1 <= Len(q)
      /\ \A k \in 1 .. Len(q) + 1 : k \in 1 .. Len(q) \/ k = Len(q) + 1
  BY <1>2, SMTT(30)
<1>4. /\ more[0] = tr[0] /\ more[Len(q)] = tr[Len(q)] /\ more[Len(q) + 1] = Apply(goal, ops)
      /\ \A k \in 1 .. Len(q) : more[k] = tr[k] /\ more[k - 1] = tr[k - 1]
  BY <1>3
<1> HIDE DEF more, r
<1>5. ASSUME NEW n \in 1 .. Len(q) + 1
      PROVE  more[n] = Apply(more[n - 1], r[n]) /\ ~Desynced(more[n - 1], r[n])
  <2>1. CASE n \in 1 .. Len(q)
    BY <1>1, <1>2, <1>4, <2>1 DEF Trace
  <2>2. CASE n = Len(q) + 1
    <3>1. more[n - 1] = goal /\ r[n] = ops /\ more[n] = Apply(goal, ops)
      BY <1>1, <1>2, <1>3, <1>4, <2>2
    <3> QED BY <3>1
  <2> QED BY <1>3, <2>1, <2>2
<1>6. Trace(copy, r, more)
  BY <1>1, <1>2, <1>4, <1>5 DEF Trace
<1>7. Leads(copy, r, Apply(goal, ops))
  BY <1>2, <1>4, <1>6 DEF Leads
<1> QED BY <1>7 DEF r

\* The first queued snapshot arrives: no desync, and the others lead from there.
LEMMA LeadsOn ==
    ASSUME NEW copy, NEW q \in Seq(SUBSET EntityOp), q # <<>>, NEW goal, Leads(copy, q, goal)
    PROVE  ~Desynced(copy, Head(q)) /\ Leads(Apply(copy, Head(q)), Tail(q), goal)
<1>1. PICK tr : Trace(copy, q, tr) /\ tr[Len(q)] = goal
  BY DEF Leads
<1> DEFINE r == Tail(q)
           rest == [n \in 0 .. Len(q) - 1 |-> tr[n + 1]]
<1>2. /\ Len(q) \in Nat \ {0} /\ Len(r) = Len(q) - 1 /\ Head(q) = q[1]
      /\ \A k \in 1 .. Len(q) - 1 : r[k] = q[k + 1]
  BY SMTT(30)
<1>3. /\ 0 \in 0 .. Len(q) - 1 /\ 0 + 1 = 1 /\ 1 \in 1 .. Len(q) /\ 1 - 1 = 0
      /\ Len(q) - 1 \in 0 .. Len(q) - 1 /\ (Len(q) - 1) + 1 = Len(q)
      /\ \A k \in 1 .. Len(q) - 1 : /\ k \in 0 .. Len(q) - 1 /\ k - 1 \in 0 .. Len(q) - 1
                                    /\ (k - 1) + 1 = k /\ k + 1 \in 1 .. Len(q) /\ (k + 1) - 1 = k
  BY <1>2, SMTT(30)
<1>4. /\ rest[0] = tr[1] /\ rest[Len(q) - 1] = tr[Len(q)]
      /\ \A k \in 1 .. Len(q) - 1 : rest[k] = tr[k + 1] /\ rest[k - 1] = tr[k]
  <2>1. \A k \in 0 .. Len(q) - 1 : rest[k] = tr[k + 1]
    OBVIOUS
  <2> HIDE DEF rest
  <2>2. rest[0] = tr[1] /\ rest[Len(q) - 1] = tr[Len(q)]
    BY <1>3, <2>1
  <2>3. ASSUME NEW k \in 1 .. Len(q) - 1 PROVE rest[k] = tr[k + 1] /\ rest[k - 1] = tr[k]
    <3>1. k \in 0 .. Len(q) - 1 /\ k - 1 \in 0 .. Len(q) - 1 /\ (k - 1) + 1 = k
      BY <1>3
    <3>2. rest[k - 1] = tr[(k - 1) + 1]
      BY <2>1, <3>1
    <3> QED BY <2>1, <3>1, <3>2
  <2> QED BY <2>2, <2>3
<1> HIDE DEF rest, r
<1>5. tr[1] = Apply(copy, q[1]) /\ ~Desynced(copy, q[1])
  <2>1. tr[1] = Apply(tr[1 - 1], q[1]) /\ ~Desynced(tr[1 - 1], q[1])
    BY <1>1, <1>3 DEF Trace
  <2>2. tr[1 - 1] = copy
    BY <1>1, <1>3 DEF Trace
  <2> QED BY <2>1, <2>2
<1>6. ASSUME NEW n \in 1 .. Len(q) - 1
      PROVE  rest[n] = Apply(rest[n - 1], r[n]) /\ ~Desynced(rest[n - 1], r[n])
  <2>1. tr[n + 1] = Apply(tr[(n + 1) - 1], q[n + 1]) /\ ~Desynced(tr[(n + 1) - 1], q[n + 1])
    BY <1>1, <1>3 DEF Trace
  <2>2. tr[(n + 1) - 1] = tr[n]
    BY <1>3
  <2>3. rest[n] = tr[n + 1] /\ rest[n - 1] = tr[n] /\ r[n] = q[n + 1]
    BY <1>2, <1>4
  <2> QED BY <2>1, <2>2, <2>3
<1>7. Trace(Apply(copy, q[1]), r, rest)
  BY <1>2, <1>4, <1>5, <1>6 DEF Trace
<1>8. Leads(Apply(copy, q[1]), r, goal)
  BY <1>1, <1>2, <1>4, <1>7 DEF Leads
<1> QED BY <1>2, <1>5, <1>8 DEF r

\* The copies that Arrived computes are the only ones: no first difference.
LEMMA ArrivedIs ==
    ASSUME NEW copy, NEW q \in Seq(SUBSET EntityOp), NEW goal, Leads(copy, q, goal)
    PROVE  Arrived(copy, q) = goal
<1>1. PICK tr : Trace(copy, q, tr) /\ tr[Len(q)] = goal
  BY DEF Leads
<1> DEFINE N == 0 .. Len(q)
           Step(f) == [n \in N |-> IF n = 0 THEN copy ELSE Apply(f[n - 1], q[n])]
           cut == [n \in N |-> tr[n]]
           after == CHOOSE f : f = Step(f)
<1>2. Arrived(copy, q) = after[Len(q)]
  BY DEF Arrived
<1>3. Len(q) \in Nat
  BY SeqLength
<1>4. /\ 0 \in N /\ Len(q) \in N
      /\ \A n \in N : n # 0 => n \in 1 .. Len(q) /\ n - 1 \in N /\ n \in Nat /\ n - 1 \in Nat /\ n - 1 < n
      /\ N \subseteq Nat
  BY <1>3, SMTT(30)
<1>5. \A n \in N : cut[n] = tr[n]
  OBVIOUS
<1>6. cut = Step(cut)
  <2>1. ASSUME NEW n \in N PROVE cut[n] = IF n = 0 THEN copy ELSE Apply(cut[n - 1], q[n])
    <3> HIDE DEF cut, N
    <3>1. CASE n = 0
      BY <1>1, <1>5, <3>1 DEF Trace
    <3>2. CASE n # 0
      <4>1. tr[n] = Apply(tr[n - 1], q[n])
        BY <1>1, <1>4, <3>2 DEF Trace
      <4>2. cut[n] = tr[n] /\ cut[n - 1] = tr[n - 1]
        BY <1>4, <1>5, <3>2
      <4> QED BY <3>2, <4>1, <4>2
    <3> QED BY <3>1, <3>2
  <2>2. cut = [n \in N |-> cut[n]]
    OBVIOUS
  <2> HIDE DEF cut, N
  <2> QED BY <2>1, <2>2
<1>7. after = Step(after)
  <2> HIDE DEF Step
  <2> QED BY <1>6
<1> HIDE DEF after
<1>8. \A n \in N : after[n] = IF n = 0 THEN copy ELSE Apply(after[n - 1], q[n])
  <2> DEFINE g == Step(after)
  <2>1. \A n \in N : g[n] = IF n = 0 THEN copy ELSE Apply(after[n - 1], q[n])
    OBVIOUS
  <2> HIDE DEF g
  <2>2. after = g
    BY <1>7 DEF g
  <2> QED BY <2>1, <2>2
<1> DEFINE Off == {n \in N : after[n] # tr[n]}
<1>9. Off = {}
  <2> SUFFICES ASSUME Off # {} PROVE FALSE
    OBVIOUS
  <2>1. Off \subseteq Nat
    BY <1>4
  <2>2. PICK n \in Off : \A k \in Off : ~(<<k, n>> \in OpToRel(<, Nat))
    <3> HIDE DEF Off
    <3> QED BY <2>1, WFMin, NatLessThanWellFounded
  <2> HIDE DEF N
  <2>3. n \in N /\ after[n] # tr[n]
    OBVIOUS
  <2>4. n # 0
    BY <1>1, <1>4, <1>8, <2>3 DEF Trace
  <2>5. n - 1 \in N /\ n \in Nat /\ n - 1 \in Nat /\ n - 1 < n /\ n \in 1 .. Len(q)
    BY <1>4, <2>3, <2>4
  <2>6. after[n - 1] = tr[n - 1]
    <3>1. n - 1 \notin Off
      BY <2>2, <2>5 DEF OpToRel
    <3> QED BY <2>5, <3>1
  <2>7. after[n] = Apply(tr[n - 1], q[n])
    BY <1>8, <2>3, <2>4, <2>6
  <2>8. tr[n] = Apply(tr[n - 1], q[n])
    BY <1>1, <2>5 DEF Trace
  <2> QED BY <2>3, <2>7, <2>8
<1> QED BY <1>1, <1>2, <1>4, <1>9

-----------------------------------------------------------------------------
(* One snapshot.                                                             *)

\* An entity without an operation stays.
LEMMA ApplyNone ==
    ASSUME NEW copy, NEW ops, NEW i \in Ids, \A o \in ops : o.id # i
    PROVE  Apply(copy, ops)[i] = copy[i]
<1>1. {o \in ops : o.id = i} = {}
  OBVIOUS
<1> QED BY <1>1 DEF Apply, Turned

\* An entity with one operation.
OnlyOp(ops, i, o) == o \in ops /\ o.id = i /\ \A p \in ops : p.id = i => p = o

\* The snapshot does to the entity what that operation does.
LEMMA ApplyOne ==
    ASSUME NEW copy, NEW ops, NEW i \in Ids, NEW o, OnlyOp(ops, i, o)
    PROVE  Apply(copy, ops)[i] = Turned(copy[i], {o})
<1>1. {p \in ops : p.id = i} = {o}
  BY DEF OnlyOp
<1> QED BY <1>1 DEF Apply

\* It is what the operation says.
LEMMA TurnedOne ==
    ASSUME NEW old, NEW o
    PROVE  /\ o.op = "Upsert" => Turned(old, {o}) = o.st
           /\ o.op = "Delete" => Turned(old, {o}) = Absent
           /\ o.op = "Delta" => Turned(old, {o}) = Patched(old, o.st)
<1>1. {o} # {} /\ (CHOOSE p \in {o} : TRUE) = o
  OBVIOUS
<1>2. Turned(old, {o}) =
        CASE o.op = "Upsert" -> o.st
          [] o.op = "Delete" -> Absent
          [] o.op = "Delta" -> Patched(old, o.st)
  BY <1>1 DEF Turned
<1>3. "Upsert" # "Delete" /\ "Upsert" # "Delta" /\ "Delete" # "Delta"
  OBVIOUS
<1> QED BY <1>2, <1>3

\* Any operation on an entity gives it a state or takes it away.
LEMMA ApplySome ==
    ASSUME NEW copy, NEW ops \in SUBSET EntityOp, NEW i \in Ids, ~\A o \in ops : o.id # i
    PROVE  \E o \in ops : \/ o.op = "Upsert" /\ Apply(copy, ops)[i] = o.st
                          \/ o.op = "Delete" /\ Apply(copy, ops)[i] = Absent
                          \/ o.op = "Delta" /\ Apply(copy, ops)[i] = Patched(copy[i], o.st)
<1> DEFINE mine == {o \in ops : o.id = i}
           o == CHOOSE o \in mine : TRUE
<1>1. mine # {} /\ o \in ops
  OBVIOUS
<1>2. Apply(copy, ops)[i] =
        CASE o.op = "Upsert" -> o.st
          [] o.op = "Delete" -> Absent
          [] o.op = "Delta" -> Patched(copy[i], o.st)
  BY <1>1 DEF Apply, Turned
<1> HIDE DEF o
<1>3. o.op = "Upsert" \/ o.op = "Delete" \/ o.op = "Delta"
  BY <1>1 DEF EntityOp
<1>4. "Upsert" # "Delete" /\ "Upsert" # "Delta" /\ "Delete" # "Delta"
  OBVIOUS
<1> QED BY <1>1, <1>2, <1>3, <1>4

\* A state is its fields.
LEMMA StateIs ==
    ASSUME NEW f \in [Fields -> Places \cup Owners], f["at"] \in Places, f["owner"] \in Owners
    PROVE  f \in EntityState
BY SMTT(30) DEF Fields, EntityState

\* The fields of a state, and states with the same fields are the same.
LEMMA StateFields ==
    ASSUME NEW s \in EntityState, NEW t \in EntityState
    PROVE  /\ s["at"] \in Places /\ s["owner"] \in Owners /\ s = [f \in Fields |-> s[f]]
           /\ (\A f \in Fields : s[f] = t[f]) => s = t
BY SMTT(30) DEF Fields, EntityState

\* The patched copy of an entity is a state.
LEMMA PatchedTyped ==
    ASSUME NEW old \in EntityState \cup {Absent}, NEW delta \in Partial
    PROVE  Patched(old, delta) \in EntityState \cup {Absent}
<1>1. CASE old = Absent
  BY <1>1 DEF Patched
<1>2. CASE old # Absent
  <2>1. PICK F \in SUBSET Fields, st \in EntityState : delta = [f \in F |-> st[f]]
    BY SMTT(30) DEF Partial
  <2> DEFINE new == [f \in Fields |-> IF f \in DOMAIN delta THEN delta[f] ELSE old[f]]
  <2>2. Patched(old, delta) = new
    BY <1>2 DEF Patched
  <2>3. \A f \in Fields : new[f] = st[f] \/ new[f] = old[f]
    BY <2>1
  <2>4. new = [f \in Fields |-> new[f]]
    OBVIOUS
  <2> HIDE DEF new
  <2>5. old["at"] \in Places /\ old["owner"] \in Owners /\ st["at"] \in Places /\ st["owner"] \in Owners
    BY <1>2, StateFields
  <2>6. new["at"] \in Places /\ new["owner"] \in Owners
    BY <2>3, <2>5 DEF Fields
  <2>7. \A f \in Fields : new[f] \in Places \cup Owners
    BY <2>6 DEF Fields
  <2>8. new \in [Fields -> Places \cup Owners]
    BY <2>4, <2>7
  <2> QED BY <2>2, <2>6, <2>8, StateIs
<1> QED BY <1>1, <1>2

\* A client's copy stays a table of states.
LEMMA ApplyTyped ==
    ASSUME NEW copy \in Table(EntityState), NEW ops \in SUBSET EntityOp
    PROVE  Apply(copy, ops) \in Table(EntityState)
<1>1. ASSUME NEW i \in Ids PROVE Apply(copy, ops)[i] \in EntityState \cup {Absent}
  <2>1. copy[i] \in EntityState \cup {Absent}
    BY TableEntry
  <2>2. CASE \A o \in ops : o.id # i
    BY <2>1, <2>2, ApplyNone
  <2>3. CASE ~\A o \in ops : o.id # i
    <3>1. PICK o \in ops : \/ o.op = "Upsert" /\ Apply(copy, ops)[i] = o.st
                           \/ o.op = "Delete" /\ Apply(copy, ops)[i] = Absent
                           \/ o.op = "Delta" /\ Apply(copy, ops)[i] = Patched(copy[i], o.st)
      BY <2>3, ApplySome
    <3>2. /\ o.op = "Upsert" => o.st \in EntityState
          /\ o.op = "Delta" => o.st \in Partial
      BY SMTT(30) DEF EntityOp
    <3> QED BY <2>1, <3>1, <3>2, PatchedTyped
  <2> QED BY <2>2, <2>3
<1>2. Apply(copy, ops) = [i \in Ids |-> Apply(copy, ops)[i]]
  BY DEF Apply
<1> QED BY <1>1, <1>2 DEF Table

\* A delta turns the state it was computed from into the one it was computed for.
LEMMA DeltaPatches ==
    ASSUME NEW old \in EntityState, NEW new \in EntityState
    PROVE  Patched(old, [f \in Changed(old, new) |-> new[f]]) = new
<1> DEFINE delta == [f \in Changed(old, new) |-> new[f]]
           res == [f \in Fields |-> IF f \in DOMAIN delta THEN delta[f] ELSE old[f]]
<1>1. Patched(old, delta) = res
  BY SyncAssumption DEF Patched
<1>2. \A f \in Fields : res[f] = new[f]
  BY DEF Changed
<1>3. res = [f \in Fields |-> res[f]]
  OBVIOUS
<1> HIDE DEF res
<1>4. new = [f \in Fields |-> new[f]]
  BY StateFields
<1>5. res = new
  BY <1>2, <1>3, <1>4
<1> QED BY <1>1, <1>5

\* A delta that would say nothing is not needed.
LEMMA NothingChanged ==
    ASSUME NEW old \in EntityState, NEW new \in EntityState, Changed(old, new) = {}
    PROVE  old = new
BY StateFields DEF Changed

\* The fields a delta carries are fields of a state.
LEMMA DeltaTyped ==
    ASSUME NEW old, NEW new \in EntityState
    PROVE  [f \in Changed(old, new) |-> new[f]] \in Partial
<1>1. Changed(old, new) \in SUBSET Fields
  BY DEF Changed
<1> QED BY <1>1, SMTT(30) DEF Partial

\* The kinds of operation and what they carry.
LEMMA OpFields ==
    ASSUME NEW c, NEW i
    PROVE  /\ Upsert(i).op = "Upsert" /\ Upsert(i).id = i /\ Upsert(i).st = world[i]
           /\ Delete(i).op = "Delete" /\ Delete(i).id = i
           /\ Delta(c, i).op = "Delta" /\ Delta(c, i).id = i
           /\ Delta(c, i).st = [f \in Changed(tracker[c][i], world[i]) |-> world[i][f]]
BY DEF Upsert, Delete, Delta

\* Entity i is created at client c.
Creates(c, i) == i \in Visible(c) /\ tracker[c][i] = Absent
\* Entity i is patched at client c.
Patches(c, due, i) == i \in Visible(c) /\ i \in due /\ Changed(tracker[c][i], world[i]) # {}
\* Entity i is deleted at client c.
Deletes(c, i) == i \in Ids /\ i \notin Visible(c) /\ tracker[c][i] # Absent

\* The operations of a snapshot.
LEMMA OpThere ==
    ASSUME NEW c, NEW due, NEW i
    PROVE  /\ Creates(c, i) => Upsert(i) \in ClientOps(c, due)
           /\ Patches(c, due, i) => Delta(c, i) \in ClientOps(c, due)
           /\ Deletes(c, i) => Delete(i) \in ClientOps(c, due)
<1>1. \A j \in Visible(c) : j \in Ids
  BY DEF Visible
<1> QED BY <1>1 DEF ClientOps, Gone, Creates, Patches, Deletes

\* An operation of a snapshot has a reason.
LEMMA OpFor ==
    ASSUME NEW c, NEW due, NEW o \in ClientOps(c, due)
    PROVE  \/ Creates(c, o.id) /\ o = Upsert(o.id)
           \/ Patches(c, due, o.id) /\ o = Delta(c, o.id)
           \/ Deletes(c, o.id) /\ o = Delete(o.id)
<1>1. \/ \E i : Creates(c, i) /\ o = Upsert(i)
      \/ \E i : Patches(c, due, i) /\ o = Delta(c, i)
      \/ \E i : Deletes(c, i) /\ o = Delete(i)
  BY DEF ClientOps, Gone, Creates, Patches, Deletes, Visible
<1>2. ASSUME NEW i, Creates(c, i), o = Upsert(i)
      PROVE  Creates(c, o.id) /\ o = Upsert(o.id)
  <2>1. o.id = i
    BY <1>2, OpFields
  <2> QED BY <1>2, <2>1
<1>3. ASSUME NEW i, Patches(c, due, i), o = Delta(c, i)
      PROVE  Patches(c, due, o.id) /\ o = Delta(c, o.id)
  <2>1. o.id = i
    BY <1>3 DEF Delta
  <2> QED BY <1>3, <2>1
<1>4. ASSUME NEW i, Deletes(c, i), o = Delete(i)
      PROVE  Deletes(c, o.id) /\ o = Delete(o.id)
  <2>1. o.id = i
    BY <1>4, OpFields
  <2> QED BY <1>4, <2>1
<1> QED BY <1>1, <1>2, <1>3, <1>4

\* The baseline of an entity.
LEMMA BaselineAt ==
    ASSUME NEW c, NEW due, NEW i \in Ids
    PROVE  /\ i \notin Visible(c) => Baseline(c, due)[i] = Absent
           /\ i \in Visible(c) /\ (tracker[c][i] = Absent \/ i \in due) => Baseline(c, due)[i] = world[i]
           /\ i \in Visible(c) /\ tracker[c][i] # Absent /\ i \notin due => Baseline(c, due)[i] = tracker[c][i]
BY DEF Baseline

\* The clients' tables are tables.
LEMMA TrackerEntry ==
    ASSUME PipeTypeOK, NEW c \in Peds
    PROVE  /\ tracker[c] \in Table(EntityState) /\ known[c] \in Table(EntityState)
           /\ control[c] \in Seq(SUBSET EntityOp) /\ sync[c] \in Seq(SUBSET EntityOp)
           /\ \A i \in Ids : tracker[c][i] \in EntityState \cup {Absent}
           /\ \A i \in Visible(c) : i \in Ids /\ world[i] \in EntityState
<1>1. /\ tracker[c] \in Table(EntityState) /\ known[c] \in Table(EntityState)
      /\ control[c] \in Seq(SUBSET EntityOp) /\ sync[c] \in Seq(SUBSET EntityOp)
      /\ world \in Table(EntityState)
  BY DEF PipeTypeOK
<1>2. \A i \in Ids : tracker[c][i] \in EntityState \cup {Absent} /\ world[i] \in EntityState \cup {Absent}
  BY <1>1, TableEntry
<1>3. \A i \in Visible(c) : i \in Ids /\ world[i] # Absent
  BY DEF Visible
<1> QED BY <1>1, <1>2, <1>3

\* A snapshot is made of operations.
LEMMA OpsTyped ==
    ASSUME PipeTypeOK, NEW c \in Peds, NEW due
    PROVE  ClientOps(c, due) \in SUBSET EntityOp
<1> SUFFICES ASSUME NEW o \in ClientOps(c, due) PROVE o \in EntityOp
  OBVIOUS
<1>1. PICK i : i = o.id
  OBVIOUS
<1>2. \/ Creates(c, i) /\ o = Upsert(i)
      \/ Patches(c, due, i) /\ o = Delta(c, i)
      \/ Deletes(c, i) /\ o = Delete(i)
  BY <1>1, OpFor
<1>3. i \in Visible(c) => i \in Ids /\ world[i] \in EntityState
  BY TrackerEntry
<1>4. CASE Creates(c, i) /\ o = Upsert(i)
  <2>1. i \in Ids /\ world[i] \in EntityState
    BY <1>3, <1>4 DEF Creates
  <2> QED BY <1>4, <2>1, SMTT(30) DEF Upsert, EntityOp
<1>5. CASE Patches(c, due, i) /\ o = Delta(c, i)
  <2>1. i \in Ids /\ world[i] \in EntityState
    BY <1>3, <1>5 DEF Patches
  <2>2. PICK st : st = [f \in Changed(tracker[c][i], world[i]) |-> world[i][f]]
    OBVIOUS
  <2>3. st \in Partial
    BY <2>1, <2>2, DeltaTyped
  <2>4. o = [op |-> "Delta", id |-> i, st |-> st]
    BY <1>5, <2>2 DEF Delta
  <2> QED BY <2>1, <2>3, <2>4, SMTT(30) DEF EntityOp
<1>6. CASE Deletes(c, i) /\ o = Delete(i)
  BY <1>6, SMTT(30) DEF Deletes, Delete, EntityOp
<1> QED BY <1>2, <1>4, <1>5, <1>6

\* A client that has the baseline a snapshot was computed from is not desynced.
LEMMA OpsKnown ==
    ASSUME NEW c, NEW due \in SUBSET {i \in Ids : tracker[c][i] # Absent}
    PROVE  ~Desynced(tracker[c], ClientOps(c, due))
<1> SUFFICES ASSUME NEW o \in ClientOps(c, due), o.op # "Upsert", tracker[c][o.id] = Absent
             PROVE  FALSE
  BY DEF Desynced
<1>1. PICK i : i = o.id
  OBVIOUS
<1>2. \/ Creates(c, i) /\ o = Upsert(i)
      \/ Patches(c, due, i) /\ o = Delta(c, i)
      \/ Deletes(c, i) /\ o = Delete(i)
  BY <1>1, OpFor
<1>3. Upsert(i).op = "Upsert"
  BY OpFields
<1> QED BY <1>1, <1>2, <1>3 DEF Patches, Deletes

\* An entity after a snapshot that was computed from the client's own copy.
LEMMA OpsLeadAt ==
    ASSUME PipeTypeOK, NEW c \in Peds, NEW due \in SUBSET {i \in Ids : tracker[c][i] # Absent},
           NEW i \in Ids
    PROVE  /\ Apply(tracker[c], ClientOps(c, due))[i] = Baseline(c, due)[i]
           /\ Baseline(c, due)[i] \in EntityState \cup {Absent}
<1>1. PICK ops : ops = ClientOps(c, due)
  OBVIOUS
<1>2. PICK old : old = tracker[c]
  OBVIOUS
<1>3. /\ old[i] \in EntityState \cup {Absent} /\ Absent \notin EntityState
      /\ i \in Visible(c) => world[i] \in EntityState
      /\ i \in due => old[i] # Absent
  BY <1>2, TrackerEntry, SyncAssumption
<1>4. \A o \in ops : o.id = i => \/ Creates(c, i) /\ o = Upsert(i)
                                 \/ Patches(c, due, i) /\ o = Delta(c, i)
                                 \/ Deletes(c, i) /\ o = Delete(i)
  BY <1>1, OpFor
<1>5. /\ Creates(c, i) => Upsert(i) \in ops
      /\ Patches(c, due, i) => Delta(c, i) \in ops
      /\ Deletes(c, i) => Delete(i) \in ops
  BY <1>1, OpThere
<1>6. /\ Upsert(i).op = "Upsert" /\ Upsert(i).id = i /\ Upsert(i).st = world[i]
      /\ Delete(i).op = "Delete" /\ Delete(i).id = i
      /\ Delta(c, i).op = "Delta" /\ Delta(c, i).id = i
      /\ Delta(c, i).st = [f \in Changed(old[i], world[i]) |-> world[i][f]]
  BY <1>2 DEF Upsert, Delete, Delta
<1>7. /\ Creates(c, i) <=> i \in Visible(c) /\ old[i] = Absent
      /\ Patches(c, due, i) <=> i \in Visible(c) /\ i \in due /\ Changed(old[i], world[i]) # {}
      /\ Deletes(c, i) <=> i \notin Visible(c) /\ old[i] # Absent
  BY <1>2 DEF Creates, Patches, Deletes
<1>8. /\ i \notin Visible(c) => Baseline(c, due)[i] = Absent
      /\ i \in Visible(c) /\ (old[i] = Absent \/ i \in due) => Baseline(c, due)[i] = world[i]
      /\ i \in Visible(c) /\ old[i] # Absent /\ i \notin due => Baseline(c, due)[i] = old[i]
  BY <1>2, BaselineAt
<1>9. CASE ~Creates(c, i) /\ ~Patches(c, due, i) /\ ~Deletes(c, i)
  <2>1. \A o \in ops : o.id # i
    BY <1>4, <1>9
  <2>2. Apply(old, ops)[i] = old[i]
    BY <2>1, ApplyNone
  <2>3. i \in Visible(c) /\ i \in due => old[i] = world[i]
    BY <1>3, <1>7, <1>9, NothingChanged
  <2>4. Baseline(c, due)[i] = old[i]
    BY <1>7, <1>8, <1>9, <2>3
  <2> QED BY <1>1, <1>2, <1>3, <2>2, <2>4
<1>10. CASE Creates(c, i)
  <2>1. i \in Visible(c) /\ old[i] = Absent /\ ~Patches(c, due, i) /\ ~Deletes(c, i)
    BY <1>3, <1>7, <1>10
  <2>2. \A p \in ops : p.id = i => p = Upsert(i)
    BY <1>4, <2>1
  <2>3. PICK o \in ops : o = Upsert(i)
    BY <1>5, <1>10
  <2>4. Apply(old, ops)[i] = o.st
    <3>1. OnlyOp(ops, i, o) /\ o.op = "Upsert"
      BY <1>6, <2>2, <2>3 DEF OnlyOp
    <3>2. Apply(old, ops)[i] = Turned(old[i], {o})
      BY <3>1, ApplyOne, SMTT(30)
    <3> QED BY <3>1, <3>2, TurnedOne
  <2> QED BY <1>1, <1>2, <1>3, <1>6, <1>8, <2>1, <2>3, <2>4
<1>11. CASE Patches(c, due, i)
  <2>1. i \in Visible(c) /\ i \in due /\ ~Creates(c, i) /\ ~Deletes(c, i)
    BY <1>3, <1>7, <1>11
  <2>2. \A p \in ops : p.id = i => p = Delta(c, i)
    BY <1>4, <2>1
  <2>3. PICK o \in ops : o = Delta(c, i)
    BY <1>5, <1>11
  <2>4. Apply(old, ops)[i] = Patched(old[i], o.st)
    <3>1. OnlyOp(ops, i, o) /\ o.op = "Delta"
      BY <1>6, <2>2, <2>3 DEF OnlyOp
    <3>2. Apply(old, ops)[i] = Turned(old[i], {o})
      BY <3>1, ApplyOne, SMTT(30)
    <3> QED BY <3>1, <3>2, TurnedOne
  <2>5. old[i] \in EntityState /\ world[i] \in EntityState
    BY <1>3, <2>1
  <2>6. Patched(old[i], o.st) = world[i]
    BY <1>6, <2>3, <2>5, DeltaPatches
  <2> QED BY <1>1, <1>2, <1>8, <2>1, <2>4, <2>5, <2>6
<1>12. CASE Deletes(c, i)
  <2>1. i \notin Visible(c) /\ ~Creates(c, i) /\ ~Patches(c, due, i)
    BY <1>7, <1>12
  <2>2. \A p \in ops : p.id = i => p = Delete(i)
    BY <1>4, <2>1
  <2>3. PICK o \in ops : o = Delete(i)
    BY <1>5, <1>12
  <2>4. Apply(old, ops)[i] = Absent
    <3>1. OnlyOp(ops, i, o) /\ o.op = "Delete"
      BY <1>6, <2>2, <2>3 DEF OnlyOp
    <3>2. Apply(old, ops)[i] = Turned(old[i], {o})
      BY <3>1, ApplyOne, SMTT(30)
    <3> QED BY <3>1, <3>2, TurnedOne
  <2> QED BY <1>1, <1>2, <1>8, <2>1, <2>4
<1> QED BY <1>9, <1>10, <1>11, <1>12

\* A snapshot turns the baseline it was computed from into the one that is kept.
LEMMA OpsLead ==
    ASSUME PipeTypeOK, NEW c \in Peds, NEW due \in SUBSET {i \in Ids : tracker[c][i] # Absent}
    PROVE  /\ Apply(tracker[c], ClientOps(c, due)) = Baseline(c, due)
           /\ Baseline(c, due) \in Table(EntityState)
<1>1. PICK a : a = Apply(tracker[c], ClientOps(c, due))
  OBVIOUS
<1>2. PICK b : b = Baseline(c, due)
  OBVIOUS
<1>3. \A i \in Ids : a[i] = b[i] /\ b[i] \in EntityState \cup {Absent}
  BY <1>1, <1>2, OpsLeadAt
<1>4. a = [i \in Ids |-> a[i]]
  BY <1>1 DEF Apply
<1>5. b = [i \in Ids |-> b[i]]
  BY <1>2, SMTT(30) DEF Baseline
<1>6. a = b
  BY <1>3, <1>4, <1>5
<1>7. b \in Table(EntityState)
  BY <1>3, <1>5 DEF Table
<1> QED BY <1>1, <1>2, <1>6, <1>7

-----------------------------------------------------------------------------
(* The inductive invariant.                                                  *)

\* A client is in step: what is queued on one plane, the other being empty,
\* leads from its copy to the aggregator's baseline.
InStep(copy, ctl, syn, base) ==
    /\ syn = <<>> => Leads(copy, ctl, base)
    /\ ctl = <<>> => Leads(copy, syn, base)

\* Unless a batch was lost or a mark out of order, the store has the last word.
WordInv == faults \cap PipelineFaults = {} => WordKept(marks, dirty, stream, world, entities)

\* Unless a snapshot was dropped or overtaken, every client is in step.
ClientInv ==
    faults \cap {"dropped", "overtaken"} = {} =>
        /\ ~desyncs
        /\ \A c \in Peds : InStep(known[c], control[c], sync[c], tracker[c])

\* The inductive invariant of the pipeline.
PipeInv == PipeTypeOK /\ WordInv /\ ClientInv

\* The last word as the invariant states it.
LEMMA LastWordIs ==
    ASSUME NEW i
    PROVE  LastWord(i) = Word(MarkOf(marks, i), dirty[i], BatchOf(stream, i), world[i])
<1>1. PICK m : m = MarkOf(marks, i)
  OBVIOUS
<1>2. PICK b : b = BatchOf(stream, i)
  OBVIOUS
<1>3. LastWord(i) = CASE m # Absent -> After(m)
                      [] m = Absent /\ dirty[i] # Absent -> After(dirty[i])
                      [] m = Absent /\ dirty[i] = Absent /\ b # Absent -> After(b)
                      [] OTHER -> world[i]
  BY <1>1, <1>2 DEF LastWord, MarkOf, BatchOf
<1>4. Word(m, dirty[i], b, world[i]) = CASE m # Absent -> After(m)
                      [] m = Absent /\ dirty[i] # Absent -> After(dirty[i])
                      [] m = Absent /\ dirty[i] = Absent /\ b # Absent -> After(b)
                      [] OTHER -> world[i]
  BY DEF Word
<1> QED BY <1>1, <1>2, <1>3, <1>4

\* A queue with one more entry.
LEMMA QueueAppend ==
    ASSUME NEW S, NEW q \in Seq(S), NEW x \in S
    PROVE  Append(q, x) \in Seq(S) /\ Len(Append(q, x)) = Len(q) + 1 /\ Append(q, x) # <<>>
<1>1. Append(q, x) \in Seq(S) /\ Len(Append(q, x)) = Len(q) + 1 /\ Len(q) \in Nat
  BY SMTT(30)
<1>2. Len(q) + 1 # 0 /\ Len(<<>>) = 0
  BY <1>1, SMTT(30)
<1> QED BY <1>1, <1>2
\* A queue without its first entry.
LEMMA QueueTail ==
    ASSUME NEW S, NEW q \in Seq(S), q # <<>>
    PROVE  Tail(q) \in Seq(S) /\ Len(Tail(q)) = Len(q) - 1 /\ Head(q) \in S
BY SMTT(30)
\* The length of a queue.
LEMMA QueueLength ==
    ASSUME NEW S, NEW q \in Seq(S)
    PROVE  Len(q) \in Nat
BY SMTT(30)

\* The pipeline starts empty and in step.
LEMMA PipeStart == SyncInit => PipeInv
<1> SUFFICES ASSUME SyncInit PROVE PipeInv
  OBVIOUS
<1>1. Drained \in Table(EntityState) /\ Drained \in Table(Dirty) /\ \A i \in Ids : Drained[i] = Absent
  BY DrainedTable
<1>2. /\ entities = Drained /\ dirty = Drained /\ world = Drained
      /\ tracker = [c \in Peds |-> Drained] /\ known = [c \in Peds |-> Drained]
  BY DEF SyncInit, Drained
<1>3. /\ <<>> \in Seq(Dirty) /\ <<>> \in Seq(Table(Dirty)) /\ <<>> \in Seq(SUBSET EntityOp)
      /\ Len(<<>>) = 0 /\ 0 <= MaxWriters /\ 0 <= MaxBacklog /\ 0 \in 0 .. MaxWrites
  BY SyncAssumption, SMTT(30)
<1>4. PipeTypeOK
  BY <1>1, <1>2, <1>3 DEF SyncInit, PipeTypeOK
<1>5. \A i \in Ids : MarkOf(<<>>, i) = Absent /\ BatchOf(<<>>, i) = Absent
  <2> TAKE i \in Ids
  <2>1. MarksFor(<<>>, i) = {} /\ BatchesFor(<<>>, i) = {}
    BY SMTT(30) DEF MarksFor, BatchesFor
  <2> QED BY <1>3, <2>1, MarkOfIs, BatchOfIs
<1>6. WordKept(<<>>, Drained, <<>>, Drained, Drained)
  BY <1>1, <1>5 DEF WordKept, Word
<1>7. WordInv
  BY <1>2, <1>6 DEF SyncInit, WordInv
<1>8. ASSUME NEW c \in Peds PROVE InStep(known[c], control[c], sync[c], tracker[c])
  <2>1. known[c] = Drained /\ tracker[c] = Drained /\ control[c] = <<>> /\ sync[c] = <<>>
    BY <1>2 DEF SyncInit
  <2> QED BY <2>1, LeadsNowhere DEF InStep
<1>9. ClientInv
  BY <1>8 DEF SyncInit, ClientInv
<1> QED BY <1>4, <1>7, <1>9 DEF PipeInv

\* What the invariant promises.
LEMMA PipeSafe == PipeInv => PipelineHonest
<1> SUFFICES ASSUME PipeInv PROVE PipelineHonest
  OBVIOUS
<1>0. PipeTypeOK /\ WordInv /\ ClientInv
  BY DEF PipeInv
<1>1. SyncTypeOK
  <2>1. ASSUME NEW c \in Peds, NEW ops \in Range(control[c]) \cup Range(sync[c]) PROVE ops \subseteq EntityOp
    <3>1. control[c] \in Seq(SUBSET EntityOp) /\ sync[c] \in Seq(SUBSET EntityOp)
      BY <1>0, TrackerEntry
    <3>2. Range(control[c]) \subseteq SUBSET EntityOp /\ Range(sync[c]) \subseteq SUBSET EntityOp
      BY <3>1, SMTT(30) DEF Range
    <3> QED BY <3>2
  <2> QED BY <1>0, <2>1 DEF PipeTypeOK, SyncTypeOK
<1>2. NothingForgotten
  <2> SUFFICES ASSUME faults \cap PipelineFaults = {}, NEW i \in Ids PROVE LastWord(i) = entities[i]
    BY DEF NothingForgotten
  <2>1. WordKept(marks, dirty, stream, world, entities)
    BY <1>0 DEF WordInv
  <2> QED BY <2>1, LastWordIs DEF WordKept
<1>3. BaselineHonest
  <2> SUFFICES ASSUME NEW c \in Peds, faults \cap {"dropped", "overtaken"} = {}, ~Overtaking(c)
               PROVE  Arrived(Arrived(known[c], control[c]), sync[c]) = tracker[c]
    BY DEF BaselineHonest
  <2>1. InStep(known[c], control[c], sync[c], tracker[c])
    BY <1>0 DEF ClientInv
  <2>2. control[c] \in Seq(SUBSET EntityOp) /\ sync[c] \in Seq(SUBSET EntityOp)
    BY <1>0, TrackerEntry
  <2>3. \A copy : Arrived(copy, <<>>) = copy
    <3> TAKE copy
    <3>1. Leads(copy, <<>>, copy) /\ <<>> \in Seq(SUBSET EntityOp)
      BY LeadsNowhere, SMTT(30)
    <3> QED BY <3>1, ArrivedIs
  <2>4. CASE sync[c] = <<>>
    <3>1. Leads(known[c], control[c], tracker[c])
      BY <2>1, <2>4 DEF InStep
    <3>2. Arrived(known[c], control[c]) = tracker[c]
      BY <2>2, <3>1, ArrivedIs
    <3> QED BY <2>3, <2>4, <3>2
  <2>5. CASE control[c] = <<>>
    <3>1. Leads(known[c], sync[c], tracker[c])
      BY <2>1, <2>5 DEF InStep
    <3>2. Arrived(known[c], sync[c]) = tracker[c]
      BY <2>2, <3>1, ArrivedIs
    <3> QED BY <2>3, <2>5, <3>2
  <2> QED BY <2>4, <2>5 DEF Overtaking
<1>4. NoDesync
  BY <1>0 DEF ClientInv, NoDesync
<1> QED BY <1>1, <1>2, <1>3, <1>4 DEF PipelineHonest

-----------------------------------------------------------------------------
(* Every step keeps it.                                                      *)

\* A fault is remembered.
LEMMA FaultSet ==
    ASSUME NEW f \in Faults, Fault(f), PipeTypeOK
    PROVE  f \in faults' /\ faults \subseteq faults' /\ faults' \subseteq Faults
BY DEF Fault, PipeTypeOK

\* The clients' side stays while the gateway and the clients do nothing.
LEMMA ClientsStay ==
    ASSUME ClientInv, faults \subseteq faults', UNCHANGED <<tracker, control, sync, known, desyncs>>
    PROVE  ClientInv'
<1> SUFFICES ASSUME faults' \cap {"dropped", "overtaken"} = {}
             PROVE  /\ ~desyncs'
                    /\ \A c \in Peds : InStep(known[c]', control[c]', sync[c]', tracker[c]')
  BY DEF ClientInv
<1>1. faults \cap {"dropped", "overtaken"} = {}
  OBVIOUS
<1>2. ~desyncs /\ \A c \in Peds : InStep(known[c], control[c], sync[c], tracker[c])
  BY <1>1 DEF ClientInv
<1> QED BY <1>2

\* The last word stays while the pipeline does nothing.
LEMMA WordStays ==
    ASSUME WordInv, faults \subseteq faults', UNCHANGED <<marks, dirty, stream, world, entities>>
    PROVE  WordInv'
BY DEF WordInv

\* The store and its writers.
LEMMA WriteStep ==
    ASSUME PipeInv, NEW i \in Ids, NEW st \in EntityState, NEW del \in BOOLEAN,
           Write(i, st, del), joined' \subseteq Peds
    PROVE  PipeInv'
<1>0. PipeTypeOK /\ WordInv /\ ClientInv
  BY DEF PipeInv
<1>1. PICK m : m = [id |-> i, del |-> del, st |-> st]
  OBVIOUS
<1>2. m \in Dirty /\ m.id = i /\ After(m) = IF del THEN Absent ELSE st
  BY <1>1, MarkIs
<1>3. After(m) \in EntityState \cup {Absent}
  BY <1>2, AfterTyped
<1>4. /\ entities' = Put(entities, i, After(m)) /\ marks' = Append(marks, m)
      /\ writes < MaxWrites /\ Len(marks) < MaxWriters /\ writes' = writes + 1
      /\ UNCHANGED <<dirty, stream, world, tracker, control, sync, known, desyncs, faults>>
  BY <1>1, <1>2 DEF Write, Put
<1>5. entities' \in Table(EntityState)
  BY <1>0, <1>3, <1>4, TableUpdated DEF PipeTypeOK
<1>6. marks' \in Seq(Dirty) /\ Len(marks') = Len(marks) + 1 /\ Len(marks) \in Nat
  BY <1>0, <1>2, <1>4, QueueAppend, QueueLength DEF PipeTypeOK
<1>7. Len(marks') <= MaxWriters /\ writes' \in 0 .. MaxWrites
  <2>1. writes \in 0 .. MaxWrites
    BY <1>0 DEF PipeTypeOK
  <2> QED BY <1>4, <1>6, <2>1, SyncAssumption, SMTT(30)
<1>8. PipeTypeOK'
  BY <1>0, <1>4, <1>5, <1>6, <1>7 DEF PipeTypeOK
<1>9. WordInv'
  <2> SUFFICES ASSUME faults' \cap PipelineFaults = {}
               PROVE  WordKept(marks', dirty', stream', world', entities')
    BY DEF WordInv
  <2>1. WordKept(marks, dirty, stream, world, entities)
    BY <1>0, <1>4 DEF WordInv
  <2>2. marks \in Seq(Dirty) /\ entities \in Table(EntityState)
    BY <1>0 DEF PipeTypeOK
  <2>3. WordKept(Append(marks, m), dirty, stream, world, Put(entities, m.id, After(m)))
    BY <1>2, <2>1, <2>2, WordWritten
  <2> QED BY <1>2, <1>4, <2>3
<1>10. ClientInv'
  BY <1>0, <1>4, ClientsStay
<1> QED BY <1>8, <1>9, <1>10 DEF PipeInv

\* Spawning, moving, removing an entity and changing its owner are writes.
LEMMA StoreStep ==
    ASSUME PipeInv,
           \/ \E i \in Ids, at \in Places : SpawnEntity(i, at) \/ UpdateEntity(i, at)
           \/ \E i \in Ids : RemoveEntity(i)
           \/ \E v \in Vehicles : ScanOwner(v)
    PROVE  PipeInv'
<1>0. /\ joined \subseteq Peds /\ \A i \in Ids : entities[i] \in EntityState \cup {Absent}
      /\ \A p \in Peds : p \in Ids
  <2>1. entities \in Table(EntityState) /\ joined \subseteq Peds
    BY DEF PipeInv, PipeTypeOK
  <2> QED BY <2>1, TableEntry DEF Ids
<1>1. ASSUME NEW i \in Ids, NEW at \in Places, SpawnEntity(i, at) PROVE PipeInv'
  <2>1. joined' \subseteq Peds
    BY <1>0, <1>1 DEF SpawnEntity
  <2>2. PICK o \in IF i \in Peds THEN {i} ELSE {p \in Peds : entities[p] # Absent} :
            Write(i, [at |-> at, owner |-> o], FALSE)
    BY <1>1 DEF SpawnEntity
  <2>3. o \in Owners
    BY <2>2 DEF Owners
  <2>4. PICK st : st = [at |-> at, owner |-> o]
    OBVIOUS
  <2>5. st \in EntityState
    BY <2>3, <2>4 DEF EntityState
  <2>6. Write(i, st, FALSE)
    BY <2>2, <2>4
  <2> QED BY <2>1, <2>5, <2>6, WriteStep
<1>2. ASSUME NEW i \in Ids, NEW at \in Places, UpdateEntity(i, at) PROVE PipeInv'
  <2>1. entities[i] \in EntityState /\ joined' \subseteq Peds
    BY <1>0, <1>2 DEF UpdateEntity
  <2>2. PICK st : st = [entities[i] EXCEPT !.at = at]
    OBVIOUS
  <2>3. st \in EntityState
    BY <2>1, <2>2 DEF EntityState
  <2>4. Write(i, st, FALSE)
    BY <1>2, <2>2 DEF UpdateEntity
  <2> QED BY <2>1, <2>3, <2>4, WriteStep
<1>3. ASSUME NEW i \in Ids, RemoveEntity(i) PROVE PipeInv'
  <2>1. entities[i] \in EntityState /\ joined' \subseteq Peds /\ Write(i, entities[i], TRUE)
    BY <1>0, <1>3 DEF RemoveEntity
  <2> QED BY <2>1, WriteStep
<1>4. ASSUME NEW v \in Vehicles, ScanOwner(v) PROVE PipeInv'
  <2>1. v \in Ids
    BY DEF Ids
  <2>2. entities[v] \in EntityState /\ joined' \subseteq Peds
    BY <1>0, <1>4, <2>1 DEF ScanOwner
  <2>3. PICK best \in Nearest(entities[v].at) : Write(v, [entities[v] EXCEPT !.owner = best], FALSE)
    BY <1>4 DEF ScanOwner
  <2>4. best \in Owners
    BY <2>3 DEF Nearest, Owners
  <2>5. PICK st : st = [entities[v] EXCEPT !.owner = best]
    OBVIOUS
  <2>6. st \in EntityState
    BY <2>2, <2>4, <2>5 DEF EntityState
  <2>7. Write(v, st, FALSE)
    BY <2>3, <2>5
  <2> QED BY <2>1, <2>2, <2>6, <2>7, WriteStep
<1> QED BY <1>1, <1>2, <1>3, <1>4

\* A writer's mark reaches the dirty queue.
LEMMA MarkStep ==
    ASSUME PipeInv, NEW n \in DOMAIN marks, MarkDirty(n)
    PROVE  PipeInv'
<1>0. PipeTypeOK /\ WordInv /\ ClientInv
  BY DEF PipeInv
<1>1. marks \in Seq(Dirty) /\ dirty \in Table(Dirty) /\ Len(marks) <= MaxWriters
  BY <1>0 DEF PipeTypeOK
<1>2. n \in 1 .. Len(marks) /\ Len(marks) \in Nat
  BY <1>1, SeqLength
<1>3. PICK m : m = marks[n]
  OBVIOUS
<1>4. m \in Dirty
  BY <1>1, <1>2, <1>3, SeqElement
<1>5. m.id \in Ids
  BY <1>4, AfterTyped
<1>6. /\ marks' = Without(marks, n) /\ dirty' = Coalesced(m)
      /\ UNCHANGED <<entities, stream, world, tracker, control, sync, known, desyncs, joined, writes>>
  BY <1>3 DEF MarkDirty
<1>7. dirty' = dirty \/ dirty' = Put(dirty, m.id, m)
  BY <1>6 DEF Coalesced, Put
<1>8. dirty' \in Table(Dirty)
  <2>1. Put(dirty, m.id, m) \in Table(Dirty)
    BY <1>1, <1>4, <1>5, TableUpdated
  <2> QED BY <1>1, <1>7, <2>1
<1>9. marks' \in Seq(Dirty) /\ Len(marks') <= MaxWriters
  <2>1. marks' \in Seq(Dirty) /\ Len(marks') = Len(marks) - 1
    BY <1>1, <1>2, <1>6, Removed
  <2> QED BY <1>1, <1>2, <2>1, SyncAssumption, SMTT(30)
<1>10. \/ "raced" \in faults' /\ faults \subseteq faults' /\ faults' \subseteq Faults
       \/ "swallowed" \in faults' /\ faults \subseteq faults' /\ faults' \subseteq Faults
       \/ faults' = faults /\ ~Overtakes(n) /\ (m.del \/ ~Pending(m))
  <2>1. "raced" \in Faults /\ "swallowed" \in Faults
    BY DEF Faults
  <2>2. \/ Fault("raced")
        \/ Fault("swallowed")
        \/ faults' = faults /\ ~Overtakes(n) /\ (m.del \/ ~Pending(m))
    BY <1>3 DEF MarkDirty
  <2> QED BY <1>0, <2>1, <2>2, FaultSet
<1>11. faults \subseteq faults' /\ faults' \subseteq Faults
  BY <1>0, <1>10 DEF PipeTypeOK
<1>12. PipeTypeOK'
  BY <1>0, <1>6, <1>8, <1>9, <1>11 DEF PipeTypeOK
<1>13. WordInv'
  <2> SUFFICES ASSUME faults' \cap PipelineFaults = {}
               PROVE  WordKept(marks', dirty', stream', world', entities')
    BY DEF WordInv
  <2>1. ~Overtakes(n) /\ (m.del \/ ~Pending(m)) /\ faults' = faults
    BY <1>10 DEF PipelineFaults
  <2>2. dirty' = Put(dirty, m.id, m)
    BY <1>6, <2>1 DEF Coalesced, Put
  <2>3. WordKept(marks, dirty, stream, world, entities)
    BY <1>0, <2>1 DEF WordInv
  <2>4. \A k \in 1 .. n - 1 : marks[k].id # marks[n].id
    BY <2>1 DEF Overtakes
  <2>5. WordKept(Without(marks, n), Put(dirty, marks[n].id, marks[n]), stream, world, entities)
    BY <1>1, <1>2, <2>3, <2>4, WordMarked
  <2> QED BY <1>3, <1>6, <2>2, <2>5
<1>14. ClientInv'
  BY <1>0, <1>6, <1>11, ClientsStay
<1> QED BY <1>12, <1>13, <1>14 DEF PipeInv

\* The emitter drains the queue, and the stream takes the batch, loses it, or
\* evicts its oldest one for it.
LEMMA EmitStep ==
    ASSUME PipeInv, EmitOnce
    PROVE  PipeInv'
<1>0. PipeTypeOK /\ WordInv /\ ClientInv
  BY DEF PipeInv
<1>1. dirty \in Table(Dirty) /\ stream \in Seq(Table(Dirty)) /\ Len(stream) <= MaxBacklog
  BY <1>0 DEF PipeTypeOK
<1>2. /\ dirty' = Drained
      /\ UNCHANGED <<entities, marks, world, tracker, control, sync, known, desyncs, joined, writes>>
  BY DEF EmitOnce
<1>3. dirty' \in Table(Dirty)
  BY <1>2, DrainedTable
<1>4. \/ Len(stream) < MaxBacklog /\ stream' = Append(stream, dirty) /\ faults' = faults
      \/ Len(stream) = MaxBacklog /\ stream' = Append(Tail(stream), dirty) /\ Fault("evicted")
      \/ stream' = stream /\ Fault("lost")
  BY DEF EmitOnce
<1>5. Len(stream) \in Nat
  BY <1>1, QueueLength
<1>6. stream' \in Seq(Table(Dirty)) /\ Len(stream') <= MaxBacklog
  <2>1. CASE Len(stream) < MaxBacklog /\ stream' = Append(stream, dirty)
    <3>1. stream' \in Seq(Table(Dirty)) /\ Len(stream') = Len(stream) + 1
      BY <1>1, <2>1, QueueAppend
    <3> QED BY <1>5, <2>1, <3>1, SyncAssumption, SMTT(30)
  <2>2. CASE Len(stream) = MaxBacklog /\ stream' = Append(Tail(stream), dirty)
    <3>1. stream # <<>>
      BY <2>2, SyncAssumption, SMTT(30)
    <3>2. Tail(stream) \in Seq(Table(Dirty)) /\ Len(Tail(stream)) = Len(stream) - 1
      BY <1>1, <3>1, QueueTail
    <3>3. stream' \in Seq(Table(Dirty)) /\ Len(stream') = Len(Tail(stream)) + 1
      BY <1>1, <2>2, <3>2, QueueAppend
    <3> QED BY <1>5, <2>2, <3>2, <3>3, SyncAssumption, SMTT(30)
  <2> QED BY <1>1, <1>4, <2>1, <2>2
<1>7. \/ "evicted" \in faults' /\ faults \subseteq faults' /\ faults' \subseteq Faults
      \/ "lost" \in faults' /\ faults \subseteq faults' /\ faults' \subseteq Faults
      \/ faults' = faults /\ stream' = Append(stream, dirty)
  <2>1. "evicted" \in Faults /\ "lost" \in Faults
    BY DEF Faults
  <2> QED BY <1>0, <1>4, <2>1, FaultSet
<1>8. faults \subseteq faults' /\ faults' \subseteq Faults
  BY <1>0, <1>7 DEF PipeTypeOK
<1>9. PipeTypeOK'
  BY <1>0, <1>2, <1>3, <1>6, <1>8 DEF PipeTypeOK
<1>10. WordInv'
  <2> SUFFICES ASSUME faults' \cap PipelineFaults = {}
               PROVE  WordKept(marks', dirty', stream', world', entities')
    BY DEF WordInv
  <2>1. faults' = faults /\ stream' = Append(stream, dirty)
    BY <1>7 DEF PipelineFaults
  <2>2. WordKept(marks, dirty, stream, world, entities)
    BY <1>0, <2>1 DEF WordInv
  <2>3. WordKept(marks, Drained, Append(stream, dirty), world, entities)
    BY <1>1, <2>2, WordEmitted
  <2> QED BY <1>2, <2>1, <2>3
<1>11. ClientInv'
  BY <1>0, <1>2, <1>8, ClientsStay
<1> QED BY <1>9, <1>10, <1>11 DEF PipeInv

\* The aggregator merges the oldest batch.
LEMMA MergeStep ==
    ASSUME PipeInv, MergeBatch
    PROVE  PipeInv'
<1>0. PipeTypeOK /\ WordInv /\ ClientInv
  BY DEF PipeInv
<1>1. stream \in Seq(Table(Dirty)) /\ stream # <<>> /\ Len(stream) <= MaxBacklog /\ world \in Table(EntityState)
  BY <1>0 DEF PipeTypeOK, MergeBatch
<1>2. /\ stream' = Tail(stream)
      /\ world' = [i \in Ids |-> IF Head(stream)[i] = Absent THEN world[i] ELSE After(Head(stream)[i])]
      /\ UNCHANGED <<entities, marks, dirty, tracker, control, sync, known, desyncs, joined, writes, faults>>
  BY DEF MergeBatch
<1>3. Tail(stream) \in Seq(Table(Dirty)) /\ Len(Tail(stream)) = Len(stream) - 1 /\ Head(stream) \in Table(Dirty)
  BY <1>1, QueueTail
<1>4. Len(stream) \in Nat
  BY <1>1, QueueLength
<1>5. Len(stream') <= MaxBacklog
  BY <1>1, <1>2, <1>3, <1>4, SyncAssumption, SMTT(30)
<1>6. world' \in Table(EntityState)
  <2>1. ASSUME NEW i \in Ids
        PROVE  (IF Head(stream)[i] = Absent THEN world[i] ELSE After(Head(stream)[i])) \in EntityState \cup {Absent}
    <3>1. world[i] \in EntityState \cup {Absent} /\ Head(stream)[i] \in Dirty \cup {Absent}
      BY <1>1, <1>3, TableEntry
    <3> QED BY <3>1, AfterTyped
  <2> QED BY <1>2, <2>1 DEF Table
<1>7. PipeTypeOK'
  BY <1>0, <1>2, <1>3, <1>5, <1>6 DEF PipeTypeOK
<1>8. WordInv'
  <2> SUFFICES ASSUME faults' \cap PipelineFaults = {}
               PROVE  WordKept(marks', dirty', stream', world', entities')
    BY DEF WordInv
  <2>1. WordKept(marks, dirty, stream, world, entities)
    BY <1>0, <1>2 DEF WordInv
  <2>2. WordKept(marks, dirty, Tail(stream),
                 [i \in Ids |-> IF Head(stream)[i] = Absent THEN world[i] ELSE After(Head(stream)[i])], entities)
    BY <1>1, <2>1, WordMerged
  <2> QED BY <1>2, <2>2
<1>9. ClientInv'
  BY <1>0, <1>2, ClientsStay
<1> QED BY <1>7, <1>8, <1>9 DEF PipeInv

\* An entry replaced by itself.
LEMMA PutSame ==
    ASSUME NEW S, NEW f \in [Peds -> S], NEW c \in Peds
    PROVE  f = Put(f, c, f[c])
BY SMTT(30) DEF Put

\* The entry of one client replaced.
AtClient(S, f, g, c, v) == g \in [Peds -> S] /\ g[c] = v /\ \A d \in Peds : d # c => g[d] = f[d]

\* The other clients keep theirs.
LEMMA PutClient ==
    ASSUME NEW S, NEW f \in [Peds -> S], NEW c \in Peds, NEW v \in S
    PROVE  AtClient(S, f, Put(f, c, v), c, v)
BY SMTT(30) DEF Put, AtClient

\* A step at one client that leaves it in step.
LEMMA OneClient ==
    ASSUME PipeInv, NEW c \in Peds, NEW base \in Table(EntityState), NEW copy \in Table(EntityState),
           NEW ctl \in Seq(SUBSET EntityOp), NEW syn \in Seq(SUBSET EntityOp),
           tracker' = Put(tracker, c, base), known' = Put(known, c, copy),
           control' = Put(control, c, ctl), sync' = Put(sync, c, syn),
           UNCHANGED <<entities, marks, dirty, stream, world, joined, writes>>,
           faults \subseteq faults', faults' \subseteq Faults,
           faults' \cap {"dropped", "overtaken"} = {} => ~desyncs' /\ InStep(copy, ctl, syn, base)
    PROVE  PipeInv'
<1>0. PipeTypeOK /\ WordInv /\ ClientInv
  BY DEF PipeInv
<1>1. /\ tracker \in [Peds -> Table(EntityState)] /\ known \in [Peds -> Table(EntityState)]
      /\ control \in [Peds -> Seq(SUBSET EntityOp)] /\ sync \in [Peds -> Seq(SUBSET EntityOp)]
  BY <1>0 DEF PipeTypeOK
<1>2. /\ tracker' \in [Peds -> Table(EntityState)] /\ tracker'[c] = base
      /\ \A d \in Peds : d # c => tracker'[d] = tracker[d]
  <2>1. AtClient(Table(EntityState), tracker, tracker', c, base)
    BY <1>1, PutClient
  <2> QED BY <2>1 DEF AtClient
<1>3. /\ known' \in [Peds -> Table(EntityState)] /\ known'[c] = copy
      /\ \A d \in Peds : d # c => known'[d] = known[d]
  <2>1. AtClient(Table(EntityState), known, known', c, copy)
    BY <1>1, PutClient
  <2> QED BY <2>1 DEF AtClient
<1>4. /\ control' \in [Peds -> Seq(SUBSET EntityOp)] /\ control'[c] = ctl
      /\ \A d \in Peds : d # c => control'[d] = control[d]
  <2>1. AtClient(Seq(SUBSET EntityOp), control, control', c, ctl)
    BY <1>1, PutClient
  <2> QED BY <2>1 DEF AtClient
<1>5. /\ sync' \in [Peds -> Seq(SUBSET EntityOp)] /\ sync'[c] = syn
      /\ \A d \in Peds : d # c => sync'[d] = sync[d]
  <2>1. AtClient(Seq(SUBSET EntityOp), sync, sync', c, syn)
    BY <1>1, PutClient
  <2> QED BY <2>1 DEF AtClient
<1>6. PipeTypeOK'
  BY <1>0, <1>2, <1>3, <1>4, <1>5 DEF PipeTypeOK
<1>7. WordInv'
  BY <1>0, WordStays
<1>8. ClientInv'
  <2> SUFFICES ASSUME faults' \cap {"dropped", "overtaken"} = {}
               PROVE  /\ ~desyncs'
                      /\ \A d \in Peds : InStep(known'[d], control'[d], sync'[d], tracker'[d])
    BY DEF ClientInv
  <2>1. \A d \in Peds : InStep(known[d], control[d], sync[d], tracker[d])
    BY <1>0 DEF ClientInv
  <2>2. ~desyncs' /\ InStep(copy, ctl, syn, base)
    OBVIOUS
  <2>3. ASSUME NEW d \in Peds PROVE InStep(known'[d], control'[d], sync'[d], tracker'[d])
    <3>1. CASE d = c
      BY <1>2, <1>3, <1>4, <1>5, <2>2, <3>1
    <3>2. CASE d # c
      BY <1>2, <1>3, <1>4, <1>5, <2>1, <3>2
    <3> QED BY <3>1, <3>2
  <2> QED BY <2>2, <2>3
<1> QED BY <1>6, <1>7, <1>8 DEF PipeInv

\* A client before its step.
LEMMA ClientBefore ==
    ASSUME PipeInv, NEW c \in Peds
    PROVE  /\ tracker[c] \in Table(EntityState) /\ known[c] \in Table(EntityState)
           /\ control[c] \in Seq(SUBSET EntityOp) /\ sync[c] \in Seq(SUBSET EntityOp)
           /\ tracker = Put(tracker, c, tracker[c]) /\ known = Put(known, c, known[c])
           /\ control = Put(control, c, control[c]) /\ sync = Put(sync, c, sync[c])
           /\ PipeTypeOK /\ faults \subseteq Faults
           /\ faults \cap {"dropped", "overtaken"} = {} =>
                  ~desyncs /\ InStep(known[c], control[c], sync[c], tracker[c])
<1>0. PipeTypeOK /\ ClientInv
  BY DEF PipeInv
<1>1. /\ tracker \in [Peds -> Table(EntityState)] /\ known \in [Peds -> Table(EntityState)]
      /\ control \in [Peds -> Seq(SUBSET EntityOp)] /\ sync \in [Peds -> Seq(SUBSET EntityOp)]
      /\ faults \subseteq Faults
  BY <1>0 DEF PipeTypeOK
<1>2. /\ tracker = Put(tracker, c, tracker[c]) /\ known = Put(known, c, known[c])
      /\ control = Put(control, c, control[c]) /\ sync = Put(sync, c, sync[c])
  BY <1>1, PutSame
<1>3. faults \cap {"dropped", "overtaken"} = {} =>
          ~desyncs /\ InStep(known[c], control[c], sync[c], tracker[c])
  BY <1>0 DEF ClientInv
<1> QED BY <1>0, <1>1, <1>2, <1>3

\* The client forgets a player that left, and the player's queues are dropped.
LEMMA DropStep ==
    ASSUME PipeInv, NEW c \in Peds, DropTracker(c)
    PROVE  PipeInv'
<1>1. /\ tracker' = Put(tracker, c, Drained) /\ known' = Put(known, c, Drained)
      /\ control' = Put(control, c, <<>>) /\ sync' = Put(sync, c, <<>>)
      /\ UNCHANGED <<entities, marks, dirty, stream, world, joined, writes>>
      /\ UNCHANGED desyncs /\ UNCHANGED faults
  BY DEF DropTracker, Put
<1>2. Drained \in Table(EntityState) /\ <<>> \in Seq(SUBSET EntityOp)
  BY DrainedTable, SMTT(30)
<1>3. InStep(Drained, <<>>, <<>>, Drained)
  BY LeadsNowhere DEF InStep
<1>4. faults' \subseteq Faults /\ faults \subseteq faults'
      /\ (faults' \cap {"dropped", "overtaken"} = {} => ~desyncs')
  BY <1>1, ClientBefore
<1> QED BY <1>1, <1>2, <1>3, <1>4, OneClient

\* The push loop computes a snapshot and queues it, or finds its queue full.
LEMMA PushStep ==
    ASSUME PipeInv, NEW c \in Peds, PushToClient(c)
    PROVE  PipeInv'
<1>0. /\ tracker[c] \in Table(EntityState) /\ known[c] \in Table(EntityState)
      /\ control[c] \in Seq(SUBSET EntityOp) /\ sync[c] \in Seq(SUBSET EntityOp)
      /\ known = Put(known, c, known[c])
      /\ control = Put(control, c, control[c]) /\ sync = Put(sync, c, sync[c])
      /\ PipeTypeOK /\ faults \subseteq Faults
      /\ faults \cap {"dropped", "overtaken"} = {} =>
             ~desyncs /\ InStep(known[c], control[c], sync[c], tracker[c])
  BY ClientBefore
<1>1. PICK due \in SUBSET {i \in Ids : tracker[c][i] # Absent} :
          LET ops == ClientOps(c, due)
              reliable == \E o \in ops : o.op # "Delta"
          IN  /\ Worth(ops)
              /\ tracker' = [tracker EXCEPT ![c] = Baseline(c, due)]
              /\ \/ /\ control' = IF reliable THEN [control EXCEPT ![c] = Append(@, ops)] ELSE control
                    /\ sync' = IF reliable THEN sync ELSE [sync EXCEPT ![c] = Append(@, ops)]
                    /\ UNCHANGED faults
                 \/ Fault("dropped") /\ UNCHANGED <<control, sync>>
  BY DEF PushToClient
<1>2. PICK ops : ops = ClientOps(c, due)
  OBVIOUS
<1>3. PICK base : base = Baseline(c, due)
  OBVIOUS
<1>4. /\ ops \in SUBSET EntityOp /\ base \in Table(EntityState)
      /\ Apply(tracker[c], ops) = base /\ ~Desynced(tracker[c], ops)
  BY <1>0, <1>2, <1>3, OpsTyped, OpsLead, OpsKnown
<1>5. /\ tracker' = Put(tracker, c, base) /\ known' = known /\ desyncs' = desyncs
      /\ UNCHANGED <<entities, marks, dirty, stream, world, joined, writes>>
  BY <1>1, <1>3 DEF PushToClient, Put
<1>6. \/ control' = Put(control, c, Append(control[c], ops)) /\ sync' = sync /\ faults' = faults
      \/ control' = control /\ sync' = Put(sync, c, Append(sync[c], ops)) /\ faults' = faults
      \/ Fault("dropped") /\ control' = control /\ sync' = sync
  BY <1>1, <1>2 DEF Put
<1>7. /\ Append(control[c], ops) \in Seq(SUBSET EntityOp) /\ Append(control[c], ops) # <<>>
      /\ Append(sync[c], ops) \in Seq(SUBSET EntityOp) /\ Append(sync[c], ops) # <<>>
  BY <1>0, <1>4, QueueAppend
<1>8. CASE control' = Put(control, c, Append(control[c], ops)) /\ sync' = sync /\ faults' = faults
  <2>1. ASSUME faults' \cap {"dropped", "overtaken"} = {}
        PROVE  ~desyncs' /\ InStep(known[c], Append(control[c], ops), sync[c], base)
    <3>1. ~desyncs /\ InStep(known[c], control[c], sync[c], tracker[c])
      BY <1>0, <1>8, <2>1
    <3>2. ASSUME sync[c] = <<>> PROVE Leads(known[c], Append(control[c], ops), base)
      <4>1. Leads(known[c], control[c], tracker[c])
        BY <3>1, <3>2 DEF InStep
      <4>2. Leads(known[c], Append(control[c], ops), Apply(tracker[c], ops))
        BY <1>0, <1>4, <4>1, LeadsFurther
      <4> QED BY <1>4, <4>2
    <3> QED BY <1>5, <1>7, <3>1, <3>2 DEF InStep
  <2>2. /\ known' = Put(known, c, known[c]) /\ sync' = Put(sync, c, sync[c])
        /\ faults \subseteq faults' /\ faults' \subseteq Faults
    BY <1>0, <1>5, <1>8
  <2> QED BY <1>0, <1>4, <1>5, <1>7, <1>8, <2>1, <2>2, OneClient
<1>9. CASE control' = control /\ sync' = Put(sync, c, Append(sync[c], ops)) /\ faults' = faults
  <2>1. ASSUME faults' \cap {"dropped", "overtaken"} = {}
        PROVE  ~desyncs' /\ InStep(known[c], control[c], Append(sync[c], ops), base)
    <3>1. ~desyncs /\ InStep(known[c], control[c], sync[c], tracker[c])
      BY <1>0, <1>9, <2>1
    <3>2. ASSUME control[c] = <<>> PROVE Leads(known[c], Append(sync[c], ops), base)
      <4>1. Leads(known[c], sync[c], tracker[c])
        BY <3>1, <3>2 DEF InStep
      <4>2. Leads(known[c], Append(sync[c], ops), Apply(tracker[c], ops))
        BY <1>0, <1>4, <4>1, LeadsFurther
      <4> QED BY <1>4, <4>2
    <3> QED BY <1>5, <1>7, <3>1, <3>2 DEF InStep
  <2>2. /\ known' = Put(known, c, known[c]) /\ control' = Put(control, c, control[c])
        /\ faults \subseteq faults' /\ faults' \subseteq Faults
    BY <1>0, <1>5, <1>9
  <2> QED BY <1>0, <1>4, <1>5, <1>7, <1>9, <2>1, <2>2, OneClient
<1>10. CASE Fault("dropped") /\ control' = control /\ sync' = sync
  <2>1. "dropped" \in faults' /\ faults \subseteq faults' /\ faults' \subseteq Faults
    <3>1. "dropped" \in Faults
      BY DEF Faults
    <3> QED BY <1>0, <1>10, <3>1, FaultSet
  <2>2. faults' \cap {"dropped", "overtaken"} # {}
    BY <2>1
  <2>3. /\ known' = Put(known, c, known[c]) /\ control' = Put(control, c, control[c])
        /\ sync' = Put(sync, c, sync[c])
    BY <1>0, <1>5, <1>10
  <2> QED BY <1>0, <1>4, <1>5, <2>1, <2>2, <2>3, OneClient
<1> QED BY <1>6, <1>8, <1>9, <1>10

\* A reliable snapshot reaches the client.
LEMMA ControlStep ==
    ASSUME PipeInv, NEW c \in Peds, DeliverControl(c)
    PROVE  PipeInv'
<1>0. /\ tracker[c] \in Table(EntityState) /\ known[c] \in Table(EntityState)
      /\ control[c] \in Seq(SUBSET EntityOp) /\ sync[c] \in Seq(SUBSET EntityOp)
      /\ tracker = Put(tracker, c, tracker[c]) /\ sync = Put(sync, c, sync[c])
      /\ PipeTypeOK /\ faults \subseteq Faults
      /\ faults \cap {"dropped", "overtaken"} = {} =>
             ~desyncs /\ InStep(known[c], control[c], sync[c], tracker[c])
  BY ClientBefore
<1>1. PICK ops : ops = Head(control[c])
  OBVIOUS
<1>2. PICK copy : copy = Apply(known[c], ops)
  OBVIOUS
<1>3. PICK rest : rest = Tail(control[c])
  OBVIOUS
<1>4. /\ control[c] # <<>> /\ control' = Put(control, c, rest) /\ known' = Put(known, c, copy)
      /\ desyncs' = (desyncs \/ Desynced(known[c], ops))
      /\ IF sync[c] # <<>> THEN Fault("overtaken") ELSE faults' = faults
      /\ tracker' = tracker /\ sync' = sync
      /\ UNCHANGED <<entities, marks, dirty, stream, world, joined, writes>>
  BY <1>1, <1>2, <1>3 DEF DeliverControl, Consume, Put
<1>5. ops \in SUBSET EntityOp /\ rest \in Seq(SUBSET EntityOp)
  BY <1>0, <1>1, <1>3, <1>4, QueueTail
<1>6. copy \in Table(EntityState)
  BY <1>0, <1>2, <1>5, ApplyTyped
<1>7. /\ faults \subseteq faults' /\ faults' \subseteq Faults
      /\ sync[c] # <<>> => "overtaken" \in faults'
  <2>1. "overtaken" \in Faults
    BY DEF Faults
  <2>2. CASE sync[c] # <<>>
    <3>1. Fault("overtaken")
      BY <1>4, <2>2
    <3> QED BY <1>0, <2>1, <3>1, FaultSet
  <2>3. CASE sync[c] = <<>>
    BY <1>0, <1>4, <2>3
  <2> QED BY <2>2, <2>3
<1>8. ASSUME faults' \cap {"dropped", "overtaken"} = {}
      PROVE  ~desyncs' /\ InStep(copy, rest, sync[c], tracker[c])
  <2>1. sync[c] = <<>>
    BY <1>7, <1>8
  <2>2. faults \cap {"dropped", "overtaken"} = {}
    BY <1>7, <1>8
  <2>3. ~desyncs /\ InStep(known[c], control[c], sync[c], tracker[c])
    BY <1>0, <2>2
  <2>4. Leads(known[c], control[c], tracker[c])
    BY <2>1, <2>3 DEF InStep
  <2>5. ~Desynced(known[c], Head(control[c])) /\ Leads(Apply(known[c], Head(control[c])), Tail(control[c]), tracker[c])
    BY <1>0, <1>4, <2>4, LeadsOn
  <2>6. ~Desynced(known[c], ops) /\ Leads(copy, rest, tracker[c])
    BY <1>1, <1>2, <1>3, <2>5
  <2> QED BY <1>4, <2>1, <2>3, <2>6 DEF InStep
<1>9. tracker' = Put(tracker, c, tracker[c]) /\ sync' = Put(sync, c, sync[c])
  BY <1>0, <1>4
<1> QED BY <1>0, <1>4, <1>5, <1>6, <1>7, <1>8, <1>9, OneClient

\* A snapshot of deltas reaches the client, or is lost.
LEMMA SyncStep ==
    ASSUME PipeInv, NEW c \in Peds, DeliverSync(c)
    PROVE  PipeInv'
<1>0. /\ tracker[c] \in Table(EntityState) /\ known[c] \in Table(EntityState)
      /\ control[c] \in Seq(SUBSET EntityOp) /\ sync[c] \in Seq(SUBSET EntityOp)
      /\ tracker = Put(tracker, c, tracker[c]) /\ known = Put(known, c, known[c])
      /\ control = Put(control, c, control[c])
      /\ PipeTypeOK /\ faults \subseteq Faults
      /\ faults \cap {"dropped", "overtaken"} = {} =>
             ~desyncs /\ InStep(known[c], control[c], sync[c], tracker[c])
  BY ClientBefore
<1>1. PICK ops : ops = Head(sync[c])
  OBVIOUS
<1>2. PICK copy : copy = Apply(known[c], ops)
  OBVIOUS
<1>3. PICK rest : rest = Tail(sync[c])
  OBVIOUS
<1>4. /\ control[c] = <<>> /\ sync[c] # <<>> /\ sync' = Put(sync, c, rest)
      /\ tracker' = tracker /\ control' = control
      /\ UNCHANGED <<entities, marks, dirty, stream, world, joined, writes>>
      /\ \/ /\ known' = Put(known, c, copy) /\ faults' = faults
            /\ desyncs' = (desyncs \/ Desynced(known[c], ops))
         \/ Fault("dropped") /\ known' = known /\ desyncs' = desyncs
  BY <1>1, <1>2, <1>3 DEF DeliverSync, Consume, Put
<1>5. ops \in SUBSET EntityOp /\ rest \in Seq(SUBSET EntityOp)
  BY <1>0, <1>1, <1>3, <1>4, QueueTail
<1>6. copy \in Table(EntityState)
  BY <1>0, <1>2, <1>5, ApplyTyped
<1>7. tracker' = Put(tracker, c, tracker[c]) /\ control' = Put(control, c, control[c])
  BY <1>0, <1>4
<1>8. CASE known' = Put(known, c, copy) /\ faults' = faults /\ desyncs' = (desyncs \/ Desynced(known[c], ops))
  <2>1. ASSUME faults' \cap {"dropped", "overtaken"} = {}
        PROVE  ~desyncs' /\ InStep(copy, control[c], rest, tracker[c])
    <3>1. ~desyncs /\ InStep(known[c], control[c], sync[c], tracker[c])
      BY <1>0, <1>8, <2>1
    <3>2. Leads(known[c], sync[c], tracker[c])
      BY <1>4, <3>1 DEF InStep
    <3>3. ~Desynced(known[c], Head(sync[c])) /\ Leads(Apply(known[c], Head(sync[c])), Tail(sync[c]), tracker[c])
      BY <1>0, <1>4, <3>2, LeadsOn
    <3>4. ~Desynced(known[c], ops) /\ Leads(copy, rest, tracker[c])
      BY <1>1, <1>2, <1>3, <3>3
    <3> QED BY <1>4, <1>8, <3>1, <3>4 DEF InStep
  <2>2. faults \subseteq faults' /\ faults' \subseteq Faults
    BY <1>0, <1>8
  <2> QED BY <1>0, <1>4, <1>5, <1>6, <1>7, <1>8, <2>1, <2>2, OneClient
<1>9. CASE Fault("dropped") /\ known' = known /\ desyncs' = desyncs
  <2>1. "dropped" \in faults' /\ faults \subseteq faults' /\ faults' \subseteq Faults
    <3>1. "dropped" \in Faults
      BY DEF Faults
    <3> QED BY <1>0, <1>9, <3>1, FaultSet
  <2>2. faults' \cap {"dropped", "overtaken"} # {}
    BY <2>1
  <2>3. known' = Put(known, c, known[c])
    BY <1>0, <1>9
  <2> QED BY <1>0, <1>4, <1>5, <1>7, <2>1, <2>2, <2>3, OneClient
<1> QED BY <1>4, <1>8, <1>9

\* Every step of the pipeline keeps the invariant.
LEMMA PipeStep == PipeInv /\ [SyncNext]_syncVars => PipeInv'
<1> SUFFICES ASSUME PipeInv, [SyncNext]_syncVars PROVE PipeInv'
  OBVIOUS
<1>1. CASE \/ \E i \in Ids, at \in Places : SpawnEntity(i, at) \/ UpdateEntity(i, at)
           \/ \E i \in Ids : RemoveEntity(i)
           \/ \E v \in Vehicles : ScanOwner(v)
  BY <1>1, StoreStep
<1>2. CASE \E n \in DOMAIN marks : MarkDirty(n)
  BY <1>2, MarkStep
<1>3. CASE EmitOnce
  BY <1>3, EmitStep
<1>4. CASE MergeBatch
  BY <1>4, MergeStep
<1>5. CASE \E c \in Peds : PushToClient(c) \/ DropTracker(c) \/ DeliverControl(c) \/ DeliverSync(c)
  BY <1>5, PushStep, DropStep, ControlStep, SyncStep
<1>6. CASE UNCHANGED syncVars
  BY <1>6 DEF syncVars, PipeInv, PipeTypeOK, WordInv, ClientInv
<1> QED BY <1>1, <1>2, <1>3, <1>4, <1>5, <1>6 DEF SyncNext

\* PipelineHonest: from the store to a client's copy, for any number of players,
\* entities, writers and queued snapshots.  No write is forgotten between the
\* store and the aggregated world (NothingForgotten), the baseline of the deltas
\* is what the client has once the queued snapshots arrive (BaselineHonest), and
\* no client meets a delta or a delete for an entity it does not know (NoDesync),
\* as long as none of the named faults happened.
THEOREM PipelineAlwaysHonest == SyncSpec => []PipelineHonest
<1>1. PipeInv /\ [SyncNext]_syncVars => PipeInv'
  BY PipeStep
<1> QED BY <1>1, PipeStart, PipeSafe, PTL DEF SyncSpec

=============================================================================
