--------------------------- MODULE ServicesProofs ---------------------------
(****************************************************************************)
(* Proofs about what is served from disk and over HTTP: requests into scripts,*)
(* resource downloads and the key-value store; each for any clients, files, *)
(* resources and writes.                                                    *)
(****************************************************************************)
EXTENDS ScriptHttp, Downloads, KvpStore, Integers, TLAPS

\* A step goes to Zenon unless it names another prover.
USE ZenonT(60)

-----------------------------------------------------------------------------
(* The key-value store. *)

\* Inside flush with an image in hand.
Snapping == {"snap", "open", "fill", "rename"}

\* A write under way is in the map, and is not from the future.
WriteSeen(t) ==
    thread[t].pc # "idle" => /\ thread[t].n <= writes
                             /\ thread[t].key \in KvpKeys => thread[t].n <= entries[thread[t].key]

\* What a lone flush has in hand: the temporary file is its own, and what it has
\* copied is between the file and the map, its caller's write included.
FlushHonest(t) ==
    /\ handle[t] = (IF thread[t].pc \in {"fill", "rename"} THEN "tmp" ELSE "closed")
    /\ thread[t].pc = "flush" /\ ~kvpDirty => thread[t].n = 0
    /\ thread[t].pc \in {"open", "fill", "rename"} => thread[t].left = {}
    /\ thread[t].pc = "rename" => tmp = thread[t].image
    /\ thread[t].pc \in Snapping =>
          \A k \in KvpKeys \ thread[t].left :
             /\ disk[k] <= thread[t].image[k] /\ thread[t].image[k] <= entries[k]
             /\ k = thread[t].key => thread[t].n <= thread[t].image[k]

\* Somebody is about to bring key k to the file.
Coming(k) ==
    \/ kvpDirty
    \/ \E t \in Threads : thread[t].pc = "mark" /\ thread[t].key = k
    \/ \E t \in Threads : /\ thread[t].pc \in Snapping
                          /\ k \in thread[t].left \/ thread[t].image[k] = entries[k]

\* While flushes have not overlapped.
Solo ==
    /\ \A t, u \in Threads : Flushing(t) /\ Flushing(u) => t = u
    /\ disk \in Images
    /\ \A k \in KvpKeys : acked[k] <= disk[k] /\ disk[k] <= entries[k] /\ entries[k] <= writes
    /\ \A t \in Threads : FlushHonest(t)
    /\ \A k \in KvpKeys : disk[k] = entries[k] \/ Coming(k)

\* The inductive invariant.
KvpInv == KvpTypeOK /\ (\A t \in Threads : WriteSeen(t)) /\ (overlapped \/ Solo)

\* What a thread carries where.
LEMMA PhaseFacts ==
    ASSUME KvpTypeOK, NEW t \in Threads
    PROVE  /\ thread[t].pc \in {"idle", "mark", "flush"} \cup Snapping
           /\ thread[t].pc = "idle" => thread[t] = Idle
           /\ thread[t].pc # "idle" => thread[t].key \in KvpKeys \cup {"none"} /\ thread[t].n \in 0 .. MaxKvpWrites
           /\ thread[t].pc = "mark" => thread[t].key \in KvpKeys /\ thread[t].sync \in BOOLEAN
           /\ thread[t].pc \in Snapping => thread[t].image \in Images /\ thread[t].left \subseteq KvpKeys
  <1>1. thread[t] \in Phases
    BY DEF KvpTypeOK
  <1> QED BY SMTT(30), <1>1 DEF Phases, Idle, Snapping

\* The record of a thread inside a flush, as it moves on.
LEMMA Advanced ==
    ASSUME KvpTypeOK, NEW t \in Threads, thread[t].pc \in Snapping, NEW pc \in Snapping,
           thread' = [thread EXCEPT ![t].pc = pc]
    PROVE  /\ thread' \in [Threads -> Phases]
           /\ thread'[t].pc = pc /\ thread'[t].key = thread[t].key /\ thread'[t].n = thread[t].n
           /\ thread'[t].image = thread[t].image /\ thread'[t].left = thread[t].left
           /\ \A u \in Threads \ {t} : thread'[u] = thread[u]
  <1>1. thread[t] \in [pc : Snapping, key : KvpKeys \cup {"none"}, n : 0 .. MaxKvpWrites,
                       image : Images, left : SUBSET KvpKeys]
    BY SMTT(30) DEF KvpTypeOK, Phases, Snapping, Idle
  <1>2. [thread[t] EXCEPT !.pc = pc] \in Phases
    BY <1>1 DEF Phases, Snapping
  <1> QED BY <1>1, <1>2 DEF KvpTypeOK

\* The record after one entry is copied.
LEMMA Copied ==
    ASSUME KvpTypeOK, NEW t \in Threads, CopyEntry(t)
    PROVE  /\ thread' \in [Threads -> Phases]
           /\ \A u \in Threads \ {t} : thread'[u] = thread[u]
           /\ \E k \in KvpKeys :
                 /\ thread'[t].left = thread[t].left \ {k}
                 /\ thread'[t].pc \in {"snap", "open"} /\ (thread'[t].pc = "open" => thread'[t].left = {})
                 /\ thread'[t].key = thread[t].key /\ thread'[t].n = thread[t].n
                 /\ thread'[t].image = [thread[t].image EXCEPT ![k] = entries[k]]
  <1>0. thread[t].pc = "snap"
    BY DEF CopyEntry
  <1> PICK k \in thread[t].left :
        thread' = [thread EXCEPT ![t].image[k] = entries[k], ![t].left = thread[t].left \ {k},
                                 ![t].pc = IF thread[t].left \ {k} = {} THEN "open" ELSE "snap"]
    BY DEF CopyEntry
  <1> DEFINE left == thread[t].left \ {k}
             pc == IF left = {} THEN "open" ELSE "snap"
  <1> DEFINE r == [[[thread[t] EXCEPT !.image = [thread[t].image EXCEPT ![k] = entries[k]]]
                      EXCEPT !.left = left] EXCEPT !.pc = pc]
  <1>1. thread[t] \in [pc : {"snap"}, key : KvpKeys \cup {"none"}, n : 0 .. MaxKvpWrites,
                       image : Images, left : SUBSET KvpKeys]
    BY SMTT(30), <1>0 DEF KvpTypeOK, Phases, Idle
  <1>2. k \in KvpKeys /\ entries[k] \in 0 .. MaxKvpWrites
    BY <1>1 DEF KvpTypeOK, Images
  <1>3. [thread[t].image EXCEPT ![k] = entries[k]] \in Images
    BY <1>1, <1>2 DEF Images
  <1>4. /\ r \in Phases /\ r.pc = pc /\ r.key = thread[t].key /\ r.n = thread[t].n /\ r.left = left
        /\ r.image = [thread[t].image EXCEPT ![k] = entries[k]]
    BY <1>1, <1>3 DEF Phases
  <1>5. thread' = [thread EXCEPT ![t] = r]
    BY <1>1 DEF KvpTypeOK
  <1>6. thread \in [Threads -> Phases]
    BY DEF KvpTypeOK
  <1>10. pc \in {"open", "snap"} /\ (pc = "open" => left = {})
    OBVIOUS
  <1> HIDE DEF r, pc
  <1>7. /\ [thread EXCEPT ![t] = r] \in [Threads -> Phases] /\ [thread EXCEPT ![t] = r][t] = r
        /\ \A u \in Threads \ {t} : [thread EXCEPT ![t] = r][u] = thread[u]
    BY <1>4, <1>6
  <1>8. thread' \in [Threads -> Phases] /\ thread'[t] = r
    BY <1>5, <1>7
  <1>9. \A u \in Threads \ {t} : thread'[u] = thread[u]
    BY <1>5, <1>7
  <1> QED BY <1>2, <1>4, <1>8, <1>9, <1>10

\* One thread's record replaced.
LEMMA Replaced ==
    ASSUME KvpTypeOK, NEW t \in Threads, NEW r \in Phases, thread' = [thread EXCEPT ![t] = r]
    PROVE  /\ thread' \in [Threads -> Phases] /\ thread'[t] = r
           /\ \A u \in Threads \ {t} : thread'[u] = thread[u]
  BY DEF KvpTypeOK

\* A call that returns leaves its thread idle and acknowledges its own write or
\* nothing.
LEMMA Returned ==
    ASSUME KvpTypeOK, NEW t \in Threads, thread[t].pc # "idle", NEW ok, Return(t, ok)
    PROVE  /\ thread' \in [Threads -> Phases] /\ thread'[t] = Idle
           /\ \A u \in Threads \ {t} : thread'[u] = thread[u]
           /\ acked' \in Images
           /\ \A k \in KvpKeys : acked'[k] = acked[k] \/ (ok /\ k = thread[t].key /\ acked'[k] = thread[t].n)
  <1>1. Idle \in Phases
    BY DEF Phases
  <1>2. thread' \in [Threads -> Phases] /\ thread'[t] = Idle /\ \A u \in Threads \ {t} : thread'[u] = thread[u]
    BY <1>1, Replaced DEF Return
  <1>3. acked \in Images /\ thread[t].n \in 0 .. MaxKvpWrites
    BY PhaseFacts DEF KvpTypeOK
  <1> QED BY <1>2, <1>3 DEF Return, Images

\* The steps of a flush and of mark_dirty keep the types.
LEMMA KvpTyped ==
    ASSUME KvpTypeOK, KvpNext
    PROVE  KvpTypeOK'
  <1>1. ASSUME NEW t \in Isolates, NEW k \in KvpKeys, NEW sync \in BOOLEAN, Put(t, k, sync) PROVE KvpTypeOK'
    <2> DEFINE r == [pc |-> "mark", key |-> k, n |-> writes + 1, sync |-> sync]
    <2>1. t \in Threads /\ writes + 1 \in 0 .. MaxKvpWrites
      BY SMTT(30), <1>1, KvpAssumption DEF Put, KvpTypeOK, Threads
    <2>2. r \in Phases
      BY <2>1 DEF Phases
    <2> HIDE DEF r
    <2>3. thread' \in [Threads -> Phases]
      BY <1>1, <2>1, <2>2, Replaced DEF Put, r
    <2>4. entries' \in Images
      BY <1>1, <2>1 DEF Put, KvpTypeOK, Images
    <2> QED BY <1>1, <2>1, <2>3, <2>4 DEF Put, KvpTypeOK
  <1>2. ASSUME NEW t \in Threads, MarkDirty(t) PROVE KvpTypeOK'
    <2> DEFINE r == [pc |-> "flush", key |-> thread[t].key, n |-> thread[t].n]
    <2>1. r \in Phases /\ Idle \in Phases
      BY <1>2, PhaseFacts DEF Phases, MarkDirty
    <2> HIDE DEF r
    <2>2. thread' = [thread EXCEPT ![t] = r] \/ thread' = [thread EXCEPT ![t] = Idle]
      BY <1>2 DEF MarkDirty, Enter, r
    <2>3. thread' \in [Threads -> Phases]
      BY <2>1, <2>2, Replaced
    <2>4. kvpDirty' \in BOOLEAN
      BY <1>2 DEF MarkDirty, Marked
    <2> QED BY <1>2, <2>3, <2>4 DEF MarkDirty, KvpTypeOK
  <1>3. ASSUME NEW t \in Threads, CallFlush(t) PROVE KvpTypeOK'
    <2> DEFINE r == [pc |-> "flush", key |-> "none", n |-> 0]
    <2>1. r \in Phases
      BY SMTT(30), KvpAssumption DEF Phases
    <2> HIDE DEF r
    <2>2. thread' \in [Threads -> Phases]
      BY <1>3, <2>1, Replaced DEF CallFlush, Enter, r
    <2> QED BY <1>3, <2>2 DEF CallFlush, KvpTypeOK
  <1>4. ASSUME NEW t \in Threads, SwapDirty(t) PROVE KvpTypeOK'
    <2>1. thread[t].pc = "flush" /\ kvpDirty' \in BOOLEAN
          /\ UNCHANGED <<entries, disk, tmp, handle, writes>>
      BY <1>4 DEF SwapDirty, Proceed
    <2>2. CASE ~kvpDirty
      BY <1>4, <2>1, <2>2, Returned DEF SwapDirty, Proceed, KvpTypeOK
    <2>3. CASE kvpDirty
      <3> DEFINE r == [pc |-> "snap", key |-> thread[t].key, n |-> thread[t].n, image |-> Snap0, left |-> KvpKeys]
      <3>1. Snap0 \in Images
        BY SMTT(30), KvpAssumption DEF Snap0, Images
      <3>2. r \in Phases
        BY <2>1, <3>1, PhaseFacts DEF Phases
      <3>3. thread' = [thread EXCEPT ![t] = r] /\ acked' = acked
        BY <1>4, <2>3 DEF SwapDirty, Proceed, KvpTypeOK
      <3> HIDE DEF r
      <3>4. thread' \in [Threads -> Phases]
        BY <3>2, <3>3, Replaced
      <3> QED BY <2>1, <3>3, <3>4 DEF KvpTypeOK
    <2> QED BY <2>2, <2>3
  <1>5. ASSUME NEW t \in Threads, CopyEntry(t) PROVE KvpTypeOK'
    <2>1. thread' \in [Threads -> Phases]
      BY <1>5, Copied
    <2> QED BY <1>5, <2>1 DEF CopyEntry, KvpTypeOK
  <1>6. ASSUME NEW t \in Threads, OpenTmp(t) PROVE KvpTypeOK'
    <2>1. thread' \in [Threads -> Phases]
      <3>1. thread' = [thread EXCEPT ![t].pc = "fill"] /\ thread[t].pc \in Snapping /\ "fill" \in Snapping
        BY <1>6 DEF OpenTmp, Snapping
      <3> QED BY <3>1, Advanced
    <2> QED BY <1>6, <2>1 DEF OpenTmp, KvpTypeOK
  <1>7. ASSUME NEW t \in Threads, FillTmp(t) PROVE KvpTypeOK'
    <2>1. thread' \in [Threads -> Phases]
      <3>1. thread' = [thread EXCEPT ![t].pc = "rename"] /\ thread[t].pc \in Snapping /\ "rename" \in Snapping
        BY <1>7 DEF FillTmp, Snapping
      <3> QED BY <3>1, Advanced
    <2>2. thread[t].image \in Images
      BY <1>7, PhaseFacts DEF FillTmp, Snapping
    <2>3. tmp' \in Images \cup {Torn, Absent} /\ disk' \in Images \cup {Torn}
      BY <1>7, <2>2 DEF FillTmp, KvpTypeOK
    <2> QED BY <1>7, <2>1, <2>3 DEF FillTmp, KvpTypeOK
  <1>8. ASSUME NEW t \in Threads, Rename(t) PROVE KvpTypeOK'
    <2>1. thread' \in [Threads -> Phases] /\ acked' \in Images
      BY <1>8, Returned DEF Rename
    <2>2. Renamed(t) \in [Threads -> {"closed", "tmp", "disk", "gone"}]
      BY DEF KvpTypeOK, Renamed
    <2>3. handle' \in [Threads -> {"closed", "tmp", "disk", "gone"}]
      BY <1>8, <2>2 DEF Rename, KvpTypeOK
    <2>4. tmp' \in Images \cup {Torn, Absent} /\ disk' \in Images \cup {Torn}
      BY <1>8 DEF Rename, KvpTypeOK
    <2>5. kvpDirty' \in BOOLEAN
      BY <1>8 DEF Rename, KvpTypeOK
    <2> QED BY <1>8, <2>1, <2>3, <2>4, <2>5 DEF Rename, KvpTypeOK
  <1>9. ASSUME NEW t \in Threads, WriteFails(t) PROVE KvpTypeOK'
    <2>1. thread' \in [Threads -> Phases] /\ acked' \in Images
      BY <1>9, Returned DEF WriteFails
    <2> QED BY <1>9, <2>1 DEF WriteFails, KvpTypeOK
  <1>10. ASSUME CrashAndOpen PROVE KvpTypeOK'
    <2>1. Snap0 \in Images /\ Idle \in Phases
      BY SMTT(30), KvpAssumption DEF Snap0, Images, Phases
    <2>2. entries' \in Images
      BY <1>10, <2>1 DEF CrashAndOpen, Opened, KvpTypeOK
    <2> QED BY <1>10, <2>1, <2>2 DEF CrashAndOpen, KvpTypeOK
  <1> QED BY <1>1, <1>2, <1>3, <1>4, <1>5, <1>6, <1>7, <1>8, <1>9, <1>10 DEF KvpNext, FlushStep

\* set and remove: the write is newer than anything copied or filed.
LEMMA PutStep ==
    ASSUME KvpInv, NEW t \in Isolates, NEW k \in KvpKeys, NEW sync \in BOOLEAN, Put(t, k, sync), KvpTypeOK'
    PROVE  KvpInv'
  <1> DEFINE r == [pc |-> "mark", key |-> k, n |-> writes + 1, sync |-> sync]
  <1>1. KvpTypeOK /\ t \in Threads /\ writes \in Nat /\ writes' = writes + 1 /\ thread[t].pc = "idle"
        /\ UNCHANGED <<kvpDirty, disk, tmp, handle, acked, overlapped>>
    BY SMTT(30), KvpAssumption DEF KvpInv, KvpTypeOK, Threads, Put
  <1>2. thread'[t] = r /\ r.pc = "mark" /\ r.key = k /\ r.n = writes + 1
        /\ \A u \in Threads \ {t} : thread'[u] = thread[u]
    BY <1>1 DEF Put, KvpTypeOK
  <1> HIDE DEF r
  <1>3. entries'[k] = writes + 1 /\ \A j \in KvpKeys \ {k} : entries'[j] = entries[j]
    BY <1>1 DEF Put, KvpTypeOK, Images
  <1>4. \A j \in KvpKeys : entries[j] \in Nat
    BY SMTT(30), <1>1, KvpAssumption DEF KvpTypeOK, Images
  <1>5. \A u \in Threads : WriteSeen(u)'
    <2> SUFFICES ASSUME NEW u \in Threads PROVE WriteSeen(u)'
      OBVIOUS
    <2>1. CASE u = t
      BY SMTT(30), <1>1, <1>2, <1>3, <2>1 DEF WriteSeen
    <2>2. CASE u # t
      <3>1. WriteSeen(u) /\ (thread[u].pc # "idle" => thread[u].n \in Nat)
        BY SMTT(30), <1>1, PhaseFacts, KvpAssumption DEF KvpInv
      <3> QED BY SMTT(30), <1>1, <1>2, <1>3, <1>4, <2>2, <3>1 DEF WriteSeen
    <2> QED BY <2>1, <2>2
  <1>6. ASSUME Solo PROVE Solo'
    <2>1. \A u, v \in Threads : (Flushing(u) /\ Flushing(v) => u = v)'
      BY <1>2, <1>6 DEF Solo, Flushing
    <2>2. disk' \in Images /\ \A j \in KvpKeys : disk[j] \in Nat
      BY SMTT(30), <1>1, <1>6, KvpAssumption DEF Solo, Images
    <2>3. \A j \in KvpKeys : acked'[j] <= disk'[j] /\ disk'[j] <= entries'[j] /\ entries'[j] <= writes'
      BY SMTT(30), <1>1, <1>3, <1>4, <1>6, <2>2 DEF Solo
    <2>4. \A u \in Threads : FlushHonest(u)'
      <3> SUFFICES ASSUME NEW u \in Threads PROVE FlushHonest(u)'
        OBVIOUS
      <3>1. CASE u = t
        BY <1>1, <1>2, <1>6, <3>1 DEF Solo, FlushHonest, Snapping
      <3>2. CASE u # t
        <4>1. thread'[u] = thread[u] /\ FlushHonest(u)
          BY <1>2, <1>6, <3>2 DEF Solo
        <4>2. thread[u].pc \in Snapping =>
                 \A j \in KvpKeys \ thread[u].left : thread[u].image[j] <= entries'[j]
          <5> SUFFICES ASSUME thread[u].pc \in Snapping, NEW j \in KvpKeys \ thread[u].left
                       PROVE  thread[u].image[j] <= entries'[j]
            OBVIOUS
          <5>1. thread[u].image[j] <= entries[j] /\ entries[j] <= writes
            BY <1>6, <4>1 DEF FlushHonest, Solo
          <5>2. thread[u].image[j] \in Nat
            BY SMTT(30), <1>1, PhaseFacts, KvpAssumption DEF Images
          <5> QED BY SMTT(30), <1>1, <1>3, <1>4, <5>1, <5>2
        <4> QED BY <1>1, <4>1, <4>2 DEF FlushHonest
      <3> QED BY <3>1, <3>2
    <2>5. \A j \in KvpKeys : disk'[j] = entries'[j] \/ Coming(j)'
      <3> SUFFICES ASSUME NEW j \in KvpKeys PROVE disk'[j] = entries'[j] \/ Coming(j)'
        OBVIOUS
      <3>1. CASE j = k
        BY <1>1, <1>2, <3>1 DEF Coming
      <3>2. CASE j # k
        <4>1. entries'[j] = entries[j] /\ (disk[j] = entries[j] \/ Coming(j))
          BY <1>3, <1>6, <3>2 DEF Solo
        <4>2. \A u \in Threads : thread[u].pc # "idle" => thread'[u] = thread[u]
          BY <1>1, <1>2
        <4> QED BY <1>1, <4>1, <4>2 DEF Coming, Snapping
      <3> QED BY <3>1, <3>2
    <2> QED BY <2>1, <2>2, <2>3, <2>4, <2>5 DEF Solo
  <1> QED BY <1>1, <1>5, <1>6 DEF KvpInv

\* A step of thread t that changes neither the map nor what threads have in hand
\* leaves the writes seen.
LEMMA SeenKept ==
    ASSUME KvpInv, NEW t \in Threads, entries' = entries, writes' = writes,
           \A u \in Threads \ {t} : thread'[u] = thread[u],
           \/ thread'[t].pc = "idle"
           \/ thread[t].pc # "idle" /\ thread'[t].key = thread[t].key /\ thread'[t].n = thread[t].n
           \/ thread'[t].n = 0
    PROVE  \A u \in Threads : WriteSeen(u)'
  <1> SUFFICES ASSUME NEW u \in Threads PROVE WriteSeen(u)'
    OBVIOUS
  <1>1. WriteSeen(u) /\ KvpTypeOK /\ writes \in Nat /\ \A k \in KvpKeys : entries[k] \in Nat
    BY SMTT(30), KvpAssumption DEF KvpInv, KvpTypeOK, Images
  <1>2. CASE u # t
    BY <1>1, <1>2 DEF WriteSeen
  <1>3. CASE u = t
    BY SMTT(30), <1>1, <1>3 DEF WriteSeen
  <1> QED BY <1>2, <1>3

\* mark_dirty and the entry into a flush.
LEMMA EnterStep ==
    ASSUME KvpInv, NEW t \in Threads, MarkDirty(t) \/ CallFlush(t), KvpTypeOK'
    PROVE  KvpInv'
  <1>1. KvpTypeOK /\ UNCHANGED <<entries, disk, tmp, handle, writes, acked>>
        /\ thread[t].pc \in {"idle", "mark"}
    BY DEF KvpInv, MarkDirty, CallFlush
  <1>2. /\ \A u \in Threads \ {t} : thread'[u] = thread[u]
        /\ \/ thread'[t] = Idle
           \/ thread[t].pc = "mark" /\ thread'[t] = [pc |-> "flush", key |-> thread[t].key, n |-> thread[t].n]
           \/ thread[t].pc = "idle" /\ thread'[t] = [pc |-> "flush", key |-> "none", n |-> 0]
    BY <1>1 DEF KvpTypeOK, MarkDirty, CallFlush, Enter
  <1>4. kvpDirty' \/ (kvpDirty' = kvpDirty /\ thread[t].pc = "idle")
    BY DEF MarkDirty, CallFlush, Marked
  <1>3. /\ thread'[t].pc \in {"idle", "flush"}
        /\ thread'[t].pc = "flush" => kvpDirty' \/ thread'[t].n = 0
    BY SMTT(30), <1>2, <1>4 DEF Idle
  <1>7. \/ overlapped' = (overlapped \/ \E u \in Threads \ {t} : Flushing(u))
        \/ thread'[t].pc = "idle" /\ overlapped' = overlapped
    <2>1. CASE CallFlush(t)
      BY <2>1 DEF CallFlush, Enter
    <2>2. CASE MarkDirty(t) /\ thread[t].sync
      BY <2>2 DEF MarkDirty, Enter
    <2>3. CASE MarkDirty(t) /\ ~thread[t].sync
      <3>1. thread' = [thread EXCEPT ![t] = Idle] /\ overlapped' = overlapped
        BY <2>3 DEF MarkDirty
      <3> QED BY <1>1, <3>1 DEF KvpTypeOK, Idle
    <2> QED BY <2>1, <2>2, <2>3
  <1>5. \A u \in Threads : WriteSeen(u)'
    BY SMTT(30), <1>1, <1>2, SeenKept DEF Idle
  <1>6. ASSUME Solo, ~overlapped' PROVE Solo'
    <2>1. \A u, v \in Threads : (Flushing(u) /\ Flushing(v) => u = v)'
      <3>1. CASE thread'[t].pc = "flush"
        BY <1>2, <1>7, <1>6, <3>1 DEF Flushing
      <3>2. CASE thread'[t].pc = "idle"
        BY <1>2, <1>6, <3>2 DEF Flushing, Solo
      <3> QED BY <1>3, <3>1, <3>2
    <2>2. \A u \in Threads : FlushHonest(u)'
      <3> SUFFICES ASSUME NEW u \in Threads PROVE FlushHonest(u)'
        OBVIOUS
      <3>1. FlushHonest(u)
        BY <1>6 DEF Solo
      <3>2. CASE u = t
        BY <1>1, <1>3, <3>1, <3>2 DEF FlushHonest, Snapping
      <3>3. CASE u # t
        <4>1. thread'[u] = thread[u] /\ (~kvpDirty' => ~kvpDirty)
          BY SMTT(30), <1>2, <1>4, <3>3
        <4> QED BY <1>1, <3>1, <4>1 DEF FlushHonest
      <3> QED BY <3>2, <3>3
    <2>3. \A k \in KvpKeys : disk'[k] = entries'[k] \/ Coming(k)'
      <3>1. CASE kvpDirty'
        BY <3>1 DEF Coming
      <3>2. CASE ~kvpDirty'
        <4>1. thread[t].pc = "idle" /\ ~kvpDirty
          BY SMTT(30), <1>4, <3>2
        <4>2. \A u \in Threads : thread[u].pc # "idle" => thread'[u] = thread[u]
          BY <1>2, <4>1
        <4> QED BY SMTT(30), <1>1, <1>6, <4>1, <4>2 DEF Solo, Coming, Snapping
      <3> QED BY <3>1, <3>2
    <2> QED BY <1>1, <1>6, <2>1, <2>2, <2>3 DEF Solo
  <1> QED BY <1>7, <1>5, <1>6 DEF KvpInv

\* dirty.swap(false): nothing to do, or the snapshot begins with every key left.
LEMMA SwapStep ==
    ASSUME KvpInv, NEW t \in Threads, SwapDirty(t), KvpTypeOK'
    PROVE  KvpInv'
  <1>1. KvpTypeOK /\ thread[t].pc = "flush" /\ ~kvpDirty'
        /\ UNCHANGED <<entries, disk, tmp, handle, writes, overlapped>>
    BY DEF KvpInv, SwapDirty, Proceed
  <1>2. CASE ~kvpDirty
    <2>1. /\ thread'[t] = Idle /\ \A u \in Threads \ {t} : thread'[u] = thread[u]
          /\ \A k \in KvpKeys : acked'[k] = acked[k] \/ acked'[k] = thread[t].n
      BY <1>1, <1>2, Returned DEF SwapDirty, Proceed
    <2>2. \A u \in Threads : WriteSeen(u)'
      BY SMTT(30), <1>1, <2>1, SeenKept DEF Idle
    <2>3. ASSUME Solo PROVE Solo'
      <3>1. thread[t].n = 0 /\ disk \in Images
        BY <1>1, <1>2, <2>3 DEF Solo, FlushHonest
      <3>2. \A k \in KvpKeys : acked'[k] <= disk[k]
        BY SMTT(30), <2>1, <2>3, <3>1 DEF Solo, Images
      <3>3. \A u \in Threads : FlushHonest(u)'
        <4>1. FlushHonest(t)'
          BY SMTT(30), <1>1, <2>1, <2>3 DEF Solo, FlushHonest, Idle, Snapping
        <4>2. \A u \in Threads \ {t} : FlushHonest(u)'
          BY <1>1, <1>2, <2>1, <2>3 DEF Solo, FlushHonest
        <4> QED BY <4>1, <4>2
      <3>4. \A k \in KvpKeys : disk'[k] = entries'[k] \/ Coming(k)'
        <4>1. \A u \in Threads : thread[u].pc # "flush" => thread'[u] = thread[u]
          BY <1>1, <2>1
        <4> QED BY SMTT(30), <1>1, <1>2, <2>3, <4>1 DEF Solo, Coming, Snapping
      <3>5. \A u, v \in Threads : (Flushing(u) /\ Flushing(v) => u = v)'
        BY SMTT(30), <2>1, <2>3 DEF Solo, Flushing, Idle
      <3> QED BY <1>1, <2>3, <3>1, <3>2, <3>3, <3>4, <3>5 DEF Solo
    <2> QED BY <1>1, <2>2, <2>3 DEF KvpInv
  <1>3. CASE kvpDirty
    <2>1. /\ \A u \in Threads \ {t} : thread'[u] = thread[u]
          /\ thread'[t] = [pc |-> "snap", key |-> thread[t].key, n |-> thread[t].n, image |-> Snap0, left |-> KvpKeys]
          /\ acked' = acked
      BY <1>1, <1>3 DEF SwapDirty, Proceed, KvpTypeOK
    <2>2. \A u \in Threads : WriteSeen(u)'
      BY SMTT(30), <1>1, <2>1, SeenKept
    <2>3. ASSUME Solo PROVE Solo'
      <3>1. \A u \in Threads \ {t} : ~Flushing(u)
        BY <1>1, <2>3 DEF Solo, Flushing
      <3>2. \A u, v \in Threads : (Flushing(u) /\ Flushing(v) => u = v)'
        BY <2>1, <3>1 DEF Flushing
      <3>3. \A u \in Threads : FlushHonest(u)'
        <4>1. FlushHonest(t)'
          BY SMTT(30), <1>1, <2>1, <2>3 DEF Solo, FlushHonest, Snapping
        <4>2. ASSUME NEW u \in Threads \ {t} PROVE FlushHonest(u)'
          BY <1>1, <2>1, <2>3, <3>1 DEF Solo, FlushHonest, Flushing
        <4> QED BY <4>1, <4>2
      <3>4. \A k \in KvpKeys : Coming(k)'
        BY SMTT(30), <2>1 DEF Coming, Snapping
      <3> QED BY <1>1, <2>1, <2>3, <3>2, <3>3, <3>4 DEF Solo
    <2> QED BY <1>1, <2>2, <2>3 DEF KvpInv
  <1> QED BY <1>2, <1>3

\* One more entry is copied: it is as new as the map.
LEMMA CopyStep ==
    ASSUME KvpInv, NEW t \in Threads, CopyEntry(t), KvpTypeOK'
    PROVE  KvpInv'
  <1>1. KvpTypeOK /\ thread[t].pc = "snap"
        /\ UNCHANGED <<entries, kvpDirty, disk, tmp, handle, writes, acked, overlapped>>
    BY DEF KvpInv, CopyEntry
  <1>2. PICK k \in KvpKeys :
          /\ thread'[t].left = thread[t].left \ {k}
          /\ thread'[t].pc \in {"snap", "open"} /\ (thread'[t].pc = "open" => thread'[t].left = {})
          /\ thread'[t].key = thread[t].key /\ thread'[t].n = thread[t].n
          /\ thread'[t].image = [thread[t].image EXCEPT ![k] = entries[k]]
    BY <1>1, Copied
  <1>3. \A u \in Threads \ {t} : thread'[u] = thread[u]
    BY <1>1, Copied
  <1>4. \A u \in Threads : WriteSeen(u)'
    BY <1>1, <1>2, <1>3, SeenKept
  <1>5. /\ thread'[t].image[k] = entries[k]
        /\ \A j \in KvpKeys \ {k} : thread'[t].image[j] = thread[t].image[j]
    BY SMTT(30), <1>1, <1>2, <1>3, PhaseFacts DEF Snapping, Images
  <1>6. ASSUME Solo PROVE Solo'
    <2>1. \A u, v \in Threads : (Flushing(u) /\ Flushing(v) => u = v)'
      BY SMTT(30), <1>1, <1>2, <1>3, <1>6 DEF Solo, Flushing
    <2>2. FlushHonest(t)'
      <3>1. FlushHonest(t) /\ WriteSeen(t) /\ disk[k] <= entries[k] /\ entries[k] \in Nat
        BY SMTT(30), <1>1, <1>2, <1>3, <1>6, KvpAssumption DEF Solo, KvpInv, KvpTypeOK, Images
      <3>2. ASSUME NEW j \in KvpKeys \ thread'[t].left
            PROVE  /\ disk[j] <= thread'[t].image[j] /\ thread'[t].image[j] <= entries[j]
                   /\ j = thread[t].key => thread[t].n <= thread'[t].image[j]
        <4>1. CASE j = k
          BY SMTT(30), <1>1, <1>2, <1>3, <1>5, <3>1, <4>1 DEF WriteSeen
        <4>2. CASE j # k
          BY <1>1, <1>2, <1>3, <1>5, <3>1, <3>2, <4>2 DEF FlushHonest, Snapping
        <4> QED BY <4>1, <4>2
      <3> QED BY <1>1, <1>2, <1>3, <3>1, <3>2 DEF FlushHonest
    <2>3. \A u \in Threads \ {t} : FlushHonest(u)'
      BY SMTT(30), <1>1, <1>2, <1>3, <1>6 DEF Solo, FlushHonest
    <2>4. ASSUME NEW j \in KvpKeys PROVE disk'[j] = entries'[j] \/ Coming(j)'
      <3>1. thread'[t].pc \in Snapping
        BY <1>2, <1>3 DEF Snapping
      <3>2. CASE j = k
        BY <1>1, <1>5, <3>1, <3>2 DEF Coming
      <3>3. CASE j # k
        <4>1. disk[j] = entries[j] \/ Coming(j)
          BY <1>6 DEF Solo
        <4>2. thread'[t].image[j] = thread[t].image[j] /\ (j \in thread[t].left => j \in thread'[t].left)
          BY <1>2, <1>3, <1>5, <3>3
        <4> QED BY <1>1, <1>2, <1>3, <3>1, <4>1, <4>2 DEF Coming
      <3> QED BY <3>2, <3>3
    <2> QED BY <1>1, <1>6, <2>1, <2>2, <2>3, <2>4 DEF Solo
  <1> QED BY <1>1, <1>4, <1>6 DEF KvpInv

\* The temporary file is opened and filled, by the one thread that has it open.
LEMMA WriteStep ==
    ASSUME KvpInv, NEW t \in Threads, OpenTmp(t) \/ FillTmp(t), KvpTypeOK'
    PROVE  KvpInv'
  <1>1. KvpTypeOK /\ thread[t].pc \in {"open", "fill"} /\ thread[t].pc \in Snapping
        /\ UNCHANGED <<entries, kvpDirty, writes, acked, overlapped>>
    BY DEF KvpInv, OpenTmp, FillTmp, Snapping
  <1>2. /\ \A u \in Threads \ {t} : thread'[u] = thread[u]
        /\ thread'[t].pc = (IF thread[t].pc = "open" THEN "fill" ELSE "rename")
        /\ thread'[t].key = thread[t].key /\ thread'[t].n = thread[t].n
        /\ thread'[t].left = thread[t].left /\ thread'[t].image = thread[t].image
    <2>1. CASE OpenTmp(t)
      <3>1. thread' = [thread EXCEPT ![t].pc = "fill"] /\ thread[t].pc = "open" /\ "fill" \in Snapping
        BY <2>1 DEF OpenTmp, Snapping
      <3>2. thread'[t].pc = "fill"
        BY <1>1, <3>1, Advanced
      <3>3. \A u \in Threads \ {t} : thread'[u] = thread[u]
        BY <1>1, <3>1, Advanced
      <3>4. /\ thread'[t].key = thread[t].key /\ thread'[t].n = thread[t].n
            /\ thread'[t].image = thread[t].image /\ thread'[t].left = thread[t].left
        BY <1>1, <3>1, Advanced
      <3> QED BY <3>1, <3>2, <3>3, <3>4
    <2>2. CASE FillTmp(t)
      <3>1. thread' = [thread EXCEPT ![t].pc = "rename"] /\ thread[t].pc = "fill" /\ "rename" \in Snapping
        BY <2>2 DEF FillTmp, Snapping
      <3>2. thread'[t].pc = "rename"
        BY <1>1, <3>1, Advanced
      <3>3. \A u \in Threads \ {t} : thread'[u] = thread[u]
        BY <1>1, <3>1, Advanced
      <3>4. /\ thread'[t].key = thread[t].key /\ thread'[t].n = thread[t].n
            /\ thread'[t].image = thread[t].image /\ thread'[t].left = thread[t].left
        BY <1>1, <3>1, Advanced
      <3> QED BY <3>1, <3>2, <3>3, <3>4
    <2> QED BY <2>1, <2>2
  <1>3. \A u \in Threads : WriteSeen(u)'
    BY <1>1, <1>2, SeenKept
  <1>4. ASSUME Solo PROVE Solo'
    <2>1. \A u \in Threads \ {t} : ~Flushing(u) /\ handle[u] = "closed"
      BY <1>1, <1>4 DEF Solo, Flushing, FlushHonest
    <2>2. /\ disk' = disk /\ handle'[t] = "tmp" /\ \A u \in Threads \ {t} : handle'[u] = handle[u]
          /\ thread'[t].pc = "rename" => tmp' = thread[t].image
      <3>1. CASE OpenTmp(t)
        BY SMTT(30), <1>1, <1>2, <3>1 DEF OpenTmp, KvpTypeOK
      <3>2. CASE FillTmp(t)
        <4>1. handle[t] = "tmp" /\ ~\E u \in Threads \ {t} : handle[u] = handle[t]
          BY <1>4, <2>1, <3>2 DEF Solo, FlushHonest, FillTmp
        <4> QED BY <3>2, <4>1 DEF FillTmp
      <3> QED BY <3>1, <3>2
    <2>3. \A u, v \in Threads : (Flushing(u) /\ Flushing(v) => u = v)'
      BY <1>2, <2>1 DEF Flushing
    <2>4. FlushHonest(t)'
      <3>1. FlushHonest(t)
        BY <1>4 DEF Solo
      <3> QED BY <1>1, <1>2, <2>2, <3>1 DEF FlushHonest, Snapping
    <2>5. \A u \in Threads \ {t} : FlushHonest(u)'
      <3> SUFFICES ASSUME NEW u \in Threads \ {t} PROVE FlushHonest(u)'
        OBVIOUS
      <3>1. FlushHonest(u) /\ thread[u].pc \notin Snapping
        BY <1>4, <2>1 DEF Solo, Flushing, Snapping
      <3>2. thread'[u] = thread[u] /\ handle'[u] = handle[u] /\ kvpDirty' = kvpDirty
        BY <1>1, <1>2, <2>2
      <3> QED BY <3>1, <3>2 DEF FlushHonest, Snapping
    <2>6. \A k \in KvpKeys : disk'[k] = entries'[k] \/ Coming(k)'
      <3>1. thread'[t].pc \in Snapping
        BY <1>1, <1>2 DEF Snapping
      <3> SUFFICES ASSUME NEW k \in KvpKeys, disk[k] # entries[k] PROVE Coming(k)'
        BY <1>1, <2>2
      <3>2. CASE kvpDirty
        BY <1>1, <3>2 DEF Coming
      <3>3. ASSUME NEW u \in Threads, thread[u].pc = "mark", thread[u].key = k PROVE Coming(k)'
        <4>1. u # t
          BY <1>1, <3>3
        <4> QED BY <1>2, <3>3, <4>1 DEF Coming
      <3>4. ASSUME NEW u \in Threads, thread[u].pc \in Snapping,
                   k \in thread[u].left \/ thread[u].image[k] = entries[k]
            PROVE Coming(k)'
        <4>1. /\ thread'[u].pc \in Snapping /\ thread'[u].left = thread[u].left
              /\ thread'[u].image = thread[u].image /\ entries' = entries
          BY <1>1, <1>2, <3>1, <3>4
        <4> QED BY <3>4, <4>1 DEF Coming
      <3>5. Coming(k)
        BY <1>4 DEF Solo
      <3> QED BY <3>2, <3>3, <3>4, <3>5 DEF Coming
    <2> QED BY <1>1, <1>4, <2>2, <2>3, <2>4, <2>5, <2>6 DEF Solo
  <1> QED BY <1>1, <1>3, <1>4 DEF KvpInv

\* The rename publishes a whole image that holds the caller's write.
LEMMA RenameStep ==
    ASSUME KvpInv, NEW t \in Threads, Rename(t), KvpTypeOK'
    PROVE  KvpInv'
  <1>1. KvpTypeOK /\ thread[t].pc = "rename" /\ UNCHANGED <<entries, writes, overlapped>>
    BY DEF KvpInv, Rename
  <1>2. /\ thread'[t] = Idle /\ \A u \in Threads \ {t} : thread'[u] = thread[u]
        /\ \A k \in KvpKeys : acked'[k] = acked[k] \/ (k = thread[t].key /\ acked'[k] = thread[t].n)
    BY <1>1, Returned DEF Rename
  <1>3. \A u \in Threads : WriteSeen(u)'
    BY SMTT(30), <1>1, <1>2, SeenKept DEF Idle
  <1>4. ASSUME Solo PROVE Solo'
    <2>1. thread[t].image \in Images /\ tmp = thread[t].image /\ thread[t].left = {}
      BY <1>1, <1>4, PhaseFacts DEF Solo, FlushHonest, Snapping
    <2>2. disk' = thread[t].image /\ kvpDirty' = kvpDirty /\ handle' = Renamed(t)
      BY <2>1, KvpAssumption DEF Rename
    <2>3. \A k \in KvpKeys : /\ disk[k] <= disk'[k] /\ disk'[k] <= entries[k]
                             /\ k = thread[t].key => thread[t].n <= disk'[k]
      BY <1>1, <1>4, <2>1, <2>2 DEF Solo, FlushHonest, Snapping
    <2>4. \A u \in Threads \ {t} : ~Flushing(u) /\ handle[u] = "closed"
      BY <1>1, <1>4 DEF Solo, Flushing, FlushHonest
    <2>5. \A k \in KvpKeys : acked'[k] <= disk'[k] /\ disk'[k] <= entries'[k] /\ entries'[k] <= writes'
      <3> SUFFICES ASSUME NEW k \in KvpKeys
                   PROVE  acked'[k] <= disk'[k] /\ disk'[k] <= entries'[k] /\ entries'[k] <= writes'
        OBVIOUS
      <3>1. acked[k] \in Nat /\ disk[k] \in Nat /\ disk'[k] \in Nat /\ acked[k] <= disk[k] /\ entries[k] <= writes
        BY SMTT(30), <1>1, <1>4, <2>1, <2>2, KvpAssumption DEF Solo, KvpTypeOK, Images
      <3> QED BY SMTT(30), <1>1, <1>2, <2>3, <3>1
    <2>6. \A u, v \in Threads : (Flushing(u) /\ Flushing(v) => u = v)'
      BY <1>2, <2>4 DEF Flushing, Idle
    <2>7. \A u \in Threads : handle'[u] = "closed"
      BY <2>2, <2>4 DEF Renamed
    <2>8. \A u \in Threads : FlushHonest(u)'
      BY SMTT(30), <1>2, <2>4, <2>7 DEF FlushHonest, Flushing, Snapping, Idle
    <2>9. ASSUME NEW k \in KvpKeys PROVE disk'[k] = entries'[k] \/ Coming(k)'
      <3>1. disk[k] = entries[k] \/ Coming(k)
        BY <1>4 DEF Solo
      <3>2. CASE disk[k] = entries[k]
        BY SMTT(30), <1>1, <1>4, <2>1, <2>2, <2>3, <3>2, KvpAssumption DEF Solo, Images, KvpTypeOK
      <3>3. CASE thread[t].image[k] = entries[k]
        BY <1>1, <2>2, <3>3
      <3>4. CASE Coming(k) /\ thread[t].image[k] # entries[k]
        BY <1>1, <1>2, <2>1, <2>2, <2>4, <3>4 DEF Coming, Snapping, Flushing
      <3> QED BY <3>1, <3>2, <3>3, <3>4
    <2> QED BY <1>1, <2>1, <2>2, <2>5, <2>6, <2>8, <2>9 DEF Solo
  <1> QED BY <1>1, <1>3, <1>4 DEF KvpInv

\* A write that fails leaves the file alone and the store marked.
LEMMA FailStep ==
    ASSUME KvpInv, NEW t \in Threads, WriteFails(t), KvpTypeOK'
    PROVE  KvpInv'
  <1>1. KvpTypeOK /\ thread[t].pc \in {"open", "fill", "rename"} /\ kvpDirty'
        /\ UNCHANGED <<entries, disk, tmp, writes, overlapped>>
    BY DEF KvpInv, WriteFails
  <1>2. /\ thread'[t] = Idle /\ \A u \in Threads \ {t} : thread'[u] = thread[u]
        /\ \A k \in KvpKeys : acked'[k] = acked[k]
    BY <1>1, Returned DEF WriteFails
  <1>3. \A u \in Threads : WriteSeen(u)'
    BY SMTT(30), <1>1, <1>2, SeenKept DEF Idle
  <1>4. handle'[t] = "closed" /\ \A u \in Threads \ {t} : handle'[u] = handle[u]
    BY <1>1 DEF WriteFails, KvpTypeOK
  <1>5. ASSUME Solo PROVE Solo'
    <2>1. \A u, v \in Threads : (Flushing(u) /\ Flushing(v) => u = v)'
      BY SMTT(30), <1>2, <1>5 DEF Solo, Flushing, Idle
    <2>2. FlushHonest(t)'
      BY SMTT(30), <1>2, <1>4 DEF FlushHonest, Snapping, Idle
    <2>3. \A u \in Threads \ {t} : FlushHonest(u)'
      BY SMTT(30), <1>1, <1>2, <1>4, <1>5 DEF Solo, FlushHonest
    <2> QED BY <1>1, <1>2, <1>5, <2>1, <2>2, <2>3 DEF Solo, Coming
  <1> QED BY <1>1, <1>3, <1>5 DEF KvpInv

\* A crash: the map is what the file holds.
LEMMA CrashStep ==
    ASSUME KvpInv, CrashAndOpen, KvpTypeOK'
    PROVE  KvpInv'
  <1>1. KvpTypeOK /\ UNCHANGED <<disk, tmp, writes, acked, overlapped>> /\ entries' = Opened
    BY DEF KvpInv, CrashAndOpen
  <1>2. \A u \in Threads : thread'[u] = Idle /\ handle'[u] = "closed"
    BY DEF CrashAndOpen
  <1>3. \A u \in Threads : WriteSeen(u)'
    BY SMTT(30), <1>2 DEF WriteSeen, Idle
  <1>4. ASSUME Solo PROVE Solo'
    <2>1. disk \in Images /\ entries' = disk
      BY <1>1, <1>4, KvpAssumption DEF Solo, Opened
    <2>2. \A k \in KvpKeys : acked'[k] <= disk'[k] /\ disk'[k] <= entries'[k] /\ entries'[k] <= writes'
      BY SMTT(30), <1>1, <1>4, <2>1, KvpAssumption DEF Solo, KvpTypeOK, Images
    <2>3. \A u \in Threads : FlushHonest(u)' /\ ~Flushing(u)'
      BY SMTT(30), <1>2 DEF FlushHonest, Flushing, Snapping, Idle
    <2> QED BY <1>1, <2>1, <2>2, <2>3 DEF Solo
  <1> QED BY <1>1, <1>3, <1>4 DEF KvpInv

\* The store keeps its promises (KvpStore::set, flush, open): while flushes have
\* not overlapped, the file is a whole snapshot whenever the process dies, a
\* write-through that returned is in it, and a clean store has nothing unsaved.
THEOREM StoreAlwaysSafe == KvpSpec => []StoreSafe
  <1>1. KvpInit => KvpInv
    <2> SUFFICES ASSUME KvpInit PROVE KvpInv
      OBVIOUS
    <2>1. Snap0 \in Images /\ Idle \in Phases /\ \A k \in KvpKeys : Snap0[k] = 0
      BY SMTT(30), KvpAssumption DEF Snap0, Images, Phases
    <2>2. thread \in [Threads -> Phases] /\ handle \in [Threads -> {"closed", "tmp", "disk", "gone"}]
      BY <2>1 DEF KvpInit
    <2>6. KvpTypeOK
      <3>1. kvpDirty \in BOOLEAN
        BY DEF KvpInit
      <3>2. writes \in 0 .. MaxKvpWrites
        BY SMTT(30), KvpAssumption DEF KvpInit
      <3> QED BY <2>1, <2>2, <3>1, <3>2 DEF KvpInit, KvpTypeOK
    <2>3. \A t \in Threads : thread[t] = Idle /\ handle[t] = "closed"
      BY DEF KvpInit
    <2>4. \A t \in Threads : WriteSeen(t) /\ FlushHonest(t) /\ ~Flushing(t)
      BY SMTT(30), <2>3 DEF WriteSeen, FlushHonest, Flushing, Snapping, Idle
    <2>5. Solo
      BY SMTT(30), <2>1, <2>4 DEF Solo, KvpInit
    <2> QED BY <2>6, <2>4, <2>5 DEF KvpInv
  <1>2. KvpInv /\ [KvpNext]_kvpVars => KvpInv'
    <2> SUFFICES ASSUME KvpInv, [KvpNext]_kvpVars PROVE KvpInv'
      OBVIOUS
    <2>1. CASE KvpNext
      <3>1. KvpTypeOK'
        BY <2>1, KvpTyped DEF KvpInv
      <3> QED BY <2>1, <3>1, PutStep, EnterStep, SwapStep, CopyStep, WriteStep, RenameStep, FailStep, CrashStep
              DEF KvpNext, FlushStep
    <2>2. CASE UNCHANGED kvpVars
      BY <2>2 DEF KvpInv, KvpTypeOK, WriteSeen, Solo, FlushHonest, Coming, Flushing, kvpVars
    <2> QED BY <2>1, <2>2
  <1>3. KvpInv => StoreSafe
    <2> SUFFICES ASSUME KvpInv PROVE StoreSafe
      OBVIOUS
    <2>1. SnapshotWhole
      BY KvpAssumption DEF KvpInv, Solo, SnapshotWhole
    <2>2. SoloWritesThrough
      BY KvpAssumption DEF KvpInv, KvpTypeOK, Solo, SoloWritesThrough, WritesThrough, Saved, Images
    <2>3. CleanMeansSaved
      <3> SUFFICES ASSUME Quiet, ~kvpDirty, ~overlapped PROVE disk = entries
        BY DEF CleanMeansSaved
      <3>1. \A k \in KvpKeys : disk[k] = entries[k]
        BY DEF KvpInv, Solo, Coming, Quiet, Snapping
      <3>2. disk \in Images /\ entries \in Images
        BY DEF KvpInv, KvpTypeOK, Solo
      <3> QED BY SMTT(30), <3>1, <3>2 DEF Images
    <2> QED BY <2>1, <2>2, <2>3 DEF StoreSafe, KvpInv
  <1> QED BY <1>1, <1>2, <1>3, PTL DEF KvpSpec

-----------------------------------------------------------------------------
(* HTTP into scripts. *)

\* The facts about finite sets are used from here on.
INSTANCE FiniteSetTheorems

\* Requests out of and into scripts.
Outgoing == [token : Nat, by : Nat]
\* A request into a script.
Incoming == [state : {"waiting", "404", "answered", "504", "gone"}, held : Nat]

\* The values of the variables.
HttpTyped ==
    /\ incarnation \in 1..MaxIncarnations /\ up \in BOOLEAN /\ registered \in BOOLEAN
    /\ inbound \in Seq(Incoming) /\ parked \subseteq DOMAIN inbound
    /\ outQ \in Seq(Outgoing) /\ working \subseteq Outgoing /\ IsFiniteSet(working)
    /\ tokens \in Nat \ {0} /\ callbacks \subseteq 1..(tokens - 1)
    /\ Len(outQ) <= QueueDepth /\ Cardinality(working) <= Permits

\* A request under way has a token already drawn; when its callback is still
\* registered, the incarnation that made it is the one that is up.
Current(q) == q.token < tokens /\ (q.token \in callbacks => q.by = incarnation)
\* Every request under way is current.
RequestsAgree ==
    /\ \A i \in 1..Len(outQ) : Current(outQ[i])
    /\ \A q \in working : Current(q)
    /\ ~up => callbacks = {}

\* The inductive invariant of the scripts' HTTP.
HttpInv == HttpTyped /\ RequestsAgree /\ ParkedIsAwaited /\ CallbackOfItsRequest

\* The inductive invariant implies the property.
LEMMA HttpHonest == HttpInv => HttpSafe
  BY DEF HttpInv, HttpTyped, HttpSafe, HttpTypeOK

\* It holds initially.
LEMMA HttpStart == HttpInit => HttpInv
<1> SUFFICES ASSUME HttpInit PROVE HttpInv
  OBVIOUS
<1>1. /\ incarnation = 1 /\ up = TRUE /\ registered = TRUE /\ parked = {} /\ inbound = <<>>
      /\ outQ = <<>> /\ working = {} /\ tokens = 1 /\ callbacks = {} /\ ran = {}
  BY DEF HttpInit
<1>2. IsFiniteSet({}) /\ Cardinality({}) = 0
  BY FS_EmptySet
<1>3. incarnation \in 1..MaxIncarnations /\ tokens \in Nat \ {0}
  BY SMTT(30), <1>1, HttpAssumption
<1>4. inbound \in Seq(Incoming) /\ outQ \in Seq(Outgoing) /\ Len(outQ) = 0
  BY SMTT(30), <1>1
<1>5. Len(outQ) <= QueueDepth /\ Cardinality(working) <= Permits
  BY SMTT(30), <1>1, <1>2, <1>4, HttpAssumption
<1>6. HttpTyped
  BY <1>1, <1>2, <1>3, <1>4, <1>5 DEF HttpTyped
<1>7. RequestsAgree
  <2>1. 1..Len(outQ) = {}
    BY SMTT(30), <1>4
  <2> QED
    BY <1>1, <2>1 DEF RequestsAgree
<1>8. ParkedIsAwaited /\ CallbackOfItsRequest
  BY <1>1 DEF ParkedIsAwaited, CallbackOfItsRequest
<1> QED
  BY <1>6, <1>7, <1>8 DEF HttpInv

\* The resource goes, and comes back as the next incarnation.
LEMMA UnloadStep == ASSUME HttpInv, Unload PROVE HttpInv'
<1>1. /\ up' = FALSE /\ registered' = FALSE /\ callbacks' = {}
      /\ UNCHANGED <<incarnation, parked, inbound, outQ, working, tokens, ran>>
  BY DEF Unload
<1>2. HttpTyped'
  BY <1>1 DEF HttpInv, HttpTyped
<1>3. RequestsAgree'
  BY <1>1 DEF HttpInv, RequestsAgree, Current
<1> QED
  BY <1>1, <1>2, <1>3 DEF HttpInv, ParkedIsAwaited, CallbackOfItsRequest

\* The resource is up again.
LEMMA ReloadStep == ASSUME HttpInv, Reload PROVE HttpInv'
<1>1. /\ up' = TRUE /\ registered' \in BOOLEAN /\ incarnation' = incarnation + 1 /\ ~up
      /\ incarnation < MaxIncarnations
      /\ UNCHANGED <<parked, inbound, outQ, working, tokens, callbacks, ran>>
  BY DEF Reload, outside
<1>2. incarnation' \in 1..MaxIncarnations
  BY SMTT(30), <1>1, HttpAssumption DEF HttpInv, HttpTyped
<1>3. HttpTyped'
  BY <1>1, <1>2 DEF HttpInv, HttpTyped
<1>4. RequestsAgree'
  BY <1>1 DEF HttpInv, RequestsAgree, Current
<1> QED
  BY <1>1, <1>3, <1>4 DEF HttpInv, ParkedIsAwaited, CallbackOfItsRequest

----------------------------------------------------------------------------
\* A step of an inbound request: only the requests and the parked ones change.
LEMMA InboundStep ==
    ASSUME HttpInv, UNCHANGED <<incarnation, up, registered, outQ, working, tokens, callbacks, ran>>,
           inbound' \in Seq(Incoming), parked' \subseteq DOMAIN inbound',
           \A r \in parked' : inbound'[r].state \in {"waiting", "gone"}
    PROVE  HttpInv'
<1>1. HttpTyped'
  BY DEF HttpInv, HttpTyped
<1>2. RequestsAgree'
  BY DEF HttpInv, RequestsAgree, Current
<1> QED
  BY <1>1, <1>2 DEF HttpInv, ParkedIsAwaited, CallbackOfItsRequest

\* A request comes in.
LEMMA ServeStep == ASSUME HttpInv, Serve PROVE HttpInv'
<1>1. UNCHANGED <<incarnation, up, registered, outQ, working, tokens, callbacks, ran>>
  BY DEF Serve, outside
<1>s. PICK s : s = IF registered THEN "waiting" ELSE "404"
  OBVIOUS
<1>2. /\ inbound' = Append(inbound, [state |-> s, held |-> 0])
      /\ parked' = IF registered THEN parked \cup {Len(inbound) + 1} ELSE parked
  BY <1>s DEF Serve
<1>3. inbound \in Seq(Incoming) /\ parked \subseteq DOMAIN inbound
  BY DEF HttpInv, HttpTyped
<1>4. [state |-> s, held |-> 0] \in Incoming
  BY SMTT(30), <1>s DEF Incoming
<1>5. /\ inbound' \in Seq(Incoming) /\ DOMAIN inbound' = DOMAIN inbound \cup {Len(inbound) + 1}
      /\ \A r \in DOMAIN inbound : inbound'[r] = inbound[r]
      /\ inbound'[Len(inbound) + 1] = [state |-> s, held |-> 0]
  BY SMTT(30), <1>2, <1>3, <1>4
<1>6. parked' \subseteq DOMAIN inbound'
  BY <1>2, <1>3, <1>5
<1>7. \A r \in parked' : inbound'[r].state \in {"waiting", "gone"}
  <2>1. ASSUME NEW r \in parked PROVE inbound'[r].state \in {"waiting", "gone"}
    BY <1>3, <1>5 DEF HttpInv, ParkedIsAwaited
  <2>2. inbound'[Len(inbound) + 1].state = s
    BY SMTT(30), <1>5
  <2> QED
    BY <2>1, <2>2, <1>2, <1>s
<1> QED
  BY <1>1, <1>5, <1>6, <1>7, InboundStep

\* A request gets another record.
LEMMA OneInbound ==
    ASSUME NEW r \in DOMAIN inbound, NEW u \in Incoming, inbound \in Seq(Incoming), inbound' = [inbound EXCEPT ![r] = u]
    PROVE  /\ inbound' \in Seq(Incoming) /\ DOMAIN inbound' = DOMAIN inbound /\ inbound'[r] = u
           /\ \A q \in DOMAIN inbound \ {r} : inbound'[q] = inbound[q]
<1>1. inbound' \in Seq(Incoming)
  BY SMTT(30)
<1> QED
  BY <1>1

\* A request is dispatched to the script, or refused.
LEMMA DispatchStep == ASSUME HttpInv, NEW r \in DOMAIN inbound, DispatchRequest(r) PROVE HttpInv'
<1>h. PICK h : h = IF up THEN incarnation ELSE MaxIncarnations + 1
  OBVIOUS
<1>u. PICK u : u = [inbound[r] EXCEPT !.held = h]
  OBVIOUS
<1>1. /\ inbound' = [inbound EXCEPT ![r] = u]
      /\ UNCHANGED <<incarnation, up, registered, parked, outQ, working, tokens, callbacks, ran>>
  BY <1>h, <1>u DEF DispatchRequest, outside
<1>2. h \in Nat
  BY SMTT(30), <1>h, HttpAssumption DEF HttpInv, HttpTyped
<1>3. inbound \in Seq(Incoming) /\ parked \subseteq DOMAIN inbound
  BY DEF HttpInv, HttpTyped
<1>4. inbound[r] \in Incoming
  BY SMTT(30), <1>3
<1>5. u \in Incoming /\ u.state = inbound[r].state
  BY <1>u, <1>2, <1>4 DEF Incoming
<1>6. /\ inbound' \in Seq(Incoming) /\ DOMAIN inbound' = DOMAIN inbound /\ inbound'[r] = u
      /\ \A q \in DOMAIN inbound \ {r} : inbound'[q] = inbound[q]
  BY <1>1, <1>3, <1>5, OneInbound
<1>7. \A q \in parked' : inbound'[q].state \in {"waiting", "gone"}
  BY <1>1, <1>3, <1>5, <1>6 DEF HttpInv, ParkedIsAwaited
<1> QED
  BY <1>1, <1>3, <1>6, <1>7, InboundStep

\* An answer, a deadline or a caller that hangs up: only the latter leaves the
\* entry parked.
LEMMA EndStep ==
    ASSUME HttpInv, NEW r \in DOMAIN inbound, SendResponse(r) \/ Deadline(r) \/ HangsUp(r)
    PROVE  HttpInv'
<1>1. /\ UNCHANGED <<incarnation, up, registered, outQ, working, tokens, callbacks, ran>>
      /\ parked' \subseteq parked
  BY DEF SendResponse, Deadline, HangsUp, outside
<1>2. PICK s \in {"waiting", "404", "answered", "504", "gone"} :
         inbound' = [inbound EXCEPT ![r].state = s] /\ (r \notin parked' \/ s = "gone")
  <2>0. inbound \in Seq(Incoming)
    BY DEF HttpInv, HttpTyped
  <2>1. inbound[r] \in Incoming
    BY SMTT(30), <2>0
  <2>2. inbound[r].state \in {"waiting", "404", "answered", "504", "gone"}
    BY <2>1 DEF Incoming
  <2>3. CASE SendResponse(r)
    BY <2>2, <2>3 DEF SendResponse
  <2>4. CASE Deadline(r)
    BY <2>4 DEF Deadline
  <2>5. CASE HangsUp(r)
    BY <2>5 DEF HangsUp
  <2> QED
    BY <2>3, <2>4, <2>5
<1>u. PICK u : u = [inbound[r] EXCEPT !.state = s]
  OBVIOUS
<1>3. inbound \in Seq(Incoming) /\ parked \subseteq DOMAIN inbound
  BY DEF HttpInv, HttpTyped
<1>4. inbound[r] \in Incoming
  BY SMTT(30), <1>3
<1>5. u \in Incoming /\ u.state = s /\ inbound' = [inbound EXCEPT ![r] = u]
  BY <1>u, <1>2, <1>4 DEF Incoming
<1>6. /\ inbound' \in Seq(Incoming) /\ DOMAIN inbound' = DOMAIN inbound /\ inbound'[r] = u
      /\ \A q \in DOMAIN inbound \ {r} : inbound'[q] = inbound[q]
  BY <1>3, <1>5, OneInbound
<1>7. \A q \in parked' : inbound'[q].state \in {"waiting", "gone"}
  BY <1>1, <1>2, <1>3, <1>5, <1>6 DEF HttpInv, ParkedIsAwaited
<1> QED
  BY <1>1, <1>3, <1>6, <1>7, InboundStep

----------------------------------------------------------------------------
\* A request is queued with its callback, or called back at once.
LEMMA SubmitStep == ASSUME HttpInv, SubmitRequest PROVE HttpInv'
<1>q. PICK q : q = [token |-> tokens, by |-> incarnation]
  OBVIOUS
<1>0. UNCHANGED <<incarnation, up, registered, parked, inbound, working>> /\ tokens' = tokens + 1 /\ up
  BY DEF SubmitRequest, inside
<1>1. tokens \in Nat \ {0} /\ incarnation \in Nat /\ tokens' \in Nat \ {0} /\ tokens < tokens'
  BY SMTT(30), <1>0, HttpAssumption DEF HttpInv, HttpTyped
<1>2. q \in Outgoing /\ q.token = tokens /\ q.by = incarnation
  BY <1>1, <1>q DEF Outgoing
<1>3. \A n \in Nat : n < tokens => n < tokens' /\ n # tokens
  BY SMTT(30), <1>0, <1>1
<1>4. 1..(tokens - 1) \subseteq 1..(tokens' - 1) /\ tokens \in 1..(tokens' - 1) /\ tokens \notin 1..(tokens - 1)
  BY SMTT(30), <1>0, <1>1
<1>5. callbacks \subseteq 1..(tokens - 1)
  BY DEF HttpInv, HttpTyped
<1>6. outQ \in Seq(Outgoing) /\ Len(outQ) <= QueueDepth
  BY DEF HttpInv, HttpTyped
<1>7. \A i \in 1..Len(outQ) : outQ[i] \in Outgoing /\ outQ[i].token \in Nat
  <2>1. \A i \in 1..Len(outQ) : outQ[i] \in Outgoing
    BY SMTT(30), <1>6
  <2> QED
    BY <2>1 DEF Outgoing
<1>8. \A w \in working : w.token \in Nat
  BY DEF HttpInv, HttpTyped, Outgoing
<1>9. CASE Len(outQ) < QueueDepth
  <2>1. outQ' = Append(outQ, q) /\ callbacks' = callbacks \cup {tokens} /\ ran' = ran
    BY <1>9, <1>q DEF SubmitRequest, NextToken
  <2>2. /\ outQ' \in Seq(Outgoing) /\ Len(outQ') <= QueueDepth /\ Len(outQ') = Len(outQ) + 1
        /\ \A i \in 1..Len(outQ') : (i \in 1..Len(outQ) /\ outQ'[i] = outQ[i]) \/ outQ'[i] = q
    BY SMTT(30), <2>1, <1>2, <1>6, <1>9, HttpAssumption
  <2>3. HttpTyped'
    <3>1. callbacks' \subseteq 1..(tokens' - 1)
      BY <2>1, <1>4, <1>5
    <3> QED
      BY <3>1, <2>2, <1>0, <1>1 DEF HttpInv, HttpTyped
  <2>4. RequestsAgree'
    <3>1. \A w : w.token \in Nat /\ Current(w) => Current(w)'
      BY <2>1, <1>0, <1>3 DEF Current
    <3>2. Current(q)'
      BY <1>0, <1>1, <1>2 DEF Current
    <3>3. \A i \in 1..Len(outQ') : Current(outQ[i])'
      BY <3>1, <3>2, <2>2, <1>7 DEF HttpInv, RequestsAgree, Current
    <3>4. \A w \in working' : Current(w)'
      BY <3>1, <1>0, <1>8 DEF HttpInv, RequestsAgree
    <3> QED
      BY <3>3, <3>4, <1>0 DEF RequestsAgree
  <2> QED
    BY <2>1, <2>3, <2>4, <1>0 DEF HttpInv, ParkedIsAwaited, CallbackOfItsRequest
<1>10. CASE ~(Len(outQ) < QueueDepth)
  <2>1. /\ UNCHANGED <<outQ, callbacks>>
        /\ ran' = ran \cup {[token |-> tokens, by |-> incarnation, in |-> incarnation]}
    BY <1>10 DEF SubmitRequest, NextToken
  <2>2. HttpTyped'
    <3>1. callbacks' \subseteq 1..(tokens' - 1)
      BY <2>1, <1>4, <1>5
    <3> QED
      BY <3>1, <2>1, <1>0, <1>1 DEF HttpInv, HttpTyped
  <2>3. RequestsAgree'
    <3>1. \A w : w.token \in Nat /\ Current(w) => Current(w)'
      BY <2>1, <1>0, <1>3 DEF Current
    <3> QED
      BY <3>1, <2>1, <1>0, <1>7, <1>8 DEF HttpInv, RequestsAgree, Current
  <2>4. CallbackOfItsRequest'
    BY SMTT(30), <2>1 DEF HttpInv, CallbackOfItsRequest
  <2> QED
    BY <2>2, <2>3, <2>4, <1>0 DEF HttpInv, ParkedIsAwaited
<1> QED
  BY <1>9, <1>10

\* A permit is taken for the head of the queue.
LEMMA BeginStep == ASSUME HttpInv, StartRequest PROVE HttpInv'
<1>1. /\ outQ # <<>> /\ outQ' = Tail(outQ) /\ working' = working \cup {Head(outQ)}
      /\ Cardinality(working) < Permits
      /\ UNCHANGED <<incarnation, up, registered, parked, inbound, tokens, callbacks, ran>>
  BY DEF StartRequest, inside
<1>2. outQ \in Seq(Outgoing) /\ Len(outQ) <= QueueDepth /\ IsFiniteSet(working) /\ working \subseteq Outgoing
  BY DEF HttpInv, HttpTyped
<1>3. /\ outQ' \in Seq(Outgoing) /\ Len(outQ') = Len(outQ) - 1 /\ Len(outQ') <= QueueDepth /\ Len(outQ) \in Nat
      /\ Head(outQ) = outQ[1] /\ 1 \in 1..Len(outQ) /\ outQ[1] \in Outgoing
  BY SMTT(30), <1>1, <1>2, HttpAssumption
<1>4. \A i \in 1..Len(outQ') : i + 1 \in 1..Len(outQ) /\ outQ'[i] = outQ[i + 1]
  BY SMTT(30), <1>1, <1>2
<1>5. IsFiniteSet(working') /\ Cardinality(working') <= Permits
  <2>1. /\ IsFiniteSet(working') /\ Cardinality(working) \in Nat
        /\ Cardinality(working') = Cardinality(working) \/ Cardinality(working') = Cardinality(working) + 1
    BY <1>1, <1>2, FS_AddElement, FS_CardinalityType
  <2> QED
    BY SMTT(30), <2>1, <1>1, HttpAssumption
<1>6. HttpTyped'
  BY <1>1, <1>2, <1>3, <1>5 DEF HttpInv, HttpTyped
<1>7. RequestsAgree'
  <2>1. \A q : Current(q) => Current(q)'
    BY <1>1 DEF Current
  <2>2. Current(Head(outQ))
    BY <1>3 DEF HttpInv, RequestsAgree
  <2>3. \A i \in 1..Len(outQ') : Current(outQ[i])'
    BY <1>1, <1>4 DEF HttpInv, RequestsAgree, Current
  <2>4. \A q \in working' : Current(q)'
    BY <1>1, <2>1, <2>2 DEF HttpInv, RequestsAgree
  <2> QED
    BY <1>1, <2>3, <2>4 DEF HttpInv, RequestsAgree
<1> QED
  BY <1>1, <1>6, <1>7 DEF HttpInv, ParkedIsAwaited, CallbackOfItsRequest

\* The reply runs its callback if that is still registered.
LEMMA ReplyStep == ASSUME HttpInv, NEW q \in working, DispatchReply(q) PROVE HttpInv'
<1>1. /\ working' = working \ {q} /\ UNCHANGED <<incarnation, up, registered, parked, inbound, outQ, tokens>>
      /\ callbacks' = IF up THEN callbacks \ {q.token} ELSE callbacks
      /\ ran' = IF up /\ q.token \in callbacks
                THEN ran \cup {[token |-> q.token, by |-> q.by, in |-> incarnation]} ELSE ran
  BY DEF DispatchReply, inside
<1>2. callbacks' \subseteq callbacks
  BY <1>1
<1>3. IsFiniteSet(working') /\ Cardinality(working') <= Permits
  <2>1. IsFiniteSet(working) /\ Cardinality(working) <= Permits
    BY DEF HttpInv, HttpTyped
  <2>2. /\ IsFiniteSet(working') /\ Cardinality(working) \in Nat /\ Cardinality(working') = Cardinality(working) - 1
    BY <1>1, <2>1, FS_RemoveElement, FS_CardinalityType
  <2> QED
    BY SMTT(30), <2>1, <2>2, HttpAssumption
<1>4. HttpTyped'
  BY <1>1, <1>2, <1>3 DEF HttpInv, HttpTyped
<1>5. RequestsAgree'
  BY <1>1, <1>2 DEF HttpInv, RequestsAgree, Current
<1>6. CallbackOfItsRequest'
  <2>1. q.token \in callbacks => q.by = incarnation
    BY DEF HttpInv, RequestsAgree, Current
  <2> QED
    BY SMTT(30), <1>1, <2>1 DEF HttpInv, CallbackOfItsRequest
<1> QED
  BY <1>1, <1>4, <1>5, <1>6 DEF HttpInv, ParkedIsAwaited

\* Every step preserves the inductive invariant.
LEMMA HttpNextStep == HttpInv /\ [HttpNext]_httpVars => HttpInv'
<1> SUFFICES ASSUME HttpInv, [HttpNext]_httpVars PROVE HttpInv'
  OBVIOUS
<1>1. CASE UNCHANGED httpVars
  BY <1>1 DEF httpVars, HttpInv, HttpTyped, RequestsAgree, Current, ParkedIsAwaited, CallbackOfItsRequest
<1> QED
  BY <1>1, UnloadStep, ReloadStep, ServeStep, DispatchStep, EndStep, SubmitStep, BeginStep, ReplyStep
     DEF HttpNext, HttpStep

\* HttpSafe, for any numbers of requests, permits and incarnations: a parked
\* request is one somebody waits for or whose caller hung up, and a reply runs
\* only the callback of its own request (op_http_response, dispatch_reply).
THEOREM HttpAlwaysSafe == HttpSpec => []HttpSafe
  BY HttpHonest, HttpStart, HttpNextStep, PTL DEF HttpSpec

-----------------------------------------------------------------------------
(* Resource downloads. *)

\* Range headers.
Headers == [start : RangeBound, end : RangeBound]
\* Parsed ranges.
Intervals == [start : Int, end : Int]

\* parse_range gives the first and the last position the header selects, or
\* nothing when it selects none; a header without numbers is refused.
LEMMA RangeMeaning ==
    ASSUME NEW r \in Headers, NEW size \in Nat
    PROVE  LET p == parse_range(r, size) IN
           \/ p = Unsatisfiable /\ (Selected(r, size) = {} \/ r = NoRange)
           \/ /\ p \in Intervals /\ p # Unsatisfiable /\ p.start \in Nat /\ p.start <= p.end
              /\ p.start..p.end = Selected(r, size)
<1>0. r.start \in Nat \cup {-1} /\ r.end \in Nat \cup {-1} /\ r = [start |-> r.start, end |-> r.end]
  <2>1. r.start \in RangeBound /\ r.end \in RangeBound
    BY DEF Headers
  <2>2. r.start \in Nat \cup {-1} /\ r.end \in Nat \cup {-1}
    BY <2>1, DownloadsAssumption DEF RangeBound, NoBound
  <2>3. r = [start |-> r.start, end |-> r.end]
    BY SMTT(30) DEF Headers
  <2> QED
    BY <2>2, <2>3
<1>p. PICK p : p = parse_range(r, size)
  OBVIOUS
<1>1. CASE size = 0
  <2>1. p = Unsatisfiable
    BY SMTT(30), <1>1, <1>p DEF parse_range
  <2>2. Selected(r, size) = {}
    BY SMTT(30), <1>1 DEF Selected
  <2> QED
    BY <2>1, <2>2, <1>p
<1>2. CASE size > 0 /\ r.start # -1 /\ r.end # -1
  <2>1. p = IF r.start > r.end \/ r.start >= size THEN Unsatisfiable
            ELSE [start |-> r.start, end |-> Smaller(r.end, size - 1)]
    BY SMTT(30), <1>2, <1>p DEF parse_range, NoBound
  <2>2. Selected(r, size) = {x \in 0..(size - 1) : r.start <= x /\ x <= r.end}
    BY SMTT(30), <1>2 DEF Selected, NoBound
  <2>3. CASE r.start > r.end \/ r.start >= size
    <3>1. Selected(r, size) = {}
      BY SMTT(30), <1>0, <1>2, <2>2, <2>3
    <3> QED
      BY <3>1, <2>1, <2>3, <1>p
  <2>4. CASE ~(r.start > r.end \/ r.start >= size)
    <3>1. p = [start |-> r.start, end |-> Smaller(r.end, size - 1)]
      BY <2>1, <2>4
    <3>2. p \in Intervals /\ p.start = r.start /\ p.end = Smaller(r.end, size - 1)
      BY SMTT(30), <3>1, <1>0, <1>2 DEF Intervals, Smaller
    <3>3. p # Unsatisfiable /\ p.start \in Nat /\ p.start <= p.end
      BY SMTT(30), <3>2, <1>0, <1>2, <2>4 DEF Smaller, Unsatisfiable, NoBound
    <3>4. p.start..p.end = Selected(r, size)
      BY SMTT(30), <3>2, <1>0, <1>2, <2>2, <2>4 DEF Smaller
    <3> QED
      BY <3>2, <3>3, <3>4, <1>p
  <2> QED
    BY <2>3, <2>4
<1>3. CASE size > 0 /\ r.start # -1 /\ r.end = -1
  <2>1. p = IF r.start >= size THEN Unsatisfiable ELSE [start |-> r.start, end |-> size - 1]
    BY SMTT(30), <1>3, <1>p DEF parse_range, NoBound
  <2>2. Selected(r, size) = {x \in 0..(size - 1) : r.start <= x}
    BY SMTT(30), <1>3 DEF Selected, NoBound
  <2>3. CASE r.start >= size
    <3>1. Selected(r, size) = {}
      BY SMTT(30), <1>0, <1>3, <2>2, <2>3
    <3> QED
      BY <3>1, <2>1, <2>3, <1>p
  <2>4. CASE ~(r.start >= size)
    <3>1. p = [start |-> r.start, end |-> size - 1]
      BY <2>1, <2>4
    <3>2. p \in Intervals /\ p.start = r.start /\ p.end = size - 1
      BY SMTT(30), <3>1, <1>0, <1>3 DEF Intervals
    <3>3. p # Unsatisfiable /\ p.start \in Nat /\ p.start <= p.end
      BY SMTT(30), <3>2, <1>0, <1>3, <2>4 DEF Unsatisfiable, NoBound
    <3>4. p.start..p.end = Selected(r, size)
      BY SMTT(30), <3>2, <1>0, <1>3, <2>2, <2>4
    <3> QED
      BY <3>2, <3>3, <3>4, <1>p
  <2> QED
    BY <2>3, <2>4
<1>4. CASE size > 0 /\ r.start = -1 /\ r.end # -1
  <2>1. p = IF r.end = 0 THEN Unsatisfiable ELSE [start |-> size - Smaller(r.end, size), end |-> size - 1]
    BY SMTT(30), <1>4, <1>p DEF parse_range, NoBound
  <2>2. Selected(r, size) = {x \in 0..(size - 1) : size - x <= r.end}
    BY SMTT(30), <1>4 DEF Selected, NoBound
  <2>3. CASE r.end = 0
    <3>1. Selected(r, size) = {}
      BY SMTT(30), <1>0, <1>4, <2>2, <2>3
    <3> QED
      BY <3>1, <2>1, <2>3, <1>p
  <2>4. CASE r.end # 0
    <3>1. p = [start |-> size - Smaller(r.end, size), end |-> size - 1]
      BY <2>1, <2>4
    <3>2. p \in Intervals /\ p.start = size - Smaller(r.end, size) /\ p.end = size - 1
      BY SMTT(30), <3>1, <1>0, <1>4 DEF Intervals, Smaller
    <3>3. p # Unsatisfiable /\ p.start \in Nat /\ p.start <= p.end
      BY SMTT(30), <3>2, <1>0, <1>4, <2>4 DEF Smaller, Unsatisfiable, NoBound
    <3>4. p.start..p.end = Selected(r, size)
      BY SMTT(30), <3>2, <1>0, <1>4, <2>2, <2>4 DEF Smaller
    <3> QED
      BY <3>2, <3>3, <3>4, <1>p
  <2> QED
    BY <2>3, <2>4
<1>5. CASE size > 0 /\ r.start = -1 /\ r.end = -1
  <2>1. p = Unsatisfiable
    BY SMTT(30), <1>5, <1>p DEF parse_range, NoBound
  <2>2. r = NoRange
    BY <1>0, <1>5 DEF NoRange, NoBound
  <2> QED
    BY <2>1, <2>2, <1>p
<1> QED
  BY SMTT(30), <1>0, <1>1, <1>2, <1>3, <1>4, <1>5

----------------------------------------------------------------------------
\* A request, and the values of the variables.
Requests ==
    [at : Answered \cup {"idle", "waits", "opens", "body"}, memory : BOOLEAN, asked : Intervals, size : Nat,
     range : Intervals, pos : Nat, remaining : Nat, sent : SUBSET Nat, held : BOOLEAN]
\* The values of the variables.
DlTyped ==
    /\ filelen \in FileSizes /\ rewrites \in 0..MaxRewrites /\ permits \in Nat
    /\ dl \in [Getters -> Requests]

\* The range of a request that is answered from the file is what its header
\* selects; what a body has sent so far is the range up to the reader's offset.
RangeAgrees(r) ==
    /\ r.range.start \in Nat /\ r.range.start <= r.range.end + 1
    /\ r.range.start..r.range.end = Selected(r.asked, r.size)
\* What a request reads lies within what it was promised.
BodyAgrees(r) ==
    /\ r.at \in {"waits", "head", "opens", "body"} => RangeAgrees(r)
    /\ r.at = "waits" => r.sent = {}
    /\ r.at \in {"opens", "body"} =>
          /\ r.range.start <= r.pos /\ r.pos + r.remaining = r.range.end + 1
          /\ r.sent = r.range.start..(r.pos - 1)
    /\ r.at = "ok" => r.sent = Selected(r.asked, r.size)
    /\ r.at = "416" => Selected(r.asked, r.size) = {} \/ r.asked = NoRange

\* The inductive invariant of the downloads.
DlInv ==
    /\ DlTyped /\ permits + Cardinality(Holders) = Concurrency
    /\ \A g \in Getters : BodyAgrees(dl[g]) /\ (dl[g].held <=> dl[g].at \in {"opens", "body"})

\* The permits in use can be counted.
LEMMA HoldersFinite == IsFiniteSet(Holders) /\ Cardinality(Holders) \in Nat
<1>1. Holders \in SUBSET Getters /\ IsFiniteSet(Getters)
  BY DownloadsAssumption DEF Holders
<1> QED
  BY <1>1, FS_Subset, FS_CardinalityType

\* The inductive invariant implies the property.
LEMMA DlHonest == DlInv => DownloadsHonest
<1> SUFFICES ASSUME DlInv PROVE DownloadsHonest
  OBVIOUS
<1>1. DlTypeOK
  <2>1. permits \in 0..Concurrency
    BY SMTT(30), HoldersFinite, DownloadsAssumption DEF DlInv, DlTyped
  <2>2. ASSUME NEW g \in Getters
        PROVE  /\ dl[g].at \in Answered \cup {"idle", "waits", "opens", "body"}
               /\ dl[g].pos \in Nat /\ dl[g].remaining \in Nat /\ dl[g].sent \subseteq Nat
    BY DEF DlInv, DlTyped, Requests
  <2>3. \A n \in Nat : n >= 0
    BY SMTT(30)
  <2> QED
    BY <2>1, <2>2, <2>3 DEF DlTypeOK, DlInv, DlTyped
<1>2. PermitsAccounted
  BY DEF PermitsAccounted, DlInv, Holders
<1>3. BodyIsTheRange
  <2> SUFFICES ASSUME NEW g \in Getters, dl[g].at \in {"waits", "head"}
               PROVE  RangeLen(dl[g].range) = Cardinality(Selected(dl[g].asked, dl[g].size))
    BY DEF BodyIsTheRange, DlInv, BodyAgrees
  <2>1. RangeAgrees(dl[g])
    BY DEF DlInv, BodyAgrees
  <2>2. dl[g].range \in Intervals
    BY DEF DlInv, DlTyped, Requests
  <2>3. dl[g].range.start \in Int /\ dl[g].range.end \in Int
    BY <2>2 DEF Intervals
  <2>4. Cardinality(Selected(dl[g].asked, dl[g].size))
           = IF dl[g].range.start > dl[g].range.end THEN 0 ELSE dl[g].range.end - dl[g].range.start + 1
    BY <2>1, <2>3, FS_Interval DEF RangeAgrees
  <2> QED
    BY SMTT(30), <2>1, <2>3, <2>4 DEF RangeAgrees, RangeLen
<1> QED
  BY <1>1, <1>2, <1>3 DEF DownloadsHonest

\* A request that has not started.
LEMMA IdleRequest ==
    /\ NoRequest \in Requests /\ NoRequest.at = "idle" /\ NoRequest.held = FALSE /\ NoRequest.sent = {}
    /\ NoRange \in Intervals
<1>1. NoRange \in Intervals
  BY SMTT(30) DEF NoRange, NoBound, Intervals
<1>2. "idle" \in Answered \cup {"idle", "waits", "opens", "body"} /\ FALSE \in BOOLEAN /\ 0 \in Nat /\ {} \in SUBSET Nat
  BY SMTT(30)
<1>3. NoRequest \in Requests
  BY <1>1, <1>2 DEF NoRequest, Requests
<1>4. NoRequest.at = "idle" /\ NoRequest.held = FALSE /\ NoRequest.sent = {}
  BY DEF NoRequest
<1> QED
  BY <1>1, <1>3, <1>4

\* It holds initially.
LEMMA DlStart == DlInit => DlInv
<1> SUFFICES ASSUME DlInit PROVE DlInv
  OBVIOUS
<1>1. /\ filelen \in FileSizes /\ rewrites = 0 /\ permits = Concurrency
      /\ dl \in [Getters -> Requests] /\ \A g \in Getters : dl[g] = NoRequest
  BY IdleRequest DEF DlInit
<1>2. rewrites \in 0..MaxRewrites /\ permits \in Nat
  BY SMTT(30), <1>1, DownloadsAssumption
<1>3. Holders = {}
  BY <1>1, IdleRequest DEF Holders
<1>4. permits + Cardinality(Holders) = Concurrency
  BY SMTT(30), <1>1, <1>3, FS_EmptySet, DownloadsAssumption
<1>5. \A g \in Getters : BodyAgrees(dl[g]) /\ (dl[g].held <=> dl[g].at \in {"opens", "body"})
  BY <1>1, IdleRequest DEF BodyAgrees
<1> QED
  BY <1>1, <1>2, <1>4, <1>5 DEF DlInv, DlTyped

----------------------------------------------------------------------------
\* A step that gives one request the state u, and takes or returns the permit
\* that u's state says.
LEMMA OneRequest ==
    ASSUME DlInv, NEW g \in Getters, NEW u \in Requests, dl' = [dl EXCEPT ![g] = u],
           UNCHANGED <<filelen, rewrites>>, BodyAgrees(u), u.held <=> u.at \in {"opens", "body"},
           permits' \in Nat,
           permits' = permits + (IF dl[g].held THEN 1 ELSE 0) - (IF u.held THEN 1 ELSE 0)
    PROVE  DlInv'
<1>1. /\ dl' \in [Getters -> Requests] /\ dl'[g] = u /\ \A h \in Getters \ {g} : dl'[h] = dl[h]
  BY DEF DlInv, DlTyped
<1>2. \A h \in Getters : BodyAgrees(dl'[h]) /\ (dl'[h].held <=> dl'[h].at \in {"opens", "body"})
  BY <1>1 DEF DlInv
<1>3. IsFiniteSet(Holders) /\ Cardinality(Holders) \in Nat /\ permits \in Nat /\ Concurrency \in Nat
  BY HoldersFinite, DownloadsAssumption DEF DlInv, DlTyped
<1>4. Cardinality(Holders') = Cardinality(Holders) - (IF dl[g].held THEN 1 ELSE 0) + (IF u.held THEN 1 ELSE 0)
  <2>1. CASE dl[g].held /\ u.held
    <3>1. Holders' = Holders
      BY <1>1, <2>1 DEF Holders
    <3> QED
      BY SMTT(30), <1>3, <2>1, <3>1
  <2>2. CASE ~dl[g].held /\ ~u.held
    <3>1. Holders' = Holders
      BY <1>1, <2>2 DEF Holders
    <3> QED
      BY SMTT(30), <1>3, <2>2, <3>1
  <2>3. CASE dl[g].held /\ ~u.held
    <3>1. Holders' = Holders \ {g} /\ g \in Holders
      BY <1>1, <2>3 DEF Holders
    <3>2. Cardinality(Holders') = Cardinality(Holders) - 1
      BY <1>3, <3>1, FS_RemoveElement
    <3> QED
      BY SMTT(30), <1>3, <2>3, <3>2
  <2>4. CASE ~dl[g].held /\ u.held
    <3>1. Holders' = Holders \cup {g} /\ g \notin Holders
      BY <1>1, <2>4 DEF Holders
    <3>2. Cardinality(Holders') = Cardinality(Holders) + 1
      BY <1>3, <3>1, FS_AddElement
    <3> QED
      BY SMTT(30), <1>3, <2>4, <3>2
  <2> QED
    BY <2>1, <2>2, <2>3, <2>4
<1>5. permits' + Cardinality(Holders') = Concurrency
  BY SMTT(30), <1>3, <1>4 DEF DlInv
<1>6. DlTyped'
  BY <1>1 DEF DlInv, DlTyped
<1> QED
  BY <1>2, <1>5, <1>6 DEF DlInv, BodyAgrees, RangeAgrees

\* A request is over, however it ends: its permit goes back, and a response
\* that ends well has nothing left to send.
LEMMA RespondStep ==
    ASSUME DlInv, NEW g \in Getters, NEW how \in {"503", "500", "ok", "error"}, Respond(g, how),
           how = "ok" => dl[g].at = "body" /\ dl[g].remaining = 0
    PROVE  DlInv'
<1>u. PICK u : u = [[dl[g] EXCEPT !.at = how] EXCEPT !.held = FALSE]
  OBVIOUS
<1>1. dl' = [dl EXCEPT ![g] = u] /\ permits' = GiveBack(g) /\ UNCHANGED <<filelen, rewrites>>
  BY <1>u DEF Respond
<1>2. dl[g] \in Requests /\ how \in Answered \cup {"idle", "waits", "opens", "body"} /\ permits \in Nat
  BY DEF DlInv, DlTyped, Answered
<1>3. /\ u \in Requests /\ u.at = how /\ u.held = FALSE /\ u.sent = dl[g].sent
      /\ u.asked = dl[g].asked /\ u.size = dl[g].size
  BY <1>u, <1>2 DEF Requests
<1>4. BodyAgrees(u)
  <2>1. CASE how = "ok"
    <3>1. /\ dl[g].pos + dl[g].remaining = dl[g].range.end + 1 /\ RangeAgrees(dl[g])
          /\ dl[g].sent = dl[g].range.start..(dl[g].pos - 1) /\ dl[g].remaining = 0
      BY <2>1 DEF DlInv, BodyAgrees
    <3>2. dl[g].pos \in Nat /\ dl[g].range \in Intervals
      BY <1>2 DEF Requests
    <3>3. dl[g].range.end \in Int
      BY <3>2 DEF Intervals
    <3>4. dl[g].pos - 1 = dl[g].range.end
      BY SMTT(30), <3>1, <3>2, <3>3
    <3>5. u.sent = Selected(u.asked, u.size)
      BY <3>1, <3>4, <1>3 DEF RangeAgrees
    <3> QED
      BY <3>5, <1>3, <2>1 DEF BodyAgrees
  <2>2. CASE how # "ok"
    BY <2>2, <1>3 DEF BodyAgrees
  <2> QED
    BY <2>1, <2>2
<1>5. permits' \in Nat /\ permits' = permits + (IF dl[g].held THEN 1 ELSE 0) - (IF u.held THEN 1 ELSE 0)
  BY SMTT(30), <1>1, <1>2, <1>3 DEF GiveBack
<1>6. u.held <=> u.at \in {"opens", "body"}
  BY <1>3
<1> QED
  BY <1>1, <1>3, <1>4, <1>5, <1>6, OneRequest

\* The headers: the size, the range, the answers that need no permit.
LEMMA FileStep ==
    ASSUME DlInv, NEW g \in Getters, NEW wanted \in Headers, NEW ranged \in BOOLEAN, NEW memory \in BOOLEAN,
           NEW head \in BOOLEAN, ServeFile(g, wanted, ranged, memory, head), ~ranged => wanted = NoRange
    PROVE  DlInv'
<1>r. PICK r : r = IF ranged THEN parse_range(wanted, filelen) ELSE [start |-> 0, end |-> filelen - 1]
  OBVIOUS
<1>p. PICK p : p = IF ranged /\ r = Unsatisfiable THEN "416" ELSE IF head THEN "head" ELSE "waits"
  OBVIOUS
<1>u. PICK u : u = [NoRequest EXCEPT !.at = p, !.memory = memory, !.asked = wanted, !.size = filelen, !.range = r]
  OBVIOUS
<1>1. /\ dl[g].at = "idle" /\ dl' = [dl EXCEPT ![g] = u] /\ UNCHANGED <<filelen, rewrites, permits>>
  <2>1. wanted = IF ranged THEN wanted ELSE NoRange
    OBVIOUS
  <2> QED
    BY <2>1, <1>r, <1>p, <1>u DEF ServeFile
<1>2. filelen \in Nat /\ permits \in Nat
  BY DownloadsAssumption DEF DlInv, DlTyped
<1>3. wanted \in Intervals
  <2>1. RangeBound \subseteq Int
    BY SMTT(30), DownloadsAssumption DEF RangeBound, NoBound
  <2> QED
    BY <2>1 DEF Headers, Intervals
<1>4. r \in Intervals /\ (ranged /\ r = Unsatisfiable => Selected(wanted, filelen) = {} \/ wanted = NoRange)
  <2>1. CASE ranged
    <3>1. Unsatisfiable \in Intervals
      BY SMTT(30) DEF Unsatisfiable, NoBound, Intervals
    <3>2. r = parse_range(wanted, filelen)
      BY <2>1, <1>r
    <3> QED
      BY <3>1, <3>2, <1>2, RangeMeaning
  <2>2. CASE ~ranged
    BY SMTT(30), <2>2, <1>2, <1>r DEF Intervals
  <2> QED
    BY <2>1, <2>2
<1>5. p # "416" => r.start \in Nat /\ r.start <= r.end + 1 /\ r.start..r.end = Selected(wanted, filelen)
  <2>1. CASE ranged
    <3>1. p # "416" => /\ r \in Intervals /\ r.start \in Nat /\ r.start <= r.end
                       /\ r.start..r.end = Selected(wanted, filelen)
      BY <2>1, <1>r, <1>p, <1>2, RangeMeaning
    <3>2. r.start \in Int /\ r.end \in Int
      BY <1>4 DEF Intervals
    <3>3. r.start <= r.end => r.start <= r.end + 1
      BY SMTT(30), <3>2
    <3> QED
      BY <3>1, <3>3
  <2>2. CASE ~ranged
    <3>1. r.start = 0 /\ r.end = filelen - 1
      BY <2>2, <1>r
    <3>2. Selected(NoRange, filelen) = 0..(filelen - 1)
      BY SMTT(30), <1>2 DEF Selected, NoRange, NoBound
    <3>3. 0 \in Nat /\ 0 <= filelen - 1 + 1
      BY SMTT(30), <1>2
    <3> QED
      BY <3>1, <3>2, <3>3, <2>2
  <2> QED
    BY <2>1, <2>2
<1>6. p \in {"416", "head", "waits"} /\ p \in Answered \cup {"idle", "waits", "opens", "body"}
  BY <1>p DEF Answered
<1>7. /\ u \in Requests /\ u.at = p /\ u.held = FALSE /\ u.sent = {} /\ u.asked = wanted /\ u.size = filelen
      /\ u.range = r
  <2>1. u = [at |-> p, memory |-> memory, asked |-> wanted, size |-> filelen, range |-> r,
             pos |-> 0, remaining |-> 0, sent |-> {}, held |-> FALSE]
    BY <1>u DEF NoRequest
  <2>2. 0 \in Nat /\ {} \in SUBSET Nat /\ FALSE \in BOOLEAN
    BY SMTT(30)
  <2> QED
    BY <2>1, <2>2, <1>2, <1>3, <1>4, <1>6 DEF Requests
<1>8. BodyAgrees(u)
  BY <1>4, <1>5, <1>6, <1>7, <1>p DEF BodyAgrees, RangeAgrees
<1>9. permits' \in Nat /\ permits' = permits + (IF dl[g].held THEN 1 ELSE 0) - (IF u.held THEN 1 ELSE 0)
  <2>1. ~dl[g].held
    BY <1>1 DEF DlInv
  <2> QED
    BY SMTT(30), <2>1, <1>1, <1>2, <1>7
<1>10. u.held <=> u.at \in {"opens", "body"}
  BY <1>6, <1>7
<1> QED
  BY <1>1, <1>7, <1>8, <1>9, <1>10, OneRequest

\* Counting positions: before the first read of a range, and after a read.
LEMMA BeforeReads ==
    ASSUME NEW a \in Nat, NEW e \in Int, a <= e + 1
    PROVE  e - a + 1 \in Nat /\ a <= a /\ a + (e - a + 1) = e + 1 /\ {} = a..(a - 1)
  BY SMTT(30)

\* A read of a chunk.
LEMMA AfterRead ==
    ASSUME NEW a \in Nat, NEW e \in Int, NEW p \in Nat, NEW k \in Nat, NEW n \in Nat,
           n <= k, a <= p, p + k = e + 1
    PROVE  /\ p + n \in Nat /\ k - n \in Nat /\ a <= p + n /\ (p + n) + (k - n) = e + 1
           /\ (a..(p - 1)) \cup (p..(p + n - 1)) = a..(p + n - 1)
           /\ a..(p + n - 1) \in SUBSET Nat
<1>1. p + n \in Nat /\ k - n \in Nat /\ a <= p + n /\ (p + n) + (k - n) = e + 1
  BY SMTT(30)
<1>2. (a..(p - 1)) \cup (p..(p + n - 1)) = a..(p + n - 1)
  BY SMTT(30)
<1>3. a..(p + n - 1) \in SUBSET Nat
  BY SMTT(30)
<1> QED
  BY <1>1, <1>2, <1>3

\* The permit is taken and the reader put at the start of the range.
LEMMA AcquireStep ==
    ASSUME DlInv, NEW g \in Getters, acquire_download(g)
    PROVE  DlInv'
<1>p. PICK p : p = IF dl[g].memory THEN "body" ELSE "opens"
  OBVIOUS
<1>n. PICK n : n = RangeLen(dl[g].range)
  OBVIOUS
<1>s. PICK s : s = dl[g].range.start
  OBVIOUS
<1>u. PICK u : u = [[[[dl[g] EXCEPT !.at = p] EXCEPT !.held = TRUE] EXCEPT !.pos = s] EXCEPT !.remaining = n]
  OBVIOUS
<1>1. /\ dl[g].at = "waits" /\ permits > 0 /\ permits' = permits - 1
      /\ dl' = [dl EXCEPT ![g] = u] /\ UNCHANGED <<filelen, rewrites>>
  BY <1>p, <1>n, <1>s, <1>u DEF acquire_download
<1>2. dl[g] \in Requests /\ dl[g].range \in Intervals /\ permits \in Nat
  BY DEF DlInv, DlTyped, Requests
<1>3. RangeAgrees(dl[g]) /\ dl[g].sent = {} /\ ~dl[g].held
  BY <1>1 DEF DlInv, BodyAgrees
<1>4. s \in Nat /\ dl[g].range.end \in Int
  BY <1>2, <1>3, <1>s DEF Intervals, RangeAgrees
<1>5. n \in Nat /\ s <= s /\ s + n = dl[g].range.end + 1 /\ {} = s..(s - 1)
  BY <1>3, <1>4, <1>n, <1>s, BeforeReads DEF RangeAgrees, RangeLen
<1>6. p \in {"body", "opens"} /\ p \in Answered \cup {"idle", "waits", "opens", "body"}
  BY <1>p
<1>7. /\ u \in Requests /\ u.at = p /\ u.held = TRUE /\ u.pos = s /\ u.remaining = n /\ u.sent = dl[g].sent
      /\ u.range = dl[g].range /\ u.asked = dl[g].asked /\ u.size = dl[g].size
  BY <1>u, <1>2, <1>4, <1>5, <1>6 DEF Requests
<1>8. BodyAgrees(u)
  BY <1>3, <1>5, <1>6, <1>7, <1>s DEF BodyAgrees, RangeAgrees
<1>9. permits' \in Nat /\ permits' = permits + (IF dl[g].held THEN 1 ELSE 0) - (IF u.held THEN 1 ELSE 0)
  BY SMTT(30), <1>1, <1>2, <1>3, <1>7
<1>10. u.held <=> u.at \in {"opens", "body"}
  BY <1>6, <1>7
<1> QED
  BY <1>1, <1>7, <1>8, <1>9, <1>10, OneRequest

\* The file is open and the offset set.
LEMMA OpenStep ==
    ASSUME DlInv, NEW g \in Getters, OpenFile(g)
    PROVE  DlInv'
<1>u. PICK u : u = [dl[g] EXCEPT !.at = "body"]
  OBVIOUS
<1>1. dl[g].at = "opens" /\ dl' = [dl EXCEPT ![g] = u] /\ UNCHANGED <<filelen, rewrites, permits>>
  BY <1>u DEF OpenFile
<1>2. dl[g] \in Requests /\ permits \in Nat /\ "body" \in Answered \cup {"idle", "waits", "opens", "body"}
  BY DEF DlInv, DlTyped
<1>3. /\ u \in Requests /\ u.at = "body" /\ u.held = dl[g].held /\ u.pos = dl[g].pos
      /\ u.remaining = dl[g].remaining /\ u.sent = dl[g].sent
      /\ u.range = dl[g].range /\ u.asked = dl[g].asked /\ u.size = dl[g].size
  BY <1>u, <1>2 DEF Requests
<1>4. BodyAgrees(u)
  <2>1. /\ RangeAgrees(dl[g]) /\ dl[g].range.start <= dl[g].pos
        /\ dl[g].pos + dl[g].remaining = dl[g].range.end + 1 /\ dl[g].sent = dl[g].range.start..(dl[g].pos - 1)
    BY <1>1 DEF DlInv, BodyAgrees
  <2>2. RangeAgrees(u)
    BY <1>3, <2>1 DEF RangeAgrees
  <2> QED
    BY <1>3, <2>1, <2>2 DEF BodyAgrees
<1>5. u.held <=> u.at \in {"opens", "body"}
  BY <1>1, <1>3 DEF DlInv
<1>6. permits' \in Nat /\ permits' = permits + (IF dl[g].held THEN 1 ELSE 0) - (IF u.held THEN 1 ELSE 0)
  BY SMTT(30), <1>1, <1>2, <1>3
<1> QED
  BY <1>1, <1>3, <1>4, <1>5, <1>6, OneRequest

\* One poll of the body sends what follows the offset, never past the range.
LEMMA ChunkStep ==
    ASSUME DlInv, NEW g \in Getters, BodyChunk(g)
    PROVE  DlInv'
<1>1. /\ dl[g].at = "body" /\ dl[g].remaining > 0 /\ UNCHANGED <<filelen, rewrites, permits>>
  BY DEF BodyChunk
<1>2. PICK n \in ReadSome(g) :
         dl' = [dl EXCEPT ![g].sent = @ \cup dl[g].pos..(dl[g].pos + n - 1),
                          ![g].pos = @ + n, ![g].remaining = @ - n]
  BY DEF BodyChunk
<1>3. /\ dl[g] \in Requests /\ dl[g].range \in Intervals /\ permits \in Nat /\ dl[g].pos \in Nat
      /\ dl[g].remaining \in Nat /\ dl[g].sent \in SUBSET Nat
  BY DEF DlInv, DlTyped, Requests
<1>4. filelen \in Nat /\ ChunkSize \in Nat
  BY DownloadsAssumption DEF DlInv, DlTyped
<1>5. n \in Nat /\ n <= dl[g].remaining
  <2>1. CASE dl[g].memory
    BY SMTT(30), <2>1, <1>3 DEF ReadSome
  <2>2. CASE ~dl[g].memory
    BY SMTT(30), <2>2, <1>3, <1>4 DEF ReadSome, Smaller
  <2> QED
    BY <2>1, <2>2
<1>6. /\ RangeAgrees(dl[g]) /\ dl[g].range.start <= dl[g].pos
      /\ dl[g].pos + dl[g].remaining = dl[g].range.end + 1 /\ dl[g].sent = dl[g].range.start..(dl[g].pos - 1)
      /\ dl[g].held
  BY <1>1 DEF DlInv, BodyAgrees
<1>7. dl[g].range.start \in Nat /\ dl[g].range.end \in Int
  BY <1>3, <1>6 DEF Intervals, RangeAgrees
<1>s. PICK s : s = dl[g].sent \cup dl[g].pos..(dl[g].pos + n - 1)
  OBVIOUS
<1>q. PICK q : q = dl[g].pos + n
  OBVIOUS
<1>m. PICK m : m = dl[g].remaining - n
  OBVIOUS
<1>u. PICK u : u = [[[dl[g] EXCEPT !.sent = s] EXCEPT !.pos = q] EXCEPT !.remaining = m]
  OBVIOUS
<1>8. dl' = [dl EXCEPT ![g] = u]
  BY <1>2, <1>s, <1>q, <1>m, <1>u
<1>a. PICK a, e, p, k : a = dl[g].range.start /\ e = dl[g].range.end /\ p = dl[g].pos /\ k = dl[g].remaining
  OBVIOUS
<1>b. /\ a \in Nat /\ e \in Int /\ p \in Nat /\ k \in Nat /\ n \in Nat
      /\ n <= k /\ a <= p /\ p + k = e + 1
  BY <1>3, <1>5, <1>6, <1>7, <1>a
<1>c. /\ p + n \in Nat /\ k - n \in Nat /\ a <= p + n /\ (p + n) + (k - n) = e + 1
      /\ (a..(p - 1)) \cup (p..(p + n - 1)) = a..(p + n - 1)
      /\ a..(p + n - 1) \in SUBSET Nat
  BY SMTT(30), <1>b, AfterRead
<1>9. q \in Nat /\ m \in Nat /\ dl[g].range.start <= q /\ q + m = dl[g].range.end + 1
  BY <1>a, <1>c, <1>q, <1>m
<1>10. s = dl[g].range.start..(q - 1) /\ s \in SUBSET Nat
  <2>1. dl[g].sent = a..(p - 1) /\ s = dl[g].sent \cup p..(p + n - 1)
    BY <1>6, <1>a, <1>s
  <2>2. s = a..(p + n - 1)
    BY <2>1, <1>c
  <2>3. q = p + n /\ dl[g].range.start = a
    BY <1>a, <1>q
  <2>4. s = dl[g].range.start..(q - 1)
    <3>1. p + n - 1 = q - 1
      BY SMTT(30), <2>3, <1>b
    <3> QED
      BY <3>1, <2>2, <2>3
  <2>5. s \in SUBSET Nat
    BY <2>2, <1>c
  <2> QED
    BY <2>4, <2>5
<1>11. /\ u \in Requests /\ u.at = dl[g].at /\ u.held = dl[g].held /\ u.pos = q /\ u.remaining = m /\ u.sent = s
       /\ u.range = dl[g].range /\ u.asked = dl[g].asked /\ u.size = dl[g].size
  BY <1>u, <1>3, <1>9, <1>10 DEF Requests
<1>12. BodyAgrees(u)
  BY <1>1, <1>6, <1>9, <1>10, <1>11 DEF BodyAgrees, RangeAgrees
<1>13. u.held <=> u.at \in {"opens", "body"}
  BY <1>1, <1>6, <1>11
<1>14. permits' \in Nat /\ permits' = permits + (IF dl[g].held THEN 1 ELSE 0) - (IF u.held THEN 1 ELSE 0)
  BY SMTT(30), <1>1, <1>3, <1>11
<1> QED
  BY <1>1, <1>8, <1>11, <1>12, <1>13, <1>14, OneRequest

\* The deployment changes the file and no request.
LEMMA RewriteStep ==
    ASSUME DlInv, Rewrite \/ UNCHANGED dlVars
    PROVE  DlInv'
<1>1. UNCHANGED <<permits, dl>> /\ filelen' \in FileSizes
  BY DEF Rewrite, dlVars, DlInv, DlTyped
<1>2. rewrites' \in 0..MaxRewrites
  BY SMTT(30), DownloadsAssumption DEF Rewrite, dlVars, DlInv, DlTyped
<1> QED
  BY <1>1, <1>2 DEF DlInv, DlTyped, BodyAgrees, RangeAgrees, Holders

\* Every step preserves the inductive invariant.
LEMMA DlStep == DlInv /\ [DlNext]_dlVars => DlInv'
<1> SUFFICES ASSUME DlInv, [DlNext]_dlVars PROVE DlInv'
  OBVIOUS
<1>1. CASE Rewrite \/ UNCHANGED dlVars
  BY <1>1, RewriteStep
<1>2. ASSUME NEW g \in Getters, Gets(g) PROVE DlInv'
  <2>0. NoRange \in Headers /\ TRUE \in BOOLEAN /\ FALSE \in BOOLEAN
    BY DEF NoRange, Headers, RangeBound
  <2>1. CASE \E memory, head \in BOOLEAN : ServeFile(g, NoRange, FALSE, memory, head)
    BY <2>0, <2>1, FileStep
  <2>2. ASSUME NEW s \in RangeBound, NEW e \in RangeBound, NEW memory \in BOOLEAN, NEW head \in BOOLEAN,
               ServeFile(g, [start |-> s, end |-> e], TRUE, memory, head)
        PROVE  DlInv'
    <3>1. [start |-> s, end |-> e] \in Headers
      BY DEF Headers
    <3> QED
      BY <2>0, <2>2, <3>1, FileStep
  <2> QED
    BY <1>2, <2>1, <2>2 DEF Gets
<1>3. ASSUME NEW g \in Getters, DlProgress(g) PROVE DlInv'
  <2>1. CASE AcquireTimeout(g)
    BY <2>1, RespondStep DEF AcquireTimeout
  <2>2. CASE OpenFileFails(g)
    BY <2>2, RespondStep DEF OpenFileFails
  <2>3. CASE BodyTimeout(g) \/ BodyFails(g)
    BY <2>3, RespondStep DEF BodyTimeout, BodyFails
  <2>4. CASE BodyEnds(g)
    BY <2>4, RespondStep DEF BodyEnds
  <2> QED
    BY <1>3, <2>1, <2>2, <2>3, <2>4, AcquireStep, OpenStep, ChunkStep DEF DlProgress, Timed
<1> QED
  BY <1>1, <1>2, <1>3 DEF DlNext

\* DownloadsHonest, for any number of requests, files, headers and permits: a
\* permit is held by exactly the bodies under way, and a body that ends well is
\* what its header selects in the file as it was (serve_disk, disk_body).
THEOREM DownloadsAlwaysHonest == DlSpec => []DownloadsHonest
  BY DlHonest, DlStart, DlStep, PTL DEF DlSpec
=============================================================================
