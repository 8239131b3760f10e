------------------------------ MODULE KvpStore ------------------------------
(***************************************************************************)
(* The resource key/value store of baston-scripting (kvp.rs): a shared     *)
(* concurrent map that every resource isolate (a thread of its own) and    *)
(* the periodic sweeper flush to one JSON file through a temporary file    *)
(* and a rename.  Writes are numbered, so that `disk[k] >= n' reads "the   *)
(* file holds write n of key k, or a later one"; a removal is a write too. *)
(* A file handle survives the rename of its file, as on the POSIX systems  *)
(* the server runs on: a thread that opened the temporary file writes into *)
(* whatever that file has become.                                          *)
(***************************************************************************)
EXTENDS Naturals, FiniteSets

CONSTANTS Isolates,        \* isolate threads that call the natives
          Sweeper,         \* the blocking task of spawn_periodic_flush
          KvpKeys,         \* (resource, key) pairs
          Torn, Absent,    \* a half-written file, no file
          MaxKvpWrites, MaxDiskErrors, MaxKvpCrashes

Threads == Isolates \cup {Sweeper}

Images == [KvpKeys -> 0..MaxKvpWrites]

\* A file that is missing or half-written is no snapshot.
ASSUME KvpAssumption ==
    /\ MaxKvpWrites \in Nat
    /\ Torn \notin Images /\ Absent \notin Images

VARIABLES entries,         \* KvpStore.entries
          kvpDirty,        \* KvpStore.dirty
          disk, tmp,       \* what the two files hold
          thread,          \* per thread: where it is in mark_dirty / flush
          handle,          \* per thread: the file its open handle refers to
          writes, diskErrors, kvpCrashes,
          acked,           \* newest write-through call that has returned, per key
          overlapped       \* two flushes have run at the same time

kvpVars == <<entries, kvpDirty, disk, tmp, thread, handle, writes, diskErrors,
             kvpCrashes, acked, overlapped>>

Idle == [pc |-> "idle"]
Snap0 == [k \in KvpKeys |-> 0]

KvpInit ==
    /\ entries = Snap0 /\ kvpDirty = FALSE
    /\ disk = Snap0 /\ tmp = Absent
    /\ thread = [t \in Threads |-> Idle]
    /\ handle = [t \in Threads |-> "closed"]
    /\ writes = 0 /\ diskErrors = 0 /\ kvpCrashes = 0
    /\ acked = Snap0 /\ overlapped = FALSE

Flushing(t) == thread[t].pc \in {"flush", "snap", "open", "fill", "rename"}

\* Enter flush(); two threads inside at once is what `overlapped' records.
Enter(t, call) ==
    /\ thread' = [thread EXCEPT ![t] = call]
    /\ overlapped' = (overlapped \/ \E u \in Threads \ {t} : Flushing(u))

\* The call returns; a write-through that met no error is acknowledged.
Return(t, ok) ==
    /\ thread' = [thread EXCEPT ![t] = Idle]
    /\ acked' = IF ok /\ thread[t].key \in KvpKeys
                THEN [acked EXCEPT ![thread[t].key] = thread[t].n] ELSE acked

\* set / remove: the map changes first, the dirty mark follows.
Put(t, k, sync) ==
    /\ t \in Isolates /\ thread[t].pc = "idle" /\ writes < MaxKvpWrites
    /\ writes' = writes + 1
    /\ entries' = [entries EXCEPT ![k] = writes + 1]
    /\ thread' = [thread EXCEPT ![t] =
                    [pc |-> "mark", key |-> k, n |-> writes + 1, sync |-> sync]]
    /\ UNCHANGED <<kvpDirty, disk, tmp, handle, diskErrors, kvpCrashes, acked, overlapped>>

\* A slip: a write-through flushes instead of marking.
MarkedLazily(sync) == kvpDirty \/ ~sync

\* dirty.store(true), whether a flush follows at once or not.
Marked(sync) == TRUE

\* mark_dirty(sync).
MarkDirty(t) ==
    /\ thread[t].pc = "mark"
    /\ kvpDirty' = Marked(thread[t].sync)
    /\ IF thread[t].sync
       THEN Enter(t, [pc |-> "flush", key |-> thread[t].key, n |-> thread[t].n])
       ELSE thread' = [thread EXCEPT ![t] = Idle] /\ UNCHANGED overlapped
    /\ UNCHANGED <<entries, disk, tmp, handle, writes, diskErrors, kvpCrashes, acked>>

\* A slip: only scripts flush.
CallFlushScripts(t) ==
    /\ t \in Isolates /\ thread[t].pc = "idle"
    /\ Enter(t, [pc |-> "flush", key |-> "none", n |-> 0])
    /\ UNCHANGED <<entries, kvpDirty, disk, tmp, handle, writes, diskErrors, kvpCrashes, acked>>

\* FlushResourceKvp from a script, or a tick of the sweeper.
CallFlush(t) ==
    /\ thread[t].pc = "idle"
    /\ Enter(t, [pc |-> "flush", key |-> "none", n |-> 0])
    /\ UNCHANGED <<entries, kvpDirty, disk, tmp, handle, writes, diskErrors, kvpCrashes, acked>>

\* flush() past its early return: nothing pending, or on to the snapshot.
Proceed(t) ==
    /\ thread[t].pc = "flush"
    /\ IF ~kvpDirty THEN Return(t, TRUE)
       ELSE /\ thread' = [thread EXCEPT ![t] =
                 [pc |-> "snap", key |-> @.key, n |-> @.n, image |-> Snap0, left |-> KvpKeys]]
            /\ UNCHANGED acked
    /\ UNCHANGED <<entries, disk, tmp, handle, writes, diskErrors, kvpCrashes, overlapped>>

\* dirty.swap(false) comes before the snapshot is taken.
SwapDirty(t) == Proceed(t) /\ kvpDirty' = FALSE

\* write_to copies the concurrent map entry by entry.
CopyEntry(t) ==
    /\ thread[t].pc = "snap"
    /\ \E k \in thread[t].left :
         LET left == thread[t].left \ {k} IN
         thread' = [thread EXCEPT ![t].image[k] = entries[k], ![t].left = left,
                                  ![t].pc = IF left = {} THEN "open" ELSE "snap"]
    /\ UNCHANGED <<entries, kvpDirty, disk, tmp, handle, writes, diskErrors, kvpCrashes,
                   acked, overlapped>>

\* A slip: the snapshot is written over the file itself.
OpenInPlace(t) ==
    /\ thread[t].pc = "open"
    /\ disk' = Torn /\ tmp' = tmp
    /\ handle' = [handle EXCEPT ![t] = "disk"]
    /\ thread' = [thread EXCEPT ![t].pc = "fill"]
    /\ UNCHANGED <<entries, kvpDirty, writes, diskErrors, kvpCrashes, acked, overlapped>>

\* std::fs::write opens and truncates the temporary file ...
OpenTmp(t) ==
    /\ thread[t].pc = "open"
    /\ tmp' = Torn /\ disk' = disk
    /\ handle' = [handle EXCEPT ![t] = "tmp"]
    /\ thread' = [thread EXCEPT ![t].pc = "fill"]
    /\ UNCHANGED <<entries, kvpDirty, writes, diskErrors, kvpCrashes, acked, overlapped>>

\* ... and fills the file its handle refers to.  Two threads writing one file
\* leave the bytes of this one, or a mixture.
FillTmp(t) ==
    /\ thread[t].pc = "fill"
    /\ LET shared == \E u \in Threads \ {t} : handle[u] = handle[t] IN
       \E image \in {thread[t].image} \cup (IF shared THEN {Torn} ELSE {}) :
         /\ tmp' = IF handle[t] = "tmp" THEN image ELSE tmp
         /\ disk' = IF handle[t] = "disk" THEN image ELSE disk
    /\ thread' = [thread EXCEPT ![t].pc = "rename"]
    /\ UNCHANGED <<entries, kvpDirty, handle, writes, diskErrors, kvpCrashes, acked, overlapped>>

\* The handles of the other threads follow the file that is moved.
Renamed(t) ==
    [u \in Threads |-> CASE u = t -> "closed"
                         [] u # t /\ handle[u] = "tmp" -> "disk"
                         [] u # t /\ handle[u] = "disk" -> "gone"
                         [] OTHER -> handle[u]]

\* The rename.  It fails when another thread has moved the file already, and
\* the store is dirty again.
Rename(t) ==
    /\ thread[t].pc = "rename"
    /\ Return(t, tmp # Absent)
    /\ IF tmp = Absent
       THEN /\ kvpDirty' = TRUE /\ handle' = [handle EXCEPT ![t] = "closed"]
            /\ UNCHANGED <<disk, tmp>>
       ELSE /\ disk' = tmp /\ tmp' = Absent /\ handle' = Renamed(t)
            /\ UNCHANGED kvpDirty
    /\ UNCHANGED <<entries, writes, diskErrors, kvpCrashes, overlapped>>

\* A slip: the error path forgets to mark the store again.
DropError(t) ==
    /\ thread[t].pc \in {"open", "fill", "rename"} /\ diskErrors < MaxDiskErrors
    /\ diskErrors' = diskErrors + 1
    /\ Return(t, FALSE)
    /\ handle' = [handle EXCEPT ![t] = "closed"]
    /\ UNCHANGED <<entries, kvpDirty, disk, tmp, writes, kvpCrashes, overlapped>>

\* A full disk or an I/O error: logged, the store stays dirty for a retry.
WriteFails(t) ==
    /\ thread[t].pc \in {"open", "fill", "rename"} /\ diskErrors < MaxDiskErrors
    /\ diskErrors' = diskErrors + 1
    /\ Return(t, FALSE)
    /\ handle' = [handle EXCEPT ![t] = "closed"]
    /\ kvpDirty' = TRUE
    /\ UNCHANGED <<entries, disk, tmp, writes, kvpCrashes, overlapped>>

\* A slip: the file is taken as it is.
OpenedAsIs == disk

\* open(): an unreadable file is an empty store.
Opened == IF disk = Torn THEN Snap0 ELSE disk

\* The process dies and comes back: open() loads the file.
CrashAndOpen ==
    /\ kvpCrashes < MaxKvpCrashes
    /\ kvpCrashes' = kvpCrashes + 1
    /\ entries' = Opened
    /\ kvpDirty' = FALSE
    /\ thread' = [t \in Threads |-> Idle]
    /\ handle' = [t \in Threads |-> "closed"]
    /\ UNCHANGED <<disk, tmp, writes, diskErrors, acked, overlapped>>

FlushStep(t) == SwapDirty(t) \/ CopyEntry(t) \/ OpenTmp(t) \/ FillTmp(t) \/ Rename(t)

KvpNext ==
    \/ \E t \in Threads : FlushStep(t) \/ MarkDirty(t) \/ CallFlush(t) \/ WriteFails(t)
    \/ \E t \in Isolates, k \in KvpKeys, sync \in BOOLEAN : Put(t, k, sync)
    \/ CrashAndOpen

\* The sweeper's ticker never stops and a thread inside a call runs on.
KvpFairness ==
    /\ WF_kvpVars(kvpDirty /\ CallFlush(Sweeper))
    /\ \A t \in Threads : WF_kvpVars(FlushStep(t) \/ MarkDirty(t))

KvpSpec == KvpInit /\ [][KvpNext]_kvpVars /\ KvpFairness

Saved(k, n) == disk # Torn /\ disk[k] >= n
Quiet == \A t \in Threads : thread[t].pc = "idle"

\* Where a thread is in mark_dirty and flush, with what it carries.
Phases ==
    {Idle}
    \cup [pc : {"mark"}, key : KvpKeys, n : 0..MaxKvpWrites, sync : BOOLEAN]
    \cup [pc : {"flush"}, key : KvpKeys \cup {"none"}, n : 0..MaxKvpWrites]
    \cup [pc : {"snap", "open", "fill", "rename"}, key : KvpKeys \cup {"none"}, n : 0..MaxKvpWrites,
          image : Images, left : SUBSET KvpKeys]

\* Types: the map always holds whole values, whatever a crash has left in the file
\* (KvpStore::open).
KvpTypeOK ==
    /\ entries \in Images /\ kvpDirty \in BOOLEAN
    /\ disk \in Images \cup {Torn} /\ tmp \in Images \cup {Torn, Absent}
    /\ thread \in [Threads -> Phases]
    /\ handle \in [Threads -> {"closed", "tmp", "disk", "gone"}]
    /\ acked \in Images /\ writes \in 0..MaxKvpWrites

\* kvp.rs on write-through: "A plain SetResourceKvp writes through: it returns
\* once the value is on disk."  Two threads that flush at the same time share
\* the temporary file and the dirty mark, and the promise is lost: an older
\* snapshot can be renamed over a newer one.
WritesThrough == \A k \in KvpKeys : Saved(k, acked[k])

\* While no two flushes have overlapped the promise holds, across disk errors
\* and crashes at any point of a flush.
SoloWritesThrough == overlapped \/ WritesThrough

\* kvp.rs on temp + rename: "an interrupted write leaves the previous snapshot
\* whole".  Wherever the process dies, the file is a snapshot, while flushes
\* have not overlapped.
SnapshotWhole == overlapped \/ disk # Torn

\* kvp.rs on flush: a store that is not dirty, with no call under way, has every
\* entry in the file; a write that lands during a flush marks it again.
CleanMeansSaved == Quiet /\ ~kvpDirty /\ ~overlapped => disk = entries

\* The store keeps what it promises: the file is a whole snapshot after any
\* crash, a lone writer's value is on disk when the call returns, and a clean
\* store has nothing unsaved.
StoreSafe ==
    /\ KvpTypeOK /\ SnapshotWhole /\ SoloWritesThrough /\ CleanMeansSaved

\* kvp.rs on the sweep: "a crash costs at most one sweep interval".  Every write
\* reaches the file, or is lost to a crash, or met overlapping flushes.
SweepSaves == []<>(kvpCrashes > 0 \/ overlapped \/ \A k \in KvpKeys : Saved(k, entries[k]))
=============================================================================
