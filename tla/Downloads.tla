----------------------------- MODULE Downloads ------------------------------
(***************************************************************************)
(* GET and HEAD of one file under /files (baston-gateway http/files.rs):   *)
(* a Range header is resolved against the size read first, a permit of the *)
(* shared semaphore is held until the body ends, and the file on disk may  *)
(* change meanwhile.  A byte is its position in the file.                  *)
(***************************************************************************)
EXTENDS Integers, FiniteSets

CONSTANTS Getters,          \* requests
          FileSizes,        \* lengths the file may have
          RangeBounds,           \* numbers a Range header may name
          Concurrency,      \* file_download_concurrency
          ChunkSize,        \* file_download_chunk_bytes
          MaxRewrites       \* times the file changes on disk

ASSUME DownloadsAssumption ==
    /\ IsFiniteSet(Getters) /\ FileSizes \subseteq Nat /\ RangeBounds \subseteq Nat
    /\ Concurrency \in Nat /\ ChunkSize \in Nat \ {0} /\ MaxRewrites \in Nat

VARIABLES
    filelen,    \* the length of the file on disk
    rewrites,
    permits,    \* semaphore permits left
    dl          \* per request: see NoRequest

NoBound == -1
RangeBound == RangeBounds \cup {NoBound}
NoRange == [start |-> NoBound, end |-> NoBound]
dlVars == <<filelen, rewrites, permits, dl>>

\* `pos' is the reader's offset, `sent' the bytes handed to the peer.
NoRequest == [at |-> "idle", memory |-> FALSE, asked |-> NoRange, size |-> 0, range |-> NoRange,
         pos |-> 0, remaining |-> 0, sent |-> {}, held |-> FALSE]

DlInit ==
    /\ filelen \in FileSizes /\ rewrites = 0 /\ permits = Concurrency
    /\ dl = [g \in Getters |-> NoRequest]

----------------------------------------------------------------------------
(* The Range header.  NoBound is an empty side of the dash.                 *)

Unsatisfiable == [start |-> 0, end |-> NoBound]
Smaller(a, b) == IF a < b THEN a ELSE b

\* ByteRange::len.
RangeLenShort(r) == r.end - r.start
RangeLen(r) == r.end - r.start + 1

\* The header is known to be present and to have a dash.
parse_range(r, size) ==
    CASE size = 0 -> Unsatisfiable
      [] size > 0 /\ r.start # NoBound /\ r.end # NoBound ->
            IF r.start > r.end \/ r.start >= size THEN Unsatisfiable
            ELSE [start |-> r.start, end |-> Smaller(r.end, size - 1)]
      [] size > 0 /\ r.start # NoBound /\ r.end = NoBound ->
            IF r.start >= size THEN Unsatisfiable ELSE [start |-> r.start, end |-> size - 1]
      [] size > 0 /\ r.start = NoBound /\ r.end # NoBound ->
            IF r.end = 0 THEN Unsatisfiable
            ELSE [start |-> size - Smaller(r.end, size), end |-> size - 1]
      [] OTHER -> Unsatisfiable

----------------------------------------------------------------------------

GiveBack(g) == IF dl[g].held THEN permits + 1 ELSE permits
\* The request is over: whatever holds its permit is dropped.
RespondKeeps(g, how) ==
    /\ dl' = [dl EXCEPT ![g].at = how, ![g].held = FALSE]
    /\ permits' = IF how = "ok" THEN GiveBack(g) ELSE permits
    /\ UNCHANGED <<filelen, rewrites>>
Respond(g, how) ==
    /\ dl' = [dl EXCEPT ![g].at = how, ![g].held = FALSE]
    /\ permits' = GiveBack(g)
    /\ UNCHANGED <<filelen, rewrites>>

\* serve_memory (a packfile: its bytes are behind an Arc, a rewrite of the
\* file does not reach them) and serve_disk up to the permit: the size, the
\* range, the 416, and the HEAD that needs no permit.
ServeFile(g, asked, ranged, memory, head) ==
    LET r == IF ranged THEN parse_range(asked, filelen) ELSE [start |-> 0, end |-> filelen - 1] IN
    /\ dl[g].at = "idle"
    /\ dl' = [dl EXCEPT ![g] =
            [NoRequest EXCEPT !.at = IF ranged /\ r = Unsatisfiable THEN "416" ELSE IF head THEN "head" ELSE "waits",
                         !.memory = memory, !.asked = IF ranged THEN asked ELSE NoRange,
                         !.size = filelen, !.range = r]]
    /\ UNCHANGED <<filelen, rewrites, permits>>

acquire_download(g) ==
    /\ dl[g].at = "waits" /\ permits > 0
    /\ permits' = permits - 1
    /\ dl' = [dl EXCEPT ![g].at = IF dl[g].memory THEN "body" ELSE "opens", ![g].held = TRUE,
                        ![g].pos = dl[g].range.start, ![g].remaining = RangeLen(dl[g].range)]
    /\ UNCHANGED <<filelen, rewrites>>

\* The timeout of the acquisition: 503.
AcquireTimeout(g) == dl[g].at = "waits" /\ permits = 0 /\ Respond(g, "503")

\* File::open and seek, or their failure or timeout (500, 408).
OpenFile(g) ==
    /\ dl[g].at = "opens"
    /\ dl' = [dl EXCEPT ![g].at = "body"]
    /\ UNCHANGED <<filelen, rewrites, permits>>
OpenFileFails(g) == dl[g].at = "opens" /\ Respond(g, "500")

\* What one read may return: at most the chunk, and what the file still has.
ReadFullChunk(g) == {ChunkSize}
ReadSome(g) ==
    LET most == Smaller(dl[g].remaining, ChunkSize) IN
    IF dl[g].memory THEN {dl[g].remaining} ELSE 1..Smaller(most, filelen - dl[g].pos)

\* One poll of the body: a chunk of disk_body, the whole slice of serve_memory.
BodyChunk(g) ==
    /\ dl[g].at = "body" /\ dl[g].remaining > 0
    /\ \E n \in ReadSome(g) :
        dl' = [dl EXCEPT ![g].sent = @ \cup dl[g].pos..(dl[g].pos + n - 1),
                         ![g].pos = @ + n, ![g].remaining = @ - n]
    /\ UNCHANGED <<filelen, rewrites, permits>>

BodyEnds(g) == dl[g].at = "body" /\ dl[g].remaining = 0 /\ Respond(g, "ok")

\* disk_body reads nothing ("resource changed during download"), or too late.
BodyFails(g) ==
    /\ dl[g].at = "body" /\ dl[g].remaining > 0 /\ ~dl[g].memory
    /\ Respond(g, "error")

\* The peer stops reading or hangs up: ResponseBodyTimeoutLayer drops the body.
TimeoutOfReads(g) == dl[g].at = "body" /\ ~dl[g].memory /\ Respond(g, "error")
BodyTimeout(g) == dl[g].at = "body" /\ Respond(g, "error")

\* A deployment rewrites the file.
Rewrite ==
    /\ rewrites < MaxRewrites /\ rewrites' = rewrites + 1
    /\ filelen' \in FileSizes \ {filelen}
    /\ UNCHANGED <<permits, dl>>

Answered == {"416", "head", "503", "500", "ok", "error"}
\* A Range header; a request without one has no choice to make.
Gets(g) ==
    \/ \E memory, head \in BOOLEAN : ServeFile(g, NoRange, FALSE, memory, head)
    \/ \E s, e \in RangeBound, memory, head \in BOOLEAN : ServeFile(g, [start |-> s, end |-> e], TRUE, memory, head)
Timed(g) == acquire_download(g) \/ AcquireTimeout(g) \/ OpenFile(g) \/ OpenFileFails(g) \/ BodyTimeout(g)
DlProgress(g) == Timed(g) \/ BodyChunk(g) \/ BodyEnds(g) \/ BodyFails(g)
DlNext == Rewrite \/ \E g \in Getters : Gets(g) \/ DlProgress(g)

\* Every wait of a request carries a timeout; the peer need not read at all.
DlFairness == \A g \in Getters : WF_dlVars(Timed(g))

DlSpec == DlInit /\ [][DlNext]_dlVars /\ DlFairness

----------------------------------------------------------------------------
Holders == {g \in Getters : dl[g].held}

\* Gets are at a step of the handler; the permits are within the semaphore.
DlTypeOK ==
    /\ filelen \in FileSizes /\ rewrites \in 0..MaxRewrites /\ permits \in 0..Concurrency
    /\ \A g \in Getters :
        /\ dl[g].at \in Answered \cup {"idle", "waits", "opens", "body"}
        /\ dl[g].pos >= 0 /\ dl[g].remaining >= 0 /\ dl[g].sent \subseteq Nat

\* A permit is held by exactly the responses that are opening or sending a
\* body, on every error path: none leaks, and none is given back twice.
PermitsAccounted ==
    /\ permits + Cardinality(Holders) = Concurrency
    /\ Holders = {g \in Getters : dl[g].at \in {"opens", "body"}}

\* The positions a header selects in a file of that length, by its meaning:
\* from start to end, from start on, or the last `end' bytes.
Selected(r, size) ==
    {p \in 0..(size - 1) :
        CASE r.start # NoBound /\ r.end # NoBound -> r.start <= p /\ p <= r.end
          [] r.start # NoBound /\ r.end = NoBound -> r.start <= p
          [] r.start = NoBound /\ r.end # NoBound -> size - p <= r.end
          [] OTHER -> TRUE}
\* A response that ends well carried exactly the bytes its header selects in
\* the file as it was when the headers were computed, each of them once and
\* as many as Content-Length says, however the reads were split and although
\* the file may have been rewritten in between; a 416 is sent exactly when
\* the header selects nothing.
BodyIsTheRange ==
    \A g \in Getters :
        /\ dl[g].at = "ok" => dl[g].sent = Selected(dl[g].asked, dl[g].size)
        /\ dl[g].at \in {"waits", "head"} => RangeLen(dl[g].range) = Cardinality(Selected(dl[g].asked, dl[g].size))
        /\ dl[g].at = "416" => Selected(dl[g].asked, dl[g].size) = {} \/ dl[g].asked = NoRange

\* Permits are held exactly by the bodies under way, and a body is the range
\* its headers announced.
DownloadsHonest ==
    /\ DlTypeOK /\ PermitsAccounted /\ BodyIsTheRange

\* Every request ends: a waiting one by the permit or its timeout, a sending
\* one by its last byte, by an error, or by the body timeout when the peer
\* stops reading.
DownloadsEnd == []<>(\A g \in Getters : dl[g].at \in Answered \cup {"idle"})
=============================================================================
