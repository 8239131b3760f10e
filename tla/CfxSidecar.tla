----------------------------- MODULE CfxSidecar -----------------------------
(***************************************************************************)
(* The FXServer sidecar process and the file-drop channel to it            *)
(* (baston-cfx-platform sidecar.rs and license.rs, the escrow decryptor):  *)
(* callers on several threads share one request file and one response      *)
(* file, a Lua shim inside the child answers, and either side may be slow  *)
(* or die.  The shim is not Rust: it is modelled from server.lua.          *)
(***************************************************************************)
EXTENDS Naturals, FiniteSets

CONSTANTS Oracles,      \* callers of LicenseOracle::query
          Loaders,      \* callers of SidecarDecryptor::decrypt, each for its own script
          NoCaller,
          MaxQueries    \* requests one query makes before its budget is spent

ASSUME SidecarAssumption == NoCaller \notin Oracles \cup Loaders

VARIABLES
    handle,         \* the Arc<Sidecar>: "starting", "ok", "dropping", "gone"
    child,          \* the FXServer process: "booting", "up", "dead"
    validated,      \* the CFX component has accepted the licence key
    ready, request_json, response_json,     \* the files of ipc_dir
    lastId, job, answer,                    \* the shim: what it answered last, works on, will write
    seq, call_lock,
    calls,          \* per caller: where it is, its request id, requests made
    last,           \* LicenseOracle::query's `last', a loader's reply
    cancelled

Callers == Oracles \cup Loaders
processVars == <<child, validated, ready>>
shim == <<lastId, job, answer>>
sideVars == <<handle, processVars, request_json, response_json, shim, seq, call_lock, calls, last, cancelled>>

NoFile == [id |-> 0, op |-> "none", whole |-> FALSE, says |-> "none"]
NoJob == [id |-> 0, op |-> "none"]
Silent == [says |-> "none", op |-> "none"]
OpOf(c) == IF c \in Oracles THEN "license_status" ELSE c
\* Only a query carries the cancellation flag of its start.
Cancelled(c) == c \in Oracles /\ cancelled

\* The directory's name holds the process id and a counter, so it may be that of
\* an earlier gateway that was killed and left its files.
SideInit ==
    /\ handle = "none" /\ child = "none" /\ validated = FALSE
    /\ \/ ready = FALSE /\ request_json = NoJob /\ response_json = NoFile
       \/ /\ ready = TRUE /\ request_json = [id |-> 1, op |-> "license_status"]
          /\ response_json = [id |-> 1, op |-> "license_status", whole |-> TRUE, says |-> "valid"]
    /\ lastId = 0 /\ job = NoJob /\ answer = "none"
    /\ seq = 0 /\ call_lock = NoCaller /\ cancelled = FALSE
    /\ calls = [c \in Callers |-> [at |-> "new", id |-> 0, made |-> 0]]
    /\ last = [c \in Callers |-> Silent]

----------------------------------------------------------------------------
(* The child.                                                               *)

\* The shim announces itself; the component may accept the key at any time.
Ready ==
    /\ child = "booting" /\ child' = "up" /\ ready' = TRUE
    /\ UNCHANGED <<handle, validated, request_json, response_json, shim, seq, call_lock, calls, last, cancelled>>

Validate ==
    /\ child \in {"booting", "up"} /\ ~validated /\ validated' = TRUE
    /\ UNCHANGED <<handle, child, ready, request_json, response_json, shim, seq, call_lock, calls, last, cancelled>>

ChildDies ==
    /\ child \in {"booting", "up"} /\ child' = "dead"
    /\ UNCHANGED <<handle, validated, ready, request_json, response_json, shim, seq, call_lock, calls, last, cancelled>>

\* A poll of the request file: renames are atomic, so it is whole.
ShimReads ==
    /\ child = "up" /\ job = NoJob /\ request_json.id > lastId
    /\ job' = request_json
    /\ UNCHANGED <<handle, processVars, request_json, response_json, lastId, answer, seq, call_lock, calls, last, cancelled>>

\* licenseStatus reads the convar, decrypt reads the file; either may fail.
ShimHandles ==
    /\ child = "up" /\ job # NoJob /\ answer = "none"
    /\ answer' \in {"error", CASE job.op # "license_status" -> "data"
                             [] validated -> "valid"
                             [] OTHER -> "invalid"}
    /\ UNCHANGED <<handle, processVars, request_json, response_json, lastId, job, seq, call_lock, calls, last, cancelled>>

\* SaveResourceFile truncates, then fills.
ShimTruncates ==
    /\ child = "up" /\ answer # "none" /\ ~(response_json.id = job.id /\ ~response_json.whole)
    /\ response_json' = [id |-> job.id, op |-> job.op, whole |-> FALSE, says |-> answer]
    /\ UNCHANGED <<handle, processVars, request_json, shim, seq, call_lock, calls, last, cancelled>>

ShimFills ==
    /\ child = "up" /\ answer # "none" /\ response_json.id = job.id /\ ~response_json.whole
    /\ response_json' = [response_json EXCEPT !.whole = TRUE]
    /\ lastId' = job.id /\ job' = NoJob /\ answer' = "none"
    /\ UNCHANGED <<handle, processVars, request_json, seq, call_lock, calls, last, cancelled>>

----------------------------------------------------------------------------
(* Starting and dropping.                                                   *)

\* Slip: the files of an earlier run are left in place.
LaunchAsIs ==
    /\ handle = "none"
    /\ \/ handle' = "starting" /\ child' = "booting"
       \/ handle' = "gone" /\ child' = "dead"
    /\ UNCHANGED <<validated, ready, request_json, response_json, shim, seq, call_lock, calls, last, cancelled>>

\* reset_ipc, then the process: either there is one or the start has failed.
launch ==
    /\ handle = "none"
    /\ \/ handle' = "starting" /\ child' = "booting"
       \/ handle' = "gone" /\ child' = "dead"
    /\ ready' = FALSE /\ request_json' = NoJob /\ response_json' = NoFile
    /\ UNCHANGED <<validated, shim, seq, call_lock, calls, last, cancelled>>

\* Slip: a child that never reports ready is waited for.
AwaitForever ==
    /\ handle = "starting" /\ (cancelled \/ ready \/ child = "dead")
    /\ handle' = IF ~cancelled /\ ready THEN "ok" ELSE "dropping"
    /\ UNCHANGED <<processVars, request_json, response_json, shim, seq, call_lock, calls, last, cancelled>>

\* await_ready, in the order of its loop: cancelled, ready, exited, too late.
await_ready ==
    /\ handle = "starting"
    /\ handle' = IF ~cancelled /\ ready THEN "ok" ELSE "dropping"
    /\ UNCHANGED <<processVars, request_json, response_json, shim, seq, call_lock, calls, last, cancelled>>

\* Drop for Sidecar: kill and wait, then reset_ipc and remove the shim's
\* directory.
Kill ==
    /\ handle = "dropping" /\ child # "dead" /\ child' = "dead"
    /\ UNCHANGED <<handle, validated, ready, request_json, response_json, shim, seq, call_lock, calls, last, cancelled>>

\* Slip: the files are removed before the child is dead.
ResetFirst ==
    /\ handle = "dropping"
    /\ handle' = "gone" /\ ready' = FALSE /\ request_json' = NoJob /\ response_json' = NoFile
    /\ UNCHANGED <<child, validated, shim, seq, call_lock, calls, last, cancelled>>

reset_ipc ==
    /\ handle = "dropping" /\ child = "dead"
    /\ handle' = "gone" /\ ready' = FALSE /\ request_json' = NoJob /\ response_json' = NoFile
    /\ UNCHANGED <<child, validated, shim, seq, call_lock, calls, last, cancelled>>

\* The last Arc goes when every caller has returned.
DropHandle ==
    /\ handle = "ok" /\ \A c \in Callers : calls[c].at = "done"
    /\ handle' = "dropping"
    /\ UNCHANGED <<processVars, request_json, response_json, shim, seq, call_lock, calls, last, cancelled>>

CancelAll ==
    /\ ~cancelled /\ cancelled' = TRUE
    /\ UNCHANGED <<handle, processVars, request_json, response_json, shim, seq, call_lock, calls, last>>

----------------------------------------------------------------------------
(* A request.                                                               *)

\* Taking the call lock, numbering the request, publishing it (write_atomic).
request(c) ==
    /\ handle = "ok" /\ calls[c].at = "new" /\ call_lock = NoCaller /\ ~Cancelled(c)
    /\ seq' = seq + 1 /\ call_lock' = c
    /\ request_json' = [id |-> seq + 1, op |-> OpOf(c)]
    /\ calls' = [calls EXCEPT ![c] = [at |-> "polling", id |-> seq + 1, made |-> @.made + 1]]
    /\ UNCHANGED <<handle, processVars, response_json, shim, last, cancelled>>

\* query looks at the flag before each request and while it sleeps.
QueryCancelled(c) ==
    /\ handle = "ok" /\ calls[c].at = "new" /\ Cancelled(c)
    /\ calls' = [calls EXCEPT ![c].at = "done"]
    /\ UNCHANGED <<handle, processVars, request_json, response_json, shim, seq, call_lock, last, cancelled>>

\* Slip: any whole response will do.
MatchesAny(c) == response_json.whole

Matches(c) == response_json.whole /\ response_json.id = calls[c].id

\* What a caller does with the end of its request: a loader returns, an oracle
\* returns on a verdict that settles it or when it is cancelled, and otherwise
\* asks again while it has budget.
After(c, says) ==
    IF \/ c \in Loaders \/ says = "valid" \/ Cancelled(c) \/ calls[c].made = MaxQueries
    THEN "done" ELSE "new"

\* The lock goes with the request.
Returned(c, says) ==
    /\ call_lock' = NoCaller
    /\ calls' = [calls EXCEPT ![c].at = After(c, says)]

\* Slip: a reply that does not say otherwise is a valid verdict.
ParseOptimistic(c) == IF c \in Oracles /\ response_json.says # "invalid" THEN "valid" ELSE response_json.says

\* An `error' is a failed call and leaves no verdict.
parse_status(c) == response_json.says

Accept(c) ==
    /\ calls[c].at = "polling" /\ ~Cancelled(c) /\ child # "dead" /\ Matches(c)
    /\ last' = IF parse_status(c) = "error" THEN last
               ELSE [last EXCEPT ![c] = [says |-> parse_status(c), op |-> response_json.op]]
    /\ response_json' = NoFile
    /\ Returned(c, parse_status(c))
    /\ UNCHANGED <<handle, processVars, request_json, shim, seq, cancelled>>

\* Slip: a request waits for its answer and for nothing else.
AbandonNever(c) == FALSE /\ UNCHANGED sideVars

\* Cancelled, the child exited, the budget of the request spent, or a file that
\* would not be written or removed: an error, transient to an oracle.
Abandon(c) ==
    /\ calls[c].at = "polling"
    /\ Returned(c, "error")
    /\ UNCHANGED <<handle, processVars, request_json, response_json, shim, seq, last, cancelled>>

----------------------------------------------------------------------------
ShimNext == Ready \/ Validate \/ ChildDies \/ ShimReads \/ ShimHandles \/ ShimTruncates \/ ShimFills

SideNext ==
    \/ ShimNext
    \/ launch \/ await_ready \/ Kill \/ reset_ipc \/ DropHandle \/ CancelAll
    \/ \E c \in Callers : request(c) \/ QueryCancelled(c) \/ Accept(c) \/ Abandon(c)

\* A thread that polls keeps polling; nothing is asked of the child.
SideFairness ==
    /\ WF_sideVars(await_ready \/ Kill \/ reset_ipc \/ DropHandle)
    /\ \A c \in Callers : WF_sideVars(request(c) \/ QueryCancelled(c) \/ Accept(c) \/ Abandon(c))

SideSpec == SideInit /\ [][SideNext]_sideVars /\ SideFairness

----------------------------------------------------------------------------
\* Numbers in the files and in the shim are numbers the channel has given out,
\* and the states are those of their types.
SideTypeOK ==
    /\ handle \in {"none", "starting", "ok", "dropping", "gone"} /\ child \in {"none", "booting", "up", "dead"}
    /\ handle # "none" => request_json.id <= seq /\ response_json.id <= seq
    /\ lastId <= seq /\ job.id <= seq
    /\ call_lock \in Callers \cup {NoCaller}
    /\ \A c \in Callers : calls[c].at \in {"new", "polling", "done"} /\ calls[c].id <= seq

\* A reply a caller accepts answers what that caller asked, however many
\* requests were given up before it and whenever their answers arrived
\* ("BASTON accepts only the response whose id matches").
AnswersOwn == \A c \in Callers : last[c] # Silent => last[c].op = OpOf(c)

\* An oracle holds a valid verdict only if the component accepted the key.
VerdictEarned == \A c \in Oracles : last[c].says = "valid" => validated

\* Once the handle is gone the child is dead and has left no file behind for a
\* later run to take for its own.
NothingLeft == handle = "gone" => child = "dead" /\ ~ready /\ request_json = NoJob /\ response_json = NoFile

\* A caller takes only the answer to its own request, believes only what the
\* child said, and a child never finds what an earlier one left.
SidecarHonest ==
    /\ SideTypeOK /\ AnswersOwn /\ VerdictEarned /\ NothingLeft

\* Whatever the child does, every request returns: an answer with its id, or
\* the end of its wait.
CallsReturn == []<>(\A c \in Callers : calls[c].at # "polling")

\* A start that fails, and a handle that is dropped, end with the process reaped.
Reaped == []<>(handle \in {"none", "ok", "gone"})
=============================================================================
