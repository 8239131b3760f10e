------------------------------ MODULE Isolate -------------------------------
(***************************************************************************)
(* The thread of one script isolate (baston-scripting/src/host.rs): the    *)
(* command loop starts dispatches in order, one pump task drives the       *)
(* isolate's event loop, and a task per dispatch waits to send its reply.  *)
(* They are cooperative tasks of one thread, so a step runs from one await *)
(* to the next.  ScriptHost abstracts all of this to the moment a dispatch *)
(* replies.                                                                *)
(***************************************************************************)
EXTENDS Naturals, Sequences

CONSTANTS Dispatches,   \* commands sent to the isolate
          Loads,        \* those that load scripts, which the command loop itself waits for
          MaxAwaits     \* native calls one dispatch may await, one after the other

ASSUME AwaitsAssumption == MaxAwaits \in Nat

VARIABLES
    inbox,      \* the command channel
    loading,    \* the load the command loop waits for, if any
    promise,    \* completion promise of a dispatch
    op,         \* its outstanding native call
    awaits,     \* how many it has made
    settler,    \* the task that will reply to it
    wake, pump, \* Notify permit, and what the pump task is doing
    drained,    \* dispatches since whose start idle_gen has moved on
    queued_events, handler_errors,  \* RuntimeContext: whether some are waiting to be taken
    looperr, thrown     \* an event loop pass has failed; a dispatch has failed

isoVars == <<inbox, loading, promise, op, awaits, settler, wake, pump, drained,
             queued_events, handler_errors, looperr, thrown>>
context == <<queued_events, handler_errors>>

IsoInit ==
    /\ inbox = <<>> /\ loading = {}
    /\ promise = [d \in Dispatches |-> "none"]
    /\ op = [d \in Dispatches |-> "none"]
    /\ awaits = [d \in Dispatches |-> 0]
    /\ settler = [d \in Dispatches |-> "unsent"]
    /\ wake = FALSE /\ pump = "poll" /\ drained = {}
    /\ queued_events = FALSE /\ handler_errors = FALSE
    /\ looperr = FALSE /\ thrown = FALSE

----------------------------------------------------------------------------
BeginCommand(d) ==
    /\ settler[d] = "unsent"
    /\ inbox' = Append(inbox, d)
    /\ settler' = [settler EXCEPT ![d] = "sent"]
    /\ UNCHANGED <<loading, promise, op, awaits, wake, pump, drained, context, looperr, thrown>>

\* JavaScript of dispatch d runs up to its next await or its end: it may raise
\* events and handler errors, and goes on in one of these ways.
Runs(d, results) ==
    /\ \E r \in results :
         /\ promise' = [promise EXCEPT ![d] = IF r = "awaits" \/ r = "dangles" THEN "pending" ELSE r]
         /\ op' = [op EXCEPT ![d] = IF r = "awaits" THEN "waiting" ELSE "none"]
         /\ awaits' = [awaits EXCEPT ![d] = IF r = "awaits" THEN @ + 1 ELSE @]
    /\ queued_events' \in {queued_events, TRUE}
    /\ handler_errors' \in {handler_errors, TRUE}

CanAwait(d) == IF awaits[d] < MaxAwaits THEN {"awaits"} ELSE {}

\* The execute phase of d, run inline.
ExecutePhase(d) ==
    /\ inbox # <<>> /\ loading = {} /\ d = Head(inbox)
    /\ inbox' = Tail(inbox)
    /\ Runs(d, {"fulfilled", "thrown", "dangles"} \cup CanAwait(d))
    /\ settler' = [settler EXCEPT ![d] = "check"]
    /\ drained' = drained \ {d}
    /\ UNCHANGED <<pump, looperr, thrown>>

\* Slips: the pump is not woken; every dispatch is waited for.
StartAsleep(d) == ExecutePhase(d) /\ loading' = Loads \cap {d} /\ UNCHANGED wake
StartSerial(d) == ExecutePhase(d) /\ loading' = {d} /\ wake' = TRUE

\* The command loop takes the next command; idle_gen is sampled before any
\* yield and the pump is woken.
Start(d) == ExecutePhase(d) /\ loading' = Loads \cap {d} /\ wake' = TRUE

\* A native call's result or timeout arrives and wakes the parked pump.
OpReady(d) ==
    /\ op[d] = "waiting"
    /\ op' = [op EXCEPT ![d] = "ready"]
    /\ pump' = IF pump = "parked" THEN "poll" ELSE pump
    /\ UNCHANGED <<inbox, loading, promise, awaits, settler, wake, drained, context,
                   looperr, thrown>>

----------------------------------------------------------------------------
\* The biased select: a wake permit is taken before the loop is polled again,
\* and ends the wait of an idle pump.
PumpWakes ==
    /\ wake /\ wake' = FALSE /\ pump' = "poll"
    /\ UNCHANGED <<inbox, loading, promise, op, awaits, settler, drained, context, looperr, thrown>>

\* notify_waiters on progress: every parked settle task looks again.
Progress == settler' = [d \in Dispatches |-> IF settler[d] = "parked" THEN "check" ELSE settler[d]]

\* A pass resumes what is ready, one dispatch at a time (other tasks may run in
\* between, which the code allows only between passes).
PumpResumes(d) ==
    /\ pump = "poll" /\ ~wake /\ op[d] = "ready"
    /\ Runs(d, {"fulfilled", "rejected", "dangles"} \cup CanAwait(d))
    /\ Progress
    /\ UNCHANGED <<inbox, loading, wake, pump, drained, looperr, thrown>>

\* A pass with nothing ready parks while calls are outstanding ...
PumpParks ==
    /\ pump = "poll" /\ ~wake
    /\ \A d \in Dispatches : op[d] # "ready"
    /\ \E d \in Dispatches : op[d] = "waiting"
    /\ pump' = "parked" /\ Progress
    /\ UNCHANGED <<inbox, loading, promise, op, awaits, wake, drained, context, looperr, thrown>>

\* A slip: the loop counts as drained as soon as nothing is ready.
IdleTooSoon ==
    /\ pump = "poll" /\ ~wake
    /\ \A d \in Dispatches : op[d] # "ready"
    /\ pump' = "idle" /\ drained' = Dispatches /\ Progress
    /\ UNCHANGED <<inbox, loading, promise, op, awaits, wake, context, looperr, thrown>>

\* ... and otherwise the loop has drained.
PumpIdle ==
    /\ pump = "poll" /\ ~wake
    /\ \A d \in Dispatches : op[d] = "none"
    /\ pump' = "idle" /\ drained' = Dispatches /\ Progress
    /\ UNCHANGED <<inbox, loading, promise, op, awaits, wake, context, looperr, thrown>>

\* A pass ends in an error (an unhandled rejection, a terminated script): the
\* pump goes to sleep and idle_gen moves on, whatever is still outstanding.
PumpFails ==
    /\ pump = "poll" /\ ~wake /\ ~looperr
    /\ looperr' = TRUE
    /\ pump' = "idle" /\ drained' = Dispatches /\ Progress
    /\ UNCHANGED <<inbox, loading, promise, op, awaits, wake, context, thrown>>

----------------------------------------------------------------------------
\* A slip: only a fulfilled dispatch takes the events with it.
ReplyKeeps(d) ==
    /\ settler' = [settler EXCEPT ![d] = "replied"]
    /\ handler_errors' = FALSE
    /\ queued_events' = (queued_events /\ promise[d] # "fulfilled")
    /\ thrown' = (thrown \/ promise[d] \in {"thrown", "rejected"})
    /\ UNCHANGED <<inbox, promise, op, awaits, wake, pump, drained, looperr>>

\* settle_ticket and the reply: finish_dispatch takes the error count, a
\* successful reply takes the events, both whoever raised them.
Reply(d) ==
    /\ settler' = [settler EXCEPT ![d] = "replied"]
    /\ handler_errors' = FALSE
    /\ IF promise[d] \in {"thrown", "rejected"}
       THEN thrown' = TRUE /\ UNCHANGED queued_events
       ELSE queued_events' = FALSE /\ UNCHANGED thrown
    /\ UNCHANGED <<inbox, promise, op, awaits, wake, pump, drained, looperr>>

\* A load is over only once the loop has drained as well; a failing script
\* ends it at once.
Over(d) ==
    \/ promise[d] \in {"thrown", "rejected"}
    \/ promise[d] = "fulfilled" /\ (d \in Loads => d \in drained)
    \/ promise[d] = "pending" /\ d \in drained

SettleReplies(d) ==
    /\ settler[d] = "check" /\ Over(d)
    /\ loading' = loading \ {d}
    /\ Reply(d)

SettleParks(d) ==
    /\ settler[d] = "check" /\ ~Over(d)
    /\ settler' = [settler EXCEPT ![d] = "parked"]
    /\ UNCHANGED <<inbox, loading, promise, op, awaits, wake, pump, drained, context, looperr, thrown>>

IsoStep ==
    \/ PumpWakes \/ PumpParks \/ PumpIdle
    \/ \E d \in Dispatches : Start(d) \/ OpReady(d) \/ PumpResumes(d) \/ SettleReplies(d) \/ SettleParks(d)

IsoNext == IsoStep \/ PumpFails \/ \E d \in Dispatches : BeginCommand(d)

\* The thread runs whichever task is ready, and every native call is answered
\* or times out.
IsoFairness == WF_isoVars(IsoStep)

IsoSpec == IsoInit /\ [][IsoNext]_isoVars /\ IsoFairness

----------------------------------------------------------------------------
\* The states of a dispatch; only loads are in the loading set, and no dispatch
\* awaits more often than it may.
IsoTypeOK ==
    /\ promise \in [Dispatches -> {"none", "pending", "fulfilled", "rejected", "thrown"}]
    /\ op \in [Dispatches -> {"none", "waiting", "ready"}]
    /\ settler \in [Dispatches -> {"unsent", "sent", "check", "parked", "replied"}]
    /\ pump \in {"poll", "parked", "idle"} /\ wake \in BOOLEAN
    /\ loading \subseteq Loads /\ awaits \in [Dispatches -> 0..MaxAwaits]

\* spawn_settle: "an idle_gen bump past this value proves a full event-loop
\* drain that included this dispatch's ops", so a dispatch is never taken for
\* complete while a call of its own is outstanding; unless a pass has failed.
DrainedBeforeReply ==
    \A d \in Dispatches : settler[d] = "replied" /\ op[d] # "none" => looperr

\* No event and no error report is left behind: once every dispatch has been
\* answered, what the handlers raised has gone out with some reply; unless a
\* dispatch failed, whose reply takes no events, or a pass failed.
NothingStranded ==
    (\A d \in Dispatches : settler[d] \in {"unsent", "replied"}) =>
        ~(handler_errors \/ queued_events) \/ looperr \/ thrown

\* A dispatch replies after its own work has drained, and an isolate that stops
\* strands no caller.
RepliesDrained ==
    /\ IsoTypeOK /\ DrainedBeforeReply /\ NothingStranded

\* Every dispatch is answered: no wake-up is lost between the command loop, the
\* pump and the settle tasks, and a stalled handler does not hold up the next
\* command.  After a failed pass too, because the failure counts as idle.
RepliesCome == []<>(\A d \in Dispatches : settler[d] \in {"unsent", "replied"})
=============================================================================
