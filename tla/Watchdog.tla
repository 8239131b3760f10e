------------------------------ MODULE Watchdog ------------------------------
(***************************************************************************)
(* The watchdog of one script isolate (baston-scripting/src/runtime.rs):   *)
(* the isolate's thread arms it around every synchronous stretch of        *)
(* JavaScript (start_named, poll_event_loop_pass, run_guarded), and a      *)
(* second thread terminates a stretch that overruns its budget.  The two   *)
(* threads share three atomics, read and written here one at a time.       *)
(*                                                                         *)
(* Stretches are numbered by the generation they are armed with, and the   *)
(* deadline holds the number of the armed stretch (0 when disarmed).       *)
(***************************************************************************)
EXTENDS Naturals, FiniteSets

CONSTANT MaxStretches

ASSUME WatchdogAssumption == MaxStretches \in Nat

VARIABLES
    deadline, generation, fired, stop,  \* the atomics
    terminating,                        \* V8's pending termination request
    jsPc, runaway, freed,               \* the isolate's thread; its present script never returns; isolate gone
    wdPc, wdGen,                        \* the watchdog thread and the generation it noted
    late, killed, blamed,               \* stretches past their deadline, terminated, reported as terminated
    shadowed                            \* armed while the watchdog waited for an earlier one to unwind

wdVars == <<deadline, generation, fired, stop, terminating, jsPc, runaway, freed, wdPc, wdGen,
            late, killed, blamed, shadowed>>
atomics == <<deadline, generation, fired, stop>>
verdicts == <<late, killed, blamed, shadowed>>
jsThread == <<jsPc, runaway, freed>>
wdThread == <<wdPc, wdGen>>

WdInit ==
    /\ deadline = 0 /\ generation = 0 /\ fired = FALSE /\ stop = FALSE
    /\ terminating = FALSE
    /\ jsPc = "idle" /\ runaway = FALSE /\ freed = FALSE
    /\ wdPc = "sleep" /\ wdGen = 0
    /\ late = {} /\ killed = {} /\ blamed = {} /\ shadowed = {}

----------------------------------------------------------------------------
\* arm: fired, generation and deadline are stored one after the other.
ArmFired ==
    /\ jsPc = "idle" /\ generation < MaxStretches
    /\ fired' = FALSE /\ jsPc' = "armed1"
    /\ UNCHANGED <<deadline, generation, stop, terminating, runaway, freed, wdThread, verdicts>>

\* A slip: the generation is not bumped.
ArmSame ==
    /\ jsPc = "armed1" /\ jsPc' = "armed2"
    /\ UNCHANGED <<atomics, terminating, runaway, freed, wdThread, verdicts>>

ArmGeneration ==
    /\ jsPc = "armed1"
    /\ generation' = generation + 1 /\ jsPc' = "armed2"
    /\ UNCHANGED <<deadline, fired, stop, terminating, runaway, freed, wdThread, verdicts>>

ArmDeadline ==
    /\ jsPc = "armed2"
    /\ deadline' = generation /\ jsPc' = "run"
    /\ runaway' \in BOOLEAN
    /\ shadowed' = IF wdPc \in {"mark", "unwind"} THEN shadowed \cup {generation} ELSE shadowed
    /\ UNCHANGED <<generation, fired, stop, terminating, freed, wdThread, late, killed, blamed>>

\* The script returns, or the pending termination unwinds it.
Returns ==
    /\ jsPc = "run" /\ ~runaway
    /\ jsPc' = "disarm"
    /\ UNCHANGED <<atomics, terminating, runaway, freed, wdThread, verdicts>>

Unwinds ==
    /\ jsPc = "run" /\ terminating
    /\ terminating' = FALSE /\ jsPc' = "disarm" /\ runaway' = FALSE
    /\ killed' = killed \cup {generation}
    /\ UNCHANGED <<atomics, freed, wdThread, late, blamed, shadowed>>

\* The guard is dropped ...
Disarm ==
    /\ jsPc = "disarm"
    /\ deadline' = 0 /\ jsPc' = "swap"
    /\ UNCHANGED <<generation, fired, stop, terminating, runaway, freed, wdThread, verdicts>>

\* ... and took_fired decides whether the termination is cancelled.
TookFired ==
    /\ jsPc = "swap"
    /\ fired' = FALSE /\ jsPc' = "idle"
    /\ terminating' = (terminating /\ ~fired)
    /\ blamed' = IF fired THEN blamed \cup {generation} ELSE blamed
    /\ UNCHANGED <<deadline, generation, stop, runaway, freed, wdThread, late, killed, shadowed>>

\* A slip: the thread is asked to stop but not joined.
Unjoined ==
    /\ jsPc = "joining"
    /\ freed' = TRUE /\ jsPc' = "gone"
    /\ UNCHANGED <<atomics, terminating, runaway, wdThread, verdicts>>

\* The runtime is dropped: the watchdog thread is stopped and joined, and only
\* then the isolate is freed.
DropRuntimeBegin ==
    /\ jsPc = "idle"
    /\ stop' = TRUE /\ jsPc' = "joining"
    /\ UNCHANGED <<deadline, generation, fired, terminating, runaway, freed, wdThread, verdicts>>

Joined ==
    /\ jsPc = "joining" /\ wdPc = "exited"
    /\ freed' = TRUE /\ jsPc' = "gone"
    /\ UNCHANGED <<atomics, terminating, runaway, wdThread, verdicts>>

----------------------------------------------------------------------------
\* The clock passes the deadline of the armed stretch.
Overruns ==
    /\ jsPc = "run" /\ generation \notin late
    /\ late' = late \cup {generation}
    /\ UNCHANGED <<atomics, terminating, jsThread, wdThread, killed, blamed, shadowed>>

\* Every 50 ms the watchdog looks at the deadline, unless told to stop.
Wake ==
    /\ wdPc = "sleep"
    /\ wdPc' = IF stop THEN "exited" ELSE IF deadline \in late THEN "note" ELSE "sleep"
    /\ UNCHANGED <<atomics, terminating, jsThread, wdGen, verdicts>>

NoteGeneration ==
    /\ wdPc = "note"
    /\ wdGen' = generation /\ wdPc' = "pause"
    /\ UNCHANGED <<atomics, terminating, jsThread, verdicts>>

\* A slip: the second look goes on when the deadline is gone.
RecheckGone ==
    /\ wdPc = "pause"
    /\ wdPc' = IF stop THEN "exited" ELSE IF deadline = 0 THEN "compare" ELSE "sleep"
    /\ UNCHANGED <<atomics, terminating, jsThread, wdGen, verdicts>>

\* After 20 ms it looks again: still armed ...
Recheck ==
    /\ wdPc = "pause"
    /\ wdPc' = IF stop THEN "exited" ELSE IF deadline # 0 THEN "compare" ELSE "sleep"
    /\ UNCHANGED <<atomics, terminating, jsThread, wdGen, verdicts>>

\* ... with the same generation.
Compare ==
    /\ wdPc = "compare"
    /\ wdPc' = IF generation = wdGen THEN "terminate" ELSE "sleep"
    /\ UNCHANGED <<atomics, terminating, jsThread, wdGen, verdicts>>

Terminate ==
    /\ wdPc = "terminate"
    /\ terminating' = TRUE /\ wdPc' = "mark"
    /\ UNCHANGED <<atomics, jsThread, wdGen, verdicts>>

MarkFired ==
    /\ wdPc = "mark"
    /\ fired' = TRUE /\ wdPc' = "unwind"
    /\ UNCHANGED <<deadline, generation, stop, terminating, jsThread, wdGen, verdicts>>

\* A slip: straight back to the loop, terminating again what has not unwound.
NoWait ==
    /\ wdPc = "unwind" /\ wdPc' = "sleep"
    /\ UNCHANGED <<atomics, terminating, jsThread, wdGen, verdicts>>

\* It then polls every 20 ms until it sees the deadline disarmed.
AwaitUnwind ==
    /\ wdPc = "unwind" /\ (deadline = 0 \/ stop)
    /\ wdPc' = "sleep"
    /\ UNCHANGED <<atomics, terminating, jsThread, wdGen, verdicts>>

JsStep ==
    \/ ArmFired \/ ArmGeneration \/ ArmDeadline \/ Returns \/ Unwinds \/ Disarm \/ TookFired
    \/ DropRuntimeBegin \/ Joined
WatchStep ==
    \/ Wake \/ NoteGeneration \/ Recheck \/ Compare \/ Terminate \/ MarkFired \/ AwaitUnwind

WdNext == JsStep \/ WatchStep \/ Overruns

\* Both threads are scheduled, and time passes.
WdFairness ==
    /\ WF_wdVars(jsPc # "idle" /\ JsStep) /\ WF_wdVars(WatchStep) /\ WF_wdVars(Overruns)

WdSpec == WdInit /\ [][WdNext]_wdVars /\ WdFairness

----------------------------------------------------------------------------
\* The armed deadline is that of the newest stretch or none, and the watchdog
\* never holds a generation not yet armed.
WdTypeOK ==
    /\ deadline \in {0, generation} /\ generation \in 0..MaxStretches
    /\ {fired, stop, terminating, freed} \subseteq BOOLEAN
    /\ wdGen \in 0..generation
    /\ late \cup killed \cup blamed \cup shadowed \subseteq 1..generation

\* Terminations are earned: there are never more terminated stretches than
\* stretches that overran, since after one termination the watchdog waits for
\* the stretch to unwind before it looks for the next.
KillsEarned == Cardinality(killed) <= Cardinality(late)

\* ScriptRuntime declares the watchdog before the isolate so that dropping it
\* stops the thread "before the isolate it references is freed": the thread
\* can no longer terminate anything by then.
NoTerminateAfterFree == freed => wdPc = "exited"

\* A termination is earned by the stretch it was decided on, and none reaches
\* an isolate that was freed.
WatchdogSafe ==
    /\ WdTypeOK /\ KillsEarned /\ NoTerminateAfterFree

\* A script that never returns is terminated, unless it was armed while the
\* watchdog still polled for an earlier stretch to unwind.
RunawayEnds == []<>(jsPc = "run" => generation \in shadowed)

\* The same without the exclusion, as the module's comment has it ("calls
\* terminate_execution once a dispatch overruns its budget").  The code does
\* not keep it: a stretch armed within 20 ms of the end of a terminated one
\* keeps the deadline nonzero, and the watchdog polls for ever.
RunawayTerminated == jsPc = "run" ~> jsPc # "run"

\* The re-check comment: "so we don't terminate a dispatch that just finished
\* (disarmed) or a fresh one (rearmed)".
FreshNeverTerminated == killed \subseteq late
=============================================================================
