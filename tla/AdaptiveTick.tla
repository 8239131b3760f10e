---------------------------- MODULE AdaptiveTick ----------------------------
(***************************************************************************)
(* The rate of the OneSync tick (baston-zone adaptive_tick.rs), as the     *)
(* gateway's event loop drives it: every tick reports the work it did and  *)
(* how full the sync queue is, and the controller sheds rate at once under *)
(* load and earns it back one step at a time.                              *)
(*                                                                         *)
(* Utilization and pressure are fixed-point numbers, One standing for 1.0; *)
(* the moving average is rounded towards the new sample.                   *)
(***************************************************************************)
EXTENDS Integers, FiniteSets

CONSTANTS
    TickConfigs,   \* [state_sync] sections: records of the fields of AdaptiveTickConfig
    One,           \* 1.0
    Samples,       \* work / period of a tick
    Pressures      \* fill level of the sync queue

ASSUME TickAssumption ==
    /\ TickConfigs \subseteq [enabled : BOOLEAN, min_hz : Int, initial_hz : Int, max_hz : Int, low : Int,
                               high : Int, backoff : Int, recovery_window : Int]
    /\ One \in Nat \ {0}
    /\ Samples \subseteq Nat /\ \E most \in Samples : \A s \in Samples : most >= s

VARIABLES
    cfg,               \* AdaptiveTickController.cfg
    current_hz,
    ewma_utilization,  \* Unmeasured before the first tick
    headroom_samples,
    timer,             \* the rate sync_tick, the loop's interval, was made for
    calmFor,           \* ghosts: ticks in a row that found headroom,
    loadFor,           \* ticks in a row that found overload,
    heldFor            \* ticks since the rate last changed

tickVars == <<cfg, current_hz, ewma_utilization, headroom_samples, timer, calmFor, loadFor, heldFor>>

Unmeasured == -1

SAFE_RATES_HZ == {20, 30, 40, 60, 90, 120}

Fewest(S) == CHOOSE x \in S : \A y \in S : x <= y
Most(S) == CHOOSE x \in S : \A y \in S : x >= y

rates(c) == {hz \in SAFE_RATES_HZ : c.min_hz <= hz /\ hz <= c.max_hz}

\* What StateSyncConfig::validate lets through.
Validated(c) ==
    /\ 0 < c.min_hz /\ c.min_hz <= c.initial_hz /\ c.initial_hz <= c.max_hz /\ c.max_hz <= 120
    /\ 0 <= c.low /\ c.low < c.high /\ c.high <= One
    /\ 0 <= c.backoff /\ c.backoff < One
    /\ c.recovery_window > 0

Distance(a, b) == IF a >= b THEN a - b ELSE b - a

\* Of two rates equally near min_by_key takes the first.
nearest_rate(requested, c) ==
    IF rates(c) = {} THEN requested
    ELSE Fewest({hz \in rates(c) : \A o \in rates(c) : Distance(hz, requested) <= Distance(o, requested)})

\* A slip: the nearest rate instead of the next lower one.
LowerNearest(target, c) == nearest_rate(target, c)

lower_rate(target, c) ==
    LET low == {hz \in rates(c) : hz <= target} IN IF low = {} THEN c.min_hz ELSE Most(low)

next_rate(hz, c) ==
    LET higher == {r \in rates(c) : r > hz} IN IF higher = {} THEN hz ELSE Fewest(higher)

TickInit ==
    /\ cfg \in {c \in TickConfigs : Validated(c)}
    /\ current_hz = nearest_rate(cfg.initial_hz, cfg) /\ timer = current_hz
    /\ ewma_utilization = Unmeasured /\ headroom_samples = 0
    /\ calmFor = 0 /\ loadFor = 0 /\ heldFor = 0

-----------------------------------------------------------------------------

\* EWMA_ALPHA is one eighth.
Smoothed(sample) ==
    IF ewma_utilization = Unmeasured THEN sample
    ELSE IF sample >= ewma_utilization THEN ewma_utilization + (sample - ewma_utilization + 7) \div 8
    ELSE ewma_utilization - (ewma_utilization - sample + 7) \div 8

\* The caller reports a missed deadline exactly when the work took the period.
Overloaded(sample, pressure, utilization) ==
    sample >= One \/ pressure >= cfg.high \/ utilization >= cfg.high

Headroom(pressure, utilization) == utilization <= cfg.low /\ pressure <= cfg.low

\* A slip: a target below the floor is not taken.
ShedAboveFloor ==
    LET target == (current_hz * cfg.backoff) \div One
    IN  IF target < cfg.min_hz THEN current_hz ELSE lower_rate(target, cfg)

Shed == lower_rate((current_hz * cfg.backoff) \div One, cfg)

\* A slip: one tick more than the window.
WindowOver(samples) == samples > cfg.recovery_window

WindowFull(samples) == samples >= cfg.recovery_window

\* A slip: headroom found before an overload still counts after it.
AfterCarried(overload, headroom) ==
    IF overload THEN [hz |-> Shed, samples |-> headroom_samples]
    ELSE IF ~headroom THEN [hz |-> current_hz, samples |-> 0]
    ELSE IF WindowFull(headroom_samples + 1) THEN [hz |-> next_rate(current_hz, cfg), samples |-> 0]
    ELSE [hz |-> current_hz, samples |-> headroom_samples + 1]

After(overload, headroom) ==
    IF overload THEN [hz |-> Shed, samples |-> 0]
    ELSE IF ~headroom THEN [hz |-> current_hz, samples |-> 0]
    ELSE IF WindowFull(headroom_samples + 1) THEN [hz |-> next_rate(current_hz, cfg), samples |-> 0]
    ELSE [hz |-> current_hz, samples |-> headroom_samples + 1]

\* A controller that is switched off only measures.
observe(sample, pressure) ==
    LET utilization == Smoothed(sample)
        overload == Overloaded(sample, pressure, utilization)
        headroom == ~overload /\ Headroom(pressure, utilization)
        after == IF cfg.enabled THEN After(overload, headroom)
                 ELSE [hz |-> current_hz, samples |-> headroom_samples]
        Count(n, on, bound) == IF ~on THEN 0 ELSE IF n < bound THEN n + 1 ELSE n
    IN  /\ ewma_utilization' = utilization
        /\ current_hz' = after.hz /\ headroom_samples' = after.samples
        /\ calmFor' = Count(calmFor, headroom, cfg.recovery_window * (Cardinality(rates(cfg)) + 1))
        /\ loadFor' = Count(loadFor, overload, Cardinality(rates(cfg)) + 1)
        /\ heldFor' = Count(heldFor, after.hz = current_hz, cfg.recovery_window)

\* The tick arm of the event loop: a rate that changed gets a new interval.
SyncTicks ==
    \E sample \in Samples, pressure \in Pressures :
        /\ observe(sample, pressure)
        /\ timer' = IF current_hz' # current_hz THEN current_hz' ELSE timer
        /\ UNCHANGED cfg

TickNext == SyncTicks
TickSpec == TickInit /\ [][TickNext]_tickVars

-----------------------------------------------------------------------------
(* Properties.                                                              *)

\* Types: the rate stays between the configured floor and ceiling, also where
\* neither is a safe rate, and the interval that is running is the controller's.
TickTypeOK ==
    /\ cfg \in TickConfigs
    /\ current_hz \in cfg.min_hz .. cfg.max_hz /\ timer = current_hz
    /\ ewma_utilization \in {Unmeasured} \cup 0 .. Most(Samples)
    /\ headroom_samples \in Nat
    /\ calmFor \in Nat /\ loadFor \in Nat /\ heldFor \in 0 .. cfg.recovery_window

\* Overload that lasts brings the rate to the floor in at most one tick for each
\* safe rate, whatever rate and average it starts from (observe, lower_rate).
ShedsToFloor ==
    cfg.enabled /\ loadFor > Cardinality(rates(cfg)) => current_hz = cfg.min_hz

\* Headroom that lasts earns every step back: after one window for each safe rate
\* the highest of them is running, and no tick of headroom is lost on the way
\* (observe, next_rate).
RecoversInTime ==
    cfg.enabled /\ rates(cfg) # {} /\ calmFor >= cfg.recovery_window * Cardinality(rates(cfg))
        => current_hz = Most(rates(cfg))

\* The rate stays within its configuration, falls at once under load and comes
\* back in time when the load is gone.
RateBounded ==
    /\ TickTypeOK /\ ShedsToFloor /\ RecoversInTime

\* The rate rises only after a whole window of ticks in a row that all found
\* headroom at this rate: an overload, or a rise, starts the count again (observe).
RiseIsEarned ==
    [][current_hz' > current_hz => /\ calmFor' >= cfg.recovery_window
                                   /\ heldFor >= cfg.recovery_window - 1]_tickVars
=============================================================================
