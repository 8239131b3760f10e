--------------------------- MODULE OneSyncProofs ----------------------------
(****************************************************************************)
(* Proofs about the game state: the entity registry, its ids, buckets and   *)
(* leases, the grid of who sees whom, and the tick rate; each for any players,*)
(* entities, buckets and configuration.                                     *)
(****************************************************************************)
EXTENDS ServerGameState, SessionGrid, AdaptiveTick, FiniteSetTheorems, WellFoundedInduction, TLAPS

\* A step goes to Zenon unless it names another prover.
USE ZenonT(60)

-----------------------------------------------------------------------------
(* The tick rate. *)

\* A least member.
HasLeast(S) == \E x \in S : \A y \in S : x <= y
\* A greatest member.
HasGreatest(S) == \E x \in S : \A y \in S : x >= y

\* A set of safe rates has a least and a greatest member.
LEMMA RatesHaveEnds ==
    ASSUME NEW S \in SUBSET SAFE_RATES_HZ, S # {}
    PROVE  /\ Fewest(S) \in S /\ \A y \in S : Fewest(S) <= y
           /\ Most(S) \in S /\ \A y \in S : Most(S) >= y
<1>0. 20 \in S \/ 30 \in S \/ 40 \in S \/ 60 \in S \/ 90 \in S \/ 120 \in S
  <2>1. PICK z \in S : z \in SAFE_RATES_HZ
    OBVIOUS
  <2>2. z = 20 \/ z = 30 \/ z = 40 \/ z = 60 \/ z = 90 \/ z = 120
    BY <2>1 DEF SAFE_RATES_HZ
  <2> QED
    BY SMTT(30), <2>2
<1>1. HasLeast(S)
  <2>1. CASE 20 \in S
    <3>1. \A y \in S : 20 <= y
      BY SMTT(30), <2>1 DEF SAFE_RATES_HZ
    <3>2. 20 \in S
      BY <2>1
    <3> QED
      BY <3>1, <3>2 DEF HasLeast
  <2>2. CASE 30 \in S /\ 20 \notin S
    <3>1. \A y \in S : 30 <= y
      BY SMTT(30), <2>2 DEF SAFE_RATES_HZ
    <3>2. 30 \in S
      BY <2>2
    <3> QED
      BY <3>1, <3>2 DEF HasLeast
  <2>3. CASE 40 \in S /\ 20 \notin S /\ 30 \notin S
    <3>1. \A y \in S : 40 <= y
      BY SMTT(30), <2>3 DEF SAFE_RATES_HZ
    <3>2. 40 \in S
      BY <2>3
    <3> QED
      BY <3>1, <3>2 DEF HasLeast
  <2>4. CASE 60 \in S /\ 20 \notin S /\ 30 \notin S /\ 40 \notin S
    <3>1. \A y \in S : 60 <= y
      BY SMTT(30), <2>4 DEF SAFE_RATES_HZ
    <3>2. 60 \in S
      BY <2>4
    <3> QED
      BY <3>1, <3>2 DEF HasLeast
  <2>5. CASE 90 \in S /\ 20 \notin S /\ 30 \notin S /\ 40 \notin S /\ 60 \notin S
    <3>1. \A y \in S : 90 <= y
      BY SMTT(30), <2>5 DEF SAFE_RATES_HZ
    <3>2. 90 \in S
      BY <2>5
    <3> QED
      BY <3>1, <3>2 DEF HasLeast
  <2>6. CASE 120 \in S /\ 20 \notin S /\ 30 \notin S /\ 40 \notin S /\ 60 \notin S /\ 90 \notin S
    <3>1. \A y \in S : 120 <= y
      BY SMTT(30), <2>6 DEF SAFE_RATES_HZ
    <3>2. 120 \in S
      BY <2>6
    <3> QED
      BY <3>1, <3>2 DEF HasLeast
  <2> QED
    BY <1>0, <2>1, <2>2, <2>3, <2>4, <2>5, <2>6
<1>2. HasGreatest(S)
  <2>1. CASE 120 \in S
    <3>1. \A y \in S : 120 >= y
      BY SMTT(30), <2>1 DEF SAFE_RATES_HZ
    <3>2. 120 \in S
      BY <2>1
    <3> QED
      BY <3>1, <3>2 DEF HasGreatest
  <2>2. CASE 90 \in S /\ 120 \notin S
    <3>1. \A y \in S : 90 >= y
      BY SMTT(30), <2>2 DEF SAFE_RATES_HZ
    <3>2. 90 \in S
      BY <2>2
    <3> QED
      BY <3>1, <3>2 DEF HasGreatest
  <2>3. CASE 60 \in S /\ 120 \notin S /\ 90 \notin S
    <3>1. \A y \in S : 60 >= y
      BY SMTT(30), <2>3 DEF SAFE_RATES_HZ
    <3>2. 60 \in S
      BY <2>3
    <3> QED
      BY <3>1, <3>2 DEF HasGreatest
  <2>4. CASE 40 \in S /\ 120 \notin S /\ 90 \notin S /\ 60 \notin S
    <3>1. \A y \in S : 40 >= y
      BY SMTT(30), <2>4 DEF SAFE_RATES_HZ
    <3>2. 40 \in S
      BY <2>4
    <3> QED
      BY <3>1, <3>2 DEF HasGreatest
  <2>5. CASE 30 \in S /\ 120 \notin S /\ 90 \notin S /\ 60 \notin S /\ 40 \notin S
    <3>1. \A y \in S : 30 >= y
      BY SMTT(30), <2>5 DEF SAFE_RATES_HZ
    <3>2. 30 \in S
      BY <2>5
    <3> QED
      BY <3>1, <3>2 DEF HasGreatest
  <2>6. CASE 20 \in S /\ 120 \notin S /\ 90 \notin S /\ 60 \notin S /\ 40 \notin S /\ 30 \notin S
    <3>1. \A y \in S : 20 >= y
      BY SMTT(30), <2>6 DEF SAFE_RATES_HZ
    <3>2. 20 \in S
      BY <2>6
    <3> QED
      BY <3>1, <3>2 DEF HasGreatest
  <2> QED
    BY <1>0, <2>1, <2>2, <2>3, <2>4, <2>5, <2>6
<1> QED
  BY <1>1, <1>2 DEF Fewest, Most, HasLeast, HasGreatest

\* There are finitely many safe rates.
LEMMA RatesFinite ==
    ASSUME NEW S \in SUBSET SAFE_RATES_HZ
    PROVE  IsFiniteSet(S) /\ Cardinality(S) \in Nat
<1>1. SAFE_RATES_HZ \subseteq 0..120 /\ 0 \in Int /\ 120 \in Int
  BY SMTT(30) DEF SAFE_RATES_HZ
<1>2. IsFiniteSet(0..120)
  BY <1>1, FS_Interval
<1>3. IsFiniteSet(S)
  BY <1>1, <1>2, FS_Subset
<1> QED
  BY <1>3, FS_CardinalityType

\* A set of rates without one of another's members is smaller.
LEMMA FewerRates ==
    ASSUME NEW S \in SUBSET SAFE_RATES_HZ, NEW T \in SUBSET S, NEW r \in S, r \notin T
    PROVE  Cardinality(T) <= Cardinality(S) - 1
<1>1. IsFiniteSet(S) /\ Cardinality(S) \in Nat
  BY RatesFinite
<1>2. Cardinality(T) <= Cardinality(S) /\ (Cardinality(T) = Cardinality(S) => S = T)
  BY <1>1, FS_Subset
<1>3. Cardinality(T) \in Nat /\ Cardinality(T) # Cardinality(S)
  BY <1>2, RatesFinite
<1> QED
  BY SMTT(30), <1>1, <1>2, <1>3

\* The configuration in use.
ConfigAgrees ==
    /\ cfg \in TickConfigs
    /\ Validated(cfg)

\* What validation lets through, as numbers.
LEMMA Configured ==
    ASSUME ConfigAgrees
    PROVE  /\ cfg.enabled \in BOOLEAN
           /\ cfg.min_hz \in Int /\ cfg.max_hz \in Int /\ cfg.initial_hz \in Int
           /\ cfg.backoff \in Int /\ cfg.recovery_window \in Int /\ One \in Int
           /\ cfg.min_hz > 0 /\ cfg.min_hz <= cfg.initial_hz /\ cfg.initial_hz <= cfg.max_hz
           /\ cfg.backoff >= 0 /\ cfg.backoff < One /\ One > 0 /\ cfg.recovery_window > 0
<1>1. cfg \in [enabled : BOOLEAN, min_hz : Int, initial_hz : Int, max_hz : Int, low : Int,
               high : Int, backoff : Int, recovery_window : Int]
  BY TickAssumption DEF TickAssumption, ConfigAgrees
<1>2. /\ cfg.enabled \in BOOLEAN /\ cfg.min_hz \in Int /\ cfg.max_hz \in Int /\ cfg.initial_hz \in Int
      /\ cfg.backoff \in Int /\ cfg.recovery_window \in Int
  BY <1>1
<1>3. One \in Int /\ One > 0
  BY SMTT(30), TickAssumption DEF TickAssumption
<1> QED
  BY SMTT(30), <1>2, <1>3 DEF ConfigAgrees, Validated

\* The safe rates below the current one.
Below == {r \in rates(cfg) : r < current_hz}
\* The safe rates above the current one.
Above == {r \in rates(cfg) : r > current_hz}

\* The rates in the configured range.
LEMMA RatesIn ==
    ASSUME ConfigAgrees
    PROVE  /\ rates(cfg) \in SUBSET SAFE_RATES_HZ
           /\ \A r \in rates(cfg) : r \in Int /\ cfg.min_hz <= r /\ r <= cfg.max_hz
<1>1. \A r \in SAFE_RATES_HZ : r \in Int
  BY SMTT(30) DEF SAFE_RATES_HZ
<1> QED
  BY <1>1 DEF rates

\* Shedding takes a positive rate strictly below itself.
LEMMA BacksOff ==
    ASSUME NEW hz \in Int, hz > 0, NEW b \in Int, NEW one \in Int, 0 <= b, b < one
    PROVE  (hz * b) \div one \in Int /\ (hz * b) \div one < hz
<1>1. PICK x \in Int : x = hz * b
  BY SMTT(30)
<1>2. one > 0
  BY SMTT(30)
<1>3. PICK q \in Int : q = x \div one
  BY SMTT(30), <1>2
<1>4. x % one \in Int /\ x % one >= 0 /\ x % one = x - one * q
  BY SMTT(30), <1>2, <1>3
<1>5. PICK m \in Int : m = one * q /\ m <= x
  BY SMTT(30), <1>4
<1>6. x < one * hz
  BY SMTT(30), <1>1
<1>7. one * q < one * hz
  BY SMTT(30), <1>5, <1>6
<1>8. q < hz
  BY SMTT(30), <1>2, <1>7
<1> QED
  BY <1>1, <1>3, <1>8

\* A set of safe rates has one nearest to q.
LEMMA NearestExists ==
    ASSUME NEW S \in SUBSET SAFE_RATES_HZ, S # {}, NEW q \in Int
    PROVE  \E x \in S : \A o \in S : Distance(x, q) <= Distance(o, q)
<1>0. \A r \in S : r \in Int
  <2>1. \A r \in SAFE_RATES_HZ : r \in Int
    BY SMTT(30) DEF SAFE_RATES_HZ
  <2> QED
    BY <2>1
<1>1. PICK L \in SUBSET SAFE_RATES_HZ : L = {r \in S : r <= q}
  OBVIOUS
<1>2. PICK G \in SUBSET SAFE_RATES_HZ : G = {r \in S : ~(r <= q)}
  OBVIOUS
<1>3. CASE L = {}
  <2>1. G # {} /\ \A o \in S : o \in G
    BY <1>1, <1>2, <1>3
  <2>2. PICK g \in G : \A y \in G : g <= y
    BY <2>1, RatesHaveEnds
  <2>3. g \in S /\ g \in Int /\ ~(g <= q)
    BY <1>0, <1>2
  <2>4. \A o \in S : o \in Int /\ g <= o
    BY <1>0, <2>1, <2>2
  <2>5. \A o \in S : Distance(g, q) <= Distance(o, q)
    BY SMTT(30), <2>3, <2>4 DEF Distance
  <2> QED
    BY <2>3, <2>5
<1>4. CASE G = {}
  <2>1. L # {} /\ \A o \in S : o \in L
    BY <1>1, <1>2, <1>4
  <2>2. PICK l \in L : \A y \in L : l >= y
    BY <2>1, RatesHaveEnds
  <2>3. l \in S /\ l \in Int /\ l <= q
    BY <1>0, <1>1
  <2>4. \A o \in S : o \in Int /\ o <= q /\ l >= o
    BY <1>0, <1>1, <2>1, <2>2
  <2>5. \A o \in S : Distance(l, q) <= Distance(o, q)
    BY SMTT(30), <2>3, <2>4 DEF Distance
  <2> QED
    BY <2>3, <2>5
<1>5. CASE L # {} /\ G # {}
  <2>1. PICK l \in L : \A y \in L : l >= y
    BY <1>5, RatesHaveEnds
  <2>2. PICK g \in G : \A y \in G : g <= y
    BY <1>5, RatesHaveEnds
  <2>3. l \in S /\ l \in Int /\ l <= q /\ g \in S /\ g \in Int /\ ~(g <= q)
    BY <1>0, <1>1, <1>2
  <2>4. \A o \in S : o \in Int /\ (o <= q => l >= o) /\ (~(o <= q) => g <= o)
    BY <1>0, <1>1, <1>2, <2>1, <2>2
  <2>5. CASE q - l <= g - q
    <3>1. \A o \in S : Distance(l, q) <= Distance(o, q)
      BY SMTT(30), <2>3, <2>4, <2>5 DEF Distance
    <3> QED
      BY <2>3, <3>1
  <2>6. CASE ~(q - l <= g - q)
    <3>1. \A o \in S : Distance(g, q) <= Distance(o, q)
      BY SMTT(30), <2>3, <2>4, <2>6 DEF Distance
    <3> QED
      BY <2>3, <3>1
  <2> QED
    BY <2>5, <2>6
<1> QED
  BY <1>3, <1>4, <1>5

\* The rate a controller starts with lies in the configured range.
LEMMA StartsInRange ==
    ASSUME ConfigAgrees, NEW hz, hz = nearest_rate(cfg.initial_hz, cfg)
    PROVE  /\ hz \in cfg.min_hz..cfg.max_hz
           /\ rates(cfg) # {} => hz \in rates(cfg)
<1>1. CASE rates(cfg) = {}
  <2>1. hz = cfg.initial_hz
    BY <1>1 DEF nearest_rate
  <2> QED
    BY SMTT(30), <1>1, <2>1, Configured
<1>2. CASE rates(cfg) # {}
  <2>1. PICK q \in Int : q = cfg.initial_hz
    BY Configured
  <2>2. PICK N \in SUBSET rates(cfg) :
            N = {r \in rates(cfg) : \A o \in rates(cfg) : Distance(r, q) <= Distance(o, q)}
    OBVIOUS
  <2>3. N # {}
    BY <1>2, <2>2, RatesIn, NearestExists
  <2>4. hz = Fewest(N)
    BY <1>2, <2>1, <2>2 DEF nearest_rate
  <2>5. N \in SUBSET SAFE_RATES_HZ
    BY RatesIn
  <2>6. hz \in rates(cfg)
    BY <2>3, <2>4, <2>5, RatesHaveEnds
  <2>7. hz \in Int /\ cfg.min_hz <= hz /\ hz <= cfg.max_hz
    BY <2>6, RatesIn
  <2> QED
    BY SMTT(30), <2>6, <2>7, Configured
<1> QED
  BY <1>1, <1>2

\* Shedding: to a rate below the current one, or to the floor.
LEMMA Sheds ==
    ASSUME ConfigAgrees, current_hz \in cfg.min_hz..cfg.max_hz
    PROVE  \/ Shed = cfg.min_hz
           \/ Shed \in rates(cfg) /\ Shed < current_hz /\ current_hz # cfg.min_hz
<1>1. PICK hz \in Int : hz = current_hz /\ hz > 0 /\ hz >= cfg.min_hz
  BY SMTT(30), Configured
<1>2. PICK t \in Int : t = (hz * cfg.backoff) \div One /\ t < hz
  BY <1>1, Configured, BacksOff
<1>3. PICK low \in SUBSET rates(cfg) : low = {r \in rates(cfg) : r <= t}
  OBVIOUS
<1>4. Shed = IF low = {} THEN cfg.min_hz ELSE Most(low)
  BY <1>1, <1>2, <1>3 DEF Shed, lower_rate
<1>5. CASE low # {}
  <2>1. low \in SUBSET SAFE_RATES_HZ
    BY RatesIn
  <2>2. Shed \in low
    BY <1>4, <1>5, <2>1, RatesHaveEnds
  <2>3. Shed \in rates(cfg) /\ Shed <= t
    BY <1>3, <2>2
  <2>4. Shed \in Int /\ cfg.min_hz <= Shed
    BY <2>3, RatesIn
  <2>5. Shed < hz /\ hz # cfg.min_hz
    BY SMTT(30), <1>1, <1>2, <2>3, <2>4, Configured
  <2> QED
    BY <1>1, <2>3, <2>5
<1> QED
  BY <1>4, <1>5

\* The next rate is one further up, unless there is none.
LEMMA Climbs ==
    ASSUME ConfigAgrees
    PROVE  \/ next_rate(current_hz, cfg) = current_hz /\ Above = {}
           \/ next_rate(current_hz, cfg) \in Above
<1>1. Above \in SUBSET SAFE_RATES_HZ
  BY RatesIn DEF Above
<1>2. next_rate(current_hz, cfg) = IF Above = {} THEN current_hz ELSE Fewest(Above)
  BY DEF next_rate, Above
<1> QED
  BY <1>1, <1>2, RatesHaveEnds

\* The average of two samples lies between 0 and the larger one.
LEMMA Averages ==
    ASSUME NEW most \in Nat, NEW sample \in 0..most, ewma_utilization \in {Unmeasured} \cup 0..most
    PROVE  Smoothed(sample) \in 0..most
<1>1. CASE ewma_utilization = Unmeasured
  BY <1>1 DEF Smoothed
<1>2. CASE ewma_utilization \in 0..most /\ ewma_utilization # Unmeasured
  <2>1. PICK e \in 0..most : e = ewma_utilization
    BY <1>2
  <2>2. Smoothed(sample) = IF sample >= e THEN e + (sample - e + 7) \div 8 ELSE e - (e - sample + 7) \div 8
    BY <1>2, <2>1 DEF Smoothed
  <2> QED
    BY SMTT(30), <2>2
<1> QED
  BY <1>1, <1>2

\* A ghost counter goes up by one until it reaches its bound.
Up(n, bound) == IF n < bound THEN n + 1 ELSE n

\* How many safe rates are in range.
Steps == Cardinality(rates(cfg))

\* What a tick does to a controller that is switched off,
OffTick ==
    /\ ~cfg.enabled /\ current_hz' = current_hz /\ headroom_samples' = headroom_samples
    /\ calmFor' \in {0, Up(calmFor, cfg.recovery_window * (Steps + 1))}
    /\ loadFor' \in {0, Up(loadFor, Steps + 1)}
    /\ heldFor' = Up(heldFor, cfg.recovery_window)

\* when it finds overload,
LoadTick ==
    /\ cfg.enabled /\ current_hz' = Shed /\ headroom_samples' = 0 /\ calmFor' = 0
    /\ loadFor' = Up(loadFor, Steps + 1)
    /\ heldFor' \in {0, Up(heldFor, cfg.recovery_window)}

\* neither overload nor headroom,
EvenTick ==
    /\ cfg.enabled /\ current_hz' = current_hz /\ headroom_samples' = 0 /\ calmFor' = 0 /\ loadFor' = 0
    /\ heldFor' = Up(heldFor, cfg.recovery_window)

\* headroom that fills the window,
FullTick ==
    /\ cfg.enabled /\ headroom_samples + 1 >= cfg.recovery_window
    /\ current_hz' = next_rate(current_hz, cfg) /\ headroom_samples' = 0 /\ loadFor' = 0
    /\ calmFor' = Up(calmFor, cfg.recovery_window * (Steps + 1))
    /\ heldFor' \in {0, Up(heldFor, cfg.recovery_window)}

\* and headroom that does not.
CalmTick ==
    /\ cfg.enabled /\ ~(headroom_samples + 1 >= cfg.recovery_window)
    /\ current_hz' = current_hz /\ headroom_samples' = headroom_samples + 1 /\ loadFor' = 0
    /\ calmFor' = Up(calmFor, cfg.recovery_window * (Steps + 1))
    /\ heldFor' = Up(heldFor, cfg.recovery_window)

\* A tick does one of these.
LEMMA TickCases ==
    ASSUME SyncTicks
    PROVE  /\ cfg' = cfg /\ (timer = current_hz => timer' = current_hz')
           /\ \E sample \in Samples : ewma_utilization' = Smoothed(sample)
           /\ OffTick \/ LoadTick \/ EvenTick \/ FullTick \/ CalmTick
<1>1. PICK sample \in Samples, pressure \in Pressures :
        /\ observe(sample, pressure)
        /\ timer' = IF current_hz' # current_hz THEN current_hz' ELSE timer
        /\ cfg' = cfg
  BY DEF SyncTicks
<1>2. PICK over \in BOOLEAN : over = Overloaded(sample, pressure, Smoothed(sample))
  BY DEF Overloaded
<1>3. PICK room \in BOOLEAN : room = (~over /\ Headroom(pressure, Smoothed(sample)))
  OBVIOUS
<1>4. PICK after : after = IF cfg.enabled THEN After(over, room)
                           ELSE [hz |-> current_hz, samples |-> headroom_samples]
  OBVIOUS
<1>5. /\ ewma_utilization' = Smoothed(sample)
      /\ current_hz' = after.hz /\ headroom_samples' = after.samples
      /\ calmFor' = IF ~room THEN 0 ELSE Up(calmFor, cfg.recovery_window * (Steps + 1))
      /\ loadFor' = IF ~over THEN 0 ELSE Up(loadFor, Steps + 1)
      /\ heldFor' = IF ~(after.hz = current_hz) THEN 0 ELSE Up(heldFor, cfg.recovery_window)
  BY <1>1, <1>2, <1>3, <1>4 DEF observe, Up, Steps
<1>6. ASSUME ~cfg.enabled PROVE OffTick
  <2>1. after = [hz |-> current_hz, samples |-> headroom_samples]
    BY <1>4, <1>6
  <2>2. after.hz = current_hz /\ after.samples = headroom_samples
    BY SMTT(30), <2>1
  <2> QED
    BY <1>5, <1>6, <2>1, <2>2 DEF OffTick
<1>7. ASSUME cfg.enabled /\ over PROVE LoadTick
  <2>1. after = [hz |-> Shed, samples |-> 0] /\ ~room
    BY <1>3, <1>4, <1>7 DEF After
  <2>2. after.hz = Shed /\ after.samples = 0
    BY SMTT(30), <2>1
  <2> QED
    BY <1>5, <1>7, <2>1, <2>2 DEF LoadTick
<1>8. ASSUME cfg.enabled /\ ~over /\ ~room PROVE EvenTick
  <2>1. after = [hz |-> current_hz, samples |-> 0]
    BY <1>4, <1>8 DEF After
  <2>2. after.hz = current_hz /\ after.samples = 0
    BY SMTT(30), <2>1
  <2> QED
    BY <1>5, <1>8, <2>1, <2>2 DEF EvenTick
<1>9. ASSUME cfg.enabled /\ ~over /\ room /\ headroom_samples + 1 >= cfg.recovery_window PROVE FullTick
  <2>1. after = [hz |-> next_rate(current_hz, cfg), samples |-> 0]
    BY <1>4, <1>9 DEF After, WindowFull
  <2>2. after.hz = next_rate(current_hz, cfg) /\ after.samples = 0
    BY SMTT(30), <2>1
  <2> QED
    BY <1>5, <1>9, <2>1, <2>2 DEF FullTick
<1>10. ASSUME cfg.enabled /\ ~over /\ room /\ ~(headroom_samples + 1 >= cfg.recovery_window) PROVE CalmTick
  <2>1. after = [hz |-> current_hz, samples |-> headroom_samples + 1]
    BY <1>4, <1>10 DEF After, WindowFull
  <2>2. after.hz = current_hz /\ after.samples = headroom_samples + 1
    BY SMTT(30), <2>1
  <2> QED
    BY <1>5, <1>10, <2>1, <2>2 DEF CalmTick
<1>11. OffTick \/ LoadTick \/ EvenTick \/ FullTick \/ CalmTick
  BY <1>6, <1>7, <1>8, <1>9, <1>10
<1>12. timer = current_hz => timer' = current_hz'
  BY <1>1
<1> QED
  BY <1>1, <1>5, <1>11, <1>12

\* The rate is in range, and the interval that runs is the controller's.
RateAgrees ==
    /\ current_hz \in cfg.min_hz..cfg.max_hz /\ timer = current_hz
    /\ rates(cfg) # {} => current_hz \in rates(cfg) \/ current_hz = cfg.min_hz

\* The headroom counted so far was found in a row, and at this rate.
CountsAgree ==
    /\ headroom_samples \in Nat /\ calmFor \in Nat /\ loadFor \in Nat
    /\ heldFor \in 0..cfg.recovery_window
    /\ headroom_samples < cfg.recovery_window
    /\ headroom_samples <= calmFor /\ headroom_samples <= heldFor
    /\ ~cfg.enabled => headroom_samples = 0

\* Every tick of overload in a row left a safe rate behind, down to the floor.
SheddingAgrees ==
    cfg.enabled => current_hz = cfg.min_hz \/ Cardinality(Below) <= Steps - loadFor

\* Every window of headroom in a row left a safe rate behind, up to the highest.
ClimbingAgrees ==
    cfg.enabled => Above = {} \/ calmFor <= cfg.recovery_window * (Steps - Cardinality(Above)) + headroom_samples

\* The average is one of what the ticks can take.
AverageAgrees == ewma_utilization \in {Unmeasured} \cup 0..Most(Samples)

\* The inductive invariant.
TickInv ==
    /\ ConfigAgrees /\ RateAgrees /\ CountsAgree /\ AverageAgrees
    /\ SheddingAgrees /\ ClimbingAgrees

\* The sizes the invariant counts with.
LEMMA Counting ==
    ASSUME ConfigAgrees
    PROVE  /\ Steps \in Nat /\ Cardinality(Below) \in Nat /\ Cardinality(Above) \in Nat
           /\ Cardinality(Below) <= Steps /\ Cardinality(Above) <= Steps
           /\ Below \in SUBSET SAFE_RATES_HZ /\ Above \in SUBSET SAFE_RATES_HZ
<1>1. rates(cfg) \in SUBSET SAFE_RATES_HZ /\ Below \in SUBSET rates(cfg) /\ Above \in SUBSET rates(cfg)
  BY RatesIn DEF Below, Above
<1>2. IsFiniteSet(rates(cfg)) /\ Steps \in Nat
  BY <1>1, RatesFinite DEF Steps
<1>3. Cardinality(Below) <= Steps /\ Cardinality(Above) <= Steps
  BY <1>1, <1>2, FS_Subset DEF Steps
<1>4. Cardinality(Below) \in Nat /\ Cardinality(Above) \in Nat
  BY <1>1, RatesFinite
<1> QED
  BY <1>1, <1>2, <1>3, <1>4

\* The longest tick.
LEMMA Longest == Most(Samples) \in Nat /\ \A s \in Samples : s \in 0..Most(Samples)
<1>1. Most(Samples) \in Samples /\ \A s \in Samples : Most(Samples) >= s
  BY TickAssumption DEF TickAssumption, Most
<1>2. Samples \subseteq Nat
  BY TickAssumption DEF TickAssumption
<1>3. PICK m \in Nat : m = Most(Samples)
  BY <1>1, <1>2
<1>4. \A s \in Samples : s \in Nat /\ m >= s
  BY <1>1, <1>2, <1>3
<1>5. \A s \in Samples : s \in 0..m
  BY SMTT(30), <1>4
<1> QED
  BY <1>3, <1>5

\* Windows add up.
LEMMA WindowsAdd ==
    ASSUME NEW w \in Int, w > 0, NEW n \in Int
    PROVE  /\ w * n \in Int
           /\ n >= 0 => w * n >= 0
           /\ \A m \in Int : m <= n - 1 => w * m + w <= w * n
<1>1. w * n \in Int /\ (n >= 0 => w * n >= 0)
  BY SMTT(30)
<1>2. ASSUME NEW m \in Int, m <= n - 1 PROVE w * m + w <= w * n
  <2>1. PICK k \in Int : k = n - 1 - m /\ k >= 0
    BY SMTT(30), <1>2
  <2>2. w * k >= 0 /\ w * k \in Int
    BY SMTT(30), <2>1
  <2>3. w * n = w * m + w + w * k
    BY SMTT(30), <2>1
  <2> QED
    BY SMTT(30), <2>2, <2>3
<1> QED
  BY <1>1, <1>2

\* The inductive invariant implies the property.
LEMMA TickHonest == TickInv => RateBounded
<1> SUFFICES ASSUME TickInv PROVE RateBounded
  OBVIOUS
<1>1. ConfigAgrees /\ RateAgrees /\ CountsAgree /\ AverageAgrees /\ SheddingAgrees /\ ClimbingAgrees
  BY DEF TickInv
<1>2. TickTypeOK
  BY <1>1 DEF TickTypeOK, ConfigAgrees, RateAgrees, CountsAgree, AverageAgrees
<1>3. ShedsToFloor
  <2>1. SUFFICES ASSUME cfg.enabled, loadFor > Steps PROVE current_hz = cfg.min_hz
    BY DEF ShedsToFloor, Steps
  <2>2. ASSUME Cardinality(Below) <= Steps - loadFor PROVE FALSE
    BY SMTT(30), <1>1, <2>1, <2>2, Counting DEF CountsAgree
  <2> QED
    BY <1>1, <2>1, <2>2 DEF SheddingAgrees
<1>4. RecoversInTime
  <2>1. SUFFICES ASSUME cfg.enabled, rates(cfg) # {}, calmFor >= cfg.recovery_window * Steps
                 PROVE  current_hz = Most(rates(cfg))
    BY DEF RecoversInTime, Steps
  <2>2. Above = {}
    <3>1. SUFFICES ASSUME Above # {} PROVE FALSE
      OBVIOUS
    <3>2. calmFor <= cfg.recovery_window * (Steps - Cardinality(Above)) + headroom_samples
      BY <1>1, <2>1, <3>1 DEF ClimbingAgrees
    <3>3. PICK a \in Nat : a = Cardinality(Above) /\ a # 0
      <4>1. IsFiniteSet(Above)
        BY <1>1, Counting, RatesFinite
      <4> QED
        BY <1>1, <3>1, <4>1, Counting, FS_EmptySet
    <3>4. PICK w \in Int : w = cfg.recovery_window /\ w > 0
      BY <1>1, Configured
    <3>5. PICK n \in Nat : n = Steps
      BY <1>1, Counting
    <3>6. n \in Int /\ n - a \in Int /\ n - a <= n - 1
      BY SMTT(30), <3>3, <3>5
    <3>7. PICK x \in Int : x = w * n
      BY <3>4, <3>6, WindowsAdd
    <3>8. PICK y \in Int : y = w * (n - a)
      BY <3>4, <3>6, WindowsAdd
    <3>9. y + w <= x
      BY <3>4, <3>6, <3>7, <3>8, WindowsAdd
    <3>10. calmFor <= y + headroom_samples /\ calmFor >= x
      BY <2>1, <3>2, <3>3, <3>4, <3>5, <3>7, <3>8
    <3>11. headroom_samples \in Nat /\ calmFor \in Nat /\ headroom_samples < w
      BY <1>1, <3>4 DEF CountsAgree
    <3> QED
      BY SMTT(30), <3>4, <3>9, <3>10, <3>11
  <2>3. rates(cfg) \in SUBSET SAFE_RATES_HZ /\ \A r \in rates(cfg) : r \in Int /\ cfg.min_hz <= r
    BY <1>1, RatesIn
  <2>4. Most(rates(cfg)) \in rates(cfg) /\ \A y \in rates(cfg) : Most(rates(cfg)) >= y
    BY <2>1, <2>3, RatesHaveEnds
  <2>5. PICK m \in Int : m = Most(rates(cfg)) /\ cfg.min_hz <= m
    BY <2>3, <2>4
  <2>6. ~(m > current_hz)
    BY <2>2, <2>4, <2>5 DEF Above
  <2>7. current_hz \in rates(cfg) => m >= current_hz
    BY <2>4, <2>5
  <2>8. current_hz \in rates(cfg) \/ current_hz = cfg.min_hz
    BY <1>1, <2>1 DEF RateAgrees
  <2>9. current_hz \in Int
    BY SMTT(30), <1>1, Configured DEF RateAgrees
  <2>10. current_hz = m
    BY SMTT(30), <2>5, <2>6, <2>7, <2>8, <2>9
  <2> QED
    BY <2>5, <2>10
<1> QED
  BY <1>2, <1>3, <1>4 DEF RateBounded

\* It holds when the controller starts.
LEMMA RateStart == TickInit => TickInv
<1> SUFFICES ASSUME TickInit PROVE TickInv
  OBVIOUS
<1>1. ConfigAgrees
  BY DEF TickInit, ConfigAgrees
<1>2. RateAgrees
  BY <1>1, StartsInRange DEF TickInit, RateAgrees
<1>3. CountsAgree
  <2>1. headroom_samples = 0 /\ calmFor = 0 /\ loadFor = 0 /\ heldFor = 0
    BY DEF TickInit
  <2>2. PICK w \in Int : w = cfg.recovery_window /\ w > 0
    BY <1>1, Configured
  <2>3. 0 \in Nat /\ 0 \in 0..w /\ 0 < w /\ 0 <= 0
    BY SMTT(30), <2>2
  <2> QED
    BY <2>1, <2>2, <2>3 DEF CountsAgree
<1>4. AverageAgrees
  BY DEF TickInit, AverageAgrees
<1>5. SheddingAgrees
  <2>1. Cardinality(Below) <= Steps - loadFor
    BY SMTT(30), <1>1, Counting DEF TickInit
  <2> QED
    BY <2>1 DEF SheddingAgrees
<1>6. ClimbingAgrees
  <2>1. PICK n \in Int : n = Steps - Cardinality(Above) /\ n >= 0
    BY SMTT(30), <1>1, Counting
  <2>2. PICK x \in Int : x = cfg.recovery_window * n /\ x >= 0
    BY <1>1, <2>1, Configured, WindowsAdd
  <2>3. calmFor <= x + headroom_samples
    BY SMTT(30), <2>2 DEF TickInit
  <2> QED
    BY <2>1, <2>2, <2>3 DEF ClimbingAgrees
<1> QED
  BY <1>1, <1>2, <1>3, <1>4, <1>5, <1>6 DEF TickInv

\* A tick leaves the rate in range.
LEMMA RateStays ==
    ASSUME TickInv, SyncTicks
    PROVE  RateAgrees'
<1>1. ConfigAgrees /\ RateAgrees
  BY DEF TickInv
<1>2. cfg' = cfg /\ timer' = current_hz'
  BY <1>1, TickCases DEF RateAgrees
<1>3. PICK r : r = rates(cfg)
  OBVIOUS
<1>4. rates(cfg)' = r
  BY <1>2, <1>3 DEF rates
<1>5. \/ current_hz' = current_hz \/ current_hz' = cfg.min_hz \/ current_hz' \in rates(cfg)
  <2>1. current_hz' = current_hz \/ current_hz' = Shed \/ current_hz' = next_rate(current_hz, cfg)
    BY TickCases DEF OffTick, LoadTick, EvenTick, FullTick, CalmTick
  <2>2. Shed = cfg.min_hz \/ Shed \in rates(cfg)
    BY <1>1, Sheds DEF RateAgrees
  <2>3. next_rate(current_hz, cfg) = current_hz \/ next_rate(current_hz, cfg) \in rates(cfg)
    BY <1>1, Climbs DEF Above
  <2> QED
    BY <2>1, <2>2, <2>3
<1>6. cfg.min_hz \in cfg.min_hz..cfg.max_hz
  BY SMTT(30), <1>1, Configured
<1>7. \A x \in rates(cfg) : x \in cfg.min_hz..cfg.max_hz
  BY SMTT(30), <1>1, RatesIn, Configured
<1>8. current_hz' \in cfg.min_hz..cfg.max_hz
  BY <1>1, <1>5, <1>6, <1>7 DEF RateAgrees
<1>9. r # {} => current_hz' \in r \/ current_hz' = cfg.min_hz
  BY <1>1, <1>3, <1>5 DEF RateAgrees
<1> QED
  BY <1>2, <1>4, <1>8, <1>9 DEF RateAgrees

\* A tick keeps the counts in step.
LEMMA CountsStay ==
    ASSUME TickInv, SyncTicks
    PROVE  CountsAgree'
<1>1. ConfigAgrees /\ CountsAgree
  BY DEF TickInv
<1>2. PICK w \in Int : w = cfg.recovery_window /\ w > 0
  BY <1>1, Configured
<1>3. PICK b \in Int : b = w * (Steps + 1) /\ b >= w
  <2>1. PICK n \in Int : n = Steps + 1 /\ n - 1 >= 0
    BY SMTT(30), <1>1, Counting
  <2>2. 0 \in Int /\ 0 <= n - 1
    BY SMTT(30), <2>1
  <2>3. PICK x \in Int : x = w * n /\ w * 0 + w <= x
    BY <1>2, <2>1, <2>2, WindowsAdd
  <2>4. x >= w
    BY SMTT(30), <1>2, <2>3
  <2> QED
    BY <2>1, <2>3, <2>4
<1>4. PICK c \in Int : c = Steps + 1
  BY SMTT(30), <1>1, Counting
<1>5. /\ headroom_samples \in Nat /\ calmFor \in Nat /\ loadFor \in Nat /\ heldFor \in 0..w
      /\ headroom_samples < w /\ headroom_samples <= calmFor /\ headroom_samples <= heldFor
  BY <1>1, <1>2 DEF CountsAgree
<1>6. cfg' = cfg
  BY TickCases
<1>7. /\ Up(calmFor, b) \in Nat /\ Up(loadFor, c) \in Nat /\ Up(heldFor, w) \in 0..w
      /\ headroom_samples + 1 < w => /\ headroom_samples + 1 <= Up(calmFor, b)
                                     /\ headroom_samples + 1 <= Up(heldFor, w)
  BY SMTT(30), <1>2, <1>3, <1>4, <1>5 DEF Up
<1>8. /\ calmFor' \in {0, Up(calmFor, b)} /\ loadFor' \in {0, Up(loadFor, c)}
      /\ heldFor' \in {0, Up(heldFor, w)}
  BY <1>2, <1>3, <1>4, TickCases DEF OffTick, LoadTick, EvenTick, FullTick, CalmTick
<1>9. 0 \in Nat /\ 0 \in 0..w /\ 0 < w /\ \A n \in Nat : 0 <= n
  BY SMTT(30), <1>2
<1>10. calmFor' \in Nat /\ loadFor' \in Nat /\ heldFor' \in 0..w /\ 0 <= calmFor' /\ 0 <= heldFor'
  <2>1. calmFor' \in Nat /\ loadFor' \in Nat /\ heldFor' \in 0..w
    BY <1>7, <1>8, <1>9
  <2> QED
    BY SMTT(30), <1>2, <2>1
<1>11. CASE headroom_samples' = 0
  BY <1>2, <1>6, <1>9, <1>10, <1>11 DEF CountsAgree
<1>12. CASE CalmTick
  <2>1. /\ cfg.enabled /\ headroom_samples' = headroom_samples + 1
        /\ calmFor' = Up(calmFor, b) /\ heldFor' = Up(heldFor, w) /\ ~(headroom_samples + 1 >= w)
    BY <1>2, <1>3, <1>12 DEF CalmTick
  <2>2. headroom_samples + 1 \in Nat /\ headroom_samples + 1 < w
    BY SMTT(30), <1>2, <1>5, <2>1
  <2> QED
    BY <1>2, <1>6, <1>7, <1>10, <2>1, <2>2 DEF CountsAgree
<1> QED
  BY <1>1, <1>11, <1>12, TickCases DEF CountsAgree, OffTick, LoadTick, EvenTick, FullTick

\* Where the rate stands after a tick that leaves the configuration alone.
LEMMA StandsAfter ==
    ASSUME ConfigAgrees, cfg' = cfg
    PROVE  /\ Steps' = Steps /\ Below' = {r \in rates(cfg) : r < current_hz'}
           /\ Above' = {r \in rates(cfg) : r > current_hz'}
           /\ Cardinality(Below') \in Nat /\ Cardinality(Below') <= Steps
           /\ Cardinality(Above') \in Nat /\ Cardinality(Above') <= Steps
<1>1. rates(cfg)' = rates(cfg)
  BY DEF rates
<1>2. Steps' = Steps
  BY <1>1 DEF Steps
<1>3. PICK B \in SUBSET rates(cfg) : B = Below' /\ B = {r \in rates(cfg) : r < current_hz'}
  BY <1>1 DEF Below
<1>4. PICK A \in SUBSET rates(cfg) : A = Above' /\ A = {r \in rates(cfg) : r > current_hz'}
  BY <1>1 DEF Above
<1>5. A \in SUBSET SAFE_RATES_HZ /\ B \in SUBSET SAFE_RATES_HZ /\ IsFiniteSet(rates(cfg))
  BY RatesIn, RatesFinite
<1>6. Cardinality(A) \in Nat /\ Cardinality(B) \in Nat
  BY <1>5, RatesFinite
<1>7. Cardinality(A) <= Steps /\ Cardinality(B) <= Steps
  BY <1>5, FS_Subset DEF Steps
<1> QED
  BY <1>2, <1>3, <1>4, <1>6, <1>7

\* A tick of overload leaves a safe rate behind.
LEMMA SheddingStays ==
    ASSUME TickInv, SyncTicks
    PROVE  SheddingAgrees'
<1>1. ConfigAgrees /\ RateAgrees /\ CountsAgree /\ SheddingAgrees
  BY DEF TickInv
<1>2. cfg' = cfg
  BY TickCases
<1>3. Steps \in Nat /\ loadFor \in Nat /\ current_hz \in Int
  <2>1. current_hz \in cfg.min_hz..cfg.max_hz
    BY <1>1 DEF RateAgrees
  <2>2. current_hz \in Int
    BY SMTT(30), <1>1, <2>1, Configured
  <2> QED
    BY <1>1, <2>2, Counting DEF CountsAgree
<1>4. SUFFICES ASSUME cfg.enabled, current_hz' # cfg.min_hz PROVE Cardinality(Below') <= Steps - loadFor'
  BY <1>1, <1>2, StandsAfter DEF SheddingAgrees
<1>5. CASE loadFor' = 0
  BY SMTT(30), <1>1, <1>2, <1>3, <1>5, StandsAfter
<1>6. CASE LoadTick
  <2>1. current_hz' = Shed /\ loadFor' = Up(loadFor, Steps + 1)
    BY <1>6 DEF LoadTick
  <2>2. current_hz' \in rates(cfg) /\ current_hz' < current_hz /\ current_hz # cfg.min_hz
    BY <1>1, <1>4, <2>1, Sheds DEF RateAgrees
  <2>3. Cardinality(Below) <= Steps - loadFor
    BY <1>1, <1>4, <2>2 DEF SheddingAgrees
  <2>4. PICK hz \in Int : hz = current_hz'
    BY <1>1, <2>2, RatesIn
  <2>5. PICK B \in SUBSET rates(cfg) : B = Below' /\ B = {r \in rates(cfg) : r < hz}
    BY <1>1, <1>2, <2>4, StandsAfter
  <2>6. PICK C \in SUBSET rates(cfg) : C = Below /\ C = {r \in rates(cfg) : r < current_hz}
    BY DEF Below
  <2>7. hz \in C /\ hz \notin B /\ B \in SUBSET C
    <3>1. ~(hz < hz) /\ \A r \in rates(cfg) : r < hz => r < current_hz
      BY SMTT(30), <1>1, <1>3, <2>2, <2>4, RatesIn
    <3> QED
      BY <2>2, <2>4, <2>5, <2>6, <3>1
  <2>8. C \in SUBSET SAFE_RATES_HZ
    BY <1>1, RatesIn
  <2>9. Cardinality(B) <= Cardinality(C) - 1
    BY <2>7, <2>8, FewerRates
  <2>10. Cardinality(B) \in Nat /\ Cardinality(C) \in Nat
    BY <2>7, <2>8, RatesFinite
  <2>11. Cardinality(B) <= Steps - Up(loadFor, Steps + 1)
    BY SMTT(30), <1>3, <2>3, <2>6, <2>9, <2>10 DEF Up
  <2> QED
    BY <2>1, <2>5, <2>11
<1> QED
  BY <1>4, <1>5, <1>6, TickCases DEF OffTick, EvenTick, FullTick, CalmTick

\* A window of headroom leaves a safe rate behind.
LEMMA ClimbingStays ==
    ASSUME TickInv, SyncTicks
    PROVE  ClimbingAgrees'
<1>1. ConfigAgrees /\ RateAgrees /\ CountsAgree /\ ClimbingAgrees /\ CountsAgree'
  BY CountsStay DEF TickInv
<1>2. cfg' = cfg
  BY TickCases
<1>3. PICK w \in Int : w = cfg.recovery_window /\ w > 0
  BY <1>1, Configured
<1>4. /\ headroom_samples \in Nat /\ calmFor \in Nat /\ headroom_samples < w
      /\ headroom_samples' \in Nat /\ calmFor' \in Nat
  BY <1>1, <1>3 DEF CountsAgree
<1>5. PICK n \in Nat : n = Steps
  BY <1>1, Counting
<1>6. PICK A \in SUBSET rates(cfg) : A = Above /\ A = {r \in rates(cfg) : r > current_hz}
  BY DEF Above
<1>7. PICK A2 \in SUBSET rates(cfg) : A2 = Above' /\ A2 = {r \in rates(cfg) : r > current_hz'}
  BY <1>1, <1>2, StandsAfter
<1>8. PICK a \in Nat : a = Cardinality(A) /\ a <= n
  BY <1>1, <1>5, <1>6, Counting
<1>9. PICK a2 \in Nat : a2 = Cardinality(A2) /\ a2 <= n
  BY <1>1, <1>2, <1>5, <1>7, StandsAfter
<1>10. SUFFICES ASSUME cfg.enabled, A2 # {} PROVE calmFor' <= w * (n - a2) + headroom_samples'
  BY <1>1, <1>2, <1>3, <1>5, <1>7, <1>9, StandsAfter DEF ClimbingAgrees
<1>11. n - a \in Int /\ n - a2 \in Int /\ n - a2 >= 0
  BY SMTT(30), <1>8, <1>9
<1>12. PICK y \in Int : y = w * (n - a)
  BY <1>3, <1>11, WindowsAdd
<1>13. PICK y2 \in Int : y2 = w * (n - a2) /\ y2 >= 0
  BY <1>3, <1>11, WindowsAdd
<1>14. SUFFICES calmFor' <= y2 + headroom_samples'
  BY <1>13
<1>15. A = {} \/ calmFor <= y + headroom_samples
  BY <1>1, <1>3, <1>5, <1>6, <1>8, <1>10, <1>12 DEF ClimbingAgrees
<1>16. CASE calmFor' = 0
  <2>1. y2 \in Int /\ y2 >= 0
    BY <1>13
  <2>2. \A h \in Nat : 0 <= y2 + h
    BY SMTT(30), <2>1
  <2> QED
    BY <1>4, <1>16, <2>2
<1>17. \A b : Up(calmFor, b) <= calmFor + 1
  BY SMTT(30), <1>4 DEF Up
<1>18. CASE CalmTick
  <2>1. current_hz' = current_hz /\ headroom_samples' = headroom_samples + 1 /\ calmFor' <= calmFor + 1
    BY <1>17, <1>18 DEF CalmTick
  <2>2. A2 = A
    BY <1>6, <1>7, <2>1
  <2>3. y2 = y /\ calmFor <= y + headroom_samples
    BY <1>8, <1>9, <1>10, <1>12, <1>13, <1>15, <2>2
  <2> QED
    BY SMTT(30), <1>4, <1>12, <1>13, <2>1, <2>3
<1>19. CASE FullTick
  <2>1. current_hz' = next_rate(current_hz, cfg) /\ headroom_samples' = 0 /\ calmFor' <= calmFor + 1
    BY <1>17, <1>19 DEF FullTick
  <2>2. current_hz' \in A
    BY <1>1, <1>6, <1>7, <1>10, <2>1, Climbs
  <2>3. PICK hz \in Int : hz = current_hz' /\ hz > current_hz
    BY <1>1, <1>6, <2>2, RatesIn
  <2>4. current_hz \in Int
    BY SMTT(30), <1>1, Configured DEF RateAgrees
  <2>5. ~(hz > hz) /\ \A r \in rates(cfg) : r > hz => r > current_hz
    BY SMTT(30), <1>1, <2>3, <2>4, RatesIn
  <2>6. hz \in A /\ hz \notin A2 /\ A2 \in SUBSET A
    BY <1>6, <1>7, <2>2, <2>3, <2>5
  <2>7. A \in SUBSET SAFE_RATES_HZ
    BY <1>1, RatesIn
  <2>8. a2 <= a - 1
    BY <1>8, <1>9, <2>6, <2>7, FewerRates
  <2>9. n - a <= (n - a2) - 1
    BY SMTT(30), <1>8, <1>9, <2>8
  <2>10. y + w <= y2
    BY <1>3, <1>11, <1>12, <1>13, <2>9, WindowsAdd
  <2>11. calmFor <= y + headroom_samples
    BY <1>15, <2>6
  <2> QED
    BY SMTT(30), <1>3, <1>4, <1>12, <1>13, <2>1, <2>10, <2>11
<1> QED
  BY <1>10, <1>16, <1>18, <1>19, TickCases DEF OffTick, LoadTick, EvenTick

\* Every tick preserves the inductive invariant.
LEMMA RateStep == TickInv /\ [TickNext]_tickVars => TickInv'
<1> SUFFICES ASSUME TickInv, [TickNext]_tickVars PROVE TickInv'
  OBVIOUS
<1>1. CASE SyncTicks
  <2>1. ConfigAgrees'
    BY <1>1, TickCases DEF TickInv, ConfigAgrees, Validated
  <2>2. AverageAgrees'
    <3>1. PICK sample \in Samples : ewma_utilization' = Smoothed(sample)
      BY <1>1, TickCases
    <3>2. PICK most \in Nat : most = Most(Samples) /\ sample \in 0..most
      BY Longest
    <3>3. ewma_utilization' \in 0..most
      BY <3>1, <3>2, Averages DEF TickInv, AverageAgrees
    <3> QED
      BY <3>2, <3>3 DEF AverageAgrees
  <2> QED
    BY <1>1, <2>1, <2>2, RateStays, CountsStay, SheddingStays, ClimbingStays DEF TickInv
<1>2. CASE UNCHANGED tickVars
  <2>1. ConfigAgrees' /\ RateAgrees' /\ CountsAgree' /\ AverageAgrees'
    BY <1>2 DEF TickInv, ConfigAgrees, Validated, RateAgrees, rates, CountsAgree, AverageAgrees, tickVars
  <2>2. SheddingAgrees' /\ ClimbingAgrees'
    BY <1>2 DEF TickInv, SheddingAgrees, ClimbingAgrees, Below, Above, Steps, rates, tickVars
  <2> QED
    BY <2>1, <2>2 DEF TickInv
<1> QED
  BY <1>1, <1>2 DEF TickNext

\* RateBounded: the tick rate stays within its configuration, overload that lasts
\* brings it to the floor in a tick for each safe rate, and headroom that lasts
\* brings it to the highest safe rate in a window for each, for any configuration
\* that validates and any load.
THEOREM RateAlwaysBounded == TickSpec => []RateBounded
<1>1. TickInit => TickInv
  BY RateStart
<1>2. TickInv /\ [TickNext]_tickVars => TickInv'
  BY RateStep
<1>3. TickInv => RateBounded
  BY TickHonest
<1> QED
  BY <1>1, <1>2, <1>3, PTL DEF TickSpec

\* The rate rises only on a tick that fills the window.
LEMMA OnlyFullRises ==
    ASSUME TickInv, SyncTicks, current_hz' > current_hz
    PROVE  calmFor' >= cfg.recovery_window /\ heldFor >= cfg.recovery_window - 1
<1>1. ConfigAgrees /\ RateAgrees /\ CountsAgree
  BY DEF TickInv
<1>2. current_hz \in Int /\ cfg.min_hz \in Int /\ current_hz >= cfg.min_hz
  BY SMTT(30), <1>1, Configured DEF RateAgrees
<1>3. FullTick
  <2>1. current_hz' # current_hz
    BY SMTT(30), <1>2
  <2>2. ~LoadTick
    <3>1. SUFFICES ASSUME LoadTick PROVE FALSE
      OBVIOUS
    <3>2. current_hz' = cfg.min_hz \/ (current_hz' \in rates(cfg) /\ current_hz' < current_hz)
      BY <1>1, <3>1, Sheds DEF LoadTick, RateAgrees
    <3>3. current_hz' \in Int
      BY <1>1, <1>2, <3>2, RatesIn
    <3> QED
      BY SMTT(30), <1>2, <3>2, <3>3
  <2> QED
    BY <2>1, <2>2, TickCases DEF OffTick, EvenTick, CalmTick
<1>4. PICK w \in Int : w = cfg.recovery_window /\ w > 0
  BY <1>1, Configured
<1>5. PICK b \in Int : b = w * (Steps + 1) /\ b >= w
  <2>1. PICK n \in Int : n = Steps + 1 /\ n - 1 >= 0
    BY SMTT(30), <1>1, Counting
  <2>2. 0 \in Int /\ 0 <= n - 1
    BY SMTT(30), <2>1
  <2>3. PICK x \in Int : x = w * n /\ w * 0 + w <= x
    BY <1>4, <2>1, <2>2, WindowsAdd
  <2>4. x >= w
    BY SMTT(30), <1>4, <2>3
  <2> QED
    BY <2>1, <2>3, <2>4
<1>6. calmFor' = Up(calmFor, b) /\ headroom_samples + 1 >= w
  BY <1>3, <1>4, <1>5 DEF FullTick
<1>7. /\ headroom_samples \in Nat /\ calmFor \in Nat /\ heldFor \in 0..w
      /\ headroom_samples <= calmFor /\ headroom_samples <= heldFor
  BY <1>1, <1>4 DEF CountsAgree
<1>8. b >= w
  BY <1>5
<1>9. calmFor' >= w /\ heldFor >= w - 1
  BY SMTT(30), <1>4, <1>6, <1>7, <1>8 DEF Up
<1> QED
  BY <1>4, <1>9

\* RiseIsEarned: the tick rate rises only after a whole window of ticks in a row
\* that all found headroom at this rate, for any configuration and any load.
THEOREM RisesAlwaysEarned == TickSpec => RiseIsEarned
<1>1. TickInit => TickInv
  BY RateStart
<1>2. TickInv /\ [TickNext]_tickVars => TickInv'
  BY RateStep
<1>3. TickInv /\ [TickNext]_tickVars
        => [current_hz' > current_hz => /\ calmFor' >= cfg.recovery_window
                                        /\ heldFor >= cfg.recovery_window - 1]_tickVars
  BY OnlyFullRises DEF TickNext
<1> QED
  BY <1>1, <1>2, <1>3, PTL DEF TickSpec, RiseIsEarned

-----------------------------------------------------------------------------
(* The registry. *)

USE RegistryAssumption DEF RegistryAssumption

\* An entity is never the marker of an empty id, and keeps its type when one of
\* the fields a handler writes changes.
LEMMA EntityTypes ==
    /\ \A e \in Entity : e # NoEntity
    /\ \A e \in Entity : [e EXCEPT !.placed = TRUE] \in Entity
    /\ \A e \in Entity, o \in Clients \cup {NoOwner} : [e EXCEPT !.owner = o] \in Entity
    /\ \A e \in Entity, b \in Buckets : [e EXCEPT !.bucket = b] \in Entity
    /\ \A u \in Uniqifiers, c \in Clients \cup {NoOwner}, b \in Buckets, p, s, q \in BOOLEAN :
          [uniq |-> u, owner |-> c, player |-> p, server |-> s, placed |-> q, bucket |-> b] \in Entity
  BY DEF Entity

\* Mirroring and placing keep what takeover, adoption and seeding do not write.
LEMMA EntityFields ==
    /\ \A e \in Entity : [e EXCEPT !.placed = TRUE].bucket = e.bucket
    /\ \A e \in Entity, o \in Clients \cup {NoOwner} : [e EXCEPT !.owner = o].bucket = e.bucket
    /\ \A e \in Entity, b \in Buckets : [e EXCEPT !.bucket = b].bucket = b
    /\ \A e \in Entity : e.bucket \in Buckets /\ e.owner \in Clients \cup {NoOwner}
  BY DEF Entity

\* A command of a script names an object id.
LEMMA CommandTypes ==
    /\ \A i \in ObjectIds : Spawn(i) \in Commands /\ Despawn(i) \in Commands
    /\ \A k \in Commands : k.id \in ObjectIds
  BY DEF Spawn, Despawn, Commands

\* Submitting a command keeps the queue typed, whether or not it has room.
LEMMA SubmitTyped ==
    ASSUME queue \in Seq(Commands), NEW command \in Commands, Submit(command)
    PROVE  queue' \in Seq(Commands)
  BY SMTT(30) DEF Submit

\* refresh_routing_source keeps the routing registry typed.
LEMMA RefreshSourceTyped ==
    ASSUME RegTypeOK, NEW c \in Clients, RefreshRoutingSource(c)
    PROVE  playerBucket' \in [Clients -> Buckets] /\ strict' \subseteq Buckets
  <1>1. script.player \in [Clients -> Buckets] /\ script.player[c] \in Buckets
    BY DEF RegTypeOK
  <1> QED BY <1>1 DEF RefreshRoutingSource, RegTypeOK

\* Seeding and adoption keep the entity table typed, and change neither which ids
\* have an entity nor the bucket of one.
LEMMA SeededTyped ==
    ASSUME RegTypeOK, NEW reported
    PROVE  /\ Seeded(reported) \in [ObjectIds -> Entity \cup {NoEntity}]
           /\ \A i \in ObjectIds : /\ Seeded(reported)[i] # NoEntity <=> Exists(i)
                                   /\ Exists(i) => Seeded(reported)[i].bucket = entities[i].bucket
  <1>1. \A i \in ObjectIds : entities[i] \in Entity \cup {NoEntity}
    BY DEF RegTypeOK
  <1> QED BY <1>1, EntityTypes, EntityFields DEF Seeded, Exists

\* Reassignment of ownerless entities yields entities.
LEMMA ReassignedTyped ==
    ASSUME NEW es \in [ObjectIds -> Entity \cup {NoEntity}], NEW fs \in Reassigned(es)
    PROVE  /\ fs \in [ObjectIds -> Entity \cup {NoEntity}]
           /\ \A i \in ObjectIds : /\ fs[i] # NoEntity <=> es[i] # NoEntity
                                   /\ es[i] # NoEntity => fs[i].bucket = es[i].bucket
  <1> DEFINE players == {es[i].owner : i \in {j \in ObjectIds :
                            es[j] # NoEntity /\ es[j].player /\ es[j].placed}}
             ownerless == {i \in ObjectIds :
                            es[i] # NoEntity /\ es[i].server /\ es[i].owner = NoOwner}
             adopted(nearest) == [i \in ObjectIds |->
                 IF i \in ownerless THEN [es[i] EXCEPT !.owner = nearest[i]] ELSE es[i]]
  <1>1. players \subseteq Clients \cup {NoOwner}
    BY SMTT(30), EntityFields
  <1>2. CASE players = {}
    BY <1>2 DEF Reassigned
  <1>3. CASE players # {}
    <2>1. PICK nearest \in [ownerless -> players] : fs = adopted(nearest)
      BY <1>3 DEF Reassigned
    <2>2. \A i \in ownerless : es[i] \in Entity /\ nearest[i] \in Clients \cup {NoOwner}
      BY <1>1
    <2> QED BY <2>1, <2>2, EntityTypes, EntityFields
  <1> QED BY <1>2, <1>3

-----------------------------------------------------------------------------
(* One step.                                                                *)

\* The inductive invariant.  BucketsAgree needs IdsMatchEntities: a spawn on a free
\* id finds no entity there, hence no bucket left over from an earlier one.
IInv == RegTypeOK /\ IdsMatchEntities /\ BucketsAgree

\* The parts of IInv that speak of object ids, in a form one step proves at once.
IdsInv ==
    /\ ids \in [ObjectIds -> {"Free", "Leased", "Used"}]
    /\ entities \in [ObjectIds -> Entity \cup {NoEntity}]
    /\ entityBucket \in [ObjectIds -> Buckets]
    /\ \A i \in ObjectIds : /\ ids[i] = "Used" <=> entities[i] # NoEntity
                            /\ entityBucket[i] = IF entities[i] # NoEntity
                                                 THEN entities[i].bucket ELSE 0

\* What is typed besides.
RestTyped ==
    /\ clients \subseteq Clients /\ left \subseteq Clients
    /\ leased \in [Clients -> SUBSET ObjectIds]
    /\ granted \in [Clients -> SUBSET ObjectIds]
    /\ playerBucket \in [Clients -> Buckets]
    /\ strict \subseteq Buckets
    /\ script \in [player : [Clients -> Buckets], entity : [ObjectIds -> Buckets],
                   strict : SUBSET Buckets]
    /\ changed \in BOOLEAN
    /\ nextId \in ObjectIds
    /\ queue \in Seq(Commands) /\ draining \in Seq(Commands)
    /\ task \in {"idle", "tick"}

\* The invariant is the part about object ids and the rest.
LEMMA IInvParts == IInv <=> IdsInv /\ RestTyped
  BY DEF IInv, IdsInv, RestTyped, RegTypeOK, IdsMatchEntities, BucketsAgree, Exists

\* The same of the next state.
LEMMA IInvPartsNext == IInv' <=> IdsInv' /\ RestTyped'
  BY DEF IInv, IdsInv, RestTyped, RegTypeOK, IdsMatchEntities, BucketsAgree, Exists

\* What the scripts set is a bucket.
LEMMA ScriptBuckets ==
    ASSUME RestTyped
    PROVE  /\ \A c \in Clients : script.player[c] \in Buckets
           /\ \A i \in ObjectIds : script.entity[i] \in Buckets
           /\ script.strict \subseteq Buckets
  BY DEF RestTyped

\* Every step keeps what is said of the object ids.
LEMMA IdsStep ==
    ASSUME IInv, [RegNext]_regVars
    PROVE  IdsInv'
  <1> USE DEF Exists
  <1>a. IdsInv /\ RestTyped /\ RegTypeOK
    BY IInvParts DEF IInv
  <1>b. \A i \in ObjectIds : entities[i] \in Entity \cup {NoEntity}
    BY <1>a DEF IdsInv
  <1>s. ASSUME UNCHANGED <<ids, entities, entityBucket>> PROVE IdsInv'
    BY <1>a, <1>s DEF IdsInv
  <1>1. ASSUME NEW c \in Clients, AddClient(c) PROVE IdsInv'
    BY <1>1, <1>s DEF AddClient
  <1>2. ASSUME NEW c \in Clients, LeaseObjectIds(c) PROVE IdsInv'
    <2>1. \A i \in Lowest({j \in 1 .. MaxObjectId - 1 : ids[j] = "Free"}, LeaseSize) :
             ids[i] = "Free"
      BY DEF Lowest
    <2> QED BY <1>a, <1>2, <2>1 DEF LeaseObjectIds, IdsInv, routingVars
  <1>3. ASSUME NEW c \in Clients, NEW i \in ObjectIds, NEW u \in Uniqifiers,
               NEW player \in BOOLEAN, ApplyCreate(c, i, u, player)
        PROVE  IdsInv'
    <2> DEFINE b == script.player[c]
               e == [uniq |-> u, owner |-> c, player |-> player, server |-> FALSE,
                     placed |-> Exists(i) /\ entities[i].placed, bucket |-> b]
    <2>1. CASE UNCHANGED <<ids, entities, entityBucket>>
      BY <2>1, <1>s
    <2>2. CASE /\ ids' = [ids EXCEPT ![i] = "Used"]
               /\ entities' = [entities EXCEPT ![i] = e]
               /\ entityBucket' = [entityBucket EXCEPT ![i] = b]
      <3>1. b \in Buckets
        BY <1>a, ScriptBuckets
      <3>2. (Exists(i) /\ entities[i].placed) \in BOOLEAN
        BY <1>b DEF Entity
      <3>3. e \in Entity /\ e # NoEntity /\ e.bucket = b
        BY <3>1, <3>2, EntityTypes
      <3> HIDE DEF e, b
      <3> QED BY <2>2, <3>1, <3>3, <1>a DEF IdsInv
    <2> QED BY <1>3, <2>1, <2>2 DEF ApplyCreate
  <1>4. ASSUME NEW c \in Clients, NEW i \in ObjectIds, NEW u \in Uniqifiers, ApplySync(c, i, u)
        PROVE  IdsInv'
    BY SMTT(30), <1>4, <1>a, <1>b, EntityTypes, EntityFields DEF ApplySync, OwnRecord, IdsInv
  <1>5. ASSUME NEW c \in Clients, NEW i \in ObjectIds, NEW u \in Uniqifiers, ApplyRemove(c, i, u)
        PROVE  IdsInv'
    <2>1. CASE OwnRecord(c, i, u)
      BY <1>5, <2>1, <1>a DEF ApplyRemove, IdsInv
    <2>2. CASE ~OwnRecord(c, i, u)
      BY <1>5, <2>2, <1>s DEF ApplyRemove
    <2> QED BY <2>1, <2>2
  <1>6. ASSUME NEW c \in Clients, NEW i \in ObjectIds, NEW t \in Clients, ApplyTakeover(c, i, t)
        PROVE  IdsInv'
    <2>1. CASE entities' = [entities EXCEPT ![i] = [@ EXCEPT !.owner = t]] /\ Exists(i)
      BY SMTT(30), <1>6, <2>1, <1>a, <1>b, EntityTypes, EntityFields DEF ApplyTakeover, IdsInv
    <2>2. CASE entities' = entities
      BY <1>6, <2>2, <1>s DEF ApplyTakeover
    <2> QED BY <1>6, <2>1, <2>2 DEF ApplyTakeover
  <1>7. ASSUME NEW c \in Clients, RemoveClient(c) PROVE IdsInv'
    <2> DEFINE orphaned == {i \in ObjectIds : Exists(i) /\ entities[i].owner = c}
               gone == {i \in orphaned : ~entities[i].server}
    <2>1. /\ ids' = [i \in ObjectIds |-> IF i \in gone \/ (i \in leased[c] /\ ids[i] = "Leased")
                                         THEN "Free" ELSE ids[i]]
          /\ entities' = [i \in ObjectIds |->
                             IF i \in gone THEN NoEntity
                             ELSE IF i \in orphaned THEN [entities[i] EXCEPT !.owner = NoOwner]
                             ELSE entities[i]]
          /\ entityBucket' = [i \in ObjectIds |-> IF i \in gone THEN 0 ELSE entityBucket[i]]
      BY <1>7 DEF RemoveClient
    <2>2. \A i \in orphaned : entities[i] \in Entity /\ Exists(i)
      BY <1>b
    <2>3. gone \subseteq orphaned /\ orphaned \subseteq ObjectIds
      OBVIOUS
    <2> HIDE DEF gone, orphaned
    <2> QED BY SMTT(30), <1>a, <1>b, <2>1, <2>2, <2>3, EntityTypes, EntityFields DEF IdsInv
  <1>8. ASSUME CreateNative \/ (\E i \in ObjectIds : DeleteNative(i) \/ \E b \in Buckets : SetEntityBucket(i, b))
               \/ (\E c \in Clients, b \in Buckets : SetPlayerBucket(c, b))
               \/ (\E b \in Buckets, mode \in {"strict", "inactive"} : SetLockdown(b, mode))
        PROVE  IdsInv'
    BY <1>8, <1>s DEF CreateNative, DeleteNative, SetEntityBucket, SetPlayerBucket, SetLockdown, routingVars
  <1>9. ASSUME TickStart PROVE IdsInv'
    <2>1. CASE changed
      <3>1. \A i \in ObjectIds : script.entity[i] \in Buckets
        BY <1>a, ScriptBuckets
      <3>2. /\ entityBucket' = [i \in ObjectIds |->
                                   IF Exists(i) THEN script.entity[i] ELSE entityBucket[i]]
            /\ entities' = [i \in ObjectIds |->
                               IF Exists(i) THEN [entities[i] EXCEPT !.bucket = script.entity[i]]
                               ELSE NoEntity]
            /\ ids' = ids
        BY <1>9, <2>1 DEF TickStart, RefreshRoutingState
      <3> QED BY SMTT(30), <1>a, <1>b, <3>1, <3>2, EntityTypes, EntityFields DEF IdsInv
    <2>2. CASE ~changed
      BY <1>9, <2>2, <1>s DEF TickStart, RefreshRoutingState, routingVars
    <2> QED BY <2>1, <2>2
  <1>10. ASSUME ApplyCommand PROVE IdsInv'
    <2> DEFINE i == Head(draining).id
    <2>1. i \in ObjectIds
      <3>1. Head(draining) \in Commands
        BY SMTT(30), <1>10, <1>a DEF ApplyCommand, RestTyped
      <3> QED BY <3>1, CommandTypes
    <2> HIDE DEF i
    <2>2. ASSUME NEW u \in Uniqifiers, SpawnServerEntity(i, u), UNCHANGED entityBucket PROVE IdsInv'
      <3> DEFINE e == [uniq |-> u, owner |-> NoOwner, player |-> FALSE, server |-> TRUE,
                       placed |-> TRUE, bucket |-> 0]
      <3>1. e \in Entity /\ e # NoEntity /\ e.bucket = 0
        BY EntityTypes
      <3>2. CASE ids[i] = "Free"
        <4>1. ids' = [ids EXCEPT ![i] = "Used"] /\ entities' = [entities EXCEPT ![i] = e]
          BY <2>2, <3>2 DEF SpawnServerEntity
        <4> HIDE DEF e
        <4> QED BY <4>1, <2>2, <3>1, <3>2, <2>1, <1>a DEF IdsInv
      <3>3. CASE ids[i] # "Free"
        BY <2>2, <3>3, <1>s DEF SpawnServerEntity
      <3> QED BY <3>2, <3>3
    <2>3. ASSUME DespawnEntity(i) PROVE IdsInv'
      BY <2>3, <2>1, <1>a DEF DespawnEntity, IdsInv
    <2> QED BY <1>10, <2>2, <2>3 DEF ApplyCommand, i
  <1>11. ASSUME TickEnd PROVE IdsInv'
    <2>1. PICK reported \in SUBSET clients : entities' \in Reassigned(Seeded(reported))
      BY <1>11 DEF TickEnd
    <2>2. UNCHANGED <<ids, entityBucket>>
      BY <1>11 DEF TickEnd, routingVars
    <2> QED BY SMTT(30), <2>1, <2>2, <1>a, SeededTyped, ReassignedTyped DEF IdsInv
  <1>12. CASE UNCHANGED regVars
    BY <1>12, <1>s DEF regVars, routingVars
  <1> QED
    BY <1>1, <1>2, <1>3, <1>4, <1>5, <1>6, <1>7, <1>8, <1>9, <1>10, <1>11, <1>12 DEF RegNext, Tick

\* Every step keeps the rest typed.
LEMMA RestStep ==
    ASSUME IInv, [RegNext]_regVars
    PROVE  RestTyped'
  <1>a. IdsInv /\ RestTyped /\ RegTypeOK
    BY IInvParts DEF IInv
  <1>1. ASSUME NEW c \in Clients, AddClient(c) PROVE RestTyped'
    BY <1>1, <1>a, RefreshSourceTyped DEF AddClient, RestTyped, scriptVars
  <1>2. ASSUME NEW c \in Clients, LeaseObjectIds(c) PROVE RestTyped'
    <2>1. Lowest({j \in 1 .. MaxObjectId - 1 : ids[j] = "Free"}, LeaseSize) \subseteq ObjectIds
      BY SMTT(30) DEF Lowest, ObjectIds
    <2> QED BY <1>a, <1>2, <2>1 DEF LeaseObjectIds, RestTyped, routingVars, scriptVars
  <1>3. ASSUME NEW c \in Clients, NEW i \in ObjectIds, NEW u \in Uniqifiers,
               NEW player \in BOOLEAN, ApplyCreate(c, i, u, player)
        PROVE  RestTyped'
    BY <1>3, <1>a, RefreshSourceTyped DEF ApplyCreate, RestTyped, scriptVars
  <1>4. ASSUME NEW c \in Clients, NEW i \in ObjectIds, NEW u \in Uniqifiers,
               ApplySync(c, i, u) \/ ApplyRemove(c, i, u)
        PROVE  RestTyped'
    BY <1>4, <1>a, RefreshSourceTyped DEF ApplySync, ApplyRemove, RestTyped, clientVars, scriptVars
  <1>5. ASSUME NEW c \in Clients, NEW i \in ObjectIds, NEW t \in Clients, ApplyTakeover(c, i, t)
        PROVE  RestTyped'
    BY <1>5, <1>a, RefreshSourceTyped DEF ApplyTakeover, RestTyped, clientVars, scriptVars
  <1>6. ASSUME NEW c \in Clients, RemoveClient(c) PROVE RestTyped'
    BY <1>6, <1>a DEF RemoveClient, RestTyped
  <1>7. ASSUME CreateNative PROVE RestTyped'
    <2>1. Spawn(nextId) \in Commands /\ nextId' \in ObjectIds
      BY SMTT(30), <1>7, <1>a, CommandTypes DEF CreateNative, RestTyped, ObjectIds
    <2>2. queue' \in Seq(Commands)
      BY <1>7, <1>a, <2>1, SubmitTyped DEF CreateNative, RestTyped
    <2> QED BY <1>7, <1>a, <2>1, <2>2 DEF CreateNative, RestTyped, clientVars, routingVars
  <1>8. ASSUME NEW i \in ObjectIds, DeleteNative(i) PROVE RestTyped'
    <2>1. queue' \in Seq(Commands)
      BY <1>8, <1>a, CommandTypes, SubmitTyped DEF DeleteNative, RestTyped
    <2> QED BY <1>8, <1>a, <2>1 DEF DeleteNative, RestTyped, clientVars, routingVars
  <1>9. ASSUME NEW i \in ObjectIds, NEW b \in Buckets, SetEntityBucket(i, b) PROVE RestTyped'
    BY <1>9, <1>a DEF SetEntityBucket, RestTyped, clientVars, routingVars
  <1>10. ASSUME NEW c \in Clients, NEW b \in Buckets, SetPlayerBucket(c, b) PROVE RestTyped'
    BY <1>10, <1>a DEF SetPlayerBucket, RestTyped, clientVars, routingVars
  <1>11. ASSUME NEW b \in Buckets, NEW mode, SetLockdown(b, mode) PROVE RestTyped'
    BY <1>11, <1>a DEF SetLockdown, RestTyped, clientVars, routingVars
  <1>12. ASSUME TickStart PROVE RestTyped'
    <2>1. playerBucket' \in [Clients -> Buckets] /\ strict' \subseteq Buckets /\ changed' \in BOOLEAN
      BY <1>12, <1>a, ScriptBuckets DEF TickStart, RefreshRoutingState, RestTyped, routingVars
    <2> QED BY SMTT(30), <1>12, <1>a, <2>1 DEF TickStart, RestTyped, clientVars
  <1>13. ASSUME ApplyCommand PROVE RestTyped'
    BY SMTT(30), <1>13, <1>a DEF ApplyCommand, RestTyped, clientVars, scriptVars
  <1>14. ASSUME TickEnd PROVE RestTyped'
    BY <1>14, <1>a DEF TickEnd, RestTyped, clientVars, routingVars, scriptVars
  <1>15. CASE UNCHANGED regVars
    BY <1>15, <1>a DEF regVars, RestTyped, clientVars, routingVars, scriptVars
  <1> QED
    BY <1>1, <1>2, <1>3, <1>4, <1>5, <1>6, <1>7, <1>8, <1>9, <1>10, <1>11, <1>12, <1>13, <1>14, <1>15
    DEF RegNext, Tick

\* The empty registry satisfies the invariant.
LEMMA InitIInv == RegInit => IInv
  <1> SUFFICES ASSUME RegInit PROVE IdsInv /\ RestTyped
    BY IInvParts
  <1>1. IdsInv
    BY DEF RegInit, IdsInv
  <1>2. RestTyped
    <2>1. MaxObjectId \in ObjectIds
      BY SMTT(30) DEF ObjectIds
    <2>2. queue \in Seq(Commands) /\ draining \in Seq(Commands)
      BY SMTT(30) DEF RegInit
    <2>3. script \in [player : [Clients -> Buckets], entity : [ObjectIds -> Buckets],
                     strict : SUBSET Buckets]
      BY DEF RegInit
    <2> QED BY <2>1, <2>2, <2>3 DEF RegInit, RestTyped
  <1> QED BY <1>1, <1>2

\* The client whose packet is handled is mirrored by refresh_routing_source, and
\* nobody else's mirror is disturbed by it.
LEMMA RefreshSourceMirrors ==
    ASSUME RegTypeOK, RoutingMirrored, NEW c \in Clients, RefreshRoutingSource(c),
           clients' \subseteq clients \cup {c}, UNCHANGED <<script, changed>>
    PROVE  RoutingMirrored'
  BY SMTT(30) DEF RegTypeOK, RoutingMirrored, RefreshRoutingSource

\* Every step keeps the mirror right.
LEMMA MirrorStep ==
    ASSUME RegTypeOK, RoutingMirrored, [RegNext]_regVars
    PROVE  RoutingMirrored'
  <1>1. ASSUME NEW c \in Clients, AddClient(c) PROVE RoutingMirrored'
    BY <1>1, RefreshSourceMirrors DEF AddClient, scriptVars
  <1>2. ASSUME NEW c \in Clients, LeaseObjectIds(c) PROVE RoutingMirrored'
    BY <1>2 DEF LeaseObjectIds, RoutingMirrored, routingVars, scriptVars
  <1>3. ASSUME NEW c \in Clients, NEW i \in ObjectIds, NEW u \in Uniqifiers,
               \/ \E player \in BOOLEAN : ApplyCreate(c, i, u, player)
               \/ ApplySync(c, i, u) \/ ApplyRemove(c, i, u)
        PROVE  RoutingMirrored'
    <2>1. RefreshRoutingSource(c) /\ UNCHANGED <<clients, script, changed>>
      BY <1>3 DEF ApplyCreate, ApplySync, ApplyRemove, clientVars, scriptVars
    <2> QED BY <2>1, RefreshSourceMirrors
  <1>4. ASSUME NEW c \in Clients, NEW i \in ObjectIds, NEW t \in Clients, ApplyTakeover(c, i, t)
        PROVE  RoutingMirrored'
    BY <1>4, RefreshSourceMirrors DEF ApplyTakeover, clientVars, scriptVars
  <1>5. ASSUME changed' = TRUE PROVE RoutingMirrored'
    BY <1>5 DEF RoutingMirrored
  <1>6. ASSUME TickStart PROVE RoutingMirrored'
    <2>1. CASE changed
      BY SMTT(30), <1>6, <2>1 DEF TickStart, RefreshRoutingState, RoutingMirrored, RegTypeOK, clientVars
    <2>2. CASE ~changed
      BY <1>6, <2>2 DEF TickStart, RefreshRoutingState, RoutingMirrored, clientVars, routingVars
    <2> QED BY <2>1, <2>2
  <1>7. ASSUME ApplyCommand \/ TickEnd \/ UNCHANGED regVars PROVE RoutingMirrored'
    BY <1>7 DEF ApplyCommand, TickEnd, RoutingMirrored, regVars, clientVars, routingVars, scriptVars
  <1> QED
    BY <1>1, <1>2, <1>3, <1>4, <1>5, <1>6, <1>7
    DEF RegNext, Tick, RemoveClient, CreateNative, DeleteNative, SetEntityBucket, SetPlayerBucket,
        SetLockdown

\* Every step keeps the leases apart until a client leaves.
LEMMA LeaseStep ==
    ASSUME IInv, LeaseExclusive, [RegNext]_regVars
    PROVE  LeaseExclusive'
  <1> USE DEF Exists, LeasesApart
  <1> SUFFICES ASSUME left' = {} PROVE LeasesApart'
    BY DEF LeaseExclusive
  <1>a. IdsInv /\ RestTyped
    BY IInvParts
  <1>s. ASSUME left = {}, granted' = granted,
               \A i \in ObjectIds : ids[i] = "Leased" => ids'[i] = "Leased"
        PROVE  LeasesApart'
    BY <1>a, <1>s DEF LeaseExclusive, RestTyped
  <1>1. ASSUME NEW c \in Clients, LeaseObjectIds(c) PROVE LeasesApart'
    <2> DEFINE new == Lowest({j \in 1 .. MaxObjectId - 1 : ids[j] = "Free"}, LeaseSize)
    <2>1. \A i \in new : i \in ObjectIds /\ ids[i] = "Free"
      BY SMTT(30) DEF Lowest, ObjectIds
    <2>2. /\ ids' = [i \in ObjectIds |-> IF i \in new THEN "Leased" ELSE ids[i]]
          /\ granted' = [granted EXCEPT ![c] = @ \cup new]
          /\ left = {}
      BY <1>1 DEF LeaseObjectIds
    <2> HIDE DEF new
    <2>3. \A d \in Clients : \A i \in granted[d] : i \in ObjectIds /\ ids[i] = "Leased" /\ i \notin new
      BY <1>a, <2>1, <2>2 DEF LeaseExclusive, RestTyped
    <2> QED BY SMTT(30), <1>a, <2>1, <2>2, <2>3 DEF LeaseExclusive, RestTyped
  <1>2. ASSUME NEW c \in Clients, NEW i \in ObjectIds, NEW u \in Uniqifiers,
               NEW player \in BOOLEAN, ApplyCreate(c, i, u, player)
        PROVE  LeasesApart'
    <2>1. /\ left = {}
          /\ granted' = [granted EXCEPT ![c] = @ \ {i}]
          /\ ids' = ids \/ ids' = [ids EXCEPT ![i] = "Used"]
          /\ i \in granted[c] \/ Exists(i)
      BY <1>2 DEF ApplyCreate
    <2>2. \A d \in Clients : d # c => i \notin granted[d]
      BY <1>a, <2>1 DEF LeaseExclusive, IdsInv, RestTyped
    <2> QED BY SMTT(30), <1>a, <2>1, <2>2 DEF LeaseExclusive, IdsInv, RestTyped
  <1>3. ASSUME NEW c \in Clients, NEW i \in ObjectIds, NEW u \in Uniqifiers, ApplyRemove(c, i, u)
        PROVE  LeasesApart'
    BY <1>3, <1>a, <1>s DEF ApplyRemove, OwnRecord, IdsInv, clientVars
  <1>4. ASSUME NEW c \in Clients, RemoveClient(c) PROVE LeasesApart'
    BY <1>4 DEF RemoveClient
  <1>5. ASSUME UNCHANGED <<left, granted, ids>> PROVE LeasesApart'
    BY <1>5, <1>s
  <1>6. ASSUME ApplyCommand PROVE LeasesApart'
    <2>1. left = {} /\ granted' = granted
      BY <1>6 DEF ApplyCommand, clientVars
    <2>2. \A j \in ObjectIds : ids[j] = "Leased" => ids'[j] = "Leased"
      <3>1. Head(draining) \in Commands
        BY SMTT(30), <1>6, <1>a DEF ApplyCommand, RestTyped
      <3>2. Head(draining).id \in ObjectIds
        BY <3>1, CommandTypes
      <3> QED BY <1>6, <1>a, <3>2 DEF ApplyCommand, SpawnServerEntity, DespawnEntity, IdsInv
    <2> QED BY <2>1, <2>2, <1>s
  <1> QED
    BY <1>1, <1>2, <1>3, <1>4, <1>5, <1>6
    DEF RegNext, Tick, AddClient, ApplySync, ApplyTakeover, CreateNative, DeleteNative, SetEntityBucket,
        SetPlayerBucket, SetLockdown, TickStart, TickEnd, regVars, clientVars

-----------------------------------------------------------------------------
(* The theorems.                                                            *)

\* The invariant holds throughout every behaviour.
LEMMA IInvHolds == RegSpec => []IInv
  <1>1. IInv /\ [RegNext]_regVars => IInv'
    BY IdsStep, RestStep, IInvPartsNext
  <1> QED BY InitIInv, <1>1, PTL DEF RegSpec

\* The registry of ServerGameState keeps its shape.
THEOREM RegistryTyped == RegSpec => []RegTypeOK
  <1>1. IInv => RegTypeOK
    BY DEF IInv
  <1> QED BY IInvHolds, <1>1, PTL

\* An object id is Used exactly while an entity lives on it, whatever clients and
\* scripts create, refuse, remove, take over or despawn.
THEOREM IdsAlwaysMatch == RegSpec => []IdsMatchEntities
  <1>1. IInv => IdsMatchEntities
    BY DEF IInv
  <1> QED BY IInvHolds, <1>1, PTL

\* The bucket apply_takeover consults and the one apply_sync and apply_remove
\* consult are the same.
THEOREM BucketsAlwaysAgree == RegSpec => []BucketsAgree
  <1>1. IInv => BucketsAgree
    BY DEF IInv
  <1> QED BY IInvHolds, <1>1, PTL

\* Once the script store's revision is mirrored, every connected client is in the
\* bucket, and under the lockdown, the scripts chose.
THEOREM RoutingAlwaysMirrored == RegSpec => []RoutingMirrored
  <1>1. RegInit => RoutingMirrored
    BY DEF RegInit, RoutingMirrored
  <1>2. RegTypeOK /\ RoutingMirrored /\ [RegNext]_regVars => RoutingMirrored'
    BY MirrorStep
  <1> QED BY RegistryTyped, <1>1, <1>2, PTL DEF RegSpec

\* Until a client leaves, no id a client may create on is leased to another client
\* or in use.
THEOREM LeasesExclusive == RegSpec => []LeaseExclusive
  <1>1. RegInit => LeaseExclusive
    BY DEF RegInit, LeaseExclusive, LeasesApart
  <1>2. IInv /\ LeaseExclusive /\ [RegNext]_regVars => LeaseExclusive'
    BY LeaseStep
  <1> QED BY IInvHolds, <1>1, <1>2, PTL DEF RegSpec

\* The registry is consistent in every reachable state, for any clients, object
\* ids, buckets and bounds.
THEOREM RegistryAlwaysSafe == RegSpec => []RegistrySafe
  <1>1. RegTypeOK /\ IdsMatchEntities /\ BucketsAgree /\ RoutingMirrored /\ LeaseExclusive
            => RegistrySafe
    BY DEF RegistrySafe
  <1> QED BY RegistryTyped, IdsAlwaysMatch, BucketsAlwaysAgree, RoutingAlwaysMirrored,
             LeasesExclusive, <1>1, PTL

-----------------------------------------------------------------------------
(* The session grid. *)

HIDE RegistryAssumption DEF RegistryAssumption
USE GridAssumption DEF GridAssumption

\* The cells the loops reach before c.
Rank(cells, c) == {d \in cells : Earlier(d, c)}

\* The grid is finite, and the order of the loops is a strict total order on it.
LEMMA CellsFinite == IsFiniteSet(Cells)
  <1>1. IsFiniteSet(0 .. WORLD_GRID_DIM - 1)
    BY SMTT(30), FS_Interval
  <1> QED BY <1>1, FS_Product DEF Cells

\* The loops go over the window in a strict total order.
LEMMA LoopOrder ==
    /\ \A c, d \in Cells : c # d => Earlier(c, d) \/ Earlier(d, c)
    /\ \A c \in Cells : ~Earlier(c, c)
    /\ \A c, d, e \in Cells : Earlier(c, d) /\ Earlier(d, e) => Earlier(c, e)
  <1>1. \A c \in Cells : c[1] \in Int /\ c[2] \in Int /\ c = <<c[1], c[2]>>
    BY SMTT(30) DEF Cells
  <1> QED BY SMTT(30), <1>1 DEF Earlier

\* Any set of cells is finite and has a natural number of them.
LEMMA SubsetsFinite ==
    ASSUME NEW s \in SUBSET Cells
    PROVE  IsFiniteSet(s) /\ Cardinality(s) \in Nat
  BY CellsFinite, FS_Subset, FS_CardinalityType

\* Of two cells of a set the earlier one has fewer before it.
LEMMA RankGrows ==
    ASSUME NEW cells \in SUBSET Cells, NEW c \in cells, NEW d \in cells, Earlier(c, d)
    PROVE  Cardinality(Rank(cells, c)) < Cardinality(Rank(cells, d))
  <1>1. Rank(cells, c) \in SUBSET Cells /\ Rank(cells, d) \in SUBSET Cells
    BY DEF Rank
  <1>2. Rank(cells, c) \subseteq Rank(cells, d) /\ c \in Rank(cells, d) /\ c \notin Rank(cells, c)
    BY LoopOrder DEF Rank
  <1>3. /\ Cardinality(Rank(cells, c)) <= Cardinality(Rank(cells, d))
        /\ Cardinality(Rank(cells, c)) # Cardinality(Rank(cells, d))
    BY <1>1, <1>2, SubsetsFinite, FS_Subset
  <1> QED BY SMTT(30), <1>1, <1>3, SubsetsFinite

\* The loops add at most as many cells as there is room for: the number of cells
\* before a cell tells the added cells apart.
LEMMA FirstOfBounded ==
    ASSUME NEW cells \in SUBSET Cells, NEW k \in Nat
    PROVE  FirstOf(cells, k) \in SUBSET cells /\ Cardinality(FirstOf(cells, k)) <= k
  <1> DEFINE first == FirstOf(cells, k)
             f == [c \in first |-> Cardinality(Rank(cells, c))]
  <1>1. first \in SUBSET cells /\ \A c \in first : Cardinality(Rank(cells, c)) < k
    BY DEF FirstOf, Rank
  <1>2. \A c \in cells : Rank(cells, c) \in SUBSET Cells /\ Cardinality(Rank(cells, c)) \in Nat
    BY SubsetsFinite DEF Rank
  <1>3. f \in [first -> 0 .. k - 1]
    BY SMTT(30), <1>1, <1>2
  <1>4. \A c, d \in first : f[c] = f[d] => c = d
    <2> SUFFICES ASSUME NEW c \in first, NEW d \in first, c # d PROVE f[c] # f[d]
      OBVIOUS
    <2>1. Earlier(c, d) \/ Earlier(d, c)
      BY <1>1, LoopOrder
    <2>2. \/ Cardinality(Rank(cells, c)) < Cardinality(Rank(cells, d))
          \/ Cardinality(Rank(cells, d)) < Cardinality(Rank(cells, c))
      BY <1>1, <2>1, RankGrows
    <2> HIDE DEF first
    <2> QED BY SMTT(30), <1>1, <1>2, <2>2
  <1>5. f \in Injection(first, 0 .. k - 1)
    BY <1>3, <1>4 DEF Injection, IsInjective
  <1>6. IsFiniteSet(0 .. k - 1) /\ Cardinality(0 .. k - 1) = k
    BY SMTT(30), FS_Interval
  <1>7. Cardinality(first) <= k
    <2> HIDE DEF first, f
    <2> QED BY SMTT(30), <1>5, <1>6, FS_Injection
  <1> QED BY <1>1, <1>7

\* While there is room the loops leave nothing out: everything before the first
\* cell left out was added.
LEMMA FirstOfFull ==
    ASSUME NEW cells \in SUBSET Cells, NEW k \in Nat, FirstOf(cells, k) # cells
    PROVE  Cardinality(FirstOf(cells, k)) >= k
  <1> DEFINE first == FirstOf(cells, k)
             ranks == {Rank(cells, c) : c \in cells \ first}
  <1>1. first \in SUBSET cells /\ \A c \in cells \ first : ~(Cardinality(Rank(cells, c)) < k)
    BY DEF FirstOf, Rank
  <1>2. \A c \in cells : Rank(cells, c) \in SUBSET Cells
    BY DEF Rank
  <1>3. ranks # {} /\ ranks \subseteq FiniteSubsetsOf(Cells)
    BY <1>1, <1>2, SubsetsFinite DEF FiniteSubsetsOf
  <1>4. PICK r \in ranks : \A q \in ranks : ~(<<q, r>> \in StrictSubsetOrdering(Cells))
    <2> HIDE DEF ranks
    <2> QED BY <1>3, WFMin, FS_StrictSubsetOrderingWellFounded
  <1>5. PICK c \in cells \ first : r = Rank(cells, c)
    OBVIOUS
  <1>6. r \subseteq first
    <2> SUFFICES ASSUME NEW d \in cells \ first, Earlier(d, c) PROVE FALSE
      BY <1>5 DEF Rank
    <2>1. Rank(cells, d) \in ranks
      OBVIOUS
    <2>2. Rank(cells, d) \subseteq r /\ d \in r /\ d \notin Rank(cells, d)
      BY <1>5, LoopOrder DEF Rank
    <2>3. <<Rank(cells, d), r>> \in StrictSubsetOrdering(Cells)
      BY <1>2, <1>5, <2>2 DEF StrictSubsetOrdering
    <2> QED BY <1>4, <2>1, <2>3
  <1>7. Cardinality(r) <= Cardinality(first) /\ Cardinality(r) \in Nat /\ Cardinality(first) \in Nat
    <2>1. first \in SUBSET Cells /\ IsFiniteSet(first)
      BY <1>1, SubsetsFinite
    <2>2. r \in SUBSET first /\ r \in SUBSET Cells
      BY <1>6, <2>1
    <2> HIDE DEF first
    <2> QED BY <2>1, <2>2, FS_Subset, SubsetsFinite
  <1> QED BY SMTT(30), <1>1, <1>5, <1>7

-----------------------------------------------------------------------------

\* The inductive invariant.  SliceReplicated bounds the slice the next report
\* starts from, and GridAgrees says the cells it keeps are not claimed again.
GridInv == GridTypeOK /\ SlotsInverse /\ GridAgrees /\ SliceReplicated

\* All the variables.
allVars == <<slotVars, gridVars>>

\* What a focus report does to the slice of its client: it keeps the cells inside
\* the window and adds unowned ones, within the entries, and leaves an unowned
\* cell of the window only when the slice is full.
LEMMA SliceAfter ==
    ASSUME GridInv, NEW n \in NetIds, NEW w \in SUBSET Cells
    PROVE  LET kept == (slices[n] \cap w) \cup Claims(n, w)
           IN  /\ Claims(n, w) = FirstOf({c \in w : accel[c] = NoNet},
                                         WORLD_GRID_ENTRIES - Cardinality(slices[n] \cap w))
               /\ Claims(n, w) \subseteq {c \in w : accel[c] = NoNet}
               /\ Cardinality(kept) \in Nat /\ Cardinality(kept) <= WORLD_GRID_ENTRIES
               /\ \/ Cardinality(kept) >= WORLD_GRID_ENTRIES
                  \/ Claims(n, w) = {c \in w : accel[c] = NoNet}
  <1> DEFINE old == slices[n] \cap w
             free == {c \in w : accel[c] = NoNet}
             k == WORLD_GRID_ENTRIES - Cardinality(old)
             new == FirstOf(free, k)
  <1>1. slices[n] \in SUBSET Cells /\ slices[n] = {c \in Cells : accel[c] = n}
    BY DEF GridInv, GridTypeOK, GridAgrees
  <1>2. Claimable(n, w) = free
    BY <1>1 DEF Claimable
  <1>3. Claims(n, w) = new
    BY <1>2 DEF Claims
  <1>4. old \in SUBSET Cells /\ free \in SUBSET Cells /\ old \cap free = {}
    BY <1>1
  <1>5. k \in Nat /\ Cardinality(old) \in Nat
    <2>1. Cardinality(slices[n]) <= WORLD_GRID_ENTRIES
      BY DEF GridInv, SliceReplicated
    <2>2. Cardinality(old) <= Cardinality(slices[n])
      BY <1>1, SubsetsFinite, FS_Subset
    <2> QED BY SMTT(30), <1>1, <1>4, <2>1, <2>2, SubsetsFinite
  <1>6. new \in SUBSET free /\ Cardinality(new) <= k /\ (new # free => Cardinality(new) >= k)
    <2> HIDE DEF k, free
    <2> QED BY <1>4, <1>5, FirstOfBounded, FirstOfFull
  <1>7. Cardinality(old \cup new) = Cardinality(old) + Cardinality(new) /\ Cardinality(new) \in Nat
    <2>1. new \in SUBSET Cells /\ old \cap new = {}
      BY <1>4, <1>6
    <2> HIDE DEF old, new
    <2>2. /\ IsFiniteSet(old) /\ IsFiniteSet(new)
          /\ Cardinality(old) \in Nat /\ Cardinality(new) \in Nat
      BY <1>4, <2>1, SubsetsFinite
    <2>3. Cardinality(old \cup new) = Cardinality(old) + Cardinality(new) - Cardinality(old \cap new)
      BY <2>2, FS_Union
    <2>4. Cardinality(old \cap new) = 0
      BY <2>1, FS_EmptySet
    <2> QED BY SMTT(30), <2>2, <2>3, <2>4
  <1> HIDE DEF old, new, free
  <1>8. Cardinality(old \cup new) \in Nat /\ Cardinality(old \cup new) <= WORLD_GRID_ENTRIES
    BY SMTT(30), <1>5, <1>6, <1>7
  <1>9. Cardinality(old \cup new) >= WORLD_GRID_ENTRIES \/ new = free
    BY SMTT(30), <1>5, <1>6, <1>7
  <1> USE DEF old, new, free
  <1> QED BY <1>3, <1>6, <1>8, <1>9

\* The allocator's two indices stay inverse, and the reserved slot nobody's.
LEMMA SlotsStep ==
    ASSUME GridInv, NEW n \in NetIds, assign(n) \/ release(n)
    PROVE  GridInv'
  <1> USE DEF GridInv, GridTypeOK, SlotsInverse, slotVars, gridVars
  <1>1. SlotIndices \subseteq Int /\ NoSlot \notin SlotIndices
    BY SMTT(30) DEF SlotIndices
  <1>2. GridAgrees' /\ SliceReplicated'
    BY SMTT(30) DEF GridAgrees, SliceReplicated, assign, release
  <1>3. CASE assign(n)
    <2>1. PICK s \in Free : /\ slots' = [slots EXCEPT ![s] = n]
                            /\ by_net' = [by_net EXCEPT ![n] = s]
      BY <1>3 DEF assign
    <2>2. s \in SlotIndices /\ s # RESERVED_LOCAL_SLOT /\ slots[s] = NoNet /\ by_net[n] = NoSlot
      BY <1>3 DEF assign, Free
    <2> QED BY SMTT(30), <1>1, <1>2, <1>3, <2>1, <2>2 DEF assign
  <1>4. CASE release(n)
    BY <1>1, <1>2, <1>4 DEF release
  <1> QED BY <1>3, <1>4

\* A focus report keeps the grid's two tables and the client's copy in agreement.
LEMMA FocusStep ==
    ASSUME GridInv, NEW n \in NetIds, NEW x \in Coords, NEW y \in Coords, update_focus(n, x, y)
    PROVE  /\ GridInv'
           /\ \/ Cardinality(slices'[n]) >= WORLD_GRID_ENTRIES
              \/ \A c \in Window(x, y) : accel'[c] # NoNet
  <1> DEFINE w == Window(x, y)
             claims == Claims(n, w)
             kept == (slices[n] \cap w) \cup claims
  <1>1. w \in SUBSET Cells
    BY DEF Window
  <1>2. /\ claims \subseteq {c \in w : accel[c] = NoNet}
        /\ Cardinality(kept) \in Nat /\ Cardinality(kept) <= WORLD_GRID_ENTRIES
        /\ Cardinality(kept) >= WORLD_GRID_ENTRIES \/ claims = {c \in w : accel[c] = NoNet}
    <2> HIDE DEF w
    <2> QED BY <1>1, SliceAfter
  <1>3. /\ accel' = [c \in Cells |-> IF c \in slices[n] \ w /\ accel[c] = n THEN NoNet
                                     ELSE IF c \in claims THEN n ELSE accel[c]]
        /\ slices' = [slices EXCEPT ![n] = kept]
        /\ replica' = IF slices[n] # kept THEN [replica EXCEPT ![n] = kept] ELSE replica
        /\ UNCHANGED <<slots, by_net>>
    BY DEF update_focus, Accel, Changed, slotVars
  <1> HIDE DEF w, claims
  <1>4. GridTypeOK' /\ SlotsInverse'
    BY <1>1, <1>2, <1>3 DEF GridInv, GridTypeOK, SlotsInverse
  <1>5. GridAgrees'
    <2> SUFFICES ASSUME NEW m \in NetIds PROVE slices'[m] = {c \in Cells : accel'[c] = m}
      BY DEF GridAgrees
    <2>1. slices[m] = {c \in Cells : accel[c] = m} /\ slices[n] = {c \in Cells : accel[c] = n}
      BY DEF GridInv, GridAgrees
    <2>2. CASE m = n
      BY <1>1, <1>2, <1>3, <2>1, <2>2 DEF GridInv, GridTypeOK
    <2>3. CASE m # n
      BY <1>1, <1>2, <1>3, <2>1, <2>3 DEF GridInv, GridTypeOK
    <2> QED BY <2>2, <2>3
  <1>6. SliceReplicated'
    BY <1>2, <1>3 DEF GridInv, GridTypeOK, SliceReplicated
  <1>7. \/ Cardinality(slices'[n]) >= WORLD_GRID_ENTRIES
        \/ \A c \in w : accel'[c] # NoNet
    <2>1. slices'[n] = kept
      BY <1>3 DEF GridInv, GridTypeOK
    <2>2. ASSUME claims = {c \in w : accel[c] = NoNet}, NEW c \in w PROVE accel'[c] # NoNet
      BY <1>1, <1>3, <2>2
    <2> QED BY <1>2, <2>1, <2>2
  <1> QED BY <1>4, <1>5, <1>6, <1>7 DEF GridInv, w

\* A client that leaves takes its cells out of both tables.
LEMMA RemoveStep ==
    ASSUME GridInv, NEW n \in NetIds, remove_client(n)
    PROVE  GridInv'
  <1> USE DEF GridInv, GridTypeOK, remove_client, slotVars
  <1>1. GridTypeOK' /\ SlotsInverse'
    BY DEF SlotsInverse
  <1>2. GridAgrees'
    BY DEF GridAgrees
  <1>3. SliceReplicated'
    <2>1. \A m \in NetIds : slices'[m] = replica'[m] /\ slices'[m] \in {{}, slices[m]}
      BY DEF SliceReplicated
    <2> QED BY SMTT(30), <2>1, FS_EmptySet DEF SliceReplicated
  <1> QED BY <1>1, <1>2, <1>3

\* The invariant holds at the start and every step keeps it.
LEMMA GridInductive ==
    /\ GridInit => GridInv
    /\ GridInv /\ [GridNext]_allVars => GridInv'
  <1>1. GridInit => GridInv
    BY SMTT(30), FS_EmptySet DEF GridInit, GridInv, GridTypeOK, SlotsInverse, GridAgrees, SliceReplicated
  <1>2. ASSUME GridInv, [GridNext]_allVars PROVE GridInv'
    <2>1. CASE UNCHANGED allVars
      BY <1>2, <2>1 DEF allVars, slotVars, gridVars, GridInv, GridTypeOK, SlotsInverse,
                       GridAgrees, SliceReplicated
    <2>2. CASE GridNext
      BY <1>2, <2>2, SlotsStep, FocusStep, RemoveStep DEF GridNext
    <2> QED BY <1>2, <2>1, <2>2
  <1> QED BY <1>1, <1>2

\* The tables of the session agree in every reachable state: slots and their index
\* are inverse, a cell has an owner exactly when it is in that client's slice, and
\* a slice is what its client was last sent, within the entries of the message
\* (assign, release, update_focus, remove_client).
THEOREM GridTablesAgree == GridSpec => []GridTables
  <1>1. GridInv => GridTables
    BY DEF GridInv, GridTables
  <1> QED BY <1>1, GridInductive, PTL DEF GridSpec, allVars

\* A focus report that changes the slice leaves no cell of its window without a
\* parent unless the slice is full (update_focus).
THEOREM WindowAlwaysCovered == GridSpec => WindowCovered
  <1>1. GridInv /\ [GridNext]_allVars =>
            [\A n \in NetIds, x, y \in Coords :
                 slices'[n] # slices[n] /\ update_focus(n, x, y) =>
                     \/ Cardinality(slices'[n]) >= WORLD_GRID_ENTRIES
                     \/ \A c \in Window(x, y) : accel'[c] # NoNet]_allVars
    BY FocusStep
  <1> QED BY <1>1, GridInductive, PTL DEF GridSpec, WindowCovered, allVars

=============================================================================
