-------------------------- MODULE ScriptingProofs ---------------------------
(****************************************************************************)
(* Proofs about the script runtime: the life of resources and their broadcasts,*)
(* the isolate's thread, its watchdog and native calls to clients; each for any*)
(* scripts, tasks, clients, capacities and number of calls.                 *)
(****************************************************************************)
EXTENDS ScriptHost, Isolate, Watchdog, NativeCalls, Integers, TLAPS

\* A step goes to Zenon unless it names another prover.
USE ZenonT(60)

-----------------------------------------------------------------------------
(* Resources and broadcasts. *)

\* Where a task can be parked.
Places == {"rest", "start", "stop", "unmount", "execute", "mount", "lock", "wait", "started",
           "present", "dismount", "drop", "stopped"}

\* What a task goes on with after a broadcast.
Nexts == {"rest", "started", "dismount"}

\* What a task can be doing.
Doings ==
    [pc : Places, op : {"none", "start", "stop", "restart"}, name : Scripts \cup {NoScript},
     next : Nexts, chain : Nat]

\* The values of the variables.
HostTyped ==
    /\ HostTypeOK /\ doing \in [Tasks -> Doings]
    /\ awaiting = [t \in Tasks |-> awaiting[t]]

\* The UDP task only broadcasts; a manager that is not at rest works on a
\* resource, and broadcasts its start or its stop.
Fits(t, d) ==
    /\ t = Udp => d.name = NoScript /\ d.pc \in {"rest", "lock", "wait"} /\ d.next = "rest"
    /\ t \in Managers /\ d.pc # "rest" =>
         /\ d.name \in Scripts
         /\ d.pc \in {"lock", "wait"} => d.next \in {"started", "dismount"}

\* Every task does what its kind does.
TasksAgree == \A t \in Tasks : Fits(t, doing[t])

\* A broadcast that awaits a reply holds the lock, and awaits isolates only.
RepliesHeld ==
    /\ RepliesHaveIsolate
    /\ \A t \in Tasks : t \notin readers => DOMAIN awaiting[t] = {}

\* Handlers are registered for an isolate that is there, or about to be published.
RoutesHeld ==
    \A s \in routes : \/ s \in runtimes \/ s \in failedLoad
                      \/ \E t \in Tasks : doing[t].name = s /\ doing[t].pc = "mount"

\* t works on s.
Works(t, s) == doing[t].name = s /\ doing[t].pc # "rest"

\* What the manager's state and the table of isolates say of s, with the
\* operation that works on it at d.
Told(s, d) ==
    /\ d.pc \in {"rest", "start", "stop"} => (mstate[s] = "started" <=> s \in runtimes)
    /\ d.pc = "unmount" => mstate[s] = "loading"
    /\ d.pc \in {"execute", "mount"} => mstate[s] = "loading" /\ s \notin runtimes
    /\ d.pc = "started" \/ (d.pc \in {"lock", "wait"} /\ d.next = "started")
         => mstate[s] = "loading" /\ s \in runtimes
    /\ d.pc \in {"present", "dismount", "drop"} \/ (d.pc \in {"lock", "wait"} /\ d.next = "dismount")
         => mstate[s] = "started" /\ s \in runtimes
    /\ d.pc = "stopped" => mstate[s] = "started" /\ s \notin runtimes

\* One operation works on a resource, and the tables agree with how far it is.
Steady(s) ==
    /\ \A t, u \in Tasks : Works(t, s) /\ Works(u, s) => t = u
    /\ \A t \in Tasks : Works(t, s) => Told(s, doing[t])
    /\ (\A t \in Tasks : ~Works(t, s)) => Told(s, Rest)

\* Every resource no two operations overlapped on is steady.
LifeAgrees == \A s \in Scripts : s \notin raced => Steady(s)

\* The inductive invariant.
HostInv == HostTyped /\ TasksAgree /\ RepliesHeld /\ RoutesHeld /\ MirrorAgrees /\ LifeAgrees

\* The inductive invariant implies the property.
LEMMA HostHonest == HostInv => HostAgrees
<1> SUFFICES ASSUME HostInv PROVE HostAgrees
  OBVIOUS
<1>1. HostTypeOK /\ MirrorAgrees /\ RepliesHaveIsolate
  BY DEF HostInv, HostTyped, RepliesHeld
<1>2. LifecycleAgrees
  <2> SUFFICES ASSUME NEW s \in Scripts, Busy(s) = {}, s \notin raced
               PROVE mstate[s] = "started" <=> s \in runtimes
    BY DEF LifecycleAgrees
  <2>1. \A t \in Tasks : ~Works(t, s)
    BY DEF Busy, Works
  <2>2. Told(s, Rest)
    BY <2>1 DEF HostInv, LifeAgrees, Steady
  <2>3. Rest.pc = "rest"
    BY SMTT(30) DEF Rest
  <2> QED
    BY <2>2, <2>3 DEF Told
<1>3. RouteHasIsolate
  <2> SUFFICES ASSUME NEW s \in routes, s \notin runtimes, s \notin failedLoad
               PROVE Busy(s) # {}
    BY DEF RouteHasIsolate
  <2>1. PICK t \in Tasks : doing[t].name = s /\ doing[t].pc = "mount"
    BY DEF HostInv, RoutesHeld
  <2> QED
    BY <2>1 DEF Busy
<1> QED
  BY <1>1, <1>2, <1>3 DEF HostAgrees

\* The fields of a task at rest.
LEMMA AtRest == Rest.pc = "rest" /\ Rest.op = "none" /\ Rest.name = NoScript /\ Rest.next = "rest"
  BY SMTT(30) DEF Rest

\* The mirror's word for every state.
LEMMA MirrorWords ==
  /\ MirrorOf["unloaded"] = "uninitialized" /\ MirrorOf["loading"] = "starting"
  /\ MirrorOf["started"] = "started" /\ MirrorOf["stopped"] = "stopped"
  /\ MirrorOf["error"] = "unknown"
  BY SMTT(30) DEF MirrorOf

\* It holds before and after start_all.
LEMMA HostStart == HostInit => HostInv
<1> SUFFICES ASSUME HostInit PROVE HostInv
  OBVIOUS
<1> USE DEF HostInit
<1>2. \A t \in Tasks : doing[t] = Rest
  BY SMTT(30)
<1>3. HostTyped
  <2>1. mstate \in [Scripts -> {"unloaded", "loading", "started", "stopped", "error"}]
    BY SMTT(30)
  <2>2. mirror \in [Scripts -> {"uninitialized", "starting", "started", "stopped", "unknown"}]
    BY SMTT(30), MirrorWords
  <2>3. readers \subseteq Tasks /\ runtimes \subseteq Scripts /\ routes \subseteq Scripts
    BY SMTT(30)
  <2>4. doing \in [Tasks -> Doings] /\ awaiting = [t \in Tasks |-> awaiting[t]]
    BY SMTT(30) DEF Doings, Rest, Places, Nexts
  <2> QED
    BY <2>1, <2>2, <2>3, <2>4 DEF HostTyped, HostTypeOK
<1>4. TasksAgree
  BY <1>2, AtRest DEF TasksAgree, Fits
<1>5. RepliesHeld
  BY SMTT(30) DEF RepliesHeld, RepliesHaveIsolate
<1>6. RoutesHeld
  BY DEF RoutesHeld
<1>7. MirrorAgrees
  BY SMTT(30) DEF MirrorAgrees
<1>8. LifeAgrees
  <2>1. \A s \in Scripts : mstate[s] = "started" <=> s \in runtimes
    <3>1. CASE mstate = [s \in Scripts |-> "unloaded"] /\ runtimes = {}
      BY <3>1
    <3>2. CASE mstate = [s \in Scripts |-> "started"] /\ runtimes = Scripts
      BY <3>2
    <3> QED
      BY <3>1, <3>2
  <2> QED
    BY <1>2, <2>1, AtRest DEF LifeAgrees, Steady, Works, Told
<1> QED
  BY <1>3, <1>4, <1>5, <1>6, <1>7, <1>8 DEF HostInv

\* A task moves to another await.
At(d, pc) == [d EXCEPT !.pc = pc]

\* It is the same operation.
LEMMA Reaches ==
  ASSUME NEW d \in Doings, NEW pc \in Places
  PROVE  /\ At(d, pc) \in Doings /\ At(d, pc).pc = pc
         /\ At(d, pc).name = d.name /\ At(d, pc).next = d.next /\ At(d, pc).op = d.op
  BY SMTT(30) DEF Doings, At

\* A task starts a round of a broadcast.
Round(d, next, chain) == [d EXCEPT !.pc = "lock", !.next = next, !.chain = chain]

\* It is the same operation.
LEMMA Rounds ==
  ASSUME NEW d \in Doings, NEW next \in Nexts, NEW chain \in Nat
  PROVE  /\ Round(d, next, chain) \in Doings /\ Round(d, next, chain).pc = "lock"
         /\ Round(d, next, chain).name = d.name /\ Round(d, next, chain).next = next
<1> DEFINE e == [d EXCEPT !.pc = "lock", !.next = next, !.chain = chain]
<1>1. e.pc = "lock" /\ e.next = next /\ e.chain = chain
  BY SMTT(30) DEF Doings
<1>2. e.name = d.name /\ e.op = d.op
  BY SMTT(30) DEF Doings
<1> DEFINE f == [d EXCEPT !.pc = "lock"]
           g == [f EXCEPT !.next = next]
           h == [g EXCEPT !.chain = chain]
<1>3. f \in Doings
  BY SMTT(30) DEF Doings, Places
<1>4. g \in Doings
  <2> HIDE DEF f
  <2> QED BY <1>3, SMTT(30) DEF Doings
<1>5. h \in Doings
  <2> HIDE DEF g
  <2> QED BY <1>4, SMTT(30) DEF Doings
<1>6. e = h
  OBVIOUS
<1>7. Round(d, next, chain) = e
  BY DEF Round
<1> HIDE DEF e, h
<1> QED
  BY <1>1, <1>2, <1>5, <1>6, <1>7

\* A task is done.
LEMMA RestFits == Rest \in Doings /\ \A t \in Managers : Fits(t, Rest)
<1>1. Rest \in Doings
  BY SMTT(30) DEF Rest, Doings, Places, Nexts
<1> QED
  BY <1>1, AtRest, HostAssumption DEF Fits

\* t goes on to d.
Turns(t, d) == doing' = [doing EXCEPT ![t] = d] /\ d \in Doings /\ Fits(t, d)

\* What other tasks do is left alone.
LEMMA TasksStep ==
  ASSUME doing \in [Tasks -> Doings], TasksAgree, NEW t \in Tasks, NEW d, Turns(t, d)
  PROVE  /\ doing' \in [Tasks -> Doings] /\ TasksAgree'
         /\ doing'[t] = d /\ \A u \in Tasks : u # t => doing'[u] = doing[u]
<1>1. doing' \in [Tasks -> Doings] /\ doing'[t] = d /\ \A u \in Tasks : u # t => doing'[u] = doing[u]
  BY SMTT(30) DEF Turns
<1>2. Fits(t, doing'[t])
  BY <1>1 DEF Turns
<1>3. \A u \in Tasks : Fits(u, doing'[u])
  BY <1>1, <1>2 DEF TasksAgree
<1> QED
  BY <1>1, <1>3 DEF TasksAgree, Fits

\* Routes stay held while the table does and nobody publishes.
LEMMA RoutesStep ==
  ASSUME doing \in [Tasks -> Doings], TasksAgree, RoutesHeld, NEW t \in Tasks, NEW d, Turns(t, d),
         doing[t].pc # "mount", UNCHANGED <<routes, runtimes, failedLoad>>
  PROVE  RoutesHeld'
<1>1. \A u \in Tasks : u # t => doing'[u] = doing[u]
  BY TasksStep
<1>2. \A u \in Tasks : doing[u].pc = "mount" => doing'[u] = doing[u]
  BY <1>1
<1> SUFFICES ASSUME NEW s \in routes, s \notin runtimes, s \notin failedLoad
             PROVE \E u \in Tasks : doing'[u].name = s /\ doing'[u].pc = "mount"
  BY DEF RoutesHeld
<1>3. PICK u \in Tasks : doing[u].name = s /\ doing[u].pc = "mount"
  BY DEF RoutesHeld
<1> QED
  BY <1>2, <1>3

\* The manager's state and isolate of resources other than s stay.
OthersStay(s) ==
    \A x \in Scripts : x # s => mstate'[x] = mstate[x] /\ (x \in runtimes' <=> x \in runtimes)

\* What is told of a resource at rest is what is told with an operation at rest.
LEMMA ToldAtRest ==
  ASSUME NEW s, NEW d, d.pc = "rest", Told(s, d)'
  PROVE  Told(s, Rest)'
  BY AtRest DEF Told, Rest

\* A step of the one operation on a resource keeps every resource steady.
LEMMA LifeStep ==
  ASSUME doing \in [Tasks -> Doings], TasksAgree, LifeAgrees, NEW t \in Tasks, NEW d, Turns(t, d),
         NEW s, doing[t].name = s, s \in Scripts => Works(t, s),
         d.name = s \/ d.pc = "rest",
         UNCHANGED raced, OthersStay(s), s \in Scripts /\ s \notin raced => Told(s, d)'
  PROVE  LifeAgrees'
<1>0. doing'[t] = d /\ \A u \in Tasks : u # t => doing'[u] = doing[u]
  BY TasksStep
<1> SUFFICES ASSUME NEW x \in Scripts, x \notin raced PROVE Steady(x)'
  BY DEF LifeAgrees
<1>1. Steady(x)
  BY DEF LifeAgrees
<1>2. CASE x = s
  <2>1. \A u \in Tasks : u # t => ~Works(u, s)
    BY <1>1, <1>2 DEF Steady
  <2>2. \A u \in Tasks : u # t => ~Works(u, s)'
    BY <1>0, <2>1 DEF Works
  <2>3. Told(s, d)'
    BY <1>2
  <2>4. Works(t, s)' => Told(s, doing[t])'
    BY <1>0, <2>3 DEF Told
  <2>5. ~Works(t, s)' => d.pc = "rest"
    BY <1>0 DEF Works
  <2>6. ~Works(t, s)' => Told(s, Rest)'
    BY <2>3, <2>5, ToldAtRest
  <2> QED
    BY <1>2, <2>2, <2>4, <2>6 DEF Steady
<1>3. CASE x # s
  <2>1. \A u \in Tasks : Works(u, x)' <=> Works(u, x)
    <3>1. ~Works(t, x)
      BY <1>3 DEF Works
    <3>2. ~Works(t, x)'
      BY <1>0, <1>3 DEF Works
    <3>3. ASSUME NEW u \in Tasks, u # t PROVE Works(u, x)' <=> Works(u, x)
      BY <1>0, <3>3 DEF Works
    <3> QED
      BY <3>1, <3>2, <3>3
  <2>2. \A e : Told(x, e)' <=> Told(x, e)
    BY <1>3 DEF OthersStay, Told
  <2>3. \A u \in Tasks : Works(u, x) => doing'[u] = doing[u]
    BY <1>0, <1>3 DEF Works
  <2> QED
    BY <1>1, <2>1, <2>2, <2>3 DEF Steady
<1> QED
  BY <1>2, <1>3

\* What a busy operation can rely on.
LEMMA ToldNow ==
  ASSUME HostInv, NEW t \in Tasks, doing[t].pc # "rest", doing[t].name \in Scripts,
         doing[t].name \notin raced
  PROVE  Told(doing[t].name, doing[t])
  BY DEF HostInv, LifeAgrees, Steady, Works

\* A task that runs an operation is a manager, and works on a resource.
LEMMA OfManager ==
  ASSUME HostInv, NEW t \in Tasks, doing[t].pc \notin {"rest", "lock", "wait"}
  PROVE  t \in Managers /\ t # Udp /\ doing[t].name \in Scripts /\ doing[t] \in Doings
<1>1. Fits(t, doing[t]) /\ doing[t] \in Doings
  BY DEF HostInv, HostTyped, TasksAgree
<1>2. t # Udp
  BY <1>1 DEF Fits
<1> QED
  BY <1>1, <1>2 DEF Fits, Tasks

\* set_state keeps the mirror in step and touches one resource.
LEMMA SetStep ==
  ASSUME HostTyped, MirrorAgrees, NEW s \in Scripts,
         NEW st \in {"unloaded", "loading", "started", "stopped", "error"},
         SetState(s, st), UNCHANGED rescanned
  PROVE  /\ mstate' \in [Scripts -> {"unloaded", "loading", "started", "stopped", "error"}]
         /\ mirror' \in [Scripts -> {"uninitialized", "starting", "started", "stopped", "unknown"}]
         /\ MirrorAgrees' /\ mstate'[s] = st /\ \A x \in Scripts : x # s => mstate'[x] = mstate[x]
<1> USE DEF SetState, HostTyped, HostTypeOK
<1>1. MirrorOf[st] \in {"uninitialized", "starting", "started", "stopped", "unknown"}
  BY MirrorWords
<1>2. mstate' \in [Scripts -> {"unloaded", "loading", "started", "stopped", "error"}]
  BY SMTT(30)
<1>3. mirror' \in [Scripts -> {"uninitialized", "starting", "started", "stopped", "unknown"}]
  BY <1>1
<1>4. mstate'[s] = st /\ \A x \in Scripts : x # s => mstate'[x] = mstate[x]
  BY SMTT(30)
<1>5. mirror'[s] = MirrorOf[st] /\ \A x \in Scripts : x # s => mirror'[x] = mirror[x]
  OBVIOUS
<1>6. ASSUME NEW x \in Scripts, x \notin rescanned PROVE mirror'[x] = MirrorOf[mstate'[x]]
  <2>1. CASE x = s
    BY <1>4, <1>5, <2>1
  <2>2. CASE x # s
    BY <1>4, <1>5, <1>6, <2>2 DEF MirrorAgrees
  <2> QED
    BY <2>1, <2>2
<1>7. MirrorAgrees'
  BY <1>6 DEF MirrorAgrees
<1> QED
  BY <1>2, <1>3, <1>4, <1>7

\* Nothing but the lock and the tasks changes in the table of isolates.
TablesStay == UNCHANGED <<mstate, mirror, runtimes, routes, raced, rescanned, failedLoad>>

\* The readers and the replies they await.
Waits == RepliesHeld /\ readers \subseteq Tasks /\ awaiting = [t \in Tasks |-> awaiting[t]]

\* They stay in order while the lock and the table of isolates stay.
LEMMA WaitsStay ==
  ASSUME HostInv, UNCHANGED <<readers, awaiting>>, runtimes \subseteq runtimes'
  PROVE  Waits'
  BY DEF HostInv, HostTyped, HostTypeOK, Waits, RepliesHeld, RepliesHaveIsolate

\* With the write lock nobody awaits a reply.
LEMMA WaitsNone ==
  ASSUME HostInv, UNCHANGED <<readers, awaiting>>, readers = {}
  PROVE  Waits'
<1>1. \A t \in Tasks : DOMAIN awaiting[t] = {}
  BY DEF HostInv, RepliesHeld
<1> QED
  BY <1>1 DEF HostInv, HostTyped, HostTypeOK, Waits, RepliesHeld, RepliesHaveIsolate

\* A step of one task that leaves the tables alone.
LEMMA TurnStep ==
  ASSUME HostInv, NEW t \in Tasks, NEW d, Turns(t, d), doing[t].pc \notin {"rest", "mount"},
         d.name = doing[t].name \/ d.pc = "rest", TablesStay, Waits',
         doing[t].name \in Scripts /\ Told(doing[t].name, doing[t]) => Told(doing[t].name, d)
  PROVE  HostInv'
<1> USE DEF TablesStay
<1>1. /\ HostTypeOK /\ doing \in [Tasks -> Doings] /\ awaiting = [u \in Tasks |-> awaiting[u]]
      /\ TasksAgree /\ RepliesHeld /\ RoutesHeld /\ MirrorAgrees /\ LifeAgrees
  BY DEF HostInv, HostTyped
<1>2. doing' \in [Tasks -> Doings] /\ TasksAgree'
  BY <1>1, TasksStep
<1>3. HostTyped'
  BY <1>1, <1>2 DEF HostTyped, HostTypeOK, Waits
<1>4. RepliesHeld'
  BY DEF Waits
<1>5. RoutesHeld'
  BY <1>1, RoutesStep
<1>6. MirrorAgrees'
  BY <1>1 DEF MirrorAgrees
<1>7. LifeAgrees'
  <2>1. PICK s : s = doing[t].name
    OBVIOUS
  <2>2. s \in Scripts => Works(t, s)
    BY <2>1 DEF Works
  <2>3. OthersStay(s)
    BY DEF OthersStay
  <2>4. s \in Scripts /\ s \notin raced => Told(s, d)
    BY <2>1, ToldNow
  <2>5. s \in Scripts /\ s \notin raced => Told(s, d)'
    BY <2>4 DEF Told
  <2> QED
    BY <1>1, <2>1, <2>2, <2>3, <2>5, LifeStep
<1> QED
  BY <1>2, <1>3, <1>4, <1>5, <1>6, <1>7 DEF HostInv

\* The guard of a broadcast round: the task holds what its kind does.
LEMMA OfTask ==
  ASSUME HostInv, NEW t \in Tasks
  PROVE  Fits(t, doing[t]) /\ doing[t] \in Doings
  BY DEF HostInv, HostTyped, TasksAgree

\* A broadcast is dispatched to every isolate.
LEMMA DispatchStep == ASSUME HostInv, NEW t \in Tasks, Dispatch(t) PROVE HostInv'
<1>0. doing[t] \in Doings /\ Fits(t, doing[t])
  BY OfTask
<1>1. PICK d : d = At(doing[t], "wait")
  OBVIOUS
<1>2. d \in Doings /\ d.pc = "wait" /\ d.name = doing[t].name /\ d.next = doing[t].next
  BY <1>0, <1>1, Reaches DEF Places
<1>3. doing[t].pc = "lock"
  BY DEF Dispatch
<1>4. Turns(t, d)
  <2>1. doing' = [doing EXCEPT ![t] = d]
    BY <1>1 DEF Dispatch, Goto, At
  <2>2. Fits(t, d)
    BY <1>0, <1>2, <1>3 DEF Fits
  <2> QED
    BY <1>2, <2>1, <2>2 DEF Turns
<1>5. TablesStay
  BY DEF Dispatch, TablesStay, ghosts
<1>6. Waits'
  <2>0. PICK unsettled \in SUBSET runtimes : \E how \in [unsettled -> {"native", "dangle", "loop"}] :
          awaiting' = [awaiting EXCEPT ![t] = how]
    BY DEF Dispatch
  <2>1. PICK how \in [unsettled -> {"native", "dangle", "loop"}] :
          awaiting' = [awaiting EXCEPT ![t] = how]
    BY <2>0
  <2>2. awaiting = [u \in Tasks |-> awaiting[u]]
    BY DEF HostInv, HostTyped
  <2>3. awaiting' = [u \in Tasks |-> awaiting'[u]] /\ awaiting'[t] = how
    BY <2>1, <2>2, SMTT(30)
  <2>4. \A u \in Tasks : u # t => awaiting'[u] = awaiting[u]
    BY <2>1, <2>2, SMTT(30)
  <2>5. DOMAIN awaiting'[t] \subseteq runtimes
    BY <2>1, <2>3
  <2>6. readers' = readers \cup {t} /\ runtimes' = runtimes
    BY DEF Dispatch
  <2>7. readers' \subseteq Tasks
    BY <2>6 DEF HostInv, HostTyped, HostTypeOK
  <2>8. \A u \in Tasks : DOMAIN awaiting'[u] \subseteq runtimes
    BY <2>4, <2>5 DEF HostInv, RepliesHeld, RepliesHaveIsolate
  <2>9. \A u \in Tasks : u \notin readers' => DOMAIN awaiting'[u] = {}
    BY <2>4, <2>6 DEF HostInv, RepliesHeld
  <2> QED
    BY <2>3, <2>6, <2>7, <2>8, <2>9 DEF Waits, RepliesHeld, RepliesHaveIsolate
<1>7. doing[t].name \in Scripts /\ Told(doing[t].name, doing[t]) => Told(doing[t].name, d)
  BY <1>2, <1>3 DEF Told
<1> QED
  BY <1>2, <1>3, <1>4, <1>5, <1>6, <1>7, TurnStep

\* An isolate replies.
LEMMA RepliedStep ==
  ASSUME HostInv, NEW t \in Tasks, NEW s, Replied(t, {s})
  PROVE  HostInv'
<1>1. awaiting = [u \in Tasks |-> awaiting[u]]
  BY DEF HostInv, HostTyped
<1>2. awaiting' = [u \in Tasks |-> awaiting'[u]]
  BY <1>1, SMTT(30) DEF Replied
<1>3. \A u \in Tasks : DOMAIN awaiting'[u] \subseteq DOMAIN awaiting[u]
  <2>1. awaiting'[t] = [x \in DOMAIN awaiting[t] \ {s} |-> awaiting[t][x]]
    BY <1>1 DEF Replied
  <2>2. \A u \in Tasks : u # t => awaiting'[u] = awaiting[u]
    BY <1>1, SMTT(30) DEF Replied
  <2> QED
    BY <2>1, <2>2
<1>4. RepliesHeld'
  BY <1>3 DEF HostInv, RepliesHeld, RepliesHaveIsolate, Replied
<1> USE DEF Replied, ghosts
<1>5. HostTyped' /\ TasksAgree'
  BY <1>2 DEF HostInv, HostTyped, HostTypeOK, TasksAgree, Fits
<1>6. RoutesHeld' /\ MirrorAgrees'
  BY DEF HostInv, RoutesHeld, MirrorAgrees
<1>7. LifeAgrees'
  <2>1. \A x : Steady(x)' <=> Steady(x)
    <3>1. \A x, u : Works(u, x)' <=> Works(u, x)
      BY DEF Works
    <3>2. ASSUME NEW x, NEW e PROVE Told(x, e)' <=> Told(x, e)
      BY DEF Told
    <3> QED
      BY <3>1, <3>2 DEF Steady
  <2> QED
    BY <2>1 DEF HostInv, LifeAgrees
<1> QED
  BY <1>4, <1>5, <1>6, <1>7 DEF HostInv

\* All replies are in: the lock is dropped.
LEMMA CollectStep == ASSUME HostInv, NEW t \in Tasks, Collect(t) PROVE HostInv'
<1>0. doing[t] \in Doings /\ Fits(t, doing[t])
  BY OfTask
<1>1. doing[t].pc = "wait" /\ DOMAIN awaiting[t] = {}
  BY DEF Collect
<1>2. TablesStay
  BY DEF Collect, TablesStay, ghosts
<1>3. Waits'
  <2>1. readers' = readers \ {t} /\ awaiting' = awaiting /\ runtimes' = runtimes
    BY DEF Collect
  <2> QED
    BY <1>1, <2>1 DEF HostInv, HostTyped, HostTypeOK, Waits, RepliesHeld, RepliesHaveIsolate
<1>4. CASE Broadcast(t, doing[t].next, doing[t].chain + 1)
  <2>1. PICK d : d = Round(doing[t], doing[t].next, doing[t].chain + 1)
    OBVIOUS
  <2>2. doing[t].chain + 1 \in Nat /\ doing[t].next \in Nexts
    BY <1>0, SMTT(30) DEF Doings
  <2>3. d \in Doings /\ d.pc = "lock" /\ d.name = doing[t].name /\ d.next = doing[t].next
    BY <1>0, <2>1, <2>2, Rounds
  <2>4. doing' = [doing EXCEPT ![t] = d]
    BY <1>4, <2>1 DEF Broadcast, Round
  <2>5. Turns(t, d)
    BY <1>0, <1>1, <2>3, <2>4 DEF Turns, Fits
  <2>6. doing[t].name \in Scripts /\ Told(doing[t].name, doing[t]) => Told(doing[t].name, d)
    BY <1>1, <2>3 DEF Told
  <2> QED
    BY <1>1, <1>2, <1>3, <2>3, <2>5, <2>6, TurnStep
<1>5. CASE Goto(t, doing[t].next)
  <2>1. PICK d : d = At(doing[t], doing[t].next)
    OBVIOUS
  <2>2. doing[t].next \in Places
    BY <1>0, SMTT(30) DEF Doings, Nexts, Places
  <2>3. d \in Doings /\ d.pc = doing[t].next /\ d.name = doing[t].name /\ d.next = doing[t].next
    BY <1>0, <2>1, <2>2, Reaches
  <2>4. doing' = [doing EXCEPT ![t] = d]
    BY <1>5, <2>1 DEF Goto, At
  <2>5. Turns(t, d)
    BY <1>0, <1>1, <2>3, <2>4 DEF Turns, Fits
  <2>6. doing[t].name \in Scripts /\ Told(doing[t].name, doing[t]) => Told(doing[t].name, d)
    <3>1. doing[t].name \in Scripts => doing[t].next \in {"started", "dismount"}
      BY <1>0, <1>1, HostAssumption DEF Fits, Tasks
    <3> QED
      BY <1>1, <2>3, <3>1 DEF Told
  <2> QED
    BY <1>1, <1>2, <1>3, <2>3, <2>5, <2>6, TurnStep
<1> QED
  BY <1>4, <1>5 DEF Collect

\* A step of an operation that changes the tables for its own resource only.
LEMMA MoveStep ==
  ASSUME HostInv, NEW t \in Tasks, NEW d, Turns(t, d), doing[t].pc # "rest",
         d.name = doing[t].name \/ d.pc = "rest", HostTypeOK', Waits', RoutesHeld', MirrorAgrees',
         NEW s, s = doing[t].name, UNCHANGED raced, OthersStay(s),
         s \notin raced /\ Told(s, doing[t]) => Told(s, d)'
  PROVE  HostInv'
<1>1. doing \in [Tasks -> Doings] /\ TasksAgree /\ LifeAgrees
  BY DEF HostInv, HostTyped
<1>2. doing' \in [Tasks -> Doings] /\ TasksAgree'
  BY <1>1, TasksStep
<1>3. HostTyped' /\ RepliesHeld'
  BY <1>2 DEF HostTyped, Waits
<1>4. LifeAgrees'
  <2>1. s \in Scripts => Works(t, s)
    BY DEF Works
  <2>2. s \in Scripts /\ s \notin raced => Told(s, d)'
    BY ToldNow
  <2> QED
    BY <1>1, <2>1, <2>2, LifeStep
<1> QED
  BY <1>2, <1>3, <1>4 DEF HostInv

\* An operation goes on to pc, or is done.
LEMMA GoesOn ==
  ASSUME HostInv, NEW t \in Tasks, doing[t].pc \notin {"rest", "lock", "wait"},
         NEW pc \in Places \ {"lock", "wait"}
  PROVE  /\ Goto(t, pc) => Turns(t, At(doing[t], pc))
         /\ At(doing[t], pc).pc = pc /\ At(doing[t], pc).name = doing[t].name
         /\ doing' = [doing EXCEPT ![t] = Rest] => Turns(t, Rest)
<1>1. t \in Managers /\ t # Udp /\ doing[t].name \in Scripts /\ doing[t] \in Doings
  BY OfManager
<1>2. pc \in Places /\ pc \notin {"lock", "wait"}
  OBVIOUS
<1>3. At(doing[t], pc) \in Doings /\ At(doing[t], pc).pc = pc /\ At(doing[t], pc).name = doing[t].name
  BY <1>1, <1>2, Reaches
<1>4. Fits(t, At(doing[t], pc))
  BY <1>1, <1>2, <1>3 DEF Fits
<1>5. Goto(t, pc) => Turns(t, At(doing[t], pc))
  BY <1>3, <1>4 DEF Goto, At, Turns
<1>6. doing' = [doing EXCEPT ![t] = Rest] => Turns(t, Rest)
  BY <1>1, RestFits DEF Turns
<1> QED
  BY <1>3, <1>5, <1>6

\* An operation starts the broadcast of its event.
LEMMA GoesToRound ==
  ASSUME HostInv, NEW t \in Tasks, doing[t].pc \notin {"rest", "lock", "wait"},
         NEW next \in Nexts, next # "rest",
         doing' = [doing EXCEPT ![t].pc = "lock", ![t].next = next, ![t].chain = 1]
  PROVE  LET d == Round(doing[t], next, 1)
         IN  Turns(t, d) /\ d.pc = "lock" /\ d.next = next /\ d.name = doing[t].name
<1>1. t \in Managers /\ t # Udp /\ doing[t].name \in Scripts /\ doing[t] \in Doings
  BY OfManager
<1>2. 1 \in Nat
  BY SMTT(30)
<1> DEFINE d == Round(doing[t], next, 1)
<1>4. d \in Doings /\ d.pc = "lock" /\ d.name = doing[t].name /\ d.next = next
  BY <1>1, <1>2, Rounds, SMTT(30)
<1>5. doing' = [doing EXCEPT ![t] = d]
  BY DEF Round
<1> HIDE DEF d
<1>6. Fits(t, d)
  BY <1>1, <1>4 DEF Fits, Nexts
<1> QED
  BY <1>4, <1>5, <1>6 DEF Turns, d

\* stop asks for the isolate, or has nothing to do.
LEMMA StopStep == ASSUME HostInv, NEW t \in Tasks, StopCheck(t) PROVE HostInv'
<1>1. doing[t].pc = "stop"
  BY DEF StopCheck
<1>2. TablesStay /\ Waits'
  BY WaitsStay DEF StopCheck, TablesStay, ghosts
<1>3. CASE mstate[doing[t].name] = "started"
  <2>1. PICK d : d = At(doing[t], "present")
    OBVIOUS
  <2>2. Turns(t, d) /\ d.pc = "present" /\ d.name = doing[t].name
    BY <1>1, <1>3, <2>1, GoesOn DEF StopCheck, Places
  <2>3. Told(doing[t].name, doing[t]) => Told(doing[t].name, d)
    BY <1>1, <1>3, <2>2 DEF Told
  <2> QED
    BY <1>1, <1>2, <2>2, <2>3, TurnStep
<1>4. CASE mstate[doing[t].name] # "started" /\ doing[t].op = "restart"
  <2>1. PICK d : d = At(doing[t], "start")
    OBVIOUS
  <2>2. doing' = [doing EXCEPT ![t] = d]
    BY <1>4, <2>1 DEF StopCheck, At
  <2>3. Turns(t, d) /\ d.pc = "start" /\ d.name = doing[t].name
    BY <1>1, <2>1, <2>2, GoesOn DEF Places, Goto, At
  <2>4. Told(doing[t].name, doing[t]) => Told(doing[t].name, d)
    BY <1>1, <2>3 DEF Told
  <2> QED
    BY <1>1, <1>2, <2>3, <2>4, TurnStep
<1>5. CASE mstate[doing[t].name] # "started" /\ doing[t].op # "restart"
  <2>1. Turns(t, Rest)
    BY <1>1, <1>5, GoesOn DEF StopCheck, Places
  <2>2. Told(doing[t].name, doing[t]) => Told(doing[t].name, Rest)
    BY <1>1, AtRest DEF Told
  <2> QED
    BY <1>1, <1>2, <2>1, <2>2, AtRest, TurnStep
<1> QED
  BY <1>3, <1>4, <1>5

\* unload_resource finds the isolate, or ends the operation.
LEMMA PresentStep == ASSUME HostInv, NEW t \in Tasks, Present(t) PROVE HostInv'
<1>1. doing[t].pc = "present"
  BY DEF Present
<1>2. TablesStay /\ Waits'
  BY WaitsStay DEF Present, TablesStay, ghosts
<1>3. CASE doing[t].name \in runtimes
  <2>1. PICK d : d = Round(doing[t], "dismount", 1)
    OBVIOUS
  <2>2. doing' = [doing EXCEPT ![t].pc = "lock", ![t].next = "dismount", ![t].chain = 1]
    BY <1>3 DEF Present
  <2>3. Turns(t, d) /\ d.pc = "lock" /\ d.next = "dismount" /\ d.name = doing[t].name
    BY <1>1, <2>1, <2>2, GoesToRound DEF Nexts
  <2>4. Told(doing[t].name, doing[t]) => Told(doing[t].name, d)
    BY <1>1, <2>3 DEF Told
  <2> QED
    BY <1>1, <1>2, <2>3, <2>4, TurnStep
<1>4. CASE doing[t].name \notin runtimes
  <2>1. Turns(t, Rest)
    BY <1>1, <1>4, GoesOn DEF Present, Places
  <2>2. Told(doing[t].name, doing[t]) => Told(doing[t].name, Rest)
    BY <1>1, <1>4 DEF Told
  <2> QED
    BY <1>1, <1>2, <2>1, <2>2, AtRest, TurnStep
<1> QED
  BY <1>3, <1>4

\* The write lock is asked for.
LEMMA DismountStep == ASSUME HostInv, NEW t \in Tasks, Dismount(t) PROVE HostInv'
<1>1. doing[t].pc = "dismount"
  BY DEF Dismount
<1>2. TablesStay /\ Waits'
  BY WaitsStay DEF Dismount, TablesStay, ghosts
<1>3. PICK d : d = At(doing[t], "drop")
  OBVIOUS
<1>4. Turns(t, d) /\ d.pc = "drop" /\ d.name = doing[t].name
  BY <1>1, <1>3, GoesOn DEF Dismount, Places
<1>5. Told(doing[t].name, doing[t]) => Told(doing[t].name, d)
  BY <1>1, <1>4 DEF Told
<1> QED
  BY <1>1, <1>2, <1>4, <1>5, TurnStep

\* The resource an operation works on goes, with its handlers.
LEMMA GoneStep ==
  ASSUME HostInv, NEW t \in Tasks, NEW d, Turns(t, d), Granted(t, "w"), NEW s, s = doing[t].name,
         doing[t].pc \notin {"rest", "mount"}, d.name = s, Unregister(s), UNCHANGED
           <<mstate, mirror, readers, awaiting, raced, rescanned, failedLoad>>,
         s \notin raced /\ Told(s, doing[t]) => Told(s, d)'
  PROVE  HostInv'
<1>1. doing \in [Tasks -> Doings] /\ TasksAgree /\ HostTypeOK /\ RoutesHeld /\ MirrorAgrees
  BY DEF HostInv, HostTyped
<1>2. readers = {}
  BY DEF Granted
<1>3. Waits'
  BY <1>2, WaitsNone
<1>4. runtimes' = runtimes \ {s} /\ routes' = routes \ {s}
  BY DEF Unregister
<1>5. HostTypeOK' /\ MirrorAgrees'
  BY <1>1, <1>4 DEF HostTypeOK, MirrorAgrees
<1>6. OthersStay(s)
  BY <1>4 DEF OthersStay
<1>7. RoutesHeld'
  <2> SUFFICES ASSUME NEW x \in routes', x \notin runtimes', x \notin failedLoad'
               PROVE \E u \in Tasks : doing'[u].name = x /\ doing'[u].pc = "mount"
    BY DEF RoutesHeld
  <2>1. PICK u \in Tasks : doing[u].name = x /\ doing[u].pc = "mount"
    BY <1>1, <1>4 DEF RoutesHeld
  <2>2. doing'[u] = doing[u]
    BY <1>1, <2>1, TasksStep
  <2> QED
    BY <2>1, <2>2
<1> QED
  BY <1>3, <1>5, <1>6, <1>7, MoveStep

\* load_resource takes an old isolate out.
LEMMA UnmountStep == ASSUME HostInv, NEW t \in Tasks, Unmount(t) PROVE HostInv'
<1>1. doing[t].pc = "unmount" /\ Granted(t, "w")
  BY DEF Unmount
<1>2. PICK d : d = At(doing[t], "execute")
  OBVIOUS
<1>3. PICK s : s = doing[t].name
  OBVIOUS
<1>4. Turns(t, d) /\ d.pc = "execute" /\ d.name = s
  BY <1>1, <1>2, <1>3, GoesOn DEF Unmount, Places
<1>5. Unregister(s) /\ UNCHANGED <<mstate, mirror, readers, awaiting, raced, rescanned, failedLoad>>
  BY <1>3 DEF Unmount, ghosts
<1>6. s \notin raced /\ Told(s, doing[t]) => Told(s, d)'
  <2>1. s \notin runtimes' /\ mstate' = mstate
    BY <1>5 DEF Unregister
  <2> QED
    BY <1>1, <1>4, <2>1 DEF Told
<1> QED
  BY <1>1, <1>3, <1>4, <1>5, <1>6, GoneStep

\* unload_resource takes the isolate out.
LEMMA DropStep == ASSUME HostInv, NEW t \in Tasks, DropRuntime(t) PROVE HostInv'
<1>1. doing[t].pc = "drop" /\ Granted(t, "w")
  BY DEF DropRuntime
<1>2. PICK d : d = At(doing[t], "stopped")
  OBVIOUS
<1>3. PICK s : s = doing[t].name
  OBVIOUS
<1>4. Turns(t, d) /\ d.pc = "stopped" /\ d.name = s
  BY <1>1, <1>2, <1>3, GoesOn DEF DropRuntime, Places
<1>5. Unregister(s) /\ UNCHANGED <<mstate, mirror, readers, awaiting, raced, rescanned, failedLoad>>
  BY <1>3 DEF DropRuntime, ghosts
<1>6. s \notin raced /\ Told(s, doing[t]) => Told(s, d)'
  <2>1. s \notin runtimes' /\ mstate' = mstate
    BY <1>5 DEF Unregister
  <2> QED
    BY <1>1, <1>4, <2>1 DEF Told
<1> QED
  BY <1>1, <1>3, <1>4, <1>5, <1>6, GoneStep

\* The scripts run, and may register handlers.
LEMMA ExecuteStep == ASSUME HostInv, NEW t \in Tasks, Execute(t) PROVE HostInv'
<1>0. doing \in [Tasks -> Doings] /\ TasksAgree /\ HostTypeOK /\ RoutesHeld /\ MirrorAgrees
  BY DEF HostInv, HostTyped
<1>1. doing[t].pc = "execute"
  BY DEF Execute
<1>2. PICK d : d = At(doing[t], "mount")
  OBVIOUS
<1>3. PICK s : s = doing[t].name
  OBVIOUS
<1>4. Turns(t, d) /\ d.pc = "mount" /\ d.name = s
  BY <1>1, <1>2, <1>3, GoesOn DEF Execute, Places
<1>5. UNCHANGED <<mstate, mirror, runtimes, readers, awaiting, raced, rescanned, failedLoad>>
  BY DEF Execute, ghosts
<1>6. routes' \subseteq routes \cup {s} /\ s \in Scripts
  BY <1>1, <1>3, OfManager DEF Execute
<1>7. Waits'
  BY <1>5, WaitsStay
<1>8. HostTypeOK' /\ MirrorAgrees' /\ OthersStay(s)
  BY <1>0, <1>5, <1>6 DEF HostTypeOK, MirrorAgrees, OthersStay
<1>9. RoutesHeld'
  <2> SUFFICES ASSUME NEW x \in routes', x \notin runtimes', x \notin failedLoad'
               PROVE \E u \in Tasks : doing'[u].name = x /\ doing'[u].pc = "mount"
    BY DEF RoutesHeld
  <2>1. CASE x = s
    <3>1. doing'[t] = d
      BY <1>0, <1>4, TasksStep
    <3> QED
      BY <1>4, <2>1, <3>1
  <2>2. CASE x # s
    <3>1. PICK u \in Tasks : doing[u].name = x /\ doing[u].pc = "mount"
      BY <1>0, <1>5, <1>6, <2>2 DEF RoutesHeld
    <3>2. doing'[u] = doing[u]
      BY <1>0, <1>1, <1>4, <3>1, TasksStep
    <3> QED
      BY <3>1, <3>2
  <2> QED
    BY <2>1, <2>2
<1>10. Told(s, doing[t]) => Told(s, d)'
  BY <1>1, <1>4, <1>5 DEF Told
<1> QED
  BY <1>1, <1>3, <1>4, <1>5, <1>7, <1>8, <1>9, <1>10, MoveStep

\* A load fails: the handlers it registered stay.
LEMMA FailsStep == ASSUME HostInv, NEW t \in Tasks, LoadFails(t) PROVE HostInv'
<1>0. doing \in [Tasks -> Doings] /\ TasksAgree /\ HostTyped /\ HostTypeOK /\ RoutesHeld /\ MirrorAgrees
  BY DEF HostInv, HostTyped
<1>1. doing[t].pc = "execute"
  BY DEF LoadFails
<1>2. PICK s : s = doing[t].name
  OBVIOUS
<1>3. Turns(t, Rest)
  BY <1>1, GoesOn DEF LoadFails, Places
<1>4. UNCHANGED <<runtimes, readers, awaiting, raced, rescanned>> /\ failedLoad' = failedLoad \cup {s}
  BY <1>2 DEF LoadFails, lockVars
<1>5. routes' \subseteq routes \cup {s} /\ s \in Scripts /\ SetState(s, "error")
  BY <1>1, <1>2, OfManager DEF LoadFails
<1>6. Waits'
  BY <1>4, WaitsStay
<1>7. /\ mstate' \in [Scripts -> {"unloaded", "loading", "started", "stopped", "error"}]
      /\ mirror' \in [Scripts -> {"uninitialized", "starting", "started", "stopped", "unknown"}]
      /\ MirrorAgrees' /\ mstate'[s] = "error" /\ \A x \in Scripts : x # s => mstate'[x] = mstate[x]
  BY <1>0, <1>4, <1>5, SetStep
<1>8. HostTypeOK' /\ OthersStay(s)
  BY <1>0, <1>4, <1>5, <1>7 DEF HostTypeOK, OthersStay
<1>9. RoutesHeld'
  <2> SUFFICES ASSUME NEW x \in routes', x \notin runtimes', x \notin failedLoad'
               PROVE \E u \in Tasks : doing'[u].name = x /\ doing'[u].pc = "mount"
    BY DEF RoutesHeld
  <2>1. PICK u \in Tasks : doing[u].name = x /\ doing[u].pc = "mount"
    BY <1>0, <1>4, <1>5 DEF RoutesHeld
  <2>2. doing'[u] = doing[u]
    BY <1>0, <1>1, <1>3, <2>1, TasksStep
  <2> QED
    BY <2>1, <2>2
<1>10. PICK d : d = Rest
  OBVIOUS
<1>11. Turns(t, d) /\ d.pc = "rest"
  BY <1>3, <1>10, AtRest
<1>12. Told(s, doing[t]) => Told(s, d)'
  BY <1>1, <1>4, <1>7, <1>11 DEF Told
<1> QED
  BY <1>1, <1>2, <1>4, <1>6, <1>7, <1>8, <1>9, <1>11, <1>12, MoveStep

\* The isolate is published.
LEMMA MountStep == ASSUME HostInv, NEW t \in Tasks, Mount(t) PROVE HostInv'
<1>0. doing \in [Tasks -> Doings] /\ TasksAgree /\ HostTypeOK /\ RoutesHeld /\ MirrorAgrees
  BY DEF HostInv, HostTyped
<1>1. doing[t].pc = "mount"
  BY DEF Mount
<1>2. PICK d : d = Round(doing[t], "started", 1)
  OBVIOUS
<1>3. PICK s : s = doing[t].name
  OBVIOUS
<1>4. Turns(t, d) /\ d.pc = "lock" /\ d.next = "started" /\ d.name = s
  <2>1. doing' = [doing EXCEPT ![t].pc = "lock", ![t].next = "started", ![t].chain = 1]
    BY DEF Mount
  <2> QED
    BY <1>1, <1>2, <1>3, <2>1, GoesToRound DEF Nexts
<1>5. /\ UNCHANGED <<mstate, mirror, routes, readers, awaiting, raced, rescanned, failedLoad>>
      /\ runtimes' = runtimes \cup {s} /\ s \in Scripts
  BY <1>1, <1>3, OfManager DEF Mount, ghosts
<1>6. Waits'
  BY <1>5, WaitsStay
<1>7. HostTypeOK' /\ MirrorAgrees' /\ OthersStay(s)
  BY <1>0, <1>5 DEF HostTypeOK, MirrorAgrees, OthersStay
<1>8. RoutesHeld'
  <2> SUFFICES ASSUME NEW x \in routes', x \notin runtimes', x \notin failedLoad'
               PROVE \E u \in Tasks : doing'[u].name = x /\ doing'[u].pc = "mount"
    BY DEF RoutesHeld
  <2>1. PICK u \in Tasks : doing[u].name = x /\ doing[u].pc = "mount"
    BY <1>0, <1>5 DEF RoutesHeld
  <2>2. u # t
    BY <1>3, <1>5, <2>1
  <2>3. doing'[u] = doing[u]
    BY <1>0, <1>4, <2>2, TasksStep
  <2> QED
    BY <2>1, <2>3
<1>9. Told(s, doing[t]) => Told(s, d)'
  BY <1>1, <1>4, <1>5 DEF Told
<1> QED
  BY <1>1, <1>3, <1>4, <1>5, <1>6, <1>7, <1>8, <1>9, MoveStep

\* An operation notes a new state of its resource.
LEMMA NoteStep ==
  ASSUME HostInv, NEW t \in Tasks, NEW d, Turns(t, d), doing[t].pc \notin {"rest", "mount"},
         NEW s \in Scripts, s = doing[t].name, d.name = s \/ d.pc = "rest",
         NEW st \in {"unloaded", "loading", "started", "stopped", "error"}, SetState(s, st),
         UNCHANGED <<runtimes, routes, readers, awaiting, raced, rescanned, failedLoad>>,
         mstate'[s] = st /\ Told(s, doing[t]) => Told(s, d)'
  PROVE  HostInv'
<1>0. doing \in [Tasks -> Doings] /\ TasksAgree /\ HostTyped /\ HostTypeOK /\ RoutesHeld /\ MirrorAgrees
  BY DEF HostInv, HostTyped
<1>1. Waits'
  BY WaitsStay
<1>2. /\ mstate' \in [Scripts -> {"unloaded", "loading", "started", "stopped", "error"}]
      /\ mirror' \in [Scripts -> {"uninitialized", "starting", "started", "stopped", "unknown"}]
      /\ MirrorAgrees' /\ mstate'[s] = st /\ \A x \in Scripts : x # s => mstate'[x] = mstate[x]
  BY <1>0, SetStep
<1>3. HostTypeOK' /\ OthersStay(s)
  BY <1>0, <1>2 DEF HostTypeOK, OthersStay
<1>4. RoutesHeld'
  BY <1>0, RoutesStep
<1> QED
  BY <1>1, <1>2, <1>3, <1>4, MoveStep

\* The start is complete.
LEMMA StartedStep == ASSUME HostInv, NEW t \in Tasks, Started(t) PROVE HostInv'
<1>1. doing[t].pc = "started"
  BY DEF Started
<1>2. PICK s \in Scripts : s = doing[t].name
  BY <1>1, OfManager
<1>3. PICK d : d = Rest
  OBVIOUS
<1>4. Turns(t, d) /\ d.pc = "rest"
  BY <1>1, <1>3, GoesOn, AtRest DEF Started, Places
<1>5. SetState(s, "started")
      /\ UNCHANGED <<runtimes, routes, readers, awaiting, raced, rescanned, failedLoad>>
  BY <1>2 DEF Started, ghosts, lockVars
<1>6. mstate'[s] = "started" /\ Told(s, doing[t]) => Told(s, d)'
  BY <1>1, <1>4, <1>5 DEF Told
<1> QED
  BY <1>1, <1>2, <1>4, <1>5, <1>6, NoteStep

\* The stop is complete; a restart goes on.
LEMMA StoppedStep == ASSUME HostInv, NEW t \in Tasks, Stopped(t) PROVE HostInv'
<1>1. doing[t].pc = "stopped"
  BY DEF Stopped
<1>2. PICK s \in Scripts : s = doing[t].name
  BY <1>1, OfManager
<1>3. PICK d : d = IF doing[t].op = "restart" THEN At(doing[t], "start") ELSE Rest
  OBVIOUS
<1>4. Turns(t, d) /\ d.pc \in {"rest", "start"} /\ (d.name = s \/ d.pc = "rest")
  <2>1. CASE doing[t].op = "restart"
    <3>1. doing' = [doing EXCEPT ![t] = d] /\ d = At(doing[t], "start")
      BY <1>3, <2>1 DEF Stopped, At
    <3> QED
      BY <1>1, <1>2, <3>1, GoesOn DEF Places, Goto, At
  <2>2. CASE doing[t].op # "restart"
    <3>1. doing' = [doing EXCEPT ![t] = Rest] /\ d = Rest
      BY <1>3, <2>2 DEF Stopped
    <3> QED
      BY <1>1, <3>1, GoesOn, AtRest DEF Places
  <2> QED
    BY <2>1, <2>2
<1>5. SetState(s, "stopped")
      /\ UNCHANGED <<runtimes, routes, readers, awaiting, raced, rescanned, failedLoad>>
  BY <1>2 DEF Stopped, ghosts, lockVars
<1>6. mstate'[s] = "stopped" /\ Told(s, doing[t]) => Told(s, d)'
  BY <1>1, <1>4, <1>5 DEF Told
<1> QED
  BY <1>1, <1>2, <1>4, <1>5, <1>6, NoteStep

\* start has nothing to do, or begins to load.
LEMMA LoadingStep == ASSUME HostInv, NEW t \in Tasks, StartCheck(t) PROVE HostInv'
<1>1. doing[t].pc = "start"
  BY DEF StartCheck
<1>2. PICK s \in Scripts : s = doing[t].name
  BY <1>1, OfManager
<1>3. UNCHANGED <<runtimes, routes, readers, awaiting, raced, rescanned, failedLoad>>
  BY DEF StartCheck, ghosts
<1>4. CASE mstate[s] = "started"
  <2>1. doing' = [doing EXCEPT ![t] = Rest] /\ mstate' = mstate /\ mirror' = mirror
    BY <1>2, <1>4 DEF StartCheck
  <2>2. Turns(t, Rest)
    BY <1>1, <2>1, GoesOn DEF Places
  <2>3. TablesStay /\ Waits'
    BY <1>3, <2>1, WaitsStay DEF TablesStay
  <2>4. Told(doing[t].name, doing[t]) => Told(doing[t].name, Rest)
    BY <1>1, AtRest DEF Told
  <2> QED
    BY <1>1, <2>2, <2>3, <2>4, AtRest, TurnStep
<1>5. CASE mstate[s] # "started"
  <2>1. Goto(t, "unmount") /\ SetState(s, "loading")
    BY <1>2, <1>5 DEF StartCheck
  <2>2. PICK d : d = At(doing[t], "unmount")
    OBVIOUS
  <2>3. Turns(t, d) /\ d.pc = "unmount" /\ d.name = s
    BY <1>1, <1>2, <2>1, <2>2, GoesOn DEF Places
  <2>4. mstate'[s] = "loading" /\ Told(s, doing[t]) => Told(s, d)'
    BY <2>3 DEF Told
  <2> QED
    BY <1>1, <1>2, <1>3, <2>1, <2>3, <2>4, NoteStep
<1> QED
  BY <1>4, <1>5

\* An operation begins; a second one on the same resource is a race.
LEMMA BeginStep ==
  ASSUME HostInv, NEW t \in Managers, NEW what \in {"start", "stop", "restart"}, NEW s \in Scripts,
         Begin(t, what, s)
  PROVE  HostInv'
<1>0. doing \in [Tasks -> Doings] /\ TasksAgree /\ HostTypeOK /\ RoutesHeld /\ MirrorAgrees
      /\ LifeAgrees /\ t \in Tasks /\ t # Udp
  BY HostAssumption DEF HostInv, HostTyped, Tasks
<1>1. doing[t].pc = "rest"
  BY DEF Begin
<1>2. PICK d : d = [Rest EXCEPT !.pc = IF what = "start" THEN "start" ELSE "stop", !.op = what, !.name = s]
  OBVIOUS
<1>3. d.pc \in {"start", "stop"} /\ d.name = s /\ d \in Doings
  <2>1. PICK pc \in {"start", "stop"} : pc = IF what = "start" THEN "start" ELSE "stop"
    OBVIOUS
  <2>2. d = [pc |-> pc, op |-> what, name |-> s, next |-> "rest", chain |-> 0]
    <3> DEFINE f == [Rest EXCEPT !.pc = pc]
               g == [f EXCEPT !.op = what]
    <3>1. d = [g EXCEPT !.name = s]
      BY <1>2, <2>1
    <3>2. f = [pc |-> pc, op |-> "none", name |-> NoScript, next |-> "rest", chain |-> 0]
      BY SMTT(30) DEF Rest
    <3> HIDE DEF f
    <3>3. g = [pc |-> pc, op |-> what, name |-> NoScript, next |-> "rest", chain |-> 0]
      BY <3>2, SMTT(30)
    <3> HIDE DEF g
    <3> QED
      BY <3>1, <3>3, SMTT(30)
  <2> QED
    BY <2>2, SMTT(30) DEF Doings, Places, Nexts
<1>4. Turns(t, d)
  BY <1>0, <1>2, <1>3 DEF Turns, Begin, Fits
<1>5. /\ UNCHANGED <<mstate, runtimes, routes, readers, awaiting, rescanned, failedLoad>>
      /\ raced' = IF Busy(s) # {} THEN raced \cup {s} ELSE raced
  BY DEF Begin, lockVars
<1>6. doing' \in [Tasks -> Doings] /\ TasksAgree' /\ doing'[t] = d
      /\ \A u \in Tasks : u # t => doing'[u] = doing[u]
  BY <1>0, <1>4, TasksStep
<1>7. /\ mirror' \in [Scripts -> {"uninitialized", "starting", "started", "stopped", "unknown"}]
      /\ MirrorAgrees'
  <2>1. CASE what # "restart"
    BY <1>0, <1>5, <2>1 DEF Begin, HostTypeOK, MirrorAgrees
  <2>2. CASE what = "restart"
    <3>1. mirror' = [mirror EXCEPT ![s] = MirrorOf[mstate[s]]] /\ mstate' = mstate
      BY <1>5, <2>2 DEF Begin
    <3>2. MirrorOf[mstate[s]] \in {"uninitialized", "starting", "started", "stopped", "unknown"}
      <4>1. mstate[s] \in {"unloaded", "loading", "started", "stopped", "error"}
        BY <1>0 DEF HostTypeOK
      <4> QED
        BY <4>1, MirrorWords
    <3>3. mirror' \in [Scripts -> {"uninitialized", "starting", "started", "stopped", "unknown"}]
      BY <1>0, <3>1, <3>2 DEF HostTypeOK
    <3>4. mirror'[s] = MirrorOf[mstate[s]] /\ \A x \in Scripts : x # s => mirror'[x] = mirror[x]
      BY <1>0, <3>1 DEF HostTypeOK
    <3>5. MirrorAgrees'
      BY <1>0, <1>5, <3>4 DEF MirrorAgrees
    <3> QED
      BY <3>3, <3>5
  <2> QED
    BY <2>1, <2>2
<1>8. HostTyped' /\ RepliesHeld'
  <2>1. Waits'
    BY <1>5, WaitsStay
  <2> QED
    BY <1>0, <1>5, <1>6, <1>7, <2>1 DEF HostTyped, HostTypeOK, Waits
<1>9. RoutesHeld'
  BY <1>0, <1>1, <1>4, <1>5, RoutesStep
<1>10. LifeAgrees'
  <2> SUFFICES ASSUME NEW x \in Scripts, x \notin raced' PROVE Steady(x)'
    BY DEF LifeAgrees
  <2>1. Steady(x)
    BY <1>0, <1>5 DEF LifeAgrees
  <2>2. ASSUME NEW e PROVE Told(x, e)' <=> Told(x, e)
    BY <1>5 DEF Told
  <2>3. CASE x = s
    <3>1. \A u \in Tasks : ~Works(u, s)
      BY <1>5, <2>3 DEF Busy, Works
    <3>2. \A u \in Tasks : u # t => ~Works(u, s)'
      BY <1>6, <3>1 DEF Works
    <3>3. Told(s, Rest)
      BY <2>1, <2>3, <3>1 DEF Steady
    <3>4. Told(s, d)
      BY <1>3, <3>3, AtRest DEF Told
    <3>5. Works(t, s)'
      BY <1>3, <1>6 DEF Works
    <3> QED
      BY <1>0, <1>6, <2>2, <2>3, <3>2, <3>4, <3>5 DEF Steady
  <2>4. CASE x # s
    <3>1. ~Works(t, x)
      BY <1>1 DEF Works
    <3>2. ~Works(t, x)'
      BY <1>3, <1>6, <2>4 DEF Works
    <3>3. ASSUME NEW u \in Tasks, u # t PROVE Works(u, x)' <=> Works(u, x)
      BY <1>6, <3>3 DEF Works
    <3>4. \A u \in Tasks : Works(u, x)' <=> Works(u, x)
      BY <3>1, <3>2, <3>3
    <3>5. \A u \in Tasks : Works(u, x) => doing'[u] = doing[u]
      BY <1>6, <3>1
    <3> QED
      BY <2>1, <2>2, <3>4, <3>5 DEF Steady
  <2> QED
    BY <2>3, <2>4
<1> QED
  BY <1>6, <1>7, <1>8, <1>9, <1>10 DEF HostInv

\* ScanResourceRoot resets the mirror.
LEMMA RescanStep == ASSUME HostInv, NEW t \in Managers, Rescan(t) PROVE HostInv'
<1>1. /\ UNCHANGED <<mstate, runtimes, routes, readers, doing, awaiting, raced, failedLoad>>
      /\ mirror' = [s \in Scripts |-> "uninitialized"] /\ rescanned' = Scripts
  BY DEF Rescan, lockVars
<1>2. HostTyped' /\ TasksAgree' /\ MirrorAgrees'
  BY <1>1 DEF HostInv, HostTyped, HostTypeOK, TasksAgree, Fits, MirrorAgrees
<1>3. RepliesHeld' /\ RoutesHeld'
  BY <1>1 DEF HostInv, RepliesHeld, RepliesHaveIsolate, RoutesHeld
<1>4. LifeAgrees'
  <2>1. \A x, u : Works(u, x)' <=> Works(u, x)
    BY <1>1 DEF Works
  <2>2. ASSUME NEW x, NEW e PROVE Told(x, e)' <=> Told(x, e)
    BY <1>1 DEF Told
  <2>3. \A x : Steady(x)' <=> Steady(x)
    BY <1>1, <2>1, <2>2 DEF Steady
  <2> QED
    BY <1>1, <2>3 DEF HostInv, LifeAgrees
<1> QED
  BY <1>2, <1>3, <1>4 DEF HostInv

\* The UDP task begins a broadcast of its own.
LEMMA PeerStep == ASSUME HostInv, PeerGone PROVE HostInv'
<1>0. doing \in [Tasks -> Doings] /\ TasksAgree /\ RoutesHeld /\ LifeAgrees /\ Udp \in Tasks
  BY DEF HostInv, HostTyped, Tasks
<1>1. doing[Udp].pc = "rest" /\ doing[Udp] \in Doings /\ doing[Udp].name = NoScript
  BY <1>0 DEF PeerGone, TasksAgree, Fits
<1>2. /\ UNCHANGED <<mstate, mirror, runtimes, routes, readers, awaiting, raced, rescanned, failedLoad>>
      /\ doing' = [doing EXCEPT ![Udp].pc = "lock", ![Udp].next = "rest", ![Udp].chain = 1]
  BY DEF PeerGone, Broadcast, ghosts
<1>3. PICK d : d = Round(doing[Udp], "rest", 1)
  OBVIOUS
<1>4. d \in Doings /\ d.pc = "lock" /\ d.name = NoScript /\ d.next = "rest"
  <2>1. "rest" \in Nexts
    BY DEF Nexts
  <2>2. 1 \in Nat
    BY SMTT(30)
  <2> QED
    BY <1>1, <1>3, <2>1, <2>2, Rounds
<1>5. doing' = [doing EXCEPT ![Udp] = d]
  BY <1>2, <1>3 DEF Round
<1>6. Turns(Udp, d)
  BY <1>4, <1>5, HostAssumption DEF Turns, Fits
<1>7. doing' \in [Tasks -> Doings] /\ TasksAgree'
  BY <1>0, <1>6, TasksStep
<1>8. RoutesHeld'
  BY <1>0, <1>1, <1>2, <1>6, RoutesStep
<1>9. LifeAgrees'
  <2>1. OthersStay(NoScript)
    BY <1>2 DEF OthersStay
  <2>2. PICK s : s = NoScript
    OBVIOUS
  <2>3. doing[Udp].name = s /\ s \notin Scripts /\ d.name = s
    BY <1>1, <1>4, <2>2, HostAssumption
  <2> QED
    BY <1>0, <1>2, <1>6, <2>1, <2>2, <2>3, LifeStep
<1>10. Waits'
  BY <1>2, WaitsStay
<1> QED
  BY <1>2, <1>7, <1>8, <1>9, <1>10 DEF HostInv, HostTyped, HostTypeOK, Waits, MirrorAgrees

\* Every step of the tasks and the isolates preserves it.
LEMMA HostNextStep == HostInv /\ [HostNext]_hostVars => HostInv'
<1> SUFFICES ASSUME HostInv, [HostNext]_hostVars PROVE HostInv'
  OBVIOUS
<1>1. ASSUME NEW t \in Managers, NEW what \in {"start", "stop", "restart"}, NEW s \in Scripts,
             Begin(t, what, s)
      PROVE  HostInv'
  BY <1>1, BeginStep
<1>2. ASSUME NEW t \in Managers, Rescan(t) \/ LoadFails(t) PROVE HostInv'
  BY <1>2, RescanStep, FailsStep DEF Tasks
<1>3. ASSUME NEW t \in Tasks, HostStep(t) PROVE HostInv'
  BY <1>3, DispatchStep, CollectStep, LoadingStep, UnmountStep, ExecuteStep, MountStep, StartedStep,
     StopStep, PresentStep, DismountStep, DropStep, StoppedStep DEF HostStep
<1>4. ASSUME NEW t \in Tasks, NEW s \in Scripts, IsolateStep(t, s) \/ NativeResult(t, s)
      PROVE  HostInv'
  <2>1. Replied(t, {s})
    BY <1>4 DEF IsolateStep, NativeResult, NativeTimeout, LoopIdle
  <2> QED
    BY <2>1, RepliedStep
<1>5. CASE PeerGone
  BY <1>5, PeerStep
<1>6. CASE UNCHANGED hostVars
  <2>1. UNCHANGED <<mstate, mirror, runtimes, routes, readers, doing, awaiting, raced, rescanned,
                    failedLoad>>
    BY <1>6 DEF hostVars
  <2>2. HostTyped' /\ TasksAgree' /\ MirrorAgrees'
    BY <2>1 DEF HostInv, HostTyped, HostTypeOK, TasksAgree, Fits, MirrorAgrees
  <2>3. RepliesHeld' /\ RoutesHeld'
    BY <2>1 DEF HostInv, RepliesHeld, RepliesHaveIsolate, RoutesHeld
  <2>4. LifeAgrees'
    <3>1. \A x, u : Works(u, x)' <=> Works(u, x)
      BY <2>1 DEF Works
    <3>2. ASSUME NEW x, NEW e PROVE Told(x, e)' <=> Told(x, e)
      BY <2>1 DEF Told
    <3>3. \A x : Steady(x)' <=> Steady(x)
      BY <2>1, <3>1, <3>2 DEF Steady
    <3> QED
      BY <2>1, <3>3 DEF HostInv, LifeAgrees
  <2> QED
    BY <2>2, <2>3, <2>4 DEF HostInv
<1> QED
  BY <1>1, <1>2, <1>3, <1>4, <1>5, <1>6 DEF HostNext

\* HostAgrees: however lifecycle operations, broadcasts, native waits and failed
\* loads interleave, the manager's states, the mirror, the table of isolates, the
\* routes and the awaited replies agree, for any number of tasks and resources.
THEOREM HostAlwaysAgrees == HostSpec => []HostAgrees
<1>1. HostInv => HostAgrees
  BY HostHonest
<1> QED
  BY HostStart, HostNextStep, <1>1, PTL DEF HostSpec

-----------------------------------------------------------------------------
(* The isolate. *)

\* A command waits in the inbox.
Waiting(d) == \E i \in 1..Len(inbox) : inbox[i] = d

\* A command waits once, and has not started.
InboxAgrees ==
    /\ inbox \in Seq(Dispatches)
    /\ \A i, j \in 1..Len(inbox) : inbox[i] = inbox[j] => i = j
    /\ \A d \in Dispatches : settler[d] = "sent" <=> Waiting(d)
    /\ \A d \in Dispatches : settler[d] \in {"unsent", "sent"} => op[d] = "none"

\* A call that is outstanding keeps its dispatch pending, and the dispatch out
\* of what has drained, while no pass has failed.
CallsAgree ==
    /\ \A d \in Dispatches : op[d] # "none" => promise[d] = "pending"
    /\ \A d \in Dispatches : op[d] # "none" => looperr \/ (d \notin drained /\ settler[d] # "replied")

\* What was raised is there for a reply still to come.
Raised == handler_errors \/ queued_events
\* A reply that reports what was raised is still to come.
EventsAgree == Raised => looperr \/ thrown \/ \E d \in Dispatches : settler[d] \in {"check", "parked"}

\* The inductive invariant of the isolate's thread.
IsoInv == IsoTypeOK /\ InboxAgrees /\ CallsAgree /\ EventsAgree

\* The inductive invariant implies the property.
LEMMA IsoHonest == IsoInv => RepliesDrained
<1> SUFFICES ASSUME IsoInv PROVE RepliesDrained
  OBVIOUS
<1>1. DrainedBeforeReply
  BY DEF IsoInv, CallsAgree, DrainedBeforeReply
<1>2. NothingStranded
  BY DEF IsoInv, EventsAgree, Raised, NothingStranded
<1> QED
  BY <1>1, <1>2 DEF IsoInv, RepliesDrained

\* It holds initially.
LEMMA IsoStart == IsoInit => IsoInv
<1> SUFFICES ASSUME IsoInit PROVE IsoInv
  OBVIOUS
<1>1. 0 \in 0..MaxAwaits
  BY SMTT(30), AwaitsAssumption
<1>a. awaits \in [Dispatches -> 0..MaxAwaits]
  BY <1>1 DEF IsoInit
<1>2. IsoTypeOK
  BY <1>a DEF IsoInit, IsoTypeOK
<1>3. InboxAgrees
  <2>1. inbox = <<>>
    BY DEF IsoInit
  <2>2. inbox \in Seq(Dispatches) /\ 1..Len(inbox) = {}
    BY SMTT(30), <2>1
  <2> QED
    BY <2>2 DEF IsoInit, InboxAgrees, Waiting
<1>4. CallsAgree /\ EventsAgree
  BY DEF IsoInit, CallsAgree, EventsAgree, Raised
<1> QED
  BY <1>2, <1>3, <1>4 DEF IsoInv

\* A step that leaves the inbox alone and moves nobody into or out of it.
LEMMA InboxStays ==
    ASSUME InboxAgrees, UNCHANGED inbox,
           \A d \in Dispatches : settler'[d] = "sent" <=> settler[d] = "sent",
           \A d \in Dispatches : settler'[d] \in {"unsent", "sent"} => op'[d] = "none"
    PROVE  InboxAgrees'
<1>1. \A d : Waiting(d)' <=> Waiting(d)
  BY DEF Waiting
<1>2. /\ inbox' \in Seq(Dispatches)
      /\ \A i, j \in 1..Len(inbox') : inbox'[i] = inbox'[j] => i = j
  BY DEF InboxAgrees
<1>3. \A d \in Dispatches : settler'[d] = "sent" <=> Waiting(d)'
  BY <1>1 DEF InboxAgrees
<1> QED
  BY <1>2, <1>3 DEF InboxAgrees

\* A command arrives.
LEMMA CommandStep == ASSUME IsoInv, NEW d \in Dispatches, BeginCommand(d) PROVE IsoInv'
<1>1. /\ settler[d] = "unsent" /\ inbox' = Append(inbox, d) /\ settler' = [settler EXCEPT ![d] = "sent"]
      /\ UNCHANGED <<loading, promise, op, awaits, wake, pump, drained, queued_events, handler_errors, looperr, thrown>>
  BY DEF BeginCommand, context
<1>2. /\ settler'[d] = "sent" /\ \A e \in Dispatches \ {d} : settler'[e] = settler[e]
      /\ settler' \in [Dispatches -> {"unsent", "sent", "check", "parked", "replied"}]
  BY <1>1 DEF IsoInv, IsoTypeOK
<1>3. IsoTypeOK'
  BY <1>1, <1>2 DEF IsoInv, IsoTypeOK
<1>4. InboxAgrees'
  <2>1. inbox \in Seq(Dispatches) /\ ~Waiting(d) /\ \A i, j \in 1..Len(inbox) : inbox[i] = inbox[j] => i = j
    BY <1>1 DEF IsoInv, InboxAgrees
  <2>2. /\ inbox' \in Seq(Dispatches) /\ Len(inbox') = Len(inbox) + 1 /\ Len(inbox) \in Nat
        /\ inbox'[Len(inbox) + 1] = d /\ \A i \in 1..Len(inbox) : inbox'[i] = inbox[i]
    BY SMTT(30), <1>1, <2>1
  <2>3. \A i, j \in 1..Len(inbox') : inbox'[i] = inbox'[j] => i = j
    BY SMTT(30), <2>1, <2>2 DEF Waiting
  <2>4. \A e : Waiting(e)' <=> Waiting(e) \/ e = d
    BY SMTT(30), <2>2 DEF Waiting
  <2>5. op[d] = "none"
    BY <1>1 DEF IsoInv, InboxAgrees
  <2> QED
    BY <1>1, <1>2, <2>2, <2>3, <2>4, <2>5 DEF IsoInv, InboxAgrees
<1>5. CallsAgree'
  BY <1>1, <1>2 DEF IsoInv, CallsAgree
<1>6. EventsAgree'
  BY <1>1, <1>2 DEF IsoInv, EventsAgree, Raised
<1> QED
  BY <1>3, <1>4, <1>5, <1>6 DEF IsoInv

\* How a dispatch runs on.
LEMMA RunsOn ==
    ASSUME IsoInv, NEW d \in Dispatches, NEW outcomes,
           outcomes \subseteq {"fulfilled", "thrown", "rejected", "dangles"} \cup CanAwait(d), Runs(d, outcomes)
    PROVE  /\ promise' \in [Dispatches -> {"none", "pending", "fulfilled", "rejected", "thrown"}]
           /\ op' \in [Dispatches -> {"none", "waiting", "ready"}] /\ awaits' \in [Dispatches -> 0..MaxAwaits]
           /\ \A e \in Dispatches \ {d} : promise'[e] = promise[e] /\ op'[e] = op[e]
           /\ op'[d] # "none" => promise'[d] = "pending"
<1>1. PICK r \in outcomes :
         /\ promise' = [promise EXCEPT ![d] = IF r = "awaits" \/ r = "dangles" THEN "pending" ELSE r]
         /\ op' = [op EXCEPT ![d] = IF r = "awaits" THEN "waiting" ELSE "none"]
         /\ awaits' = [awaits EXCEPT ![d] = IF r = "awaits" THEN @ + 1 ELSE @]
  BY DEF Runs
<1>2. r \in {"fulfilled", "thrown", "rejected", "dangles", "awaits"} /\ (r = "awaits" => awaits[d] < MaxAwaits)
  BY <1>1 DEF CanAwait
<1>3. promise \in [Dispatches -> {"none", "pending", "fulfilled", "rejected", "thrown"}]
      /\ op \in [Dispatches -> {"none", "waiting", "ready"}] /\ awaits \in [Dispatches -> 0..MaxAwaits]
  BY DEF IsoInv, IsoTypeOK
<1>4. promise' \in [Dispatches -> {"none", "pending", "fulfilled", "rejected", "thrown"}]
  BY <1>1, <1>2, <1>3
<1>5. op' \in [Dispatches -> {"none", "waiting", "ready"}]
  BY <1>1, <1>3
<1>6. awaits' \in [Dispatches -> 0..MaxAwaits]
  <2>1. awaits[d] \in 0..MaxAwaits /\ (r = "awaits" => awaits[d] + 1 \in 0..MaxAwaits)
    BY SMTT(30), <1>2, <1>3, AwaitsAssumption
  <2> QED
    BY <1>1, <1>3, <2>1
<1>7. \A e \in Dispatches \ {d} : promise'[e] = promise[e] /\ op'[e] = op[e]
  BY <1>1, <1>3
<1>8. op'[d] # "none" => promise'[d] = "pending"
  BY <1>1, <1>3
<1> QED
  BY <1>4, <1>5, <1>6, <1>7, <1>8

\* The command loop starts the head of the inbox.
LEMMA StartStep == ASSUME IsoInv, NEW d \in Dispatches, Start(d) PROVE IsoInv'
<1>1. /\ inbox # <<>> /\ d = Head(inbox) /\ inbox' = Tail(inbox)
      /\ settler' = [settler EXCEPT ![d] = "check"] /\ drained' = drained \ {d}
      /\ UNCHANGED <<pump, looperr, thrown>> /\ loading' = Loads \cap {d} /\ wake' = TRUE
      /\ Runs(d, {"fulfilled", "thrown", "dangles"} \cup CanAwait(d))
  BY DEF Start, ExecutePhase
<1>2. /\ promise' \in [Dispatches -> {"none", "pending", "fulfilled", "rejected", "thrown"}]
      /\ op' \in [Dispatches -> {"none", "waiting", "ready"}] /\ awaits' \in [Dispatches -> 0..MaxAwaits]
      /\ \A e \in Dispatches \ {d} : promise'[e] = promise[e] /\ op'[e] = op[e]
      /\ op'[d] # "none" => promise'[d] = "pending"
  BY <1>1, RunsOn
<1>3. /\ settler'[d] = "check" /\ \A e \in Dispatches \ {d} : settler'[e] = settler[e]
      /\ settler' \in [Dispatches -> {"unsent", "sent", "check", "parked", "replied"}]
  BY <1>1 DEF IsoInv, IsoTypeOK
<1>4. IsoTypeOK'
  BY <1>1, <1>2, <1>3 DEF IsoInv, IsoTypeOK
<1>5. InboxAgrees'
  <2>1. inbox \in Seq(Dispatches) /\ \A i, j \in 1..Len(inbox) : inbox[i] = inbox[j] => i = j
    BY DEF IsoInv, InboxAgrees
  <2>2. /\ inbox' \in Seq(Dispatches) /\ Len(inbox') = Len(inbox) - 1 /\ Len(inbox) \in Nat /\ Len(inbox) > 0
        /\ inbox[1] = d /\ \A i \in 1..Len(inbox') : inbox'[i] = inbox[i + 1]
    BY SMTT(30), <1>1, <2>1
  <2>a. \A i \in 1..Len(inbox') : i \in Int /\ i + 1 \in 1..Len(inbox)
    BY SMTT(30), <2>2
  <2>3. \A i, j \in 1..Len(inbox') : inbox'[i] = inbox'[j] => i = j
    <3> SUFFICES ASSUME NEW i \in 1..Len(inbox'), NEW j \in 1..Len(inbox'), inbox'[i] = inbox'[j] PROVE i = j
      OBVIOUS
    <3>1. i + 1 = j + 1
      BY <2>1, <2>2, <2>a
    <3> QED
      BY SMTT(30), <2>a, <3>1
  <2>4. ~Waiting(d)'
    BY SMTT(30), <2>1, <2>2 DEF Waiting
  <2>5. \A e \in Dispatches \ {d} : Waiting(e)' <=> Waiting(e)
    <3>1. ASSUME NEW e \in Dispatches \ {d}, Waiting(e)' PROVE Waiting(e)
      BY SMTT(30), <2>2, <3>1 DEF Waiting
    <3>2. ASSUME NEW e \in Dispatches \ {d}, Waiting(e) PROVE Waiting(e)'
      <4>1. PICK i \in 1..Len(inbox) : inbox[i] = e
        BY <3>2 DEF Waiting
      <4>2. i - 1 \in 1..Len(inbox') /\ inbox'[i - 1] = e
        BY SMTT(30), <2>2, <3>2, <4>1
      <4> QED
        BY <4>2 DEF Waiting
    <3> QED
      BY <3>1, <3>2
  <2> QED
    BY <1>2, <1>3, <2>2, <2>3, <2>4, <2>5 DEF IsoInv, InboxAgrees
<1>6. CallsAgree'
  BY <1>1, <1>2, <1>3 DEF IsoInv, CallsAgree
<1>7. EventsAgree'
  BY <1>3 DEF EventsAgree
<1> QED
  BY <1>4, <1>5, <1>6, <1>7 DEF IsoInv

\* A call is answered.
LEMMA ReadyStep == ASSUME IsoInv, NEW d \in Dispatches, OpReady(d) PROVE IsoInv'
<1>1. /\ op[d] = "waiting" /\ op' = [op EXCEPT ![d] = "ready"] /\ pump' \in {"poll", pump}
      /\ UNCHANGED <<inbox, loading, promise, awaits, settler, wake, drained, queued_events, handler_errors,
                     looperr, thrown>>
  BY DEF OpReady, context
<1>2. /\ op'[d] = "ready" /\ \A e \in Dispatches \ {d} : op'[e] = op[e]
      /\ op' \in [Dispatches -> {"none", "waiting", "ready"}]
  BY <1>1 DEF IsoInv, IsoTypeOK
<1>3. IsoTypeOK'
  BY <1>1, <1>2 DEF IsoInv, IsoTypeOK
<1>4. InboxAgrees'
  <2>1. settler[d] \notin {"unsent", "sent"}
    BY <1>1 DEF IsoInv, InboxAgrees
  <2> QED
    BY <1>1, <1>2, <2>1, InboxStays DEF IsoInv, InboxAgrees
<1>5. CallsAgree' /\ EventsAgree'
  BY <1>1, <1>2 DEF IsoInv, CallsAgree, EventsAgree, Raised
<1> QED
  BY <1>3, <1>4, <1>5 DEF IsoInv

\* The settle tasks look again.
LEMMA ProgressKeeps ==
    ASSUME IsoInv, Progress
    PROVE  /\ settler' \in [Dispatches -> {"unsent", "sent", "check", "parked", "replied"}]
           /\ \A e \in Dispatches : settler'[e] = settler[e] \/ (settler'[e] = "check" /\ settler[e] = "parked")
<1>1. settler \in [Dispatches -> {"unsent", "sent", "check", "parked", "replied"}]
  BY DEF IsoInv, IsoTypeOK
<1>2. settler' = [d \in Dispatches |-> IF settler[d] = "parked" THEN "check" ELSE settler[d]]
  BY DEF Progress
<1> QED
  BY <1>1, <1>2

\* A pass resumes a dispatch whose call was answered.
LEMMA ResumeStep == ASSUME IsoInv, NEW d \in Dispatches, PumpResumes(d) PROVE IsoInv'
<1>1. /\ op[d] = "ready" /\ Progress /\ UNCHANGED <<inbox, loading, wake, pump, drained, looperr, thrown>>
      /\ Runs(d, {"fulfilled", "rejected", "dangles"} \cup CanAwait(d))
  BY DEF PumpResumes
<1>2. /\ promise' \in [Dispatches -> {"none", "pending", "fulfilled", "rejected", "thrown"}]
      /\ op' \in [Dispatches -> {"none", "waiting", "ready"}] /\ awaits' \in [Dispatches -> 0..MaxAwaits]
      /\ \A e \in Dispatches \ {d} : promise'[e] = promise[e] /\ op'[e] = op[e]
      /\ op'[d] # "none" => promise'[d] = "pending"
  BY <1>1, RunsOn
<1>3. /\ settler' \in [Dispatches -> {"unsent", "sent", "check", "parked", "replied"}]
      /\ \A e \in Dispatches : settler'[e] = settler[e] \/ (settler'[e] = "check" /\ settler[e] = "parked")
  BY <1>1, ProgressKeeps
<1>4. IsoTypeOK'
  BY <1>1, <1>2, <1>3 DEF IsoInv, IsoTypeOK
<1>5. settler[d] \notin {"unsent", "sent"} /\ (looperr \/ (d \notin drained /\ settler[d] # "replied"))
  BY <1>1 DEF IsoInv, InboxAgrees, CallsAgree
<1>6. InboxAgrees'
  BY <1>1, <1>2, <1>3, <1>5, InboxStays DEF IsoInv, InboxAgrees
<1>7. CallsAgree'
  <2>1. \A e \in Dispatches : settler'[e] = "replied" => settler[e] = "replied"
    BY <1>3
  <2>2. \A e \in Dispatches : op'[e] # "none" => e = d \/ op[e] # "none"
    BY <1>2
  <2>3. \A e \in Dispatches : op'[e] # "none" => promise'[e] = "pending"
    BY <1>2 DEF IsoInv, CallsAgree
  <2>4. \A e \in Dispatches : op'[e] # "none" => looperr \/ (e \notin drained /\ settler[e] # "replied")
    BY <1>5, <2>2 DEF IsoInv, CallsAgree
  <2> QED
    BY <1>1, <2>1, <2>3, <2>4 DEF CallsAgree
<1>8. EventsAgree'
  <2>1. looperr \/ settler[d] \in {"check", "parked"}
    BY <1>5 DEF IsoInv, IsoTypeOK
  <2> QED
    BY <1>1, <1>3, <2>1 DEF EventsAgree
<1> QED
  BY <1>4, <1>6, <1>7, <1>8 DEF IsoInv

\* The pump wakes, parks, goes idle or fails.
LEMMA PumpStep == ASSUME IsoInv, PumpWakes \/ PumpParks \/ PumpIdle \/ PumpFails PROVE IsoInv'
<1>1. /\ UNCHANGED <<inbox, loading, promise, op, awaits, queued_events, handler_errors, thrown>>
      /\ pump' \in {"poll", "parked", "idle"} /\ wake' \in BOOLEAN
  BY DEF PumpWakes, PumpParks, PumpIdle, PumpFails, context, IsoInv, IsoTypeOK
<1>2. /\ settler' \in [Dispatches -> {"unsent", "sent", "check", "parked", "replied"}]
      /\ \A e \in Dispatches : settler'[e] = settler[e] \/ (settler'[e] = "check" /\ settler[e] = "parked")
  <2>1. CASE PumpWakes
    BY <2>1 DEF PumpWakes, IsoInv, IsoTypeOK
  <2>2. CASE Progress
    BY <2>2, ProgressKeeps
  <2> QED
    BY <2>1, <2>2 DEF PumpParks, PumpIdle, PumpFails
<1>3. IsoTypeOK'
  BY <1>1, <1>2 DEF IsoInv, IsoTypeOK
<1>4. InboxAgrees'
  BY <1>1, <1>2, InboxStays DEF IsoInv, InboxAgrees
<1>5. /\ looperr => looperr'
      /\ drained' = drained \/ (\A d \in Dispatches : op[d] = "none") \/ looperr'
  <2>1. CASE PumpWakes
    BY <2>1 DEF PumpWakes
  <2>4. CASE PumpParks
    BY <2>4 DEF PumpParks
  <2>2. CASE PumpIdle
    BY <2>2 DEF PumpIdle
  <2>3. CASE PumpFails
    BY <2>3 DEF PumpFails
  <2> QED
    BY <2>1, <2>2, <2>3, <2>4
<1>6. CallsAgree'
  <2>1. \A e \in Dispatches : settler'[e] = "replied" => settler[e] = "replied"
    BY <1>2
  <2> QED
    BY <1>1, <1>5, <2>1 DEF IsoInv, CallsAgree
<1>7. EventsAgree'
  BY <1>1, <1>2, <1>5 DEF IsoInv, EventsAgree, Raised
<1> QED
  BY <1>3, <1>4, <1>6, <1>7 DEF IsoInv

\* A settle task replies, or waits for the next progress.
LEMMA RepliesStep == ASSUME IsoInv, NEW d \in Dispatches, SettleReplies(d) PROVE IsoInv'
<1>1. /\ settler[d] = "check" /\ Over(d) /\ loading' = loading \ {d}
      /\ settler' = [settler EXCEPT ![d] = "replied"] /\ handler_errors' = FALSE
      /\ thrown' = TRUE \/ (queued_events' = FALSE /\ thrown' = thrown)
      /\ UNCHANGED <<inbox, promise, op, awaits, wake, pump, drained, looperr>>
  BY DEF SettleReplies, Reply
<1>2. /\ settler'[d] = "replied" /\ \A e \in Dispatches \ {d} : settler'[e] = settler[e]
      /\ settler' \in [Dispatches -> {"unsent", "sent", "check", "parked", "replied"}]
  BY <1>1 DEF IsoInv, IsoTypeOK
<1>3. IsoTypeOK'
  BY <1>1, <1>2 DEF IsoInv, IsoTypeOK
<1>4. InboxAgrees'
  BY <1>1, <1>2, InboxStays DEF IsoInv, InboxAgrees
<1>5. op[d] # "none" => looperr
  <2>1. op[d] # "none" => promise[d] = "pending" /\ (looperr \/ d \notin drained)
    BY DEF IsoInv, CallsAgree
  <2> QED
    BY <1>1, <2>1 DEF Over
<1>6. CallsAgree'
  BY <1>1, <1>2, <1>5 DEF IsoInv, CallsAgree
<1>7. EventsAgree'
  BY <1>1 DEF EventsAgree, Raised
<1> QED
  BY <1>3, <1>4, <1>6, <1>7 DEF IsoInv

\* A settle task waits for the next progress.
LEMMA ParksStep == ASSUME IsoInv, NEW d \in Dispatches, SettleParks(d) PROVE IsoInv'
<1>1. /\ settler[d] = "check" /\ settler' = [settler EXCEPT ![d] = "parked"]
      /\ UNCHANGED <<inbox, loading, promise, op, awaits, wake, pump, drained, queued_events, handler_errors,
                     looperr, thrown>>
  BY DEF SettleParks, context
<1>2. /\ settler'[d] = "parked" /\ \A e \in Dispatches \ {d} : settler'[e] = settler[e]
      /\ settler' \in [Dispatches -> {"unsent", "sent", "check", "parked", "replied"}]
  BY <1>1 DEF IsoInv, IsoTypeOK
<1>3. IsoTypeOK'
  BY <1>1, <1>2 DEF IsoInv, IsoTypeOK
<1>4. InboxAgrees'
  BY <1>1, <1>2, InboxStays DEF IsoInv, InboxAgrees
<1>5. CallsAgree' /\ EventsAgree'
  BY <1>1, <1>2 DEF IsoInv, CallsAgree, EventsAgree, Raised
<1> QED
  BY <1>3, <1>4, <1>5 DEF IsoInv

\* Every step preserves the inductive invariant.
LEMMA IsoNextStep == IsoInv /\ [IsoNext]_isoVars => IsoInv'
<1> SUFFICES ASSUME IsoInv, [IsoNext]_isoVars PROVE IsoInv'
  OBVIOUS
<1>1. CASE UNCHANGED isoVars
  <2>1. UNCHANGED <<inbox, loading, promise, op, awaits, settler, wake, pump, drained, queued_events, handler_errors,
                    looperr, thrown>>
    BY <1>1 DEF isoVars, context
  <2>2. InboxAgrees'
    BY <2>1, InboxStays DEF IsoInv, InboxAgrees
  <2> QED
    BY <2>1, <2>2 DEF IsoInv, IsoTypeOK, CallsAgree, EventsAgree, Raised
<1> QED
  BY <1>1, CommandStep, StartStep, ReadyStep, ResumeStep, PumpStep, RepliesStep, ParksStep DEF IsoNext, IsoStep

\* RepliesDrained, for any commands and awaits: unless a pass of the event loop
\* failed, a dispatch is not answered while a call of its own is outstanding, and
\* what its handlers raised goes out with some reply (run_isolate_loop, spawn_settle).
THEOREM RepliesAlwaysDrained == IsoSpec => []RepliesDrained
  BY IsoHonest, IsoStart, IsoNextStep, PTL DEF IsoSpec

-----------------------------------------------------------------------------
(* Sequences. *)

\* A sequence is a function on the numbers up to its length.
LEMMA SeqLength ==
    ASSUME NEW S, NEW q \in Seq(S)
    PROVE  Len(q) \in Nat /\ DOMAIN q = 1..Len(q) /\ q \in [1..Len(q) -> S]
  BY SMTT(30)

\* Its elements are of the set it is over.
LEMMA SeqElement ==
    ASSUME NEW S, NEW q \in Seq(S), NEW i \in 1..Len(q)
    PROVE  q[i] \in S
  BY SMTT(30)

\* The head and the rest of a sequence that is not empty.
LEMMA SeqHeadTail ==
    ASSUME NEW S, NEW q \in Seq(S), q # <<>>
    PROVE  Head(q) \in S /\ Tail(q) \in Seq(S) /\ Len(Tail(q)) = Len(q) - 1
  BY SMTT(30)

\* A function on the numbers up to n is a sequence.
LEMMA SeqOfFunction ==
    ASSUME NEW S, NEW n \in Nat, NEW f \in [1..n -> S]
    PROVE  f \in Seq(S) /\ Len(f) = n
  BY SMTT(30)

-----------------------------------------------------------------------------
(* Native calls. *)

\* The records of calls.
CallRecords == [id : Nat, kind : {"await", "forget", "context"}, to : Callees, state : CallStates]

\* What an appended call leaves in place.
LEMMA CallAppended ==
    ASSUME NEW S, NEW s \in Seq(S), NEW x \in S
    PROVE  /\ Append(s, x) \in Seq(S) /\ Len(Append(s, x)) = Len(s) + 1 /\ Len(s) \in Nat
           /\ DOMAIN s = 1 .. Len(s) /\ DOMAIN Append(s, x) = 1 .. Len(s) + 1
           /\ \A k \in 1 .. Len(s) : Append(s, x)[k] = s[k]
           /\ Append(s, x)[Len(s) + 1] = x
  BY SMTT(30), SeqLength

\* A sequence over some indices is one over more of them.
LEMMA SeqWiden ==
    ASSUME NEW S, NEW T, S \subseteq T, NEW s \in Seq(S)
    PROVE  s \in Seq(T)
  BY SMTT(30), SeqLength, SeqElement

\* The calls by their numbers.
LEMMA CallFacts ==
    ASSUME NatTypeOK
    PROVE  /\ Len(calls) \in Nat /\ DOMAIN calls = 1 .. Len(calls)
           /\ \A k \in DOMAIN calls : calls[k] \in CallRecords /\ calls[k].id = k - 1
           /\ \A j, k \in DOMAIN calls : calls[j].id = calls[k].id => j = k
  <1>1. calls \in Seq(CallRecords)
    BY DEF NatTypeOK, CallRecords
  <1>2. Len(calls) \in Nat /\ DOMAIN calls = 1 .. Len(calls)
    BY <1>1, SeqLength
  <1>3. \A k \in DOMAIN calls : calls[k] \in CallRecords
    BY <1>1, <1>2, SeqElement
  <1>4. \A k \in DOMAIN calls : calls[k].id = k - 1
    BY DEF NatTypeOK
  <1>5. \A j, k \in DOMAIN calls : calls[j].id = calls[k].id => j = k
    BY SMTT(30), <1>2, <1>4
  <1> QED BY <1>2, <1>3, <1>4, <1>5

\* A call is registered under the next id and queued, or refused at once.
LEMMA QueueSafe ==
    ASSUME NativesSafe, NEW kind \in {"await", "forget", "context"}, NEW to \in Callees, Queue(kind, to)
    PROVE  NativesSafe'
  <1> DEFINE n == Len(calls)
             new(state) == [id |-> next_id, kind |-> kind, to |-> to, state |-> state]
  <1>1. NatTypeOK /\ next_id = n /\ n \in Nat /\ DOMAIN calls = 1 .. n /\ calls \in Seq(CallRecords)
        /\ n + 1 <= MaxCalls
    BY SMTT(30), CallFacts, NativeAssumption DEF NativesSafe, NatTypeOK, CallRecords, Queue
  <1>2. PICK state \in {"queued", "refused"} :
           /\ calls' = Append(calls, new(state))
           /\ \/ waiters' = waiters \cup {next_id} /\ bridge' = Append(bridge, n + 1)
                 /\ state = "queued" /\ BridgeHasRoom
              \/ waiters' = waiters /\ bridge' = bridge
    BY DEF Queue, NextId
  <1>3. new(state) \in CallRecords /\ new(state).id = n /\ new(state).state = state
    BY <1>1 DEF CallRecords, CallStates
  <1> DEFINE call == new(state)
  <1> HIDE DEF call, n, new
  <1>4. /\ calls' \in Seq(CallRecords) /\ Len(calls') = n + 1
        /\ DOMAIN calls' = 1 .. n + 1
        /\ \A k \in 1 .. n : calls'[k] = calls[k]
        /\ calls'[n + 1] = call /\ call.id = n /\ call.state = state
    BY SMTT(30), <1>1, <1>2, <1>3, CallAppended DEF n, call
  <1>5. DOMAIN calls \subseteq DOMAIN calls' /\ n + 1 \in DOMAIN calls'
    BY SMTT(30), <1>1, <1>4
  <1>6. next_id' = n + 1 /\ UNCHANGED <<atClient, results, simulator, present, ownerMoves, dropped>>
    BY <1>1 DEF Queue
  <1>7. bridge' \in Seq(DOMAIN calls') /\ Len(bridge') <= BridgeCapacity
    <2>1. bridge \in Seq(DOMAIN calls) /\ Len(bridge) <= BridgeCapacity
      BY <1>1 DEF NatTypeOK
    <2>2. bridge \in Seq(DOMAIN calls')
      BY <1>5, <2>1, SeqWiden
    <2>3. Append(bridge, n + 1) \in Seq(DOMAIN calls')
          /\ Len(Append(bridge, n + 1)) = Len(bridge) + 1 /\ Len(bridge) \in Nat
      BY <1>5, <2>2, CallAppended
    <2>4. CASE bridge' = bridge
      BY <2>1, <2>2, <2>4
    <2>5. CASE bridge' = Append(bridge, n + 1) /\ BridgeHasRoom
      BY SMTT(30), <2>3, <2>5, NativeAssumption DEF BridgeHasRoom
    <2> QED BY <1>2, <2>4, <2>5
  <1>8. \A k \in DOMAIN calls' : calls'[k].id = k - 1
    <2>1. \A k \in DOMAIN calls : calls[k].id = k - 1
      BY <1>1, CallFacts
    <2> QED BY SMTT(30), <1>1, <1>4, <2>1
  <1>9. waiters' \subseteq {calls'[k].id : k \in DOMAIN calls'}
    <2>1. waiters \subseteq {calls'[k].id : k \in DOMAIN calls'}
      BY <1>1, <1>4, <1>5 DEF NatTypeOK
    <2>2. n \in {calls'[k].id : k \in DOMAIN calls'}
      BY <1>4, <1>5
    <2> QED BY <1>1, <1>2, <2>1, <2>2
  <1>10. NatTypeOK'
    BY <1>1, <1>4, <1>5, <1>6, <1>7, <1>8, <1>9 DEF NatTypeOK, CallRecords
  <1>11. NoWaiterLeak'
    <2> SUFFICES ASSUME NEW id \in waiters'
                 PROVE  \E k \in DOMAIN calls' :
                           calls'[k].id = id /\ (calls'[k].state = "queued" \/ k \in dropped')
      BY DEF NoWaiterLeak
    <2>1. CASE id \in waiters
      <3>1. PICK k \in DOMAIN calls : calls[k].id = id /\ (calls[k].state = "queued" \/ k \in dropped)
        BY <2>1 DEF NativesSafe, NoWaiterLeak
      <3> QED BY <1>1, <1>4, <1>5, <1>6, <3>1
    <2>2. CASE id \notin waiters
      <3>1. id = n /\ state = "queued"
        BY <1>1, <1>2, <2>2
      <3> QED BY <1>4, <1>5, <3>1
    <2> QED BY <2>1, <2>2
  <1>12. OwnResultOnly'
    <2>1. \A k \in DOMAIN calls : calls[k].state # "misled"
      BY DEF NativesSafe, OwnResultOnly
    <2> QED BY SMTT(30), <1>1, <1>4, <2>1 DEF OwnResultOnly
  <1> QED BY <1>10, <1>11, <1>12 DEF NativesSafe

\* A step that only restates calls: their ids stay, and so does their typing.
LEMMA CallsRestated ==
    ASSUME NatTypeOK, calls' = [j \in DOMAIN calls |-> calls'[j]],
           \A j \in DOMAIN calls : calls'[j] \in CallRecords /\ calls'[j].id = calls[j].id,
           waiters' \subseteq waiters, next_id' = next_id
    PROVE  /\ DOMAIN calls' = DOMAIN calls
           /\ (calls \in Seq(CallRecords))' /\ (next_id = Len(calls) /\ next_id <= MaxCalls)'
           /\ (\A k \in DOMAIN calls : calls[k].id = k - 1)'
           /\ (waiters \subseteq {calls[k].id : k \in DOMAIN calls})'
  <1>1. Len(calls) \in Nat /\ DOMAIN calls = 1 .. Len(calls)
    BY CallFacts
  <1>2. DOMAIN calls' = DOMAIN calls
    OBVIOUS
  <1>3. calls' \in Seq(CallRecords)
    <2> DEFINE n == Len(calls)
               f == calls'
    <2>1. n \in Nat /\ f = [j \in 1 .. n |-> f[j]] /\ \A j \in 1 .. n : f[j] \in CallRecords
      BY <1>1
    <2> HIDE DEF n, f
    <2>2. f \in Seq(CallRecords)
      BY SMTT(30), <2>1, SeqOfFunction
    <2> QED BY <2>2 DEF f
  <1>4. Len(calls') = Len(calls)
    BY SMTT(30), <1>1, <1>2, <1>3, SeqLength
  <1>5. \A k \in DOMAIN calls' : calls'[k].id = k - 1
    BY <1>2 DEF NatTypeOK
  <1>6. waiters' \subseteq {calls'[k].id : k \in DOMAIN calls'}
    <2> SUFFICES ASSUME NEW id \in waiters' PROVE \E k \in DOMAIN calls' : id = calls'[k].id
      OBVIOUS
    <2>1. PICK k \in DOMAIN calls : id = calls[k].id
      BY DEF NatTypeOK
    <2> QED BY <1>2, <2>1
  <1> QED BY <1>2, <1>3, <1>4, <1>5, <1>6 DEF NatTypeOK

\* A call is closed together with its waiter.
LEMMA CloseSafe ==
    ASSUME NativesSafe, NEW k \in DOMAIN calls, NEW state \in {"released", "timedout", "answered"},
           calls' = [calls EXCEPT ![k].state = state], waiters' = waiters \ {calls[k].id},
           UNCHANGED <<next_id, bridge, simulator, present, dropped>>,
           atClient' \cup results' \subseteq DOMAIN calls
    PROVE  NativesSafe'
  <1>1. NatTypeOK
    BY DEF NativesSafe
  <1>2. \A j \in DOMAIN calls : calls[j] \in CallRecords
    BY <1>1, CallFacts
  <1>3. /\ calls' = [j \in DOMAIN calls |-> calls'[j]]
        /\ \A j \in DOMAIN calls : j # k => calls'[j] = calls[j]
        /\ calls'[k] = [calls[k] EXCEPT !.state = state]
    OBVIOUS
  <1>4. calls'[k] \in CallRecords /\ calls'[k].id = calls[k].id /\ calls'[k].state = state
    BY SMTT(30), <1>2, <1>3 DEF CallRecords, CallStates
  <1>5. \A j \in DOMAIN calls : calls'[j] \in CallRecords /\ calls'[j].id = calls[j].id
    BY <1>2, <1>3, <1>4
  <1>6. /\ DOMAIN calls' = DOMAIN calls
        /\ (calls \in Seq(CallRecords))' /\ (next_id = Len(calls) /\ next_id <= MaxCalls)'
        /\ (\A j \in DOMAIN calls : calls[j].id = j - 1)'
        /\ (waiters \subseteq {calls[j].id : j \in DOMAIN calls})'
    BY <1>1, <1>3, <1>5, CallsRestated
  <1>7. NatTypeOK'
    BY <1>1, <1>6 DEF NatTypeOK, CallRecords
  <1>8. NoWaiterLeak'
    <2> SUFFICES ASSUME NEW id \in waiters'
                 PROVE  \E j \in DOMAIN calls' :
                           calls'[j].id = id /\ (calls'[j].state = "queued" \/ j \in dropped')
      BY DEF NoWaiterLeak
    <2>1. PICK j \in DOMAIN calls : calls[j].id = id /\ (calls[j].state = "queued" \/ j \in dropped)
      BY DEF NativesSafe, NoWaiterLeak
    <2>2. j # k
      BY <2>1
    <2> QED BY <1>3, <1>6, <2>1, <2>2
  <1>9. OwnResultOnly'
    BY <1>3, <1>4, <1>6 DEF NativesSafe, OwnResultOnly
  <1> QED BY <1>7, <1>8, <1>9 DEF NativesSafe

\* A result reaches the call that carries its id, and that is its own call.
LEMMA ResolveSafe ==
    ASSUME NativesSafe, NEW k \in DOMAIN calls, Resolve(k)
    PROVE  NativesSafe'
  <1>1. NatTypeOK
    BY DEF NativesSafe
  <1>2. /\ \A j \in DOMAIN calls : calls[j] \in CallRecords
        /\ \A i, j \in DOMAIN calls : calls[i].id = calls[j].id => i = j
    BY <1>1, CallFacts
  <1>3. UNCHANGED <<next_id, bridge, simulator, present, dropped, atClient>>
        /\ waiters' = waiters \ {calls[k].id} /\ results' \subseteq results
    BY DEF Resolve
  <1>4. Awaiting(calls[k].id) \subseteq {k}
    BY <1>2 DEF Awaiting
  <1>5. CASE calls[k].id \in waiters /\ k \in Awaiting(calls[k].id)
    <2>1. calls' = [calls EXCEPT ![k].state = "answered"]
      BY <1>4, <1>5 DEF Resolve
    <2> QED BY <1>1, <1>3, <2>1, CloseSafe DEF NatTypeOK
  <1>6. CASE ~(calls[k].id \in waiters /\ k \in Awaiting(calls[k].id))
    <2>1. calls' = [j \in DOMAIN calls |-> calls[j]]
      BY <1>4, <1>6 DEF Resolve
    <2>2. calls' = calls
      BY SMTT(30), <1>1, <2>1 DEF NatTypeOK
    <2>3. NatTypeOK'
      BY <1>1, <1>3, <2>2 DEF NatTypeOK
    <2>4. NoWaiterLeak' /\ OwnResultOnly'
      BY <1>3, <2>2 DEF NativesSafe, NoWaiterLeak, OwnResultOnly
    <2> QED BY <2>3, <2>4 DEF NativesSafe
  <1> QED BY <1>5, <1>6

\* The steps of the network, the clients and the entity's owner.
LEMMA OutsideSafe ==
    ASSUME NativesSafe,
           \/ UdpSends
           \/ \E k \in DOMAIN calls : Executes(k) \/ DropAwaiting(k)
           \/ \E c \in Callees : OwnerMoves(c) \/ Leaves(c)
           \/ UNCHANGED natVars
    PROVE  NativesSafe'
  <1>1. NatTypeOK
    BY DEF NativesSafe
  <1>2. UNCHANGED <<next_id, waiters, calls>> /\ dropped \subseteq dropped'
    BY DEF UdpSends, Executes, DropAwaiting, OwnerMoves, Leaves, natVars, net
  <1>3. bridge' \in Seq(DOMAIN calls) /\ Len(bridge') <= BridgeCapacity
    <2>1. CASE UdpSends
      <3>1. /\ Tail(bridge) \in Seq(DOMAIN calls)
            /\ Len(Tail(bridge)) = Len(bridge) - 1 /\ Len(bridge) \in Nat
        BY <1>1, <2>1, SeqHeadTail, SeqLength DEF UdpSends, NatTypeOK
      <3> QED BY SMTT(30), <1>1, <2>1, <3>1, NativeAssumption DEF UdpSends, NatTypeOK
    <2>2. CASE ~UdpSends
      BY <1>1, <2>2 DEF NatTypeOK, Executes, DropAwaiting, OwnerMoves, Leaves, natVars, net
    <2> QED BY <2>1, <2>2
  <1>4. atClient' \cup results' \cup dropped' \subseteq DOMAIN calls
    <2>1. CASE UdpSends
      <3>1. Head(bridge) \in DOMAIN calls
        BY <1>1, <2>1, SeqHeadTail DEF UdpSends, NatTypeOK
      <3> QED BY <1>1, <2>1, <3>1 DEF UdpSends, NatTypeOK
    <2>2. CASE ~UdpSends
      BY <1>1, <2>2 DEF NatTypeOK, Executes, DropAwaiting, OwnerMoves, Leaves, natVars, net
    <2> QED BY <2>1, <2>2
  <1>5. simulator' \in Callees \cup {NoCallee} /\ present' \subseteq Callees
    BY <1>1 DEF NatTypeOK, UdpSends, Executes, DropAwaiting, OwnerMoves, Leaves, natVars, net
  <1>6. NatTypeOK'
    BY <1>1, <1>2, <1>3, <1>4, <1>5 DEF NatTypeOK
  <1>7. NoWaiterLeak' /\ OwnResultOnly'
    BY <1>2 DEF NativesSafe, NoWaiterLeak, OwnResultOnly
  <1> QED BY <1>6, <1>7 DEF NativesSafe

\* PendingNatives and its callers: the ids of open calls are the waiters, no
\* waiter outlives its call, and no result reaches another call than its own,
\* however late it comes.
THEOREM NativesAlwaysSafe == NatSpec => []NativesSafe
  <1>1. NatInit => NativesSafe
    <2> SUFFICES ASSUME NatInit PROVE NativesSafe
      OBVIOUS
    <2>1. calls = <<>> /\ bridge = <<>> /\ Len(calls) = 0 /\ Len(bridge) = 0 /\ DOMAIN calls = {}
          /\ calls \in Seq(CallRecords) /\ bridge \in Seq(DOMAIN calls)
      BY SMTT(30) DEF NatInit
    <2> QED BY SMTT(30), <2>1, NativeAssumption
         DEF NatInit, NativesSafe, NatTypeOK, NoWaiterLeak, OwnResultOnly, CallRecords
  <1>2. NativesSafe /\ [NatNext]_natVars => NativesSafe'
    <2> SUFFICES ASSUME NativesSafe, [NatNext]_natVars PROVE NativesSafe'
      OBVIOUS
    <2>1. ASSUME NEW kind \in {"await", "forget"}, NEW c \in Callees, Invoke(kind, c) PROVE NativesSafe'
      BY <2>1, QueueSafe DEF Invoke
    <2>2. CASE DispatchContext
      <3>1. resolve_target \in Callees
        BY <2>2 DEF DispatchContext, resolve_target, NativesSafe, NatTypeOK
      <3> QED BY <2>2, <3>1, QueueSafe DEF DispatchContext
    <2>3. ASSUME NEW k \in DOMAIN calls, Release(k) \/ NatTimeout(k) PROVE NativesSafe'
      BY <2>3, CloseSafe DEF Release, NatTimeout, net, NativesSafe, NatTypeOK
    <2>4. ASSUME NEW k \in DOMAIN calls, Resolve(k) PROVE NativesSafe'
      BY <2>4, ResolveSafe
    <2> QED BY <2>1, <2>2, <2>3, <2>4, OutsideSafe DEF NatNext, NatStep
  <1> QED BY <1>1, <1>2, PTL DEF NatSpec

-----------------------------------------------------------------------------
(* The watchdog. *)

\* The facts about finite sets are used from here on.
INSTANCE FiniteSetTheorems

\* A Boolean counted.
One(b) == IF b THEN 1 ELSE 0

\* The stretches that a verdict of the watchdog has been charged to: all late
\* ones, but not the armed one while the watchdog sleeps.
Charged == IF wdPc = "sleep" THEN late \ {deadline} ELSE late

\* The watchdog has seen a deadline pass and has not made up its mind.
Deciding == wdPc \in {"note", "pause", "compare", "terminate"}

\* Where the two threads are and what the atomics hold there.
WdPlaces ==
    /\ jsPc \in {"idle", "armed1", "armed2", "run", "disarm", "swap", "joining", "gone"}
    /\ wdPc \in {"sleep", "note", "pause", "compare", "terminate", "mark", "unwind", "exited"}
    /\ terminating \in BOOLEAN
    /\ IF jsPc \in {"run", "disarm"} THEN deadline = generation ELSE deadline = 0
    /\ jsPc \in {"armed2", "run", "disarm", "swap"} => generation > 0
    /\ jsPc = "armed1" => generation < MaxStretches
    /\ jsPc = "armed2" => generation \notin late
    /\ stop => jsPc \in {"joining", "gone"}
    /\ freed => jsPc = "gone"
    /\ jsPc = "gone" => wdPc = "exited"

\* Every termination made, pending or being decided on is paid for by a late
\* stretch of its own.
WdPaid == Cardinality(killed) + One(terminating) + One(Deciding) <= Cardinality(Charged)

\* The inductive invariant.
WdInv == WdTypeOK /\ WdPlaces /\ WdPaid

\* Sets of stretches are finite.
LEMMA Stretches ==
    ASSUME NEW g \in Nat, NEW S \in SUBSET (1 .. g)
    PROVE  IsFiniteSet(S) /\ Cardinality(S) \in Nat
  <1>1. IsFiniteSet(1 .. g)
    BY SMTT(30), FS_Interval
  <1>2. IsFiniteSet(S)
    BY <1>1, FS_Subset
  <1> QED BY <1>2, FS_CardinalityType

\* The sets of late and terminated stretches are finite.
LEMMA Finite ==
    ASSUME WdTypeOK
    PROVE  /\ IsFiniteSet(late) /\ IsFiniteSet(killed) /\ IsFiniteSet(Charged)
           /\ Cardinality(late) \in Nat /\ Cardinality(killed) \in Nat /\ Cardinality(Charged) \in Nat
           /\ Cardinality(Charged) <= Cardinality(late)
  <1>1. /\ generation \in Nat /\ late \in SUBSET (1 .. generation) /\ killed \in SUBSET (1 .. generation)
        /\ Charged \in SUBSET (1 .. generation) /\ Charged \subseteq late
    BY SMTT(30), WatchdogAssumption DEF WdTypeOK, Charged
  <1> QED BY <1>1, Stretches, FS_Subset

\* The same after a step.
LEMMA FiniteNext ==
    ASSUME WdTypeOK'
    PROVE  IsFiniteSet(Charged') /\ Cardinality(Charged') \in Nat /\ Cardinality(killed') \in Nat
  <1>1. /\ generation' \in Nat /\ killed' \in SUBSET (1 .. generation')
        /\ Charged' \in SUBSET (1 .. generation')
    BY SMTT(30), WatchdogAssumption DEF WdTypeOK, Charged
  <1> QED BY <1>1, Stretches

\* Nothing is armed at first.
LEMMA WdInitInv == WdInit => WdInv
  <1> SUFFICES ASSUME WdInit PROVE WdInv
    OBVIOUS
  <1>1. {fired, stop, terminating, freed} \subseteq BOOLEAN /\ terminating \in BOOLEAN
    BY DEF WdInit
  <1>4. WdTypeOK /\ WdPlaces
    BY SMTT(30), <1>1, WatchdogAssumption DEF WdInit, WdTypeOK, WdPlaces
  <1>2. killed = {} /\ Charged = {} /\ ~terminating /\ ~Deciding
    BY DEF WdInit, Charged, Deciding
  <1>3. WdPaid
    BY SMTT(30), <1>2, FS_EmptySet DEF WdPaid, One
  <1> QED BY <1>4, <1>3 DEF WdInv

\* The places and types, step by step.
LEMMA WdTyped ==
    ASSUME WdInv, WdNext
    PROVE  WdTypeOK' /\ WdPlaces'
  <1> USE WatchdogAssumption DEF WdInv, WdTypeOK, WdPlaces, atomics, verdicts, jsThread, wdThread
  <1>1. CASE ArmFired BY <1>1 DEF ArmFired
  <1>2. CASE ArmGeneration BY SMTT(30), <1>2 DEF ArmGeneration
  <1>3. CASE ArmDeadline BY SMTT(30), <1>3 DEF ArmDeadline
  <1>4. CASE Returns BY <1>4 DEF Returns
  <1>5. CASE Unwinds
    <2>1. {fired, stop, terminating, freed}' \subseteq BOOLEAN /\ terminating' \in BOOLEAN
      BY <1>5 DEF Unwinds
    <2> QED BY SMTT(30), <1>5, <2>1 DEF Unwinds
  <1>6. CASE Disarm BY <1>6 DEF Disarm
  <1>7. CASE TookFired
    <2>1. {fired, stop, terminating, freed}' \subseteq BOOLEAN /\ terminating' \in BOOLEAN
      BY <1>7 DEF TookFired
    <2> QED BY SMTT(30), <1>7, <2>1 DEF TookFired
  <1>8. CASE DropRuntimeBegin BY <1>8 DEF DropRuntimeBegin
  <1>9. CASE Joined BY <1>9 DEF Joined
  <1>10. CASE Wake BY <1>10 DEF Wake
  <1>11. CASE NoteGeneration BY SMTT(30), <1>11 DEF NoteGeneration
  <1>12. CASE Recheck BY <1>12 DEF Recheck
  <1>13. CASE Compare BY <1>13 DEF Compare
  <1>14. CASE Terminate BY <1>14 DEF Terminate
  <1>15. CASE MarkFired BY <1>15 DEF MarkFired
  <1>16. CASE AwaitUnwind BY <1>16 DEF AwaitUnwind
  <1>17. CASE Overruns BY SMTT(30), <1>17 DEF Overruns
  <1> QED BY <1>1, <1>2, <1>3, <1>4, <1>5, <1>6, <1>7, <1>8, <1>9, <1>10, <1>11, <1>12, <1>13,
             <1>14, <1>15, <1>16, <1>17 DEF WdNext, JsStep, WatchStep

\* The books balance after every step of the isolate's thread and the clock:
\* an unwound stretch consumes the pending termination, and a stretch that is
\* armed, disarmed or late while the watchdog sleeps is not yet charged.
LEMMA JsPaid ==
    ASSUME WdInv, JsStep \/ Overruns
    PROVE  WdPaid'
  <1> DEFINE c == Cardinality(Charged)
             k == Cardinality(killed)
  <1>1. WdTypeOK /\ WdPlaces /\ WdPaid /\ WdTypeOK'
    BY WdTyped DEF WdInv, WdNext
  <1>2. c \in Nat /\ k \in Nat /\ c' \in Nat /\ k' \in Nat
        /\ IsFiniteSet(Charged) /\ IsFiniteSet(Charged') /\ IsFiniteSet(killed)
    BY <1>1, Finite, FiniteNext
  <1>3. wdPc' = wdPc
    BY DEF JsStep, Overruns, ArmFired, ArmGeneration, ArmDeadline, Returns, Unwinds, Disarm,
           TookFired, DropRuntimeBegin, Joined, wdThread
  <1>4. Charged \subseteq Charged'
    <2>2. CASE ArmDeadline
      BY <1>1, <1>3, <2>2 DEF ArmDeadline, Charged, WdPlaces
    <2>3. CASE Disarm
      <3>1. 0 \notin late /\ late' = late /\ deadline' = 0
        BY SMTT(30), <1>1, <2>3 DEF Disarm, verdicts, WdTypeOK
      <3> QED BY <1>3, <3>1 DEF Charged
    <2>4. CASE ~ArmDeadline /\ ~Disarm
      <3>1. late \subseteq late' /\ deadline' = deadline
        BY <2>4 DEF JsStep, Overruns, ArmFired, ArmGeneration, Returns, Unwinds,
                    TookFired, DropRuntimeBegin, Joined, atomics, verdicts
      <3> QED BY <1>3, <3>1 DEF Charged
    <2> QED BY <2>2, <2>3, <2>4
  <1>5. c <= c'
    BY <1>2, <1>4, FS_Subset
  <1>6. k' + One(terminating') <= k + One(terminating)
    <2>1. CASE Unwinds
      <3>1. Cardinality(killed \cup {generation}) = IF generation \in killed THEN k ELSE k + 1
        BY <1>2, FS_AddElement
      <3>2. k' <= k + 1 /\ terminating /\ ~terminating'
        BY SMTT(30), <1>2, <2>1, <3>1 DEF Unwinds
      <3> QED BY SMTT(30), <1>2, <3>2 DEF One
    <2>2. CASE TookFired
      <3>1. k' = k /\ (terminating' => terminating)
        BY <2>2 DEF TookFired, verdicts
      <3> QED BY SMTT(30), <1>2, <3>1 DEF One
    <2>3. CASE ~Unwinds /\ ~TookFired
      <3>1. k' = k /\ terminating' = terminating
        BY <2>3 DEF JsStep, Overruns, ArmFired, ArmGeneration, ArmDeadline, Returns, Disarm,
                    DropRuntimeBegin, Joined, verdicts
      <3> QED BY SMTT(30), <1>2, <3>1 DEF One
    <2> QED BY <2>1, <2>2, <2>3
  <1>7. One(Deciding') = One(Deciding) /\ One(Deciding) \in Nat /\ One(terminating) \in Nat
        /\ One(terminating') \in Nat
    BY <1>3 DEF One, Deciding
  <1> QED BY SMTT(30), <1>1, <1>2, <1>5, <1>6, <1>7 DEF WdPaid

\* And after every step of the watchdog: it charges the late stretch it finds
\* armed, turns the charge into a pending termination, and goes back to sleep
\* with the armed stretch, if any, not charged.
LEMMA WatchPaid ==
    ASSUME WdInv, WatchStep
    PROVE  WdPaid'
  <1> DEFINE c == Cardinality(Charged)
             k == Cardinality(killed)
             l == Cardinality(late)
  <1>1. WdTypeOK /\ WdPlaces /\ WdPaid /\ WdTypeOK'
    BY WdTyped DEF WdInv, WdNext
  <1>2. c \in Nat /\ k \in Nat /\ l \in Nat /\ c' \in Nat /\ c <= l
        /\ IsFiniteSet(Charged) /\ IsFiniteSet(Charged') /\ IsFiniteSet(late)
    BY <1>1, Finite, FiniteNext
  <1>3. killed' = killed /\ late' = late /\ deadline' = deadline /\ k' = k
    BY DEF WatchStep, Wake, NoteGeneration, Recheck, Compare, Terminate, MarkFired, AwaitUnwind,
           verdicts, atomics
  <1>4. wdPc # "sleep" => Charged = late
    BY DEF Charged
  <1>5. wdPc' # "sleep" => Charged' = late
    BY <1>3 DEF Charged
  <1>6. wdPc' = "sleep" => Charged' = late \ {deadline}
    BY <1>3 DEF Charged
  <1>7. deadline = 0 => late \ {deadline} = late
    BY SMTT(30), <1>1 DEF WdTypeOK
  <1>8. Cardinality(late \ {deadline}) = (IF deadline \in late THEN l - 1 ELSE l)
    BY <1>2, FS_RemoveElement
  <1>9. k + One(terminating) + One(Deciding) <= c
    BY <1>1 DEF WdPaid
  <1>10. One(terminating) \in {0, 1} /\ One(terminating') \in {0, 1}
         /\ One(Deciding) \in {0, 1} /\ One(Deciding') \in {0, 1}
    BY DEF One
  <1>11. SUFFICES k + One(terminating') + One(Deciding') <= c'
    BY <1>3 DEF WdPaid
  <1>12. CASE Wake
    <2>1. terminating' = terminating /\ wdPc = "sleep" /\ Charged = late \ {deadline} /\ ~Deciding
      BY <1>12 DEF Wake, Charged, Deciding
    <2>2. CASE wdPc' = "note"
      <3>1. deadline \in late
        BY <1>12, <2>2 DEF Wake
      <3>2. c = l - 1 /\ c' = l
        BY <1>5, <1>8, <2>1, <2>2, <3>1
      <3> QED BY SMTT(30), <1>2, <1>9, <1>10, <2>1, <3>2 DEF One
    <2>3. CASE wdPc' # "note"
      <3>1. ~Deciding' /\ c' >= c
        <4>1. wdPc' \in {"exited", "sleep"}
          BY <1>12, <2>3 DEF Wake
        <4> QED BY SMTT(30), <1>2, <1>5, <1>6, <2>1, <4>1 DEF Deciding
      <3> QED BY SMTT(30), <1>2, <1>9, <1>10, <2>1, <3>1 DEF One
    <2> QED BY <2>2, <2>3
  <1>13. CASE NoteGeneration
    <2>1. terminating' = terminating /\ Deciding /\ Deciding' /\ c = l /\ c' = l
      BY <1>4, <1>5, <1>13 DEF NoteGeneration, Deciding
    <2> QED BY <1>9, <2>1 DEF One
  <1>14. CASE Recheck
    <2>1. terminating' = terminating /\ Deciding /\ c = l
      BY <1>4, <1>14 DEF Recheck, Deciding
    <2>2. c' = l
      <3>1. CASE wdPc' = "sleep"
        BY <1>6, <1>7, <1>14, <3>1 DEF Recheck
      <3> QED BY <1>5, <3>1
    <2> QED BY SMTT(30), <1>2, <1>9, <1>10, <2>1, <2>2 DEF One
  <1>15. CASE Compare
    <2>1. terminating' = terminating /\ Deciding /\ c = l
      BY <1>4, <1>15 DEF Compare, Deciding
    <2>2. CASE wdPc' = "sleep"
      <3>1. ~Deciding' /\ c' >= l - 1
        BY SMTT(30), <1>2, <1>6, <1>8, <2>2 DEF Deciding
      <3> QED BY SMTT(30), <1>2, <1>9, <1>10, <2>1, <3>1 DEF One
    <2>3. CASE wdPc' # "sleep"
      BY SMTT(30), <1>2, <1>5, <1>9, <1>10, <2>1, <2>3 DEF One
    <2> QED BY <2>2, <2>3
  <1>16. CASE Terminate
    <2>1. Deciding /\ ~Deciding' /\ c = l /\ c' = l
      BY <1>4, <1>5, <1>16 DEF Terminate, Deciding
    <2> QED BY SMTT(30), <1>2, <1>9, <1>10, <2>1 DEF One
  <1>17. CASE MarkFired
    <2>1. terminating' = terminating /\ ~Deciding /\ ~Deciding' /\ c = l /\ c' = l
      BY <1>4, <1>5, <1>17 DEF MarkFired, Deciding
    <2> QED BY <1>9, <2>1 DEF One
  <1>18. CASE AwaitUnwind
    <2>1. deadline = 0
      BY <1>1, <1>18 DEF AwaitUnwind, WdPlaces
    <2>2. terminating' = terminating /\ ~Deciding /\ ~Deciding' /\ c = l /\ c' = l
      BY <1>4, <1>6, <1>7, <1>18, <2>1 DEF AwaitUnwind, Deciding
    <2> QED BY <1>9, <2>2 DEF One
  <1> QED BY <1>12, <1>13, <1>14, <1>15, <1>16, <1>17, <1>18 DEF WatchStep

\* The watchdog of an isolate terminates no more stretches than overran,
\* whatever the two threads interleave, and has exited before the isolate it
\* refers to is freed.
THEOREM WatchdogAlwaysSafe == WdSpec => []WatchdogSafe
  <1>1. WdInv /\ [WdNext]_wdVars => WdInv'
    <2>1. ASSUME WdInv, WdNext PROVE WdInv'
      BY <2>1, WdTyped, JsPaid, WatchPaid DEF WdInv, WdNext
    <2>2. ASSUME WdInv, UNCHANGED wdVars PROVE WdInv'
      BY <2>2 DEF wdVars, WdInv, WdTypeOK, WdPlaces, WdPaid, Charged, Deciding
    <2> QED BY <2>1, <2>2
  <1>2. WdInv => WatchdogSafe
    <2> SUFFICES ASSUME WdInv PROVE WatchdogSafe
      OBVIOUS
    <2>1. /\ Cardinality(killed) \in Nat /\ Cardinality(late) \in Nat /\ Cardinality(Charged) \in Nat
          /\ Cardinality(Charged) <= Cardinality(late)
      BY Finite DEF WdInv
    <2>2. KillsEarned
      BY SMTT(30), <2>1 DEF WdInv, WdPaid, One, KillsEarned
    <2> QED BY <2>2 DEF WdInv, WdPlaces, WatchdogSafe, NoTerminateAfterFree
  <1> QED BY <1>1, <1>2, WdInitInv, PTL DEF WdSpec
=============================================================================
