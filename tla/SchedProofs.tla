---------------------------- MODULE SchedProofs -----------------------------
(***************************************************************************)
(* Proofs about Sched.tla, for any number of tasks, any priorities and any *)
(* time slices, and about PidAlloc.tla.                                    *)
(***************************************************************************)
EXTENDS Sched, PidAlloc, KernelLemmas, NumbersProofs

(* The two steps that only Sched.tla takes: the tick, and one wake-up of   *)
(* the loop in wakeup().                                                   *)
LEMMA TickStep ==
    ASSUME NEW C \in SUBSET Tasks, NEW r, RInv(r, C)
    PROVE  RInv(scheduler_tick(r), C) /\ StepOK(r, scheduler_tick(r))
<1> DEFINE t == r.curr
           left == IF r.time_slice[t] > 0 THEN r.time_slice[t] - 1 ELSE 0
           m == [r EXCEPT !.time_slice[t] = task_timeslice(r.prio[t])]
           d == dequeue_task(m, t)
           w == add_to(d, expired(r), t)
           r2 == scheduler_tick(r)
<1>0. r \in RunQueueType /\ expired(r) \in Arrays
  BY RInvFacts, SMTT(60)
<1>1. r \in RunQueueType /\ t \in Threads /\ r.prio[t] \in Int /\ expired(r) \in Arrays
  BY <1>0 DEF RunQueueType
<1>2. CASE t = idle
  BY <1>2, SMTT(60) DEF scheduler_tick, StepOK
<1>3. CASE t # idle /\ left > 0
  <2>1. r2 = [r EXCEPT !.time_slice[t] = left] /\ left \in Nat
    BY <1>1, <1>3 DEF scheduler_tick, RunQueueType
  <2> HIDE DEF left, r2
  <2>2. /\ r2 \in RunQueueType /\ r2.queue = r.queue /\ r2.bitmap = r.bitmap
        /\ r2.nr_running = r.nr_running /\ r2.on_rq = r.on_rq /\ r2.prio = r.prio
        /\ r2.curr = r.curr /\ r2.state = r.state
    BY <1>1, <2>1, ZenonT(60) DEF RunQueueType
  <2>3. QInv(r2)
    BY <2>2, Frame, SMTT(60) DEF RInv
  <2> QED  BY <2>2, <2>3 DEF RInv, StepOK, r2
<1>4. CASE t # idle /\ ~(left > 0)
  <2>1. t \in Tasks /\ r.on_rq[t]
    BY <1>1, <1>4 DEF RInv, Threads
  <2>2. r2 = [w EXCEPT !.resched[t] = TRUE]
    BY <1>4, <2>1 DEF scheduler_tick
  <2>3. /\ m \in RunQueueType /\ m.queue = r.queue /\ m.bitmap = r.bitmap
        /\ m.nr_running = r.nr_running /\ m.on_rq = r.on_rq /\ m.prio = r.prio
        /\ m.curr = r.curr /\ m.state = r.state
    BY <1>1, SliceType, ZenonT(60) DEF RunQueueType
  <2> HIDE DEF m, left
  <2>4. QInv(m)
    <3>1. QInv(r)
      BY DEF RInv
    <3> QED  BY <2>3, <3>1, Frame
  <2>5. /\ QInv(d) /\ d.on_rq = [r.on_rq EXCEPT ![t] = FALSE]
        /\ d.curr = r.curr /\ d.state = r.state
    BY <2>1, <2>3, <2>4, Dequeue, SMTT(60)
  <2> HIDE DEF d
  <2>6. ~d.on_rq[t]
    <3>1. r.on_rq \in [Threads -> BOOLEAN] /\ t \in Threads
      BY <1>1, Fields, Zenon
    <3>2. d.on_rq = [r.on_rq EXCEPT ![t] = FALSE]
      BY <2>5, Zenon
    <3> QED  BY <3>1, <3>2
  <2>7. /\ QInv(w) /\ w.on_rq = [d.on_rq EXCEPT ![t] = TRUE]
        /\ w.curr = r.curr /\ w.state = r.state
    <3>1. w = add_to(d, expired(r), t) /\ expired(r) \in Arrays /\ t \in Tasks /\ QInv(d)
      BY <1>1, <2>1, <2>5, Zenon
    <3> HIDE DEF w
    <3>2. /\ QInv(w) /\ w.on_rq = [d.on_rq EXCEPT ![t] = TRUE]
          /\ w.curr = d.curr /\ w.state = d.state
      BY <3>1, <2>6, Added
    <3> QED  BY <3>2, <2>5, Zenon
  <2> HIDE DEF w, r2
  <2>8. w.on_rq = r.on_rq
    <3>1. r.on_rq \in [Threads -> BOOLEAN] /\ t \in Threads /\ r.on_rq[t]
      BY <1>1, <2>1, Fields, Zenon
    <3>2. w.on_rq = [[r.on_rq EXCEPT ![t] = FALSE] EXCEPT ![t] = TRUE]
      BY <2>5, <2>7, Zenon
    <3> QED  BY <3>1, <3>2
  <2>9. /\ r2 \in RunQueueType /\ r2.queue = w.queue /\ r2.bitmap = w.bitmap
        /\ r2.nr_running = w.nr_running /\ r2.on_rq = w.on_rq /\ r2.prio = w.prio
        /\ r2.curr = w.curr /\ r2.state = w.state
    BY <1>1, <2>2, <2>7, ZenonT(60) DEF RunQueueType, QInv
  <2>10. QInv(r2)
    BY <2>7, <2>9, Frame
  <2>11. QInv(r2) /\ r2.on_rq = r.on_rq /\ r2.curr = r.curr /\ r2.state = r.state
    BY <2>7, <2>8, <2>9, <2>10, Zenon
  <2>12. RInv(r2, C) /\ StepOK(r, r2)
    BY <2>11 DEF RInv, StepOK
  <2> QED  BY <2>12 DEF r2
<1> QED  BY <1>2, <1>3, <1>4

(* One iteration of wakeup.                                                *)
LEMMA WakeupOneStep ==
    ASSUME NEW C \in SUBSET Tasks, NEW r, RInv(r, C), NEW t \in Threads, NEW c
    PROVE  RInv(wakeup_one(r, t, c), C) /\ StepOK(r, wakeup_one(r, t, c))
<1> DEFINE m == [r EXCEPT !.chan[t] = NULL]
<1>1. CASE ~(r.state[t] \in Asleep /\ r.chan[t] = c)
  <2>1. wakeup_one(r, t, c) = r
    BY <1>1, Zenon DEF wakeup_one
  <2> QED  BY <2>1 DEF StepOK
<1>2. CASE r.state[t] \in Asleep /\ r.chan[t] = c
  <2>1. wakeup_one(r, t, c) = wake_up_process(m, t)
    BY <1>2 DEF wakeup_one
  <2>2. r \in RunQueueType
    BY RInvFacts
  <2>3. /\ m \in RunQueueType /\ m.queue = r.queue /\ m.bitmap = r.bitmap
        /\ m.nr_running = r.nr_running /\ m.on_rq = r.on_rq /\ m.prio = r.prio
        /\ m.curr = r.curr /\ m.state = r.state
    BY <2>2, ZenonT(60) DEF RunQueueType
  <2> HIDE DEF m
  <2>4. RInv(m, C)
    <3>1. QInv(m)
      BY <2>3, Frame DEF RInv
    <3> QED  BY <3>1, <2>3 DEF RInv
  <2>5. t \in C
    BY <1>2, SMTT(60) DEF RInv, Threads, Asleep
  <2>6. RInv(wake_up_process(m, t), C) /\ StepOK(m, wake_up_process(m, t))
    BY <1>2, <2>3, <2>4, <2>5, WakeStep
  <2> QED  BY <2>1, <2>3, <2>6 DEF StepOK
<1> QED  BY <1>1, <1>2, SMTT(60)
-----------------------------------------------------------------------------
IInv == TypeOK /\ RInv(s, created)

LEMMA InitIInv == Init => IInv
<1> SUFFICES ASSUME Init PROVE IInv
  OBVIOUS
<1>1. PICK f \in [Tasks -> PrioChoices] :
         s = sched_init([t \in Threads |-> IF t = idle THEN MAX_PRIO - 1 ELSE f[t]])
  BY Zenon DEF Init
<1> DEFINE pr == [t \in Threads |-> IF t = idle THEN MAX_PRIO - 1 ELSE f[t]]
<1>2. pr \in [Threads -> Int]
  <2>1. \A t \in Threads : (IF t = idle THEN MAX_PRIO - 1 ELSE f[t]) \in Int
    <3>1. MAX_PRIO - 1 \in Int /\ \A t \in Tasks : f[t] \in Int
      <4>1. MAX_PRIO - 1 \in Int
        BY RunQueueAssumption
      <4>2. \A t \in Tasks : f[t] \in PrioChoices
        OBVIOUS
      <4> QED  BY <4>1, <4>2, SchedAssumption, ZenonT(60)
    <3> QED  BY <3>1 DEF Threads
  <2> QED  BY <2>1
<1> HIDE DEF pr
<1>3. RInv(s, {})
  BY <1>1, <1>2, SchedInit, ArithmeticHolds DEF pr
<1>4. RInv(s, created) /\ s \in RunQueueType
  BY <1>3, Zenon DEF Init, RInv, QInv
<1>5. TypeOK
  BY <1>4, RunQueueAssumption DEF TypeOK, Init, NotScanning
<1> QED  BY <1>4, <1>5 DEF IInv

(* Every step keeps the invariant, revives no zombie and switches only to  *)
(* a task of the highest priority.                                         *)
LEMMA NextIInv == IInv /\ [Next]_vars => IInv' /\ StepOK(s, s')
<1> SUFFICES ASSUME IInv, [Next]_vars PROVE IInv' /\ StepOK(s, s')
  OBVIOUS
<1> USE DEF NotScanning
<1>0. /\ RInv(s, created) /\ created \in SUBSET Tasks /\ s.chan \in [Threads -> Chans \cup {NULL}]
      /\ scan \in [chan : Chans \cup {NULL}, i : 0 .. NTASKS] /\ s.curr \in Threads
  BY SMTT(60) DEF IInv, TypeOK, RunQueueType
<1> SUFFICES /\ RInv(s', created') /\ created' \subseteq Tasks /\ StepOK(s, s')
             /\ scan' \in [chan : Chans \cup {NULL}, i : 0 .. NTASKS]
  BY Zenon DEF IInv, TypeOK, RInv, QInv
<1>1. CASE Tick
  BY <1>0, <1>1, TickStep, SMTT(60) DEF Tick
<1>2. ASSUME NEW t \in Tasks, StartInit(t)
      PROVE  /\ RInv(s', created') /\ created' \subseteq Tasks /\ StepOK(s, s')
             /\ scan' \in [chan : Chans \cup {NULL}, i : 0 .. NTASKS]
  <2> DEFINE w == wake_up_new_task(s, t)
  <2>1. /\ created = {} /\ s' = schedule(w) /\ created' = {t} /\ scan' = scan
    BY <1>2 DEF StartInit
  <2>2. RInv(w, {t}) /\ StepOK(s, w) /\ w.curr = s.curr
    BY <1>0, <2>1, NewStep
  <2> HIDE DEF w
  <2>3. RInv(schedule(w), {t}) /\ StepOK(w, schedule(w))
    BY <2>2, PlainSchedule
  <2> QED  BY <1>0, <2>1, <2>2, <2>3 DEF StepOK
<1>3. ASSUME NEW t \in Tasks, NewTask(t)
      PROVE  /\ RInv(s', created') /\ created' \subseteq Tasks /\ StepOK(s, s')
             /\ scan' \in [chan : Chans \cup {NULL}, i : 0 .. NTASKS]
  BY <1>0, <1>3, NewStep, SMTT(60) DEF NewTask
<1>4. ASSUME NEW t \in Tasks, Kill(t)
      PROVE  /\ RInv(s', created') /\ created' \subseteq Tasks /\ StepOK(s, s')
             /\ scan' \in [chan : Chans \cup {NULL}, i : 0 .. NTASKS]
  BY <1>0, <1>4, WakeStep, SMTT(60) DEF Kill
<1>5. CASE Yield
  BY <1>0, <1>5, YieldStep, SMTT(60) DEF Yield, Runs
<1>6. ASSUME NEW c \in Chans, Sleep(c)
      PROVE  /\ RInv(s', created') /\ created' \subseteq Tasks /\ StepOK(s, s')
             /\ scan' \in [chan : Chans \cup {NULL}, i : 0 .. NTASKS]
  <2>1. /\ s' = block(s, "INTERRUPTIBLE", c) /\ s.curr # idle
        /\ created' = created /\ scan' = scan
    BY <1>6, Zenon DEF Sleep, Runs, sleep
  <2>2. "INTERRUPTIBLE" \in TaskStates \ {"RUNNING"} /\ c \in Chans \cup {NULL}
    BY DEF TaskStates, Asleep
  <2> QED  BY <1>0, <2>1, <2>2, BlockStep, ZenonT(60)
<1>7. CASE Exit
  <2>1. /\ s' = block(s, "ZOMBIE", s.chan[s.curr]) /\ s.curr # idle
        /\ created' = created /\ scan' = scan
    BY <1>7, Zenon DEF Exit, Runs
  <2>2. "ZOMBIE" \in TaskStates \ {"RUNNING"} /\ s.chan[s.curr] \in Chans \cup {NULL}
    BY <1>0 DEF TaskStates, Asleep
  <2> QED  BY <1>0, <2>1, <2>2, BlockStep, ZenonT(60)
<1>8. ASSUME NEW c \in Chans, Wakeup(c)
      PROVE  /\ RInv(s', created') /\ created' \subseteq Tasks /\ StepOK(s, s')
             /\ scan' \in [chan : Chans \cup {NULL}, i : 0 .. NTASKS]
  BY <1>0, <1>8, RunQueueAssumption DEF Wakeup, StepOK
<1>9. CASE WakeupStep
  <2>1. scan.i \in Threads /\ scan' \in [chan : Chans \cup {NULL}, i : 0 .. NTASKS]
    BY <1>0, <1>9, RunQueueAssumption, SMTT(60) DEF WakeupStep, Threads, Tasks, idle
  <2> QED  BY <1>0, <1>9, <2>1, WakeupOneStep DEF WakeupStep
<1>10. CASE CpuIdle
  BY <1>0, <1>10, PlainSchedule DEF CpuIdle
<1>11. CASE UNCHANGED vars
  BY <1>0, <1>11 DEF vars, StepOK
<1> QED  BY <1>1, <1>2, <1>3, <1>4, <1>5, <1>6, <1>7, <1>8, <1>9, <1>10, <1>11, ZenonT(60)
         DEF Next, GiveUpCPU

LEMMA SpecIInv == Spec => []IInv
BY InitIInv, NextIInv, PTL DEF Spec

(* The run queue and its tasks stay well typed under every interleaving of *)
(* ticks, wakeups, kills and context switches.                             *)
THEOREM TypeCorrect == Spec => []TypeOK
<1>1. IInv => TypeOK
  BY DEF IInv
<1> QED  BY SpecIInv, <1>1, PTL

(* on_rq, the two arrays of lists, the bitmaps and nr_running agree in     *)
(* every reachable state, for any number of tasks and priorities.          *)
THEOREM RunQueueConsistent ==
    Spec => [](RunQueueExact)
<1>1. IInv => RunQueueExact
  BY DEF IInv, RInv, QInv, RunQueueExact
<1> QED  BY SpecIInv, <1>1, PTL

(* No task is lost: a created task is runnable exactly when it is on the   *)
(* run queue, and the CPU never runs a sleeper or a zombie.                *)
THEOREM NoTaskLost == Spec => []RunnableIsQueued
<1>1. IInv => RunnableIsQueued
  BY DEF IInv, RInv, RunnableIsQueued
<1> QED  BY SpecIInv, <1>1, PTL

(* Nothing, a late wakeup on a stale channel included, revives an exited   *)
(* task.                                                                   *)
THEOREM ZombiesStayDead == Spec => ZombieStaysDead
<1>1. IInv /\ [Next]_vars =>
        [\A t \in Tasks : s.state[t] = "ZOMBIE" => s'.state[t] = "ZOMBIE"]_vars
  BY NextIInv DEF StepOK
<1> QED  BY SpecIInv, <1>1, PTL DEF Spec, ZombieStaysDead

(* schedule() always switches to a task of the highest priority in the     *)
(* active array.                                                           *)
THEOREM SchedulePicksHighest == Spec => PicksHighestPriority
<1>1. IInv /\ [Next]_vars =>
        [s'.curr # s.curr /\ s'.curr # idle =>
           \A p \in Prios : p < queue_of(s'.prio[s'.curr]) =>
              s'.queue[s'.active][p] = << >>]_vars
  BY NextIInv DEF StepOK
<1> QED  BY SpecIInv, <1>1, PTL DEF Spec, PicksHighestPriority
-----------------------------------------------------------------------------
(* The scheduler as the kernel runs it today, without the timer tick.      *)
(* scheduler_tick is the one step that moves a task to the expired array;  *)
(* without it that array stays empty and every count is exact.             *)

(* Every task has a higher priority than the idle task, so that waking it  *)
(* while the CPU idles asks for a reschedule.                              *)
AboveIdle == \A p \in PrioChoices : p < MAX_PRIO - 1

Quiet == s.curr = idle /\ ~s.resched[idle] => \A t \in Tasks : ~s.on_rq[t]

Cooperative ==
    /\ Exact(s)
    /\ s.prio[idle] = MAX_PRIO - 1 /\ \A t \in Tasks : s.prio[t] \in PrioChoices
    /\ AboveIdle => Quiet

LEMMA InitCooperative == Init => Cooperative
<1> SUFFICES ASSUME Init PROVE Cooperative
  OBVIOUS
<1>1. PICK f \in [Tasks -> PrioChoices] :
         s = sched_init([t \in Threads |-> IF t = idle THEN MAX_PRIO - 1 ELSE f[t]])
  BY Zenon DEF Init
<1>2. PICK pr : pr = [t \in Threads |-> IF t = idle THEN MAX_PRIO - 1 ELSE f[t]]
  BY Zenon
<1>3. pr[idle] = MAX_PRIO - 1 /\ \A t \in Tasks : pr[t] = f[t]
  BY <1>2 DEF Threads, Tasks, idle
<1>4. \A t \in Tasks : pr[t] \in PrioChoices
  BY <1>3, Zenon
<1>5. s = sched_init(pr)
  BY <1>1, <1>2, Zenon
<1>6. Exact(s) /\ s.prio = pr
  BY <1>5, ExactInit
<1>7. \A t \in Tasks : ~s.on_rq[t]
  BY <1>5 DEF sched_init, Threads
<1> QED  BY <1>3, <1>4, <1>6, <1>7, Zenon DEF Cooperative, Quiet

(* One iteration of wakeup: the current task stays, and a task that was    *)
(* woken while the CPU idled leaves a reschedule pending.                  *)
LEMMA WakeupKeepsQuiet ==
    ASSUME IInv, Cooperative, NEW t \in Threads, NEW c, s' = wakeup_one(s, t, c)
    PROVE  Cooperative'
<1>1. QInv(s) /\ s.state[idle] = "RUNNING" /\ Exact(s)
  BY DEF IInv, RInv, Cooperative
<1>2. /\ Exact(s') /\ s'.prio = s.prio /\ s'.curr = s.curr
      /\ s' = s \/ (s.prio[t] < s.prio[s.curr] => s'.resched[s.curr])
  <2>1. s.state[t] \in Asleep => t \in Tasks
    BY <1>1 DEF Asleep, Threads
  <2> QED  BY <1>1, <2>1, ExactWakeOne
<1>3. CASE s' = s
  BY <1>3, Zenon DEF Cooperative, Quiet
<1>4. CASE s' # s
  <2>1. t \in Tasks
    BY <1>1, <1>4 DEF wakeup_one, Asleep, Threads
  <2>3. ASSUME AboveIdle, s.curr = idle PROVE s'.resched[idle]
    <3>1. s.prio[t] \in PrioChoices /\ s.prio[idle] = MAX_PRIO - 1
      BY <2>1, Zenon DEF Cooperative
    <3>2. s.prio[t] < s.prio[idle]
      BY <2>3, <3>1 DEF AboveIdle
    <3> QED  BY <1>2, <1>4, <2>3, <3>2
  <2>4. AboveIdle => Quiet'
    BY <1>2, <2>3, Zenon DEF Quiet
  <2> QED  BY <1>2, <2>4, Zenon DEF Cooperative
<1> QED  BY <1>3, <1>4

LEMMA NextCooperative ==
    ASSUME ~TimerTicks, IInv, Cooperative, [Next]_vars PROVE Cooperative'
<1> USE DEF NotScanning
<1>0. /\ RInv(s, created) /\ created \in SUBSET Tasks /\ s.chan \in [Threads -> Chans \cup {NULL}]
      /\ scan \in [chan : Chans \cup {NULL}, i : 0 .. NTASKS] /\ s.curr \in Threads
      /\ Exact(s)
  BY DEF IInv, TypeOK, RunQueueType, Cooperative
<1>1. ASSUME Exact(s'), s'.prio = s.prio, Rests(s') PROVE Cooperative'
  BY <1>1, Zenon DEF Cooperative, Quiet, Rests
<1>2. ASSUME Exact(s'), s'.prio = s.prio, s'.curr = s.curr, s.curr # idle PROVE Cooperative'
  BY <1>2, Zenon DEF Cooperative, Quiet
<1>3. ASSUME NEW t \in Tasks, StartInit(t) PROVE Cooperative'
  <2>1. PICK w : w = wake_up_new_task(s, t)
    OBVIOUS
  <2>2. /\ created = {} /\ s' = schedule(w) /\ created' = {t} /\ scan' = scan
    BY <1>3, <2>1, Zenon DEF StartInit
  <2>3. RInv(w, created \cup {t}) /\ Exact(w) /\ w.prio = s.prio
    BY <1>0, <2>1, <2>2, NewStep, ExactNew
  <2>4. QInv(w) /\ w.state[idle] = "RUNNING"
    BY <2>3 DEF RInv
  <2>5. Exact(s') /\ Rests(s') /\ s'.prio = w.prio
    BY <2>2, <2>3, <2>4, ExactSchedule
  <2> QED  BY <1>1, <2>3, <2>5, Zenon
<1>4. ASSUME NEW t \in Tasks, NewTask(t) PROVE Cooperative'
  <2>1. t \in Tasks \ created /\ s' = wake_up_new_task(s, t) /\ s.curr # idle
    BY <1>4, Zenon DEF NewTask, Runs
  <2>2. Exact(s') /\ s'.prio = s.prio
    BY <1>0, <2>1, ExactNew
  <2>3. s'.curr = s.curr
    BY <1>0, <2>1, NewStep, Zenon
  <2> QED  BY <1>2, <2>1, <2>2, <2>3, Zenon
<1>5. ASSUME NEW t \in Tasks, Kill(t) PROVE Cooperative'
  <2>1. s' = wake_up_process(s, t) /\ s.curr # idle
    BY <1>5, Zenon DEF Kill, Runs
  <2>2. Exact(s') /\ s'.prio = s.prio /\ s'.curr = s.curr
    BY <1>0, <2>1, ExactWake DEF RInv
  <2> QED  BY <1>2, <2>1, <2>2, Zenon
<1>6. CASE Yield
  <2>1. s' = yield(s) /\ s.curr # idle
    BY <1>6, Zenon DEF Yield, Runs
  <2> QED  BY <1>0, <1>1, <2>1, ExactYield
<1>7. ASSUME NEW c \in Chans, Sleep(c) PROVE Cooperative'
  <2>1. s' = block(s, "INTERRUPTIBLE", c) /\ s.curr # idle
    BY <1>7, Zenon DEF Sleep, Runs, sleep
  <2>2. "INTERRUPTIBLE" \in TaskStates \ {"RUNNING"} /\ c \in Chans \cup {NULL}
    BY DEF TaskStates, Asleep
  <2>3. Exact(s') /\ Rests(s') /\ s'.prio = s.prio
    BY <1>0, <2>1, <2>2, ExactBlock
  <2> QED  BY <1>1, <2>3, Zenon
<1>8. CASE Exit
  <2>1. s' = block(s, "ZOMBIE", s.chan[s.curr]) /\ s.curr # idle
    BY <1>8, Zenon DEF Exit, Runs
  <2>2. "ZOMBIE" \in TaskStates \ {"RUNNING"} /\ s.chan[s.curr] \in Chans \cup {NULL}
    BY <1>0 DEF TaskStates, Asleep
  <2>3. Exact(s') /\ Rests(s') /\ s'.prio = s.prio
    BY <1>0, <2>1, <2>2, ExactBlock
  <2> QED  BY <1>1, <2>3, Zenon
<1>9. ASSUME NEW c \in Chans, Wakeup(c) PROVE Cooperative'
  BY <1>9, Zenon DEF Wakeup, Cooperative, Quiet
<1>10. CASE WakeupStep
  <2>1. scan.i \in Threads /\ s' = wakeup_one(s, scan.i, scan.chan)
    BY <1>0, <1>10, RunQueueAssumption DEF WakeupStep, Threads, Tasks, idle
  <2> QED  BY <2>1, WakeupKeepsQuiet
<1>11. CASE CpuIdle
  <2>1. s' = schedule(s) /\ QInv(s) /\ s.state[idle] = "RUNNING"
    BY <1>0, <1>11, Zenon DEF CpuIdle, RInv
  <2>2. Exact(s') /\ Rests(s') /\ s'.prio = s.prio
    BY <1>0, <2>1, ExactSchedule
  <2> QED  BY <1>1, <2>2, Zenon
<1>12. CASE UNCHANGED vars
  BY <1>12, Zenon DEF vars, Cooperative, Quiet
<1> QED  BY <1>3, <1>4, <1>5, <1>6, <1>7, <1>8, <1>9, <1>10, <1>11, <1>12, Zenon
         DEF Next, GiveUpCPU, Tick

LEMMA SpecCooperative == ASSUME ~TimerTicks PROVE Spec => []Cooperative
<1>1. IInv /\ Cooperative /\ [Next]_vars => Cooperative'
  BY NextCooperative
<1> QED  BY SpecIInv, InitCooperative, <1>1, PTL DEF Spec

(* As long as no timer tick moves a task to the expired array, nr_active   *)
(* counts each array's tasks and every bit set in a bitmap stands for a    *)
(* queue that holds one.                                                   *)
THEOREM CountsExactWithoutTicks ==
    ASSUME ~TimerTicks PROVE Spec => []ArrayCountsExact
<1>1. ASSUME IInv, Cooperative PROVE ArrayCountsExact
  <2>1. QInv(s) /\ Exact(s) /\ s.active \in Arrays
    BY <1>1 DEF IInv, RInv, QInv, RunQueueType, Cooperative
  <2>2. TasksIn(1 - s.active) = {}
    <3>1. \A p \in Prios : s.queue[1 - s.active][p] = << >>
      BY <2>1, Zenon DEF Exact
    <3>2. \A t : ~Holds(<< >>, t)
      BY DEF Holds
    <3> QED  BY <3>1, <3>2, Zenon DEF TasksIn
  <2>3. TasksIn(s.active) = {t \in Tasks : s.on_rq[t]}
    <3>1. ASSUME NEW t \in Tasks PROVE t \in TasksIn(s.active) <=> s.on_rq[t]
      <4>1. t \in Threads /\ queue_of(s.prio[t]) \in Prios
        BY <2>1, QueueOfType DEF QInv, RunQueueType, Threads
      <4>2. ASSUME s.on_rq[t] PROVE t \in TasksIn(s.active)
        <5>1. PICK a \in Arrays : Holds(s.queue[a][queue_of(s.prio[t])], t)
          BY <2>1, <4>1, <4>2, Zenon DEF QInv, QueuesConsistent, OnRqIsQueued
        <5>2. t \in TasksIn(a)
          BY <4>1, <5>1, Zenon DEF TasksIn
        <5>3. a = s.active \/ a = 1 - s.active
          BY <2>1 DEF Arrays
        <5> QED  BY <2>2, <5>2, <5>3, Zenon
      <4>3. ASSUME t \in TasksIn(s.active) PROVE s.on_rq[t]
        BY <2>1, <4>1, <4>3, Zenon DEF TasksIn, QInv, QueuesConsistent, OnRqIsQueued
      <4> QED  BY <4>2, <4>3, Zenon
    <3>2. TasksIn(s.active) \subseteq Tasks
      BY Zenon DEF TasksIn
    <3> QED  BY <3>1, <3>2, Zenon
  <2>4. s.nr_active[s.active] = Cardinality(TasksIn(s.active))
    BY <2>1, <2>3, Zenon DEF Exact, QInv, CountsRunning
  <2>5. s.nr_active[1 - s.active] = Cardinality(TasksIn(1 - s.active))
    BY <2>1, <2>2, Zenon DEF Exact, QInv, Arithmetic, SetsCount
  <2>6. \A a \in Arrays : a = s.active \/ a = 1 - s.active
    BY <2>1 DEF Arrays
  <2>7. \A a \in Arrays : \A p \in s.bitmap[a] : s.queue[a][p] # << >>
    BY <2>1, Zenon DEF Exact
  <2> QED  BY <2>4, <2>5, <2>6, <2>7, Zenon DEF ArrayCountsExact
<1> QED  BY SpecIInv, SpecCooperative, <1>1, PTL

(* Without ticks, and with every task above the idle task's priority, the  *)
(* idle loop waits only while no task is on the run queue: a wakeup by an  *)
(* interrupt always leaves a reschedule pending for cpu_idle to find.      *)
THEOREM IdleOnlyWhenIdle ==
    ASSUME ~TimerTicks, AboveIdle PROVE Spec => []IdleOnlyWhenNothingReady
<1>1. Cooperative => IdleOnlyWhenNothingReady
  BY Zenon DEF Cooperative, Quiet, IdleOnlyWhenNothingReady
<1> QED  BY SpecCooperative, <1>1, PTL
-----------------------------------------------------------------------------
(* The PID allocator under arbitrary callers (PidAlloc.tla), for every     *)
(* PID_MAX and every word size.                                            *)
PidInv == PidTypes /\ BitmapExact /\ FailsOnlyWhenFull

(* What a step keeps, and what alloc_pid returns in it.                    *)
PidStep == PidInv' /\ (ret' > 0 /\ pidVars' # pidVars => ret' \in Pids \ held)

LEMMA NextPidInv == PidInv /\ [PidNext]_pidVars => PidStep
<1> SUFFICES ASSUME PidInv, [PidNext]_pidVars PROVE PidStep
  OBVIOUS
<1>0. /\ pid_bitmap \in SUBSET (0 .. PID_MAX - 1) /\ 0 \in pid_bitmap
      /\ last_pid \in 0 .. PID_MAX - 1 /\ held \in SUBSET Pids
      /\ pid_bitmap = held \cup {0} /\ PID_MAX \in Nat \ {0, 1}
  BY PidAssumption DEF PidInv, PidTypes, BitmapExact
<1>1. CASE AllocPid
  <2>1. ret' = alloc_pid(pid_bitmap, last_pid)
    BY <1>1, Zenon DEF AllocPid
  <2>2. CASE ret' \in Pids \ pid_bitmap
    <3>1. /\ pid_bitmap' = pid_bitmap \cup {ret'} /\ last_pid' = ret'
          /\ held' = held \cup {ret'}
      BY <1>1, <2>2 DEF AllocPid, Pids
    <3> QED  BY <1>0, <2>2, <3>1 DEF PidStep, PidInv, PidTypes, BitmapExact,
                  FailsOnlyWhenFull, Pids
  <2>3. CASE ret' = -1 /\ Pids \subseteq pid_bitmap
    <3>1. UNCHANGED <<pid_bitmap, last_pid, held>>
      BY <1>1, <2>3 DEF AllocPid
    <3>2. held = Pids
      <4>1. 0 \notin Pids
        BY DEF Pids
      <4> QED  BY <4>1, <1>0, <2>3, Zenon
    <3> QED  BY <1>0, <2>3, <3>1, <3>2 DEF PidStep, PidInv, PidTypes, BitmapExact,
                  FailsOnlyWhenFull
  <2> QED  BY <1>0, <2>1, <2>2, <2>3, AllocPidFinds, WellOrderedHolds
<1>2. ASSUME NEW pid \in held \cup {-1, 0, PID_MAX}, FreePid(pid)
      PROVE  PidStep
  <2>1. pid_bitmap' = held' \cup {0} /\ held' \subseteq held /\ last_pid' = last_pid /\ ret' = 0
    BY <1>0, <1>2 DEF FreePid, free_pid, Pids
  <2> QED  BY <1>0, <2>1 DEF PidStep, PidInv, PidTypes, BitmapExact,
                FailsOnlyWhenFull, Pids
<1>3. CASE UNCHANGED pidVars
  BY <1>3 DEF pidVars, PidStep, PidInv, PidTypes, BitmapExact, FailsOnlyWhenFull
<1> QED  BY <1>1, <1>2, <1>3 DEF PidNext

LEMMA SpecPidInv == PidSpec => []PidInv
<1>1. PidInit => PidInv
  BY PidAssumption DEF PidInit, PidInv, PidTypes, BitmapExact, FailsOnlyWhenFull
<1>2. PidInv /\ [PidNext]_pidVars => PidInv'
  BY NextPidInv DEF PidStep
<1> QED  BY <1>1, <1>2, PTL DEF PidSpec

(* PIDs are neither leaked nor lost: the bitmap of alloc_pid and free_pid  *)
(* holds PID 0 and the PIDs in use.                                        *)
THEOREM PidsAccountedFor == PidSpec => []BitmapExact
<1>1. PidInv => BitmapExact
  BY DEF PidInv
<1> QED  BY SpecPidInv, <1>1, PTL

(* alloc_pid returns -1 only when every PID is in use: its two scans miss  *)
(* no word of the bitmap and no bit of the partial last one.               *)
THEOREM AllocFailsOnlyWhenFull == PidSpec => []FailsOnlyWhenFull
<1>1. PidInv => FailsOnlyWhenFull
  BY DEF PidInv
<1> QED  BY SpecPidInv, <1>1, PTL

(* No two tasks ever have the same PID.                                    *)
THEOREM PidsUnique == PidSpec => NeverInUse
<1>1. PidInv /\ [PidNext]_pidVars => [ret' > 0 => ret' \in Pids \ held]_pidVars
  BY NextPidInv DEF PidStep
<1> QED  BY SpecPidInv, <1>1, PTL DEF PidSpec, NeverInUse
=============================================================================
