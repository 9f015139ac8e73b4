------------------------------- MODULE Sched -------------------------------
(***************************************************************************)
(* The scheduler of kernel/sched_new.c with its callers: on one CPU the    *)
(* current task creates tasks, yields, sleeps, wakes, kills and exits, an  *)
(* interrupt may wake sleepers while the CPU idles, and the timer, where   *)
(* it drives the scheduler, ticks between any two of these steps.          *)
(*                                                                         *)
(* wakeup() takes the run queue lock once per task it wakes, so its loop   *)
(* over task_table is one step per entry and the timer may tick in         *)
(* between; in this module task t has entry t of the table.                *)
(***************************************************************************)
EXTENDS RunQueue

CONSTANTS PrioChoices,  \* the priorities a new task may carry
          TimerTicks,   \* whether the timer interrupt calls scheduler_tick
          MaxActive     \* bound: ticks stop when an array counts this many

ASSUME SchedAssumption ==
    /\ PrioChoices \subseteq Int
    /\ TimerTicks \in BOOLEAN
    /\ MaxActive \in Nat

VARIABLES s,         \* the run queue and the tasks, see RunQueue
          created,   \* tasks wake_up_new_task has been called for
          scan       \* wakeup in progress: its channel and its loop index
vars == <<s, created, scan>>

NotScanning == [chan |-> NULL, i |-> 0]

Init ==
    /\ \E f \in [Tasks -> PrioChoices] :
          s = sched_init([t \in Threads |-> IF t = idle THEN MAX_PRIO - 1
                                            ELSE f[t]])
    /\ created = {}
    /\ scan = NotScanning

(* The current task is in user code or at the start of a kernel call.      *)
Runs == s.curr # idle /\ scan = NotScanning
-----------------------------------------------------------------------------
(* dequeue_task leaves counts behind (see ArrayCountsExact), so nr_active  *)
(* grows without limit in the code; MaxActive bounds it here.              *)
Tick ==
    /\ TimerTicks
    /\ s.nr_active[expired(s)] < MaxActive
    /\ s' = scheduler_tick(s)
    /\ UNCHANGED <<created, scan>>

(* start_init: create the first task, then schedule().                     *)
StartInit(t) ==
    /\ created = {}
    /\ s' = schedule(wake_up_new_task(s, t))
    /\ created' = {t}
    /\ UNCHANGED scan

NewTask(t) ==
    /\ Runs /\ t \notin created
    /\ s' = wake_up_new_task(s, t)
    /\ created' = created \cup {t}
    /\ UNCHANGED scan

Yield == Runs /\ s' = yield(s) /\ UNCHANGED <<created, scan>>

Sleep(c) == Runs /\ s' = sleep(s, c) /\ UNCHANGED <<created, scan>>

(* do_exit as the scheduler sees it.                                       *)
Exit ==
    /\ Runs
    /\ s' = block(s, "ZOMBIE", s.chan[s.curr])
    /\ UNCHANGED <<created, scan>>

Wakeup(c) ==
    /\ created # {} /\ scan = NotScanning
    /\ scan' = [chan |-> c, i |-> 0]
    /\ UNCHANGED <<s, created>>

WakeupStep ==
    /\ scan # NotScanning
    /\ s' = wakeup_one(s, scan.i, scan.chan)
    /\ scan' = IF scan.i = NTASKS THEN NotScanning ELSE [scan EXCEPT !.i = @ + 1]
    /\ UNCHANGED created

(* kill_process: wakes a sleeper and leaves its chan alone.                *)
Kill(t) ==
    /\ Runs /\ t \in created /\ s.state[t] \in Asleep
    /\ s' = wake_up_process(s, t)
    /\ UNCHANGED <<created, scan>>

(* cpu_idle: the idle task calls schedule() once need_resched() is true.   *)
CpuIdle ==
    /\ s.curr = idle /\ created # {} /\ scan = NotScanning
    /\ s.resched[idle]
    /\ s' = schedule(s)
    /\ UNCHANGED <<created, scan>>

GiveUpCPU == Yield \/ (\E c \in Chans : Sleep(c)) \/ Exit

Next ==
    \/ Tick
    \/ \E t \in Tasks : StartInit(t) \/ NewTask(t) \/ Kill(t)
    \/ GiveUpCPU
    \/ \E c \in Chans : Wakeup(c)
    \/ WakeupStep
    \/ CpuIdle

Spec == Init /\ [][Next]_vars

(* Tasks are trusted to give up the CPU in the end (nothing preempts a     *)
(* task that does not: need_resched is read by cpu_idle alone), wakeup's   *)
(* loop runs to its end, and interrupts leave the idle loop room to run.   *)
(* These are SF(GiveUpCPU), WF(WakeupStep) and SF(CpuIdle); the conditions *)
(* that enable the first and the last are spelled out, and a step is one   *)
(* of WakeupStep when it moves scan on.                                    *)
ScanMoves ==
    /\ scan # NotScanning
    /\ scan' = IF scan.i = NTASKS THEN NotScanning ELSE [scan EXCEPT !.i = @ + 1]
IdleMayRun ==
    s.curr = idle /\ created # {} /\ scan = NotScanning /\ s.resched[idle]
FairSpec ==
    /\ Spec
    /\ <>[]~Runs \/ []<><<GiveUpCPU>>_vars
    /\ WF_scan(ScanMoves)
    /\ <>[]~IdleMayRun \/ []<><<CpuIdle>>_vars
-----------------------------------------------------------------------------
(* The run queue of struct rq, its counters never below 0, and the loop    *)
(* index of wakeup.                                                        *)
TypeOK ==
    /\ s \in RunQueueType
    /\ created \subseteq Tasks
    /\ scan \in [chan : Chans \cup {NULL}, i : 0 .. NTASKS]

(* The run queue tells the truth about itself, whatever ticks, wakeups and *)
(* yields came in which order.  A task with on_rq set is in exactly one    *)
(* place of one queue, the one of its priority, and a task without it is   *)
(* in none; a queue that holds a task has its bit set, in the expired      *)
(* array too, although dequeue_task only ever looks at the active one; and *)
(* nr_running counts the tasks on the run queue.                           *)
RunQueueExact == QueuesConsistent(s) /\ BitsCoverQueues(s) /\ CountsRunning(s)

(* Being runnable and being on the run queue are the same thing for a      *)
(* created task, the running task included: no task is lost when it is     *)
(* woken, killed or moved, and no sleeper or zombie is ever picked.        *)
RunnableIsQueued ==
    /\ \A t \in created : s.state[t] = "RUNNING" <=> s.on_rq[t]
    /\ \A t \in Tasks \ created : ~s.on_rq[t]
    /\ s.curr # idle => s.on_rq[s.curr]

(* What wakeup, kill and the timer may never do: bring an exited task back *)
(* to life.                                                                *)
ZombieStaysDead ==
    [][\A t \in Tasks : s.state[t] = "ZOMBIE" => s'.state[t] = "ZOMBIE"]_vars

(* schedule() switches to a task of the highest priority that the active   *)
(* array holds.                                                            *)
PicksHighestPriority ==
    [][s'.curr # s.curr /\ s'.curr # idle =>
         \A p \in Prios : p < queue_of(s'.prio[s'.curr]) =>
            s'.queue[s'.active][p] = << >>]_vars

TasksIn(a) == {t \in Tasks : \E p \in Prios : Holds(s.queue[a][p], t)}

(* nr_active is the number of tasks in the array ("Active task count",     *)
(* include/minix/sched.h) and a set bit means a queue that is not empty.   *)
ArrayCountsExact ==
    \A a \in Arrays :
       /\ s.nr_active[a] = Cardinality(TasksIn(a))
       /\ \A p \in s.bitmap[a] : s.queue[a][p] # << >>

(* kernel/init_proc.c: "The idle process runs when no other process is     *)
(* ready."  While the idle loop waits, with no reschedule pending, no task *)
(* is on the run queue.                                                    *)
IdleOnlyWhenNothingReady ==
    s.curr = idle /\ ~s.resched[idle] /\ created # {} => 
        \A t \in Tasks : ~s.on_rq[t]

(* Round robin: among tasks of one priority, every task on the run queue   *)
(* gets the CPU.                                                           *)
EveryReadyTaskRuns == \A t \in Tasks : s.on_rq[t] ~> s.curr = t
=============================================================================
