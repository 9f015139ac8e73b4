------------------------------ MODULE RunQueue ------------------------------
(***************************************************************************)
(* The run queue of the O(1) scheduler (kernel/sched_new.c), as operators  *)
(* on one record s:                                                        *)
(*                                                                         *)
(*   active      which of the two arrays rq->active points to; rq->expired *)
(*               is the other one                                          *)
(*   queue       arrays[a].queue[p], a circular list, as a sequence        *)
(*   bitmap      arrays[a].bitmap, as the set of its set bits              *)
(*   nr_active   arrays[a].nr_active                                       *)
(*   nr_running  rq->nr_running                                            *)
(*   curr        rq->curr; schedule() sets it together with current_task   *)
(*   state, on_rq, prio, time_slice, chan      fields of each task_struct  *)
(*   resched     TIF_NEED_RESCHED in the thread_info of each task          *)
(*                                                                         *)
(* Every task has a kernel stack (fork.c fails the fork otherwise, and     *)
(* setup_idle_process gives one to the idle task), so the NULL tests of    *)
(* set_tsk_need_resched and need_resched never fail.  Statistics           *)
(* (nr_switches, clock, stime) are left out: nothing reads them.           *)
(*                                                                         *)
(* A definition whose name extends another's (dequeue_task_unguarded) is   *)
(* that definition with a plausible mistake; no specification uses it.     *)
(***************************************************************************)
EXTENDS Integers, Sequences, FiniteSets

CONSTANTS NTASKS,         \* task_struct slots other than the idle task
          Chans,          \* addresses a task may sleep on
          NULL,
          MAX_PRIO, MAX_RT_PRIO, DEFAULT_PRIO,
          DEF_TIMESLICE, MIN_TIMESLICE, MAX_TIMESLICE

ASSUME RunQueueAssumption ==
    /\ NTASKS \in Nat
    /\ MAX_PRIO \in Nat \ {0}
    /\ MAX_RT_PRIO \in 0 .. MAX_PRIO
    /\ DEFAULT_PRIO \in 0 .. MAX_PRIO - 1
    /\ DEF_TIMESLICE \in Nat
    /\ MIN_TIMESLICE \in Nat \ {0}
    /\ MAX_TIMESLICE \in Nat
    /\ MIN_TIMESLICE <= MAX_TIMESLICE
    /\ NULL \notin Chans

Tasks == 1 .. NTASKS
idle == 0                       \* init_task, PID 0
Threads == {idle} \cup Tasks
Arrays == {0, 1}
Prios == 0 .. MAX_PRIO - 1
Asleep == {"INTERRUPTIBLE", "UNINTERRUPTIBLE"}
TaskStates == Asleep \cup {"RUNNING", "ZOMBIE"}

expired(s) == 1 - s.active

(* The clamp enqueue_task, dequeue_task and scheduler_tick share.          *)
queue_of(prio) == IF prio < 0 THEN 0
                  ELSE IF prio >= MAX_PRIO THEN MAX_PRIO - 1 ELSE prio

(* sched_init: both arrays empty, the idle task running.                   *)
sched_init(prio) ==
    [active     |-> 0,
     queue      |-> [a \in Arrays |-> [p \in Prios |-> << >>]],
     bitmap     |-> [a \in Arrays |-> {}],
     nr_active  |-> [a \in Arrays |-> 0],
     nr_running |-> 0,
     curr       |-> idle,
     state      |-> [t \in Threads |-> "RUNNING"],
     on_rq      |-> [t \in Threads |-> FALSE],
     prio       |-> prio,
     time_slice |-> [t \in Threads |-> IF t = idle THEN DEF_TIMESLICE ELSE 0],
     resched    |-> [t \in Threads |-> FALSE],
     chan       |-> [t \in Threads |-> NULL]]

find_first_bit_scans_down(bits) == CHOOSE b \in bits : \A c \in bits : b >= c

(* find_first_bit over a bitmap that is not 0.                             *)
find_first_bit(bits) == CHOOSE b \in bits : \A c \in bits : b <= c

(* list_del: the circular list closes the gap t leaves.                    *)
list_del(q, t) ==
    IF \E i \in 1 .. Len(q) : q[i] = t
    THEN LET i == CHOOSE i \in 1 .. Len(q) : q[i] = t
         IN  [j \in 1 .. Len(q) - 1 |-> IF j < i THEN q[j] ELSE q[j + 1]]
    ELSE q

add_to_front(s, a, t) ==
    LET p == queue_of(s.prio[t]) IN
    [s EXCEPT !.queue[a][p] = <<t>> \o @, !.bitmap[a] = @ \cup {p},
              !.nr_active[a] = @ + 1, !.nr_running = @ + 1, !.on_rq[t] = TRUE]

(* list_add_tail on arrays[a], with the bit and the counters: the tail     *)
(* enqueue_task and scheduler_tick have in common.                         *)
add_to(s, a, t) ==
    LET p == queue_of(s.prio[t]) IN
    [s EXCEPT !.queue[a][p]   = Append(@, t),
              !.bitmap[a]     = @ \cup {p},
              !.nr_active[a]  = @ + 1,
              !.nr_running    = @ + 1,
              !.on_rq[t]      = TRUE]

enqueue_task(s, t) == add_to(s, s.active, t)

dequeue_task_keeps_bit(s, t) ==
    LET p == queue_of(s.prio[t]) IN
    IF ~s.on_rq[t] THEN s ELSE
    [s EXCEPT !.queue = [a \in Arrays |-> [@[a] EXCEPT ![p] = list_del(@, t)]],
              !.nr_active[s.active] = IF @ > 0 THEN @ - 1 ELSE 0,
              !.nr_running = @ - 1, !.on_rq[t] = FALSE]

dequeue_task_unguarded(s, t) ==
    LET p == queue_of(s.prio[t])
        q == [a \in Arrays |-> [s.queue[a] EXCEPT ![p] = list_del(@, t)]]
    IN  IF ~s.on_rq[t] THEN s ELSE
        [s EXCEPT !.queue = q,
                  !.bitmap[s.active] = IF q[s.active][p] = << >>
                                       THEN @ \ {p} ELSE @,
                  !.nr_active[s.active] = @ - 1,
                  !.nr_running = @ - 1, !.on_rq[t] = FALSE]

(* dequeue_task unlinks t from whichever list holds it, but looks only at  *)
(* the active array's list for the bit, and decrements only the active     *)
(* array's count.                                                          *)
dequeue_task(s, t) ==
    LET p == queue_of(s.prio[t])
        q == [a \in Arrays |-> [s.queue[a] EXCEPT ![p] = list_del(@, t)]]
    IN  IF ~s.on_rq[t] THEN s ELSE
        [s EXCEPT !.queue = q,
                  !.bitmap[s.active] = IF q[s.active][p] = << >>
                                       THEN @ \ {p} ELSE @,
                  !.nr_active[s.active] = IF @ > 0 THEN @ - 1 ELSE 0,
                  !.nr_running = IF @ > 0 THEN @ - 1 ELSE 0,
                  !.on_rq[t] = FALSE]

(* pick_next_task, in two halves: the swap of the arrays it makes when the *)
(* active array counts no task, and the task it then returns.              *)
swap_if_empty(s) ==
    IF s.nr_active[s.active] = 0 THEN [s EXCEPT !.active = 1 - @] ELSE s

pick_next_task(s) ==
    LET bits == s.bitmap[s.active]
        head == s.queue[s.active][find_first_bit(bits)]
    IN  IF s.nr_active[s.active] = 0 \/ bits = {} THEN idle
        ELSE IF head = << >> THEN idle ELSE Head(head)

(* task_timeslice: DEF_TIMESLICE - nice is an int, and becomes an unsigned *)
(* long: a negative one is a huge one, which the upper clamp catches.      *)
task_timeslice(prio) ==
    LET t == DEF_TIMESLICE - (prio - DEFAULT_PRIO) IN
    IF prio < MAX_RT_PRIO \/ t < 0 \/ t > MAX_TIMESLICE THEN MAX_TIMESLICE
    ELSE IF t < MIN_TIMESLICE THEN MIN_TIMESLICE ELSE t

schedule_keeps_sleeper(s) ==
    LET s2 == swap_if_empty(s) IN
    [s2 EXCEPT !.resched[s.curr] = FALSE, !.curr = pick_next_task(s2)]

(* schedule: a task that is no longer runnable leaves the queue; the task  *)
(* picked becomes curr (context_switch), and stays in its queue.           *)
schedule(s) ==
    LET prev == s.curr
        s1 == IF s.state[prev] # "RUNNING" THEN dequeue_task(s, prev) ELSE s
        s2 == swap_if_empty(s1)
    IN  [s2 EXCEPT !.resched[prev] = FALSE, !.curr = pick_next_task(s2)]

scheduler_tick_no_dequeue(s) ==
    LET t == s.curr IN
    IF t = idle THEN s
    ELSE [add_to(s, expired(s), t) EXCEPT !.resched[t] = TRUE]

scheduler_tick(s) ==
    LET t  == s.curr
        left == IF s.time_slice[t] > 0 THEN s.time_slice[t] - 1 ELSE 0
        s1 == [s EXCEPT !.time_slice[t] = task_timeslice(s.prio[t])]
        s2 == IF s.on_rq[t] THEN add_to(dequeue_task(s1, t), expired(s), t)
              ELSE s1
    IN  IF t = idle THEN s
        ELSE IF left > 0 THEN [s EXCEPT !.time_slice[t] = left]
        ELSE [s2 EXCEPT !.resched[t] = TRUE]

yield_in_place(s) == schedule(s)

yield(s) ==
    schedule(IF s.state[s.curr] = "RUNNING" /\ s.on_rq[s.curr]
             THEN enqueue_task(dequeue_task(s, s.curr), s.curr) ELSE s)

wake_up_process_no_resched(s, t) ==
    IF s.state[t] = "RUNNING" THEN s
    ELSE enqueue_task([s EXCEPT !.state[t] = "RUNNING"], t)

wake_up_process(s, t) ==
    LET s1 == [s EXCEPT !.state[t] = "RUNNING"]
        s2 == IF s.on_rq[t] THEN s1 ELSE enqueue_task(s1, t)
    IN  IF s.state[t] = "RUNNING" THEN s
        ELSE IF s.prio[t] < s.prio[s.curr]
             THEN [s2 EXCEPT !.resched[s.curr] = TRUE] ELSE s2

wake_up_new_task(s, t) ==
    enqueue_task([s EXCEPT !.state[t] = "RUNNING",
                           !.time_slice[t] = task_timeslice(s.prio[t])], t)

(* The tail that sleep, do_wait and do_exit share: curr stops being        *)
(* runnable and gives up the CPU.                                          *)
block(s, state, chan) ==
    schedule([s EXCEPT !.state[s.curr] = state, !.chan[s.curr] = chan])

sleep(s, chan) == block(s, "INTERRUPTIBLE", chan)

wakeup_one_any_state(s, t, chan) ==
    IF s.state[t] # "RUNNING" /\ s.chan[t] = chan
    THEN wake_up_process([s EXCEPT !.chan[t] = NULL], t) ELSE s

(* One iteration of wakeup's loop over task_table, at the entry t.         *)
wakeup_one(s, t, chan) ==
    IF s.state[t] \in Asleep /\ s.chan[t] = chan
    THEN wake_up_process([s EXCEPT !.chan[t] = NULL], t) ELSE s
-----------------------------------------------------------------------------
(* What the modules that use these operators state of their run queue.     *)

RunQueueType ==
    [active : Arrays,
     queue : [Arrays -> [Prios -> Seq(Tasks)]],
     bitmap : [Arrays -> SUBSET Prios],
     nr_active : [Arrays -> Nat],
     nr_running : Nat,
     curr : Threads,
     state : [Threads -> TaskStates],
     on_rq : [Threads -> BOOLEAN],
     prio : [Threads -> Int],
     time_slice : [Threads -> Nat],
     resched : [Threads -> BOOLEAN],
     chan : [Threads -> Chans \cup {NULL}]]

Holds(q, t) == \E i \in 1 .. Len(q) : q[i] = t

(* A task with on_rq set is in exactly one place of one queue, the one of  *)
(* its priority; a task without it is in none.                             *)
OnRqIsQueued(r) ==
    /\ \A a \in Arrays, p \in Prios, t \in Threads :
          Holds(r.queue[a][p], t) => r.on_rq[t] /\ p = queue_of(r.prio[t])
    /\ \A t \in Threads : r.on_rq[t] =>
          \E a \in Arrays : Holds(r.queue[a][queue_of(r.prio[t])], t)
OnceInQueue(r) ==
    \A a \in Arrays, p \in Prios : \A i, j \in 1 .. Len(r.queue[a][p]) :
       r.queue[a][p][i] = r.queue[a][p][j] => i = j
InOneArray(r) ==
    \A p \in Prios, t \in Tasks :
       ~(Holds(r.queue[0][p], t) /\ Holds(r.queue[1][p], t))
QueuesConsistent(r) == OnRqIsQueued(r) /\ OnceInQueue(r) /\ InOneArray(r)

BitsCoverQueues(r) ==
    \A a \in Arrays, p \in Prios : r.queue[a][p] # << >> => p \in r.bitmap[a]

CountsRunning(r) == r.nr_running = Cardinality({t \in Tasks : r.on_rq[t]})
=============================================================================
