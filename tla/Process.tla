------------------------------ MODULE Process ------------------------------
(***************************************************************************)
(* Process management (kernel/fork.c, kernel/exit.c, kernel/init_proc.c)   *)
(* on top of the run queue of RunQueue.tla and the PIDs of PidBitmap.tla.  *)
(*                                                                         *)
(* Task t > 0 is &task_cache[t - 1] and task 0 is init_task.  Each task's  *)
(* sleep channel is the address of its wait_chldexit, so Chans = Threads.  *)
(* The kernel is not preemptive and the timer does not call the scheduler  *)
(* yet (arch/riscv64/kernel/trap.c), so a system call runs without         *)
(* interruption up to the point where it calls schedule(): one action.     *)
(***************************************************************************)
EXTENDS RunQueue, PidBitmap

CONSTANT MAX_PROCS        \* entries of task_table

ASSUME ProcessAssumption ==
    /\ MAX_PROCS \in Nat \ {0} /\ NTASKS > 0 /\ Chans = Threads
    /\ NULL \notin -1 .. PID_MAX - 1

VARIABLES
    s,            \* run queue and scheduling fields, see RunQueue
    task_cache,   \* task_cache_bitmap: the allocated task_structs
    task_table,
    pid, parent, killed,
    children,     \* each task's children list
    waiting,      \* the pid argument of the do_wait a task is inside, or NULL
    pid_bitmap, last_pid

tree == <<task_cache, task_table, pid, parent, children>>
pids == <<pid_bitmap, last_pid>>
vars == <<s, tree, killed, waiting, pids>>

init == 1                 \* PID 1 is the first task_struct allocated
Entries == 0 .. MAX_PROCS - 1
WaitArgs == -1 .. PID_MAX - 1

(* proc_subsystem_init: fork_init, sched_init, setup_idle_process.         *)
Init ==
    /\ s = sched_init([t \in Threads |-> IF t = idle THEN MAX_PRIO - 1
                                         ELSE DEFAULT_PRIO])
    /\ task_cache = {}
    /\ task_table = [e \in Entries |-> IF e = 0 THEN idle ELSE NULL]
    /\ pid = [t \in Threads |-> 0]
    /\ parent = [t \in Threads |-> idle]
    /\ children = [t \in Threads |-> << >>]
    /\ killed = [t \in Threads |-> FALSE]
    /\ waiting = [t \in Threads |-> NULL]
    /\ pid_bitmap = {0} /\ last_pid = 0

(* The current task is outside the kernel.                                 *)
Runs == s.curr # idle /\ waiting[s.curr] = NULL
-----------------------------------------------------------------------------
Free_with_init_task == Threads \ task_cache

Free == Tasks \ task_cache
alloc_task_struct == CHOOSE t \in Free : \A u \in Free : t <= u

(* The first empty entry of task_table gets t; none may be left.           *)
task_table_with(t) ==
    LET empty == {e \in Entries : task_table[e] = NULL}
        slot == CHOOSE e \in empty : \A f \in empty : e <= f
    IN  IF empty = {} THEN task_table ELSE [task_table EXCEPT ![slot] = t]

(* copy_process and kernel_thread once every allocation has succeeded: t   *)
(* is a zeroed task_struct with a fresh thread_info, the last child of p.  *)
NewProcess(t, p) ==
    /\ task_cache' = task_cache \cup {t}
    /\ pid' = [pid EXCEPT ![t] = last_pid']
    /\ parent' = [parent EXCEPT ![t] = p]
    /\ children' = [children EXCEPT ![t] = << >>, ![p] = Append(@, t)]
    /\ task_table' = task_table_with(t)
    /\ killed' = [killed EXCEPT ![t] = FALSE]
    /\ waiting' = [waiting EXCEPT ![t] = NULL]

zeroed(t) == [s EXCEPT !.state[t] = "RUNNING", !.on_rq[t] = FALSE,
                       !.chan[t] = NULL, !.resched[t] = FALSE]

TakePid ==
    LET p == alloc_pid(pid_bitmap, last_pid) IN
    /\ p # -1
    /\ pid_bitmap' = pid_bitmap \cup {p}
    /\ last_pid' = p

(* start_init: create_init_process makes PID 1, then schedule().           *)
StartInit ==
    /\ task_cache = {}
    /\ TakePid
    /\ NewProcess(alloc_task_struct, idle)
    /\ s' = schedule(wake_up_new_task(zeroed(alloc_task_struct), alloc_task_struct))

Fork ==
    /\ Runs /\ Free # {}
    /\ TakePid
    /\ NewProcess(alloc_task_struct, s.curr)
    /\ s' = wake_up_new_task(zeroed(alloc_task_struct), alloc_task_struct)

(* copy_mm finds no memory: PID, stack and task_struct are given back.  A  *)
(* fork that fails before it has a PID changes nothing.                    *)
ForkFails ==
    /\ Runs /\ Free # {}
    /\ alloc_pid(pid_bitmap, last_pid) # -1
    /\ last_pid' = alloc_pid(pid_bitmap, last_pid)
    /\ pid_bitmap' = free_pid(pid_bitmap \cup {last_pid'}, last_pid')
    /\ UNCHANGED <<s, tree, killed, waiting>>
-----------------------------------------------------------------------------
(* wakeup(): the loop over task_table, from the queue state r.             *)
wakeup(r, chan) ==
    LET after[e \in 0 .. MAX_PROCS] ==
          IF e = 0 THEN r
          ELSE IF task_table[e - 1] = NULL THEN after[e - 1]
          ELSE wakeup_one(after[e - 1], task_table[e - 1], chan)
    IN  after[MAX_PROCS]

exit_notify_children_kept(t) == UNCHANGED <<parent, children>>

(* exit_notify: t's children, in order, become init_task's.                *)
exit_notify(t) ==
    /\ parent' = [c \in Threads |-> IF Holds(children[t], c) THEN idle ELSE parent[c]]
    /\ children' = [children EXCEPT ![t] = << >>, ![idle] = @ \o children[t]]

Exit_no_wakeup ==
    /\ Runs /\ s.curr # init
    /\ exit_notify(s.curr)
    /\ s' = schedule([s EXCEPT !.state[s.curr] = "ZOMBIE"])
    /\ UNCHANGED <<task_cache, task_table, pid, killed, waiting, pids>>

(* do_exit.  init_thread never returns, so PID 1 never exits; parent is    *)
(* never the task itself.                                                  *)
Exit ==
    /\ Runs /\ s.curr # init
    /\ exit_notify(s.curr)
    /\ s' = schedule(wakeup([s EXCEPT !.state[s.curr] = "ZOMBIE"], parent[s.curr]))
    /\ UNCHANGED <<task_cache, task_table, pid, killed, waiting, pids>>

release_task_stale_entry(c) ==
    /\ children' = [children EXCEPT ![s.curr] = list_del(@, c)]
    /\ pid_bitmap' = free_pid(pid_bitmap, pid[c])
    /\ task_cache' = task_cache \ {c}
    /\ UNCHANGED <<s, task_table, pid, parent, killed, last_pid>>

(* release_task: children list, task_table, PID, stack and task_struct.    *)
release_task(c) ==
    /\ children' = [children EXCEPT ![s.curr] = list_del(@, c)]
    /\ task_table' = [e \in Entries |-> IF task_table[e] = c THEN NULL ELSE task_table[e]]
    /\ pid_bitmap' = free_pid(pid_bitmap, pid[c])
    /\ task_cache' = task_cache \ {c}
    /\ UNCHANGED <<s, pid, parent, killed, last_pid>>

(* Only create_init_process sets pgrp; fork leaves it 0.                   *)
pgrp(t) == IF t = init THEN pid[init] ELSE 0

Matches(p, c, arg) ==
    /\ arg > 0 => pid[c] = arg
    /\ arg = 0 => pgrp(c) = pgrp(p)

(* The places in p's children list that do_wait(arg) considers, those of   *)
(* them that hold a zombie, and the zombie it comes to first.              *)
matching(p, arg) == {i \in DOMAIN children[p] : Matches(p, children[p][i], arg)}
zombies_any_state(p, arg) == matching(p, arg)
zombies(p, arg) == {i \in matching(p, arg) : s.state[children[p][i]] = "ZOMBIE"}
first_zombie(p, arg) ==
    children[p][CHOOSE i \in zombies(p, arg) : \A j \in zombies(p, arg) : i <= j]

do_wait_sleeps_first(arg, options) ==
    IF matching(s.curr, arg) = {} \/ options = "WNOHANG"
    THEN UNCHANGED vars
    ELSE /\ waiting' = [waiting EXCEPT ![s.curr] = arg]
         /\ s' = block(s, "INTERRUPTIBLE", s.curr)
         /\ UNCHANGED <<tree, killed, pids>>

(* One pass of do_wait from its label repeat: release the first zombie, or *)
(* return with no change, or sleep and stay inside do_wait.                *)
do_wait(arg, options) ==
    IF zombies(s.curr, arg) # {}
    THEN /\ release_task(first_zombie(s.curr, arg))
         /\ waiting' = [waiting EXCEPT ![s.curr] = NULL]
    ELSE IF matching(s.curr, arg) = {} \/ options = "WNOHANG"
    THEN /\ waiting' = [waiting EXCEPT ![s.curr] = NULL]
         /\ UNCHANGED <<s, tree, killed, pids>>
    ELSE /\ waiting' = [waiting EXCEPT ![s.curr] = arg]
         /\ s' = block(s, "INTERRUPTIBLE", s.curr)
         /\ UNCHANGED <<tree, killed, pids>>

(* sys_wait, sys_waitpid and sys_wait4.  For an argument below -1 no child *)
(* matches, its process group being 0 or 1, and do_wait changes nothing.   *)
Wait(arg, options) == Runs /\ do_wait(arg, options)

(* do_wait after its schedule() returns.                                   *)
Resume ==
    /\ s.curr # idle /\ waiting[s.curr] # NULL
    /\ IF killed[s.curr]
       THEN /\ waiting' = [waiting EXCEPT ![s.curr] = NULL]
            /\ UNCHANGED <<s, tree, killed, pids>>
       ELSE do_wait(waiting[s.curr], "BLOCK")

(* init_thread's loop: reap one child, or else call schedule().            *)
InitReap ==
    /\ Runs /\ s.curr = init
    /\ IF zombies(init, -1) # {} THEN do_wait(-1, "WNOHANG")
       ELSE s' = schedule(s) /\ UNCHANGED <<tree, killed, waiting, pids>>

(* sys_kill of a PID: the first task_table entry that has it.              *)
Kill(e) ==
    LET t == task_table[e] IN
    /\ Runs /\ t \notin {NULL, idle}
    /\ killed' = [killed EXCEPT ![t] = TRUE]
    /\ s' = IF s.state[t] \in Asleep THEN wake_up_process(s, t) ELSE s
    /\ UNCHANGED <<tree, waiting, pids>>

Yield == Runs /\ s' = yield(s) /\ UNCHANGED <<tree, killed, waiting, pids>>

Next ==
    \/ StartInit
    \/ Fork \/ ForkFails
    \/ Exit
    \/ \E arg \in WaitArgs, options \in {"BLOCK", "WNOHANG"} : Wait(arg, options)
    \/ Resume
    \/ InitReap
    \/ \E e \in Entries : Kill(e)
    \/ Yield

Spec == Init /\ [][Next]_vars

(* A task runs to a yield or its exit in the end, and a task that gets the *)
(* CPU back inside do_wait goes on with it.  These are SF_vars(GiveUpCPU)  *)
(* and SF_vars(Resume), with the conditions that enable a step spelled out.*)
GiveUpCPU == Yield \/ Exit
CanGiveUpCPU == Runs /\ (s.curr # init \/ yield(s) # s)
FairSpec ==
    /\ Spec
    /\ <>[]~CanGiveUpCPU \/ []<><<GiveUpCPU>>_vars
    /\ <>[](s.curr = idle \/ waiting[s.curr] = NULL) \/ []<><<Resume>>_vars
-----------------------------------------------------------------------------
(* task_table, the family tree and the PID bitmap name tasks and PIDs that *)
(* exist.                                                                  *)
TypeOK ==
    /\ s \in RunQueueType
    /\ task_cache \subseteq Tasks
    /\ task_table \in [Entries -> Threads \cup {NULL}]
    /\ pid \in [Threads -> 0 .. PID_MAX - 1]
    /\ parent \in [Threads -> Threads]
    /\ children \in [Threads -> Seq(Tasks)]
    /\ killed \in [Threads -> BOOLEAN]
    /\ waiting \in [Threads -> WaitArgs \cup {NULL}]
    /\ pid_bitmap \subseteq 0 .. PID_MAX - 1 /\ last_pid \in 0 .. PID_MAX - 1

(* PIDs and family tree: live tasks and zombies have different PIDs, all   *)
(* marked in the bitmap, and no other PID is marked, so neither a failed   *)
(* fork nor a reaped zombie leaks one; every allocated task is once in its *)
(* parent's list and in no other, and its parent is allocated and has not  *)
(* exited, whichever of the two exits first.                               *)
TreeConsistent ==
    /\ \A t, u \in task_cache : pid[t] = pid[u] => t = u
    /\ pid_bitmap = {0} \cup {pid[t] : t \in task_cache}
    /\ \A t \in task_cache :
          /\ parent[t] \in task_cache \cup {idle} /\ s.state[parent[t]] # "ZOMBIE"
          /\ \A p \in task_cache \cup {idle} :
                Cardinality({i \in DOMAIN children[p] : children[p][i] = t}) =
                   IF p = parent[t] THEN 1 ELSE 0
    /\ \A p \in task_cache \cup {idle} : \A i \in DOMAIN children[p] :
          children[p][i] \in task_cache

(* A released task_struct is nowhere any more: not in task_table, not on   *)
(* the run queue, not on the CPU; and task_table has no task twice.        *)
NoDanglingTask ==
    /\ \A t \in Free : ~s.on_rq[t] /\ s.curr # t
    /\ \A e, f \in Entries : task_table[e] # NULL =>
          /\ task_table[e] \in task_cache \cup {idle}
          /\ task_table[e] = task_table[f] => e = f

(* wakeup looks for sleepers in task_table, and the task that is created   *)
(* when the table is full has no entry there (copy_process goes on).       *)
InTable(t) == \E e \in Entries : task_table[e] = t

(* A task with an entry in task_table that is asleep in do_wait has a      *)
(* matching child, and none of them is a zombie: the exit of a child is    *)
(* never missed, whichever of the two came first, and whoever else is      *)
(* exiting, being killed or waiting.                                       *)
NoMissedChild ==
    \A p \in task_cache : s.state[p] \in Asleep /\ InTable(p) =>
       matching(p, waiting[p]) # {} /\ zombies(p, waiting[p]) = {}

(* Somebody can always run: tasks that wakeup can find never all end up    *)
(* waiting for each other.                                                 *)
SomebodyRuns ==
    task_cache # {} /\ (\A t \in task_cache : s.state[t] \in Asleep => InTable(t))
       => s.curr # idle

(* A task of task_table that has an exited child to collect in do_wait     *)
(* returns from it, although others are forked, killed and woken before it *)
(* runs again.                                                             *)
WaiterReturns ==
    \A p \in Tasks :
       waiting[p] # NULL /\ InTable(p) /\ zombies(p, waiting[p]) # {}
          ~> waiting[p] = NULL

Life == INSTANCE ProcLife WITH
    Procs  <- Tasks,
    status <- [t \in Tasks |-> IF t \notin task_cache THEN "free"
                               ELSE IF s.state[t] = "ZOMBIE" THEN "zombie" ELSE "live"],
    par    <- [t \in Tasks |-> IF t \notin task_cache THEN idle ELSE parent[t]]

(* fork, exit and wait as a whole: what ProcLife.tla promises.             *)
ImplementsProcLife == Life!LifeSpec
=============================================================================
