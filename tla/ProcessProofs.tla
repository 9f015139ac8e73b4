--------------------------- MODULE ProcessProofs ----------------------------
(***************************************************************************)
(* Proofs about Process.tla, for any number of task_structs, task_table    *)
(* entries, PIDs and priorities: fork and start_init keep the invariant of *)
(* ProcessLemmas.tla, and what follows from it.                            *)
(***************************************************************************)
EXTENDS ProcessLemmas

(* Fork and start_init.                                                    *)

LEMMA AllocTask ==
    ASSUME WellOrdered, Free # {} PROVE alloc_task_struct \in Free
<1>1. Free \in SUBSET Nat
  BY RunQueueAssumption DEF Free, Tasks
<1>2. \E t \in Free : \A u \in Free : t <= u
  BY <1>1, Least, Zenon
<1> QED  BY <1>2 DEF alloc_task_struct

(* task_table_with changes at most one entry, from NULL to t.              *)
LEMMA TableWith ==
    ASSUME WellOrdered, task_table \in [Entries -> Threads \cup {NULL}], NEW t \in Threads
    PROVE  \/ task_table_with(t) = task_table
           \/ \E e \in Entries : task_table[e] = NULL /\
                 task_table_with(t) = [task_table EXCEPT ![e] = t]
<1> DEFINE empty == {e \in Entries : task_table[e] = NULL}
           slot == CHOOSE e \in empty : \A f \in empty : e <= f
<1>1. CASE empty = {}
  BY <1>1 DEF task_table_with
<1>2. CASE empty # {}
  <2>1. empty \in SUBSET Nat
    BY ProcessAssumption DEF Entries
  <2>2. \E e \in empty : \A f \in empty : e <= f
    BY <1>2, <2>1, Least, Zenon
  <2>3. slot \in empty
    BY <2>2
  <2>4. task_table_with(t) = [task_table EXCEPT ![slot] = t]
    BY <1>2 DEF task_table_with
  <2> QED  BY <2>3, <2>4, Zenon
<1> QED  BY <1>1, <1>2

(* The zeroed task_struct t enters the run queue.                          *)
LEMMA NewQueue ==
    ASSUME IInv, NEW t \in Free
    PROVE  LET w == wake_up_new_task(zeroed(t), t) IN
           /\ RInv(w, task_cache \cup Dead \cup {t}) /\ w.curr = s.curr
           /\ w.state = [s.state EXCEPT ![t] = "RUNNING"]
           /\ w.chan = [s.chan EXCEPT ![t] = NULL]
           /\ Exact(s) => Exact(w)
<1> DEFINE C == (task_cache \cup Dead) \ {t}
           z == zeroed(t)
           w == wake_up_new_task(z, t)
<1>1. /\ t \in Tasks /\ t \in Threads /\ t \notin task_cache /\ s \in RunQueueType
      /\ RInv(s, task_cache \cup Dead) /\ C \in SUBSET Tasks /\ t # idle
      /\ Tasks \subseteq Threads
  <2>1. idle \notin Tasks
    BY DEF idle, Tasks
  <2> QED  BY <2>1, Basics DEF Free
<1>2. ~s.on_rq[t] /\ s.curr # t
  BY <1>1, NotQueued
<1>3. /\ z \in RunQueueType /\ z.queue = s.queue /\ z.bitmap = s.bitmap
      /\ z.nr_running = s.nr_running /\ z.prio = s.prio /\ z.curr = s.curr
      /\ z.on_rq = [s.on_rq EXCEPT ![t] = FALSE]
      /\ z.state = [s.state EXCEPT ![t] = "RUNNING"]
      /\ z.chan = [s.chan EXCEPT ![t] = NULL]
      /\ z.active = s.active /\ z.nr_active = s.nr_active
  BY <1>1, ZenonT(60) DEF zeroed, RunQueueType, TaskStates
<1> HIDE DEF z, C
<1>4. z.on_rq = s.on_rq
  <2>1. s.on_rq \in [Threads -> BOOLEAN]
    BY <1>1, Fields
  <2> QED  BY <1>1, <1>2, <1>3, <2>1, ClearFlag, Zenon
<1>5. QInv(z)
  BY <1>1, <1>3, <1>4, Frame DEF RInv
<1>6. \A u \in Threads : z.state[u] = IF u = t THEN "RUNNING" ELSE s.state[u]
  BY <1>1, <1>3, Basics
<1>7. RInv(z, C)
  <2>1. z.state[idle] = "RUNNING" /\ (z.curr # idle => z.on_rq[z.curr])
    BY <1>1, <1>3, <1>4, <1>6, Basics DEF RInv
  <2>2. \A u \in C : z.state[u] = "RUNNING" <=> z.on_rq[u]
    BY <1>1, <1>4, <1>6 DEF RInv, C
  <2>3. \A u \in Tasks \ C : ~z.on_rq[u] /\ z.state[u] = "RUNNING"
    <3> TAKE u \in Tasks \ C
    <3>1. CASE u = t
      BY <1>1, <1>2, <1>4, <1>6, <3>1
    <3>2. CASE u # t
      <4>1. u \notin task_cache \cup Dead
        BY <3>2 DEF C
      <4>2. ~s.on_rq[u] /\ s.state[u] = "RUNNING"
        BY <1>1, <4>1 DEF RInv
      <4> QED  BY <1>1, <1>4, <1>6, <3>2, <4>2
    <3> QED  BY <3>1, <3>2
  <2> QED  BY <1>5, <2>1, <2>2, <2>3, Zenon DEF RInv
<1>8. /\ RInv(w, C \cup {t}) /\ w.curr = z.curr /\ w.state = z.state /\ w.chan = z.chan
  <2>1. C \in SUBSET Tasks /\ t \in Tasks \ C
    BY <1>1 DEF C
  <2> QED  BY <1>7, <2>1, NewStep
<1>9. C \cup {t} = task_cache \cup Dead \cup {t}
  BY DEF C
<1>10. Exact(s) => Exact(w)
  <2>1. Exact(s) => Exact(z)
    BY <1>3, ExactSame
  <2>2. C \in SUBSET Tasks /\ t \in Tasks \ C
    BY <1>1 DEF C
  <2> QED  BY <1>7, <2>1, <2>2, ExactNew
<1> QED  BY <1>3, <1>8, <1>9, <1>10, Zenon DEF z

LEMMA NewProcessKeeps ==
    ASSUME IInv, NEW t \in Free, NEW p \in Live, s.state[p] # "ZOMBIE",
           NewProcess(t, p), TakePid,
           RInv(s', task_cache \cup Dead \cup {t}),
           s'.state = [s.state EXCEPT ![t] = "RUNNING"],
           s'.chan = [s.chan EXCEPT ![t] = NULL]
    PROVE  IInv' /\ Life!Create(t, p)
<1>1. /\ task_cache' = task_cache \cup {t} /\ pid' = [pid EXCEPT ![t] = last_pid']
      /\ parent' = [parent EXCEPT ![t] = p]
      /\ children' = [children EXCEPT ![t] = << >>, ![p] = Append(@, t)]
      /\ task_table' = task_table_with(t)
      /\ killed' = [killed EXCEPT ![t] = FALSE] /\ waiting' = [waiting EXCEPT ![t] = NULL]
  BY DEF NewProcess
<1>2. /\ t \in Tasks /\ t \in Threads /\ t \notin task_cache /\ t # idle /\ t # p
      /\ p \in Threads /\ task_cache \subseteq Tasks /\ Tasks \subseteq Threads
      /\ idle \in Threads
  <2>1. idle \notin Tasks
    BY DEF idle, Tasks
  <2> QED  BY <2>1, Basics DEF Free, Live
<1>3. /\ task_table \in [Entries -> Threads \cup {NULL}] /\ parent \in [Threads -> Threads]
      /\ pid \in [Threads -> 0 .. PID_MAX - 1] /\ children \in [Threads -> Seq(Tasks)]
      /\ killed \in [Threads -> BOOLEAN] /\ waiting \in [Threads -> WaitArgs \cup {NULL}]
      /\ pid_bitmap \in SUBSET (0 .. PID_MAX - 1) /\ last_pid \in 0 .. PID_MAX - 1
  BY Zenon DEF IInv, TypeOK
<1>4. last_pid' \in Pids /\ last_pid' \notin pid_bitmap /\ pid_bitmap' = pid_bitmap \cup {last_pid'}
  <2>1. 0 \in pid_bitmap /\ WellOrdered
    BY Ordered DEF IInv, PidInv
  <2>2. \/ alloc_pid(pid_bitmap, last_pid) \in Pids \ pid_bitmap
        \/ alloc_pid(pid_bitmap, last_pid) = -1 /\ Pids \subseteq pid_bitmap
    BY <1>3, <2>1, AllocPidFinds, Zenon
  <2> QED  BY <2>2 DEF TakePid
<1>5. last_pid' \in 0 .. PID_MAX - 1
  BY <1>4, PidAssumption DEF Pids
<1>6. \A u \in Threads : /\ pid'[u] = IF u = t THEN last_pid' ELSE pid[u]
                         /\ parent'[u] = IF u = t THEN p ELSE parent[u]
                         /\ waiting'[u] = IF u = t THEN NULL ELSE waiting[u]
                         /\ s'.state[u] = IF u = t THEN "RUNNING" ELSE s.state[u]
                         /\ s'.chan[u] = IF u = t THEN NULL ELSE s.chan[u]
  BY <1>1, <1>2, <1>3, Basics, Zenon
<1>7. ~Holds(children[p], t) /\ children[p] \in Seq(Tasks) /\ Distinct(children[p])
  BY <1>2, <1>3 DEF IInv, ChildrenInv
<1>8. /\ Append(children[p], t) \in Seq(Tasks) /\ Distinct(Append(children[p], t))
      /\ \A u \in Threads : Holds(Append(children[p], t), u) <=> Holds(children[p], u) \/ u = t
  BY <1>2, <1>7, ListAddTail, Zenon DEF Distinct
<1>9. /\ children' \in [Threads -> Seq(Tasks)]
      /\ children'[t] = << >> /\ children'[p] = Append(children[p], t)
      /\ \A q \in Threads \ {t, p} : children'[q] = children[q]
  <2>1. children' = [children EXCEPT ![t] = << >>, ![p] = Append(children[p], t)]
    BY <1>1, <1>2, <1>3
  <2>2. << >> \in Seq(Tasks)
    OBVIOUS
  <2> QED  BY <1>2, <1>3, <1>8, <2>1, <2>2, Zenon
<1>10. /\ task_table' \in [Entries -> Threads \cup {NULL}]
       /\ \/ task_table' = task_table
          \/ \E e \in Entries : task_table[e] = NULL /\ task_table' = [task_table EXCEPT ![e] = t]
  <2>1. \/ task_table' = task_table
        \/ \E e \in Entries : task_table[e] = NULL /\ task_table' = [task_table EXCEPT ![e] = t]
    BY <1>1, <1>2, <1>3, Ordered, TableWith, Zenon
  <2> QED  BY <1>2, <1>3, <2>1, Zenon
<1>11. TypeOK'
  <2>1. pid' \in [Threads -> 0 .. PID_MAX - 1] /\ parent' \in [Threads -> Threads]
    BY <1>1, <1>2, <1>3, <1>5, Zenon
  <2>2. killed' \in [Threads -> BOOLEAN] /\ waiting' \in [Threads -> WaitArgs \cup {NULL}]
    BY <1>1, <1>3, Zenon
  <2>3. pid_bitmap' \subseteq 0 .. PID_MAX - 1
    BY <1>3, <1>4, <1>5, Zenon
  <2>4. task_cache' \subseteq Tasks
    BY <1>1, <1>2, Zenon
  <2> QED  BY <1>5, <1>9, <1>10, <2>1, <2>2, <2>3, <2>4, Zenon DEF TypeOK, RInv, QInv
<1>12. QueueInv'
  <2>1. \A u \in Tasks : u \in Dead' <=> u \in Dead /\ u # t
    BY <1>2, <1>6 DEF Dead
  <2>2. task_cache' \cup Dead' = task_cache \cup Dead \cup {t}
    <3>1. Dead \subseteq Tasks /\ Dead' \subseteq Tasks
      BY DEF Dead
    <3> QED  BY <1>1, <1>2, <2>1, <3>1
  <2> QED  BY <2>2 DEF QueueInv
<1>13. Live' = Live \cup {t} /\ t \notin Live /\ Live \subseteq Threads
  BY <1>1, <1>2, Zenon DEF Live
<1>14. \A u \in task_cache : parent[u] \in Live /\ s.state[parent[u]] # "ZOMBIE"
  BY DEF IInv, ParentInv
<1>15. ChildrenInv'
  <2> SUFFICES ASSUME NEW q \in Live'
               PROVE  /\ Distinct(children'[q])
                      /\ \A c \in Threads : Holds(children'[q], c) <=>
                            c \in task_cache' /\ parent'[c] = q
    BY DEF ChildrenInv
  <2>1. CASE q = t
    <3>1. Distinct(<< >>) /\ \A c : ~Holds(<< >>, c)
      BY DEF Distinct, Holds
    <3>2. ASSUME NEW c \in Threads, c \in task_cache' PROVE parent'[c] # q
      <4>1. CASE c = t
        BY <1>2, <1>6, <2>1, <4>1
      <4>2. CASE c # t
        BY <1>1, <1>6, <1>13, <1>14, <2>1, <3>2, <4>2, SMTT(30)
      <4> QED  BY <4>1, <4>2
    <3> QED  BY <1>9, <2>1, <3>1, <3>2
  <2>2. ASSUME q # t
        PROVE  /\ q \in Live /\ Distinct(children[q])
               /\ \A c \in Threads : Holds(children[q], c) <=> c \in task_cache /\ parent[c] = q
    BY <1>13, <2>2, Zenon DEF IInv, ChildrenInv
  <2>3. CASE q = p
    <3>1. \A c \in Threads : Holds(children'[q], c) <=> Holds(children[q], c) \/ c = t
      BY <1>8, <1>9, <2>3, Zenon
    <3>2. \A c \in Threads : Holds(children[q], c) <=> c \in task_cache /\ parent[c] = q
      BY <1>2, <2>2, <2>3, Zenon
    <3>3. \A c \in Threads : Holds(children'[q], c) <=> c \in task_cache' /\ parent'[c] = q
      BY <1>1, <1>2, <1>6, <2>3, <3>1, <3>2, ZenonT(60)
    <3> QED  BY <1>8, <1>9, <2>3, <3>3, Zenon
  <2>4. CASE q # p /\ q # t
    <3>1. children'[q] = children[q]
      BY <1>9, <1>13, <2>2, <2>4, Zenon
    <3> QED  BY <1>1, <1>2, <1>6, <2>2, <2>4, <3>1, ZenonT(60)
  <2> QED  BY <2>1, <2>3, <2>4, Zenon
<1>16. ParentInv'
  <2> SUFFICES ASSUME NEW u \in task_cache'
               PROVE  parent'[u] \in Live' /\ s'.state[parent'[u]] # "ZOMBIE"
    BY DEF ParentInv
  <2>1. CASE u = t
    BY <1>2, <1>6, <1>13, <2>1
  <2>2. CASE u # t
    <3>1. u \in task_cache /\ u \in Threads /\ parent'[u] = parent[u]
      BY <1>1, <1>2, <1>6, <2>2, Zenon
    <3>2. parent[u] \in Live /\ s.state[parent[u]] # "ZOMBIE" /\ parent[u] \in Threads
      BY <1>13, <1>14, <3>1
    <3> QED  BY <1>6, <1>13, <3>1, <3>2, Zenon
  <2> QED  BY <2>1, <2>2
<1>17. PidInv'
  <2>1. /\ \A u, v \in task_cache : pid[u] = pid[v] => u = v
        /\ \A u \in task_cache : pid[u] \in Pids
        /\ pid_bitmap = {0} \cup {pid[u] : u \in task_cache}
    BY DEF IInv, PidInv
  <2>2. \A u \in task_cache : pid'[u] = pid[u] /\ pid[u] # last_pid'
    <3> TAKE u \in task_cache
    <3>1. pid'[u] = pid[u]
      BY <1>2, <1>6
    <3>2. pid[u] \in pid_bitmap
      BY <2>1
    <3> QED  BY <1>4, <3>1, <3>2
  <2>3. pid'[t] = last_pid'
    BY <1>2, <1>6, Zenon
  <2>4. pid_bitmap' = {0} \cup {pid'[u] : u \in task_cache'}
    <3>1. {pid'[u] : u \in task_cache'} = {pid[u] : u \in task_cache} \cup {last_pid'}
      <4>1. \A u \in task_cache' : pid'[u] \in {pid[v] : v \in task_cache} \cup {last_pid'}
        BY <1>1, <2>2, <2>3, Zenon
      <4>2. \A u \in task_cache : u \in task_cache' /\ pid[u] = pid'[u]
        BY <1>1, <2>2, Zenon
      <4>3. t \in task_cache' /\ last_pid' = pid'[t]
        BY <1>1, <2>3, Zenon
      <4> QED  BY <4>1, <4>2, <4>3
    <3> QED  BY <1>4, <2>1, <3>1, Zenon
  <2>5. \A u, v \in task_cache' : pid'[u] = pid'[v] => u = v
    BY <1>1, <2>1, <2>2, <2>3, SMTT(30)
  <2>6. \A u \in task_cache' : pid'[u] \in Pids
    BY <1>1, <1>4, <2>1, <2>2, <2>3
  <2> QED  BY <2>4, <2>5, <2>6 DEF PidInv
<1>18. TableInv'
  <2>1. \A e, f \in Entries : task_table[e] # NULL =>
           task_table[e] \in Live /\ (task_table[e] = task_table[f] => e = f)
    BY DEF IInv, TableInv
  <2>2. CASE task_table' = task_table
    BY <1>13, <2>1, <2>2 DEF TableInv
  <2>3. ASSUME NEW e \in Entries, task_table[e] = NULL, task_table' = [task_table EXCEPT ![e] = t]
        PROVE  TableInv'
    <3>1. \A f \in Entries : task_table'[f] = IF f = e THEN t ELSE task_table[f]
      BY <1>3, <2>3
    <3>2. \A f \in Entries : task_table[f] # t
      BY <1>13, <2>1, <1>2, RunQueueAssumption, ProcessAssumption
    <3> QED  BY <1>13, <2>1, <3>1, <3>2 DEF TableInv
  <2> QED  BY <1>10, <2>2, <2>3
<1>19. SleepInv'
  <2> SUFFICES ASSUME NEW q \in task_cache', s'.state[q] \in Asleep PROVE Sleeper(q)'
    BY DEF SleepInv
  <2>1. /\ q # t /\ q \in task_cache /\ q \in Threads /\ s.state[q] \in Asleep
        /\ waiting'[q] = waiting[q] /\ s'.chan[q] = s.chan[q] /\ pid'[q] = pid[q]
    BY <1>1, <1>2, <1>6, Zenon DEF Asleep
  <2>2. Sleeper(q)
    BY <2>1, Zenon DEF IInv, SleepInv
  <2>3. \A c \in task_cache : Expects(q, c)' <=> Expects(q, c)
    <3> TAKE c \in task_cache
    <3>1. pid'[c] = pid[c] /\ parent'[c] = parent[c]
      BY <1>2, <1>6, Zenon
    <3>2. pgrp(c)' = pgrp(c) /\ pgrp(q)' = pgrp(q)
      BY <2>1, <3>1, Zenon DEF pgrp
    <3> QED  BY <1>1, <2>1, <3>1, <3>2, Zenon DEF Expects, Matches
  <2>4. InTable(q)' => InTable(q)
    <3>1. \A e \in Entries : task_table'[e] = task_table[e] \/ task_table'[e] = t
      BY <1>3, <1>10
    <3> QED  BY <2>1, <3>1 DEF InTable
  <2>5. \E c \in Tasks : Expects(q, c)'
    <3>1. PICK c \in Tasks : Expects(q, c)
      BY <2>2 DEF Sleeper
    <3>2. c \in task_cache
      BY <3>1 DEF Expects
    <3> QED  BY <2>3, <3>1, <3>2, Zenon
  <2>6. ASSUME InTable(q)', NEW c \in Tasks, Expects(q, c)' PROVE s'.state[c] # "ZOMBIE"
    <3>1. CASE c = t
      BY <1>2, <1>6, <3>1, Zenon
    <3>2. CASE c # t
      <4>1. c \in task_cache
        BY <1>1, <2>6, <3>2, Zenon DEF Expects
      <4>2. s.state[c] # "ZOMBIE"
        BY <2>2, <2>3, <2>4, <2>6, <4>1 DEF Sleeper
      <4> QED  BY <1>2, <1>6, <3>2, <4>2
    <3> QED  BY <3>1, <3>2
  <2>7. waiting'[q] \in WaitArgs /\ s'.chan[q] = q
    BY <2>1, <2>2, Zenon DEF Sleeper
  <2> QED  BY <2>5, <2>6, <2>7, Zenon DEF Sleeper
<1>20. Life!Create(t, p)
  <2> DEFINE st == [u \in Tasks |-> IF u \notin task_cache THEN "free"
                                    ELSE IF s.state[u] = "ZOMBIE" THEN "zombie" ELSE "live"]
             pa == [u \in Tasks |-> IF u \notin task_cache THEN idle ELSE parent[u]]
  <2>1. st[t] = "free" /\ (p # 0 => st[p] = "live")
    BY <1>2 DEF Live, idle
  <2>2. st' = [st EXCEPT ![t] = "live"]
    <3>1. \A u \in Tasks :
             (IF u \notin task_cache' THEN "free"
              ELSE IF s'.state[u] = "ZOMBIE" THEN "zombie" ELSE "live")
             = IF u = t THEN "live" ELSE st[u]
      BY <1>1, <1>2, <1>6, Zenon
    <3>2. st' = [u \in Tasks |-> IF u \notin task_cache' THEN "free"
                   ELSE IF s'.state[u] = "ZOMBIE" THEN "zombie" ELSE "live"]
      OBVIOUS
    <3>3. st' = [u \in Tasks |-> IF u = t THEN "live" ELSE st[u]]
      BY <3>1, <3>2, Zenon
    <3> QED  BY <1>2, <3>3, Zenon
  <2>3. pa' = [pa EXCEPT ![t] = p]
    <3>1. \A u \in Tasks : (IF u \notin task_cache' THEN idle ELSE parent'[u])
                              = IF u = t THEN p ELSE pa[u]
      BY <1>1, <1>2, <1>6, Zenon
    <3>2. pa' = [u \in Tasks |-> IF u \notin task_cache' THEN idle ELSE parent'[u]]
      OBVIOUS
    <3>3. pa' = [u \in Tasks |-> IF u = t THEN p ELSE pa[u]]
      BY <3>1, <3>2, Zenon
    <3> QED  BY <1>2, <3>3, Zenon
  <2> QED  BY <2>1, <2>2, <2>3, Zenon DEF Life!Create
<1> QED  BY <1>11, <1>12, <1>15, <1>16, <1>17, <1>18, <1>19, <1>20, Zenon DEF IInv

LEMMA ForkKeeps == IInv /\ Fork => IInv' /\ Life!LifeNext
<1> SUFFICES ASSUME IInv, Fork PROVE IInv' /\ Life!LifeNext
  OBVIOUS
<1>1. PICK t : t = alloc_task_struct
  OBVIOUS
<1>2. PICK p : p = s.curr
  OBVIOUS
<1>3. /\ p # idle /\ Free # {} /\ TakePid /\ NewProcess(t, p)
      /\ s' = wake_up_new_task(zeroed(t), t)
  BY <1>1, <1>2, Zenon DEF Fork, Runs
<1>4. t \in Free /\ t \in Tasks
  BY <1>1, <1>3, Ordered, AllocTask DEF Free
<1>5. p \in Live /\ s.state[p] # "ZOMBIE" /\ p \in Tasks \cup {0}
  BY <1>2, <1>3, CurrIsLive, Basics DEF Live
<1>6. /\ RInv(s', task_cache \cup Dead \cup {t})
      /\ s'.state = [s.state EXCEPT ![t] = "RUNNING"]
      /\ s'.chan = [s.chan EXCEPT ![t] = NULL]
  BY <1>3, <1>4, NewQueue
<1>7. IInv' /\ Life!Create(t, p)
  BY <1>3, <1>4, <1>5, <1>6, NewProcessKeeps, Zenon
<1> QED  BY <1>4, <1>5, <1>7 DEF Life!LifeNext

LEMMA StartInitKeeps == IInv /\ StartInit => IInv' /\ Life!LifeNext
<1> SUFFICES ASSUME IInv, StartInit PROVE IInv' /\ Life!LifeNext
  OBVIOUS
<1>1. PICK t : t = alloc_task_struct
  OBVIOUS
<1>2. PICK w : w = wake_up_new_task(zeroed(t), t)
  OBVIOUS
<1>3. task_cache = {} /\ TakePid /\ NewProcess(t, idle) /\ s' = schedule(w)
  BY <1>1, <1>2, Zenon DEF StartInit
<1>4. t \in Free /\ t \in Tasks
  <2>1. 1 \in Free
    BY <1>3, RunQueueAssumption, ProcessAssumption DEF Free, Tasks
  <2> QED  BY <1>1, <2>1, Ordered, AllocTask DEF Free
<1>5. idle \in Live /\ s.state[idle] # "ZOMBIE" /\ idle \in Tasks \cup {0}
  BY Basics DEF Live, idle
<1>6. /\ RInv(w, task_cache \cup Dead \cup {t})
      /\ w.state = [s.state EXCEPT ![t] = "RUNNING"]
      /\ w.chan = [s.chan EXCEPT ![t] = NULL]
  BY <1>2, <1>4, NewQueue
<1>7. /\ RInv(s', task_cache \cup Dead \cup {t})
      /\ s'.state = w.state /\ s'.chan = w.chan
  <2>1. task_cache \cup Dead \cup {t} \in SUBSET Tasks /\ QInv(w) /\ w.state[idle] = "RUNNING"
    BY <1>4, <1>6, Basics DEF RInv
  <2> QED  BY <1>3, <1>6, <2>1, PlainSchedule, Schedule, Zenon
<1>8. IInv' /\ Life!Create(t, idle)
  <2>1. /\ s'.state = [s.state EXCEPT ![t] = "RUNNING"]
        /\ s'.chan = [s.chan EXCEPT ![t] = NULL]
    BY <1>6, <1>7, Zenon
  <2> QED  BY <1>3, <1>4, <1>5, <1>7, <2>1, NewProcessKeeps, Zenon
<1> QED  BY <1>4, <1>5, <1>8 DEF Life!LifeNext

LEMMA ForkFailsKeeps == IInv /\ ForkFails => IInv' /\ UNCHANGED Life!lifeVars
<1> SUFFICES ASSUME IInv, ForkFails PROVE IInv' /\ UNCHANGED Life!lifeVars
  OBVIOUS
<1>1. /\ alloc_pid(pid_bitmap, last_pid) # -1
      /\ last_pid' = alloc_pid(pid_bitmap, last_pid)
      /\ pid_bitmap' = free_pid(pid_bitmap \cup {last_pid'}, last_pid')
      /\ s' = s /\ killed' = killed /\ waiting' = waiting
      /\ task_cache' = task_cache /\ task_table' = task_table /\ pid' = pid
      /\ parent' = parent /\ children' = children
  BY DEF ForkFails, tree
<1>2. pid_bitmap \in SUBSET (0 .. PID_MAX - 1) /\ last_pid \in 0 .. PID_MAX - 1 /\ 0 \in pid_bitmap
  BY DEF IInv, TypeOK, PidInv
<1>3. last_pid' \in Pids \ pid_bitmap
  BY <1>1, <1>2, Ordered, AllocPidFinds
<1>4. pid_bitmap' = pid_bitmap /\ last_pid' \in 0 .. PID_MAX - 1
  BY <1>1, <1>3, PidAssumption DEF free_pid, Pids
<1>5. TypeOK'
  BY <1>1, <1>4, Zenon DEF IInv, TypeOK
<1>6. QueueInv' /\ ParentInv'
  BY <1>1, Zenon DEF IInv, QueueInv, ParentInv, Dead, Live
<1>7. ChildrenInv' /\ TableInv'
  BY <1>1, Zenon DEF IInv, ChildrenInv, TableInv, Live
<1>8. PidInv'
  BY <1>1, <1>4 DEF IInv, PidInv
<1>9. SleepInv'
  <2> SUFFICES ASSUME NEW q \in task_cache, s.state[q] \in Asleep PROVE Sleeper(q)'
    BY <1>1 DEF SleepInv
  <2>1. Sleeper(q)
    BY DEF IInv, SleepInv
  <2>2. \A c : Expects(q, c)' <=> Expects(q, c)
    BY <1>1 DEF Expects, Matches, pgrp
  <2>3. InTable(q)' <=> InTable(q)
    BY <1>1 DEF InTable
  <2> QED  BY <1>1, <2>1, <2>2, <2>3, Zenon DEF Sleeper
<1>10. UNCHANGED Life!lifeVars
  BY <1>1 DEF Life!lifeVars
<1> QED  BY <1>5, <1>6, <1>7, <1>8, <1>9, <1>10, Zenon DEF IInv
-----------------------------------------------------------------------------
LEMMA InitIInv == ASSUME Arithmetic, Init PROVE IInv /\ Life!LifeInit
<1> DEFINE pr == [t \in Threads |-> IF t = idle THEN MAX_PRIO - 1 ELSE DEFAULT_PRIO]
<1>1. /\ s = sched_init(pr) /\ task_cache = {}
      /\ task_table = [e \in Entries |-> IF e = 0 THEN idle ELSE NULL]
      /\ pid = [t \in Threads |-> 0] /\ parent = [t \in Threads |-> idle]
      /\ children = [t \in Threads |-> << >>] /\ killed = [t \in Threads |-> FALSE]
      /\ waiting = [t \in Threads |-> NULL] /\ pid_bitmap = {0} /\ last_pid = 0
  BY DEF Init
<1>2. pr \in [Threads -> Int]
  <2>1. MAX_PRIO - 1 \in Int /\ DEFAULT_PRIO \in Int
    BY RunQueueAssumption
  <2> QED  BY <2>1
<1> HIDE DEF pr
<1>3. RInv(s, {}) /\ s.state = [t \in Threads |-> "RUNNING"]
  BY <1>1, <1>2, SchedInit
<1>4. TypeOK
  <2>1. s \in RunQueueType /\ idle \in Threads /\ << >> \in Seq(Tasks)
    BY <1>3 DEF RInv, QInv, Threads
  <2>2. 0 \in 0 .. PID_MAX - 1
    BY PidAssumption
  <2>3. task_table \in [Entries -> Threads \cup {NULL}]
    BY <1>1, <2>1
  <2>4. /\ pid \in [Threads -> 0 .. PID_MAX - 1] /\ parent \in [Threads -> Threads]
        /\ children \in [Threads -> Seq(Tasks)] /\ killed \in [Threads -> BOOLEAN]
        /\ waiting \in [Threads -> WaitArgs \cup {NULL}]
    BY <1>1, <2>1, <2>2
  <2>5. pid_bitmap \subseteq 0 .. PID_MAX - 1 /\ last_pid \in 0 .. PID_MAX - 1
        /\ task_cache \subseteq Tasks
    BY <1>1, <2>2
  <2> QED  BY <2>1, <2>3, <2>4, <2>5, Zenon DEF TypeOK
<1>5. QueueInv
  <2>1. Dead = {}
    BY <1>3 DEF Dead, Threads
  <2>2. task_cache \cup Dead = {}
    BY <1>1, <2>1
  <2> QED  BY <1>3, <2>2, Zenon DEF QueueInv
<1>6. ChildrenInv
  <2>1. Distinct(<< >>) /\ \A c : ~Holds(<< >>, c)
    BY DEF Distinct, Holds
  <2>2. \A p \in Live : children[p] = << >>
    BY <1>1 DEF Live, Threads
  <2> QED  BY <1>1, <2>1, <2>2 DEF ChildrenInv
<1>7. ParentInv /\ SleepInv /\ PidInv
  BY <1>1 DEF ParentInv, SleepInv, PidInv
<1>8. TableInv
  <2>1. \A e \in Entries : task_table[e] # NULL => e = 0 /\ task_table[e] = idle
    BY <1>1
  <2>2. idle # NULL
    BY RunQueueAssumption, ProcessAssumption DEF Threads
  <2> QED  BY <2>1, <2>2 DEF TableInv, Live
<1>9. Life!LifeInit
  BY <1>1 DEF Life!LifeInit, idle
<1> QED  BY <1>4, <1>5, <1>6, <1>7, <1>8, <1>9, Zenon DEF IInv

(* Every step keeps the invariant and is a step of ProcLife or a stutter.  *)
LEMMA NextIInv == IInv /\ [Next]_vars => IInv' /\ [Life!LifeNext]_(Life!lifeVars)
<1> SUFFICES ASSUME IInv, [Next]_vars PROVE IInv' /\ [Life!LifeNext]_(Life!lifeVars)
  OBVIOUS
<1>1. CASE StartInit
  BY <1>1, StartInitKeeps
<1>2. CASE Fork
  BY <1>2, ForkKeeps
<1>3. CASE ForkFails
  BY <1>3, ForkFailsKeeps
<1>4. CASE Exit
  BY <1>4, ExitKeeps DEF Life!LifeNext
<1>5. ASSUME NEW arg \in WaitArgs, NEW options \in {"BLOCK", "WNOHANG"}, Wait(arg, options)
      PROVE  IInv' /\ [Life!LifeNext]_(Life!lifeVars)
  BY <1>5, DoWaitKeeps DEF Wait, Runs
<1>6. CASE Resume
  <2>1. s.curr # idle /\ waiting[s.curr] # NULL
    BY <1>6 DEF Resume
  <2>2. CASE killed[s.curr]
    <3>1. /\ waiting' = [waiting EXCEPT ![s.curr] = NULL]
          /\ UNCHANGED <<s, tree, killed, pids>>
      BY <1>6, <2>2 DEF Resume
    <3> QED  BY <2>1, <3>1, ReturnKeeps
  <2>3. CASE ~killed[s.curr]
    <3>1. PICK arg : arg = waiting[s.curr]
      OBVIOUS
    <3>2. arg \in WaitArgs
      BY <2>1, <3>1, Basics, Zenon DEF IInv, TypeOK
    <3>3. do_wait(arg, "BLOCK")
      BY <1>6, <2>3, <3>1, Zenon DEF Resume
    <3> QED  BY <2>1, <3>2, <3>3, DoWaitKeeps
  <2> QED  BY <2>2, <2>3
<1>7. CASE InitReap
  <2>1. s.curr # idle /\ -1 \in WaitArgs
    BY <1>7, PidAssumption DEF InitReap, Runs, WaitArgs
  <2>2. CASE zombies(init, -1) # {}
    <3>1. do_wait(-1, "WNOHANG")
      BY <1>7, <2>2 DEF InitReap
    <3> QED  BY <2>1, <3>1, DoWaitKeeps
  <2>3. CASE zombies(init, -1) = {}
    <3>1. s' = schedule(s) /\ UNCHANGED <<tree, killed, waiting, pids>>
      BY <1>7, <2>3 DEF InitReap
    <3> QED  BY <3>1, ScheduleKeeps
  <2> QED  BY <2>2, <2>3
<1>8. ASSUME NEW e \in Entries, Kill(e) PROVE IInv' /\ [Life!LifeNext]_(Life!lifeVars)
  BY <1>8, KillKeeps
<1>9. CASE Yield
  BY <1>9, YieldKeeps
<1>10. CASE UNCHANGED vars
  <2>1. UNCHANGED <<tree, pids, s, killed, waiting>>
    BY <1>10 DEF vars
  <2>2. /\ RInv(s', task_cache \cup Dead) /\ killed' \in [Threads -> BOOLEAN]
        /\ waiting' \in [Threads -> WaitArgs \cup {NULL}]
    BY <2>1, Basics, Zenon DEF IInv, TypeOK
  <2> QED  BY <2>1, <2>2, SchedulingStep
<1> QED  BY <1>1, <1>2, <1>3, <1>4, <1>5, <1>6, <1>7, <1>8, <1>9, <1>10, ZenonT(60) DEF Next

-----------------------------------------------------------------------------
(* Why the CPU idles only when every task waits for its children, which    *)
(* cannot be: the counts of the run queue are exact, schedule() picks the  *)
(* idle task only when no other is ready, the family tree has no cycle (in *)
(* every set of tasks one has no child of the set), and init never exits.  *)

NoCycle ==
    \A S \in SUBSET task_cache : S # {} => \E p \in S : \A c \in S : parent[c] # p
InitLives == task_cache # {} => init \in task_cache /\ s.state[init] # "ZOMBIE"
RunInv == Exact(s) /\ Rests(s) /\ NoCycle /\ InitLives

(* A step of the run queue that makes nobody a zombie.                     *)
LEMMA TreeStays ==
    ASSUME IInv, RunInv, UNCHANGED tree, Exact(s'), Rests(s'),
           \A t \in Tasks : s'.state[t] = "ZOMBIE" => s.state[t] = "ZOMBIE"
    PROVE  RunInv'
<1>1. task_cache' = task_cache /\ parent' = parent /\ task_cache \subseteq Tasks
  BY Basics, Zenon DEF tree
<1>2. NoCycle'
  BY <1>1, Zenon DEF RunInv, NoCycle
<1>3. InitLives'
  BY <1>1, Zenon DEF RunInv, InitLives
<1> QED  BY <1>2, <1>3, Zenon DEF RunInv

LEMMA DoWaitRuns ==
    ASSUME IInv, RunInv, s.curr # idle, NEW arg \in WaitArgs, NEW options,
           do_wait(arg, options)
    PROVE  RunInv'
<1>0. Exact(s) /\ Rests(s)
  BY DEF RunInv
<1>1. CASE zombies(s.curr, arg) # {}
  <2>1. PICK c : c = first_zombie(s.curr, arg)
    OBVIOUS
  <2>2. s' = s /\ parent' = parent /\ task_cache' = task_cache \ {c}
    BY <1>1, <2>1, Zenon DEF do_wait, release_task
  <2>3. WellOrdered /\ TypeOK /\ ChildrenInv /\ s.curr \in Live
    BY CurrIsLive, Ordered DEF IInv, Live
  <2>4. s.state[c] = "ZOMBIE"
    BY <1>1, <2>1, <2>3, MatchingChildren, ZenonT(60)
  <2>5. NoCycle'
    <3> SUFFICES ASSUME NEW S \in SUBSET task_cache', S # {}
                 PROVE  \E q \in S : \A d \in S : parent'[d] # q
      BY Zenon DEF NoCycle
    <3>1. S \in SUBSET task_cache
      BY <2>2, Zenon
    <3> QED  BY <2>2, <3>1, Zenon DEF RunInv, NoCycle
  <2>6. InitLives'
    BY <2>2, <2>4, Zenon DEF RunInv, InitLives
  <2> QED  BY <1>0, <2>2, <2>5, <2>6, Zenon DEF RunInv
<1>2. CASE zombies(s.curr, arg) = {} /\ (matching(s.curr, arg) = {} \/ options = "WNOHANG")
  <2>1. s' = s /\ UNCHANGED tree
    BY <1>2, Zenon DEF do_wait
  <2> QED  BY <1>0, <2>1, TreeStays, Zenon
<1>3. CASE zombies(s.curr, arg) = {} /\ ~(matching(s.curr, arg) = {} \/ options = "WNOHANG")
  <2>1. s' = block(s, "INTERRUPTIBLE", s.curr) /\ UNCHANGED tree
    BY <1>3, Zenon DEF do_wait
  <2>2. /\ "INTERRUPTIBLE" \in TaskStates \ {"RUNNING"} /\ s.curr \in Chans \cup {NULL}
        /\ task_cache \cup Dead \in SUBSET Tasks /\ RInv(s, task_cache \cup Dead)
    BY Basics, ProcessAssumption, Zenon DEF TaskStates, Asleep
  <2>3. Exact(s') /\ Rests(s')
    BY <1>0, <2>1, <2>2, ExactBlock
  <2>4. s'.state = [s.state EXCEPT ![s.curr] = "INTERRUPTIBLE"]
    <3>1. PICK p : p = s.curr
      OBVIOUS
    <3>2. /\ RInv(block(s, "INTERRUPTIBLE", p), task_cache \cup Dead)
          /\ block(s, "INTERRUPTIBLE", p).state = [s.state EXCEPT ![s.curr] = "INTERRUPTIBLE"]
          /\ block(s, "INTERRUPTIBLE", p).chan = [s.chan EXCEPT ![s.curr] = p]
      <4>1. /\ task_cache \cup Dead \in SUBSET Tasks /\ RInv(s, task_cache \cup Dead)
            /\ s.curr # idle /\ "INTERRUPTIBLE" \in TaskStates \ {"RUNNING"}
            /\ p \in Chans \cup {NULL}
        BY <2>2, <3>1, Zenon
      <4> QED  BY <4>1, BlockStep, SMTT(30)
    <3> QED  BY <2>1, <3>1, <3>2, Zenon
  <2>5. \A t \in Tasks : s'.state[t] = "ZOMBIE" => s.state[t] = "ZOMBIE"
    BY <2>4, Basics
  <2> QED  BY <2>1, <2>3, <2>5, TreeStays, Zenon
<1> QED  BY <1>1, <1>2, <1>3, Zenon

(* do_exit: the children of the task that exits go to init_task, which is  *)
(* no task of task_cache.                                                  *)
LEMMA ExitRuns ==
    ASSUME IInv, RunInv, Exit PROVE RunInv'
<1>1. /\ s.curr # idle /\ s.curr # init /\ exit_notify(s.curr) /\ task_cache' = task_cache
      /\ s' = schedule(wakeup([s EXCEPT !.state[s.curr] = "ZOMBIE"], parent[s.curr]))
  BY Zenon DEF Exit, Runs
<1>2. /\ Exact(s') /\ Rests(s')
      /\ \A u \in Threads : s'.state[u] = "ZOMBIE" <=> s.state[u] = "ZOMBIE" \/ u = s.curr
  BY <1>1, ExitQueue DEF RunInv
<1>3. \A c \in Threads : parent'[c] = parent[c] \/ parent'[c] = idle
  BY <1>1, Zenon DEF exit_notify
<1>4. task_cache \subseteq Threads /\ idle \notin task_cache
  BY Basics
<1>5. NoCycle'
  <2> SUFFICES ASSUME NEW S \in SUBSET task_cache, S # {}
               PROVE  \E p \in S : \A c \in S : parent'[c] # p
    BY <1>1, Zenon DEF NoCycle
  <2>1. PICK p \in S : \A c \in S : parent[c] # p
    BY Zenon DEF RunInv, NoCycle
  <2> QED  BY <1>3, <1>4, <2>1, Zenon
<1>6. InitLives'
  BY <1>1, <1>2, <1>4, Zenon DEF RunInv, InitLives
<1> QED  BY <1>2, <1>5, <1>6, Zenon DEF RunInv

(* A new task is a leaf of the tree.                                       *)
LEMMA NewLeaf ==
    ASSUME IInv, NoCycle, NEW t \in Free, NEW p \in Live, NewProcess(t, p)
    PROVE  NoCycle'
<1>1. /\ task_cache' = task_cache \cup {t} /\ parent' = [parent EXCEPT ![t] = p]
      /\ parent \in [Threads -> Threads]
  BY Zenon DEF NewProcess, IInv, TypeOK
<1>2. t \in Threads /\ t \notin Live /\ task_cache \subseteq Threads
  <2>1. task_cache \subseteq Tasks /\ Tasks \subseteq Threads
    BY Basics, Zenon
  <2>2. idle \notin Tasks
    BY DEF idle, Tasks
  <2> QED  BY <2>1, <2>2, Zenon DEF Free, Live
<1>3. parent'[t] = p /\ \A c \in task_cache : parent'[c] = parent[c]
  BY <1>1, <1>2 DEF Live
<1>4. \A c \in task_cache : parent[c] # t
  BY <1>2, Zenon DEF IInv, ParentInv
<1> SUFFICES ASSUME NEW S \in SUBSET (task_cache \cup {t}), S # {}
             PROVE  \E q \in S : \A c \in S : parent'[c] # q
  BY <1>1, Zenon DEF NoCycle
<1>5. CASE t \in S
  <2>1. \A c \in S : parent'[c] # t
    BY <1>2, <1>3, <1>4, Zenon
  <2> QED  BY <1>5, <2>1, Zenon
<1>6. CASE t \notin S
  <2>1. S \in SUBSET task_cache
    BY <1>6, Zenon
  <2>2. PICK q \in S : \A c \in S : parent[c] # q
    BY <2>1, Zenon DEF NoCycle
  <2> QED  BY <1>3, <2>1, <2>2, Zenon
<1> QED  BY <1>5, <1>6, Zenon

LEMMA ForkRuns ==
    ASSUME IInv, RunInv, Fork PROVE RunInv'
<1>1. PICK t : t = alloc_task_struct
  OBVIOUS
<1>2. /\ s.curr # idle /\ Free # {} /\ NewProcess(t, s.curr)
      /\ s' = wake_up_new_task(zeroed(t), t)
  BY <1>1, Zenon DEF Fork, Runs
<1>3. t \in Free /\ s.curr \in Live /\ s.curr \in task_cache
  BY <1>1, <1>2, Ordered, AllocTask, CurrIsLive DEF Live
<1>4. /\ Exact(s') /\ s'.curr = s.curr /\ s'.state = [s.state EXCEPT ![t] = "RUNNING"]
  <2>1. Exact(s)
    BY DEF RunInv
  <2> QED  BY <1>2, <1>3, <2>1, NewQueue, Zenon
<1>5. NoCycle'
  BY <1>2, <1>3, NewLeaf DEF RunInv
<1>6. InitLives'
  <2>1. init \in task_cache /\ s.state[init] # "ZOMBIE" /\ task_cache' = task_cache \cup {t}
    BY <1>2, <1>3, Zenon DEF RunInv, InitLives, NewProcess
  <2>2. s'.state[init] # "ZOMBIE"
    BY <1>4, <2>1, Basics
  <2> QED  BY <2>1, <2>2, Zenon DEF InitLives
<1> QED  BY <1>2, <1>4, <1>5, <1>6, Zenon DEF RunInv, Rests

LEMMA StartInitRuns ==
    ASSUME IInv, RunInv, StartInit PROVE RunInv'
<1>1. PICK t : t = alloc_task_struct
  OBVIOUS
<1>2. PICK w : w = wake_up_new_task(zeroed(t), t)
  OBVIOUS
<1>3. task_cache = {} /\ NewProcess(t, idle) /\ s' = schedule(w)
  BY <1>1, <1>2, Zenon DEF StartInit
<1>4. t = init /\ t \in Free
  <2>1. 1 \in Free /\ \A u \in Free : u \in Nat /\ 1 <= u
    BY <1>3, RunQueueAssumption, ProcessAssumption DEF Free, Tasks
  <2>2. t \in Free /\ \A u \in Free : t <= u
    BY <1>1, <2>1, Zenon DEF alloc_task_struct
  <2> QED  BY <2>1, <2>2 DEF init
<1>5. /\ RInv(w, task_cache \cup Dead \cup {t}) /\ Exact(w)
      /\ w.state = [s.state EXCEPT ![t] = "RUNNING"]
  <2>1. Exact(s)
    BY DEF RunInv
  <2> QED  BY <1>2, <1>4, <2>1, NewQueue, Zenon
<1>6. QInv(w) /\ w.state[idle] = "RUNNING"
  BY <1>5, Zenon DEF RInv
<1>7. Exact(s') /\ Rests(s')
  BY <1>3, <1>5, <1>6, ExactSchedule, Zenon
<1>8. s'.state = w.state
  BY <1>3, <1>6, Schedule, Zenon
<1>9. NoCycle'
  BY <1>3, <1>4, NewLeaf, Basics DEF RunInv, Live
<1>10. InitLives'
  <2>1. init \in task_cache' /\ init \in Threads
    BY <1>3, <1>4, Basics DEF NewProcess, Free
  <2>2. s'.state[init] = "RUNNING"
    BY <1>4, <1>5, <1>8, <2>1, Basics
  <2> QED  BY <2>1, <2>2, Zenon DEF InitLives
<1> QED  BY <1>7, <1>9, <1>10, Zenon DEF RunInv

LEMMA KillRuns ==
    ASSUME IInv, RunInv, NEW e \in Entries, Kill(e) PROVE RunInv'
<1>1. PICK t : t = task_table[e]
  OBVIOUS
<1>2. /\ t \notin {NULL, idle} /\ s.curr # idle /\ UNCHANGED tree
      /\ s' = (IF s.state[t] \in Asleep THEN wake_up_process(s, t) ELSE s)
  BY <1>1, Zenon DEF Kill, Runs
<1>3. t \in Tasks /\ Exact(s) /\ Rests(s)
  <2>1. t \in Live
    BY <1>1, <1>2, Zenon DEF IInv, TableInv
  <2> QED  BY <1>2, <2>1, Basics DEF Live, RunInv
<1>4. CASE s.state[t] \in Asleep
  <2>1. s' = wake_up_process(s, t) /\ ~s.on_rq[t] /\ QInv(s)
    <3>1. s.state[t] # "RUNNING" /\ RInv(s, task_cache \cup Dead)
      BY <1>4, Basics DEF Asleep
    <3> QED  BY <1>2, <1>3, <1>4, <3>1, NotQueued, Zenon DEF RInv
  <2>2. Exact(s') /\ s'.curr = s.curr
    BY <1>3, <2>1, ExactWake
  <2>3. s'.state = [s.state EXCEPT ![t] = "RUNNING"]
    BY <1>3, <1>4, <2>1, WakeUp
  <2>4. \A u \in Tasks : s'.state[u] = "ZOMBIE" => s.state[u] = "ZOMBIE"
    BY <2>3, Basics
  <2>5. Rests(s')
    BY <1>2, <2>2, Zenon DEF Rests
  <2> QED  BY <1>2, <2>2, <2>4, <2>5, TreeStays, Zenon
<1>5. CASE s.state[t] \notin Asleep
  <2>1. s' = s
    BY <1>2, <1>5, Zenon
  <2> QED  BY <1>2, <1>3, <2>1, TreeStays, Zenon
<1> QED  BY <1>4, <1>5, Zenon

(* schedule() called by init_thread, and sched_yield.                      *)
LEMMA YieldRuns ==
    ASSUME IInv, RunInv, s.curr # idle, UNCHANGED tree, s' = schedule(s) \/ s' = yield(s)
    PROVE  RunInv'
<1>1. /\ task_cache \cup Dead \in SUBSET Tasks /\ RInv(s, task_cache \cup Dead)
      /\ QInv(s) /\ s.state[idle] = "RUNNING" /\ Exact(s)
  BY Basics, Zenon DEF RInv, RunInv
<1>2. CASE s' = schedule(s)
  <2>1. Exact(s') /\ Rests(s')
    BY <1>1, <1>2, ExactSchedule, Zenon
  <2>2. s'.state = s.state
    BY <1>1, <1>2, Schedule, Zenon
  <2> QED  BY <2>1, <2>2, TreeStays, Zenon
<1>3. CASE s' = yield(s)
  <2>1. Exact(s') /\ Rests(s')
    BY <1>1, <1>3, ExactYield
  <2>2. s'.state = s.state
    BY <1>1, <1>3, YieldStep
  <2> QED  BY <2>1, <2>2, TreeStays, Zenon
<1> QED  BY <1>2, <1>3, Zenon

LEMMA InitRunInv == Init => RunInv
<1> SUFFICES ASSUME Init PROVE RunInv
  OBVIOUS
<1>1. PICK pr : s = sched_init(pr)
  BY Zenon DEF Init
<1>2. Exact(s)
  BY <1>1, ExactInit
<1>3. Rests(s)
  BY <1>1 DEF sched_init, Rests, Threads
<1>4. NoCycle /\ InitLives
  BY Zenon DEF Init, NoCycle, InitLives
<1> QED  BY <1>2, <1>3, <1>4, Zenon DEF RunInv

LEMMA NextRunInv == ASSUME IInv, RunInv, [Next]_vars PROVE RunInv'
<1>0. Exact(s) /\ Rests(s)
  BY DEF RunInv
<1>1. CASE StartInit
  BY <1>1, StartInitRuns
<1>2. CASE Fork
  BY <1>2, ForkRuns
<1>3. ASSUME s' = s, UNCHANGED tree PROVE RunInv'
  BY <1>0, <1>3, TreeStays, Zenon
<1>4. CASE ForkFails
  BY <1>3, <1>4, Zenon DEF ForkFails
<1>5. CASE Exit
  BY <1>5, ExitRuns
<1>6. ASSUME NEW arg \in WaitArgs, NEW options \in {"BLOCK", "WNOHANG"}, Wait(arg, options)
      PROVE  RunInv'
  BY <1>6, DoWaitRuns DEF Wait, Runs
<1>7. CASE Resume
  <2>1. s.curr # idle /\ waiting[s.curr] # NULL
    BY <1>7, Zenon DEF Resume
  <2>2. CASE killed[s.curr]
    BY <1>3, <1>7, <2>2, Zenon DEF Resume
  <2>3. CASE ~killed[s.curr]
    <3>1. PICK arg : arg = waiting[s.curr]
      OBVIOUS
    <3>2. arg \in WaitArgs
      <4>1. waiting \in [Threads -> WaitArgs \cup {NULL}] /\ s.curr \in Threads
        BY Basics, Zenon DEF IInv, TypeOK
      <4> QED  BY <2>1, <3>1, <4>1
    <3>3. do_wait(arg, "BLOCK")
      BY <1>7, <2>3, <3>1, Zenon DEF Resume
    <3> QED  BY <2>1, <3>2, <3>3, DoWaitRuns
  <2> QED  BY <2>2, <2>3, Zenon
<1>8. CASE InitReap
  <2>1. s.curr # idle /\ -1 \in WaitArgs
    BY <1>8, PidAssumption DEF InitReap, Runs, WaitArgs
  <2>2. CASE zombies(init, -1) # {}
    <3>1. do_wait(-1, "WNOHANG")
      BY <1>8, <2>2, Zenon DEF InitReap
    <3> QED  BY <2>1, <3>1, DoWaitRuns
  <2>3. CASE zombies(init, -1) = {}
    <3>1. s' = schedule(s) /\ UNCHANGED tree
      BY <1>8, <2>3, Zenon DEF InitReap
    <3> QED  BY <2>1, <3>1, YieldRuns
  <2> QED  BY <2>2, <2>3, Zenon
<1>9. ASSUME NEW e \in Entries, Kill(e) PROVE RunInv'
  BY <1>9, KillRuns
<1>10. CASE Yield
  <2>1. s.curr # idle /\ s' = yield(s) /\ UNCHANGED tree
    BY <1>10, Zenon DEF Yield, Runs
  <2> QED  BY <2>1, YieldRuns
<1>11. CASE UNCHANGED vars
  BY <1>3, <1>11, Zenon DEF vars
<1> QED  BY <1>1, <1>2, <1>4, <1>5, <1>6, <1>7, <1>8, <1>9, <1>10, <1>11, Zenon DEF Next

(* If all tasks slept where wakeup can find them, one of them would wait   *)
(* for children none of which sleeps, while each waits for a child that    *)
(* has not exited.                                                         *)
LEMMA NotAllAsleep == ASSUME IInv, RunInv PROVE SomebodyRuns
<1> SUFFICES ASSUME task_cache # {}, s.curr = idle,
                    \A t \in task_cache : s.state[t] \in Asleep => InTable(t)
             PROVE  FALSE
  BY Zenon DEF SomebodyRuns
<1> DEFINE S == {t \in task_cache : s.state[t] \in Asleep}
<1>1. \A t \in task_cache : s.state[t] # "ZOMBIE" => t \in S
  <2> SUFFICES ASSUME NEW t \in task_cache, s.state[t] # "ZOMBIE" PROVE s.state[t] \in Asleep
    BY Zenon
  <2>1. t \in Tasks /\ RInv(s, task_cache \cup Dead) /\ s.state[t] \in TaskStates
    BY Basics
  <2>2. ~s.on_rq[t]
    BY <2>1, Zenon DEF RunInv, Rests
  <2>3. s.state[t] # "RUNNING"
    BY <2>1, <2>2, Zenon DEF RInv
  <2> QED  BY <2>1, <2>3 DEF TaskStates
<1>2. S # {} /\ S \in SUBSET task_cache
  BY <1>1, Zenon DEF RunInv, InitLives
<1>3. PICK p \in S : \A c \in S : parent[c] # p
  BY <1>2, Zenon DEF RunInv, NoCycle
<1>4. Sleeper(p) /\ InTable(p)
  BY <1>2, <1>3, Zenon DEF IInv, SleepInv
<1>5. PICK c \in Tasks : Expects(p, c) /\ s.state[c] # "ZOMBIE"
  BY <1>4, Zenon DEF Sleeper
<1> QED  BY <1>1, <1>3, <1>5, Zenon DEF Expects

-----------------------------------------------------------------------------
(* What the invariant says of the properties.                              *)

LEMMA TreeFollows == IInv => TreeConsistent
<1> SUFFICES ASSUME IInv PROVE TreeConsistent
  OBVIOUS
<1>0. SetsCount
  BY Zenon DEF IInv, QueueInv, RInv, QInv, Arithmetic
<1>1. /\ \A t, u \in task_cache : pid[t] = pid[u] => t = u
      /\ pid_bitmap = {0} \cup {pid[t] : t \in task_cache}
  BY DEF IInv, PidInv
<1>2. \A t \in task_cache : parent[t] \in task_cache \cup {idle} /\ s.state[parent[t]] # "ZOMBIE"
  BY DEF IInv, ParentInv, Live
<1>3. \A p \in Live : children[p] \in Seq(Tasks) /\ DOMAIN children[p] = 1 .. Len(children[p])
  <2>1. children \in [Threads -> Seq(Tasks)]
    BY Zenon DEF IInv, TypeOK
  <2>2. Live \subseteq Threads
    BY Basics DEF Live
  <2> QED  BY <2>1, <2>2
<1>4. \A p \in Live : /\ Distinct(children[p])
                      /\ \A c \in Threads : Holds(children[p], c) <=>
                            c \in task_cache /\ parent[c] = p
  BY DEF IInv, ChildrenInv
<1>5. ASSUME NEW t \in task_cache, NEW p \in Live
      PROVE  Cardinality({i \in DOMAIN children[p] : children[p][i] = t}) =
                IF p = parent[t] THEN 1 ELSE 0
  <2> DEFINE at == {i \in DOMAIN children[p] : children[p][i] = t}
  <2>1. t \in Threads
    BY Basics
  <2>2. CASE p = parent[t]
    <3>1. Holds(children[p], t)
      BY <1>4, <2>1, <2>2
    <3>2. PICK i \in 1 .. Len(children[p]) : children[p][i] = t
      BY <3>1, Zenon DEF Holds
    <3>3. Distinct(children[p]) /\ DOMAIN children[p] = 1 .. Len(children[p])
      BY <1>3, <1>4, Zenon
    <3>5. \A j \in 1 .. Len(children[p]) : children[p][j] = t => j = i
      BY <3>2, <3>3, Zenon DEF Distinct
    <3>4. at = {i}
      BY <3>2, <3>3, <3>5, Zenon
    <3> QED  BY <1>0, <2>2, <3>4, Zenon DEF SetsCount
  <2>3. CASE p # parent[t]
    <3>1. ~Holds(children[p], t)
      BY <1>4, <2>1, <2>3
    <3>2. at = {}
      BY <1>3, <3>1 DEF Holds
    <3> QED  BY <1>0, <2>3, <3>2, Zenon DEF SetsCount
  <2> QED  BY <2>2, <2>3
<1>6. ASSUME NEW p \in Live, NEW i \in DOMAIN children[p] PROVE children[p][i] \in task_cache
  <2>1. Holds(children[p], children[p][i]) /\ children[p][i] \in Threads
    BY <1>3, Basics DEF Holds
  <2> QED  BY <1>4, <2>1
<1> QED  BY <1>1, <1>2, <1>5, <1>6, Zenon DEF TreeConsistent, Live

LEMMA NoneDangles == IInv => NoDanglingTask
<1> SUFFICES ASSUME IInv PROVE NoDanglingTask
  OBVIOUS
<1>1. \A t \in Free : ~s.on_rq[t] /\ s.curr # t
  BY NotQueued DEF Free
<1>2. \A e, f \in Entries : task_table[e] # NULL =>
         /\ task_table[e] \in task_cache \cup {idle}
         /\ task_table[e] = task_table[f] => e = f
  BY Zenon DEF IInv, TableInv, Live
<1> QED  BY <1>1, <1>2, Zenon DEF NoDanglingTask

LEMMA NoneMissed == IInv => NoMissedChild
<1> SUFFICES ASSUME IInv, NEW p \in task_cache, s.state[p] \in Asleep, InTable(p)
             PROVE  matching(p, waiting[p]) # {} /\ zombies(p, waiting[p]) = {}
  BY DEF NoMissedChild
<1>1. Sleeper(p)
  BY DEF IInv, SleepInv
<1>2. WellOrdered /\ TypeOK /\ ChildrenInv /\ p \in Live
  BY Ordered DEF IInv, Live
<1>3. \E c \in task_cache : parent[c] = p /\ Matches(p, c, waiting[p])
  BY <1>1, Zenon DEF Sleeper, Expects
<1>4. ~\E c \in task_cache : /\ parent[c] = p /\ Matches(p, c, waiting[p])
                             /\ s.state[c] = "ZOMBIE"
  <2>1. task_cache \subseteq Tasks
    BY Basics
  <2> QED  BY <1>1, <2>1, Zenon DEF Sleeper, Expects
<1> QED  BY <1>2, <1>3, <1>4, MatchingChildren, ZenonT(60)

INSTANCE NumbersProofs

LEMMA SpecIInv == Spec => []IInv
<1>1. Init => IInv
  BY InitIInv, ArithmeticHolds
<1>2. IInv /\ [Next]_vars => IInv'
  BY NextIInv
<1> QED  BY <1>1, <1>2, PTL DEF Spec

(* The tables of process management stay well typed under every order of   *)
(* fork, exit, wait, kill and scheduling.                                  *)
THEOREM ProcessTypes == Spec => []TypeOK
<1>1. IInv => TypeOK
  BY DEF IInv
<1> QED  BY SpecIInv, <1>1, PTL

(* For any number of tasks and PIDs: fork, exit and wait keep the family   *)
(* tree and the PID bitmap exact, whichever of parent and child exits      *)
(* first, and no PID is lost or used twice.                                *)
THEOREM FamilyTreeConsistent == Spec => []TreeConsistent
BY SpecIInv, TreeFollows, PTL

(* A released task_struct is on no queue, in no table and not running, and *)
(* no task has two entries of task_table.                                  *)
THEOREM NothingDangles == Spec => []NoDanglingTask
BY SpecIInv, NoneDangles, PTL

(* The exit of a child is never missed by a parent that sleeps in do_wait  *)
(* and has an entry in task_table.                                         *)
THEOREM NoExitMissed == Spec => []NoMissedChild
BY SpecIInv, NoneMissed, PTL

(* fork, exit and wait, with their tables, lists and wakeups, implement    *)
(* the life cycle of ProcLife.tla.                                         *)
THEOREM LifeCycleImplemented == Spec => ImplementsProcLife
<1>1. Init => Life!LifeInit
  BY InitIInv, ArithmeticHolds
<1>2. IInv /\ [Next]_vars => [Life!LifeNext]_(Life!lifeVars)
  BY NextIInv
<1> QED  BY SpecIInv, <1>1, <1>2, PTL DEF Spec, ImplementsProcLife, Life!LifeSpec

(* The tasks never all wait for each other: as long as wakeup can find     *)
(* every sleeper in task_table, some task has the CPU and not the idle     *)
(* task.                                                                   *)
THEOREM SomebodyAlwaysRuns == Spec => []SomebodyRuns
<1>1. IInv /\ RunInv /\ [Next]_vars => RunInv'
  BY NextRunInv
<1>2. IInv /\ RunInv => SomebodyRuns
  BY NotAllAsleep
<1> QED  BY SpecIInv, InitRunInv, <1>1, <1>2, PTL DEF Spec
=============================================================================
