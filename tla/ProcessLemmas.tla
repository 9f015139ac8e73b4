--------------------------- MODULE ProcessLemmas ----------------------------
(***************************************************************************)
(* The inductive invariant of Process.tla, and that scheduling, kill, wait *)
(* and exit keep it, for any number of task_structs, task_table entries,   *)
(* PIDs and priorities.                                                    *)
(***************************************************************************)
EXTENDS Process, KernelLemmas

Live == task_cache \cup {idle}
Dead == {t \in Tasks : s.state[t] = "ZOMBIE"}

(* The run queue counts a released task_struct, which stays a zombie until *)
(* it is allocated again, as created.                                      *)
QueueInv == RInv(s, task_cache \cup Dead)

Distinct(q) == \A i, j \in 1 .. Len(q) : q[i] = q[j] => i = j

ChildrenInv ==
    \A p \in Live :
       /\ Distinct(children[p])
       /\ \A c \in Threads : Holds(children[p], c) <=> c \in task_cache /\ parent[c] = p
ParentInv ==
    \A t \in task_cache : parent[t] \in Live /\ s.state[parent[t]] # "ZOMBIE"

PidInv ==
    /\ \A t, u \in task_cache : pid[t] = pid[u] => t = u
    /\ \A t \in task_cache : pid[t] \in Pids
    /\ pid_bitmap = {0} \cup {pid[t] : t \in task_cache}

TableInv ==
    \A e, f \in Entries : task_table[e] # NULL =>
       /\ task_table[e] \in Live
       /\ task_table[e] = task_table[f] => e = f

(* p sleeps in do_wait for a child it has, and if wakeup can find p no such*)
(* child has exited.                                                       *)
Expects(p, c) == c \in task_cache /\ parent[c] = p /\ Matches(p, c, waiting[p])
Sleeper(p) ==
    /\ waiting[p] \in WaitArgs /\ s.chan[p] = p
    /\ \E c \in Tasks : Expects(p, c)
    /\ InTable(p) => \A c \in Tasks : Expects(p, c) => s.state[c] # "ZOMBIE"
SleepInv == \A p \in task_cache : s.state[p] \in Asleep => Sleeper(p)

IInv == TypeOK /\ QueueInv /\ ChildrenInv /\ ParentInv /\ PidInv /\ TableInv /\ SleepInv
-----------------------------------------------------------------------------
(* Lists.                                                                  *)

LEMMA Concat ==
    ASSUME NEW a \in Seq(Tasks), NEW b \in Seq(Tasks), Distinct(a), Distinct(b),
           \A u \in Threads : ~(Holds(a, u) /\ Holds(b, u))
    PROVE  /\ a \o b \in Seq(Tasks)
           /\ \A u \in Threads : Holds(a \o b, u) <=> Holds(a, u) \/ Holds(b, u)
           /\ Distinct(a \o b)
<1> DEFINE d == a \o b
<1>1. /\ d \in Seq(Tasks) /\ Len(a) \in Nat /\ Len(b) \in Nat /\ Len(d) = Len(a) + Len(b)
      /\ \A i \in 1 .. Len(a) : d[i] = a[i]
      /\ \A i \in 1 .. Len(b) : d[Len(a) + i] = b[i]
  OBVIOUS
<1>2. /\ \A i \in 1 .. Len(a) : a[i] \in Threads
      /\ \A i \in 1 .. Len(b) : b[i] \in Threads
  BY DEF Threads
<1> HIDE DEF d
<1>3. \A i \in 1 .. Len(d) : i \in 1 .. Len(a) \/ \E j \in 1 .. Len(b) : i = Len(a) + j
  <2> TAKE i \in 1 .. Len(d)
  <2>1. CASE i > Len(a)
    <3>1. i - Len(a) \in 1 .. Len(b) /\ i = Len(a) + (i - Len(a))
      BY <1>1, <2>1
    <3> QED  BY <3>1, Zenon
  <2> QED  BY <1>1, <2>1
<1>4. \A u \in Threads : Holds(d, u) <=> Holds(a, u) \/ Holds(b, u)
  <2> TAKE u \in Threads
  <2>1. Holds(d, u) => Holds(a, u) \/ Holds(b, u)
    BY <1>1, <1>3, Zenon DEF Holds
  <2>2. Holds(a, u) => Holds(d, u)
    BY <1>1 DEF Holds
  <2>3. Holds(b, u) => Holds(d, u)
    <3> SUFFICES ASSUME NEW i \in 1 .. Len(b), b[i] = u PROVE Holds(d, u)
      BY DEF Holds
    <3>1. Len(a) + i \in 1 .. Len(d) /\ d[Len(a) + i] = u
      BY <1>1
    <3> QED  BY <3>1 DEF Holds
  <2> QED  BY <2>1, <2>2, <2>3
<1>5. Distinct(d)
  <2> SUFFICES ASSUME NEW i \in 1 .. Len(d), NEW j \in 1 .. Len(d), d[i] = d[j]
               PROVE  i = j
    BY DEF Distinct
  <2>1. CASE i \in 1 .. Len(a) /\ j \in 1 .. Len(a)
    BY <1>1, <2>1 DEF Distinct
  <2>2. CASE i \in 1 .. Len(a) /\ \E l \in 1 .. Len(b) : j = Len(a) + l
    <3>1. PICK l \in 1 .. Len(b) : j = Len(a) + l
      BY <2>2
    <3>2. a[i] = b[l] /\ a[i] \in Threads
      BY <1>1, <1>2, <2>2, <3>1
    <3> QED  BY <2>2, <3>2, Zenon DEF Holds
  <2>3. CASE j \in 1 .. Len(a) /\ \E l \in 1 .. Len(b) : i = Len(a) + l
    <3>1. PICK l \in 1 .. Len(b) : i = Len(a) + l
      BY <2>3
    <3>2. a[j] = b[l] /\ a[j] \in Threads
      BY <1>1, <1>2, <2>3, <3>1
    <3> QED  BY <2>3, <3>2, Zenon DEF Holds
  <2>4. CASE /\ \E l \in 1 .. Len(b) : i = Len(a) + l
             /\ \E l \in 1 .. Len(b) : j = Len(a) + l
    BY <1>1, <2>4, SMTT(60) DEF Distinct
  <2> QED  BY <1>3, <2>1, <2>2, <2>3, <2>4
<1> QED  BY <1>1, <1>4, <1>5 DEF d

(* What do_wait looks for, in terms of the family tree instead of lists.   *)
LEMMA MatchingChildren ==
    ASSUME WellOrdered, TypeOK, ChildrenInv, NEW p \in Live, NEW arg
    PROVE  /\ matching(p, arg) # {} <=>
                 \E c \in task_cache : parent[c] = p /\ Matches(p, c, arg)
           /\ zombies(p, arg) # {} <=>
                 \E c \in task_cache : /\ parent[c] = p /\ Matches(p, c, arg)
                                       /\ s.state[c] = "ZOMBIE"
           /\ zombies(p, arg) # {} =>
                 /\ first_zombie(p, arg) \in task_cache
                 /\ parent[first_zombie(p, arg)] = p
                 /\ s.state[first_zombie(p, arg)] = "ZOMBIE"
<1> DEFINE q == children[p]
           z == zombies(p, arg)
           i == CHOOSE i \in z : \A j \in z : i <= j
<1>1. q \in Seq(Tasks) /\ DOMAIN q = 1 .. Len(q) /\ Len(q) \in Nat
  BY DEF TypeOK, Live, Threads
<1>2. \A j \in DOMAIN q : q[j] \in task_cache /\ parent[q[j]] = p
  <2> TAKE j \in DOMAIN q
  <2>1. q[j] \in Threads /\ Holds(q, q[j])
    BY <1>1 DEF Holds, Threads
  <2> QED  BY <2>1 DEF ChildrenInv
<1>3. \A c \in task_cache : parent[c] = p => \E j \in DOMAIN q : q[j] = c
  <2> SUFFICES ASSUME NEW c \in task_cache, parent[c] = p PROVE \E j \in DOMAIN q : q[j] = c
    OBVIOUS
  <2>1. c \in Threads
    BY DEF TypeOK, Threads
  <2>2. Holds(q, c)
    BY <2>1 DEF ChildrenInv
  <2> QED  BY <1>1, <2>2 DEF Holds
<1>4. matching(p, arg) # {} <=> \E c \in task_cache : parent[c] = p /\ Matches(p, c, arg)
  BY <1>2, <1>3, Zenon DEF matching
<1>5. z # {} <=> \E c \in task_cache : /\ parent[c] = p /\ Matches(p, c, arg)
                                       /\ s.state[c] = "ZOMBIE"
  BY <1>2, <1>3, ZenonT(60) DEF matching, zombies
<1>6. ASSUME z # {}
      PROVE  /\ first_zombie(p, arg) \in task_cache /\ parent[first_zombie(p, arg)] = p
             /\ s.state[first_zombie(p, arg)] = "ZOMBIE"
  <2>1. z \in SUBSET Nat /\ z \subseteq DOMAIN q /\ \A j \in z : s.state[q[j]] = "ZOMBIE"
    BY <1>1 DEF zombies, matching
  <2> HIDE DEF z
  <2>2. \E j \in z : \A k \in z : j <= k
    BY <1>6, <2>1, Least, Zenon
  <2>3. i \in z
    BY <2>2
  <2>4. first_zombie(p, arg) = q[i]
    BY DEF first_zombie, z
  <2> QED  BY <1>2, <2>1, <2>3, <2>4, Zenon
<1> QED  BY <1>4, <1>5, <1>6
-----------------------------------------------------------------------------
(* Consequences of the invariant that every step uses.                     *)

LEMMA Basics ==
    ASSUME IInv
    PROVE  /\ s \in RunQueueType /\ task_cache \subseteq Tasks /\ Dead \subseteq Tasks
           /\ RInv(s, task_cache \cup Dead) /\ s.state[idle] = "RUNNING"
           /\ idle \notin task_cache /\ Tasks \subseteq Threads /\ idle \in Threads
           /\ s.curr \in Threads /\ s.state \in [Threads -> TaskStates]
           /\ s.chan \in [Threads -> Chans \cup {NULL}]
<1>1. s \in RunQueueType /\ task_cache \subseteq Tasks /\ RInv(s, task_cache \cup Dead)
  BY Zenon DEF IInv, TypeOK, QueueInv
<1>2. idle \notin Tasks /\ Tasks \subseteq Threads /\ idle \in Threads
  BY DEF idle, Tasks, Threads
<1>3. /\ s.curr \in Threads /\ s.state \in [Threads -> TaskStates]
      /\ s.chan \in [Threads -> Chans \cup {NULL}]
  BY <1>1 DEF RunQueueType
<1>4. s.state[idle] = "RUNNING" /\ Dead \subseteq Tasks
  BY <1>1 DEF RInv, Dead
<1> QED  BY <1>1, <1>2, <1>3, <1>4, Zenon

LEMMA Ordered == ASSUME IInv PROVE WellOrdered
BY Zenon DEF IInv, QueueInv, RInv, QInv, Arithmetic

LEMMA CurrIsLive ==
    ASSUME IInv, s.curr # idle
    PROVE  s.curr \in task_cache /\ s.state[s.curr] = "RUNNING" /\ s.on_rq[s.curr]
<1>1. task_cache \cup Dead \in SUBSET Tasks /\ RInv(s, task_cache \cup Dead)
  BY Basics
<1>2. s.curr \in task_cache \cup Dead /\ s.state[s.curr] = "RUNNING"
  BY <1>1, RInvFacts
<1>3. s.curr \notin Dead
  BY <1>2 DEF Dead
<1> QED  BY <1>1, <1>2, <1>3 DEF RInv

(* A sleeper or a zombie is an allocated task, or was one, and is not on   *)
(* the run queue.                                                          *)
LEMMA NotQueued ==
    ASSUME IInv, NEW t \in Tasks
    PROVE  /\ s.state[t] # "RUNNING" => ~s.on_rq[t]
           /\ s.state[t] \in Asleep => t \in task_cache
           /\ t \notin task_cache => ~s.on_rq[t] /\ s.curr # t
<1>1. RInv(s, task_cache \cup Dead)
  BY Basics
<1>2. t \in task_cache \cup Dead => (s.state[t] = "RUNNING" <=> s.on_rq[t])
  BY <1>1 DEF RInv
<1>3. t \notin task_cache \cup Dead => ~s.on_rq[t] /\ s.state[t] = "RUNNING"
  BY <1>1 DEF RInv
<1>4. t \in Dead => s.state[t] = "ZOMBIE"
  BY DEF Dead
<1>5. t \notin task_cache => s.curr # t
  BY CurrIsLive DEF idle, Tasks
<1> QED  BY <1>2, <1>3, <1>4, <1>5 DEF Asleep

(* A step of the run queue that keeps the zombies keeps the created tasks. *)
LEMMA SameCreated ==
    ASSUME IInv, task_cache' = task_cache, RInv(s', task_cache \cup Dead),
           \A t \in Tasks : s.state[t] = "ZOMBIE" => s'.state[t] = "ZOMBIE"
    PROVE  QueueInv'
<1>1. task_cache' \cup Dead' = task_cache \cup Dead
  <2>1. Dead \subseteq Dead'
    BY DEF Dead
  <2>2. ASSUME NEW t \in Dead', t \notin task_cache \cup Dead PROVE FALSE
    <3>1. t \in Tasks /\ s'.state[t] = "ZOMBIE"
      BY DEF Dead
    <3>2. s'.state[t] = "RUNNING"
      BY <2>2, <3>1 DEF RInv
    <3> QED  BY <3>1, <3>2
  <2> QED  BY <2>1, <2>2
<1> QED  BY <1>1 DEF QueueInv
-----------------------------------------------------------------------------
(* The steps that only schedule: the tree and the PIDs stay as they are.   *)

LEMMA SchedulingStep ==
    ASSUME IInv, UNCHANGED <<tree, pids>>,
           killed' \in [Threads -> BOOLEAN],
           waiting' \in [Threads -> WaitArgs \cup {NULL}],
           RInv(s', task_cache \cup Dead),
           \A t \in Tasks : s'.state[t] = "ZOMBIE" <=> s.state[t] = "ZOMBIE",
           \A p \in task_cache : s'.state[p] \in Asleep =>
              \/ s.state[p] \in Asleep /\ waiting'[p] = waiting[p] /\ s'.chan[p] = s.chan[p]
              \/ Sleeper(p)'
    PROVE  IInv' /\ UNCHANGED Life!lifeVars
<1>1. /\ task_cache' = task_cache /\ task_table' = task_table /\ pid' = pid
      /\ parent' = parent /\ children' = children
      /\ pid_bitmap' = pid_bitmap /\ last_pid' = last_pid
  BY DEF tree, pids
<1>2. TypeOK'
  BY <1>1, Zenon DEF IInv, TypeOK, RInv, QInv
<1>3. QueueInv'
  BY <1>1, SameCreated
<1>4. ChildrenInv' /\ PidInv' /\ TableInv'
  <2>1. ChildrenInv'
    BY <1>1, Zenon DEF IInv, ChildrenInv, Live
  <2>2. PidInv'
    BY <1>1 DEF IInv, PidInv
  <2>3. TableInv'
    BY <1>1, Zenon DEF IInv, TableInv, Live
  <2> QED  BY <2>1, <2>2, <2>3
<1>5. ParentInv'
  <2>1. \A t \in Live : s.state[t] # "ZOMBIE" => s'.state[t] # "ZOMBIE"
    BY Basics DEF Live, RInv
  <2> QED  BY <1>1, <2>1 DEF IInv, ParentInv, Live
<1>6. SleepInv'
  <2> SUFFICES ASSUME NEW p \in task_cache, s'.state[p] \in Asleep PROVE Sleeper(p)'
    BY <1>1 DEF SleepInv
  <2>1. CASE s.state[p] \in Asleep /\ waiting'[p] = waiting[p] /\ s'.chan[p] = s.chan[p]
    <3>1. Sleeper(p)
      BY <2>1 DEF IInv, SleepInv
    <3>2. \A c : Expects(p, c)' <=> Expects(p, c)
      BY <1>1, <2>1 DEF Expects, Matches, pgrp
    <3>3. InTable(p)' <=> InTable(p)
      BY <1>1 DEF InTable
    <3> QED  BY <2>1, <3>1, <3>2, <3>3, Zenon DEF Sleeper
  <2> QED  BY <2>1
<1>7. UNCHANGED Life!lifeVars
  <2>1. \A t \in Tasks : s'.state[t] = "ZOMBIE" <=> s.state[t] = "ZOMBIE"
    OBVIOUS
  <2> QED  BY <1>1, <2>1 DEF Life!lifeVars
<1> QED  BY <1>2, <1>3, <1>4, <1>5, <1>6, <1>7, Zenon DEF IInv

LEMMA YieldKeeps == IInv /\ Yield => IInv' /\ UNCHANGED Life!lifeVars
<1> SUFFICES ASSUME IInv, Yield PROVE IInv' /\ UNCHANGED Life!lifeVars
  OBVIOUS
<1>1. s.curr # idle /\ s' = yield(s) /\ UNCHANGED <<tree, killed, waiting, pids>>
  BY DEF Yield, Runs
<1>2. task_cache \cup Dead \in SUBSET Tasks /\ RInv(s, task_cache \cup Dead)
  BY Basics
<1>3. RInv(s', task_cache \cup Dead) /\ s'.state = s.state /\ s'.chan = s.chan
  BY <1>1, <1>2, YieldStep
<1>4. killed' \in [Threads -> BOOLEAN] /\ waiting' \in [Threads -> WaitArgs \cup {NULL}]
  BY <1>1 DEF IInv, TypeOK
<1> QED  BY <1>1, <1>3, <1>4, SchedulingStep

(* schedule() called by init_thread.                                       *)
LEMMA ScheduleKeeps ==
    ASSUME IInv, s' = schedule(s), UNCHANGED <<tree, killed, waiting, pids>>
    PROVE  IInv' /\ UNCHANGED Life!lifeVars
<1>1. task_cache \cup Dead \in SUBSET Tasks /\ RInv(s, task_cache \cup Dead)
  BY Basics
<1>2. RInv(s', task_cache \cup Dead)
  BY <1>1, PlainSchedule
<1>3. s'.state = s.state /\ s'.chan = s.chan
  <2>1. QInv(s) /\ s.state[idle] = "RUNNING"
    BY <1>1 DEF RInv
  <2> QED  BY <2>1, Schedule, Zenon
<1>4. killed' \in [Threads -> BOOLEAN] /\ waiting' \in [Threads -> WaitArgs \cup {NULL}]
  BY DEF IInv, TypeOK
<1> QED  BY <1>2, <1>3, <1>4, SchedulingStep

LEMMA KillKeeps ==
    ASSUME IInv, NEW e \in Entries, Kill(e)
    PROVE  IInv' /\ UNCHANGED Life!lifeVars
<1> DEFINE t == task_table[e]
<1>1. /\ t \notin {NULL, idle} /\ killed' = [killed EXCEPT ![t] = TRUE]
      /\ s' = (IF s.state[t] \in Asleep THEN wake_up_process(s, t) ELSE s)
      /\ UNCHANGED <<tree, waiting, pids>>
  BY DEF Kill
<1>2. t \in task_cache /\ t \in Tasks /\ t \in Threads
  <2>1. t \in Live
    BY <1>1 DEF IInv, TableInv
  <2> QED  BY <1>1, <2>1, Basics DEF Live
<1> HIDE DEF t
<1>3. task_cache \cup Dead \in SUBSET Tasks /\ RInv(s, task_cache \cup Dead)
  BY Basics
<1>4. killed' \in [Threads -> BOOLEAN] /\ waiting' \in [Threads -> WaitArgs \cup {NULL}]
  <2>1. killed \in [Threads -> BOOLEAN] /\ waiting \in [Threads -> WaitArgs \cup {NULL}]
    BY Zenon DEF IInv, TypeOK
  <2> QED  BY <1>1, <1>2, <2>1
<1>5. CASE s.state[t] \in Asleep
  <2>1. s' = wake_up_process(s, t) /\ ~s.on_rq[t] /\ QInv(s)
    BY <1>1, <1>2, <1>3, <1>5, NotQueued DEF RInv, Asleep
  <2>2. RInv(s', task_cache \cup Dead)
    BY <1>2, <1>3, <1>5, <2>1, WakeStep
  <2>3. s'.chan = s.chan /\ s'.state = [s.state EXCEPT ![t] = "RUNNING"]
    BY <1>2, <1>5, <2>1, WakeUp
  <2>4. \A u \in Threads : s'.state[u] = IF u = t THEN "RUNNING" ELSE s.state[u]
    BY <1>2, <2>3, Basics
  <2>5. \A u \in Tasks : s'.state[u] = "ZOMBIE" <=> s.state[u] = "ZOMBIE"
    BY <1>5, <2>4, Basics DEF Asleep
  <2>6. \A p \in task_cache : s'.state[p] \in Asleep =>
           s.state[p] \in Asleep /\ waiting'[p] = waiting[p] /\ s'.chan[p] = s.chan[p]
    BY <1>1, <2>3, <2>4, Basics DEF Asleep
  <2>7. UNCHANGED <<tree, pids>>
    BY <1>1
  <2> QED  BY <1>4, <2>2, <2>5, <2>6, <2>7, SchedulingStep, Zenon
<1>6. CASE s.state[t] \notin Asleep
  BY <1>1, <1>3, <1>4, <1>6, SchedulingStep
<1> QED  BY <1>5, <1>6
-----------------------------------------------------------------------------
(* do_wait.                                                                *)

LEMMA ReleaseKeeps ==
    ASSUME IInv, s.curr # idle, NEW c \in task_cache, parent[c] = s.curr,
           s.state[c] = "ZOMBIE", release_task(c),
           waiting' = [waiting EXCEPT ![s.curr] = NULL]
    PROVE  IInv' /\ Life!Release(c)
<1> DEFINE p == s.curr
<1>1. /\ children' = [children EXCEPT ![p] = list_del(@, c)]
      /\ task_table' = [e \in Entries |-> IF task_table[e] = c THEN NULL ELSE task_table[e]]
      /\ pid_bitmap' = free_pid(pid_bitmap, pid[c])
      /\ task_cache' = task_cache \ {c}
      /\ s' = s /\ pid' = pid /\ parent' = parent /\ killed' = killed /\ last_pid' = last_pid
  BY DEF release_task
<1>2. p \in task_cache /\ s.state[p] = "RUNNING" /\ p # c
  BY CurrIsLive
<1>3. p \in Threads /\ c \in Threads /\ c \in Tasks /\ p \in Tasks /\ c # idle
  BY <1>2, Basics
<1>4. /\ children \in [Threads -> Seq(Tasks)] /\ waiting \in [Threads -> WaitArgs \cup {NULL}]
      /\ task_table \in [Entries -> Threads \cup {NULL}]
      /\ pid_bitmap \in SUBSET (0 .. PID_MAX - 1) /\ pid \in [Threads -> 0 .. PID_MAX - 1]
  BY Zenon DEF IInv, TypeOK
<1> HIDE DEF p
<1>5. /\ list_del(children[p], c) \in Seq(Tasks) /\ Distinct(list_del(children[p], c))
      /\ \A u \in Threads : Holds(list_del(children[p], c), u) <=> Holds(children[p], u) /\ u # c
  <2>1. children[p] \in Seq(Tasks) /\ Distinct(children[p])
    BY <1>2, <1>3, <1>4 DEF IInv, ChildrenInv, Live
  <2> QED  BY <1>3, <2>1, ListDel DEF Distinct
<1>6. /\ children' \in [Threads -> Seq(Tasks)] /\ children'[p] = list_del(children[p], c)
      /\ \A q \in Threads \ {p} : children'[q] = children[q]
  BY <1>1, <1>3, <1>4, <1>5, Zenon
<1>7. pid_bitmap' = pid_bitmap \ {pid[c]}
  <2>1. pid[c] \in Pids
    BY DEF IInv, PidInv
  <2> QED  BY <1>1, <2>1, PidAssumption DEF free_pid, Pids
<1>8. TypeOK'
  <2>1. waiting' \in [Threads -> WaitArgs \cup {NULL}]
    BY <1>4, Zenon
  <2>2. task_table' \in [Entries -> Threads \cup {NULL}]
    BY <1>1, <1>4
  <2>3. pid_bitmap' \subseteq 0 .. PID_MAX - 1 /\ task_cache' \subseteq Tasks
    BY <1>1, <1>4, <1>7, Basics, Zenon
  <2> QED  BY <1>1, <1>6, <2>1, <2>2, <2>3, Zenon DEF IInv, TypeOK
<1>9. QueueInv'
  <2>1. task_cache' \cup Dead' = task_cache \cup Dead
    BY <1>1, <1>3 DEF Dead
  <2> QED  BY <1>1, <2>1, Basics, Zenon DEF QueueInv
<1>10. ChildrenInv'
  <2> SUFFICES ASSUME NEW q \in Live'
               PROVE  /\ Distinct(children'[q])
                      /\ \A u \in Threads : Holds(children'[q], u) <=>
                            u \in task_cache' /\ parent'[u] = q
    BY DEF ChildrenInv
  <2>1. q \in Live /\ q \in Threads
    BY <1>1, Basics DEF Live
  <2>2. /\ Distinct(children[q])
        /\ \A u \in Threads : Holds(children[q], u) <=> u \in task_cache /\ parent[u] = q
    BY <2>1 DEF IInv, ChildrenInv
  <2>3. CASE q = p
    <3>1. \A u \in Threads : Holds(children'[q], u) <=> Holds(children[q], u) /\ u # c
      BY <1>5, <1>6, <2>3, Zenon
    <3> QED  BY <1>1, <1>5, <1>6, <2>2, <2>3, <3>1
  <2>4. CASE q # p
    <3>1. parent[c] # q
      BY <2>4 DEF p
    <3> QED  BY <1>1, <1>6, <2>1, <2>2, <2>4, <3>1
  <2> QED  BY <2>3, <2>4
<1>11. ParentInv'
  <2> SUFFICES ASSUME NEW u \in task_cache' PROVE parent'[u] \in Live' /\ s'.state[parent'[u]] # "ZOMBIE"
    BY DEF ParentInv
  <2>1. parent[u] \in Live /\ s.state[parent[u]] # "ZOMBIE" /\ parent[u] # c
    BY <1>1 DEF IInv, ParentInv
  <2> QED  BY <1>1, <2>1 DEF Live
<1>12. PidInv'
  <2>1. /\ \A u, v \in task_cache : pid[u] = pid[v] => u = v
        /\ \A u \in task_cache : pid[u] \in Pids
        /\ pid_bitmap = {0} \cup {pid[u] : u \in task_cache}
    BY DEF IInv, PidInv
  <2>2. pid[c] # 0
    BY <2>1 DEF Pids
  <2>3. pid_bitmap' = {0} \cup {pid[u] : u \in task_cache'}
    BY <1>1, <1>7, <2>1, <2>2
  <2> QED  BY <1>1, <2>1, <2>3 DEF PidInv
<1>13. TableInv'
  <2>1. \A e \in Entries : task_table'[e] = IF task_table[e] = c THEN NULL ELSE task_table[e]
    BY <1>1
  <2>2. \A e, f \in Entries : task_table[e] # NULL =>
           task_table[e] \in Live /\ (task_table[e] = task_table[f] => e = f)
    BY DEF IInv, TableInv
  <2>3. \A u \in Live : u # c => u \in Live'
    BY <1>1 DEF Live
  <2> QED  BY <2>1, <2>2, <2>3 DEF TableInv
<1>14. SleepInv'
  <2> SUFFICES ASSUME NEW q \in task_cache', s'.state[q] \in Asleep PROVE Sleeper(q)'
    BY DEF SleepInv
  <2>1. q \in task_cache /\ q # p /\ q \in Threads /\ Sleeper(q)
    BY <1>1, <1>2, Basics, Zenon DEF IInv, SleepInv, Asleep
  <2>2. waiting'[q] = waiting[q]
    BY <1>4, <2>1 DEF p
  <2>3. parent[c] # q
    BY <2>1 DEF p
  <2>4. \A u : Expects(q, u)' <=> Expects(q, u)
    BY <1>1, <2>2, <2>3 DEF Expects, Matches, pgrp
  <2>5. InTable(q)' => InTable(q)
    <3>1. \A e \in Entries : task_table'[e] = NULL \/ task_table'[e] = task_table[e]
      BY <1>1
    <3>2. q # NULL
      BY <2>1, RunQueueAssumption, ProcessAssumption
    <3> QED  BY <3>1, <3>2 DEF InTable
  <2> QED  BY <1>1, <2>1, <2>2, <2>4, <2>5, Zenon DEF Sleeper
<1>15. Life!Release(c)
  <2> DEFINE st == [t \in Tasks |-> IF t \notin task_cache THEN "free"
                                    ELSE IF s.state[t] = "ZOMBIE" THEN "zombie" ELSE "live"]
             pa == [t \in Tasks |-> IF t \notin task_cache THEN idle ELSE parent[t]]
  <2>1. st[c] = "zombie" /\ pa[c] = p /\ st[p] = "live"
    BY <1>2, <1>3 DEF p
  <2>2. st' = [st EXCEPT ![c] = "free"]
    BY <1>1, <1>3, Zenon
  <2>3. pa' = [pa EXCEPT ![c] = 0]
    BY <1>1, <1>3, Zenon DEF idle
  <2> QED  BY <2>1, <2>2, <2>3 DEF Life!Release
<1> QED  BY <1>8, <1>9, <1>10, <1>11, <1>12, <1>13, <1>14, <1>15, Zenon DEF IInv

(* do_wait goes to sleep: no child that matches has exited.                *)
LEMMA BlockKeeps ==
    ASSUME IInv, s.curr # idle, NEW arg \in WaitArgs,
           zombies(s.curr, arg) = {}, matching(s.curr, arg) # {},
           waiting' = [waiting EXCEPT ![s.curr] = arg],
           s' = block(s, "INTERRUPTIBLE", s.curr), UNCHANGED <<tree, killed, pids>>
    PROVE  IInv' /\ UNCHANGED Life!lifeVars
<1>0. PICK p \in Threads : p = s.curr
  BY Basics
<1>1. task_cache \cup Dead \in SUBSET Tasks /\ RInv(s, task_cache \cup Dead)
  BY Basics
<1>2. p \in task_cache /\ s.state[p] = "RUNNING" /\ p \in Threads /\ p \in Tasks
  BY <1>0, CurrIsLive, Basics
<1>3. /\ RInv(s', task_cache \cup Dead)
      /\ s'.state = [s.state EXCEPT ![p] = "INTERRUPTIBLE"]
      /\ s'.chan = [s.chan EXCEPT ![p] = p]
  <2>1. "INTERRUPTIBLE" \in TaskStates \ {"RUNNING"} /\ p \in Chans \cup {NULL}
    BY <1>2, ProcessAssumption DEF TaskStates, Asleep
  <2>2. s' = block(s, "INTERRUPTIBLE", p) /\ s.curr # idle /\ p = s.curr
    BY <1>0
  <2>3. /\ RInv(block(s, "INTERRUPTIBLE", p), task_cache \cup Dead)
        /\ block(s, "INTERRUPTIBLE", p).state = [s.state EXCEPT ![s.curr] = "INTERRUPTIBLE"]
        /\ block(s, "INTERRUPTIBLE", p).chan = [s.chan EXCEPT ![s.curr] = p]
    BY <1>1, <2>1, <2>2, BlockStep, SMTT(60)
  <2> QED  BY <2>2, <2>3, Zenon
<1>4. waiting \in [Threads -> WaitArgs \cup {NULL}] /\ killed' \in [Threads -> BOOLEAN]
  BY DEF IInv, TypeOK
<1>5. waiting' \in [Threads -> WaitArgs \cup {NULL}] /\ waiting'[p] = arg
      /\ \A q \in Threads \ {p} : waiting'[q] = waiting[q]
  BY <1>0, <1>2, <1>4
<1>6. /\ s'.state[p] = "INTERRUPTIBLE" /\ s'.chan[p] = p
      /\ \A q \in Threads \ {p} : s'.state[q] = s.state[q] /\ s'.chan[q] = s.chan[q]
  BY <1>2, <1>3, Basics, Zenon
<1>7. /\ task_cache' = task_cache /\ task_table' = task_table /\ pid' = pid
      /\ parent' = parent
  BY DEF tree
<1>8. /\ \E c \in task_cache : parent[c] = p /\ Matches(p, c, arg)
      /\ \A c \in task_cache : parent[c] = p /\ Matches(p, c, arg) => s.state[c] # "ZOMBIE"
  <2>1. WellOrdered /\ TypeOK /\ ChildrenInv /\ p \in Live
    BY <1>2, Ordered DEF IInv, Live
  <2> QED  BY <1>0, <2>1, MatchingChildren, ZenonT(60)
<1>9. Sleeper(p)'
  <2>1. \A c : Expects(p, c)' <=> c \in task_cache /\ parent[c] = p /\ Matches(p, c, arg)
    BY <1>5, <1>7 DEF Expects, Matches, pgrp
  <2>2. \A c \in task_cache : s.state[c] # "ZOMBIE" => s'.state[c] # "ZOMBIE"
    BY <1>6, Basics, Zenon
  <2>3. \E c \in Tasks : Expects(p, c)'
    BY <1>8, <2>1, Basics, Zenon
  <2>4. \A c \in Tasks : Expects(p, c)' => s'.state[c] # "ZOMBIE"
    BY <1>8, <2>1, <2>2, Zenon
  <2> QED  BY <1>5, <1>6, <2>3, <2>4, Zenon DEF Sleeper
<1>10. \A t \in Tasks : s'.state[t] = "ZOMBIE" <=> s.state[t] = "ZOMBIE"
  BY <1>2, <1>6, Basics, Zenon
<1>11. \A q \in task_cache : s'.state[q] \in Asleep =>
          \/ s.state[q] \in Asleep /\ waiting'[q] = waiting[q] /\ s'.chan[q] = s.chan[q]
          \/ Sleeper(q)'
  <2> TAKE q \in task_cache
  <2>1. CASE q = p
    BY <1>9, <2>1
  <2>2. CASE q # p
    BY <1>5, <1>6, <2>2, Basics, Zenon
  <2> QED  BY <2>1, <2>2
<1>12. UNCHANGED <<tree, pids>>
  OBVIOUS
<1> QED  BY <1>3, <1>4, <1>5, <1>10, <1>11, <1>12, SchedulingStep, Zenon

(* do_wait returns with nothing collected.                                 *)
LEMMA ReturnKeeps ==
    ASSUME IInv, s.curr # idle, waiting' = [waiting EXCEPT ![s.curr] = NULL],
           UNCHANGED <<s, tree, killed, pids>>
    PROVE  IInv' /\ UNCHANGED Life!lifeVars
<1>1. s.curr \in Threads /\ s.state[s.curr] = "RUNNING" /\ RInv(s, task_cache \cup Dead)
  BY CurrIsLive, Basics, Zenon
<1>2. waiting \in [Threads -> WaitArgs \cup {NULL}] /\ killed' \in [Threads -> BOOLEAN]
  BY DEF IInv, TypeOK
<1>3. /\ waiting' \in [Threads -> WaitArgs \cup {NULL}]
      /\ \A q \in Threads \ {s.curr} : waiting'[q] = waiting[q]
  BY <1>1, <1>2
<1>4. \A q \in task_cache : s'.state[q] \in Asleep =>
         s.state[q] \in Asleep /\ waiting'[q] = waiting[q] /\ s'.chan[q] = s.chan[q]
  BY <1>1, <1>3, Basics DEF Asleep
<1> QED  BY <1>1, <1>2, <1>3, <1>4, SchedulingStep

LEMMA DoWaitKeeps ==
    ASSUME IInv, s.curr # idle, NEW arg \in WaitArgs, NEW options, do_wait(arg, options)
    PROVE  IInv' /\ [Life!LifeNext]_(Life!lifeVars)
<1>1. CASE zombies(s.curr, arg) # {}
  <2>0. PICK c : c = first_zombie(s.curr, arg)
    OBVIOUS
  <2>1. release_task(c) /\ waiting' = [waiting EXCEPT ![s.curr] = NULL]
    BY <1>1, <2>0 DEF do_wait
  <2>2. WellOrdered /\ TypeOK /\ ChildrenInv /\ s.curr \in Live
    BY CurrIsLive, Ordered DEF IInv, Live
  <2>3. c \in task_cache /\ parent[c] = s.curr /\ s.state[c] = "ZOMBIE"
    BY <1>1, <2>0, <2>2, MatchingChildren, ZenonT(60)
  <2>4. IInv' /\ Life!Release(c) /\ c \in Tasks
    BY <2>1, <2>3, ReleaseKeeps, Basics, Zenon
  <2> QED  BY <2>4 DEF Life!LifeNext
<1>2. CASE zombies(s.curr, arg) = {} /\ (matching(s.curr, arg) = {} \/ options = "WNOHANG")
  BY <1>2, ReturnKeeps, Zenon DEF do_wait
<1>3. CASE zombies(s.curr, arg) = {} /\ ~(matching(s.curr, arg) = {} \/ options = "WNOHANG")
  BY <1>3, BlockKeeps, Zenon DEF do_wait
<1> QED  BY <1>1, <1>2, <1>3
-----------------------------------------------------------------------------
(* wakeup: exactly the sleepers on chan that have an entry in task_table   *)
(* become runnable.                                                        *)

Woken(r, chan, n, u) ==
    /\ r.state[u] \in Asleep /\ r.chan[u] = chan
    /\ \E e \in 0 .. n - 1 : task_table[e] = u

(* The queue state r2 that the loop reaches from r after n entries.        *)
After(r, chan, n, r2) ==
    /\ QInv(r2) /\ r2.curr = r.curr /\ (Exact(r) => Exact(r2))
    /\ \A u \in Threads :
          /\ Woken(r, chan, n, u) =>
                r2.state[u] = "RUNNING" /\ r2.on_rq[u]
          /\ ~Woken(r, chan, n, u) =>
                /\ r2.state[u] = r.state[u] /\ r2.chan[u] = r.chan[u]
                /\ r2.on_rq[u] <=> r.on_rq[u]

LEMMA WakeupOne ==
    ASSUME NEW r, QInv(r), NEW t \in Threads, NEW chan,
           r.state[t] \in Asleep => t \in Tasks /\ ~r.on_rq[t]
    PROVE  LET r2 == wakeup_one(r, t, chan) IN
           /\ QInv(r2) /\ r2.curr = r.curr
           /\ \A u \in Threads \ {t} :
                 /\ r2.state[u] = r.state[u] /\ r2.chan[u] = r.chan[u]
                 /\ r2.on_rq[u] <=> r.on_rq[u]
           /\ r.state[t] \in Asleep /\ r.chan[t] = chan =>
                 r2.state[t] = "RUNNING" /\ r2.on_rq[t]
           /\ ~(r.state[t] \in Asleep /\ r.chan[t] = chan) => r2 = r
<1> DEFINE m == [r EXCEPT !.chan[t] = NULL]
           r2 == wakeup_one(r, t, chan)
<1>1. CASE ~(r.state[t] \in Asleep /\ r.chan[t] = chan)
  <2>1. wakeup_one(r, t, chan) = r
    BY <1>1, Zenon DEF wakeup_one
  <2> QED  BY <1>1, <2>1
<1>2. CASE r.state[t] \in Asleep /\ r.chan[t] = chan
  <2>1. r2 = wake_up_process(m, t)
    BY <1>2 DEF wakeup_one
  <2>2. r \in RunQueueType
    BY DEF QInv
  <2>3. /\ m \in RunQueueType /\ m.queue = r.queue /\ m.bitmap = r.bitmap
        /\ m.nr_running = r.nr_running /\ m.on_rq = r.on_rq /\ m.prio = r.prio
        /\ m.curr = r.curr /\ m.state = r.state /\ m.chan = [r.chan EXCEPT ![t] = NULL]
    BY <2>2, ZenonT(60) DEF RunQueueType
  <2> HIDE DEF m
  <2>4. QInv(m) /\ m.state[t] \in Asleep /\ ~m.on_rq[t] /\ t \in Tasks
    BY <1>2, <2>3, Frame
  <2>5. /\ QInv(r2) /\ r2.curr = m.curr /\ r2.chan = m.chan
        /\ \A u \in Threads : r2.on_rq[u] <=> u = t \/ m.on_rq[u]
        /\ r2.state = [m.state EXCEPT ![t] = "RUNNING"]
    BY <2>1, <2>4, WakeUp
  <2> HIDE DEF r2
  <2>6. r.state \in [Threads -> TaskStates] /\ r.chan \in [Threads -> Chans \cup {NULL}]
    BY <2>2 DEF RunQueueType
  <2>7. \A u \in Threads : /\ r2.state[u] = IF u = t THEN "RUNNING" ELSE r.state[u]
                           /\ r2.chan[u] = IF u = t THEN NULL ELSE r.chan[u]
                           /\ r2.on_rq[u] <=> u = t \/ r.on_rq[u]
    BY <2>3, <2>5, <2>6, SMTT(60)
  <2>8. \A u \in Threads \ {t} :
           /\ r2.state[u] = r.state[u] /\ r2.chan[u] = r.chan[u]
           /\ r2.on_rq[u] <=> r.on_rq[u]
    BY <2>7, Zenon
  <2> QED  BY <1>2, <2>3, <2>5, <2>7, <2>8, Zenon DEF r2
<1> QED  BY <1>1, <1>2, Zenon

LEMMA AfterStep ==
    ASSUME NEW r, QInv(r), task_table \in [Entries -> Threads \cup {NULL}], NEW chan,
           \A t \in Threads : r.state[t] \in Asleep => t \in Tasks /\ ~r.on_rq[t],
           NEW n \in 1 .. MAX_PROCS, NEW r1, After(r, chan, n - 1, r1)
    PROVE  After(r, chan, n, IF task_table[n - 1] = NULL THEN r1
                             ELSE wakeup_one(r1, task_table[n - 1], chan))
<1> DEFINE t == task_table[n - 1]
<1>1. n - 1 \in Entries /\ t \in Threads \cup {NULL}
  BY ProcessAssumption DEF Entries
<1>2. NULL \notin Threads
  BY RunQueueAssumption, ProcessAssumption
<1>3. \A e : e \in 0 .. n - 1 <=> e \in 0 .. n - 1 - 1 \/ e = n - 1
  BY ProcessAssumption
<1>4. \A u \in Threads : Woken(r, chan, n, u) <=>
         \/ Woken(r, chan, n - 1, u)
         \/ u = t /\ r.state[u] \in Asleep /\ r.chan[u] = chan
  BY <1>3 DEF Woken
<1> HIDE DEF t
<1>5. CASE t = NULL
  <2>1. \A u \in Threads : Woken(r, chan, n, u) <=> Woken(r, chan, n - 1, u)
    BY <1>2, <1>4, <1>5, Zenon
  <2>2. After(r, chan, n, r1)
    BY <2>1, Zenon DEF After
  <2> QED  BY <1>5, <2>2 DEF t
<1>6. CASE t # NULL
  <2> DEFINE r2 == wakeup_one(r1, t, chan)
  <2>1. t \in Threads /\ QInv(r1) /\ r1.curr = r.curr
    BY <1>1, <1>6 DEF After
  <2>2. /\ Woken(r, chan, n - 1, t) => r1.state[t] = "RUNNING" /\ r1.on_rq[t]
        /\ ~Woken(r, chan, n - 1, t) =>
              /\ r1.state[t] = r.state[t] /\ r1.chan[t] = r.chan[t]
              /\ r1.on_rq[t] <=> r.on_rq[t]
    BY <2>1, Zenon DEF After
  <2>3. r1.state[t] \in Asleep => t \in Tasks /\ ~r1.on_rq[t]
    BY <2>1, <2>2, Zenon DEF Asleep
  <2>4. /\ QInv(r2) /\ r2.curr = r1.curr
        /\ \A u \in Threads \ {t} :
              /\ r2.state[u] = r1.state[u] /\ r2.chan[u] = r1.chan[u]
              /\ r2.on_rq[u] <=> r1.on_rq[u]
        /\ r1.state[t] \in Asleep /\ r1.chan[t] = chan =>
              r2.state[t] = "RUNNING" /\ r2.on_rq[t]
        /\ ~(r1.state[t] \in Asleep /\ r1.chan[t] = chan) => r2 = r1
    BY <2>1, <2>3, WakeupOne, SMTT(60)
  <2>8. Exact(r) => Exact(r2)
    <3>1. Exact(r) => Exact(r1)
      BY Zenon DEF After
    <3> QED  BY <2>1, <2>3, <3>1, ExactWakeOne, Zenon
  <2> HIDE DEF r2
  <2>5. ASSUME NEW u \in Threads, u # t
        PROVE  /\ Woken(r, chan, n, u) => r2.state[u] = "RUNNING" /\ r2.on_rq[u]
               /\ ~Woken(r, chan, n, u) =>
                     /\ r2.state[u] = r.state[u] /\ r2.chan[u] = r.chan[u]
                     /\ r2.on_rq[u] <=> r.on_rq[u]
    <3>1. Woken(r, chan, n, u) <=> Woken(r, chan, n - 1, u)
      BY <1>4, <2>5, Zenon
    <3>2. /\ r2.state[u] = r1.state[u] /\ r2.chan[u] = r1.chan[u]
          /\ r2.on_rq[u] <=> r1.on_rq[u]
      BY <2>4, <2>5, Zenon
    <3>3. /\ Woken(r, chan, n - 1, u) => r1.state[u] = "RUNNING" /\ r1.on_rq[u]
          /\ ~Woken(r, chan, n - 1, u) =>
                /\ r1.state[u] = r.state[u] /\ r1.chan[u] = r.chan[u]
                /\ r1.on_rq[u] <=> r.on_rq[u]
      BY Zenon DEF After
    <3> QED  BY <3>1, <3>2, <3>3, Zenon
  <2>6. /\ Woken(r, chan, n, t) => r2.state[t] = "RUNNING" /\ r2.on_rq[t]
        /\ ~Woken(r, chan, n, t) =>
              /\ r2.state[t] = r.state[t] /\ r2.chan[t] = r.chan[t]
              /\ r2.on_rq[t] <=> r.on_rq[t]
    <3>1. CASE Woken(r, chan, n - 1, t)
      <4>1. r2 = r1 /\ Woken(r, chan, n, t)
        BY <1>4, <2>1, <2>2, <2>4, <3>1, Zenon DEF Asleep
      <4> QED  BY <2>2, <3>1, <4>1, Zenon
    <3>2. CASE ~Woken(r, chan, n - 1, t)
      <4>1. Woken(r, chan, n, t) <=> r1.state[t] \in Asleep /\ r1.chan[t] = chan
        BY <1>4, <2>1, <2>2, <3>2, Zenon
      <4> QED  BY <2>2, <2>4, <3>2, <4>1, Zenon
    <3> QED  BY <3>1, <3>2, Zenon
  <2>7. After(r, chan, n, r2)
    BY <2>1, <2>4, <2>5, <2>6, <2>8, ZenonT(60) DEF After
  <2> QED  BY <1>6, <2>7 DEF t, r2
<1> QED  BY <1>5, <1>6, Zenon

LEMMA WakeupWakes ==
    ASSUME NEW r, QInv(r), task_table \in [Entries -> Threads \cup {NULL}], NEW chan,
           \A t \in Threads : r.state[t] \in Asleep => t \in Tasks /\ ~r.on_rq[t]
    PROVE  After(r, chan, MAX_PROCS, wakeup(r, chan))
<1> DEFINE N == MAX_PROCS
           step(e, x) == IF task_table[e - 1] = NULL THEN x
                         ELSE wakeup_one(x, task_table[e - 1], chan)
           Loop(f, k) == f = [e \in 0 .. k |-> IF e = 0 THEN r ELSE step(e, f[e - 1])]
           body(f) == [e \in 0 .. N |-> IF e = 0 THEN r
                          ELSE IF task_table[e - 1] = NULL THEN f[e - 1]
                          ELSE wakeup_one(f[e - 1], task_table[e - 1], chan)]
<1>0. N \in Nat \ {0} /\ WellOrdered
  BY ProcessAssumption, Zenon DEF QInv, Arithmetic
<1>1. \A k \in 0 .. N : \E f : Loop(f, k)
  <2> SUFFICES ASSUME \E k \in 0 .. N : ~\E f : Loop(f, k) PROVE FALSE
    OBVIOUS
  <2> DEFINE S == {k \in 0 .. N : ~\E f : Loop(f, k)}
  <2>1. S \in SUBSET Nat /\ S # {}
    BY SMTT(60)
  <2>2. PICK k \in S : \A j \in S : k <= j
    BY <1>0, <2>1, Least, Zenon
  <2>3. k \in 0 .. N /\ ~\E f : Loop(f, k)
    BY Zenon
  <2>4. CASE k = 0
    <3>1. Loop([e \in 0 .. 0 |-> r], 0)
      BY SMTT(60)
    <3> QED  BY <2>3, <2>4, <3>1, Zenon
  <2>5. CASE k # 0
    <3>1. k - 1 \in 0 .. N /\ k - 1 \notin S
      BY <1>0, <2>2, <2>3, <2>5, SMTT(60)
    <3>2. PICK f : Loop(f, k - 1)
      BY <3>1, Zenon
    <3> DEFINE g == [e \in 0 .. k |-> IF e = k THEN step(k, f[k - 1]) ELSE f[e]]
    <3>3. \A e \in 0 .. k - 1 : f[e] = IF e = 0 THEN r ELSE step(e, f[e - 1])
      BY <3>2, Zenon
    <3> HIDE DEF step
    <3>4. ASSUME NEW e \in 0 .. k PROVE g[e] = IF e = 0 THEN r ELSE step(e, g[e - 1])
      <4>1. CASE e = k
        BY <2>3, <2>5, <4>1, SMTT(60)
      <4>2. CASE e # k
        BY <2>3, <2>5, <3>3, <4>2, SMTT(60)
      <4> QED  BY <4>1, <4>2, Zenon
    <3>5. Loop(g, k)
      BY <3>4, Zenon
    <3> QED  BY <2>3, <3>5, Zenon
  <2> QED  BY <2>4, <2>5
<1>7. N \in 0 .. N
  BY <1>0
<1>2. PICK f : Loop(f, N)
  BY <1>1, <1>7, Zenon
<1> DEFINE h == CHOOSE x : x = body(x)
<1>3. h = body(h)
  <2>1. f = body(f)
    BY <1>2, Zenon
  <2> QED  BY <2>1, Zenon
<1>4. wakeup(r, chan) = h[N]
  BY DEF wakeup
<1> HIDE DEF h
<1>5. h[0] = r /\ \A n \in 1 .. N : h[n] = step(n, h[n - 1])
  <2>1. h[0] = body(h)[0] /\ \A n \in 1 .. N : h[n] = body(h)[n]
    BY <1>3, Zenon
  <2>2. \A n \in 1 .. N : n \in 0 .. N /\ n # 0
    BY <1>0
  <2>3. 0 \in 0 .. N
    BY <1>0
  <2> QED  BY <2>1, <2>2, <2>3, Zenon
<1> HIDE DEF N
<1>6. \A n \in 0 .. N : After(r, chan, n, h[n])
  <2> SUFFICES ASSUME \E n \in 0 .. N : ~After(r, chan, n, h[n]) PROVE FALSE
    OBVIOUS
  <2> DEFINE S == {n \in 0 .. N : ~After(r, chan, n, h[n])}
  <2>1. S \in SUBSET Nat /\ S # {}
    OBVIOUS
  <2>2. PICK n \in S : \A j \in S : n <= j
    BY <1>0, <2>1, Least, Zenon
  <2>3. n \in 0 .. N /\ ~After(r, chan, n, h[n])
    BY Zenon
  <2>4. CASE n = 0
    <3>1. \A u \in Threads : ~Woken(r, chan, 0, u)
      BY SMTT(60) DEF Woken
    <3>2. After(r, chan, 0, r)
      BY <3>1, Zenon DEF After
    <3> QED  BY <1>5, <2>3, <2>4, <3>2, Zenon
  <2>5. CASE n # 0
    <3>1. n - 1 \in 0 .. N /\ n - 1 \notin S /\ n \in 1 .. N
      BY <1>0, <2>2, <2>3, <2>5, SMTT(60)
    <3>2. After(r, chan, n - 1, h[n - 1])
      BY <3>1, Zenon
    <3>3. After(r, chan, n, step(n, h[n - 1]))
      BY <3>1, <3>2, AfterStep, Zenon DEF N
    <3> QED  BY <1>5, <2>3, <3>1, <3>3, Zenon
  <2> QED  BY <2>4, <2>5
<1> QED  BY <1>0, <1>4, <1>6, SMTT(60) DEF N
-----------------------------------------------------------------------------
(* do_exit.                                                                *)

(* The run queue after do_exit: curr is a zombie, its parent is runnable   *)
(* if it slept and has an entry in task_table, no other state changes.     *)
LEMMA ExitQueue ==
    ASSUME IInv, s.curr # idle, NEW par,
           s' = schedule(wakeup([s EXCEPT !.state[s.curr] = "ZOMBIE"], par))
    PROVE  /\ RInv(s', task_cache \cup Dead)
           /\ \A u \in Threads : s'.state[u] = "ZOMBIE" <=> s.state[u] = "ZOMBIE" \/ u = s.curr
           /\ \A u \in Threads : s'.state[u] \in Asleep =>
                 /\ s.state[u] \in Asleep /\ u # s.curr /\ s'.chan[u] = s.chan[u]
                 /\ ~(s.chan[u] = par /\ InTable(u))
           /\ Exact(s) => Exact(s') /\ Rests(s')
<1> DEFINE C == task_cache \cup Dead
           z == [s EXCEPT !.state[s.curr] = "ZOMBIE"]
           w == wakeup(z, par)
<1>0. PICK p \in Threads : p = s.curr
  BY Basics
<1>1. C \in SUBSET Tasks /\ RInv(s, C) /\ s \in RunQueueType /\ Tasks \subseteq Threads
  BY Basics
<1>2. p \in task_cache /\ s.state[p] = "RUNNING" /\ p \in Tasks /\ p \in C
  BY <1>0, CurrIsLive, Basics
<1>3. /\ z \in RunQueueType /\ z.queue = s.queue /\ z.bitmap = s.bitmap
      /\ z.nr_running = s.nr_running /\ z.on_rq = s.on_rq /\ z.prio = s.prio
      /\ z.curr = s.curr /\ z.state = [s.state EXCEPT ![p] = "ZOMBIE"] /\ z.chan = s.chan
      /\ z.active = s.active /\ z.nr_active = s.nr_active
  BY <1>0, <1>1, ZenonT(60) DEF RunQueueType, TaskStates
<1>4. s' = schedule(w)
  OBVIOUS
<1> HIDE DEF z
<1>5. QInv(z)
  BY <1>1, <1>3, Frame DEF RInv
<1>6. \A u \in Threads : z.state[u] = IF u = p THEN "ZOMBIE" ELSE s.state[u]
  BY <1>3, Basics
<1>7. \A t \in Threads : z.state[t] \in Asleep => t \in Tasks /\ ~z.on_rq[t]
  <2> SUFFICES ASSUME NEW t \in Threads, z.state[t] \in Asleep
               PROVE  t \in Tasks /\ ~z.on_rq[t]
    OBVIOUS
  <2>1. s.state[t] \in Asleep /\ t # idle
    BY <1>6, Basics DEF Asleep
  <2>2. t \in Tasks
    BY <2>1 DEF Threads
  <2>3. ~s.on_rq[t]
    BY <2>1, <2>2, NotQueued DEF Asleep
  <2> QED  BY <1>3, <2>2, <2>3
<1>8. task_table \in [Entries -> Threads \cup {NULL}]
  BY DEF IInv, TypeOK
<1>9. After(z, par, MAX_PROCS, w)
  BY <1>5, <1>7, <1>8, WakeupWakes
<1> HIDE DEF w
<1>10. \A u \in Threads : Woken(z, par, MAX_PROCS, u) <=>
          u # p /\ s.state[u] \in Asleep /\ s.chan[u] = par /\ InTable(u)
  <2>1. \A u \in Threads : z.state[u] \in Asleep <=> u # p /\ s.state[u] \in Asleep
    BY <1>6 DEF Asleep
  <2> QED  BY <1>3, <2>1, Zenon DEF Woken, InTable, Entries
<1>11. /\ QInv(w) /\ w.curr = p /\ (Exact(z) => Exact(w))
       /\ \A u \in Threads : Woken(z, par, MAX_PROCS, u) =>
             w.state[u] = "RUNNING" /\ w.on_rq[u]
       /\ \A u \in Threads : ~Woken(z, par, MAX_PROCS, u) =>
             /\ w.state[u] = z.state[u] /\ w.chan[u] = s.chan[u]
             /\ w.on_rq[u] <=> s.on_rq[u]
  BY <1>0, <1>3, <1>9, ZenonT(60) DEF After
<1>12. w.state[idle] = "RUNNING" /\ w.state[p] = "ZOMBIE"
  <2>1. ~Woken(z, par, MAX_PROCS, idle) /\ ~Woken(z, par, MAX_PROCS, p)
    BY <1>10, Basics DEF Asleep
  <2>2. idle # p
    BY <1>0
  <2> QED  BY <1>6, <1>11, <2>1, <2>2, Basics
<1>13. \A t \in Tasks \ C : ~w.on_rq[t] /\ w.state[t] = "RUNNING"
  <2> TAKE t \in Tasks \ C
  <2>1. s.state[t] = "RUNNING" /\ ~s.on_rq[t] /\ t \in Threads /\ t # p
    BY <1>1, <1>2 DEF RInv
  <2>2. ~Woken(z, par, MAX_PROCS, t)
    BY <1>10, <2>1 DEF Asleep
  <2> QED  BY <1>6, <1>11, <2>1, <2>2
<1>14. \A t \in C \ {w.curr} : w.state[t] = "RUNNING" <=> w.on_rq[t]
  <2> TAKE t \in C \ {w.curr}
  <2>1. (s.state[t] = "RUNNING" <=> s.on_rq[t]) /\ t \in Threads /\ t # p
    BY <1>1, <1>11 DEF RInv
  <2> QED  BY <1>6, <1>11, <2>1, Zenon
<1> HIDE DEF C
<1>15. RInv(s', C) /\ s'.state = w.state
  <2>1. w.curr \in C /\ w.state[w.curr] # "RUNNING" /\ QInv(w) /\ w.state[idle] = "RUNNING"
    BY <1>2, <1>11, <1>12
  <2>2. RInv(schedule(w), C) /\ schedule(w).state = w.state
    <3>1. /\ w.curr \in C /\ w.state[w.curr] = "RUNNING" => w.on_rq[w.curr]
          /\ w.curr = idle \/ w.curr \in C
      BY <2>1, Zenon
    <3> QED  BY <1>1, <1>13, <1>14, <2>1, <3>1, ScheduleStep
  <2> QED  BY <1>4, <2>2, Zenon
<1>16. s'.chan = w.chan
  BY <1>4, <1>11, <1>12, Schedule, Zenon
<1>17. \A u \in Threads : s'.state[u] = "ZOMBIE" <=> s.state[u] = "ZOMBIE" \/ u = p
  <2> TAKE u \in Threads
  <2>1. CASE Woken(z, par, MAX_PROCS, u)
    BY <1>10, <1>11, <1>15, <2>1 DEF Asleep
  <2>2. CASE ~Woken(z, par, MAX_PROCS, u)
    BY <1>6, <1>11, <1>15, <2>2
  <2> QED  BY <2>1, <2>2
<1>18. \A u \in Threads : s'.state[u] \in Asleep =>
          /\ s.state[u] \in Asleep /\ u # p /\ s'.chan[u] = s.chan[u]
          /\ ~(s.chan[u] = par /\ InTable(u))
  <2> TAKE u \in Threads
  <2>1. CASE Woken(z, par, MAX_PROCS, u)
    BY <1>11, <1>15, <2>1 DEF Asleep
  <2>2. CASE ~Woken(z, par, MAX_PROCS, u)
    BY <1>6, <1>10, <1>11, <1>15, <1>16, <2>2 DEF Asleep
  <2> QED  BY <2>1, <2>2
<1>19. Exact(s) => Exact(s') /\ Rests(s')
  <2>1. Exact(s) => Exact(z)
    BY <1>3, ExactSame
  <2> QED  BY <1>4, <1>11, <1>12, <2>1, ExactSchedule
<1> QED  BY <1>0, <1>15, <1>17, <1>18, <1>19, Zenon DEF C

LEMMA ExitKeeps ==
    ASSUME IInv, Exit
    PROVE  IInv' /\ \E p \in Tasks : Life!Finish(p)
<1>0. PICK p \in Threads : p = s.curr
  BY Basics
<1>1. /\ p # idle /\ exit_notify(p)
      /\ s' = schedule(wakeup([s EXCEPT !.state[s.curr] = "ZOMBIE"], parent[p]))
      /\ task_cache' = task_cache /\ task_table' = task_table /\ pid' = pid
      /\ killed' = killed /\ waiting' = waiting
      /\ pid_bitmap' = pid_bitmap /\ last_pid' = last_pid
  BY <1>0 DEF Exit, Runs, pids
<1>2. p \in task_cache /\ s.state[p] = "RUNNING" /\ p \in Tasks
  BY <1>0, <1>1, CurrIsLive, Basics
<1>3. PICK par : par = parent[p]
  OBVIOUS
<1>4. /\ RInv(s', task_cache \cup Dead)
      /\ \A u \in Threads : s'.state[u] = "ZOMBIE" <=> s.state[u] = "ZOMBIE" \/ u = p
      /\ \A u \in Threads : s'.state[u] \in Asleep =>
            /\ s.state[u] \in Asleep /\ u # p /\ s'.chan[u] = s.chan[u]
            /\ ~(s.chan[u] = par /\ InTable(u))
  <2>1. s.curr # idle /\ s' = schedule(wakeup([s EXCEPT !.state[s.curr] = "ZOMBIE"], par))
    BY <1>0, <1>1, <1>3, Zenon
  <2> QED  BY <1>0, <2>1, ExitQueue, Zenon
<1>5. /\ children \in [Threads -> Seq(Tasks)] /\ parent \in [Threads -> Threads]
      /\ idle \in Threads /\ Tasks \subseteq Threads /\ task_cache \subseteq Tasks
  BY Basics, Zenon DEF IInv, TypeOK
<1>6. \A q \in Live : Distinct(children[q]) /\
         \A c \in Threads : Holds(children[q], c) <=> c \in task_cache /\ parent[c] = q
  BY Zenon DEF IInv, ChildrenInv
<1>7. p \in Live /\ idle \in Live
  BY <1>2, Zenon DEF Live
<1>8. \A c \in Threads : parent'[c] = IF c \in task_cache /\ parent[c] = p THEN idle ELSE parent[c]
  <2>1. \A c \in Threads : parent'[c] = IF Holds(children[p], c) THEN idle ELSE parent[c]
    BY <1>1 DEF exit_notify
  <2> QED  BY <1>6, <1>7, <2>1
<1>9. /\ children[idle] \o children[p] \in Seq(Tasks)
      /\ Distinct(children[idle] \o children[p])
      /\ \A u \in Threads : Holds(children[idle] \o children[p], u) <=>
            Holds(children[idle], u) \/ Holds(children[p], u)
  <2>1. children[idle] \in Seq(Tasks) /\ children[p] \in Seq(Tasks)
    BY <1>5
  <2>2. \A u \in Threads : ~(Holds(children[idle], u) /\ Holds(children[p], u))
    BY <1>1, <1>6, <1>7
  <2> QED  BY <1>6, <1>7, <2>1, <2>2, Concat, Zenon
<1>10. /\ children' \in [Threads -> Seq(Tasks)]
       /\ children'[p] = << >> /\ children'[idle] = children[idle] \o children[p]
       /\ \A q \in Threads \ {p, idle} : children'[q] = children[q]
  <2>1. children' = [children EXCEPT ![p] = << >>, ![idle] = children[idle] \o children[p]]
    BY <1>1, <1>5 DEF exit_notify
  <2>2. << >> \in Seq(Tasks)
    OBVIOUS
  <2> QED  BY <1>1, <1>5, <1>9, <2>1, <2>2, Zenon
<1>11. TypeOK'
  <2>1. parent' \in [Threads -> Threads]
    <3>1. parent' = [c \in Threads |-> IF Holds(children[p], c) THEN idle ELSE parent[c]]
      BY <1>1 DEF exit_notify
    <3> QED  BY <1>5, <3>1
  <2> QED  BY <1>1, <1>4, <1>10, <2>1, Zenon DEF IInv, TypeOK, RInv, QInv
<1>12. QueueInv'
  BY <1>1, <1>4, <1>5, SameCreated, Zenon
<1>13. Live' = Live /\ Live \subseteq Threads
  BY <1>1, <1>5 DEF Live
<1>14. ChildrenInv'
  <2> SUFFICES ASSUME NEW q \in Live
               PROVE  /\ Distinct(children'[q])
                      /\ \A c \in Threads : Holds(children'[q], c) <=>
                            c \in task_cache /\ parent'[c] = q
    BY <1>1, <1>13 DEF ChildrenInv
  <2>1. CASE q = p
    <3>1. Distinct(<< >>) /\ \A c : ~Holds(<< >>, c)
      BY DEF Distinct, Holds
    <3> QED  BY <1>1, <1>8, <1>10, <2>1, <3>1
  <2>2. CASE q = idle
    <3>1. \A c \in Threads : Holds(children'[q], c) <=>
             c \in task_cache /\ (parent[c] = idle \/ parent[c] = p)
      <4>1. \A c \in Threads : Holds(children'[q], c) <=>
               Holds(children[idle], c) \/ Holds(children[p], c)
        BY <1>9, <1>10, <2>2, Zenon
      <4>2. \A c \in Threads :
               /\ Holds(children[idle], c) <=> c \in task_cache /\ parent[c] = idle
               /\ Holds(children[p], c) <=> c \in task_cache /\ parent[c] = p
        BY <1>6, <1>7, Zenon
      <4> QED  BY <4>1, <4>2
    <3> QED  BY <1>8, <1>9, <1>10, <2>2, <3>1, Zenon
  <2>3. CASE q \notin {p, idle}
    <3>1. children'[q] = children[q]
      BY <1>10, <1>13, <2>3
    <3> QED  BY <1>6, <1>8, <2>3, <3>1
  <2> QED  BY <2>1, <2>2, <2>3
<1>15. ParentInv'
  <2> SUFFICES ASSUME NEW t \in task_cache
               PROVE  parent'[t] \in Live /\ s'.state[parent'[t]] # "ZOMBIE"
    BY <1>1, <1>13 DEF ParentInv
  <2>1. parent[t] \in Live /\ s.state[parent[t]] # "ZOMBIE" /\ s.state[idle] # "ZOMBIE"
    BY Basics, Zenon DEF IInv, ParentInv
  <2>2. parent'[t] \in Live /\ parent'[t] # p /\ s.state[parent'[t]] # "ZOMBIE"
    BY <1>1, <1>5, <1>7, <1>8, <2>1, Zenon
  <2> QED  BY <1>4, <1>13, <2>2, Zenon
<1>16. PidInv' /\ TableInv'
  <2>1. PidInv'
    BY <1>1 DEF IInv, PidInv
  <2>2. TableInv'
    BY <1>1, <1>13, Zenon DEF IInv, TableInv
  <2> QED  BY <2>1, <2>2
<1>17. SleepInv'
  <2> SUFFICES ASSUME NEW q \in task_cache, s'.state[q] \in Asleep PROVE Sleeper(q)'
    BY <1>1 DEF SleepInv
  <2>1. /\ q \in Threads /\ q # idle /\ s.state[q] \in Asleep /\ q # p
        /\ s'.chan[q] = s.chan[q] /\ ~(s.chan[q] = par /\ InTable(q))
    BY <1>4, <1>5, Basics, Zenon
  <2>2. Sleeper(q)
    BY <2>1 DEF IInv, SleepInv
  <2>3. \A c \in Tasks : Expects(q, c)' <=> Expects(q, c)
    <3>1. \A c \in Threads : parent'[c] = q <=> parent[c] = q
      <4> TAKE c \in Threads
      <4> QED  BY <1>8, <2>1, Zenon
    <3>2. \A c : Matches(q, c, waiting[q])' <=> Matches(q, c, waiting[q])
      BY <1>1 DEF Matches, pgrp
    <3> QED  BY <1>1, <1>5, <3>1, <3>2 DEF Expects
  <2>4. InTable(q)' <=> InTable(q)
    BY <1>1 DEF InTable
  <2>5. ASSUME InTable(q), NEW c \in Tasks, Expects(q, c) PROVE s'.state[c] # "ZOMBIE"
    <3>1. s.chan[q] = q /\ s.state[c] # "ZOMBIE"
      BY <2>2, <2>5, Zenon DEF Sleeper
    <3>2. c # p
      BY <1>3, <2>1, <2>5, <3>1 DEF Expects
    <3> QED  BY <1>4, <1>5, <3>1, <3>2, Zenon
  <2>6. waiting'[q] \in WaitArgs /\ s'.chan[q] = q /\ \E c \in Tasks : Expects(q, c)'
    BY <1>1, <2>1, <2>2, <2>3, Zenon DEF Sleeper
  <2> QED  BY <2>3, <2>4, <2>5, <2>6, Zenon DEF Sleeper
<1>18. Life!Finish(p)
  <2> DEFINE st == [t \in Tasks |-> IF t \notin task_cache THEN "free"
                                    ELSE IF s.state[t] = "ZOMBIE" THEN "zombie" ELSE "live"]
             pa == [t \in Tasks |-> IF t \notin task_cache THEN idle ELSE parent[t]]
  <2>1. st[p] = "live"
    BY <1>2
  <2>2. st' = [st EXCEPT ![p] = "zombie"]
    <3>1. \A t \in Tasks : s'.state[t] = "ZOMBIE" <=> s.state[t] = "ZOMBIE" \/ t = p
      BY <1>4, <1>5, Zenon
    <3> QED  BY <1>1, <1>2, <3>1, Zenon
  <2>3. pa' = [c \in Tasks |-> IF pa[c] = p THEN 0 ELSE pa[c]]
    <3>1. pa' = [t \in Tasks |-> IF t \notin task_cache THEN idle ELSE parent'[t]]
      BY <1>1
    <3>2. \A t \in Tasks : (IF t \notin task_cache THEN idle ELSE parent'[t]) =
                              IF pa[t] = p THEN 0 ELSE pa[t]
      BY <1>1, <1>5, <1>8 DEF idle
    <3> QED  BY <3>1, <3>2, Zenon
  <2> QED  BY <2>1, <2>2, <2>3, Zenon DEF Life!Finish
<1> QED  BY <1>2, <1>11, <1>12, <1>14, <1>15, <1>16, <1>17, <1>18, Zenon DEF IInv
=============================================================================
