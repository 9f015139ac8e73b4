---------------------------- MODULE KernelLemmas ----------------------------
(***************************************************************************)
(* Lemmas about the scheduler's functions in RunQueue.tla and the PID      *)
(* allocator of PidBitmap.tla, for any number of tasks, any priorities and *)
(* time slices, any PID_MAX and any word size.  SchedProofs, ProcessLemmas *)
(* and ProcessProofs use them.                                             *)
(***************************************************************************)
EXTENDS RunQueue, PidBitmap, Numbers, TLAPS

LEMMA Least ==
    ASSUME WellOrdered, NEW T \in SUBSET Nat, T # {}
    PROVE  \E x \in T : \A y \in T : x <= y
BY Zenon DEF WellOrdered

-----------------------------------------------------------------------------
(* Lists and queues.                                                       *)

LEMMA QueueOfType ==
    ASSUME NEW p \in Int PROVE queue_of(p) \in Prios
BY RunQueueAssumption DEF queue_of, Prios

LEMMA Update ==
    ASSUME NEW A, NEW V, NEW f \in [A -> V], NEW a \in A, NEW v, NEW b \in A
    PROVE  [f EXCEPT ![a] = v][b] = IF b = a THEN v ELSE f[b]
OBVIOUS

(* The fields of a run queue, and what setting one entry of a flag does.   *)
LEMMA Fields ==
    ASSUME NEW r \in RunQueueType
    PROVE  /\ r.active \in Arrays /\ r.curr \in Threads /\ r.nr_running \in Nat
           /\ r.queue \in [Arrays -> [Prios -> Seq(Tasks)]]
           /\ r.bitmap \in [Arrays -> SUBSET Prios] /\ r.nr_active \in [Arrays -> Nat]
           /\ r.on_rq \in [Threads -> BOOLEAN] /\ r.state \in [Threads -> TaskStates]
           /\ r.prio \in [Threads -> Int]
BY DEF RunQueueType

LEMMA SetFlag ==
    ASSUME NEW f \in [Threads -> BOOLEAN], NEW t \in Threads
    PROVE  /\ [f EXCEPT ![t] = TRUE] \in [Threads -> BOOLEAN]
           /\ \A u \in Threads : [f EXCEPT ![t] = TRUE][u] <=> f[u] \/ u = t
OBVIOUS

LEMMA ClearFlag ==
    ASSUME NEW f \in [Threads -> BOOLEAN], NEW t \in Threads
    PROVE  /\ [f EXCEPT ![t] = FALSE] \in [Threads -> BOOLEAN]
           /\ \A u \in Threads : [f EXCEPT ![t] = FALSE][u] <=> f[u] /\ u # t
           /\ ~f[t] => [f EXCEPT ![t] = FALSE] = f
OBVIOUS

(* list_del on a queue without repetition removes exactly t.               *)
LEMMA ListDel ==
    ASSUME NEW q \in Seq(Tasks), NEW t \in Threads,
           \A i, j \in 1 .. Len(q) : q[i] = q[j] => i = j
    PROVE  /\ list_del(q, t) \in Seq(Tasks)
           /\ \A u \in Threads : Holds(list_del(q, t), u) <=> Holds(q, u) /\ u # t
           /\ \A i, j \in 1 .. Len(list_del(q, t)) :
                 list_del(q, t)[i] = list_del(q, t)[j] => i = j
<1>1. CASE ~Holds(q, t)
  BY <1>1 DEF list_del, Holds
<1>2. CASE Holds(q, t)
  <2> DEFINE k == CHOOSE i \in 1 .. Len(q) : q[i] = t
             d == [j \in 1 .. Len(q) - 1 |-> IF j < k THEN q[j] ELSE q[j + 1]]
  <2>1. k \in 1 .. Len(q) /\ q[k] = t
    BY <1>2 DEF Holds
  <2>2. list_del(q, t) = d
    BY <1>2 DEF list_del, Holds
  <2> HIDE DEF k
  <2>3. Len(q) \in Nat /\ Len(q) - 1 \in Nat /\ \A i \in 1 .. Len(q) : q[i] \in Tasks
    BY <2>1
  <2>4. d \in Seq(Tasks) /\ Len(d) = Len(q) - 1
    <3>1. \A j \in 1 .. Len(q) - 1 : d[j] \in Tasks
      BY <2>1, <2>3
    <3>2. d \in [1 .. Len(q) - 1 -> Tasks]
      BY <3>1
    <3> HIDE DEF d
    <3> QED  BY <3>2, <2>3
  <2>5. \A u \in Threads : Holds(d, u) => Holds(q, u) /\ u # t
    BY <2>1, <2>3, <2>4 DEF Holds
  <2>6. ASSUME NEW u \in Threads, Holds(q, u), u # t PROVE Holds(d, u)
    <3>1. PICK i \in 1 .. Len(q) : q[i] = u
      BY <2>6 DEF Holds
    <3>2. CASE i < k
      <4>1. i \in 1 .. Len(q) - 1 /\ d[i] = u
        BY <3>1, <3>2, <2>1, <2>3
      <4> QED  BY <4>1, <2>4 DEF Holds
    <3>3. CASE i > k
      <4>1. i - 1 \in 1 .. Len(q) - 1 /\ d[i - 1] = u
        BY <3>1, <3>3, <2>1, <2>3
      <4> QED  BY <4>1, <2>4 DEF Holds
    <3>4. i # k
      BY <2>1, <2>6, <3>1
    <3> QED  BY <3>2, <3>3, <3>4, <2>1
  <2>7. \A i, j \in 1 .. Len(d) : d[i] = d[j] => i = j
    BY <2>1, <2>3, <2>4
  <2> QED  BY <2>2, <2>4, <2>5, <2>6, <2>7, Zenon
<1> QED  BY <1>1, <1>2

(* list_add_tail puts t, and nothing else, into the queue.                 *)
LEMMA ListAddTail ==
    ASSUME NEW q \in Seq(Tasks), NEW t \in Tasks, ~Holds(q, t),
           \A i, j \in 1 .. Len(q) : q[i] = q[j] => i = j
    PROVE  /\ Append(q, t) \in Seq(Tasks)
           /\ \A u \in Threads : Holds(Append(q, t), u) <=> Holds(q, u) \/ u = t
           /\ \A i, j \in 1 .. Len(Append(q, t)) :
                 Append(q, t)[i] = Append(q, t)[j] => i = j
<1> DEFINE d == Append(q, t)
<1>1. /\ d \in Seq(Tasks) /\ Len(q) \in Nat /\ Len(d) = Len(q) + 1
      /\ d[Len(q) + 1] = t
      /\ \A i \in 1 .. Len(q) : d[i] = q[i]
  OBVIOUS
<1> HIDE DEF d
<1>2. \A u \in Threads : Holds(d, u) <=> Holds(q, u) \/ u = t
  BY <1>1 DEF Holds
<1>3. \A i, j \in 1 .. Len(d) : d[i] = d[j] => i = j
  BY <1>1 DEF Holds
<1> QED  BY <1>1, <1>2, <1>3 DEF d
-----------------------------------------------------------------------------
(* What every run queue operation preserves.                               *)

QInv(r) ==
    /\ r \in RunQueueType
    /\ QueuesConsistent(r)
    /\ BitsCoverQueues(r)
    /\ CountsRunning(r)
    /\ Arithmetic

(* QInv looks at the queues, the bitmaps, nr_running, on_rq and prio.      *)
LEMMA Frame ==
    ASSUME NEW r, QInv(r), NEW r2 \in RunQueueType,
           r2.queue = r.queue, r2.bitmap = r.bitmap,
           r2.nr_running = r.nr_running, r2.on_rq = r.on_rq, r2.prio = r.prio
    PROVE  QInv(r2)
<1>1. OnRqIsQueued(r2)
  <2>1. OnRqIsQueued(r)
    BY DEF QInv, QueuesConsistent
  <2> QED  BY <2>1 DEF OnRqIsQueued
<1>2. OnceInQueue(r2)
  BY ZenonT(60) DEF QInv, QueuesConsistent, OnceInQueue
<1>3. InOneArray(r2)
  BY Zenon DEF QInv, QueuesConsistent, InOneArray
<1>4. BitsCoverQueues(r2) /\ CountsRunning(r2)
  BY Zenon DEF QInv, BitsCoverQueues, CountsRunning
<1> QED  BY <1>1, <1>2, <1>3, <1>4 DEF QInv, QueuesConsistent

LEMMA TasksCount ==
    ASSUME Arithmetic, NEW P \in SUBSET Tasks
    PROVE  /\ Cardinality(P) \in Nat
           /\ \A t \in Tasks \ P : Cardinality(P \cup {t}) = Cardinality(P) + 1
           /\ \A t \in P : Cardinality(P \ {t}) = Cardinality(P) - 1
<1>1. IsFiniteSet(Tasks)
  BY RunQueueAssumption DEF Arithmetic, SetsCount, Tasks
<1>2. IsFiniteSet(P)
  BY <1>1, Zenon DEF Arithmetic, SetsCount
<1> QED  BY <1>2, Zenon DEF Arithmetic, SetsCount

LEMMA AddTo ==
    ASSUME NEW r, QInv(r), NEW a \in Arrays, NEW t \in Tasks, ~r.on_rq[t]
    PROVE  LET r2 == add_to(r, a, t) IN
           /\ QInv(r2)
           /\ r2.on_rq = [r.on_rq EXCEPT ![t] = TRUE]
           /\ r2.active = r.active /\ r2.curr = r.curr /\ r2.state = r.state
           /\ r2.prio = r.prio /\ r2.chan = r.chan
           /\ r2.resched = r.resched /\ r2.time_slice = r.time_slice
<1> DEFINE p == queue_of(r.prio[t])
           r2 == add_to(r, a, t)
<1>0. r \in RunQueueType /\ t \in Threads /\ p \in Prios
  BY QueueOfType, Zenon DEF QInv, RunQueueType, Threads
<1>1. /\ r2.queue = [r.queue EXCEPT ![a] = [r.queue[a] EXCEPT ![p] = Append(r.queue[a][p], t)]]
      /\ r2.bitmap = [r.bitmap EXCEPT ![a] = r.bitmap[a] \cup {p}]
      /\ r2.nr_active = [r.nr_active EXCEPT ![a] = r.nr_active[a] + 1]
      /\ r2.nr_running = r.nr_running + 1
      /\ r2.on_rq = [r.on_rq EXCEPT ![t] = TRUE]
      /\ r2.active = r.active /\ r2.curr = r.curr /\ r2.state = r.state
      /\ r2.prio = r.prio /\ r2.chan = r.chan
      /\ r2.resched = r.resched /\ r2.time_slice = r.time_slice
  BY <1>0 DEF add_to, RunQueueType
<1>2. r2 \in RunQueueType
  <2>1. Append(r.queue[a][p], t) \in Seq(Tasks)
    BY <1>0 DEF RunQueueType
  <2>2. r2.queue \in [Arrays -> [Prios -> Seq(Tasks)]]
    BY <2>1, <1>0, <1>1 DEF RunQueueType
  <2>3. /\ r2.bitmap \in [Arrays -> SUBSET Prios]
        /\ r2.nr_active \in [Arrays -> Nat] /\ r2.nr_running \in Nat
        /\ r2.on_rq \in [Threads -> BOOLEAN]
    <3>1. /\ r.bitmap \in [Arrays -> SUBSET Prios]
          /\ r.nr_active \in [Arrays -> Nat] /\ r.nr_running \in Nat
          /\ r.on_rq \in [Threads -> BOOLEAN]
      BY <1>0, Fields, Zenon
    <3> HIDE DEF r2, p
    <3>2. r2.bitmap \in [Arrays -> SUBSET Prios]
      BY <3>1, <1>0, <1>1
    <3>3. r2.nr_active \in [Arrays -> Nat] /\ r2.nr_running \in Nat
      BY <3>1, <1>1
    <3>4. r2.on_rq \in [Threads -> BOOLEAN]
      BY <3>1, <1>0, <1>1, SetFlag, Zenon
    <3> QED  BY <3>2, <3>3, <3>4, Zenon
  <2> QED  BY <2>2, <2>3, <1>0, <1>1, ZenonT(60) DEF RunQueueType, add_to
<1> HIDE DEF r2
<1>9. /\ r.queue \in [Arrays -> [Prios -> Seq(Tasks)]]
      /\ r.bitmap \in [Arrays -> SUBSET Prios]
  BY <1>0 DEF RunQueueType
<1>10. ASSUME NEW b \in Arrays, NEW o \in Prios
       PROVE  /\ r2.queue[b][o] = IF b = a /\ o = p THEN Append(r.queue[b][o], t)
                                  ELSE r.queue[b][o]
              /\ r2.bitmap[b] = IF b = a THEN r.bitmap[b] \cup {p} ELSE r.bitmap[b]
  <2> DEFINE g == [r.queue[a] EXCEPT ![p] = Append(r.queue[a][p], t)]
  <2>1. r2.queue[b] = IF b = a THEN g ELSE r.queue[b]
    <3>1. r2.queue = [r.queue EXCEPT ![a] = g]
      BY <1>1
    <3> HIDE DEF g, p
    <3> QED  BY <3>1, <1>9, Update
  <2>2. g[o] = IF o = p THEN Append(r.queue[a][p], t) ELSE r.queue[a][o]
    <3>1. r.queue[a] \in [Prios -> Seq(Tasks)]
      BY <1>9
    <3> HIDE DEF p
    <3> QED  BY <3>1, <1>0, Update
  <2>3. r2.bitmap[b] = IF b = a THEN r.bitmap[b] \cup {p} ELSE r.bitmap[b]
    <3> HIDE DEF p
    <3> QED  BY <1>1, <1>9, Update, Zenon
  <2> HIDE DEF g, p
  <2> QED  BY <2>1, <2>2, <2>3
<1>3. \A b \in Arrays, o \in Prios, u \in Threads :
         ~r.on_rq[u] => ~Holds(r.queue[b][o], u)
  BY DEF QInv, QueuesConsistent, OnRqIsQueued
<1>4. ASSUME NEW b \in Arrays, NEW o \in Prios
      PROVE  /\ \A u \in Threads : Holds(r2.queue[b][o], u) <=>
                    Holds(r.queue[b][o], u) \/ (b = a /\ o = p /\ u = t)
             /\ \A i, j \in 1 .. Len(r2.queue[b][o]) :
                    r2.queue[b][o][i] = r2.queue[b][o][j] => i = j
  <2>0. r.queue[b][o] \in Seq(Tasks)
    BY <1>0 DEF RunQueueType
  <2>1. \A i, j \in 1 .. Len(r.queue[b][o]) :
           r.queue[b][o][i] = r.queue[b][o][j] => i = j
    BY Zenon DEF QInv, QueuesConsistent, OnceInQueue
  <2>2. CASE b = a /\ o = p
    <3>1. r2.queue[b][o] = Append(r.queue[b][o], t)
      BY <2>2, <1>10, Zenon
    <3>2. ~Holds(r.queue[b][o], t)
      BY <1>0, <1>3
    <3> HIDE DEF p
    <3>3. /\ \A u \in Threads : Holds(Append(r.queue[b][o], t), u) <=>
                                Holds(r.queue[b][o], u) \/ u = t
          /\ \A i, j \in 1 .. Len(Append(r.queue[b][o], t)) :
                Append(r.queue[b][o], t)[i] = Append(r.queue[b][o], t)[j] => i = j
      BY <3>2, <2>0, <2>1, ListAddTail, Zenon
    <3> DEFINE e == Append(r.queue[b][o], t)
    <3> HIDE DEF r2, e
    <3>4. r2.queue[b][o] = e
      BY <3>1, Zenon DEF e
    <3>5. /\ \A u \in Threads : Holds(e, u) <=> Holds(r.queue[b][o], u) \/ u = t
          /\ \A i, j \in 1 .. Len(e) : e[i] = e[j] => i = j
      BY <3>3, Zenon DEF e
    <3> QED  BY <3>4, <3>5, <2>2
  <2>3. CASE ~(b = a /\ o = p)
    <3>1. r2.queue[b][o] = r.queue[b][o]
      BY <2>3, <1>10, Zenon
    <3> QED  BY <3>1, <2>1, <2>3
  <2> QED  BY <2>2, <2>3
<1>8. \A u \in Threads : r2.on_rq[u] <=> r.on_rq[u] \/ u = t
  <2>1. r.on_rq \in [Threads -> BOOLEAN]
    BY <1>0, Fields, Zenon
  <2>2. r2.on_rq = [r.on_rq EXCEPT ![t] = TRUE] /\ t \in Threads
    BY <1>0, <1>1, Zenon
  <2> QED  BY <2>1, <2>2
<1>5. QueuesConsistent(r2)
  <2>1. OnRqIsQueued(r2)
    <3>1. \A b \in Arrays, o \in Prios, u \in Threads :
             Holds(r2.queue[b][o], u) => r2.on_rq[u] /\ o = queue_of(r2.prio[u])
      <4>1. \A b \in Arrays, o \in Prios, u \in Threads :
               Holds(r.queue[b][o], u) => r.on_rq[u] /\ o = queue_of(r.prio[u])
        BY ZenonT(60) DEF QInv, QueuesConsistent, OnRqIsQueued
      <4>2. \A u \in Threads : r2.prio[u] = r.prio[u]
        BY <1>1
      <4> QED  BY <4>1, <4>2, <1>4, <1>8
    <3>2. ASSUME NEW u \in Threads, r2.on_rq[u]
          PROVE  \E b \in Arrays : Holds(r2.queue[b][queue_of(r2.prio[u])], u)
      <4>1. CASE u = t
        <5>1. queue_of(r2.prio[u]) = p
          BY <4>1, <1>1, Zenon
        <5> HIDE DEF p
        <5> QED  BY <5>1, <4>1, <1>0, <1>4, SMTT(60)
      <4>2. CASE u # t
        <5>1. r.on_rq[u] /\ queue_of(r.prio[u]) \in Prios
          BY <4>2, <3>2, <1>0, <1>8, QueueOfType, Zenon DEF RunQueueType
        <5>2. PICK b \in Arrays : Holds(r.queue[b][queue_of(r.prio[u])], u)
          BY <5>1 DEF QInv, QueuesConsistent, OnRqIsQueued
        <5> QED  BY <5>1, <5>2, <1>1, <1>4, Zenon
      <4> QED  BY <4>1, <4>2
    <3> QED  BY <3>1, <3>2 DEF OnRqIsQueued
  <2>2. OnceInQueue(r2)
    BY <1>4 DEF OnceInQueue
  <2>3. InOneArray(r2)
    <3> SUFFICES ASSUME NEW o \in Prios, NEW u \in Tasks
                 PROVE  ~(Holds(r2.queue[0][o], u) /\ Holds(r2.queue[1][o], u))
      BY DEF InOneArray
    <3>1. u \in Threads /\ 0 \in Arrays /\ 1 \in Arrays
      BY DEF Threads, Arrays
    <3>2. ~(Holds(r.queue[0][o], u) /\ Holds(r.queue[1][o], u))
      BY SMTT(60) DEF QInv, QueuesConsistent, InOneArray
    <3> HIDE DEF p
    <3> QED  BY <3>1, <3>2, <1>3, <1>4
  <2> QED  BY <2>1, <2>2, <2>3 DEF QueuesConsistent
<1>6. BitsCoverQueues(r2)
  <2> SUFFICES ASSUME NEW b \in Arrays, NEW o \in Prios, r2.queue[b][o] # << >>
               PROVE  o \in r2.bitmap[b]
    BY DEF BitsCoverQueues
  <2>1. r.queue[b][o] # << >> => o \in r.bitmap[b]
    BY Zenon DEF QInv, BitsCoverQueues
  <2> HIDE DEF p
  <2> QED  BY <2>1, <1>10, Zenon
<1>7. CountsRunning(r2)
  <2> DEFINE R == {u \in Tasks : r.on_rq[u]}
             R2 == {u \in Tasks : r2.on_rq[u]}
  <2>1. R2 = R \cup {t} /\ t \notin R
    BY <1>8 DEF Threads
  <2>2. Cardinality(R2) = Cardinality(R) + 1
    <3>1. Arithmetic /\ R \in SUBSET Tasks
      BY DEF QInv
    <3> QED  BY <2>1, <3>1, TasksCount, Zenon
  <2> QED  BY <2>2, <1>1 DEF QInv, CountsRunning
<1> QED  BY <1>1, <1>2, <1>5, <1>6, <1>7 DEF QInv, r2

LEMMA Dequeue ==
    ASSUME NEW r, QInv(r), NEW t \in Tasks
    PROVE  LET r2 == dequeue_task(r, t) IN
           /\ QInv(r2)
           /\ r2.on_rq = [r.on_rq EXCEPT ![t] = FALSE]
           /\ r2.active = r.active /\ r2.curr = r.curr /\ r2.state = r.state
           /\ r2.prio = r.prio /\ r2.chan = r.chan
           /\ r2.resched = r.resched /\ r2.time_slice = r.time_slice
<1> DEFINE p == queue_of(r.prio[t])
           q == [a \in Arrays |-> [r.queue[a] EXCEPT ![p] = list_del(r.queue[a][p], t)]]
           r2 == dequeue_task(r, t)
<1>0. r \in RunQueueType /\ t \in Threads /\ p \in Prios /\ r.active \in Arrays
  BY QueueOfType, Zenon DEF QInv, RunQueueType, Threads
<1>1. CASE ~r.on_rq[t]
  <2>1. r.on_rq = [r.on_rq EXCEPT ![t] = FALSE]
    BY <1>0, <1>1, Fields, ClearFlag, Zenon
  <2> QED  BY <2>1, <1>1 DEF dequeue_task
<1>2. CASE r.on_rq[t]
  <2>1. /\ r2.queue = q
        /\ r2.bitmap = [r.bitmap EXCEPT ![r.active] =
                            IF q[r.active][p] = << >> THEN r.bitmap[r.active] \ {p}
                            ELSE r.bitmap[r.active]]
        /\ r2.nr_active = [r.nr_active EXCEPT ![r.active] =
                            IF r.nr_active[r.active] > 0
                            THEN r.nr_active[r.active] - 1 ELSE 0]
        /\ r2.nr_running = IF r.nr_running > 0 THEN r.nr_running - 1 ELSE 0
        /\ r2.on_rq = [r.on_rq EXCEPT ![t] = FALSE]
        /\ r2.active = r.active /\ r2.curr = r.curr /\ r2.state = r.state
        /\ r2.prio = r.prio /\ r2.chan = r.chan
        /\ r2.resched = r.resched /\ r2.time_slice = r.time_slice
    <3>1. r2 = [r EXCEPT !.queue = q,
                  !.bitmap[r.active] = IF q[r.active][p] = << >>
                                       THEN r.bitmap[r.active] \ {p}
                                       ELSE r.bitmap[r.active],
                  !.nr_active[r.active] = IF r.nr_active[r.active] > 0
                                          THEN r.nr_active[r.active] - 1 ELSE 0,
                  !.nr_running = IF r.nr_running > 0 THEN r.nr_running - 1 ELSE 0,
                  !.on_rq[t] = FALSE]
      BY <1>2, Zenon DEF dequeue_task
    <3> HIDE DEF q, p, r2
    <3> QED  BY <3>1, <1>0, ZenonT(60) DEF RunQueueType
  <2>2. ASSUME NEW b \in Arrays, NEW o \in Prios
        PROVE  /\ r2.queue[b][o] \in Seq(Tasks)
               /\ \A u \in Threads : Holds(r2.queue[b][o], u) <=>
                                      Holds(r.queue[b][o], u) /\ u # t
               /\ \A i, j \in 1 .. Len(r2.queue[b][o]) :
                      r2.queue[b][o][i] = r2.queue[b][o][j] => i = j
    <3>0. r.queue[b][o] \in Seq(Tasks)
      BY <1>0 DEF RunQueueType
    <3>1. \A i, j \in 1 .. Len(r.queue[b][o]) :
             r.queue[b][o][i] = r.queue[b][o][j] => i = j
      BY ZenonT(60) DEF QInv, QueuesConsistent, OnceInQueue
    <3>2. CASE o = p
      <4>1. r2.queue[b][o] = list_del(r.queue[b][o], t)
        <5>1. r.queue[b] \in [Prios -> Seq(Tasks)]
          BY <1>0 DEF RunQueueType
        <5>2. r2.queue[b] = [r.queue[b] EXCEPT ![p] = list_del(r.queue[b][p], t)]
          BY <2>1, Zenon
        <5> HIDE DEF p, q, r2
        <5> QED  BY <5>1, <5>2, <3>2, <1>0
      <4> HIDE DEF p, q
      <4>2. /\ list_del(r.queue[b][o], t) \in Seq(Tasks)
            /\ \A u \in Threads : Holds(list_del(r.queue[b][o], t), u) <=>
                                   Holds(r.queue[b][o], u) /\ u # t
            /\ \A i, j \in 1 .. Len(list_del(r.queue[b][o], t)) :
                   list_del(r.queue[b][o], t)[i] = list_del(r.queue[b][o], t)[j] => i = j
        BY <3>0, <3>1, <1>0, ListDel, ZenonT(60)
      <4> HIDE DEF r2
      <4> QED  BY <4>1, <4>2, SMTT(60)
    <3>3. CASE o # p
      <4>1. r2.queue[b][o] = r.queue[b][o]
        <5>1. r.queue[b] \in [Prios -> Seq(Tasks)]
          BY <1>0 DEF RunQueueType
        <5>2. r2.queue[b] = [r.queue[b] EXCEPT ![p] = list_del(r.queue[b][p], t)]
          BY <2>1, Zenon
        <5> HIDE DEF p, q, r2
        <5> QED  BY <5>1, <5>2, <3>3, <1>0
      <4>2. ~Holds(r.queue[b][o], t)
        BY <3>3, <1>0, Zenon DEF QInv, QueuesConsistent, OnRqIsQueued
      <4> HIDE DEF r2, p, q
      <4> QED  BY <4>1, <4>2, <3>0, <3>1, SMTT(60)
    <3> QED  BY <3>2, <3>3
  <2>3. Cardinality({u \in Tasks : r2.on_rq[u]}) = r.nr_running - 1 /\ r.nr_running > 0
    <3> DEFINE R == {u \in Tasks : r.on_rq[u]}
               R2 == {u \in Tasks : r2.on_rq[u]}
    <3>1. R2 = R \ {t} /\ t \in R
      BY <1>0, <1>2, <2>1, Zenon DEF RunQueueType, Threads
    <3>2. Cardinality(R2) = Cardinality(R) - 1 /\ Cardinality(R2) \in Nat
      <4>1. Arithmetic /\ R \in SUBSET Tasks /\ R2 \in SUBSET Tasks
        BY DEF QInv
      <4> QED  BY <3>1, <4>1, TasksCount, Zenon
    <3>3. r.nr_running = Cardinality(R) /\ Cardinality(R) \in Nat
      <4>1. Arithmetic /\ R \in SUBSET Tasks
        BY DEF QInv
      <4> QED  BY <4>1, TasksCount DEF QInv, CountsRunning
    <3> QED  BY <3>2, <3>3, SMTT(60)
  <2>4. r2 \in RunQueueType
    <3>1. r2.queue \in [Arrays -> [Prios -> Seq(Tasks)]]
      <4>1. \A b \in Arrays, o \in Prios : q[b][o] \in Seq(Tasks)
        BY <2>1, <2>2, ZenonT(60)
      <4>2. \A b \in Arrays : DOMAIN q[b] = Prios /\ q[b] = [o \in Prios |-> q[b][o]]
        BY <1>0, SMTT(60) DEF RunQueueType
      <4>3. DOMAIN q = Arrays /\ q = [b \in Arrays |-> q[b]]
        OBVIOUS
      <4> HIDE DEF q
      <4>4. \A b \in Arrays : q[b] \in [Prios -> Seq(Tasks)]
        BY <4>1, <4>2, ZenonT(60)
      <4> QED  BY <4>3, <4>4, <2>1, SMTT(60)
    <3>2. r2.bitmap \in [Arrays -> SUBSET Prios]
      <4>1. r.bitmap \in [Arrays -> SUBSET Prios]
        BY <1>0 DEF RunQueueType
      <4> HIDE DEF q, p, r2
      <4> QED  BY <4>1, <1>0, <2>1
    <3>3. /\ r2.nr_active \in [Arrays -> Nat] /\ r2.nr_running \in Nat
          /\ r2.on_rq \in [Threads -> BOOLEAN]
      <4>1. /\ r.nr_active \in [Arrays -> Nat] /\ r.nr_running \in Nat
            /\ r.on_rq \in [Threads -> BOOLEAN]
        BY <1>0, SMTT(60) DEF RunQueueType
      <4> HIDE DEF q, p, r2
      <4> QED  BY <4>1, <1>0, <2>1
    <3> QED  BY <3>1, <3>2, <3>3, <1>0, <1>2, <2>1, ZenonT(60) DEF RunQueueType, dequeue_task
  <2> HIDE DEF r2
  <2>5. \A u \in Threads : r2.on_rq[u] <=> r.on_rq[u] /\ u # t
    <3>1. r.on_rq \in [Threads -> BOOLEAN]
      BY <1>0, Fields, Zenon
    <3>2. r2.on_rq = [r.on_rq EXCEPT ![t] = FALSE] /\ t \in Threads
      BY <1>0, <2>1, Zenon
    <3> QED  BY <3>1, <3>2
  <2>6. QueuesConsistent(r2)
    <3>1. \A u \in Threads : r2.prio[u] = r.prio[u] /\ queue_of(r.prio[u]) \in Prios
      BY <2>1, <1>0, QueueOfType, ZenonT(60) DEF RunQueueType
    <3>2. OnRqIsQueued(r)
      BY DEF QInv, QueuesConsistent
    <3> HIDE DEF p, q
    <3>3. OnRqIsQueued(r2)
      BY <3>1, <3>2, <2>2, <2>5 DEF OnRqIsQueued
    <3>4. OnceInQueue(r2)
      BY <2>2 DEF OnceInQueue
    <3>5. InOneArray(r2)
      <4>1. \A u \in Tasks : u \in Threads /\ 0 \in Arrays /\ 1 \in Arrays
        BY DEF Threads, Arrays
      <4>2. InOneArray(r)
        BY DEF QInv, QueuesConsistent
      <4> QED  BY <4>1, <4>2, <2>2 DEF InOneArray
    <3> QED  BY <3>3, <3>4, <3>5 DEF QueuesConsistent
  <2>7. BitsCoverQueues(r2)
    <3> SUFFICES ASSUME NEW b \in Arrays, NEW o \in Prios, r2.queue[b][o] # << >>
                 PROVE  o \in r2.bitmap[b]
      BY DEF BitsCoverQueues
    <3>1. r.queue[b][o] # << >>
      <4>1. q[b] = [r.queue[b] EXCEPT ![p] = list_del(r.queue[b][p], t)]
        BY Zenon
      <4>2. r.queue[b] \in [Prios -> Seq(Tasks)]
        BY <1>0, Fields
      <4>3. r2.queue[b] = q[b]
        BY <2>1, Zenon
      <4> HIDE DEF q, p
      <4>4. r2.queue[b][o] = r.queue[b][o] \/ r2.queue[b][o] = list_del(r.queue[b][o], t)
        BY <4>1, <4>2, <4>3, <1>0, Update, Zenon
      <4>5. list_del(<< >>, t) = << >>
        BY DEF list_del
      <4> QED  BY <4>4, <4>5, Zenon
    <3>2. o \in r.bitmap[b]
      BY <3>1 DEF QInv, BitsCoverQueues
    <3>3. DOMAIN r.bitmap = Arrays
      BY <1>0, SMTT(60) DEF RunQueueType
    <3>4. r2.queue[b][o] = q[b][o]
      BY <2>1, ZenonT(60)
    <3> HIDE DEF q, p
    <3> QED  BY <3>2, <3>3, <3>4, <1>0, <2>1
  <2>8. CountsRunning(r2)
    BY <2>1, <2>3, ZenonT(60) DEF CountsRunning
  <2> QED  BY <2>1, <2>4, <2>6, <2>7, <2>8, ZenonT(60) DEF QInv, r2
<1> QED  BY <1>1, <1>2
-----------------------------------------------------------------------------
(* Picking the next task.                                                  *)

LEMMA FirstBit ==
    ASSUME WellOrdered, NEW bits \in SUBSET Prios, bits # {}
    PROVE  find_first_bit(bits) \in bits /\ \A c \in bits : find_first_bit(bits) <= c
<1>1. bits \in SUBSET Nat
  BY DEF Prios
<1>2. \E b \in bits : \A c \in bits : b <= c
  BY <1>1, Least, SMTT(60)
<1> QED  BY <1>2 DEF find_first_bit

(* A task that pick_next_task returns is queued, and no queue of a higher  *)
(* priority in the active array has a task.                                *)
LEMMA Pick ==
    ASSUME NEW r, QInv(r)
    PROVE  LET t == pick_next_task(r) IN
           /\ t \in Threads
           /\ t # idle =>
                /\ r.on_rq[t]
                /\ \A p \in Prios : p < queue_of(r.prio[t]) => r.queue[r.active][p] = << >>
<1> DEFINE bits == r.bitmap[r.active]
           b == find_first_bit(bits)
           q == r.queue[r.active][b]
<1>1. CASE r.nr_active[r.active] = 0 \/ bits = {} \/ q = << >>
  BY <1>1, Zenon DEF pick_next_task, Threads
<1>2. CASE ~(r.nr_active[r.active] = 0 \/ bits = {} \/ q = << >>)
  <2>1. pick_next_task(r) = Head(q)
    BY <1>2 DEF pick_next_task
  <2>2. bits \in SUBSET Prios /\ r.active \in Arrays
    BY DEF QInv, RunQueueType
  <2>3. b \in bits /\ \A c \in bits : b <= c
    BY <1>2, <2>2, FirstBit DEF QInv, Arithmetic
  <2>4. q \in Seq(Tasks) /\ b \in Prios
    BY <2>2, <2>3 DEF QInv, RunQueueType
  <2> HIDE DEF bits, b, q
  <2>5. Head(q) = q[1] /\ 1 \in 1 .. Len(q) /\ q[1] \in Tasks
    BY <1>2, <2>4
  <2>6. Head(q) \in Threads /\ Holds(q, Head(q))
    BY <2>5, SMTT(60) DEF Holds, Threads
  <2>7. r.on_rq[Head(q)] /\ b = queue_of(r.prio[Head(q)])
    <3>1. OnRqIsQueued(r)
      BY DEF QInv, QueuesConsistent
    <3> QED  BY <3>1, <2>2, <2>4, <2>6, Zenon DEF OnRqIsQueued, q
  <2>8. \A p \in Prios : p < b => r.queue[r.active][p] = << >>
    <3>1. BitsCoverQueues(r)
      BY DEF QInv
    <3>2. \A p \in Prios : p < b => p \notin bits
      BY <2>2, <2>3, <2>4, SMTT(60) DEF Prios
    <3> QED  BY <3>1, <3>2, <2>2 DEF BitsCoverQueues, bits
  <2> QED  BY <2>1, <2>6, <2>7, <2>8, Zenon
<1> HIDE DEF bits, b, q
<1> QED  BY <1>1, <1>2, Zenon

(* schedule() drops curr from the queues unless it is runnable, and makes  *)
(* curr a queued task of the highest priority in the active array, or idle.*)
LEMMA Schedule ==
    ASSUME NEW r, QInv(r), r.state[idle] = "RUNNING"
    PROVE  LET r2 == schedule(r) IN
           /\ QInv(r2)
           /\ r2.on_rq = IF r.state[r.curr] # "RUNNING"
                         THEN [r.on_rq EXCEPT ![r.curr] = FALSE] ELSE r.on_rq
           /\ r2.state = r.state /\ r2.prio = r.prio /\ r2.chan = r.chan
           /\ r2.curr # idle =>
                /\ r2.on_rq[r2.curr]
                /\ \A p \in Prios : p < queue_of(r2.prio[r2.curr]) =>
                       r2.queue[r2.active][p] = << >>
<1> DEFINE r1 == IF r.state[r.curr] # "RUNNING" THEN dequeue_task(r, r.curr) ELSE r
           m == swap_if_empty(r1)
           r2 == schedule(r)
<1>1. /\ QInv(r1)
      /\ r1.on_rq = IF r.state[r.curr] # "RUNNING"
                    THEN [r.on_rq EXCEPT ![r.curr] = FALSE] ELSE r.on_rq
      /\ r1.state = r.state /\ r1.prio = r.prio /\ r1.chan = r.chan
  <2>1. r.state[r.curr] # "RUNNING" => r.curr \in Tasks
    BY DEF QInv, RunQueueType, Threads
  <2> QED  BY <2>1, Dequeue
<1> HIDE DEF r1
<1>2. /\ QInv(m) /\ m.on_rq = r1.on_rq
      /\ m.state = r.state /\ m.prio = r.prio /\ m.chan = r.chan
  <2>1. r1 \in RunQueueType
    BY <1>1 DEF QInv
  <2>2. /\ m \in RunQueueType /\ m.queue = r1.queue /\ m.bitmap = r1.bitmap
        /\ m.nr_running = r1.nr_running /\ m.on_rq = r1.on_rq
        /\ m.prio = r1.prio /\ m.state = r1.state /\ m.chan = r1.chan
    <3>1. r1.active \in Arrays /\ 1 - r1.active \in Arrays
      BY <2>1 DEF RunQueueType, Arrays
    <3>2. m = r1 \/ m = [r1 EXCEPT !.active = 1 - r1.active]
      BY DEF swap_if_empty
    <3> HIDE DEF m
    <3> QED  BY <3>1, <3>2, <2>1, ZenonT(60) DEF RunQueueType
  <2> QED  BY <1>1, <2>2, Frame
<1>3. r2 = [m EXCEPT !.resched[r.curr] = FALSE, !.curr = pick_next_task(m)]
  BY DEF schedule, r1
<1> HIDE DEF m, r2
<1>4. m \in RunQueueType /\ pick_next_task(m) \in Threads
  BY <1>2, Pick DEF QInv
<1>5. /\ r2 \in RunQueueType /\ r2.queue = m.queue /\ r2.bitmap = m.bitmap
      /\ r2.nr_running = m.nr_running /\ r2.on_rq = m.on_rq /\ r2.active = m.active
      /\ r2.prio = m.prio /\ r2.state = m.state /\ r2.chan = m.chan
      /\ r2.curr = pick_next_task(m)
  BY <1>3, <1>4, Zenon DEF RunQueueType
<1>6. QInv(r2)
  BY <1>2, <1>5, Frame
<1>7. pick_next_task(m) # idle =>
        /\ m.on_rq[pick_next_task(m)]
        /\ \A p \in Prios : p < queue_of(m.prio[pick_next_task(m)]) =>
               m.queue[m.active][p] = << >>
  BY <1>2, Pick
<1> QED  BY <1>1, <1>2, <1>5, <1>6, <1>7 DEF r2
-----------------------------------------------------------------------------
(* The inductive invariant, for a run queue r and a set C of created tasks,*)
(* and what one step from r to r2 guarantees.                              *)

RInv(r, C) ==
    /\ QInv(r)
    /\ r.state[idle] = "RUNNING"
    /\ \A t \in C : r.state[t] = "RUNNING" <=> r.on_rq[t]
    /\ \A t \in Tasks \ C : ~r.on_rq[t] /\ r.state[t] = "RUNNING"
    /\ r.curr # idle => r.on_rq[r.curr]

StepOK(r, r2) ==
    /\ \A t \in Tasks : r.state[t] = "ZOMBIE" => r2.state[t] = "ZOMBIE"
    /\ r2.curr # r.curr /\ r2.curr # idle =>
         \A p \in Prios : p < queue_of(r2.prio[r2.curr]) =>
            r2.queue[r2.active][p] = << >>

(* The parts of the invariant that concern single tasks, spelled out.      *)
LEMMA RInvFacts ==
    ASSUME NEW C \in SUBSET Tasks, NEW r, RInv(r, C)
    PROVE  /\ r \in RunQueueType /\ r.active \in Arrays /\ expired(r) \in Arrays
           /\ ~r.on_rq[idle]
           /\ r.curr # idle => r.curr \in C /\ r.state[r.curr] = "RUNNING"
<1>1. r \in RunQueueType /\ OnRqIsQueued(r)
  BY DEF RInv, QInv, QueuesConsistent
<1>2. r.active \in Arrays /\ expired(r) \in Arrays /\ r.curr \in Threads
  BY <1>1, SMTT(60) DEF RunQueueType, Arrays, expired
<1>3. ~r.on_rq[idle]
  <2> SUFFICES ASSUME r.on_rq[idle] PROVE FALSE
    OBVIOUS
  <2>1. idle \in Threads /\ idle \notin Tasks
    BY DEF Threads, idle, Tasks
  <2>2. queue_of(r.prio[idle]) \in Prios
    BY <1>1, <2>1, QueueOfType DEF RunQueueType
  <2>3. PICK a \in Arrays : Holds(r.queue[a][queue_of(r.prio[idle])], idle)
    BY <1>1, <2>1 DEF OnRqIsQueued
  <2>4. r.queue[a][queue_of(r.prio[idle])] \in Seq(Tasks)
    BY <1>1, <2>2 DEF RunQueueType
  <2> QED  BY <2>1, <2>3, <2>4 DEF Holds
<1>4. r.curr # idle => r.curr \in C /\ r.state[r.curr] = "RUNNING"
  BY <1>2, SMTT(60) DEF RInv, Threads
<1> QED  BY <1>1, <1>2, <1>3, <1>4

(* Any schedule() after which on_rq again means runnable.                  *)
LEMMA ScheduleStep ==
    ASSUME NEW C \in SUBSET Tasks, NEW r, QInv(r), r.state[idle] = "RUNNING",
           \A t \in Tasks \ C : ~r.on_rq[t] /\ r.state[t] = "RUNNING",
           \A t \in C \ {r.curr} : r.state[t] = "RUNNING" <=> r.on_rq[t],
           r.curr \in C /\ r.state[r.curr] = "RUNNING" => r.on_rq[r.curr],
           r.curr = idle \/ r.curr \in C
    PROVE  /\ RInv(schedule(r), C)
           /\ schedule(r).state = r.state
           /\ schedule(r).curr # idle =>
                \A p \in Prios : p < queue_of(schedule(r).prio[schedule(r).curr]) =>
                   schedule(r).queue[schedule(r).active][p] = << >>
<1> DEFINE r2 == schedule(r)
<1>1. /\ QInv(r2)
      /\ r2.on_rq = IF r.state[r.curr] # "RUNNING"
                    THEN [r.on_rq EXCEPT ![r.curr] = FALSE] ELSE r.on_rq
      /\ r2.state = r.state
      /\ r2.curr # idle =>
           /\ r2.on_rq[r2.curr]
           /\ \A p \in Prios : p < queue_of(r2.prio[r2.curr]) =>
                  r2.queue[r2.active][p] = << >>
  BY Schedule
<1> HIDE DEF r2
<1>2. r.on_rq \in [Threads -> BOOLEAN] /\ \A t \in Tasks : t \in Threads
  BY DEF QInv, RunQueueType, Threads
<1>3. \A t \in Tasks \ C : ~r2.on_rq[t] /\ r2.state[t] = "RUNNING"
  BY <1>1, <1>2
<1>4. \A t \in C : r2.state[t] = "RUNNING" <=> r2.on_rq[t]
  BY <1>1, <1>2
<1>5. r2.state[idle] = "RUNNING" /\ (r2.curr # idle => r2.on_rq[r2.curr])
  BY <1>1
<1>6. RInv(r2, C)
  BY <1>1, <1>3, <1>4, <1>5, Zenon DEF RInv
<1> QED  BY <1>1, <1>6, Zenon DEF r2

(* schedule() called by a task that stays runnable, or by the idle loop.   *)
LEMMA PlainSchedule ==
    ASSUME NEW C \in SUBSET Tasks, NEW r, RInv(r, C)
    PROVE  RInv(schedule(r), C) /\ StepOK(r, schedule(r))
<1>1. \A t \in Tasks \ C : ~r.on_rq[t] /\ r.state[t] = "RUNNING"
  BY DEF RInv
<1>2. \A t \in C : r.state[t] = "RUNNING" <=> r.on_rq[t]
  BY DEF RInv
<1>3. r.curr = idle \/ r.curr \in C
  BY RInvFacts
<1>4. QInv(r) /\ r.state[idle] = "RUNNING"
  BY DEF RInv
<1>5. /\ RInv(schedule(r), C)
      /\ schedule(r).state = r.state
      /\ schedule(r).curr # idle =>
           \A p \in Prios : p < queue_of(schedule(r).prio[schedule(r).curr]) =>
              schedule(r).queue[schedule(r).active][p] = << >>
  BY <1>1, <1>2, <1>3, <1>4, ScheduleStep, ZenonT(60)
<1> QED  BY <1>5 DEF StepOK

(* What the steps below use of AddTo.                                      *)
LEMMA Added ==
    ASSUME NEW d, QInv(d), NEW a \in Arrays, NEW t \in Tasks, ~d.on_rq[t],
           NEW w, w = add_to(d, a, t)
    PROVE  /\ QInv(w) /\ w.on_rq = [d.on_rq EXCEPT ![t] = TRUE]
           /\ w.curr = d.curr /\ w.state = d.state /\ w.chan = d.chan
<1>1. /\ QInv(add_to(d, a, t)) /\ add_to(d, a, t).on_rq = [d.on_rq EXCEPT ![t] = TRUE]
      /\ add_to(d, a, t).curr = d.curr /\ add_to(d, a, t).state = d.state
      /\ add_to(d, a, t).chan = d.chan
  BY AddTo, SMTT(60)
<1> QED  BY <1>1, Zenon

(* sleep, do_wait and do_exit: curr blocks.                                *)
LEMMA BlockStep ==
    ASSUME NEW C \in SUBSET Tasks, NEW r, RInv(r, C), r.curr # idle,
           NEW st \in TaskStates \ {"RUNNING"}, NEW c \in Chans \cup {NULL}
    PROVE  /\ RInv(block(r, st, c), C) /\ StepOK(r, block(r, st, c))
           /\ block(r, st, c).state = [r.state EXCEPT ![r.curr] = st]
           /\ block(r, st, c).chan = [r.chan EXCEPT ![r.curr] = c]
<1> DEFINE m == [r EXCEPT !.state[r.curr] = st, !.chan[r.curr] = c]
<1>1. r \in RunQueueType /\ r.curr \in C /\ r.curr \in Threads /\ idle \in Threads
  BY RInvFacts DEF Threads
<1>2. /\ m \in RunQueueType /\ m.queue = r.queue /\ m.bitmap = r.bitmap
      /\ m.nr_running = r.nr_running /\ m.on_rq = r.on_rq /\ m.prio = r.prio
      /\ m.curr = r.curr /\ m.state = [r.state EXCEPT ![r.curr] = st]
      /\ m.chan = [r.chan EXCEPT ![r.curr] = c]
  BY <1>1, Zenon DEF RunQueueType
<1>3. block(r, st, c) = schedule(m)
  BY DEF block
<1> HIDE DEF m
<1>4. QInv(m)
  BY <1>2, Frame DEF RInv
<1>5. /\ m.state[r.curr] = st /\ m.state[idle] = "RUNNING"
      /\ \A t \in Tasks \ {r.curr} : m.state[t] = r.state[t]
  BY <1>1, <1>2, SMTT(60) DEF RunQueueType, RInv, Threads
<1>6. RInv(schedule(m), C) /\ schedule(m).state = m.state
      /\ (schedule(m).curr # idle =>
            \A p \in Prios : p < queue_of(schedule(m).prio[schedule(m).curr]) =>
               schedule(m).queue[schedule(m).active][p] = << >>)
  <2>1. \A t \in Tasks \ C : ~m.on_rq[t] /\ m.state[t] = "RUNNING"
    BY <1>1, <1>2, <1>5 DEF RInv
  <2>2. \A t \in C \ {m.curr} : m.state[t] = "RUNNING" <=> m.on_rq[t]
    BY <1>2, <1>5 DEF RInv
  <2>3. m.curr \in C /\ m.state[m.curr] # "RUNNING"
    BY <1>1, <1>2, <1>5
  <2>4. m.state[idle] = "RUNNING"
    BY <1>5, Zenon
  <2>5. /\ m.curr \in C /\ m.state[m.curr] = "RUNNING" => m.on_rq[m.curr]
        /\ m.curr = idle \/ m.curr \in C
    BY <2>3, Zenon
  <2> QED  BY <2>1, <2>2, <2>4, <2>5, <1>4, ScheduleStep, SMTT(60)
<1>7. \A t \in Tasks : r.state[t] = "ZOMBIE" => m.state[t] = "ZOMBIE"
  BY <1>5, RInvFacts, SMTT(60)
<1>8. schedule(m).chan = m.chan
  BY <1>4, <1>5, Schedule, Zenon
<1>9. StepOK(r, schedule(m))
  BY <1>6, <1>7 DEF StepOK
<1> QED  BY <1>2, <1>3, <1>6, <1>8, <1>9, Zenon

LEMMA YieldStep ==
    ASSUME NEW C \in SUBSET Tasks, NEW r, RInv(r, C), r.curr # idle
    PROVE  /\ RInv(yield(r), C) /\ StepOK(r, yield(r))
           /\ yield(r).state = r.state /\ yield(r).chan = r.chan
<1> DEFINE d == dequeue_task(r, r.curr)
           m == enqueue_task(d, r.curr)
<1>1. /\ r \in RunQueueType /\ r.curr \in C /\ r.curr \in Tasks
      /\ r.state[r.curr] = "RUNNING" /\ r.on_rq[r.curr] /\ r.active \in Arrays
  BY RInvFacts DEF RInv
<1>2. yield(r) = schedule(m)
  BY <1>1 DEF yield
<1>3. /\ QInv(d) /\ d.on_rq = [r.on_rq EXCEPT ![r.curr] = FALSE]
      /\ d.active = r.active /\ d.curr = r.curr /\ d.state = r.state
      /\ d.chan = r.chan
  BY <1>1, Dequeue, SMTT(60) DEF RInv
<1> HIDE DEF d
<1>8. r.on_rq \in [Threads -> BOOLEAN] /\ r.curr \in Threads
  BY <1>1, Fields, Zenon
<1>10. /\ d.on_rq = [r.on_rq EXCEPT ![r.curr] = FALSE] /\ r.on_rq[r.curr]
       /\ QInv(d) /\ r.active \in Arrays /\ r.curr \in Tasks
  BY <1>1, <1>3, Zenon
<1>4. ~d.on_rq[r.curr]
  BY <1>8, <1>10
<1>9. m = add_to(d, r.active, r.curr)
  BY <1>3 DEF enqueue_task
<1> HIDE DEF m
<1>5. /\ QInv(m) /\ m.on_rq = [d.on_rq EXCEPT ![r.curr] = TRUE]
      /\ m.curr = r.curr /\ m.state = r.state /\ m.chan = r.chan
  <2>1. /\ QInv(m) /\ m.on_rq = [d.on_rq EXCEPT ![r.curr] = TRUE]
        /\ m.curr = d.curr /\ m.state = d.state /\ m.chan = d.chan
    BY <1>4, <1>9, <1>10, Added
  <2> QED  BY <2>1, <1>3, Zenon
<1>6. m.on_rq = r.on_rq
  <2>1. m.on_rq = [[r.on_rq EXCEPT ![r.curr] = FALSE] EXCEPT ![r.curr] = TRUE]
    BY <1>5, <1>10, Zenon
  <2> QED  BY <2>1, <1>8, <1>10
<1>7. RInv(schedule(m), C) /\ schedule(m).state = m.state
      /\ (schedule(m).curr # idle =>
            \A p \in Prios : p < queue_of(schedule(m).prio[schedule(m).curr]) =>
               schedule(m).queue[schedule(m).active][p] = << >>)
  <2>1. \A t \in Tasks \ C : ~m.on_rq[t] /\ m.state[t] = "RUNNING"
    BY <1>5, <1>6, Zenon DEF RInv
  <2>2. \A t \in C : m.state[t] = "RUNNING" <=> m.on_rq[t]
    BY <1>5, <1>6, Zenon DEF RInv
  <2>3. m.curr \in C /\ m.state[idle] = "RUNNING"
    BY <1>1, <1>5 DEF RInv
  <2> QED  BY <2>1, <2>2, <2>3, <1>5, ScheduleStep, ZenonT(60)
<1>11. schedule(m).chan = m.chan
  <2>1. m.state[idle] = "RUNNING"
    BY <1>5, Zenon DEF RInv
  <2> QED  BY <1>5, <2>1, Schedule, Zenon
<1>12. StepOK(r, schedule(m))
  BY <1>5, <1>7 DEF StepOK
<1> QED  BY <1>2, <1>5, <1>7, <1>11, <1>12, Zenon

(* wake_up_process on a sleeper makes it runnable and queues it, and does  *)
(* nothing to any other task.                                              *)
LEMMA WakeUp ==
    ASSUME NEW r, QInv(r), NEW t \in Tasks, r.state[t] \in Asleep, ~r.on_rq[t]
    PROVE  LET r2 == wake_up_process(r, t) IN
           /\ QInv(r2) /\ r2.curr = r.curr /\ r2.chan = r.chan
           /\ \A u \in Threads : r2.on_rq[u] <=> u = t \/ r.on_rq[u]
           /\ r2.state = [r.state EXCEPT ![t] = "RUNNING"]
<1> DEFINE m == [r EXCEPT !.state[t] = "RUNNING"]
           w == enqueue_task(m, t)
           r2 == wake_up_process(r, t)
<1>1. /\ r \in RunQueueType /\ t \in Threads /\ r.active \in Arrays
      /\ r.state[t] # "RUNNING"
  BY Fields, Zenon DEF Asleep, QInv, Threads
<1>2. /\ m \in RunQueueType /\ m.queue = r.queue /\ m.bitmap = r.bitmap
      /\ m.nr_running = r.nr_running /\ m.on_rq = r.on_rq /\ m.prio = r.prio
      /\ m.curr = r.curr /\ m.active = r.active /\ m.chan = r.chan
      /\ m.state = [r.state EXCEPT ![t] = "RUNNING"]
  BY <1>1, ZenonT(60) DEF RunQueueType, TaskStates
<1>3. r2 = w \/ r2 = [w EXCEPT !.resched[r.curr] = TRUE]
  BY <1>1 DEF wake_up_process
<1> HIDE DEF m
<1>4. QInv(m) /\ ~m.on_rq[t]
  BY <1>2, Frame
<1>5. /\ QInv(w) /\ w.on_rq = [r.on_rq EXCEPT ![t] = TRUE]
      /\ w.curr = r.curr /\ w.state = m.state /\ w.chan = r.chan
  <2>1. w = add_to(m, m.active, t) /\ m.active \in Arrays /\ ~m.on_rq[t] /\ t \in Tasks
    BY <1>1, <1>2, <1>4, Zenon DEF enqueue_task
  <2> HIDE DEF w
  <2>2. /\ QInv(w) /\ w.on_rq = [m.on_rq EXCEPT ![t] = TRUE]
        /\ w.curr = m.curr /\ w.state = m.state /\ w.chan = m.chan
    BY <2>1, <1>4, Added
  <2> QED  BY <2>2, <1>2, Zenon
<1> HIDE DEF w, r2
<1>6. /\ r2 \in RunQueueType /\ r2.queue = w.queue /\ r2.bitmap = w.bitmap
      /\ r2.nr_running = w.nr_running /\ r2.on_rq = w.on_rq /\ r2.prio = w.prio
      /\ r2.curr = w.curr /\ r2.state = w.state /\ r2.chan = w.chan
  <2>1. w \in RunQueueType
    BY <1>5 DEF QInv
  <2>2. CASE r2 = w
    BY <2>1, <2>2, Zenon
  <2>3. CASE r2 = [w EXCEPT !.resched[r.curr] = TRUE]
    BY <2>1, <2>3, Zenon DEF RunQueueType
  <2> QED  BY <1>3, <2>2, <2>3, Zenon
<1>7. QInv(r2)
  BY <1>5, <1>6, Frame
<1>8. \A u \in Threads : r2.on_rq[u] <=> u = t \/ r.on_rq[u]
  <2>1. r.on_rq \in [Threads -> BOOLEAN]
    BY <1>1, Fields, Zenon
  <2>2. r2.on_rq = [r.on_rq EXCEPT ![t] = TRUE] /\ t \in Threads
    BY <1>1, <1>5, <1>6, Zenon
  <2> QED  BY <2>1, <2>2
<1>9. r2.curr = r.curr /\ r2.chan = r.chan /\ r2.state = [r.state EXCEPT ![t] = "RUNNING"]
  BY <1>2, <1>5, <1>6, Zenon
<1> QED  BY <1>7, <1>8, <1>9, Zenon DEF r2

(* What wakeup and kill_process do.                                        *)
LEMMA WakeStep ==
    ASSUME NEW C \in SUBSET Tasks, NEW r, RInv(r, C),
           NEW t \in C, r.state[t] \in Asleep
    PROVE  RInv(wake_up_process(r, t), C) /\ StepOK(r, wake_up_process(r, t))
<1> DEFINE r2 == wake_up_process(r, t)
<1>1. /\ r \in RunQueueType /\ QInv(r) /\ t \in Threads /\ t \in Tasks
      /\ r.state[t] # "RUNNING" /\ ~r.on_rq[t] /\ r.state[t] # "ZOMBIE" /\ t # idle
  BY RInvFacts, Zenon DEF Asleep, RInv, Threads, Tasks, idle
<1>2. /\ QInv(r2) /\ r2.curr = r.curr
      /\ \A u \in Threads : r2.on_rq[u] <=> u = t \/ r.on_rq[u]
      /\ r2.state = [r.state EXCEPT ![t] = "RUNNING"]
  BY <1>1, WakeUp, Zenon
<1> HIDE DEF r2
<1>3. /\ r2.state[t] = "RUNNING"
      /\ \A u \in Threads \ {t} : r2.state[u] = r.state[u]
  <2>1. r.state \in [Threads -> TaskStates]
    BY <1>1, Fields, Zenon
  <2> QED  BY <1>1, <1>2, <2>1
<1>4. RInv(r2, C)
  <2>1. \A u \in Tasks : u \in Threads
    BY DEF Threads
  <2>2. r2.state[idle] = "RUNNING" /\ (r2.curr # idle => r2.on_rq[r2.curr])
    <3>1. r.curr \in Threads /\ idle \in Threads
      BY <1>1, Fields, Zenon DEF Threads
    <3> QED  BY <3>1, <1>1, <1>2, <1>3, Zenon DEF RInv
  <2>3. \A u \in C : r2.state[u] = "RUNNING" <=> r2.on_rq[u]
    BY <2>1, <1>2, <1>3 DEF RInv
  <2>4. \A u \in Tasks \ C : ~r2.on_rq[u] /\ r2.state[u] = "RUNNING"
    BY <2>1, <1>2, <1>3, SMTT(60) DEF RInv
  <2> QED  BY <2>2, <2>3, <2>4, <1>2 DEF RInv
<1>5. StepOK(r, r2)
  BY <1>1, <1>2, <1>3, SMTT(60) DEF StepOK, Threads
<1> QED  BY <1>4, <1>5 DEF r2

LEMMA SliceType ==
    ASSUME NEW p \in Int PROVE task_timeslice(p) \in Nat
BY RunQueueAssumption DEF task_timeslice

LEMMA NewStep ==
    ASSUME NEW C \in SUBSET Tasks, NEW r, RInv(r, C), NEW t \in Tasks \ C
    PROVE  /\ RInv(wake_up_new_task(r, t), C \cup {t})
           /\ StepOK(r, wake_up_new_task(r, t))
           /\ wake_up_new_task(r, t).curr = r.curr
           /\ wake_up_new_task(r, t).state = r.state
           /\ wake_up_new_task(r, t).chan = r.chan
<1> DEFINE m == [r EXCEPT !.state[t] = "RUNNING", !.time_slice[t] = task_timeslice(r.prio[t])]
           w == enqueue_task(m, t)
<1>1. /\ r \in RunQueueType /\ t \in Threads /\ r.active \in Arrays /\ ~r.on_rq[t]
      /\ r.curr \in Threads /\ r.state[t] = "RUNNING" /\ r.prio[t] \in Int
  BY RInvFacts, ZenonT(60) DEF RInv, Threads, RunQueueType
<1>2. /\ m \in RunQueueType /\ m.queue = r.queue /\ m.bitmap = r.bitmap
      /\ m.nr_running = r.nr_running /\ m.on_rq = r.on_rq /\ m.prio = r.prio
      /\ m.curr = r.curr /\ m.active = r.active /\ m.state = r.state
      /\ m.chan = r.chan
  BY <1>1, SliceType, ZenonT(60) DEF RunQueueType, TaskStates
<1>3. wake_up_new_task(r, t) = w
  BY DEF wake_up_new_task
<1> HIDE DEF m
<1>4. QInv(m) /\ ~m.on_rq[t]
  BY <1>1, <1>2, Frame, SMTT(60) DEF RInv
<1>5. /\ QInv(w) /\ w.on_rq = [r.on_rq EXCEPT ![t] = TRUE]
      /\ w.curr = r.curr /\ w.state = r.state /\ w.chan = r.chan
  <2>1. w = add_to(m, m.active, t) /\ m.active \in Arrays /\ t \in Tasks
    BY <1>1, <1>2, Zenon DEF enqueue_task
  <2> HIDE DEF w
  <2>2. /\ QInv(w) /\ w.on_rq = [m.on_rq EXCEPT ![t] = TRUE]
        /\ w.curr = m.curr /\ w.state = m.state /\ w.chan = m.chan
    BY <2>1, <1>4, Added
  <2> QED  BY <2>2, <1>2, Zenon
<1> HIDE DEF w
<1>6. \A u \in Threads : w.on_rq[u] <=> u = t \/ r.on_rq[u]
  <2>1. r.on_rq \in [Threads -> BOOLEAN]
    BY <1>1, Fields, Zenon
  <2>2. w.on_rq = [r.on_rq EXCEPT ![t] = TRUE] /\ t \in Threads
    BY <1>1, <1>5, Zenon
  <2> QED  BY <2>1, <2>2
<1>7. RInv(w, C \cup {t})
  <2>1. \A u \in Tasks : u \in Threads
    BY DEF Threads
  <2>2. w.state[idle] = "RUNNING" /\ (w.curr # idle => w.on_rq[w.curr])
    BY <1>1, <1>5, <1>6, SMTT(60) DEF RInv
  <2>3. \A u \in C \cup {t} : w.state[u] = "RUNNING" <=> w.on_rq[u]
    BY <2>1, <1>1, <1>5, <1>6 DEF RInv
  <2>4. \A u \in Tasks \ (C \cup {t}) : ~w.on_rq[u] /\ w.state[u] = "RUNNING"
    BY <2>1, <1>5, <1>6 DEF RInv
  <2> QED  BY <2>2, <2>3, <2>4, <1>5 DEF RInv
<1>8. StepOK(r, w)
  BY <1>5 DEF StepOK
<1> QED  BY <1>3, <1>5, <1>7, <1>8, ZenonT(60)

(* sched_init builds a consistent run queue.                               *)
LEMMA SchedInit ==
    ASSUME Arithmetic, NEW pr \in [Threads -> Int], NEW r, r = sched_init(pr)
    PROVE  /\ RInv(r, {}) /\ r.curr = idle
           /\ r.state = [t \in Threads |-> "RUNNING"]
<1>3. << >> \in Seq(Tasks) /\ Len(<< >>) = 0
  OBVIOUS
<1>4. r \in RunQueueType
  <2>1. /\ 0 \in Arrays /\ 0 \in Nat /\ idle \in Threads /\ {} \in SUBSET Prios
        /\ "RUNNING" \in TaskStates
    BY RunQueueAssumption DEF Arrays, Threads, TaskStates
  <2>2. [t \in Threads |-> IF t = idle THEN DEF_TIMESLICE ELSE 0] \in [Threads -> Nat]
    BY RunQueueAssumption
  <2> QED  BY <1>3, <2>1, <2>2, ZenonT(60) DEF sched_init, RunQueueType
<1>5. /\ r.queue = [a \in Arrays |-> [p \in Prios |-> << >>]] /\ r.nr_running = 0
      /\ r.curr = idle /\ r.state = [t \in Threads |-> "RUNNING"]
      /\ r.on_rq = [t \in Threads |-> FALSE]
  BY DEF sched_init
<1>6. QInv(r)
  <2>1. \A a \in Arrays, p \in Prios : r.queue[a][p] = << >>
    BY <1>5
  <2>2. \A t : ~Holds(<< >>, t)
    BY <1>3 DEF Holds
  <2>3. QueuesConsistent(r)
    <3>1. OnRqIsQueued(r)
      BY <2>1, <2>2, <1>5 DEF OnRqIsQueued
    <3>2. OnceInQueue(r)
      BY <2>1, <1>3 DEF OnceInQueue
    <3>3. InOneArray(r)
      BY <2>1, <2>2 DEF InOneArray, Arrays
    <3> QED  BY <3>1, <3>2, <3>3, SMTT(60) DEF QueuesConsistent
  <2>4. BitsCoverQueues(r)
    BY <2>1 DEF BitsCoverQueues
  <2>5. CountsRunning(r)
    <3>1. {t \in Tasks : r.on_rq[t]} = {}
      BY <1>5 DEF Threads
    <3> QED  BY <3>1, <1>5, Zenon DEF CountsRunning, Arithmetic, SetsCount
  <2> QED  BY <1>4, <2>3, <2>4, <2>5, SMTT(60) DEF QInv
<1>7. RInv(r, {})
  BY <1>5, <1>6 DEF RInv, Threads
<1> QED  BY <1>5, <1>7, Zenon
-----------------------------------------------------------------------------
(* While no tick moves a task to the expired array, the per-array counts   *)
(* and bits are exact too, so that pick_next_task finds every ready task.  *)
Exact(r) ==
    /\ r.nr_active[r.active] = r.nr_running /\ r.nr_active[1 - r.active] = 0
    /\ \A p \in Prios : r.queue[1 - r.active][p] = << >>
    /\ \A a \in Arrays : \A p \in r.bitmap[a] : r.queue[a][p] # << >>

Rests(r) == r.curr = idle => \A t \in Tasks : ~r.on_rq[t]

LEMMA ExactSame ==
    ASSUME NEW r, Exact(r), NEW r2, r2.active = r.active, r2.queue = r.queue,
           r2.bitmap = r.bitmap, r2.nr_active = r.nr_active, r2.nr_running = r.nr_running
    PROVE  Exact(r2)
BY Zenon DEF Exact

LEMMA ExactAdd ==
    ASSUME NEW r, QInv(r), Exact(r), NEW t \in Tasks
    PROVE  Exact(add_to(r, r.active, t)) /\ add_to(r, r.active, t).prio = r.prio
<1>1. PICK p \in Prios : p = queue_of(r.prio[t])
  BY QueueOfType DEF QInv, RunQueueType, Threads
<1>2. r \in RunQueueType /\ r.active \in Arrays /\ 1 - r.active \in Arrays \ {r.active}
  BY DEF QInv, RunQueueType, Arrays
<1>3. PICK r2 : r2 = add_to(r, r.active, t)
  OBVIOUS
<1>4. /\ r2.queue = [r.queue EXCEPT ![r.active] =
                        [r.queue[r.active] EXCEPT ![p] = Append(r.queue[r.active][p], t)]]
      /\ r2.bitmap = [r.bitmap EXCEPT ![r.active] = r.bitmap[r.active] \cup {p}]
      /\ r2.nr_active = [r.nr_active EXCEPT ![r.active] = r.nr_active[r.active] + 1]
      /\ r2.nr_running = r.nr_running + 1
      /\ r2.active = r.active /\ r2.prio = r.prio
  BY <1>1, <1>2, <1>3 DEF add_to, RunQueueType
<1>5. /\ r.queue \in [Arrays -> [Prios -> Seq(Tasks)]]
      /\ r.bitmap \in [Arrays -> SUBSET Prios] /\ r.nr_active \in [Arrays -> Nat]
  BY <1>2, Fields
<1>6. PICK a \in Arrays : a = r.active
  BY <1>2
<1>7. \A b \in Arrays \ {a} : /\ r2.queue[b] = r.queue[b] /\ r2.bitmap[b] = r.bitmap[b]
                              /\ r2.nr_active[b] = r.nr_active[b]
  BY <1>4, <1>5, <1>6, Zenon
<1>8. /\ r2.nr_active[a] = r2.nr_running /\ r2.bitmap[a] = r.bitmap[a] \cup {p}
      /\ \A o \in Prios \ {p} : r2.queue[a][o] = r.queue[a][o]
      /\ r2.queue[a][p] = Append(r.queue[a][p], t)
  <2>1. r2.nr_active[a] = r2.nr_running
    <3>1. r2.nr_active[a] = r.nr_active[a] + 1
      BY <1>4, <1>5, <1>6, Zenon
    <3>2. r.nr_active[a] = r.nr_running
      BY <1>6, Zenon DEF Exact
    <3> QED  BY <1>4, <3>1, <3>2, Zenon
  <2>2. r2.bitmap[a] = r.bitmap[a] \cup {p}
    BY <1>4, <1>5, <1>6, Zenon
  <2>3. r2.queue[a] = [r.queue[a] EXCEPT ![p] = Append(r.queue[a][p], t)]
    BY <1>4, <1>5, <1>6, Zenon
  <2>4. r.queue[a] \in [Prios -> Seq(Tasks)]
    BY <1>5, Zenon
  <2> QED  BY <2>1, <2>2, <2>3, <2>4, Zenon
<1>9. Append(r.queue[a][p], t) # << >>
  <2>1. r.queue[a][p] \in Seq(Tasks)
    BY <1>5
  <2>2. Len(Append(r.queue[a][p], t)) # 0
    BY <2>1
  <2>3. Len(<< >>) = 0
    OBVIOUS
  <2> QED  BY <2>2, <2>3, Zenon
<1>10. \A b \in Arrays : \A o \in r2.bitmap[b] : r2.queue[b][o] # << >>
  <2> SUFFICES ASSUME NEW b \in Arrays, NEW o \in r2.bitmap[b] PROVE r2.queue[b][o] # << >>
    OBVIOUS
  <2>1. CASE b # a
    BY <1>7, <2>1 DEF Exact
  <2>2. CASE b = a /\ o # p
    BY <1>5, <1>8, <2>2, Zenon DEF Exact
  <2>3. CASE b = a /\ o = p
    BY <1>8, <1>9, <2>3, Zenon
  <2> QED  BY <2>1, <2>2, <2>3
<1>11. Exact(r2)
  <2>1. /\ r2.nr_active[1 - r2.active] = 0
        /\ \A o \in Prios : r2.queue[1 - r2.active][o] = << >>
    <3>1. r2.active = r.active /\ 1 - r.active \in Arrays \ {a}
      BY <1>2, <1>4, <1>6, Zenon
    <3>2. /\ r.nr_active[1 - r.active] = 0
          /\ \A o \in Prios : r.queue[1 - r.active][o] = << >>
      BY Zenon DEF Exact
    <3> QED  BY <1>7, <3>1, <3>2, Zenon
  <2> QED  BY <1>4, <1>6, <1>8, <1>10, <2>1, Zenon DEF Exact
<1> QED  BY <1>3, <1>4, <1>11

LEMMA EmptyDel ==
    ASSUME NEW t PROVE list_del(<< >>, t) = << >>
BY DEF list_del

LEMMA ExactDequeue ==
    ASSUME NEW r, QInv(r), Exact(r), NEW t \in Tasks
    PROVE  Exact(dequeue_task(r, t)) /\ dequeue_task(r, t).prio = r.prio
<1>1. PICK p \in Prios : p = queue_of(r.prio[t])
  BY QueueOfType DEF QInv, RunQueueType, Threads
<1>2. r \in RunQueueType /\ r.active \in Arrays /\ 1 - r.active \in Arrays \ {r.active}
  BY DEF QInv, RunQueueType, Arrays
<1>3. PICK r2 : r2 = dequeue_task(r, t)
  OBVIOUS
<1>4. CASE ~r.on_rq[t]
  BY <1>4 DEF dequeue_task
<1>5. CASE r.on_rq[t]
  <2>1. PICK q : q = [a \in Arrays |-> [r.queue[a] EXCEPT ![p] = list_del(r.queue[a][p], t)]]
    BY Zenon
  <2>2. r2 = [r EXCEPT !.queue = q,
                  !.bitmap[r.active] = IF q[r.active][p] = << >>
                                       THEN r.bitmap[r.active] \ {p}
                                       ELSE r.bitmap[r.active],
                  !.nr_active[r.active] = IF r.nr_active[r.active] > 0
                                          THEN r.nr_active[r.active] - 1 ELSE 0,
                  !.nr_running = IF r.nr_running > 0 THEN r.nr_running - 1 ELSE 0,
                  !.on_rq[t] = FALSE]
    BY <1>1, <1>3, <1>5, <2>1, Zenon DEF dequeue_task
  <2>3. /\ r2.queue = q
        /\ r2.bitmap = [r.bitmap EXCEPT ![r.active] =
                            IF q[r.active][p] = << >> THEN r.bitmap[r.active] \ {p}
                            ELSE r.bitmap[r.active]]
        /\ r2.nr_active = [r.nr_active EXCEPT ![r.active] =
                            IF r.nr_active[r.active] > 0
                            THEN r.nr_active[r.active] - 1 ELSE 0]
        /\ r2.nr_running = IF r.nr_running > 0 THEN r.nr_running - 1 ELSE 0
        /\ r2.active = r.active /\ r2.prio = r.prio
    BY <1>2, <2>2, ZenonT(60) DEF RunQueueType
  <2>5. /\ r.queue \in [Arrays -> [Prios -> Seq(Tasks)]]
        /\ r.bitmap \in [Arrays -> SUBSET Prios] /\ r.nr_active \in [Arrays -> Nat]
    BY <1>2, Fields
  <2>6. PICK a \in Arrays : a = r.active
    BY <1>2
  <2>7. \A b \in Arrays \ {a} : r2.bitmap[b] = r.bitmap[b] /\ r2.nr_active[b] = r.nr_active[b]
    BY <2>3, <2>5, <2>6
  <2>8. /\ r2.nr_active[a] = r2.nr_running
        /\ r2.bitmap[a] = IF q[a][p] = << >> THEN r.bitmap[a] \ {p} ELSE r.bitmap[a]
    BY <2>3, <2>5, <2>6, Zenon DEF Exact
  <2>9. \A b \in Arrays : /\ q[b][p] = list_del(r.queue[b][p], t)
                          /\ \A o \in Prios \ {p} : q[b][o] = r.queue[b][o]
    BY <2>1, <2>5
  <2>10. \A o \in Prios : q[1 - a][o] = << >>
    BY <1>2, <2>6, <2>9, EmptyDel DEF Exact
  <2>11. \A b \in Arrays : \A o \in r2.bitmap[b] : q[b][o] # << >>
    <3> SUFFICES ASSUME NEW b \in Arrays, NEW o \in r2.bitmap[b] PROVE q[b][o] # << >>
      OBVIOUS
    <3>1. CASE b # a
      <4>1. b = 1 - a
        BY <2>6, <3>1 DEF Arrays
      <4>2. o \in r.bitmap[b] /\ o \in Prios
        BY <2>5, <2>7, <3>1
      <4>3. r.queue[b][o] # << >>
        BY <4>2 DEF Exact
      <4> QED  BY <2>6, <4>1, <4>2, <4>3 DEF Exact
    <3>2. CASE b = a /\ o # p
      <4>1. o \in r.bitmap[a] /\ o \in Prios
        BY <2>5, <2>8, <3>2
      <4> QED  BY <2>9, <3>2, <4>1 DEF Exact
    <3>3. CASE b = a /\ o = p
      BY <2>8, <3>3
    <3> QED  BY <3>1, <3>2, <3>3
  <2>12. Exact(r2)
    <3>1. r2.active = a /\ 1 - a \in Arrays \ {a} /\ r2.queue = q
      BY <1>2, <2>3, <2>6, Zenon
    <3>2. r.nr_active[1 - a] = 0
      BY <2>6, Zenon DEF Exact
    <3>3. r2.nr_active[1 - a] = 0
      BY <2>7, <3>1, <3>2, Zenon
    <3> QED  BY <2>8, <2>10, <2>11, <3>1, <3>3, Zenon DEF Exact
  <2> QED  BY <1>3, <2>3, <2>12
<1> QED  BY <1>4, <1>5

(* Nobody is on the run queue when nr_running is 0.                        *)
LEMMA NoneRunning ==
    ASSUME NEW r, QInv(r), r.nr_running = 0
    PROVE  \A t \in Tasks : ~r.on_rq[t]
<1> SUFFICES ASSUME NEW t \in Tasks, r.on_rq[t] PROVE FALSE
  OBVIOUS
<1>1. PICK P \in SUBSET Tasks : P = {u \in Tasks : r.on_rq[u]}
  BY Zenon
<1>2. t \in P /\ Cardinality(P) = 0 /\ P \ {t} \in SUBSET Tasks
  BY <1>1 DEF QInv, CountsRunning
<1>3. Cardinality(P \ {t}) = Cardinality(P) - 1 /\ Cardinality(P \ {t}) \in Nat
  BY <1>2, TasksCount DEF QInv
<1> QED  BY <1>2, <1>3

(* pick_next_task returns the idle task only when no other is ready.       *)
LEMMA ExactPick ==
    ASSUME NEW r, QInv(r), Exact(r), pick_next_task(r) = idle
    PROVE  r.nr_running = 0
<1> SUFFICES ASSUME r.nr_running # 0 PROVE FALSE
  OBVIOUS
<1>1. r \in RunQueueType /\ r.active \in Arrays /\ r.bitmap[r.active] \in SUBSET Prios
  BY Zenon DEF QInv, RunQueueType
<1>2. PICK t \in Tasks : r.on_rq[t]
  <2> SUFFICES ASSUME {t \in Tasks : r.on_rq[t]} = {} PROVE FALSE
    OBVIOUS
  <2> QED  BY Zenon DEF QInv, CountsRunning, Arithmetic, SetsCount
<1>3. PICK a \in Arrays : Holds(r.queue[a][queue_of(r.prio[t])], t)
  BY <1>2, Zenon DEF QInv, QueuesConsistent, OnRqIsQueued, Threads
<1>4. PICK p \in Prios : p = queue_of(r.prio[t])
  BY <1>1, QueueOfType DEF RunQueueType, Threads
<1>5. r.queue[a][p] # << >>
  BY <1>3, <1>4 DEF Holds
<1>6. a = r.active
  BY <1>1, <1>5 DEF Exact, Arrays
<1>7. p \in r.bitmap[r.active]
  BY <1>1, <1>5, <1>6 DEF QInv, BitsCoverQueues
<1>8. PICK b \in r.bitmap[r.active] : b = find_first_bit(r.bitmap[r.active])
  BY <1>1, <1>7, FirstBit DEF QInv, Arithmetic
<1>9. r.queue[r.active][b] # << >> /\ r.queue[r.active][b] \in Seq(Tasks)
  BY <1>1, <1>8 DEF Exact, RunQueueType
<1>10. pick_next_task(r) = Head(r.queue[r.active][b])
  BY <1>7, <1>8, <1>9, Zenon DEF pick_next_task, Exact
<1>11. Head(r.queue[r.active][b]) \in Tasks
  BY <1>9
<1> QED  BY <1>10, <1>11 DEF idle, Tasks

LEMMA ExactSchedule ==
    ASSUME NEW r, QInv(r), Exact(r), r.state[idle] = "RUNNING"
    PROVE  /\ Exact(schedule(r)) /\ Rests(schedule(r))
           /\ schedule(r).prio = r.prio
<1>1. PICK r1 : r1 = IF r.state[r.curr] # "RUNNING" THEN dequeue_task(r, r.curr) ELSE r
  OBVIOUS
<1>2. QInv(r1) /\ Exact(r1) /\ r1.prio = r.prio
  <2>1. r.state[r.curr] # "RUNNING" => r.curr \in Tasks
    BY DEF QInv, RunQueueType, Threads
  <2> QED  BY <1>1, <2>1, Dequeue, ExactDequeue, Zenon
<1>3. PICK m : m = swap_if_empty(r1)
  OBVIOUS
<1>4. PICK r2 : r2 = schedule(r)
  OBVIOUS
<1>5. r2 = [m EXCEPT !.resched[r.curr] = FALSE, !.curr = pick_next_task(m)]
  BY <1>1, <1>3, <1>4, Zenon DEF schedule
<1>6. QInv(m) /\ Exact(m) /\ m.prio = r.prio
  <2>1. CASE r1.nr_active[r1.active] # 0
    BY <1>2, <1>3, <2>1 DEF swap_if_empty
  <2>2. CASE r1.nr_active[r1.active] = 0
    <3>1. r1 \in RunQueueType /\ r1.active \in Arrays /\ 1 - r1.active \in Arrays
      <4>1. r1 \in RunQueueType /\ r1.active \in Arrays
        BY <1>2, Fields DEF QInv
      <4> QED  BY <4>1 DEF Arrays
    <3>2. m = [r1 EXCEPT !.active = 1 - r1.active]
      BY <1>3, <2>2, Zenon DEF swap_if_empty
    <3>3. /\ m \in RunQueueType /\ m.queue = r1.queue /\ m.bitmap = r1.bitmap
          /\ m.nr_running = r1.nr_running /\ m.on_rq = r1.on_rq /\ m.prio = r1.prio
          /\ m.nr_active = r1.nr_active /\ m.active = 1 - r1.active
      BY <3>1, <3>2, ZenonT(60) DEF RunQueueType
    <3>4. QInv(m)
      BY <1>2, <3>3, Frame
    <3>5. r1.nr_running = 0
      BY <1>2, <2>2 DEF Exact
    <3>6. \A p \in Prios : r1.queue[r1.active][p] = << >>
      <4>1. \A t \in Tasks : ~r1.on_rq[t]
        BY <1>2, <3>5, NoneRunning
      <4> SUFFICES ASSUME NEW p \in Prios, r1.queue[r1.active][p] # << >> PROVE FALSE
        OBVIOUS
      <4>2. r1.queue[r1.active][p] \in Seq(Tasks)
        BY <3>1 DEF RunQueueType
      <4>3. Holds(r1.queue[r1.active][p], r1.queue[r1.active][p][1])
            /\ r1.queue[r1.active][p][1] \in Tasks
        <5>1. PICK q \in Seq(Tasks) : q = r1.queue[r1.active][p] /\ q # << >>
          BY <4>2
        <5>2. 1 \in 1 .. Len(q) /\ q[1] \in Tasks
          BY <5>1
        <5> QED  BY <5>1, <5>2 DEF Holds
      <4>4. OnRqIsQueued(r1)
        BY <1>2 DEF QInv, QueuesConsistent
      <4> QED  BY <3>1, <4>1, <4>3, <4>4, SMTT(60) DEF OnRqIsQueued, Threads
    <3>7. 1 - m.active = r1.active
      BY <3>1, <3>3 DEF Arrays
    <3>8. Exact(m)
      BY <1>2, <2>2, <3>3, <3>5, <3>6, <3>7, SMTT(60) DEF Exact
    <3> QED  BY <1>2, <3>3, <3>4, <3>8
  <2> QED  BY <2>1, <2>2
<1>7. m \in RunQueueType /\ pick_next_task(m) \in Threads
  BY <1>6, Pick DEF QInv
<1>8. /\ r2.queue = m.queue /\ r2.bitmap = m.bitmap /\ r2.nr_active = m.nr_active
      /\ r2.nr_running = m.nr_running /\ r2.on_rq = m.on_rq /\ r2.active = m.active
      /\ r2.prio = m.prio /\ r2.curr = pick_next_task(m)
  BY <1>5, <1>7, Zenon DEF RunQueueType
<1>9. Exact(r2)
  BY <1>6, <1>8, ExactSame
<1>10. Rests(r2)
  BY <1>6, <1>8, ExactPick, NoneRunning, Zenon DEF Rests
<1> QED  BY <1>4, <1>6, <1>8, <1>9, <1>10

(* wake_up_process by whoever runs: the idle task, if it is the one, gets  *)
(* its need_resched flag set for a task of higher priority.                *)
LEMMA ExactWake ==
    ASSUME NEW r, QInv(r), Exact(r), NEW t \in Tasks
    PROVE  LET r2 == wake_up_process(r, t) IN
           /\ Exact(r2) /\ r2.prio = r.prio /\ r2.curr = r.curr
           /\ r.state[t] # "RUNNING" /\ r.prio[t] < r.prio[r.curr] => r2.resched[r.curr]
<1>1. CASE r.state[t] = "RUNNING"
  BY <1>1 DEF wake_up_process
<1>2. CASE r.state[t] # "RUNNING"
  <2>1. r \in RunQueueType /\ t \in Threads /\ r.active \in Arrays /\ r.curr \in Threads
    BY Fields, Zenon DEF QInv, Threads
  <2>2. PICK m : m = [r EXCEPT !.state[t] = "RUNNING"]
    BY Zenon
  <2>3. /\ m \in RunQueueType /\ m.queue = r.queue /\ m.bitmap = r.bitmap
        /\ m.nr_running = r.nr_running /\ m.on_rq = r.on_rq /\ m.prio = r.prio
        /\ m.active = r.active /\ m.nr_active = r.nr_active /\ m.curr = r.curr
    BY <2>1, <2>2, ZenonT(60) DEF RunQueueType, TaskStates
  <2>4. QInv(m) /\ Exact(m)
    BY <2>3, Frame, ExactSame
  <2>5. PICK w : w = IF r.on_rq[t] THEN m ELSE enqueue_task(m, t)
    OBVIOUS
  <2>6. Exact(w) /\ w.prio = r.prio /\ w.curr = r.curr /\ w \in RunQueueType
    <3>1. CASE r.on_rq[t]
      BY <2>3, <2>4, <2>5, <3>1
    <3>2. CASE ~r.on_rq[t]
      <4>1. w = add_to(m, m.active, t) /\ m.active \in Arrays /\ ~m.on_rq[t]
        BY <2>1, <2>3, <2>5, <3>2, Zenon DEF enqueue_task
      <4>2. /\ QInv(w) /\ w.on_rq = [m.on_rq EXCEPT ![t] = TRUE]
            /\ w.curr = m.curr /\ w.state = m.state /\ w.chan = m.chan
        BY <2>4, <4>1, Added
      <4>3. Exact(w) /\ w.prio = m.prio
        BY <2>4, <4>1, ExactAdd
      <4> QED  BY <2>3, <4>2, <4>3 DEF QInv
    <3> QED  BY <3>1, <3>2
  <2>7. PICK r2 : r2 = wake_up_process(r, t)
    OBVIOUS
  <2>8. r2 = IF r.prio[t] < r.prio[r.curr] THEN [w EXCEPT !.resched[r.curr] = TRUE] ELSE w
    BY <1>2, <2>2, <2>5, <2>7, Zenon DEF wake_up_process
  <2>9. /\ r2.active = w.active /\ r2.queue = w.queue /\ r2.bitmap = w.bitmap
        /\ r2.nr_active = w.nr_active /\ r2.nr_running = w.nr_running /\ r2.prio = w.prio
        /\ r2.curr = w.curr
        /\ r.prio[t] < r.prio[r.curr] => r2.resched = [w.resched EXCEPT ![r.curr] = TRUE]
    BY <2>6, <2>8, ZenonT(60) DEF RunQueueType
  <2>10. Exact(r2)
    BY <2>6, <2>9, ExactSame
  <2>11. w.resched \in [Threads -> BOOLEAN]
    BY <2>6 DEF RunQueueType
  <2>12. r.prio[t] < r.prio[r.curr] => r2.resched[r.curr]
    BY <2>1, <2>9, <2>11
  <2> QED  BY <2>6, <2>7, <2>9, <2>10, <2>12
<1> QED  BY <1>1, <1>2

LEMMA ExactWakeOne ==
    ASSUME NEW r, QInv(r), Exact(r), NEW t \in Threads, NEW c,
           r.state[t] \in Asleep => t \in Tasks
    PROVE  LET r2 == wakeup_one(r, t, c) IN
           /\ Exact(r2) /\ r2.prio = r.prio /\ r2.curr = r.curr
           /\ r2 = r \/ (r.prio[t] < r.prio[r.curr] => r2.resched[r.curr])
<1>1. CASE ~(r.state[t] \in Asleep /\ r.chan[t] = c)
  BY <1>1 DEF wakeup_one
<1>2. CASE r.state[t] \in Asleep /\ r.chan[t] = c
  <2>1. PICK m : m = [r EXCEPT !.chan[t] = NULL]
    BY Zenon
  <2>2. r \in RunQueueType /\ t \in Tasks
    BY <1>2 DEF QInv
  <2>3. /\ m \in RunQueueType /\ m.queue = r.queue /\ m.bitmap = r.bitmap
        /\ m.nr_running = r.nr_running /\ m.on_rq = r.on_rq /\ m.prio = r.prio
        /\ m.active = r.active /\ m.nr_active = r.nr_active /\ m.curr = r.curr
        /\ m.state = r.state
    BY <2>1, <2>2, ZenonT(60) DEF RunQueueType
  <2>4. QInv(m) /\ Exact(m)
    BY <2>3, Frame, ExactSame
  <2>5. wakeup_one(r, t, c) = wake_up_process(m, t)
    BY <1>2, <2>1 DEF wakeup_one
  <2>6. m.state[t] # "RUNNING"
    BY <1>2, <2>3 DEF Asleep
  <2> QED  BY <2>2, <2>3, <2>4, <2>5, <2>6, ExactWake
<1> QED  BY <1>1, <1>2

LEMMA ExactNew ==
    ASSUME NEW C \in SUBSET Tasks, NEW r, RInv(r, C), Exact(r), NEW t \in Tasks \ C
    PROVE  LET r2 == wake_up_new_task(r, t) IN Exact(r2) /\ r2.prio = r.prio
<1>1. /\ r \in RunQueueType /\ t \in Threads /\ r.active \in Arrays /\ QInv(r)
      /\ r.prio[t] \in Int
  BY Fields, Zenon DEF RInv, QInv, Threads
<1>2. PICK m : m = [r EXCEPT !.state[t] = "RUNNING", !.time_slice[t] = task_timeslice(r.prio[t])]
  OBVIOUS
<1>3. /\ m \in RunQueueType /\ m.queue = r.queue /\ m.bitmap = r.bitmap
      /\ m.nr_running = r.nr_running /\ m.on_rq = r.on_rq /\ m.prio = r.prio
      /\ m.active = r.active /\ m.nr_active = r.nr_active
  BY <1>1, <1>2, SliceType, ZenonT(60) DEF RunQueueType, TaskStates
<1>4. QInv(m) /\ Exact(m)
  BY <1>1, <1>3, Frame, ExactSame
<1>5. wake_up_new_task(r, t) = add_to(m, m.active, t)
  BY <1>2, Zenon DEF wake_up_new_task, enqueue_task
<1> QED  BY <1>3, <1>4, <1>5, ExactAdd

LEMMA ExactBlock ==
    ASSUME NEW C \in SUBSET Tasks, NEW r, RInv(r, C), Exact(r), r.curr # idle,
           NEW st \in TaskStates \ {"RUNNING"}, NEW c \in Chans \cup {NULL}
    PROVE  LET r2 == block(r, st, c) IN Exact(r2) /\ Rests(r2) /\ r2.prio = r.prio
<1>1. r \in RunQueueType /\ r.curr \in Threads /\ idle \in Threads /\ QInv(r)
  BY RInvFacts, Fields, Zenon DEF Threads, RInv
<1>2. PICK m : m = [r EXCEPT !.state[r.curr] = st, !.chan[r.curr] = c]
  OBVIOUS
<1>3. /\ m \in RunQueueType /\ m.queue = r.queue /\ m.bitmap = r.bitmap
      /\ m.nr_running = r.nr_running /\ m.on_rq = r.on_rq /\ m.prio = r.prio
      /\ m.active = r.active /\ m.nr_active = r.nr_active
      /\ m.state = [r.state EXCEPT ![r.curr] = st]
  BY <1>1, <1>2, ZenonT(60) DEF RunQueueType
<1>4. QInv(m) /\ Exact(m)
  BY <1>1, <1>3, Frame, ExactSame
<1>5. m.state[idle] = "RUNNING"
  BY <1>1, <1>3, Fields DEF RInv
<1>6. block(r, st, c) = schedule(m)
  BY <1>2 DEF block
<1>7. Exact(schedule(m)) /\ Rests(schedule(m)) /\ schedule(m).prio = m.prio
  BY <1>4, <1>5, ExactSchedule, Zenon
<1> QED  BY <1>3, <1>6, <1>7, Zenon

LEMMA ExactYield ==
    ASSUME NEW C \in SUBSET Tasks, NEW r, RInv(r, C), Exact(r), r.curr # idle
    PROVE  LET r2 == yield(r) IN Exact(r2) /\ Rests(r2) /\ r2.prio = r.prio
<1>1. /\ r \in RunQueueType /\ r.curr \in Tasks /\ QInv(r) /\ r.active \in Arrays
      /\ r.state[r.curr] = "RUNNING" /\ r.on_rq[r.curr]
  BY RInvFacts, Zenon DEF RInv
<1>2. PICK t \in Tasks : t = r.curr
  BY <1>1
<1>3. PICK d : d = dequeue_task(r, t)
  OBVIOUS
<1>4. /\ QInv(d) /\ d.on_rq = [r.on_rq EXCEPT ![t] = FALSE]
      /\ d.active = r.active /\ d.curr = r.curr /\ d.state = r.state
      /\ Exact(d) /\ d.prio = r.prio
  BY <1>1, <1>3, Dequeue, ExactDequeue, SMTT(60)
<1>5. ~d.on_rq[t]
  BY <1>1, <1>4, Fields, Zenon DEF Threads
<1>6. PICK m : m = add_to(d, d.active, t)
  OBVIOUS
<1>7. /\ QInv(m) /\ m.state = d.state /\ Exact(m) /\ m.prio = d.prio
  <2>1. d.active \in Arrays /\ QInv(d)
    BY <1>1, <1>4, Zenon
  <2>2. /\ QInv(m) /\ m.on_rq = [d.on_rq EXCEPT ![t] = TRUE]
        /\ m.curr = d.curr /\ m.state = d.state /\ m.chan = d.chan
    BY <1>5, <1>6, <2>1, Added
  <2>3. Exact(m) /\ m.prio = d.prio
    BY <1>4, <1>6, ExactAdd
  <2> QED  BY <2>2, <2>3
<1>8. yield(r) = schedule(m)
  BY <1>1, <1>2, <1>3, <1>6, Zenon DEF yield, enqueue_task
<1>9. m.state[idle] = "RUNNING"
  BY <1>4, <1>7 DEF RInv
<1> QED  BY <1>4, <1>7, <1>8, <1>9, ExactSchedule

LEMMA ExactInit ==
    ASSUME NEW pr, NEW r, r = sched_init(pr)
    PROVE  Exact(r) /\ r.prio = pr
<1>1. /\ r.queue = [a \in Arrays |-> [p \in Prios |-> << >>]] /\ r.nr_running = 0
      /\ r.bitmap = [a \in Arrays |-> {}] /\ r.nr_active = [a \in Arrays |-> 0]
      /\ r.active = 0 /\ r.prio = pr
  BY DEF sched_init
<1>2. 0 \in Arrays /\ 1 \in Arrays /\ 1 - 0 = 1
  BY DEF Arrays
<1> QED  BY <1>1, <1>2 DEF Exact
-----------------------------------------------------------------------------
(* The PID allocator.                                                      *)

(* Division by the word size.                                              *)
LEMMA DivMod ==
    ASSUME NEW n \in Nat, NEW w \in Nat \ {0}
    PROVE  /\ n \div w \in Nat /\ n % w \in 0 .. w - 1
           /\ n = (n \div w) * w + (n % w)
<1>1. n % w \in 0 .. w - 1
  OBVIOUS
<1>2. n \div w \in Nat
  OBVIOUS
<1>3. n = w * (n \div w) + (n % w)
  OBVIOUS
<1> QED  BY <1>1, <1>2, <1>3

LEMMA WordOfPid ==
    ASSUME NEW p \in 0 .. PID_MAX - 1
    PROVE  p \div WORD \in 0 .. PID_BITMAP_SIZE - 1
<1> DEFINE q == p \div WORD
           m == PID_MAX + WORD - 1
           z == m \div WORD
<1>1. p \in Nat /\ WORD \in Nat \ {0} /\ m \in Nat /\ p + WORD <= m
  BY PidAssumption
<1>2. q \in Nat /\ p % WORD \in 0 .. WORD - 1 /\ p = q * WORD + (p % WORD)
  BY <1>1, DivMod, Zenon
<1>3. z \in Nat /\ m % WORD \in 0 .. WORD - 1 /\ m = z * WORD + (m % WORD)
  BY <1>1, DivMod, Zenon
<1> HIDE DEF q, z, m
<1>4. q * WORD < z * WORD
  BY <1>1, <1>2, <1>3
<1>5. q < z
  BY <1>1, <1>2, <1>3, <1>4
<1> QED  BY <1>2, <1>3, <1>5 DEF PID_BITMAP_SIZE, q, z, m

(* alloc_pid's loop visits every word.                                     *)
LEMMA VisitsEveryWord ==
    ASSUME NEW last \in 0 .. PID_MAX - 1, NEW idx \in 0 .. PID_BITMAP_SIZE - 1
    PROVE  \E i \in 0 .. PID_BITMAP_SIZE - 1 : word_at(last, i) = idx
<1> DEFINE start == IF last + 1 >= PID_MAX THEN 1 ELSE last + 1
           st == start \div WORD
           N == PID_BITMAP_SIZE
<1>1. start \in 0 .. PID_MAX - 1
  BY PidAssumption
<1>2. st \in 0 .. N - 1
  BY <1>1, WordOfPid
<1>3. \A i : word_at(last, i) = (st + i) % N
  BY DEF word_at
<1>0. N \in Int
  BY PidAssumption DEF PID_BITMAP_SIZE
<1> HIDE DEF st, start, N
<1>4. N \in Nat \ {0}
  BY <1>0, <1>2
<1>5. CASE idx >= st
  <2>1. idx - st \in 0 .. N - 1 /\ (st + (idx - st)) % N = idx
    BY <1>2, <1>4, <1>5 DEF N
  <2> QED  BY <2>1, <1>3 DEF N
<1>6. CASE idx < st
  <2>1. idx - st + N \in 0 .. N - 1 /\ st + (idx - st + N) = idx + N
    BY <1>2, <1>4, <1>6 DEF N
  <2>2. (idx + N) % N = idx
    BY <1>4 DEF N
  <2> QED  BY <2>1, <2>2, <1>3 DEF N
<1> QED  BY <1>2, <1>5, <1>6 DEF N

(* What alloc_pid returns: a PID that is not in the bitmap, or -1 when     *)
(* there is none.                                                          *)
LEMMA AllocPidFinds ==
    ASSUME WellOrdered, NEW b \in SUBSET (0 .. PID_MAX - 1), 0 \in b, NEW last \in 0 .. PID_MAX - 1
    PROVE  \/ alloc_pid(b, last) \in Pids \ b
           \/ alloc_pid(b, last) = -1 /\ Pids \subseteq b
<1> DEFINE hits == {i \in 0 .. PID_BITMAP_SIZE - 1 : usable(b, last, i)}
           first == CHOOSE i \in hits : \A j \in hits : i <= j
<1>1. CASE hits # {}
  <2>1. hits \in SUBSET Nat
    OBVIOUS
  <2>2. \E i \in hits : \A j \in hits : i <= j
    BY <1>1, <2>1, Least, Zenon
  <2>3. first \in hits
    BY <2>2
  <2> DEFINE idx == word_at(last, first)
  <2>4. alloc_pid(b, last) = idx * WORD + ffs_zero(b, idx)
    BY <1>1 DEF alloc_pid
  <2>5. usable(b, last, first)
    BY <2>3
  <2> HIDE DEF first, hits
  <2>6. zero_bits(b, idx) # {} /\ idx * WORD + ffs_zero(b, idx) \in 1 .. PID_MAX - 1
    BY <2>5 DEF usable
  <2> HIDE DEF idx
  <2>7. zero_bits(b, idx) \in SUBSET Nat
    BY DEF zero_bits
  <2>8. \E x \in zero_bits(b, idx) : \A y \in zero_bits(b, idx) : x <= y
    BY <2>6, <2>7, Least
  <2>9. ffs_zero(b, idx) \in zero_bits(b, idx)
    BY <2>8 DEF ffs_zero
  <2>10. idx * WORD + ffs_zero(b, idx) \notin b
    BY <2>9 DEF zero_bits
  <2> QED  BY <2>4, <2>6, <2>10 DEF Pids
<1>2. CASE hits = {}
  <2> SUFFICES ASSUME NEW p \in Pids, p \notin b PROVE FALSE
    BY <1>2 DEF alloc_pid
  <2> DEFINE idx == p \div WORD
  <2>1. p \in 0 .. PID_MAX - 1 /\ p \in Nat /\ WORD \in Nat \ {0}
    BY PidAssumption DEF Pids
  <2>2. idx \in 0 .. PID_BITMAP_SIZE - 1 /\ idx \in Nat
    BY <2>1, WordOfPid
  <2>3. p % WORD \in 0 .. WORD - 1 /\ p = idx * WORD + (p % WORD)
    BY <2>1, DivMod
  <2>4. PICK i \in 0 .. PID_BITMAP_SIZE - 1 : word_at(last, i) = idx
    BY <2>2, VisitsEveryWord
  <2> DEFINE r == p % WORD
             f == ffs_zero(b, idx)
             w == idx * WORD
  <2> HIDE DEF idx, r
  <2>5. r \in zero_bits(b, idx)
    BY <2>3 DEF zero_bits, r
  <2>6. zero_bits(b, idx) \in SUBSET Nat
    BY DEF zero_bits
  <2>7. \E x \in zero_bits(b, idx) : \A y \in zero_bits(b, idx) : x <= y
    BY <2>5, <2>6, Least
  <2>8. f \in zero_bits(b, idx) /\ f <= r
    BY <2>5, <2>7 DEF ffs_zero
  <2>9. w + f \notin b /\ f \in Nat
    BY <2>6, <2>8 DEF zero_bits
  <2>10. w \in Nat /\ r \in Nat /\ p = w + r
    BY <2>1, <2>2, <2>3, <2>5, <2>6 DEF r
  <2> HIDE DEF f, w
  <2>11. w + f \in 1 .. PID_MAX - 1
    <3>1. w + f # 0
      BY <2>9
    <3>2. PID_MAX \in Int /\ p <= PID_MAX - 1
      BY PidAssumption DEF Pids
    <3> QED  BY <3>1, <3>2, <2>8, <2>9, <2>10
  <2>12. usable(b, last, i)
    BY <2>4, <2>5, <2>11 DEF usable, f, w
  <2> QED  BY <1>2, <2>12
<1> QED  BY <1>1, <1>2
=============================================================================
