--------------------------- MODULE TaskResources ---------------------------
(***************************************************************************)
(* What tasks hold besides the processor: address spaces (struct mm_struct *)
(* with its mm_users) and open files (ofile[], file_desc_t, file_t), as    *)
(* fork.c, exit.c, exec.c, syscalls.c and the context switch hand them on. *)
(*                                                                         *)
(* An element of Mms, Descs or Files stands for an address that kmalloc    *)
(* may hand out again once it is free.  No task ever has a files_struct or *)
(* fs_struct, nothing reads mm_count, and every pgd is NULL, so that satp  *)
(* stays with the kernel's tables: these are left out.  A step that would  *)
(* read a freed descriptor is not taken; what it would do is not defined.  *)
(***************************************************************************)
EXTENDS Integers, FiniteSets

CONSTANTS Idle, Tasks,        \* init_task, and the structures of task_cache
          Mms, Descs, Files,
          MAX_OPEN_FILES,
          MaxUsers            \* bound of mm_users in the model

NULL == "NULL"

ASSUME ResourcesAssumption ==
    /\ IsFiniteSet(Tasks) /\ Idle \notin Tasks
    /\ NULL \notin Mms \cup Descs \cup Files
    /\ MAX_OPEN_FILES \in Nat \ {0} /\ MaxUsers \in Nat \ {0}

VARIABLES state,       \* state[t]: "none", "live" or "zombie"
          current,     \* get_current()
          mm, active_mm,
          mm_users,    \* 0: not allocated
          ofile,       \* ofile[t][fd]
          desc,        \* desc[d]: the file_t of descriptor d, or NULL when free
          opened       \* the file_t that are allocated

resourceVars == <<state, current, mm, active_mm, mm_users, ofile, desc, opened>>
spaces == <<mm, active_mm, mm_users>>
tables == <<ofile, desc, opened>>

All == Tasks \cup {Idle}
fds == 0 .. MAX_OPEN_FILES - 1
NoFiles == [fd \in fds |-> NULL]

ResourcesTyped ==
    /\ state \in [All -> {"none", "live", "zombie"}] /\ current \in All
    /\ mm \in [All -> Mms \cup {NULL}] /\ active_mm \in [All -> Mms \cup {NULL}]
    /\ mm_users \in [Mms -> 0 .. MaxUsers]
    /\ ofile \in [All -> [fds -> Descs \cup {NULL}]]
    /\ desc \in [Descs -> Files \cup {NULL}]
    /\ opened \subseteq Files

ResourcesInit ==
    /\ state = [t \in All |-> IF t = Idle THEN "live" ELSE "none"]
    /\ current = Idle
    /\ mm = [t \in All |-> NULL] /\ active_mm = [t \in All |-> NULL]
    /\ mm_users = [m \in Mms |-> 0]
    /\ ofile = [t \in All |-> NoFiles]
    /\ desc = [d \in Descs |-> NULL] /\ opened = {}

-----------------------------------------------------------------------------
(* Address spaces.                                                         *)

(* A free address for mm_alloc, mm_users being 1 from then on.             *)
mm_alloc(m) == mm_users[m] = 0

copy_mm_uncounted(p, clone_vm) ==
    \/ /\ mm[current] = NULL
       /\ mm' = [mm EXCEPT ![p] = NULL] /\ active_mm' = [active_mm EXCEPT ![p] = NULL]
       /\ UNCHANGED mm_users
    \/ /\ mm[current] # NULL
       /\ mm' = [mm EXCEPT ![p] = mm[current]]
       /\ active_mm' = [active_mm EXCEPT ![p] = mm[current]]
       /\ UNCHANGED mm_users

(* The child of a kernel thread has no address space; with CLONE_VM the    *)
(* child shares its parent's, without it gets one of its own.              *)
copy_mm(p, clone_vm) ==
    \/ /\ mm[current] = NULL
       /\ mm' = [mm EXCEPT ![p] = NULL] /\ active_mm' = [active_mm EXCEPT ![p] = NULL]
       /\ UNCHANGED mm_users
    \/ /\ mm[current] # NULL /\ clone_vm
       /\ mm_users[mm[current]] < MaxUsers
       /\ mm_users' = [mm_users EXCEPT ![mm[current]] = @ + 1]
       /\ mm' = [mm EXCEPT ![p] = mm[current]]
       /\ active_mm' = [active_mm EXCEPT ![p] = mm[current]]
    \/ /\ mm[current] # NULL /\ ~clone_vm
       /\ \E m \in Mms :
             /\ mm_alloc(m)
             /\ mm_users' = [mm_users EXCEPT ![m] = 1]
             /\ mm' = [mm EXCEPT ![p] = m]
             /\ active_mm' = [active_mm EXCEPT ![p] = m]

exit_mm_twice(t) ==
    IF mm[t] = NULL THEN mm_users ELSE [mm_users EXCEPT ![mm[t]] = @ - 2]

(* exit_mm drops tsk->mm and leaves tsk->active_mm; mm_free when the last  *)
(* user is gone.                                                           *)
exit_mm_users(t) ==
    IF mm[t] = NULL THEN mm_users ELSE [mm_users EXCEPT ![mm[t]] = @ - 1]

context_switch_keeps(prev, next, space) ==
    [active_mm EXCEPT ![next] = IF space[next] = NULL THEN active_mm[prev] ELSE @]

(* The active_mm of all tasks after context_switch, space being the mm of  *)
(* all tasks: a kernel thread borrows the address space that was active,   *)
(* and gives up its own borrowing when it is switched away from.           *)
context_switch(prev, next, space) ==
    LET borrowed == [active_mm EXCEPT ![next] = IF space[next] = NULL THEN active_mm[prev] ELSE @]
    IN  [borrowed EXCEPT ![prev] = IF space[prev] = NULL THEN NULL ELSE @]

schedule(next) ==
    /\ next # current /\ state[next] = "live"
    /\ current' = next
    /\ active_mm' = context_switch(current, next, mm)
    /\ UNCHANGED <<state, mm, mm_users>> /\ UNCHANGED tables

(* load_elf_from_memory gives a task that is there a new address space.    *)
(* The old one is not dropped; when there is no memory for the segments or *)
(* the stack the new one is freed again, and nothing has changed.          *)
load_elf_from_memory(t) ==
    /\ state[t] = "live"
    /\ \E m \in Mms :
          /\ mm_alloc(m)
          /\ mm_users' = [mm_users EXCEPT ![m] = 1]
          /\ mm' = [mm EXCEPT ![t] = m]
          /\ active_mm' = [active_mm EXCEPT ![t] = m]
    /\ UNCHANGED <<state, current>> /\ UNCHANGED tables

-----------------------------------------------------------------------------
(* Creation and end of tasks.                                              *)

(* The child's table: a copy of the pointers, or with CLONE_FILES the      *)
(* empty one the structure was cleared to.  Nothing is counted.            *)
copy_files(clone_files) == IF clone_files THEN NoFiles ELSE ofile[current]

(* copy_process; when copy_mm finds no memory the task is given back.      *)
do_fork(p, clone_vm, clone_files) ==
    /\ state[p] = "none"
    /\ copy_mm(p, clone_vm)
    /\ ofile' = [ofile EXCEPT ![p] = copy_files(clone_files)]
    /\ state' = [state EXCEPT ![p] = "live"]
    /\ UNCHANGED <<current, desc, opened>>

kernel_thread(p) ==
    /\ state[p] = "none"
    /\ state' = [state EXCEPT ![p] = "live"]
    /\ mm' = [mm EXCEPT ![p] = NULL] /\ active_mm' = [active_mm EXCEPT ![p] = NULL]
    /\ ofile' = [ofile EXCEPT ![p] = NoFiles]
    /\ UNCHANGED <<current, mm_users, desc, opened>>

(* do_exit up to the task it switches to.  exit_files clears the table and *)
(* closes nothing.                                                         *)
do_exit(next) ==
    /\ current # Idle
    /\ next # current /\ state[next] = "live"
    /\ mm_users' = exit_mm_users(current)
    /\ mm' = [mm EXCEPT ![current] = NULL]
    /\ ofile' = [ofile EXCEPT ![current] = NoFiles]
    /\ state' = [state EXCEPT ![current] = "zombie"]
    /\ current' = next
    /\ active_mm' = context_switch(current, next, mm')
    /\ UNCHANGED <<desc, opened>>

release_task(p) ==
    /\ state[p] = "zombie"
    /\ state' = [state EXCEPT ![p] = "none"]
    /\ UNCHANGED <<current, mm, active_mm, mm_users>> /\ UNCHANGED tables

-----------------------------------------------------------------------------
(* System calls on files.                                                  *)

(* The lowest free descriptor, or -1.                                      *)
fdalloc(t) ==
    LET free == {fd \in fds : ofile[t][fd] = NULL}
    IN  IF free = {} THEN -1 ELSE CHOOSE fd \in free : \A g \in free : fd <= g

sys_open_keeps_file(d, f) ==
    /\ desc[d] = NULL /\ f \notin opened
    /\ \/ /\ fdalloc(current) = -1
          /\ opened' = opened \cup {f} /\ UNCHANGED <<ofile, desc>>
       \/ /\ fdalloc(current) # -1
          /\ opened' = opened \cup {f}
          /\ desc' = [desc EXCEPT ![d] = f]
          /\ ofile' = [ofile EXCEPT ![current][fdalloc(current)] = d]
    /\ UNCHANGED <<state, current>> /\ UNCHANGED spaces

(* vfs_open gives file f and kmalloc descriptor d.  With no entry in the   *)
(* table the file is closed and the descriptor freed again; with no memory *)
(* for the descriptor the file is closed, which changes nothing either.    *)
sys_open(d, f) ==
    /\ desc[d] = NULL /\ f \notin opened
    /\ \/ /\ fdalloc(current) = -1
          /\ UNCHANGED tables
       \/ /\ fdalloc(current) # -1
          /\ opened' = opened \cup {f}
          /\ desc' = [desc EXCEPT ![d] = f]
          /\ ofile' = [ofile EXCEPT ![current][fdalloc(current)] = d]
    /\ UNCHANGED <<state, current>> /\ UNCHANGED spaces

sys_close(fd) ==
    LET d == ofile[current][fd] IN
    /\ d # NULL /\ desc[d] # NULL
    /\ opened' = opened \ {desc[d]}
    /\ desc' = [desc EXCEPT ![d] = NULL]
    /\ ofile' = [ofile EXCEPT ![current][fd] = NULL]
    /\ UNCHANGED <<state, current>> /\ UNCHANGED spaces

ResourcesNext ==
    \/ \E t \in All : schedule(t)
    \/ \E t \in Tasks : load_elf_from_memory(t)
    \/ \E p \in Tasks, clone_vm, clone_files \in BOOLEAN : do_fork(p, clone_vm, clone_files)
    \/ \E p \in Tasks : kernel_thread(p)
    \/ \E t \in All : do_exit(t)
    \/ \E p \in Tasks : release_task(p)
    \/ \E d \in Descs, f \in Files : sys_open(d, f)
    \/ \E fd \in fds : sys_close(fd)

ResourcesSpec == ResourcesInit /\ [][ResourcesNext]_resourceVars
-----------------------------------------------------------------------------
users(m) == {t \in All : mm[t] = m}

(* mm_free never takes the address space of a task away: mm_users counts   *)
(* at least the tasks that have the mm, whoever forked, shared, replaced   *)
(* or left it.  (It counts more than those after load_elf_from_memory.)    *)
SpaceOutlivesUsers ==
    \A m \in Mms : mm_users[m] >= Cardinality(users(m))

(* exit_mm frees the mm while active_mm still points to it.  That pointer  *)
(* stays with the task that runs: every other task's active_mm is its own  *)
(* mm, so no freed address space is ever switched to later.                *)
StalePointerConfined ==
    \A t \in All \ {current} : active_mm[t] = mm[t]

(* Every open file belongs to exactly one descriptor, and so can be closed *)
(* once and only once; sys_open leaves none behind when it fails.          *)
FilesHeldOnce ==
    /\ opened = {desc[d] : d \in Descs} \ {NULL}
    /\ \A d, e \in Descs : desc[d] = desc[e] /\ desc[d] # NULL => d = e

(* A descriptor a task has open is not freed memory.                       *)
DescriptorsLive ==
    \A t \in All, fd \in fds : ofile[t][fd] # NULL => desc[ofile[t][fd]] # NULL
=============================================================================
