------------------------------ MODULE PidAlloc ------------------------------
(***************************************************************************)
(* alloc_pid and free_pid under arbitrary callers.  Each call runs under   *)
(* pid_lock, so it is one step.  held is the set of PIDs callers own: they *)
(* got it from alloc_pid and have not freed it (release_task and the error *)
(* paths of copy_process free the PID of the task they give up, and        *)
(* release_task of PID 0 or a failed PID is what the range test is for).   *)
(***************************************************************************)
EXTENDS PidBitmap

VARIABLES pid_bitmap, last_pid,
          held,     \* PIDs in use
          ret       \* what the last call returned, 0 after free_pid
pidVars == <<pid_bitmap, last_pid, held, ret>>

(* fork_init reserves PID 0.                                               *)
PidInit == pid_bitmap = {0} /\ last_pid = 0 /\ held = {} /\ ret = 0

AllocPid_no_mark ==
    /\ ret' = alloc_pid(pid_bitmap, last_pid)
    /\ IF ret' = -1 THEN UNCHANGED <<pid_bitmap, last_pid, held>>
       ELSE /\ UNCHANGED pid_bitmap
            /\ last_pid' = ret'
            /\ held' = held \cup {ret'}

AllocPid ==
    /\ ret' = alloc_pid(pid_bitmap, last_pid)
    /\ IF ret' = -1 THEN UNCHANGED <<pid_bitmap, last_pid, held>>
       ELSE /\ pid_bitmap' = pid_bitmap \cup {ret'}
            /\ last_pid' = ret'
            /\ held' = held \cup {ret'}

FreePid(pid) ==
    /\ pid_bitmap' = free_pid(pid_bitmap, pid)
    /\ held' = held \ {pid}
    /\ ret' = 0
    /\ UNCHANGED last_pid

PidNext == AllocPid \/ \E pid \in held \cup {-1, 0, PID_MAX} : FreePid(pid)

PidSpec == PidInit /\ [][PidNext]_pidVars
-----------------------------------------------------------------------------
(* The bitmap, the PIDs in use and what alloc_pid returns stay in range,   *)
(* in the partial last word too.                                           *)
PidTypes ==
    /\ pid_bitmap \subseteq 0 .. PID_MAX - 1
    /\ last_pid \in 0 .. PID_MAX - 1
    /\ held \subseteq Pids
    /\ ret \in Pids \cup {-1, 0}

(* The bitmap holds PID 0 and the PIDs in use, no more: a PID is neither   *)
(* leaked nor lost whatever the order of calls.                            *)
BitmapExact == pid_bitmap = held \cup {0}

(* alloc_pid never hands out a PID that is in use.                         *)
NeverInUse == [][ret' > 0 => ret' \in Pids \ held]_pidVars

(* alloc_pid gives up only when every PID is in use, wherever last_pid     *)
(* points and whatever the last, partial, word of the bitmap looks like.   *)
FailsOnlyWhenFull == ret = -1 => held = Pids
=============================================================================
