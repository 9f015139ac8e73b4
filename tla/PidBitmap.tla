------------------------------ MODULE PidBitmap ------------------------------
(***************************************************************************)
(* The PID allocator of kernel/fork.c as operators on its two globals:     *)
(* b, the set of PIDs whose bit is set in pid_bitmap, and last, last_pid.  *)
(* The code's words have 64 bits and PID_MAX is 32768; both are constants  *)
(* here, and PID_MAX need not be a multiple of the word size.              *)
(***************************************************************************)
EXTENDS Integers

CONSTANTS PID_MAX, WORD

ASSUME PidAssumption == PID_MAX \in Nat \ {0, 1} /\ WORD \in Nat \ {0}

Pids == 1 .. PID_MAX - 1      \* PID 0 is the idle task's
PID_BITMAP_SIZE == (PID_MAX + WORD - 1) \div WORD

(* The clear bits of word idx, and ffs_zero of a word that has one.        *)
zero_bits(b, idx) == {bit \in 0 .. WORD - 1 : idx * WORD + bit \notin b}
ffs_zero(b, idx) ==
    CHOOSE bit \in zero_bits(b, idx) : \A c \in zero_bits(b, idx) : bit <= c

(* The word that iteration i of alloc_pid looks at.                        *)
word_at(last, i) ==
    LET start == IF last + 1 >= PID_MAX THEN 1 ELSE last + 1
    IN  (start \div WORD + i) % PID_BITMAP_SIZE

(* Iteration i finds a PID it may return.                                  *)
usable(b, last, i) ==
    LET idx == word_at(last, i) IN
    /\ zero_bits(b, idx) # {}
    /\ idx * WORD + ffs_zero(b, idx) \in 1 .. PID_MAX - 1

alloc_pid_one_word_short(b, last) ==
    LET hits == {i \in 0 .. PID_BITMAP_SIZE - 2 : usable(b, last, i)}
        idx == word_at(last, CHOOSE i \in hits : \A j \in hits : i <= j)
    IN  IF hits = {} THEN -1 ELSE idx * WORD + ffs_zero(b, idx)

(* The PID that alloc_pid returns, -1 when the loop finds none.  A PID it  *)
(* returns it also marks in the bitmap and stores in last_pid.             *)
alloc_pid(b, last) ==
    LET hits == {i \in 0 .. PID_BITMAP_SIZE - 1 : usable(b, last, i)}
        idx == word_at(last, CHOOSE i \in hits : \A j \in hits : i <= j)
    IN  IF hits = {} THEN -1 ELSE idx * WORD + ffs_zero(b, idx)

free_pid_unchecked(b, pid) == b \ {pid}

(* free_pid: PIDs out of range are ignored.                                *)
free_pid(b, pid) == IF pid <= 0 \/ pid >= PID_MAX THEN b ELSE b \ {pid}
=============================================================================
