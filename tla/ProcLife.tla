------------------------------ MODULE ProcLife ------------------------------
(***************************************************************************)
(* What fork, exit and wait promise, with no scheduler and no tables: a    *)
(* process is created by a live process, becomes a zombie once, is         *)
(* released once and only by its parent, and is handed over to process 0   *)
(* when its parent exits.                                                  *)
(***************************************************************************)
EXTENDS Naturals

CONSTANT Procs            \* processes other than 0
VARIABLES status, par
lifeVars == <<status, par>>

LifeInit == status = [p \in Procs |-> "free"] /\ par = [p \in Procs |-> 0]

Create(c, p) ==
    /\ status[c] = "free"
    /\ p # 0 => status[p] = "live"
    /\ status' = [status EXCEPT ![c] = "live"]
    /\ par' = [par EXCEPT ![c] = p]

Finish(p) ==
    /\ status[p] = "live"
    /\ status' = [status EXCEPT ![p] = "zombie"]
    /\ par' = [c \in Procs |-> IF par[c] = p THEN 0 ELSE par[c]]

Release(c) ==
    /\ status[c] = "zombie"
    /\ par[c] # 0 => status[par[c]] = "live"
    /\ status' = [status EXCEPT ![c] = "free"]
    /\ par' = [par EXCEPT ![c] = 0]

LifeNext ==
    \E c \in Procs : \/ \E p \in Procs \cup {0} : Create(c, p)
                     \/ Finish(c)
                     \/ Release(c)

LifeSpec == LifeInit /\ [][LifeNext]_lifeVars
=============================================================================
