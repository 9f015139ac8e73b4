\* As in the kernel: as many task_structs as task_table entries, so that the
\* table may be full when a task_struct is still to be had.  The task without an
\* entry is never woken, and the others may end up waiting for it: SomebodyRuns
\* says that nothing else stops the system, so deadlock is not checked.
CHECK_DEADLOCK FALSE
CONSTANTS
  NULL = NULL
  NTASKS = 3
  Chans = {0, 1, 2, 3}
  MAX_PROCS = 3
  MAX_PRIO = 3
  MAX_RT_PRIO = 1
  DEFAULT_PRIO = 1
  DEF_TIMESLICE = 1
  MIN_TIMESLICE = 1
  MAX_TIMESLICE = 1
  PID_MAX = 5
  WORD = 3
SPECIFICATION FairSpec
INVARIANTS TypeOK TreeConsistent NoDanglingTask NoMissedChild SomebodyRuns
PROPERTIES ImplementsProcLife 
