\* Three tasks at two priorities, every time slice, the timer ticking.
CONSTANTS
  NULL = NULL
  Chans = {c1}
  NTASKS = 3
  MAX_PRIO = 4
  MAX_RT_PRIO = 1
  DEFAULT_PRIO = 2
  DEF_TIMESLICE = 1
  MIN_TIMESLICE = 1
  MAX_TIMESLICE = 1
  PrioChoices = {1, 2}
  MaxActive = 2
  TimerTicks = TRUE
SPECIFICATION Spec
INVARIANTS TypeOK RunQueueExact RunnableIsQueued
PROPERTIES ZombieStaysDead PicksHighestPriority
