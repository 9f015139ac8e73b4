\* As the kernel runs today: the timer does not call scheduler_tick, and
\* tasks have the one priority that fork.c gives.
CONSTANTS
  NULL = NULL
  Chans = {c1, c2}
  NTASKS = 3
  MAX_PRIO = 4
  MAX_RT_PRIO = 1
  DEFAULT_PRIO = 2
  DEF_TIMESLICE = 1
  MIN_TIMESLICE = 1
  MAX_TIMESLICE = 2
  PrioChoices = {2}
  MaxActive = 3
  TimerTicks = FALSE
SPECIFICATION FairSpec
INVARIANTS ArrayCountsExact IdleOnlyWhenNothingReady
PROPERTY EveryReadyTaskRuns
