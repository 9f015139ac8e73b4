\* Three words, the last one partial: PIDs 1..7, PID 0 reserved.
CONSTANTS
  PID_MAX = 8
  WORD = 3
SPECIFICATION PidSpec
INVARIANTS BitmapExact 
PROPERTY NeverInUse
