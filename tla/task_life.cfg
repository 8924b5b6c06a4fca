\* Eight steps of one task: two full rounds on the CPU and what comes between.
CONSTANTS
  Half = 536870912
  QUANTUM = 1000
  SLICE_MIN = 10
  SLICE_ULL = 50
  SLICE_LL = 100
  SLICE_MLL = 500
  SLICE_NL = 1000
  SLICE_ENL = 5000
  SLICE_MAX = 20000
  SLICE_LAT = 100
  PERIOD = 80000
  PRED_MIN = 1
  PRED_MAX = 1000000
  WEIGHT_MIN = 1
  WEIGHT_BASE = 128
  WEIGHT_MAX = 16384
  RED_EMAX = 256
  RED_TOL = 64
  VLAG_MAX = 2000
  LAT_SLEEP_MIN = 20
  RESUME_GAP = 5000000
  PROP_MAX = 1000
  DEADBAND_MIN = 8
  PREEMPT_MARGIN = 100
  PREEMPT_TAIL = 100
  D_LAT = 4000
  Runs = {40, 900, 300000, 6000000}
  Waits = {0, 30000}
  Sleeps = {200, 100000}
  Hints <- MCHints
  Weights = {100, 1024}
  Charges = {50000}
  COUNT_MAX = 2
  CLOCK_MAX = 500000000
  MaxOps = 8
SPECIFICATION Spec
INVARIANTS TypeOK KeyWithinPeriod FreshDeadlineNeverRejected
PROPERTIES ChargesOnlyService OneBoost LeftoverNeverGrows LatencyStopsCapped
CHECK_DEADLOCK FALSE
