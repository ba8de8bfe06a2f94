\* The constants are those of the timer tasklet's queue; MCWorkQueue gives the
\* other two instances theirs.
CONSTANTS
  NULL = NULL
  Works = {t1, t2, t3}
  Callers = {tmr_task, isr}
  Requeue = FALSE
  MaxSize = 3
  SemMax = 2
SPECIFICATION MCSpec
INVARIANTS ListShape AnyWakeUpKept
PROPERTIES FifoSpec MoalWorkRuns
