SPECIFICATION Spec
CONSTANTS
  Timers = {t1, t2}
  Threads = {h1, h2}
  Nobody = Nobody
  Spokes = 2
  TimeMod = 3
  Delays = {1, 2}
  SigMax = 1
INVARIANTS WheelSound NeverMissed
PROPERTIES TimerServiceSpec RunningEnds
