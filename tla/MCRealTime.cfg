\* Two seconds of four ticks: the real-time loop waits one tick, the monitor two.
\* The default target is on the ring, so that the choice falls into a cycle that
\* drives another slave; one amplitude does not fit into 16 bits.  Of the sine
\* TLC takes the two extremes.
CONSTANTS
  SECOND = 4
  RT_LOOP_WAIT_TIME = 1
  MONITOR_LOOP_WAIT_TIME = 2
  MaxTime = 8
  N = 2
  DefaultTarget = 1
  Amplitudes = {40000}
  SineSteps = 1
SPECIFICATION Spec
INVARIANTS
  Paced
  Commanded
