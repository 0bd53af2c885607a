SPECIFICATION Spec
CONSTANTS
  a = a  b = b  c = c  d = d  e = e
  r1 = r1  r2 = r2
  Items = {a, b, c, d, e}
  BlockedBy <- Diamond
  Completed = {e}
  Policies = {"wave_barrier", "continuous_frontier"}
  Revisions = {r1, r2}
  InitialRevision = r1
  MaxWaves = 4
INVARIANT TypeOK
INVARIANT BlockersFirst
INVARIANT WaveStatesTruthful
INVARIANT BarrierTracksWave
INVARIANT InFlightOnOneBase
PROPERTY BarrierHolds
\* The scheduler stops when every item is released or the wave bound is met.
CHECK_DEADLOCK FALSE
