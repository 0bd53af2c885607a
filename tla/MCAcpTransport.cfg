SPECIFICATION Spec
CONSTANTS
  Runs = {r1, r2}
  Main = Main
  None = None
  MaxIds = 4
  MaxEvents = 2
INVARIANT SessionsKeptApart
PROPERTY LoneRequestReturns
PROPERTY EndReachesEveryRun
\* Everybody may wait for an answer another thread has read.
CHECK_DEADLOCK FALSE
