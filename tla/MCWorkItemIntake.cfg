SPECIFICATION Spec
CONSTANTS
  a = a  b = b  c = c  x = x
  Team <- ThreeIssues
  Foreign = {x}
  PageSize = 2
  MaxRetries = 1
  MaxEdits = 1
  MaxErrors = 1
  MaxInvented = 1
  MaxMishaps = 1
  MaxRelations = 3
INVARIANT AcceptedIsAcyclic
INVARIANT ReportedCycleIsReal
INVARIANT SettledTeamIsJudgedRight
PROPERTY IntakeEnds
\* The intake ends, accepted or refused.
CHECK_DEADLOCK FALSE
