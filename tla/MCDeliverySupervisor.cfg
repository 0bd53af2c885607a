SPECIFICATION Spec
CONSTANTS
  a = a
  Items = {a}
  MaxAttempts = 2
  MaxRuns = 2
  MaxCrashes = 1
INVARIANT OneAgentPerItem
PROPERTY EachStreamConsumedOnce
 
PROPERTY ReadCompletionIsKept
PROPERTY NoAttemptForgotten
