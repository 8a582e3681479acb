SPECIFICATION FairSpec
CONSTANTS
  s1 = s1  s2 = s2  r1 = r1  r2 = r2
  Slice <- MCSlice
  Milestone = ms
  Main = main
  Nobody = nobody
  Plan <- MCPlan
  Reviewer <- MCReviewer
  Critic = {r1}
  Verifier = verifier
  Location = {1}
  Severity = {1, 3}
  High = 1
  Report <- MCReport
  MaxCycles = 1
  MaxEdits = 1
  MaxFixCycles = 1
  MaxTries <- MCTries
  MaxOthers = 1
INVARIANTS
  ApprovalIsEarned
PROPERTIES
  SettledStays
  MergedIsKept
  MilestoneClosesWhole
  CommandsReturn
CHECK_DEADLOCK FALSE
