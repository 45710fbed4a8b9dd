SPECIFICATION FairSpec
CONSTANTS
  Proc = {p1, p2, p3}
  NoProc = NoProc
  MaxCrashes = 2
INVARIANTS
  AtMostOneRuns
  RefusedForAReason
  RunnerKeepsItsSegment
PROPERTIES
  StartIsAnswered
