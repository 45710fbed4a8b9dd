SPECIFICATION Spec
CONSTANTS
  Keys <- MCKeys
  TestScripts <- MCTestScripts
  DemoPath = "demo.sh"
  NoPath = ""
  Child = {c1}
  DbOpen = TRUE
  StartTimeouts = FALSE
  MaxRuns = 1
  MaxQueue = 1
INVARIANTS
  StopOkMeansSignalled
