SPECIFICATION Spec
CONSTANTS
  Keys <- MCKeys
  TestScripts <- MCTestScripts
  DemoPath = "demo.sh"
  NoPath = ""
  Child = {c1}
  DbOpen = TRUE
  StartTimeouts = TRUE
  MaxRuns = 2
  MaxQueue = 1
INVARIANTS
  LogFileIsOwned
