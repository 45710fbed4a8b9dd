SPECIFICATION FairSpec
CONSTANTS
  Keys <- MCKeys
  TestScripts <- MCTestScripts
  DemoPath = "demo.sh"
  NoPath = ""
  Child = {c1}
  DbOpen = TRUE
  StartTimeouts = FALSE
  MaxRuns = 2
  MaxQueue = 1
INVARIANTS
  
  ReportedScriptIsTheRunningOne
  RowsReferToTheirRun
  NoOutputIsStranded
PROPERTIES
  ImplementsJobJournal
  EndedScriptIsCleanedUp
