SPECIFICATION FairSpec
CONSTANTS
  Web = {w1, w2}
  Main = Main
  NoThread = NoThread
  Texts <- OneText
  Schedules <- OneFile
  MaxHandlers = 2
  MaxPages = 2
INVARIANTS
  PageIsASnapshot
  TableIsOfOneFile
PROPERTIES
  ThreadsComeBack
\* With MaxHandlers handlers and MaxPages pages done the model stops.  A thread
\* that waits for ever for a mutex is seen by ThreadsComeBack.
CHECK_DEADLOCK FALSE
