SPECIFICATION MCSpec
CONSTANTS
  s1 = s1
  s2 = s2
  Text <- AnyText
  Conn = {s1, s2}
  NoConn = NoConn
  Lines <- AllLines
  Scripts <- OneScript
  Styles <- TwoStyles
  MaxLines = 2
  PortMayBeTaken = TRUE
INVARIANTS
  AnswersFollowRequests
  StatusShowsLastWrites
PROPERTIES
  FailChangesNothing
  LinesAreAnswered
