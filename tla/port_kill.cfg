SPECIFICATION MCSpec
CONSTANTS
  s1 = s1
  s2 = s2
  Text <- AnyText
  Conn = {s1, s2}
  NoConn = NoConn
  Lines <- AllLines
  Scripts <- OneScript
  Styles <- TwoStyles
  MaxLines = 1
  PortMayBeTaken = FALSE
INVARIANTS
  RepliesGoToLiveSockets
