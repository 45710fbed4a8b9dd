SPECIFICATION Spec
CONSTANTS
  Clients <- MCClients
  maxSize = 14
  maxMultiPartSize = 24
  ReadBlock = 4
  Documents <- MCDocuments
  Forests <- MCForests
  MaxRepetitions = 2
  Text <- STRING
  driver = "py"
  NoConn = "none"
  Scripts <- MCScripts
  Styles <- MCStyles
  PortMayBeTaken = TRUE
  Texts <- MCTexts
  LastPid = 5
  MaxForks = 3
CHECK_DEADLOCK FALSE
INVARIANTS
  
  TemplateRendersAsMeant
  
  
