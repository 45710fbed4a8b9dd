SPECIFICATION Spec
CONSTANTS
  t1 = t1
  t2 = t2
  d1 = d1
  d2 = d2
  Threads <- MCThreads
  MaxTime = 2
  MaxSessionTime = 1
  MaxEdits = 1
  cacheTimeout = 1
  Ids <- MCIds
  Keys = {"startTime"}
  NoSession = NoSession
  expirationTime = 0
  Paths = {"/dir", "/dir/index", "/huge", "/../x"}
  Files = {"index", "huge"}
  FileOf <- MCFileOf
  Outside = {"/../x"}
  Suffix <- MCSuffix
  Size <- MCSize
  maxCachedFileSize = 3
  maxFileCost = 3
  Languages = {"de"}
  Locales <- MCLocales
  Default = "any"
  Freed = Freed
  maxTemplateCost = 1
  Names = {"a", "b"}
  Types = {0, 1, 2, 3, 4}
  minLevel = 0
  bufferSize = 2
  maxSize = 1
  maxBackups = 2
  MaxMessages = 4
  MaxFiles = 5
  MaxCrashes = 1
  MaxRefreshes = 1
  Word = {"a", "b", "c", "x", "y", "z", "p", "hi", "dom", "0", "1", "2"}
  None = "none"
  Number <- MCNumber
  Cookies <- MCCookies
  Parts <- MCParts
  MaxWrites = 2
  Sheets <- MCSheets
SYMMETRY Symmetry
CHECK_DEADLOCK FALSE
INVARIANTS
  SessionsAreCounted
  RenewedInTimeIsKept
  
  
  
  
  StylesAreAsWritten
