-------------------------------- MODULE WebApp --------------------------------
(***************************************************************************)
(* The parts of QtWebApp that the threads of a server share, the response  *)
(* a thread writes, and the style file.  They share nothing with each      *)
(* other, so each behaviour is about one of them, the scene; the variables *)
(* of the others are idle.                                                 *)
(***************************************************************************)
EXTENDS Integers, Sequences, FiniteSets

CONSTANTS Threads, MaxTime, MaxSessionTime, MaxEdits,
          cacheTimeout,                                 \* of either cache
          Ids, Keys, NoSession, expirationTime,         \* HttpSessionStore.tla
          Paths, Files, FileOf, Outside, Suffix, Size,  \* StaticFiles.tla
          maxCachedFileSize, maxFileCost,
          Languages, Locales, Default, Freed, maxTemplateCost,   \* TemplateCache.tla
          Names, Types, minLevel, bufferSize, maxSize, maxBackups,  \* FileLogger.tla
          MaxMessages, MaxFiles, MaxCrashes, MaxRefreshes,
          Word, None, Number, Cookies, Parts, MaxWrites,        \* HttpResponse.tla
          Sheets                                                \* DisplayStyles.tla

VARIABLES scene, now, web, timer, disk, replaced, cache, recent,
          data, sessions, touched,                             \* sessions
          buffers, fileName, open, unflushed, written, aborting, count, crashes, refreshes,
          ask, pc, headers, cookies, sentHeaders, sentLastPart, chunkedMode, isOpen,
          sent, kept, wrote,                                   \* responses
          sheet, events, in, inFontType, inColorType, currentStyle, styleVec, parsed  \* styles

idle == "idle"
sessionVars == <<data, sessions, touched>>
logVars == <<buffers, fileName, open, unflushed, written, aborting, count, crashes, refreshes>>
responseVars == <<ask, pc, headers, cookies, sentHeaders, sentLastPart, chunkedMode,
                  isOpen, sent, kept, wrote>>
styleVars == <<sheet, events, in, inFontType, inColorType, currentStyle, styleVec, parsed>>
sharedVars == <<now, web, timer, disk, replaced, cache, recent>>
vars == <<scene, sharedVars, sessionVars, logVars, responseVars, styleVars>>

Sessions == INSTANCE HttpSessionStore WITH MaxTime <- MaxSessionTime
Static == INSTANCE StaticFiles WITH maxCost <- maxFileCost
Templates == INSTANCE TemplateCache WITH maxCost <- maxTemplateCost
Logging == INSTANCE FileLogger
Response == INSTANCE HttpResponse WITH written <- wrote
Xml == INSTANCE DisplayStyles

(* The settings the parts are given.  The values of a setting are what the *)
(* code converts its text to.                                              *)
(* What a cookie is made of are words, none of them a separator; its name  *)
(* is not that of an attribute, and its numbers can be written.  A handler *)
(* writes words.                                                           *)
(* A style has the elements the parser knows, and anything may be amiss    *)
(* after the styles.                                                       *)
ASSUME ThreadsAssumption == IsFiniteSet(Threads)
ASSUME SessionsAssumption == NoSession \notin Ids /\ expirationTime \in Nat
ASSUME FilesAssumption == FileOf \in [Paths -> Files] /\ cacheTimeout \in Nat
ASSUME TemplatesAssumption ==
  /\ Freed \notin Nat
  /\ \A l \in Languages : Locales[l] \in Seq({Locales[l][k] : k \in DOMAIN Locales[l]})
ASSUME LogAssumption == MaxFiles \in Nat /\ maxBackups \in Int
ASSUME CookiesAssumption ==
  /\ Word \cap {Response!Semi, Response!Eq, Response!Quote, None} = {}
  /\ None \notin Response!Attributes
  /\ Number \in [DOMAIN Number -> Word] /\ DOMAIN Number \subseteq Int
  /\ \A m, n \in DOMAIN Number : Number[m] = Number[n] => m = n
  /\ Cookies \subseteq Response!Cookie
  /\ \A c \in Cookies : /\ c.name \notin Response!Attributes
                        /\ {c.maxAge, c.version} \subseteq DOMAIN Number
ASSUME PartsAssumption == Parts \subseteq Seq(STRING)
ASSUME SheetsAssumption ==
  \A sh \in Sheets :
    /\ sh.styles \in Seq(Xml!ToSet(sh.styles))
    /\ \A s \in Xml!ToSet(sh.styles) : Xml!IsStyle(s)

Init ==
  /\ scene \in {"sessions", "files", "templates", "log", "response", "styles"}
  /\ IF scene = "sessions" THEN Sessions!Init
     ELSE data = idle /\ sessions = idle /\ touched = idle
  /\ IF scene = "files" THEN Static!Init ELSE TRUE
  /\ IF scene = "templates" THEN Templates!Init ELSE TRUE
  /\ IF scene = "log" THEN Logging!Init
     ELSE /\ buffers = idle /\ fileName = idle /\ open = idle /\ unflushed = idle
          /\ written = idle /\ aborting = idle
          /\ count = idle /\ crashes = idle /\ refreshes = idle
  /\ IF scene = "response" THEN Response!Init
     ELSE /\ ask = idle /\ pc = idle /\ headers = idle /\ cookies = idle
          /\ sentHeaders = idle /\ sentLastPart = idle /\ chunkedMode = idle
          /\ isOpen = idle /\ sent = idle /\ kept = idle /\ wrote = idle
  /\ IF scene = "styles" THEN Xml!Init
     ELSE /\ sheet = idle /\ events = idle /\ in = idle /\ inFontType = idle
          /\ inColorType = idle /\ currentStyle = idle /\ styleVec = idle /\ parsed = idle
  /\ scene \notin {"sessions", "log"} => timer = idle
  /\ scene \in {"log", "response", "styles"} => now = idle /\ web = idle
  /\ scene \in {"sessions", "response", "styles"} => disk = idle
  /\ scene \notin {"files", "templates"} => replaced = idle /\ cache = idle /\ recent = idle

Next ==
  /\ UNCHANGED scene
  /\ \/ /\ scene = "sessions" /\ Sessions!Next
        /\ UNCHANGED <<disk, replaced, cache, recent, logVars, responseVars, styleVars>>
     \/ /\ scene = "files" /\ Static!Next
        /\ UNCHANGED <<timer, sessionVars, logVars, responseVars, styleVars>>
     \/ /\ scene = "templates" /\ Templates!Next
        /\ UNCHANGED <<timer, sessionVars, logVars, responseVars, styleVars>>
     \/ /\ scene = "log" /\ Logging!Next
        /\ UNCHANGED <<now, web, replaced, cache, sessionVars, recent, responseVars,
                       styleVars>>
     \/ /\ scene = "response" /\ Response!Next
        /\ UNCHANGED <<sharedVars, sessionVars, logVars, styleVars>>
     \/ /\ scene = "styles" /\ Xml!Next
        /\ UNCHANGED <<sharedVars, sessionVars, logVars, responseVars>>

Spec == Init /\ [][Next]_vars

(* The data of a session lives exactly as long as there are handles to it  *)
(* (HttpSessionStore.tla).                                                 *)
SessionsAreCounted == scene = "sessions" => Sessions!SessionsAreCounted

(* The session timer keeps what was returned in time, and leaves nothing   *)
(* overdue (HttpSessionStore.tla).                                         *)
RenewedInTimeIsKept == scene = "sessions" => Sessions!RenewedInTimeIsKept

(* No static file is served that was replaced longer ago than the cache    *)
(* may remember (StaticFiles.tla).                                         *)
ServedIsFresh == scene = "files" => Static!ServedIsFresh

(* A browser gets the best template for its languages, as far as the cache *)
(* may remember which files there are (TemplateCache.tla).                 *)
BestTemplateIsGiven == scene = "templates" => Templates!BestTemplateIsGiven

(* Rotation drops the oldest messages of a log only (FileLogger.tla).      *)
LogKeepsItsEnd == scene = "log" => Logging!LogKeepsItsEnd

(* The client can tell from what is on the wire what the handler wrote and *)
(* where it ends (HttpResponse.tla).                                       *)
FramedAsWritten == scene = "response" => Response!FramedAsWritten

(* The styles of the window are those of the file, up to the first element *)
(* amiss (DisplayStyles.tla).                                              *)
StylesAreAsWritten == scene = "styles" => Xml!StylesAreAsWritten
===============================================================================
