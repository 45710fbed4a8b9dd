---------------------------- MODULE ScriptControl ----------------------------
(***************************************************************************)
(* The script lifecycle of MainWindow: who may start and stop the          *)
(* background script, the QProcess that runs it, the temporary file its    *)
(* output goes to, and the rows DatabaseLogger stores about it.            *)
(*                                                                         *)
(* Every handler runs on the main thread, one at a time (pc = "loop"       *)
(* between two of them).  startBgProcess blocks that thread inside         *)
(* waitForStarted and stopBgProcess between its scan of /proc and kill(2): *)
(* meanwhile HTTP threads post events and the script goes on.              *)
(***************************************************************************)
EXTENDS Integers, Sequences

CONSTANTS Keys,          \* keys a user, a port client or a web client may name
          TestScripts,   \* scripts.xml in file order, [key |-> , path |-> ]
          DemoPath,      \* ~/.testdisplay/launch-demo.sh
          NoPath,        \* the empty QString
          Child,         \* processes a script may fork
          DbOpen,        \* the constructor found the database
          StartTimeouts, \* waitForStarted may give up (30 s) on a slow exec
          MaxRuns,       \* bound: temporary files ever made
          MaxQueue       \* bound: events posted by HTTP threads

Paths == {TestScripts[i].path : i \in DOMAIN TestScripts} \cup {DemoPath}
Files == 1 .. MaxRuns
NoFile == 0

ASSUME ConstantsAssumption ==
  /\ TestScripts \in Seq([key : Keys, path : Paths])
  /\ NoPath \notin Paths
  /\ DbOpen \in BOOLEAN /\ StartTimeouts \in BOOLEAN
  /\ MaxRuns \in Nat /\ MaxQueue \in Nat

VARIABLES
  app,               \* "up", "closing" (closeEvent ran), "gone", "crashed"
  pc,                \* "loop", "waiting" (waitForStarted), "signalling"
  caller,            \* "gui" or the port command whose reply is due
  asked,             \* script_path of the startBgProcess in progress
  target,            \* the child found by the stopBgProcess in progress
  bgRunning,
  runningScriptName,
  scriptLogFile,     \* the file the pointer owns, NoFile for nullptr
  nextFile,          \* unique names of QTemporaryFile
  disk,              \* the temporary files that exist
  written,           \* file -> the program whose output it holds, NoPath if empty
  sMessage,          \* which of its messages the display shows
  proc,              \* "none", "starting", "running", "exited" (a zombie)
  procPath,          \* the program QProcess really runs ...
  procLog,           \* ... and the file name it was given
  kids,              \* child -> "absent", "alive", "zombie", "hit" (SIGINT)
  queue,             \* posted runCommand / stopCommand events
  event,             \* the event table; a row's event_id is its position
  lastStartId,
  reply              \* last reply to RUNK or STOP; done is bResult

mainVars == <<pc, caller, asked, target>>
fileVars == <<scriptLogFile, nextFile, disk, written>>
procVars == <<proc, procPath, procLog>>
logVars  == <<event, lastStartId>>
vars == <<app, mainVars, bgRunning, runningScriptName, fileVars, sMessage,
          procVars, kids, queue, logVars, reply>>

Row(type, script, ref) == [type |-> type, script |-> script, ref |-> ref]
Run(p) == [cmd |-> "run", path |-> p]
Stop   == [cmd |-> "stop", path |-> NoPath]
NoReply == [cmd |-> "none", text |-> "none", done |-> FALSE]

Alive == app \in {"up", "closing"}

(* Mutant: the scan of /proc serves events while it runs.                  *)
AtLoopOrScanning == Alive /\ pc # "waiting"
AtLoop == Alive /\ pc = "loop"

Return == pc' = "loop" /\ caller' = "gui" /\ asked' = NoPath

(* The first script of the list with that key, NoPath for a null pointer.  *)
getScriptForKey(k) ==
  LET hits == {i \in DOMAIN TestScripts : TestScripts[i].key = k}
  IN IF hits = {} THEN NoPath
     ELSE TestScripts[CHOOSE i \in hits : \A j \in hits : i <= j].path

Init ==
  /\ app = "up" /\ pc = "loop" /\ caller = "gui" /\ asked = NoPath
  /\ target \in Child
  /\ bgRunning = FALSE /\ runningScriptName = NoPath
  /\ scriptLogFile = NoFile /\ nextFile = 1
  /\ disk = {} /\ written = [f \in Files |-> NoPath]
  /\ sMessage = "default"
  /\ proc = "none" /\ procPath = NoPath /\ procLog = NoFile
  /\ kids = [c \in Child |-> "absent"]
  /\ queue = <<>> /\ event = <<>> /\ lastStartId = -1 /\ reply = NoReply

-----------------------------------------------------------------------------
(* DatabaseLogger::handleLog.  Any insert may fail: START then leaves 0 in *)
(* lastStartId, the others leave no trace.                                 *)

(* Mutant: the -1 of "no START yet" is stored as it is.                    *)
RawRef == lastStartId
Ref == IF lastStartId # -1 THEN lastStartId ELSE 0

(* Mutant: START does not reset lastStartId before the insert.             *)
LogStartNoReset(p) ==
  IF ~DbOpen THEN UNCHANGED logVars
  ELSE \/ /\ event' = Append(event, Row("START", p, 0))
          /\ lastStartId' = Len(event) + 1
       \/ UNCHANGED logVars

LogStart(p) ==
  IF ~DbOpen THEN UNCHANGED logVars
  ELSE \/ /\ event' = Append(event, Row("START", p, 0))
          /\ lastStartId' = Len(event) + 1
       \/ UNCHANGED event /\ lastStartId' = 0

LogEnd(p, output) ==
  /\ UNCHANGED lastStartId
  /\ \E stop \in {<<>>, <<Row("STOP", p, Ref)>>},
        log \in {<<>>, <<Row("LOG", output, Ref)>>} :
       /\ output = NoPath => log = <<>>
       /\ event' = IF DbOpen THEN event \o stop \o log ELSE event

-----------------------------------------------------------------------------
(* MainWindow::startBgProcess up to waitForStarted.  QProcess::start on a  *)
(* process that is not NotRunning only prints a warning.                   *)

(* Mutant: a temporary file that cannot be opened is deleted at once.      *)
NewLogFileOrNull ==
  /\ nextFile' = nextFile + 1
  /\ \/ disk' = disk \cup {nextFile} /\ scriptLogFile' = nextFile
     \/ disk' = disk /\ scriptLogFile' = NoFile

(* The object stays, with an empty name, when the file cannot be opened.   *)
NewLogFile ==
  /\ nextFile' = nextFile + 1
  /\ disk' \in {disk, disk \cup {nextFile}} /\ scriptLogFile' = nextFile

(* Mutant: the file is closed but left in the temporary directory.         *)
CloseLogFile == UNCHANGED disk /\ scriptLogFile' = NoFile
DropLogFile == disk' = disk \ {scriptLogFile} /\ scriptLogFile' = NoFile

(* Mutant: the name of the script survives it.                             *)
ForgetFlagOnly == bgRunning' = FALSE /\ UNCHANGED runningScriptName
ForgetScript == bgRunning' = FALSE /\ runningScriptName' = NoPath

StartBgProcess(p, who) ==
  /\ ~bgRunning /\ nextFile \in Files
  /\ sMessage' = "Starting"
  /\ NewLogFile /\ UNCHANGED written
  /\ IF proc = "none"
     THEN proc' = "starting" /\ procPath' = p /\ procLog' = nextFile
     ELSE UNCHANGED procVars
  /\ pc' = "waiting" /\ caller' = who /\ asked' = p
  /\ UNCHANGED <<app, target, bgRunning, runningScriptName, kids, logVars>>

Answer(cmd, done, text) ==
  reply' = IF cmd = "gui" THEN reply
           ELSE [cmd |-> cmd, text |-> text, done |-> done]

StartSucceeds ==
  /\ Alive /\ pc = "waiting"
  /\ proc' = IF proc = "starting" THEN "running" ELSE proc
  /\ proc # "none"
  /\ runningScriptName' = asked /\ LogStart(asked) /\ bgRunning' = TRUE
  /\ Answer(caller, TRUE, "OK")
  /\ Return
  /\ UNCHANGED <<app, target, fileVars, sMessage, procPath, procLog, kids, queue>>

StartFails ==
  /\ Alive /\ pc = "waiting" /\ proc = "starting"
  /\ proc' \in {"none"} \cup (IF StartTimeouts THEN {"starting"} ELSE {})
  /\ ForgetScript
  /\ sMessage' = "StartFailed"
  /\ Answer(caller, FALSE, "FAIL")
  /\ Return
  /\ UNCHANGED <<app, target, fileVars, procPath, procLog, kids, queue, logVars>>

(* MainWindow::stopBgProcess: the scan of /proc, which may fail or find no *)
(* child, then SIGINT to the first child found.                            *)
StopBgProcess(who) ==
  /\ bgRunning
  /\ sMessage' = "Stopping"
  /\ \/ /\ \E c \in Child : kids[c] # "absent" /\ target' = c
        /\ pc' = "signalling" /\ caller' = who /\ UNCHANGED reply
     \/ Answer(who, FALSE, "OK") /\ UNCHANGED <<pc, caller, target>>
  /\ UNCHANGED <<app, asked, bgRunning, runningScriptName, fileVars, procVars,
                 kids, logVars>>

SignalChild ==
  /\ Alive /\ pc = "signalling"
  /\ kids' = [kids EXCEPT ![target] = IF @ = "alive" THEN "hit" ELSE @]
  /\ Answer(caller, TRUE, "OK")
  /\ Return
  /\ UNCHANGED <<app, target, bgRunning, runningScriptName, fileVars, sMessage,
                 procVars, queue, logVars>>

(* MainWindow::processComplete, on QProcess::finished.                     *)
ProcessComplete ==
  /\ AtLoop /\ proc = "exited"
  /\ LogEnd(runningScriptName, written[scriptLogFile])
  /\ DropLogFile /\ ForgetScript
  /\ proc' = "none"
  /\ UNCHANGED <<app, mainVars, nextFile, written, sMessage, procPath, procLog,
                 kids, queue, reply>>
-----------------------------------------------------------------------------
(* Who asks.                                                               *)

(* keyPressEvent: S stops; any other key starts its script.                *)
KeyStop == AtLoop /\ app = "up" /\ StopBgProcess("gui") /\ UNCHANGED queue

KeyStart(k) ==
  /\ AtLoop /\ app = "up" /\ getScriptForKey(k) # NoPath
  /\ StartBgProcess(getScriptForKey(k), "gui")
  /\ UNCHANGED <<queue, reply>>

(* The D key and mytouchEvent.                                             *)
DemoStart ==
  /\ AtLoop /\ app = "up" /\ StartBgProcess(DemoPath, "gui")
  /\ UNCHANGED <<queue, reply>>

(* Scheduler::runCommand: a direct call; its commands are any programs.    *)
SchedulerStart(p) ==
  /\ AtLoop /\ StartBgProcess(p, "gui") /\ UNCHANGED <<queue, reply>>

Refused(cmd) ==
  /\ Answer(cmd, FALSE, "FAIL")
  /\ UNCHANGED <<app, mainVars, bgRunning, runningScriptName, fileVars,
                 sMessage, procVars, kids, queue, logVars>>

CmdRunk(k) ==
  /\ AtLoop /\ app = "up"
  /\ LET p == getScriptForKey(k)
     IN IF p = NoPath \/ bgRunning THEN Refused("RUNK")
        ELSE StartBgProcess(p, "RUNK") /\ UNCHANGED <<queue, reply>>

CmdStop ==
  /\ AtLoop /\ app = "up"
  /\ IF bgRunning THEN StopBgProcess("STOP") /\ UNCHANGED queue
     ELSE Refused("STOP")

(* service() on an HTTP thread, at any moment: the signal is queued.       *)
Post(e) ==
  /\ Alive /\ Len(queue) < MaxQueue
  /\ queue' = Append(queue, e)
  /\ UNCHANGED <<app, mainVars, bgRunning, runningScriptName, fileVars,
                 sMessage, procVars, kids, logVars, reply>>

(* /run/<key>: the null pointer of an unknown key is dereferenced.         *)
HttpRun(k) ==
  IF getScriptForKey(k) # NoPath THEN Post(Run(getScriptForKey(k)))
  ELSE /\ Alive /\ app' = "crashed"
       /\ UNCHANGED <<mainVars, bgRunning, runningScriptName, fileVars,
                      sMessage, procVars, kids, queue, logVars, reply>>

HttpStop == Post(Stop)

(* The event loop delivers the oldest posted event to runCommand or        *)
(* stopCommand, which ignore what startBgProcess and stopBgProcess return. *)
Dispatch ==
  /\ AtLoop /\ queue # <<>>
  /\ queue' = Tail(queue)
  /\ LET e == Head(queue)
     IN IF bgRunning = (e.cmd = "run")
        THEN UNCHANGED <<app, mainVars, bgRunning, runningScriptName, fileVars,
                         sMessage, procVars, kids, logVars, reply>>
        ELSE \/ e.cmd = "run" /\ StartBgProcess(e.path, "gui") /\ UNCHANGED reply
             \/ e.cmd = "stop" /\ StopBgProcess("gui")

(* Q, KILL or the window manager; then exec() returns, ~MainWindow closes  *)
(* the database and ~QProcess kills the script, which still reaches        *)
(* processComplete: the file goes, no row is stored.                       *)
Close ==
  /\ AtLoop /\ app = "up" /\ app' = "closing"
  /\ UNCHANGED <<mainVars, bgRunning, runningScriptName, fileVars, sMessage,
                 procVars, kids, queue, logVars, reply>>

Destroy ==
  /\ AtLoop /\ app = "closing" /\ app' = "gone"
  /\ proc' = "none" /\ queue' = <<>>
  /\ \/ proc \in {"none", "starting"}
        /\ UNCHANGED <<bgRunning, runningScriptName, disk, scriptLogFile>>
     \/ proc # "none" /\ ForgetScript /\ DropLogFile
  /\ UNCHANGED <<mainVars, nextFile, written, sMessage, procPath, procLog, kids,
                 logVars, reply>>
-----------------------------------------------------------------------------
(* The script and the kernel.                                              *)

Untouched == UNCHANGED <<app, mainVars, bgRunning, runningScriptName,
                         scriptLogFile, nextFile, disk, sMessage, procPath,
                         procLog, queue, logVars, reply>>

ScriptWrites ==
  /\ proc = "running" /\ procLog \in disk /\ written[procLog] = NoPath
  /\ written' = [written EXCEPT ![procLog] = procPath]
  /\ Untouched /\ UNCHANGED <<proc, kids>>

ScriptForks(c) ==
  /\ proc = "running" /\ kids[c] = "absent"
  /\ kids' = [kids EXCEPT ![c] = "alive"]
  /\ Untouched /\ UNCHANGED <<proc, written>>

ChildEnds(c) ==
  /\ kids[c] \in {"alive", "hit"}
  /\ kids' = [kids EXCEPT ![c] = "zombie"]
  /\ Untouched /\ UNCHANGED <<proc, written>>

ScriptReaps(c) ==
  /\ proc = "running" /\ kids[c] = "zombie"
  /\ kids' = [kids EXCEPT ![c] = "absent"]
  /\ Untouched /\ UNCHANGED <<proc, written>>

(* Orphans get another parent.                                             *)
ScriptExits ==
  /\ proc = "running" /\ proc' = "exited"
  /\ kids' = [c \in Child |-> "absent"]
  /\ Untouched /\ UNCHANGED written

(* A start that timed out is settled later: the notifier of the start pipe *)
(* fires while no startBgProcess waits for it.                             *)
LateStart ==
  /\ AtLoop /\ proc = "starting" /\ proc' \in {"running", "none"}
  /\ Untouched /\ UNCHANGED <<written, kids>>

Terminated == ~Alive /\ UNCHANGED vars

Environment ==
  /\ Alive
  /\ \/ ScriptWrites \/ ScriptExits \/ LateStart
     \/ \E c \in Child : ScriptForks(c) \/ ChildEnds(c) \/ ScriptReaps(c)

Handlers ==
  \/ StartSucceeds \/ StartFails \/ SignalChild \/ ProcessComplete
  \/ KeyStop \/ DemoStart \/ CmdStop \/ Dispatch \/ Close \/ Destroy
  \/ \E k \in Keys : KeyStart(k) \/ CmdRunk(k)
  \/ \E p \in Paths : SchedulerStart(p)

HttpThreads == HttpStop \/ \E k \in Keys : HttpRun(k)

Next == Handlers \/ HttpThreads \/ Environment \/ Terminated

(* waitForStarted and kill(2) return; the event loop serves every notifier *)
(* and posted event that stays ready, whatever else it also serves.        *)
Fairness ==
  /\ WF_vars(StartSucceeds \/ StartFails) /\ WF_vars(SignalChild)
  /\ SF_vars(ProcessComplete) /\ SF_vars(Dispatch)

Spec == Init /\ [][Next]_vars
FairSpec == Spec /\ Fairness
-----------------------------------------------------------------------------
Names  == Paths \cup {NoPath}
Posted == {Stop} \cup {Run(p) : p \in Paths}
Rows   == [type : {"START", "STOP", "LOG"}, script : Names, ref : Nat]

(* Every variable has its type.                                            *)
TypeOK ==
  /\ app \in {"up", "closing", "gone", "crashed"}
  /\ pc \in {"loop", "waiting", "signalling"}
  /\ caller \in {"gui", "RUNK", "STOP"}
  /\ asked \in Names /\ target \in Child
  /\ bgRunning \in BOOLEAN /\ runningScriptName \in Names
  /\ scriptLogFile \in Files \cup {NoFile} /\ nextFile \in 1 .. MaxRuns + 1
  /\ disk \subseteq Files /\ written \in [Files -> Names]
  /\ sMessage \in {"default", "Starting", "Stopping", "StartFailed"}
  /\ proc \in {"none", "starting", "running", "exited"}
  /\ procPath \in Names /\ procLog \in Files \cup {NoFile}
  /\ kids \in [Child -> {"absent", "alive", "zombie", "hit"}]
  /\ queue \in Seq(Posted) /\ event \in Seq(Rows)
  /\ lastStartId \in Nat \cup {-1}
  /\ reply \in [cmd : {"none", "RUNK", "STOP"}, text : {"none", "OK", "FAIL"},
                done : BOOLEAN]

(* processComplete reads through scriptLogFile without a test: whenever a  *)
(* process may still finish, the pointer is not null.  True even when      *)
(* starts time out and a later start takes over the process of an earlier. *)
LogFileIsOwned == Alive /\ proc # "none" => scriptLogFile # NoFile

(* SIGINT is sent only while the script it is meant for is the running one.*)
SignalsOwnScript ==
  pc = "signalling" => bgRunning /\ proc \in {"running", "exited"}

(* What STAT and the web page report is what runs: between two handlers a  *)
(* script is reported running exactly while QProcess has one, under the    *)
(* name of that program, and its log is the file that program was given.   *)
ReportedScriptIsTheRunningOne ==
  /\ bgRunning => /\ runningScriptName = procPath
                  /\ scriptLogFile = procLog
  /\ ~bgRunning => runningScriptName = NoPath
  /\ AtLoop => (bgRunning <=> proc \in {"running", "exited"})

(* Every row of the journal that names a START names the one of its own    *)
(* run, and no START is named by two STOP rows.                            *)
RowsReferToTheirRun ==
  \A i \in DOMAIN event :
    LET r == event[i].ref IN
    /\ event[i].type = "START" => r = 0
    /\ r # 0 => /\ r < i /\ event[r].type = "START"
                /\ event[r].script = event[i].script
                /\ \A j \in r + 1 .. i - 1 :
                     /\ event[j].type = "STOP" /\ event[j].ref = r
                     /\ event[i].type = "LOG"

(* No output of a script is stranded: a temporary file that holds output is*)
(* the log of the run in progress, to be read and removed when it ends.    *)
NoOutputIsStranded ==
  app # "crashed" =>
    \A f \in disk : written[f] # NoPath => f = scriptLogFile /\ proc # "none"

(* Without timed out starts: the inductive strengthening of the three      *)
(* invariants above and of the refinement below.  It ties the slot to the  *)
(* process in every state of the main thread, and the log to its run.      *)
SlotInv ==
  /\ bgRunning => /\ proc \in {"running", "exited"} /\ pc # "waiting"
                  /\ runningScriptName = procPath /\ scriptLogFile = procLog
                  /\ DbOpen => lastStartId # -1
  /\ ~bgRunning => runningScriptName = NoPath /\ pc # "signalling"
  /\ pc = "waiting" => proc = "starting" /\ procPath = asked
  /\ proc = "none" \/ bgRunning \/ pc = "waiting"
  /\ proc # "none" => procLog = scriptLogFile /\ procPath \in Paths

LogInv ==
  /\ \A f \in Files : f >= nextFile => written[f] = NoPath
  /\ proc # "none" => procLog \in Files /\ procLog < nextFile
  /\ proc = "starting" => written[procLog] = NoPath
  /\ proc # "none" => written[procLog] \in {NoPath, procPath}
  /\ \A f \in disk : written[f] # NoPath => f = scriptLogFile /\ proc # "none"

(* A script that ended is taken notice of: the slot is freed and the       *)
(* temporary file it wrote to is removed, unless the application crashed.  *)
EndedScriptIsCleanedUp ==
  \A f \in Files : (proc = "exited" /\ procLog = f) ~>
                   (proc = "none" /\ f \notin disk) \/ app = "crashed"

(* Script control keeps the promise of JobJournal: one job at a time, the  *)
(* rows of a job consecutive and referring to its START.                   *)
Journal == INSTANCE JobJournal WITH
  slot <- runningScriptName,
  start <- IF bgRunning /\ DbOpen THEN lastStartId ELSE 0,
  rows <- event
ImplementsJobJournal == Journal!Spec

(* readme.md: a reply is OK or FAIL "to indicate whether the command       *)
(* completed successfully".                                                *)
StopOkMeansSignalled == reply.cmd = "STOP" /\ reply.text = "OK" => reply.done
=============================================================================
