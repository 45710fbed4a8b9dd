------------------------- MODULE ScriptControlProofs -------------------------
(***************************************************************************)
(* Theorems about ScriptControl for every list of scripts, every number of *)
(* runs and posted events.                                                 *)
(***************************************************************************)
EXTENDS ScriptControl, SequenceTheorems, WellFoundedInduction, TLAPS

-----------------------------------------------------------------------------
(* Lookup, journal and queue stay within their types.                      *)

LEMMA LookupType ==
  ASSUME NEW k
  PROVE  getScriptForKey(k) \in Names
<1> DEFINE hits == {i \in DOMAIN TestScripts : TestScripts[i].key = k}
<1>1. CASE hits = {}
  BY <1>1 DEF getScriptForKey, Names
<1>2. CASE hits # {}
  <2>0. hits \subseteq Nat
    BY ConstantsAssumption
  <2>1. \E i \in hits : \A j \in hits : i <= j
    <3>1. PICK i \in hits : \A j \in hits : ~(<<j, i>> \in OpToRel(<, Nat))
      BY <1>2, <2>0, NatLessThanWellFounded, WFMin
    <3>2. \A j \in hits : j < i <=> <<j, i>> \in OpToRel(<, Nat)
      BY <2>0 DEF OpToRel
    <3>3. \A j \in hits : i <= j
      <4>1. SUFFICES ASSUME NEW j \in hits PROVE i <= j
        OBVIOUS
      <4>2. i \in Nat /\ j \in Nat /\ ~(j < i)
        BY <2>0, <3>1, <3>2
      <4>. QED
        BY <4>2
    <3>. QED
      BY <3>3
  <2>2. PICK i \in hits : i = CHOOSE h \in hits : \A j \in hits : h <= j
    BY <2>1
  <2>. QED
    BY <1>2, <2>2 DEF getScriptForKey, Names, Paths
<1>. QED
  BY <1>1, <1>2

LEMMA RowType ==
  /\ \A p \in Names : Row("START", p, 0) \in Rows
  /\ \A p \in Names, r \in Nat : /\ Row("STOP", p, r) \in Rows
                                 /\ Row("LOG", p, r) \in Rows
BY DEF Row, Rows

LEMMA LogStartType ==
  ASSUME TypeOK, NEW p \in Names, LogStart(p)
  PROVE  event' \in Seq(Rows) /\ lastStartId' \in Nat \cup {-1}
<1>1. Append(event, Row("START", p, 0)) \in Seq(Rows) /\ Len(event) + 1 \in Nat
  <2>1. Row("START", p, 0) \in Rows
    BY RowType
  <2>2. event \in Seq(Rows)
    BY DEF TypeOK
  <2>. QED
    BY <2>1, <2>2, AppendProperties, LenProperties
<1>2. lastStartId \in Nat \cup {-1} /\ event \in Seq(Rows)
  BY DEF TypeOK
<1>3. \/ event' = event /\ lastStartId' \in {lastStartId, 0}
      \/ event' = Append(event, Row("START", p, 0)) /\ lastStartId' = Len(event) + 1
  BY DEF LogStart, logVars
<1>. QED
  BY <1>1, <1>2, <1>3

LEMMA LogEndType ==
  ASSUME TypeOK, NEW p \in Names, NEW output \in Names, LogEnd(p, output)
  PROVE  event' \in Seq(Rows) /\ lastStartId' \in Nat \cup {-1}
<1>1. Ref \in Nat
  BY DEF Ref, TypeOK
<1>2. PICK stop \in {<<>>, <<Row("STOP", p, Ref)>>},
           log \in {<<>>, <<Row("LOG", output, Ref)>>} :
        event' = IF DbOpen THEN event \o stop \o log ELSE event
  BY DEF LogEnd
<1>3. stop \in Seq(Rows) /\ log \in Seq(Rows)
  <2>1. Row("STOP", p, Ref) \in Rows /\ Row("LOG", output, Ref) \in Rows
    BY <1>1, RowType
  <2>2. \A r \in Rows : <<r>> \in Seq(Rows)
    OBVIOUS
  <2>. QED
    BY <2>1, <2>2, EmptySeq
<1>4. event \o stop \in Seq(Rows)
  BY <1>3, ConcatProperties DEF TypeOK
<1>5. event \o stop \o log \in Seq(Rows)
  BY <1>3, <1>4, ConcatProperties
<1>. QED
  BY <1>2, <1>5 DEF LogEnd, TypeOK

LEMMA QueueType ==
  ASSUME TypeOK
  PROVE  /\ \A e \in Posted : Append(queue, e) \in Seq(Posted)
         /\ queue # <<>> => Head(queue) \in Posted /\ Tail(queue) \in Seq(Posted)
BY AppendProperties, HeadTailProperties DEF TypeOK

-----------------------------------------------------------------------------
(* Type correctness.                                                       *)

LEMMA TypeInit == Init => TypeOK
<1> SUFFICES ASSUME Init PROVE TypeOK
  OBVIOUS
<1>1. queue \in Seq(Posted) /\ event \in Seq(Rows)
  BY EmptySeq DEF Init
<1>2. nextFile \in 1 .. MaxRuns + 1
  BY ConstantsAssumption DEF Init
<1>3. reply \in [cmd : {"none", "RUNK", "STOP"}, text : {"none", "OK", "FAIL"},
                 done : BOOLEAN]
  BY DEF Init, NoReply
<1>4. written \in [Files -> Names] /\ disk \subseteq Files
  BY DEF Init, Names
<1>. QED
  BY <1>1, <1>2, <1>3, <1>4 DEF Init, TypeOK, Names

(* The parts of the handlers that several of them share.                   *)
LEMMA StartBgProcessType ==
  ASSUME TypeOK, NEW p \in Names, NEW who \in {"gui", "RUNK"},
         StartBgProcess(p, who), queue' \in Seq(Posted), UNCHANGED reply
  PROVE  TypeOK'
<1>1. nextFile' \in 1 .. MaxRuns + 1 /\ scriptLogFile' \in Files \cup {NoFile}
      /\ disk' \subseteq Files
  <2>1. nextFile \in Files /\ MaxRuns \in Nat /\ disk \subseteq Files
    BY ConstantsAssumption DEF StartBgProcess, TypeOK
  <2>2. /\ nextFile' = nextFile + 1 /\ scriptLogFile' = nextFile
        /\ disk' = disk \/ disk' = disk \cup {nextFile}
    BY DEF StartBgProcess, NewLogFile
  <2>3. nextFile' \in 1 .. MaxRuns + 1
    BY <2>1, <2>2 DEF Files
  <2>. QED
    BY <2>1, <2>2, <2>3
<1>2. proc' \in {"none", "starting", "running", "exited"} /\ procPath' \in Names
      /\ procLog' \in Files \cup {NoFile}
  BY DEF StartBgProcess, TypeOK, procVars
<1>. QED
  BY <1>1, <1>2 DEF StartBgProcess, TypeOK, logVars

LEMMA AnswerType ==
  ASSUME TypeOK, NEW cmd \in {"gui", "RUNK", "STOP"}, NEW done \in BOOLEAN,
         NEW t \in {"OK", "FAIL"}, Answer(cmd, done, t)
  PROVE  reply' \in [cmd : {"none", "RUNK", "STOP"},
                     text : {"none", "OK", "FAIL"}, done : BOOLEAN]
BY DEF Answer, TypeOK

LEMMA StopBgProcessType ==
  ASSUME TypeOK, NEW who \in {"gui", "STOP"}, StopBgProcess(who),
         queue' \in Seq(Posted)
  PROVE  TypeOK'
<1>1. reply' \in [cmd : {"none", "RUNK", "STOP"},
                  text : {"none", "OK", "FAIL"}, done : BOOLEAN]
  BY AnswerType DEF StopBgProcess, TypeOK
<1>. QED
  BY <1>1, ZenonT(40) DEF StopBgProcess, TypeOK, fileVars, procVars, logVars

LEMMA RefusedType ==
  ASSUME TypeOK, NEW cmd \in {"RUNK", "STOP"}, Refused(cmd)
  PROVE  TypeOK'
<1>1. reply' \in [cmd : {"none", "RUNK", "STOP"},
                  text : {"none", "OK", "FAIL"}, done : BOOLEAN]
  BY AnswerType DEF Refused, TypeOK
<1>. QED
  BY <1>1 DEF Refused, TypeOK, mainVars, fileVars, procVars, logVars

LEMMA TypeStep == TypeOK /\ LogFileIsOwned /\ [Next]_vars => TypeOK'
<1> SUFFICES ASSUME TypeOK, LogFileIsOwned, [Next]_vars PROVE TypeOK'
  OBVIOUS
<1> USE DEF AtLoop, Alive
<1>1. CASE StartSucceeds
  <2>1. event' \in Seq(Rows) /\ lastStartId' \in Nat \cup {-1}
    BY <1>1, LogStartType DEF StartSucceeds, TypeOK
  <2>2. reply' \in [cmd : {"none", "RUNK", "STOP"},
                    text : {"none", "OK", "FAIL"}, done : BOOLEAN]
    BY <1>1, AnswerType DEF StartSucceeds, TypeOK
  <2>. QED
    BY <1>1, <2>1, <2>2 DEF StartSucceeds, Return, TypeOK, Names, fileVars
<1>2. CASE StartFails
  <2>1. reply' \in [cmd : {"none", "RUNK", "STOP"},
                    text : {"none", "OK", "FAIL"}, done : BOOLEAN]
    BY <1>2, AnswerType DEF StartFails, TypeOK
  <2>2. proc' \in {"none", "starting"}
    BY <1>2 DEF StartFails
  <2>. QED
    BY <1>2, <2>1, <2>2
    DEF StartFails, Return, ForgetScript, TypeOK, Names, fileVars, logVars
<1>3. CASE SignalChild
  <2>1. reply' \in [cmd : {"none", "RUNK", "STOP"},
                    text : {"none", "OK", "FAIL"}, done : BOOLEAN]
    BY <1>3, AnswerType DEF SignalChild, TypeOK
  <2>2. kids' \in [Child -> {"absent", "alive", "zombie", "hit"}]
    BY <1>3 DEF SignalChild, TypeOK
  <2>. QED
    BY <1>3, <2>1, <2>2
    DEF SignalChild, Return, TypeOK, Names, fileVars, procVars, logVars
<1>4. CASE ProcessComplete
  <2>1. event' \in Seq(Rows) /\ lastStartId' \in Nat \cup {-1}
    <3>1. scriptLogFile \in Files
      BY <1>4 DEF ProcessComplete, LogFileIsOwned, TypeOK
    <3>2. written[scriptLogFile] \in Names /\ runningScriptName \in Names
      BY <3>1 DEF TypeOK
    <3>. QED
      BY <1>4, <3>2, LogEndType DEF ProcessComplete
  <2>2. disk' \subseteq Files /\ scriptLogFile' = NoFile
    BY <1>4 DEF ProcessComplete, DropLogFile, TypeOK
  <2>3. bgRunning' \in BOOLEAN /\ runningScriptName' \in Names /\ proc' = "none"
    BY <1>4 DEF ProcessComplete, ForgetScript, Names
  <2>4. UNCHANGED <<app, mainVars, nextFile, written, sMessage, procPath, procLog,
                    kids, queue, reply>>
    BY <1>4 DEF ProcessComplete
  <2>. QED
    BY <2>1, <2>2, <2>3, <2>4 DEF TypeOK, mainVars
<1>5. CASE KeyStop
  BY <1>5, StopBgProcessType DEF KeyStop, TypeOK
<1>6. CASE DemoStart
  BY <1>6, StartBgProcessType DEF DemoStart, TypeOK, Names, Paths
<1>7. CASE CmdStop
  <2>1. CASE bgRunning
    BY <1>7, <2>1, StopBgProcessType DEF CmdStop, TypeOK
  <2>2. CASE ~bgRunning
    BY <1>7, <2>2, RefusedType DEF CmdStop
  <2>. QED
    BY <2>1, <2>2
<1>8. CASE Dispatch
  <2>1. Head(queue) \in Posted /\ queue' \in Seq(Posted)
    BY <1>8, QueueType DEF Dispatch
  <2>2. CASE bgRunning = (Head(queue).cmd = "run")
    BY <1>8, <2>1, <2>2
    DEF Dispatch, TypeOK, mainVars, fileVars, procVars, logVars
  <2>3. CASE /\ Head(queue).cmd = "run"
             /\ StartBgProcess(Head(queue).path, "gui") /\ UNCHANGED reply
    <3>1. Head(queue).path \in Names
      BY <2>1 DEF Posted, Run, Stop, Names
    <3>. QED
      BY <2>1, <2>3, <3>1, StartBgProcessType
  <2>4. CASE Head(queue).cmd = "stop" /\ StopBgProcess("gui")
    BY <2>1, <2>4, StopBgProcessType
  <2>. QED
    BY <1>8, <2>2, <2>3, <2>4 DEF Dispatch
<1>9. CASE Close
  BY <1>9 DEF Close, TypeOK, mainVars, fileVars, procVars, logVars
<1>10. CASE Destroy
  <2>1. /\ bgRunning' \in BOOLEAN /\ runningScriptName' \in Names
        /\ disk' \subseteq Files /\ scriptLogFile' \in Files \cup {NoFile}
    BY <1>10 DEF Destroy, ForgetScript, DropLogFile, TypeOK, Names
  <2>2. queue' \in Seq(Posted)
    BY <1>10, EmptySeq DEF Destroy
  <2>. QED
    BY <1>10, <2>1, <2>2 DEF Destroy, TypeOK, mainVars, logVars
<1>11. ASSUME NEW k \in Keys, KeyStart(k) PROVE TypeOK'
  BY <1>11, LookupType, StartBgProcessType DEF KeyStart, TypeOK
<1>12. ASSUME NEW k \in Keys, CmdRunk(k) PROVE TypeOK'
  <2>1. CASE Refused("RUNK")
    BY <2>1, RefusedType
  <2>2. CASE /\ StartBgProcess(getScriptForKey(k), "RUNK")
             /\ UNCHANGED <<queue, reply>>
    BY <2>2, LookupType, StartBgProcessType DEF TypeOK
  <2>. QED
    BY <1>12, <2>1, <2>2 DEF CmdRunk
<1>13. ASSUME NEW p \in Paths, SchedulerStart(p) PROVE TypeOK'
  BY <1>13, StartBgProcessType DEF SchedulerStart, TypeOK, Names
<1>14. CASE HttpThreads
  <2>1. ASSUME NEW e \in Posted, Post(e) PROVE TypeOK'
    <3>1. queue' \in Seq(Posted)
      BY <2>1, QueueType DEF Post
    <3>. QED
      BY <2>1, <3>1 DEF Post, TypeOK, mainVars, fileVars, procVars, logVars
  <2>2. ASSUME NEW k \in Keys, HttpRun(k) PROVE TypeOK'
    <3>1. CASE getScriptForKey(k) # NoPath
      BY <2>1, <2>2, <3>1, LookupType DEF HttpRun, Posted, Names
    <3>2. CASE getScriptForKey(k) = NoPath
      BY <2>2, <3>2
      DEF HttpRun, TypeOK, mainVars, fileVars, procVars, logVars
    <3>. QED
      BY <3>1, <3>2
  <2>. QED
    BY <1>14, <2>1, <2>2 DEF HttpThreads, HttpStop, Posted
<1>15. CASE Environment
  <2>1. written' \in [Files -> Names]
    BY <1>15 DEF Environment, ScriptWrites, ScriptForks, ChildEnds, ScriptReaps,
                 ScriptExits, LateStart, TypeOK
  <2>2. kids' \in [Child -> {"absent", "alive", "zombie", "hit"}]
    BY <1>15 DEF Environment, ScriptWrites, ScriptForks, ChildEnds, ScriptReaps,
                 ScriptExits, LateStart, TypeOK
  <2>3. proc' \in {"none", "starting", "running", "exited"} /\ Untouched
    BY <1>15 DEF Environment, ScriptWrites, ScriptForks, ChildEnds, ScriptReaps,
                 ScriptExits, LateStart, TypeOK
  <2>. QED
    BY <2>1, <2>2, <2>3 DEF Untouched, TypeOK, mainVars, logVars
<1>16. CASE UNCHANGED vars
  BY <1>16 DEF TypeOK, vars, mainVars, fileVars, procVars, logVars
<1>. QED
  BY <1>1, <1>2, <1>3, <1>4, <1>5, <1>6, <1>7, <1>8, <1>9, <1>10, <1>11,
     <1>12, <1>13, <1>14, <1>15, <1>16 DEF Next, Handlers, Terminated

(* The log file pointer is not null while a process may finish, whatever   *)
(* starts timed out: what makes processComplete's dereference safe.        *)
LEMMA OwnedStep ==
  TypeOK /\ LogFileIsOwned /\ [Next]_vars => LogFileIsOwned'
<1> SUFFICES ASSUME TypeOK, LogFileIsOwned, [Next]_vars PROVE LogFileIsOwned'
  OBVIOUS
<1> USE DEF AtLoop, Alive, LogFileIsOwned
<1>1. ASSUME NEW p, NEW who, StartBgProcess(p, who) PROVE LogFileIsOwned'
  BY <1>1 DEF StartBgProcess, NewLogFile, Files, NoFile
<1>2. ASSUME NEW who, StopBgProcess(who) PROVE LogFileIsOwned'
  BY <1>2 DEF StopBgProcess, fileVars, procVars
<1>3. ASSUME NEW cmd, Refused(cmd) PROVE LogFileIsOwned'
  BY <1>3 DEF Refused, fileVars, procVars
<1>4. CASE StartSucceeds \/ StartFails \/ SignalChild
  BY <1>4 DEF StartSucceeds, StartFails, SignalChild, fileVars, procVars
<1>5. CASE ProcessComplete \/ Destroy \/ Close
  BY <1>5 DEF ProcessComplete, Destroy, Close, fileVars, procVars
<1>6. CASE HttpThreads
  BY <1>6 DEF HttpThreads, HttpStop, HttpRun, Post, fileVars, procVars
<1>7. CASE Environment
  BY <1>7 DEF Environment, ScriptWrites, ScriptForks, ChildEnds, ScriptReaps,
              ScriptExits, LateStart, Untouched
<1>8. CASE UNCHANGED vars
  BY <1>8 DEF vars, fileVars, procVars
<1>9. CASE Dispatch
  BY <1>1, <1>2, <1>9 DEF Dispatch, fileVars, procVars
<1>10. CASE KeyStop \/ DemoStart \/ CmdStop
  BY <1>1, <1>2, <1>3, <1>10 DEF KeyStop, DemoStart, CmdStop
<1>11. ASSUME NEW k \in Keys, KeyStart(k) \/ CmdRunk(k) PROVE LogFileIsOwned'
  BY <1>1, <1>3, <1>11 DEF KeyStart, CmdRunk
<1>12. ASSUME NEW p \in Paths, SchedulerStart(p) PROVE LogFileIsOwned'
  BY <1>1, <1>12 DEF SchedulerStart
<1>. QED
  BY <1>4, <1>5, <1>6, <1>7, <1>8, <1>9, <1>10, <1>11, <1>12
  DEF Next, Handlers, Terminated

(* Every variable keeps its type and processComplete finds a log file to   *)
(* read, in every behaviour, slow starts included.                         *)
THEOREM TypeCorrectness == Spec => [](TypeOK /\ LogFileIsOwned)
<1>1. Init => TypeOK /\ LogFileIsOwned
  BY TypeInit DEF Init, LogFileIsOwned
<1>2. TypeOK /\ LogFileIsOwned /\ [Next]_vars => (TypeOK /\ LogFileIsOwned)'
  BY TypeStep, OwnedStep
<1>. QED
  BY <1>1, <1>2, PTL DEF Spec
-----------------------------------------------------------------------------
(* While no start times out: the slot and the process agree.               *)

Typed == TypeOK /\ LogFileIsOwned

LEMMA AskedIsPath ==
  ASSUME NEW k, getScriptForKey(k) # NoPath
  PROVE  getScriptForKey(k) \in Paths
BY LookupType DEF Names

LEMMA SlotStep ==
  ASSUME ~StartTimeouts, Typed, SlotInv, [Next]_vars
  PROVE  SlotInv'
<1> USE DEF AtLoop, Alive, SlotInv
<1>1. ASSUME pc = "loop", NEW p \in Paths, NEW who, StartBgProcess(p, who)
      PROVE  SlotInv'
  BY <1>1 DEF StartBgProcess, NewLogFile, logVars
<1>2. ASSUME pc = "loop", NEW who, StopBgProcess(who) PROVE SlotInv'
  BY <1>2 DEF StopBgProcess, fileVars, procVars, logVars
<1>3. ASSUME NEW cmd, Refused(cmd) PROVE SlotInv'
  BY <1>3 DEF Refused, mainVars, fileVars, procVars, logVars
<1>4. CASE StartSucceeds
  <2>1. DbOpen => lastStartId' # -1
    BY <1>4, LenProperties DEF StartSucceeds, LogStart, Typed, TypeOK
  <2>. QED
    BY <1>4, <2>1 DEF StartSucceeds, Return, fileVars
<1>5. CASE StartFails
  BY <1>5 DEF StartFails, Return, ForgetScript, fileVars, logVars
<1>6. CASE SignalChild
  BY <1>6 DEF SignalChild, Return, fileVars, procVars, logVars
<1>7. CASE ProcessComplete
  BY <1>7 DEF ProcessComplete, ForgetScript, DropLogFile, mainVars
<1>8. CASE Close
  BY <1>8 DEF Close, mainVars, fileVars, procVars, logVars
<1>9. CASE Destroy
  BY <1>9 DEF Destroy, ForgetScript, DropLogFile, mainVars, logVars
<1>10. CASE HttpThreads
  BY <1>10 DEF HttpThreads, HttpStop, HttpRun, Post, mainVars, fileVars, procVars,
               logVars
<1>11. CASE Environment
  BY <1>11 DEF Environment, ScriptWrites, ScriptForks, ChildEnds, ScriptReaps,
               ScriptExits, LateStart, Untouched, mainVars, logVars
<1>12. CASE UNCHANGED vars
  BY <1>12 DEF vars, mainVars, fileVars, procVars, logVars
<1>13. CASE Dispatch
  <2>1. Head(queue) \in Posted
    BY <1>13, QueueType DEF Dispatch, Typed
  <2>2. Head(queue).cmd = "run" => Head(queue).path \in Paths
    BY <2>1 DEF Posted, Run, Stop
  <2>. QED
    BY <1>1, <1>2, <1>13, <2>2 DEF Dispatch, mainVars, fileVars, procVars, logVars
<1>14. CASE KeyStop \/ DemoStart \/ CmdStop
  <2>1. DemoPath \in Paths
    BY DEF Paths
  <2>. QED
    BY <1>1, <1>2, <1>3, <1>14, <2>1 DEF KeyStop, DemoStart, CmdStop
<1>15. ASSUME NEW k \in Keys, KeyStart(k) \/ CmdRunk(k) PROVE SlotInv'
  BY <1>1, <1>3, <1>15, AskedIsPath DEF KeyStart, CmdRunk
<1>16. ASSUME NEW p \in Paths, SchedulerStart(p) PROVE SlotInv'
  BY <1>1, <1>16 DEF SchedulerStart
<1>. QED
  BY <1>4, <1>5, <1>6, <1>7, <1>8, <1>9, <1>10, <1>11, <1>12, <1>13, <1>14,
     <1>15, <1>16 DEF Next, Handlers, Terminated

(* What is reported running is what runs, under its name and with its log, *)
(* and SIGINT is sent only on behalf of a running script.                  *)
THEOREM StatusIsExact ==
  ASSUME ~StartTimeouts
  PROVE  Spec => [](ReportedScriptIsTheRunningOne /\ SignalsOwnScript)
<1>1. Init => SlotInv
  BY DEF Init, SlotInv
<1>2. Typed /\ SlotInv /\ [Next]_vars => SlotInv'
  BY SlotStep
<1>3. SlotInv => ReportedScriptIsTheRunningOne /\ SignalsOwnScript
  BY DEF SlotInv, ReportedScriptIsTheRunningOne, SignalsOwnScript, AtLoop
<1>. QED
  BY <1>1, <1>2, <1>3, TypeCorrectness, PTL DEF Spec, Typed

(* For itself: stopBgProcess signals on behalf of a running script only.   *)
THEOREM SignalsAreMeant ==
  ASSUME ~StartTimeouts
  PROVE  Spec => []SignalsOwnScript
  BY StatusIsExact, PTL
-----------------------------------------------------------------------------
(* The output of a script is never left behind in a file nobody reads.     *)

LEMMA LogStep ==
  ASSUME ~StartTimeouts, Typed, SlotInv, LogInv, [Next]_vars
  PROVE  LogInv'
<1> USE DEF AtLoop, Alive, LogInv
<1>0. /\ scriptLogFile \in Files \cup {NoFile} /\ procLog \in Files \cup {NoFile}
      /\ nextFile \in 1 .. MaxRuns + 1 /\ Files \subseteq Nat
      /\ disk \subseteq Files /\ written \in [Files -> Names]
  BY DEF Typed, TypeOK, Files
<1>1. ASSUME pc = "loop", NEW p \in Paths, NEW who, StartBgProcess(p, who)
      PROVE  LogInv'
  <2>1. proc = "none" /\ nextFile \in Files
    BY <1>1 DEF StartBgProcess, SlotInv
  <2>2. /\ nextFile' = nextFile + 1 /\ scriptLogFile' = nextFile
        /\ disk' \subseteq disk \cup {nextFile} /\ written' = written
        /\ proc' = "starting" /\ procLog' = nextFile
    BY <1>1, <2>1 DEF StartBgProcess, NewLogFile
  <2>3. written[nextFile] = NoPath
    BY <1>0, <2>1
  <2>4. \A f \in Files : f >= nextFile' => written'[f] = NoPath
    BY <1>0, <2>1, <2>2
  <2>5. \A f \in disk' : written'[f] = NoPath
    BY <2>1, <2>2, <2>3
  <2>. QED
    BY <1>0, <2>1, <2>2, <2>3, <2>4, <2>5
<1>2. ASSUME NEW who, StopBgProcess(who) PROVE LogInv'
  BY <1>2 DEF StopBgProcess, fileVars, procVars
<1>3. ASSUME NEW cmd, Refused(cmd) PROVE LogInv'
  BY <1>3 DEF Refused, fileVars, procVars
<1>4. CASE StartSucceeds
  BY <1>4 DEF StartSucceeds, SlotInv, fileVars
<1>5. CASE StartFails
  BY <1>5 DEF StartFails, SlotInv, fileVars
<1>6. CASE SignalChild
  BY <1>6 DEF SignalChild, fileVars, procVars
<1>7. CASE ProcessComplete
  BY <1>7 DEF ProcessComplete, DropLogFile
<1>8. CASE Close
  BY <1>8 DEF Close, fileVars, procVars
<1>9. CASE Destroy
  BY <1>9 DEF Destroy, DropLogFile, SlotInv
<1>10. CASE HttpThreads
  BY <1>10 DEF HttpThreads, HttpStop, HttpRun, Post, fileVars, procVars
<1>11. CASE Environment
  <2>1. CASE ScriptWrites
    <3>1. procLog = scriptLogFile /\ procLog \in Files /\ procLog < nextFile
      BY <2>1 DEF ScriptWrites, SlotInv
    <3>2. /\ \A f \in Files : f # procLog => written'[f] = written[f]
          /\ written'[procLog] = procPath
      BY <1>0, <2>1, <3>1 DEF ScriptWrites
    <3>3. UNCHANGED <<disk, nextFile, scriptLogFile, proc, procLog, procPath>>
      BY <2>1 DEF ScriptWrites, Untouched
    <3>4. proc = "running"
      BY <2>1 DEF ScriptWrites
    <3>. QED
      BY <1>0, <3>1, <3>2, <3>3, <3>4
  <2>2. CASE ~ScriptWrites
    BY <1>11, <2>2 DEF Environment, ScriptForks, ChildEnds, ScriptReaps,
                       ScriptExits, LateStart, Untouched, SlotInv
  <2>. QED
    BY <2>1, <2>2
<1>12. CASE UNCHANGED vars
  BY <1>12 DEF vars, fileVars, procVars
<1>13. CASE Dispatch
  <2>1. Head(queue) \in Posted
    BY <1>13, QueueType DEF Dispatch, Typed
  <2>2. Head(queue).cmd = "run" => Head(queue).path \in Paths
    BY <2>1 DEF Posted, Run, Stop
  <2>. QED
    BY <1>1, <1>2, <1>13, <2>2 DEF Dispatch, fileVars, procVars
<1>14. CASE KeyStop \/ DemoStart \/ CmdStop
  <2>1. DemoPath \in Paths
    BY DEF Paths
  <2>. QED
    BY <1>1, <1>2, <1>3, <1>14, <2>1 DEF KeyStop, DemoStart, CmdStop
<1>15. ASSUME NEW k \in Keys, KeyStart(k) \/ CmdRunk(k) PROVE LogInv'
  BY <1>1, <1>3, <1>15, AskedIsPath DEF KeyStart, CmdRunk
<1>16. ASSUME NEW p \in Paths, SchedulerStart(p) PROVE LogInv'
  BY <1>1, <1>16 DEF SchedulerStart
<1>. QED
  BY <1>4, <1>5, <1>6, <1>7, <1>8, <1>9, <1>10, <1>11, <1>12, <1>13, <1>14,
     <1>15, <1>16 DEF Next, Handlers, Terminated

(* A temporary file with output is always the log of the run in progress.  *)
THEOREM OutputIsNotStranded ==
  ASSUME ~StartTimeouts
  PROVE  Spec => []NoOutputIsStranded
<1>1. Init => SlotInv /\ LogInv
  BY DEF Init, SlotInv, LogInv, Files
<1>2. Typed /\ SlotInv /\ LogInv /\ [Next]_vars => SlotInv' /\ LogInv'
  BY SlotStep, LogStep
<1>3. LogInv => NoOutputIsStranded
  BY DEF LogInv, NoOutputIsStranded
<1>. QED
  BY <1>1, <1>2, <1>3, TypeCorrectness, PTL DEF Spec, Typed

-----------------------------------------------------------------------------
(* Script control implements JobJournal.                                   *)

LEMMA JournalStep ==
  ASSUME ~StartTimeouts, Typed, SlotInv, LogInv, [Next]_vars
  PROVE  [Journal!Next]_Journal!vars
<1> DEFINE start == IF bgRunning /\ DbOpen THEN lastStartId ELSE 0
           Stutter == UNCHANGED <<bgRunning, runningScriptName, event, lastStartId>>
<1> USE DEF AtLoop, Alive
<1>0. Stutter => [Journal!Next]_Journal!vars
  BY DEF Journal!vars
<1>1. ASSUME NEW p, NEW who, StartBgProcess(p, who) PROVE Stutter
  BY <1>1 DEF StartBgProcess, logVars
<1>2. ASSUME NEW who, StopBgProcess(who) PROVE Stutter
  BY <1>2 DEF StopBgProcess, logVars
<1>3. ASSUME NEW cmd, Refused(cmd) PROVE Stutter
  BY <1>3 DEF Refused, logVars
<1>4. CASE StartSucceeds
  <2>1. asked \in Paths /\ runningScriptName = NoPath /\ runningScriptName' = asked
    BY <1>4 DEF StartSucceeds, SlotInv
  <2>2. bgRunning' = TRUE /\ LogStart(asked)
    BY <1>4 DEF StartSucceeds
  <2>3. \/ event' = Append(event, Row("START", asked, 0)) /\ start' = Len(event) + 1
        \/ event' = event /\ start' = 0
    BY <2>2 DEF LogStart, logVars
  <2>4. Journal!Begin(asked)
    BY <2>1, <2>3 DEF Journal!Begin, Journal!Row, Row
  <2>. QED
    BY <2>1, <2>4 DEF Journal!Next
<1>5. CASE StartFails
  <2>1. bgRunning \in BOOLEAN /\ ~bgRunning
    BY <1>5 DEF StartFails, SlotInv, Typed, TypeOK
  <2>2. bgRunning' = bgRunning
    BY <1>5, <2>1 DEF StartFails, ForgetScript
  <2>. QED
    BY <1>0, <1>5, <2>1, <2>2 DEF StartFails, ForgetScript, SlotInv, logVars
<1>6. CASE ProcessComplete
  <2>1. bgRunning /\ runningScriptName = procPath /\ procPath \in Paths
    BY <1>6 DEF ProcessComplete, SlotInv
  <2>2. written[scriptLogFile] \in {NoPath, runningScriptName}
    BY <1>6, <2>1 DEF ProcessComplete, SlotInv, LogInv
  <2>3. runningScriptName # NoPath /\ runningScriptName' = NoPath /\ start' = 0
    BY <1>6, <2>1, ConstantsAssumption DEF ProcessComplete, ForgetScript
  <2>4. DbOpen => Ref = start
    BY <2>1 DEF Ref, SlotInv
  <2>5. PICK stop \in {<<>>, <<Row("STOP", runningScriptName, Ref)>>},
             log \in {<<>>, <<Row("LOG", written[scriptLogFile], Ref)>>} :
          /\ written[scriptLogFile] = NoPath => log = <<>>
          /\ event' = IF DbOpen THEN event \o stop \o log ELSE event
    BY <1>6 DEF ProcessComplete, LogEnd
  <2>6. CASE DbOpen
    <3>1. stop \in {<<>>, <<Journal!Row("STOP", runningScriptName, start)>>}
      BY <2>4, <2>6 DEF Row, Journal!Row
    <3>2. log \in {<<>>, <<Journal!Row("LOG", runningScriptName, start)>>}
      BY <2>2, <2>4, <2>5, <2>6 DEF Row, Journal!Row
    <3>. QED
      BY <2>3, <2>5, <2>6, <3>1, <3>2 DEF Journal!End, Journal!Next
  <2>7. CASE ~DbOpen
    <3>1. event' = event \o <<>> \o <<>>
      BY <2>5, <2>7, ConcatEmptySeq DEF Typed, TypeOK
    <3>. QED
      BY <2>3, <3>1 DEF Journal!End, Journal!Next
  <2>. QED
    BY <2>6, <2>7
<1>7. CASE Destroy
  <2>1. CASE Stutter
    BY <1>0, <2>1
  <2>2. CASE proc # "none" /\ ForgetScript
    <3>1. runningScriptName # NoPath /\ runningScriptName' = NoPath /\ start' = 0
      BY <1>7, <2>2, ConstantsAssumption DEF Destroy, ForgetScript, SlotInv
    <3>2. event' = event \o <<>> \o <<>>
      BY <1>7, ConcatEmptySeq DEF Destroy, logVars, Typed, TypeOK
    <3>. QED
      BY <3>1, <3>2 DEF Journal!End, Journal!Next
  <2>. QED
    BY <1>7, <2>1, <2>2 DEF Destroy, logVars
<1>8. CASE SignalChild \/ Close \/ HttpThreads \/ UNCHANGED vars
  BY <1>8, <1>0 DEF SignalChild, Close, HttpThreads, HttpStop, HttpRun, Post, vars,
                    logVars
<1>9. CASE Environment
  BY <1>9, <1>0 DEF Environment, ScriptWrites, ScriptForks, ChildEnds, ScriptReaps,
                    ScriptExits, LateStart, Untouched, logVars
<1>10. CASE Dispatch
  BY <1>0, <1>1, <1>2, <1>10 DEF Dispatch, logVars
<1>11. CASE KeyStop \/ DemoStart \/ CmdStop
  BY <1>0, <1>1, <1>2, <1>3, <1>11 DEF KeyStop, DemoStart, CmdStop
<1>12. CASE \E k \in Keys : KeyStart(k) \/ CmdRunk(k)
  BY <1>0, <1>1, <1>3, <1>12 DEF KeyStart, CmdRunk
<1>13. CASE \E p \in Paths : SchedulerStart(p)
  BY <1>0, <1>1, <1>13 DEF SchedulerStart
<1>. QED
  BY <1>4, <1>5, <1>6, <1>7, <1>8, <1>9, <1>10, <1>11, <1>12, <1>13
  DEF Next, Handlers, Terminated

(* One job at a time, and a journal whose rows tell one job after another: *)
(* startBgProcess, processComplete and handleLog keep it between them.     *)
THEOREM JournalIsImplemented ==
  ASSUME ~StartTimeouts
  PROVE  Spec => ImplementsJobJournal
<1>1. Init => Journal!Init
  BY DEF Init, Journal!Init
<1>2. Init => SlotInv /\ LogInv
  BY DEF Init, SlotInv, LogInv, Files
<1>3. Typed /\ SlotInv /\ LogInv /\ [Next]_vars => SlotInv' /\ LogInv'
  BY SlotStep, LogStep
<1>4. Typed /\ SlotInv /\ LogInv /\ [Next]_vars => [Journal!Next]_Journal!vars
  BY JournalStep
<1>. QED
  BY <1>1, <1>2, <1>3, <1>4, TypeCorrectness, PTL
  DEF Spec, Typed, ImplementsJobJournal, Journal!Spec

-----------------------------------------------------------------------------
(* The rows of the journal.  While a run with a START row is in progress   *)
(* that row is the last one; what is stored when it ends refers to it.     *)

StartRow == IF bgRunning /\ DbOpen THEN lastStartId ELSE 0

StartIsLast ==
  StartRow # 0 => /\ StartRow = Len(event) /\ event[StartRow].type = "START"
                  /\ event[StartRow].script = runningScriptName

LEMMA OldRowsStay ==
  ASSUME RowsReferToTheirRun, event \in Seq(Rows), event' \in Seq(Rows),
         Len(event') >= Len(event), \A i \in 1 .. Len(event) : event'[i] = event[i],
         \A i \in Len(event) + 1 .. Len(event') :
           LET r == event'[i].ref IN
           /\ event'[i].type = "START" => r = 0
           /\ r # 0 => /\ r < i /\ event'[r].type = "START"
                       /\ event'[r].script = event'[i].script
                       /\ \A j \in r + 1 .. i - 1 :
                            /\ event'[j].type = "STOP" /\ event'[j].ref = r
                            /\ event'[i].type = "LOG"
  PROVE  RowsReferToTheirRun'
<1>1. /\ DOMAIN event = 1 .. Len(event) /\ DOMAIN event' = 1 .. Len(event')
      /\ Len(event) \in Nat /\ Len(event') \in Nat
      /\ \A i \in 1 .. Len(event) : event[i].ref \in Nat
  <2>1. /\ DOMAIN event = 1 .. Len(event) /\ DOMAIN event' = 1 .. Len(event')
        /\ Len(event) \in Nat /\ Len(event') \in Nat
        /\ \A i \in 1 .. Len(event) : event[i] \in Rows
    OBVIOUS
  <2>2. \A row \in Rows : row.ref \in Nat
    BY DEF Rows
  <2> QED
    BY <2>1, <2>2
<1>2. ASSUME NEW i \in 1 .. Len(event), event[i].ref # 0
      PROVE  LET r == event[i].ref IN
             /\ r < i /\ event'[r].type = "START" /\ event'[r].script = event[i].script
             /\ \A j \in r + 1 .. i - 1 :
                  event'[j].type = "STOP" /\ event'[j].ref = r /\ event[i].type = "LOG"
  <2> DEFINE r == event[i].ref
  <2>1. /\ r < i /\ event[r].type = "START" /\ event[r].script = event[i].script
        /\ \A j \in r + 1 .. i - 1 :
             event[j].type = "STOP" /\ event[j].ref = r /\ event[i].type = "LOG"
    BY <1>1, <1>2 DEF RowsReferToTheirRun
  <2>2. r \in 1 .. Len(event) /\ \A j \in r + 1 .. i - 1 : j \in 1 .. Len(event)
    BY <1>1, <1>2, <2>1
  <2>3. event'[r] = event[r] /\ \A j \in r + 1 .. i - 1 : event'[j] = event[j]
    BY <2>2
  <2> HIDE DEF r
  <2>4. /\ r < i /\ event'[r].type = "START" /\ event'[r].script = event[i].script
        /\ \A j \in r + 1 .. i - 1 :
             event'[j].type = "STOP" /\ event'[j].ref = r /\ event[i].type = "LOG"
    BY <2>1, <2>3
  <2> QED
    BY <2>4 DEF r
<1>3. \A i \in 1 .. Len(event) : event[i].type = "START" => event[i].ref = 0
  BY <1>1 DEF RowsReferToTheirRun
<1> QED
  BY <1>1, <1>2, <1>3 DEF RowsReferToTheirRun

LEMMA BegunRunRefers ==
  ASSUME RowsReferToTheirRun, event \in Seq(Rows), NEW p \in Names,
         event' = Append(event, Row("START", p, 0))
  PROVE  /\ RowsReferToTheirRun' /\ Len(event') = Len(event) + 1
         /\ event'[Len(event) + 1].type = "START" /\ event'[Len(event) + 1].script = p
<1> DEFINE row == Row("START", p, 0)
<1>1. row \in Rows /\ row.type = "START" /\ row.script = p /\ row.ref = 0
  BY DEF Row, Rows
<1> HIDE DEF row
<1>2. /\ event' \in Seq(Rows) /\ Len(event') = Len(event) + 1 /\ Len(event) \in Nat
      /\ \A i \in 1 .. Len(event) : event'[i] = event[i]
      /\ event'[Len(event) + 1] = row
  BY <1>1 DEF row
<1> QED
  BY <1>1, <1>2, OldRowsStay, SMTT(30)

LEMMA EndedRunRefers ==
  ASSUME RowsReferToTheirRun, event \in Seq(Rows), NEW p \in Names, NEW r \in Nat,
         r # 0 => r = Len(event) /\ event[r].type = "START" /\ event[r].script = p,
         NEW stop \in {<<>>, <<Row("STOP", p, r)>>}, NEW log \in {<<>>, <<Row("LOG", p, r)>>},
         event' = event \o stop \o log
  PROVE  RowsReferToTheirRun'
<1> DEFINE stopRow == Row("STOP", p, r)
           logRow == Row("LOG", p, r)
<1>1. /\ stopRow \in Rows /\ stopRow.type = "STOP" /\ stopRow.script = p /\ stopRow.ref = r
      /\ logRow \in Rows /\ logRow.type = "LOG" /\ logRow.script = p /\ logRow.ref = r
  BY DEF Row, Rows
<1>2. stop \in {<<>>, <<stopRow>>} /\ log \in {<<>>, <<logRow>>}
  OBVIOUS
<1> HIDE DEF stopRow, logRow
<1>0. PICK n \in Nat : n = Len(event)
  OBVIOUS
<1>3. \E a \in {0, 1}, b \in {0, 1} :
        /\ event' \in Seq(Rows) /\ Len(event') = n + a + b
        /\ \A i \in 1 .. n : event'[i] = event[i]
        /\ a = 1 => event'[n + 1] = stopRow
        /\ b = 1 => event'[n + a + 1] = logRow
  <2>1. CASE stop = <<>> /\ log = <<>>
    <3>1. event' \in Seq(Rows) /\ Len(event') = n + 0 + 0 /\ \A i \in 1 .. n : event'[i] = event[i]
      BY <1>0, <1>1, <2>1
    <3> QED
      BY <3>1
  <2>2. CASE stop = <<stopRow>> /\ log = <<>>
    <3>1. /\ event' \in Seq(Rows) /\ Len(event') = n + 1 + 0 /\ event'[n + 1] = stopRow
          /\ \A i \in 1 .. n : event'[i] = event[i]
      BY <1>0, <1>1, <2>2
    <3> QED
      BY <3>1
  <2>3. CASE stop = <<>> /\ log = <<logRow>>
    <3>1. /\ event' \in Seq(Rows) /\ Len(event') = n + 0 + 1 /\ event'[n + 0 + 1] = logRow
          /\ \A i \in 1 .. n : event'[i] = event[i]
      BY <1>0, <1>1, <2>3
    <3> QED
      BY <3>1
  <2>4. CASE stop = <<stopRow>> /\ log = <<logRow>>
    <3>1. /\ event' \in Seq(Rows) /\ Len(event') = n + 1 + 1
          /\ event'[n + 1] = stopRow /\ event'[n + 1 + 1] = logRow
          /\ \A i \in 1 .. n : event'[i] = event[i]
      BY <1>0, <1>1, <2>4
    <3> QED
      BY <3>1
  <2> QED
    BY <1>2, <2>1, <2>2, <2>3, <2>4
<1>a. PICK a \in {0, 1}, b \in {0, 1} :
        /\ event' \in Seq(Rows) /\ Len(event') = n + a + b
        /\ \A i \in 1 .. n : event'[i] = event[i]
        /\ a = 1 => event'[n + 1] = stopRow
        /\ b = 1 => event'[n + a + 1] = logRow
  BY <1>3
<1>4. ASSUME NEW i \in n + 1 .. Len(event')
      PROVE  /\ event'[i].ref = r /\ event'[i].script = p /\ event'[i].type # "START"
             /\ i # n + 1 => i = n + 2 /\ event'[i].type = "LOG"
                             /\ event'[n + 1].type = "STOP" /\ event'[n + 1].ref = r
  <2>1. i = n + 1 \/ i = n + 2
    <3>1. Len(event') \in {n, n + 1, n + 2}
      BY <1>0, <1>a
    <3> QED
      BY <1>0, <3>1
  <2>2. CASE i = n + 1
    <3>1. event'[i] = stopRow \/ event'[i] = logRow
      <4>1. CASE a = 1
        BY <1>a, <2>2, <4>1
      <4>2. CASE a = 0 /\ b = 1
        BY <1>a, <2>2, <4>2
      <4> QED
        BY <1>a, <4>1, <4>2
    <3> QED
      BY <1>1, <2>2, <3>1
  <2>3. CASE i = n + 2
    <3>1. a = 1 /\ b = 1
      BY <1>a, <2>3
    <3>2. event'[n + 1] = stopRow /\ event'[i] = logRow
      BY <1>a, <2>3, <3>1
    <3> QED
      BY <1>1, <2>3, <3>2
  <2> QED
    BY <2>1, <2>2, <2>3
<1>5. ASSUME NEW i \in n + 1 .. Len(event'), r # 0
      PROVE  /\ r < i /\ event'[r].type = "START" /\ event'[r].script = p
             /\ \A j \in r + 1 .. i - 1 : event'[j].type = "STOP" /\ event'[j].ref = r
                                           /\ event'[i].type = "LOG"
  <2>1. r = n /\ n \in 1 .. n /\ event'[r] = event[r]
    BY <1>0, <1>a, <1>5
  <2>2. r < i /\ event'[r].type = "START" /\ event'[r].script = p
    BY <1>0, <1>5, <2>1
  <2>3. ASSUME NEW j \in r + 1 .. i - 1
        PROVE  event'[j].type = "STOP" /\ event'[j].ref = r /\ event'[i].type = "LOG"
    <3>1. i # n + 1 /\ i = n + 2 /\ j = n + 1
      BY <1>4, <2>1
    <3> QED
      BY <1>4, <3>1
  <2> QED
    BY <2>2, <2>3
<1>6. \A i \in n + 1 .. Len(event') : event'[i].type = "START" => event'[i].ref = 0
  BY <1>4
<1> QED
  <2>1. \A i \in Len(event) + 1 .. Len(event') :
          LET q == event'[i].ref IN
          /\ event'[i].type = "START" => q = 0
          /\ q # 0 => /\ q < i /\ event'[q].type = "START"
                      /\ event'[q].script = event'[i].script
                      /\ \A j \in q + 1 .. i - 1 :
                           /\ event'[j].type = "STOP" /\ event'[j].ref = q
                           /\ event'[i].type = "LOG"
    <3> SUFFICES ASSUME NEW i \in Len(event) + 1 .. Len(event')
                 PROVE  LET q == event'[i].ref IN
                        /\ event'[i].type = "START" => q = 0
                        /\ q # 0 => /\ q < i /\ event'[q].type = "START"
                                    /\ event'[q].script = event'[i].script
                                    /\ \A j \in q + 1 .. i - 1 :
                                         /\ event'[j].type = "STOP" /\ event'[j].ref = q
                                         /\ event'[i].type = "LOG"
      OBVIOUS
    <3>1. i \in n + 1 .. Len(event')
      BY <1>0
    <3>2. event'[i].ref = r /\ event'[i].script = p
      BY <1>4, <3>1
    <3>3. event'[i].type = "START" => r = 0
      BY <1>6, <3>1, <3>2
    <3>4. r # 0 => /\ r < i /\ event'[r].type = "START" /\ event'[r].script = p
                   /\ \A j \in r + 1 .. i - 1 : event'[j].type = "STOP" /\ event'[j].ref = r
                                                 /\ event'[i].type = "LOG"
      BY <1>5, <3>1
    <3> QED
      BY <3>2, <3>3, <3>4
  <2>2. /\ event' \in Seq(Rows) /\ Len(event') >= Len(event)
        /\ \A i \in 1 .. Len(event) : event'[i] = event[i]
    BY <1>0, <1>a
  <2> QED
    BY <2>1, <2>2, OldRowsStay

LEMMA RowsStep ==
  ASSUME ~StartTimeouts, Typed, SlotInv, LogInv, RowsReferToTheirRun, StartIsLast, [Next]_vars
  PROVE  RowsReferToTheirRun' /\ StartIsLast'
<1>1. event \in Seq(Rows) /\ runningScriptName \in Names /\ StartRow \in Nat
  BY DEF Typed, TypeOK, StartRow, SlotInv
<1>2. CASE Journal!End
  <2>1. /\ StartRow' = 0
        /\ \E stop \in {<<>>, <<Row("STOP", runningScriptName, StartRow)>>},
              log \in {<<>>, <<Row("LOG", runningScriptName, StartRow)>>} :
             event' = event \o stop \o log
    BY <1>2 DEF Journal!End, Journal!Row, Row, StartRow
  <2> QED
    BY <1>1, <2>1, EndedRunRefers DEF StartIsLast
<1>3. ASSUME NEW p \in Paths, Journal!Begin(p)
      PROVE  RowsReferToTheirRun' /\ StartIsLast'
  <2>1. /\ runningScriptName' = p /\ p \in Names
        /\ \/ event' = Append(event, Row("START", p, 0)) /\ StartRow' = Len(event) + 1
           \/ event' = event /\ StartRow' = 0
    BY <1>3 DEF Journal!Begin, Journal!Row, Row, StartRow, Names
  <2>2. CASE event' = Append(event, Row("START", p, 0)) /\ StartRow' = Len(event) + 1
    BY <1>1, <2>1, <2>2, BegunRunRefers DEF StartIsLast
  <2>3. CASE event' = event /\ StartRow' = 0
    BY <2>3 DEF StartIsLast, RowsReferToTheirRun
  <2> QED
    BY <2>1, <2>2, <2>3
<1>4. CASE UNCHANGED Journal!vars
  <2>1. event' = event /\ runningScriptName' = runningScriptName /\ StartRow' = StartRow
    BY <1>4 DEF Journal!vars, StartRow
  <2> QED
    BY <2>1 DEF StartIsLast, RowsReferToTheirRun
<1> QED
  BY <1>2, <1>3, <1>4, JournalStep DEF Journal!Next

(* handleLog: whatever inserts fail, the STOP and LOG rows of a run name   *)
(* its START or none, stand right after it, and there is one of each at    *)
(* most.                                                                   *)
THEOREM RowsReferRight ==
  ASSUME ~StartTimeouts
  PROVE  Spec => []RowsReferToTheirRun
<1>1. Init => SlotInv /\ LogInv /\ RowsReferToTheirRun /\ StartIsLast
  BY DEF Init, SlotInv, LogInv, Files, RowsReferToTheirRun, StartIsLast, StartRow
<1>2. Typed /\ SlotInv /\ LogInv /\ RowsReferToTheirRun /\ StartIsLast /\ [Next]_vars =>
        SlotInv' /\ LogInv' /\ RowsReferToTheirRun' /\ StartIsLast'
  BY SlotStep, LogStep, RowsStep
<1> QED
  BY <1>1, <1>2, TypeCorrectness, PTL DEF Spec, Typed
=============================================================================
