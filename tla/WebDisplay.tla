----------------------------- MODULE WebDisplay -----------------------------
(***************************************************************************)
(* The threads of the program and what they share.  The main thread runs   *)
(* the handlers of keys, port, timers and processes, one after the other;  *)
(* every web client is served by a thread of its own, which reads display, *)
(* schedule and journal.  QMutexes guard them: mainMutex, schedMutex and   *)
(* dbMutex, all recursive.                                                 *)
(*                                                                         *)
(* A handler is the sequence of the steps other threads can tell apart:    *)
(* lock and unlock, the assignment of a shared field and its reading.  Any *)
(* number of steps of other threads may come between two of them, as when  *)
(* startBgProcess waits for the script.  A text that is read while it is   *)
(* assigned comes out as the old one or garbled.                           *)
(***************************************************************************)
EXTENDS Integers, Sequences

CONSTANTS Web, Main, NoThread,
          Texts,                  \* headings and messages clients set
          Schedules,              \* later versions of schedule.xml
          MaxHandlers, MaxPages   \* bounds

Threads  == Web \cup {Main}
MainLock == "mainMutex"
SchedLock == "schedMutex"
DbLock   == "dbMutex"
Locks    == {MainLock, SchedLock, DbLock}

(* The schedule is a vector that is emptied and filled again: two halves   *)
(* are enough to tell a whole one.                                         *)
Fields   == {"heading", "message", "top", "bottom", "bgRunning"}
Pictures == {"default", "starting", "failed", "stopping"}
NoValue  == "none"
Garbled  == "garbled"
Values   == Texts \cup Schedules \cup Pictures \cup {NoValue, Garbled, "yes", "no"}

ASSUME ConstantsAssumption ==
  /\ Main \notin Web /\ NoThread \notin Threads
  /\ NoValue \notin Texts \cup Schedules
  /\ MaxHandlers \in Nat /\ MaxPages \in Nat

VARIABLES
  holder, depth,  \* lock -> the thread that has it, and how often
  todo,           \* thread -> the steps left of its handler
  shared,         \* field -> value
  page,           \* web thread -> field -> what its page shows
  shown,          \* history: web thread -> what was on display since its
                  \* request came
  raced,          \* history: web thread -> the program put a message of its
                  \* own on display meanwhile, which it does without mainMutex
  handlers, pages

vars == <<holder, depth, todo, shared, page, shown, raced, handlers, pages>>

Step(op, on, value) == [op |-> op, on |-> on, value |-> value]
Lock(l)       == <<Step("lock", l, NoValue)>>
Unlock(l)     == <<Step("unlock", l, NoValue)>>
Put(f, value) == <<Step("put", f, value)>>
Get(f)        == <<Step("get", f, NoValue)>>
Under(l, steps) == Lock(l) \o steps \o Unlock(l)

-----------------------------------------------------------------------------
(* What the main thread calls.                                             *)

(* Mutant: without the QMutexLocker.                                       *)
setHeadingUnlocked(value) == Put("heading", value)
setHeading(value) == Under(MainLock, Put("heading", value))
setMessage(value) == Under(MainLock, Put("message", value))

CmdText(heading, message) == setHeading(heading) \o setMessage(message)

(* resetText takes no lock.                                                *)
resetText == Put("heading", "default") \o Put("message", "default")

get_status_string == Under(MainLock, <<>>)
enable            == Under(SchedLock, <<>>)
handleLog         == Under(DbLock, <<>>)

(* Mutant: the message is set through setMessage.                          *)
startBgProcessLocking(started) ==
  IF shared["bgRunning"] = "yes" THEN <<>>
  ELSE setMessage("starting") \o
       IF started THEN handleLog \o Put("bgRunning", "yes")
       ELSE setMessage("failed")

startBgProcess(started) ==
  IF shared["bgRunning"] = "yes" THEN <<>>
  ELSE Put("message", "starting") \o
       IF started THEN handleLog \o Put("bgRunning", "yes")
       ELSE Put("message", "failed")

stopBgProcess ==
  IF shared["bgRunning"] = "yes" THEN Put("message", "stopping") ELSE <<>>

(* STOP, then LOG.                                                         *)
processComplete == Put("bgRunning", "no") \o handleLog \o handleLog

(* The command of a due event is started under schedMutex.                 *)
timeout(due, started) ==
  Under(SchedLock, IF due THEN startBgProcess(started) ELSE <<>>)

(* Every event of the file is scheduled under schedMutex once more.        *)
scheduleEvent(half, version) == Under(SchedLock, Put(half, version))
loadSchedule(version) ==
  Under(SchedLock, scheduleEvent("top", version) \o scheduleEvent("bottom", version))

(* HEAD and MESG are the halves of TEXT.                                   *)
Handlers ==
  {CmdText(t, u) : t, u \in Texts}
    \cup {resetText, get_status_string, enable, stopBgProcess}
    \cup {startBgProcess(b) : b \in BOOLEAN}
    \cup {timeout(due, b) : due, b \in BOOLEAN}
    \cup {loadSchedule(v) : v \in Schedules}
    \cup (IF shared["bgRunning"] = "yes" THEN {processComplete} ELSE {})

(* What a web thread does, all of it under mainMutex.  That a page also    *)
(* reads bgRunning, for its toolbar and a row, is left out.                *)
getRecentTable == Under(DbLock, <<>>)
(* Mutant: the table is written without the lock.                          *)
htmlUnlocked   == Get("top") \o Get("bottom")
html           == Under(SchedLock, Get("top") \o Get("bottom"))

(* write waits, under mainMutex, until the client has taken all but 16 KB. *)
Send == <<Step("send", "page", NoValue)>>

handleStatusPage == Get("heading") \o Get("message") \o getRecentTable \o Send
handleIndex      == Send
handleSysInfo    == html \o Send

service == {Under(MainLock, p) : p \in {handleIndex, handleStatusPage, handleSysInfo}}

-----------------------------------------------------------------------------
BlankPage == [f \in Fields |-> NoValue]

Init ==
  /\ holder = [l \in Locks |-> NoThread] /\ depth = [l \in Locks |-> 0]
  /\ todo = [t \in Threads |-> <<>>]
  /\ shared = [f \in Fields |-> IF f = "bgRunning" THEN "no" ELSE "default"]
  /\ page = [w \in Web |-> BlankPage]
  /\ shown = [w \in Web |-> {}] /\ raced = [w \in Web |-> FALSE]
  /\ handlers = 0 /\ pages = 0

Displayed == <<shared["heading"], shared["message"]>>

(* The event loop of the main thread calls the next handler.               *)
Handle(steps) ==
  /\ todo[Main] = <<>> /\ steps # <<>> /\ handlers < MaxHandlers
  /\ todo' = [todo EXCEPT ![Main] = steps] /\ handlers' = handlers + 1
  /\ UNCHANGED <<holder, depth, shared, page, shown, raced, pages>>

(* HttpConnectionHandler::read calls service.                              *)
Request(w, steps) ==
  /\ todo[w] = <<>> /\ pages < MaxPages
  /\ todo' = [todo EXCEPT ![w] = steps] /\ pages' = pages + 1
  /\ shown' = [shown EXCEPT ![w] = {Displayed}]
  /\ UNCHANGED <<holder, depth, shared, page, raced, handlers>>

Advance(t, op) ==
  /\ todo[t] # <<>> /\ Head(todo[t]).op = op
  /\ todo' = [todo EXCEPT ![t] = Tail(@)]
  /\ UNCHANGED <<handlers, pages>>

Acquire(t) ==
  /\ Advance(t, "lock")
  /\ LET l == Head(todo[t]).on IN
     /\ holder[l] \in {NoThread, t}
     /\ holder' = [holder EXCEPT ![l] = t] /\ depth' = [depth EXCEPT ![l] = @ + 1]
  /\ UNCHANGED <<shared, page, shown, raced>>

(* With its last step a web thread has sent its page.                      *)
Release(t) ==
  /\ Advance(t, "unlock")
  /\ LET l == Head(todo[t]).on IN
     /\ depth' = [depth EXCEPT ![l] = @ - 1]
     /\ holder' = [holder EXCEPT ![l] = IF depth[l] = 1 THEN NoThread ELSE t]
  /\ IF t \in Web /\ Tail(todo[t]) = <<>>
     THEN /\ page' = [page EXCEPT ![t] = BlankPage]
          /\ shown' = [shown EXCEPT ![t] = {}]
          /\ raced' = [raced EXCEPT ![t] = FALSE]
     ELSE UNCHANGED <<page, shown, raced>>
  /\ UNCHANGED shared

Write(t) ==
  /\ Advance(t, "put")
  /\ LET s == Head(todo[t]) IN
     /\ shared' = [shared EXCEPT ![s.on] = s.value]
     /\ shown' = [w \in Web |-> IF todo[w] = <<>> THEN {}
                                ELSE shown[w] \cup {Displayed'}]
     /\ raced' = [w \in Web |-> todo[w] # <<>> /\ (raced[w] \/ s.value \in Pictures)]
  /\ UNCHANGED <<holder, depth, page>>

(* The main thread is just assigning a text to field f.                    *)
BeingPut(f) ==
  /\ f \in {"heading", "message"} /\ todo[Main] # <<>>
  /\ Head(todo[Main]).op = "put" /\ Head(todo[Main]).on = f

Read(t) ==
  /\ Advance(t, "get")
  /\ LET f == Head(todo[t]).on IN
     /\ \E v \in {shared[f]} \cup (IF BeingPut(f) THEN {Garbled} ELSE {}) :
          page' = [page EXCEPT ![t][f] = v]
     /\ raced' = [raced EXCEPT ![t] =
                    @ \/ (BeingPut(f) /\ Head(todo[Main]).value \in Pictures)]
  /\ UNCHANGED <<holder, depth, shared, shown>>

SendPage(t) ==
  /\ Advance(t, "send") /\ UNCHANGED <<holder, depth, shared, page, shown, raced>>

Run(t) == Acquire(t) \/ Release(t) \/ Write(t) \/ Read(t) \/ SendPage(t)

Next ==
  \/ \E steps \in Handlers : Handle(steps)
  \/ \E w \in Web, steps \in service : Request(w, steps)
  \/ \E t \in Threads : Run(t)

Spec == Init /\ [][Next]_vars

(* Every thread goes on (its client takes the page or hangs up), and a     *)
(* mutex that is free again and again is given to each that waits for it.  *)
FairSpec == Spec /\ \A t \in Threads : SF_vars(Run(t))

-----------------------------------------------------------------------------
Steps ==
  [op : {"lock", "unlock"}, on : Locks, value : {NoValue}]
    \cup [op : {"put"}, on : Fields, value : Values \ {NoValue}]
    \cup [op : {"get"}, on : Fields, value : {NoValue}]
    \cup [op : {"send"}, on : {"page"}, value : {NoValue}]

(* Every variable has its type.                                            *)
TypeOK ==
  /\ holder \in [Locks -> Threads \cup {NoThread}] /\ depth \in [Locks -> Nat]
  /\ todo \in [Threads -> Seq(Steps)] /\ shared \in [Fields -> Values \ {NoValue}]
  /\ page \in [Web -> [Fields -> Values]]
  /\ shown \in [Web -> SUBSET (Values \X Values)] /\ raced \in [Web -> BOOLEAN]
  /\ handlers \in Nat /\ pages \in Nat

(* A status page that only setters came between shows heading and message  *)
(* as they were on display at some moment since its request came, be it    *)
(* the moment between the two halves of TEXT.                              *)
PageIsASnapshot ==
  \A w \in Web :
    LET p == page[w] IN
    p["message"] # NoValue /\ ~raced[w] => <<p["heading"], p["message"]>> \in shown[w]

(* The table of the schedule is of one file, even if it is written while   *)
(* the file is read again.                                                 *)
TableIsOfOneFile ==
  \A w \in Web : page[w]["bottom"] # NoValue => page[w]["top"] = page[w]["bottom"]

(* Every request is answered and every handler of the main thread returns, *)
(* a due script that is started while pages are written included.          *)
ThreadsComeBack == \A t \in Threads : todo[t] # <<>> ~> todo[t] = <<>>
=============================================================================
