----------------------------- MODULE ControlPort -----------------------------
(***************************************************************************)
(* The TCP control port of MainWindow: clients send lines XXXX:arg:arg,    *)
(* parseText finds the command and its handler, and one reply goes back    *)
(* for every line.  All of it runs on the main thread.  onReadReady works  *)
(* off what the socket has buffered; what arrives meanwhile waits in the   *)
(* kernel for the next readyRead.                                          *)
(***************************************************************************)
EXTENDS Integers, Sequences

CONSTANTS Text,         \* what headings, names and arguments may be
          Conn, NoConn,
          Lines,        \* what clients send, [cmd |-> , args |-> ]
          Scripts,      \* keys of the loaded scripts, in order
          Styles,       \* labels of the loaded styles, in order
          MaxLines,     \* bound: lines a client sends
          PortMayBeTaken

NoScript == "none"  \* the empty name
Words == {"OK", "FAIL", "STAT", "VERS", "TestDisplay", "waiting", "starting",
          "failed", "stopping", "0", "1", NoScript}

ASSUME ConstantsAssumption ==
  /\ NoConn \notin Conn /\ Words \subseteq Text
  /\ Lines \subseteq [cmd : Text, args : Seq(Text)]
  /\ Scripts \in Seq(Text \ {NoScript}) /\ Styles \in Seq(Text) \ {<<>>}
  /\ MaxLines \in Nat /\ PortMayBeTaken \in BOOLEAN

VARIABLES
  app,       \* "constructing", "up", "closing" (exec returns soon), "gone",
             \* "crashed"
  tcpServer, \* "listening" or "null"
  sock,      \* connection -> "none", "open", "quit", "deleted"
  wire,      \* connection -> lines in the kernel
  buffer,    \* connection -> lines the socket has read
  reader,    \* the connection onReadReady serves
  display,   \* heading, message, time, style, sched, show and timing
  script,    \* key of the running script, or NoScript
  saved,     \* settings/scheduler
  sent,      \* history: connection -> lines sent
  answers,   \* history: connection -> [line, reply, alive] of every reply
  history    \* history: the replies of all connections

log  == <<answers, history>>
vars == <<app, tcpServer, sock, wire, buffer, reader, display, script, saved,
          sent, log>>

OK   == <<"OK">>
FAIL == <<"FAIL">>
Flag(b) == IF b THEN "1" ELSE "0"
Timers  == {"0", "1"}
Keys    == {Scripts[i] : i \in DOMAIN Scripts}

DefaultDisplay(enabled) ==
  [heading |-> "TestDisplay", message |-> "waiting", time |-> TRUE, style |-> 0,
   sched |-> enabled, show |-> [t \in Timers |-> FALSE],
   timing |-> [t \in Timers |-> FALSE]]

(* commandVec: each entry has minOptions = maxOptions.                     *)
Options == [HEAD |-> 1, MESG |-> 1, QUIT |-> 0, TIME |-> 1, REST |-> 0,
            STYL |-> 1, STAT |-> 0, RUNK |-> 1, STOP |-> 0, LIST |-> 1,
            KILL |-> 0, SCHED |-> 1, TEXT |-> 2, ELAP |-> 2, VERS |-> 0]

(* The constructor: without a port it calls close() and returns, and       *)
(* main() goes on to exec(); the switch is saved before it was ever read.  *)
Init ==
  /\ app = "constructing" /\ tcpServer = "null"
  /\ sock = [c \in Conn |-> "none"] /\ reader = NoConn
  /\ wire = [c \in Conn |-> <<>>] /\ buffer = [c \in Conn |-> <<>>]
  /\ saved \in BOOLEAN /\ display = DefaultDisplay(TRUE) /\ script = NoScript
  /\ sent = [c \in Conn |-> <<>>] /\ answers = [c \in Conn |-> <<>>]
  /\ history = <<>>

Construct ==
  /\ app = "constructing" /\ app' = "up"
  /\ \/ /\ tcpServer' = "listening"
        /\ display' = DefaultDisplay(saved) /\ UNCHANGED saved
     \/ /\ PortMayBeTaken
        /\ saved' = display.sched /\ UNCHANGED <<tcpServer, display>>
  /\ UNCHANGED <<sock, wire, buffer, reader, script, sent, log>>

AtLoop == app = "up" /\ reader = NoConn

(* closeEvent: StopServer deletes the server and the sockets, its          *)
(* children; through a null tcpServer it crashes.                          *)
Close ==
  IF tcpServer = "listening"
  THEN /\ saved' = display.sched /\ app' = "closing" /\ tcpServer' = "null"
       /\ sock' = [c \in Conn |-> IF sock[c] = "none" THEN "none" ELSE "deleted"]
  ELSE app' = "crashed" /\ UNCHANGED <<tcpServer, sock, saved>>

-----------------------------------------------------------------------------
(* Clients and the network.                                                *)

onConnection(c) ==
  /\ AtLoop /\ tcpServer = "listening" /\ sock[c] = "none"
  /\ sock' = [sock EXCEPT ![c] = "open"]
  /\ UNCHANGED <<app, tcpServer, wire, buffer, reader, display, script, saved,
                 sent, log>>

Send(c, line) ==
  /\ app = "up" /\ sock[c] \in {"open", "quit"} /\ Len(sent[c]) < MaxLines
  /\ wire' = [wire EXCEPT ![c] = Append(@, line)]
  /\ sent' = [sent EXCEPT ![c] = Append(@, line)]
  /\ UNCHANGED <<app, tcpServer, sock, buffer, reader, display, script, saved,
                 log>>

(* The client is gone: the socket emits disconnected and is deleted later. *)
Hangup(c) ==
  /\ AtLoop /\ sock[c] \in {"open", "quit"}
  /\ sock' = [sock EXCEPT ![c] = "deleted"]
  /\ UNCHANGED <<app, tcpServer, wire, buffer, reader, display, script, saved,
                 sent, log>>

-----------------------------------------------------------------------------
(* The handlers: what becomes of the display, and the reply.               *)

Set(field, value, reply) ==
  display' = [display EXCEPT ![field] = value] /\ reply = OK

Unchanged(reply, r) ==
  reply = r /\ UNCHANGED <<display, script>>

toInt(s) ==
  IF s = "1" THEN 1 ELSE IF s = "2" THEN 2 ELSE IF s = "minus" THEN -1 ELSE 0

CmdHead(a, reply) == Set("heading", a[1], reply)
CmdMesg(a, reply) == Set("message", a[1], reply)
CmdTime(a, reply) == Set("time", a[1] = "1", reply)

CmdRest(reply) ==
  /\ display' = [display EXCEPT !.heading = DefaultDisplay(TRUE).heading,
                                !.message = DefaultDisplay(TRUE).message,
                                !.time = TRUE]
  /\ reply = OK

(* A negative index reads before the vector.                               *)
CmdStyl(a, reply) ==
  LET index == toInt(a[1]) IN
  IF index >= Len(Styles) THEN reply = FAIL /\ UNCHANGED display
  ELSE index >= 0 /\ Set("style", index, reply)

(* Mutant: the switch is set before the argument is checked.               *)
CmdSchedUnchecked(a, reply) ==
  /\ display' = [display EXCEPT !.sched = (a[1] = "1")]
  /\ reply = IF a[1] \in {"0", "1"} THEN OK ELSE FAIL

CmdSched(a, reply) ==
  IF a[1] \in {"0", "1"} THEN Set("sched", a[1] = "1", reply)
  ELSE reply = FAIL /\ UNCHANGED display

(* Mutant: message before heading.                                         *)
CmdTextSwapped(a, reply) ==
  display' = [display EXCEPT !.heading = a[2], !.message = a[1]] /\ reply = OK

CmdText(a, reply) ==
  display' = [display EXCEPT !.heading = a[1], !.message = a[2]] /\ reply = OK

CmdElap(a, reply) ==
  LET on == a[2] \in {"1", "ON"} IN
  IF a[1] \in Timers /\ a[2] \in {"START", "STOP"}
  THEN Set("timing", [display.timing EXCEPT ![a[1]] = (a[2] = "START")], reply)
  ELSE IF a[1] \in Timers /\ a[2] \in {"1", "ON", "0", "OFF"}
          /\ display.show[a[1]] # on
  THEN Set("show", [display.show EXCEPT ![a[1]] = on], reply)
  ELSE reply = FAIL /\ UNCHANGED display

get_status_string ==
  <<"STAT", display.heading, display.message, Styles[display.style + 1],
    Flag(display.time), Flag(display.sched), Flag(script # NoScript), script>>

(* The list of styles is empty unless there are scripts.                   *)
CmdList(a, reply) ==
  \/ a[1] = "SCRIPT" /\ reply = Scripts \o OK
  \/ a[1] = "STYLE" /\ reply = (IF Scripts # <<>> THEN Styles ELSE <<>>) \o OK
  \/ a[1] \notin {"SCRIPT", "STYLE"} /\ reply = FAIL

(* startBgProcess, with its wait for the start; ScriptControl has the rest.*)
StartBgProcess(k, reply) ==
  \/ /\ script' = k /\ reply = OK
     /\ display' = [display EXCEPT !.message = "starting"]
  \/ /\ reply = FAIL /\ UNCHANGED script
     /\ display' = [display EXCEPT !.message = "failed"]

CmdRunk(a, reply) ==
  IF a[1] \in Keys /\ script = NoScript THEN StartBgProcess(a[1], reply)
  ELSE Unchanged(reply, FAIL)

CmdStop(reply) ==
  IF script # NoScript
  THEN reply = OK /\ UNCHANGED script
       /\ display' = [display EXCEPT !.message = "stopping"]
  ELSE Unchanged(reply, FAIL)

-----------------------------------------------------------------------------
(* MainWindow::onReadReady and parseText.                                  *)

ReadyRead(c) ==
  /\ AtLoop /\ sock[c] = "open" /\ wire[c] # <<>>
  /\ reader' = c
  /\ buffer' = [buffer EXCEPT ![c] = @ \o wire[c]]
  /\ wire' = [wire EXCEPT ![c] = <<>>]
  /\ UNCHANGED <<app, tcpServer, sock, display, script, saved, sent, log>>

HasLine == app = "up" /\ reader # NoConn /\ buffer[reader] # <<>>
Take == buffer' = [buffer EXCEPT ![reader] = Tail(@)]

Record(line, reply, alive) == [line |-> line, reply |-> reply, alive |-> alive]

(* alive tells whether the socket that is written to still exists.         *)
Answer(line, reply, alive) ==
  /\ answers' = [answers EXCEPT ![reader] = Append(@, Record(line, reply, alive))]
  /\ history' = Append(history, Record(line, reply, alive))

Known(line) ==
  /\ line.cmd \in DOMAIN Options
  /\ Options[line.cmd] >= Len(line.args) /\ Options[line.cmd] <= Len(line.args)

(* The commands that leave connection and program as they are.             *)
Handle(line, reply) ==
  LET a == line.args cmd == line.cmd IN
  \/ cmd = "HEAD"  /\ CmdHead(a, reply) /\ UNCHANGED script
  \/ cmd = "MESG"  /\ CmdMesg(a, reply) /\ UNCHANGED script
  \/ cmd = "TIME"  /\ CmdTime(a, reply) /\ UNCHANGED script
  \/ cmd = "REST"  /\ CmdRest(reply) /\ UNCHANGED script
  \/ cmd = "STYL"  /\ CmdStyl(a, reply) /\ UNCHANGED script
  \/ cmd = "SCHED" /\ CmdSched(a, reply) /\ UNCHANGED script
  \/ cmd = "TEXT"  /\ CmdText(a, reply) /\ UNCHANGED script
  \/ cmd = "ELAP"  /\ CmdElap(a, reply) /\ UNCHANGED script
  \/ cmd = "RUNK"  /\ CmdRunk(a, reply)
  \/ cmd = "STOP"  /\ CmdStop(reply)
  \/ cmd = "LIST"  /\ CmdList(a, reply) /\ UNCHANGED <<display, script>>
  \/ cmd = "STAT"  /\ Unchanged(reply, get_status_string)
  \/ cmd = "VERS"  /\ Unchanged(reply, <<"VERS">>)

Replies == {OK, FAIL, get_status_string, <<"VERS">>, Scripts \o OK,
            Styles \o OK}

ParseText ==
  /\ HasLine
  /\ sock[reader] = "open"
  /\ LET line == Head(buffer[reader]) IN
     /\ line.cmd \notin {"BLANK", "QUIT", "KILL"}
     /\ \E reply \in Replies :
          /\ IF Known(line) THEN Handle(line, reply) ELSE Unchanged(reply, FAIL)
          /\ Answer(line, reply, TRUE)
  /\ Take
  /\ UNCHANGED <<app, tcpServer, sock, wire, reader, saved, sent>>

(* Mutant: the loop does not look at bDisconnect.                          *)
QuitAndReadOn ==
  /\ HasLine /\ Head(buffer[reader]).cmd = "QUIT"
  /\ Answer(Head(buffer[reader]), OK, TRUE) /\ Take
  /\ UNCHANGED <<app, tcpServer, sock, wire, reader, display, script, saved, sent>>

(* disconnectFromHost: what was sent after QUIT is never read.             *)
Quit ==
  /\ HasLine
  /\ LET line == Head(buffer[reader]) IN
     /\ line.cmd = "QUIT"
     /\ IF Known(line)
        THEN /\ Answer(line, OK, TRUE) /\ reader' = NoConn
             /\ sock' = [sock EXCEPT ![reader] = "quit"]
        ELSE Answer(line, FAIL, TRUE) /\ UNCHANGED <<reader, sock>>
  /\ Take
  /\ UNCHANGED <<app, tcpServer, wire, display, script, saved, sent>>

(* KILL closes the window from within onReadReady, whose socket is deleted *)
(* with the server; write and canReadLine on it may do anything.           *)
Kill ==
  /\ HasLine
  /\ LET line == Head(buffer[reader]) IN
     /\ line.cmd = "KILL"
     /\ IF Known(line)
        THEN /\ tcpServer = "listening" /\ Close
             /\ Answer(line, OK, FALSE)
             /\ reader' = NoConn
        ELSE Answer(line, FAIL, TRUE) /\ UNCHANGED <<app, tcpServer, sock, saved, reader>>
  /\ Take
  /\ UNCHANGED <<wire, display, script, sent>>

(* args[0] of an empty line, styleVec[-1].                                 *)
Undefined(line) ==
  \/ line.cmd = "BLANK"
  \/ line.cmd = "STYL" /\ Known(line) /\ toInt(line.args[1]) < 0

ReadOutOfBounds ==
  /\ HasLine
  /\ LET line == Head(buffer[reader]) IN
     /\ Undefined(line)
     /\ \/ app' = "crashed" /\ UNCHANGED <<buffer, log>>
        \/ line.cmd = "BLANK" /\ Answer(line, FAIL, TRUE) /\ Take /\ UNCHANGED app
  /\ UNCHANGED <<tcpServer, sock, wire, reader, display, script, saved, sent>>

(* Mutant: an if in place of the while.                                    *)
ReadOneLine ==
  /\ app = "up" /\ reader # NoConn /\ reader' = NoConn
  /\ UNCHANGED <<app, tcpServer, sock, wire, buffer, display, script, saved,
                 sent, log>>

ReadDone ==
  /\ app = "up" /\ reader # NoConn /\ buffer[reader] = <<>> /\ reader' = NoConn
  /\ UNCHANGED <<app, tcpServer, sock, wire, buffer, display, script, saved,
                 sent, log>>

-----------------------------------------------------------------------------
(* The rest of the main thread.                                            *)

KeyStart(k) ==
  /\ AtLoop /\ tcpServer = "listening" /\ script = NoScript
  /\ \E reply \in {OK, FAIL} : StartBgProcess(k, reply)
  /\ UNCHANGED <<app, tcpServer, sock, wire, buffer, reader, saved, sent, log>>

ProcessComplete ==
  /\ AtLoop /\ script # NoScript /\ script' = NoScript
  /\ UNCHANGED <<app, tcpServer, sock, wire, buffer, reader, display, saved,
                 sent, log>>

KeyQuit ==
  /\ AtLoop /\ Close
  /\ UNCHANGED <<wire, buffer, reader, display, script, sent, log>>

Leave ==
  /\ app = "closing" /\ app' = "gone"
  /\ UNCHANGED <<tcpServer, sock, wire, buffer, reader, display, script, saved,
                 sent, log>>

Terminated == app \in {"gone", "crashed"} /\ UNCHANGED vars

Network == \E c \in Conn : onConnection(c) \/ Hangup(c)
                           \/ \E line \in Lines : Send(c, line)
Loop == ParseText \/ Quit \/ Kill \/ ReadOutOfBounds \/ ReadDone

Next ==
  \/ Construct \/ Network \/ Loop \/ \E c \in Conn : ReadyRead(c)
  \/ \E k \in Keys : KeyStart(k)
  \/ ProcessComplete \/ KeyQuit \/ Leave \/ Terminated

Spec == Init /\ [][Next]_vars

(* onReadReady runs to its end, and the event loop comes to every socket   *)
(* that stays readable.                                                    *)
FairSpec == Spec /\ WF_vars(Loop) /\ \A c \in Conn : SF_vars(ReadyRead(c))

-----------------------------------------------------------------------------
Displays == [heading : Text, message : Text, time : BOOLEAN,
             style : 0 .. Len(Styles) - 1, sched : BOOLEAN,
             show : [Timers -> BOOLEAN], timing : [Timers -> BOOLEAN]]
Records  == [line : Lines, reply : Seq(Text), alive : BOOLEAN]

(* Every variable has its type; the style of a display that is painted is  *)
(* one of the vector.                                                      *)
TypeOK ==
  /\ app \in {"constructing", "up", "closing", "gone", "crashed"}
  /\ tcpServer \in {"listening", "null"}
  /\ sock \in [Conn -> {"none", "open", "quit", "deleted"}]
  /\ wire \in [Conn -> Seq(Lines)] /\ buffer \in [Conn -> Seq(Lines)]
  /\ sent \in [Conn -> Seq(Lines)] /\ reader \in Conn \cup {NoConn}
  /\ display \in Displays /\ script \in Keys \cup {NoScript} /\ saved \in BOOLEAN
  /\ answers \in [Conn -> Seq(Records)] /\ history \in Seq(Records)

Said(h, cmd) == h.line.cmd = cmd /\ h.reply = OK

(* Each client gets one reply for each of its lines, in the order it sent  *)
(* them, and none after its QUIT.                                          *)
AnswersFollowRequests ==
  \A c \in Conn :
    LET h == answers[c] IN
    /\ Len(h) <= Len(sent[c])
    /\ \A i \in DOMAIN h : /\ h[i].line = sent[c][i]
                           /\ Said(h[i], "QUIT") => i = Len(h)

LastOk(i, cmds) ==
  LET done == {j \in 1 .. i - 1 : history[j].reply = OK /\ history[j].line.cmd \in cmds}
  IN IF done = {} THEN 0 ELSE CHOOSE j \in done : \A k \in done : k <= j

(* A status tells what the last successful command of any client set:      *)
(* heading, style, time and the switch of the scheduler are shared.        *)
StatusShowsLastWrites ==
  \A i \in DOMAIN history :
    LET r == history[i].reply IN
    r[1] = "STAT" =>
      /\ LET j == LastOk(i, {"HEAD", "TEXT", "REST"}) IN
         r[2] = IF j = 0 \/ history[j].line.cmd = "REST" THEN "TestDisplay"
                ELSE history[j].line.args[1]
      /\ LET j == LastOk(i, {"STYL"}) IN
         r[4] = Styles[IF j = 0 THEN 1 ELSE toInt(history[j].line.args[1]) + 1]
      /\ LET j == LastOk(i, {"TIME", "REST"}) IN
         j # 0 => r[5] = IF history[j].line.cmd = "REST" THEN "1"
                         ELSE Flag(history[j].line.args[1] = "1")
      /\ LET j == LastOk(i, {"SCHED"}) IN
         j # 0 => r[6] = history[j].line.args[1]

Answered == history' # history
Newest   == history'[Len(history')]

(* A command that is answered FAIL has changed nothing, except that RUNK   *)
(* shows that the script did not start.                                    *)
FailChangesNothing ==
  [][Answered /\ Newest.reply = FAIL =>
       /\ script' = script
       /\ Newest.line.cmd # "RUNK" => display' = display]_vars

(* Every line gets its reply, unless the client hangs up, quits or the     *)
(* program ends first.                                                     *)
LinesAreAnswered ==
  \A c \in Conn : \A n \in 1 .. MaxLines :
    Len(sent[c]) >= n ~>
      Len(answers[c]) >= n \/ sock[c] # "open" \/ app # "up"

-----------------------------------------------------------------------------
(* readme.md: KILL has "No response".                                      *)
RepliesGoToLiveSockets == \A i \in DOMAIN history : history[i].alive

-----------------------------------------------------------------------------
(* The inductive invariant of AnswersFollowRequests: what a client sent is *)
(* what was answered, what the socket has buffered and what is still in    *)
(* the kernel, in this order; after QUIT nothing of it is read any more.   *)
InOrder(s, a, b, w) ==
  /\ Len(s) = Len(a) + Len(b) + Len(w)
  /\ \A i \in 1 .. Len(a) : a[i].line = s[i]
  /\ \A i \in 1 .. Len(b) : b[i] = s[Len(a) + i]
  /\ \A i \in 1 .. Len(w) : w[i] = s[Len(a) + Len(b) + i]

Conserved(c) == InOrder(sent[c], answers[c], buffer[c], wire[c])

QuitIsLast(c) ==
  \A i \in 1 .. Len(answers[c]) :
    Said(answers[c][i], "QUIT") =>
      i = Len(answers[c]) /\ sock[c] \in {"quit", "deleted"}

AnswersInv ==
  /\ \A c \in Conn : Conserved(c) /\ QuitIsLast(c)
  /\ reader # NoConn /\ app = "up" => sock[reader] = "open"
  /\ app = "constructing" => reader = NoConn
=============================================================================
