------------------------------ MODULE PortDriver ------------------------------
(***************************************************************************)
(* The Python driver (display_driver.py) on a connection of the control    *)
(* port, and the programs that use it: the demonstration of main and the   *)
(* unit tests (test-display.py).  A method sends its line and takes what   *)
(* the next recv returns, one reply or several, for the answer.            *)
(***************************************************************************)
EXTENDS ControlPort, Lists

CONSTANTS driver,   \* its connection
          Texts     \* headings somebody else's program sets

VARIABLES
  attempt, cleanup,    \* the calls to come
  at,               \* "new", "idle", "waiting", "closed", "raised"
  asked,            \* which of the lines sent is the first of the last call
  got,              \* replies received
  debt,             \* replies that no call of the driver waited for
  results           \* what the calls returned

driverVars == <<attempt, cleanup, at, asked, got, debt, results>>
portVars   == vars
allVars    == <<portVars, driverVars>>

-----------------------------------------------------------------------------
(* The methods.  A text is a sequence of lines, each a sequence of the     *)
(* pieces between its colons.                                              *)
PlainText(t) == <<<<t>>>>
LineOf(pieces) ==
  IF pieces = <<>> THEN [cmd |-> "BLANK", args |-> <<>>]
  ELSE [cmd |-> Head(pieces), args |-> Tail(pieces)]
LinesFor(cmd, text) ==
  <<[cmd |-> cmd, args |-> Head(text)]>>
    \o [k \in DOMAIN Tail(text) |-> LineOf(Tail(text)[k])]
Joined(h, m) == Front(h) \o <<Last(h) \o Head(m)>> \o Tail(m)

Call(cmd, text, wants) == [sends |-> LinesFor(cmd, text), wants |-> wants]
InvalidArgument == [sends |-> <<>>, wants |-> "exception"]

reset == Call("REST", <<<<>>>>, "ok")
set_heading(t) == Call("HEAD", t, "ok")
set_message(t) == Call("MESG", t, "ok")
set_text(h, m) == Call("TEXT", Joined(h, m), "ok")
set_time(b) == Call("TIME", PlainText(Flag(b)), "ok")
get_script_list == Call("LIST", PlainText("SCRIPT"), "list")
get_style_list == Call("LIST", PlainText("STYLE"), "list")
get_status == Call("STAT", <<<<>>>>, "status")
Elapsed(t, word) ==
  IF t \in Timers THEN Call("ELAP", <<<<t, word>>>>, "ok") ELSE InvalidArgument
set_elapsed(t, s) == IF s \in {"0", "1"} THEN Elapsed(t, s) ELSE InvalidArgument
start_elapsed(t) == Elapsed(t, "START")
stop_elapsed(t) == Elapsed(t, "STOP")
elapsed_reset == <<stop_elapsed("0"), set_elapsed("0", "0"),
                   stop_elapsed("1"), set_elapsed("1", "0")>>
close == Call("QUIT", <<<<>>>>, "nothing")

(* What a method makes of the replies in one recv; an empty one is the end *)
(* of the connection.  Of a status the driver reads the sixth field as     *)
(* running and the seventh as script.                                      *)
Status(f) == [heading |-> f[2], message |-> f[3], style |-> f[4], time |-> f[5],
              running |-> f[6], script |-> f[7]]
Statuses(data) == {k \in DOMAIN data : data[k][1] = "STAT"}
FirstStatus(data) ==
  data[CHOOSE k \in Statuses(data) : \A j \in Statuses(data) : k <= j]
Listed(data) == SelectSeq(Concat(data), LAMBDA x : x \notin {"OK", "FAIL"})
Value(wants, data) ==
  CASE wants = "ok" -> [is |-> "bool", holds |-> data = <<OK>>]
    [] wants = "list" -> [is |-> "list", items |-> Listed(data)]
    [] wants = "status" /\ Statuses(data) # {} ->
         [is |-> "status", of |-> Status(FirstStatus(data))]
    [] OTHER -> [is |-> "exception"]

(* What main does and, after Ctrl-C in it or its end, undoes; the unit      *)
(* tests in the order they run in; a program of somebody else.             *)
Demonstration ==
  [attempt |-> <<set_text(PlainText("a"), PlainText("b")), set_elapsed("0", "1"),
              set_elapsed("1", "1"), start_elapsed("1"), start_elapsed("0"),
              set_message(PlainText("c"))>>,
   cleanup |-> <<reset>> \o elapsed_reset \o <<close>>]
UnitTests ==
  [attempt |-> <<>>,
   cleanup |-> <<reset, get_script_list, get_style_list,
                 set_heading(PlainText("a")), get_status,
                 set_message(PlainText("b")), get_status,
                 set_text(PlainText("c"), PlainText("c")), get_status,
                 get_status, set_time(FALSE), get_status, set_time(TRUE), get_status,
                 reset, close>>]
Other(t) ==
  [attempt |-> <<>>, cleanup |-> <<set_heading(t), get_status, set_elapsed("2", "1"), close>>]
Programs == {Demonstration, UnitTests} \cup {Other(t) : t \in Texts}

-----------------------------------------------------------------------------
DriverInit ==
  /\ Init /\ \E p \in Programs : attempt = p.attempt /\ cleanup = p.cleanup
  /\ at = "new" /\ asked = 0 /\ got = 0 /\ debt = 0 /\ results = <<>>

Calls == attempt \o cleanup
Returned == IF attempt # <<>> THEN attempt' = Tail(attempt) /\ UNCHANGED cleanup
            ELSE cleanup' = Tail(cleanup) /\ UNCHANGED attempt

(* __exit__ of the with statement.                                         *)
Leaves == attempt' = <<>> /\ cleanup' = IF Len(Calls) > 1 THEN <<close>> ELSE <<>>

open ==
  /\ at = "new" /\ onConnection(driver) /\ at' = "idle"
  /\ UNCHANGED <<attempt, cleanup, asked, got, debt, results>>

ConnectionRefused ==
  /\ at = "new" /\ app # "constructing" /\ tcpServer = "null" /\ at' = "raised"
  /\ UNCHANGED <<portVars, attempt, cleanup, asked, got, debt, results>>

AwaitsNoReset(c) == c.wants # "nothing" /\ c.sends[1].cmd # "REST"
Awaits(c) == c.wants # "nothing"

(* sendall; close does not wait for the reply to QUIT.                     *)
Ask ==
  /\ at = "idle" /\ Calls # <<>> /\ sock[driver] # "deleted"
  /\ LET c == Head(Calls) IN
     /\ c.wants # "exception"
     /\ wire' = [wire EXCEPT ![driver] = @ \o c.sends]
     /\ sent' = [sent EXCEPT ![driver] = @ \o c.sends]
     /\ asked' = Len(sent[driver]) + 1
     /\ debt' = debt + Len(c.sends) - 1
     /\ at' = IF Awaits(c) THEN "waiting" ELSE IF c.wants = "nothing" THEN "closed" ELSE "idle"
     /\ IF Awaits(c) THEN UNCHANGED <<attempt, cleanup>> ELSE Returned
  /\ UNCHANGED <<app, tcpServer, sock, buffer, reader, display, script, saved, log,
                 got, results>>

RaiseInvalid ==
  /\ at = "idle" /\ Calls # <<>> /\ Head(Calls).wants = "exception" /\ Leaves
  /\ UNCHANGED <<portVars, at, asked, got, debt, results>>

(* BrokenPipeError, also from the close of __exit__.                       *)
BrokenPipe ==
  /\ at = "idle" /\ Calls # <<>> /\ sock[driver] = "deleted" /\ at' = "raised"
  /\ UNCHANGED <<portVars, attempt, cleanup, asked, got, debt, results>>

(* recv returns at least one reply, and all that came with it; after the   *)
(* end of the connection replies may be lost and it returns nothing.       *)
Receive(n) ==
  /\ at = "waiting" /\ got + n <= Len(answers[driver])
  /\ n = 0 => sock[driver] = "deleted"
  /\ LET c == Head(Calls)
         data == [k \in 1 .. n |-> answers[driver][got + k].reply]
         v == Value(c.wants, data)
     IN /\ results' = Append(results, [line |-> c.sends[1], asked |-> asked, first |-> got + 1,
                                       n |-> n, debt |-> debt, value |-> v])
        /\ IF v.is = "exception" THEN Leaves ELSE Returned
  /\ at' = "idle" /\ got' = got + n
  /\ UNCHANGED <<portVars, asked, debt>>

(* Ctrl-C in the loop of main, caught there: a reply that was waited for   *)
(* is left to the next call.                                               *)
KeyboardInterrupt ==
  /\ at \in {"idle", "waiting"} /\ attempt # <<>>
  /\ attempt' = <<>> /\ at' = "idle" /\ debt' = Len(sent[driver]) - got
  /\ UNCHANGED <<portVars, cleanup, asked, got, results>>

(* The end of the driver's socket reaches the program after all it sent,   *)
(* unless replies nobody reads make the kernel reset the connection.       *)
Disconnected ==
  /\ at \in {"closed", "raised"} /\ Hangup(driver)
  /\ wire[driver] \o buffer[driver] = <<>> \/ Len(answers[driver]) > got
  /\ UNCHANGED driverVars

(* Scripts started by hand change nothing the driver sets (ControlPort).   *)
Display ==
  /\ Construct \/ Loop \/ ReadyRead(driver) \/ KeyQuit \/ Leave
  /\ UNCHANGED driverVars

DriverNext ==
  \/ open \/ ConnectionRefused \/ Ask \/ RaiseInvalid \/ BrokenPipe
  \/ (\E n \in 0 .. Len(answers[driver]) : Receive(n))
  \/ KeyboardInterrupt \/ Disconnected \/ Display

DriverSpec == DriverInit /\ [][DriverNext]_allVars

-----------------------------------------------------------------------------
(* Every result is that of the call's own line, or of a line as far before *)
(* it as there were replies nobody waited for: to a call that was          *)
(* interrupted, to the further lines of a text.                            *)
InStep ==
  \A i \in DOMAIN results : LET r == results[i] IN
    r.n > 0 => r.asked - r.first <= r.debt /\ r.first <= r.asked

(* What a call that returned True had set.                                 *)
SetBefore(i) ==
  LET set == {j \in 1 .. i - 1 : /\ results[j].line.cmd \in {"HEAD", "TEXT", "REST"}
                                 /\ results[j].value = [is |-> "bool", holds |-> TRUE]}
      last == results[CHOOSE j \in set : \A k \in set : k <= j].line
  IN IF set = {} \/ last.cmd = "REST" THEN DefaultDisplay(TRUE).heading ELSE last.args[1]

(* The heading of a status is what the driver last was told it had set, as *)
(* the unit tests assert (test-display.py:29-58), until a reply is owed.   *)
StatusIsAsSet ==
  \A i \in DOMAIN results : LET r == results[i] IN
    r.debt = 0 /\ r.value.is = "status" => r.value.of.heading = SetBefore(i)

(* A program that is through, interrupted or not, has left the display     *)
(* with its own heading and without timers, once it has read the lines     *)
(* (main resets both); those of a program that raised may be left.         *)
LeftReset ==
  at = "closed" /\ app = "up" /\ sock[driver] \in {"quit", "deleted"}
    /\ (\E i \in DOMAIN results : results[i].line.cmd = "REST")
    /\ (\A i \in DOMAIN results : results[i].value.is # "exception") =>
      /\ display.heading = DefaultDisplay(TRUE).heading
      /\ \A t \in Timers : ~display.show[t] /\ ~display.timing[t]

(* The three together: what a program is told through the driver is true.  *)
DriverKnowsTheDisplay == InStep /\ StatusIsAsSet /\ LeftReset
===============================================================================
