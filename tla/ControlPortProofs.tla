-------------------------- MODULE ControlPortProofs --------------------------
(***************************************************************************)
(* The replies of the control port, for any number of clients and lines:   *)
(* one per line, in the order the client sent them, none after QUIT.  What *)
(* a client sent is conserved: answered, buffered or in the kernel.  A      *)
(* reply FAIL means that nothing was changed, and a status is up to date.  *)
(***************************************************************************)
EXTENDS ControlPort, TLAPS

LEMMA WordsAreText ==
  /\ "OK" \in Text /\ "FAIL" \in Text /\ "STAT" \in Text /\ "VERS" \in Text
  /\ "TestDisplay" \in Text /\ "waiting" \in Text /\ "starting" \in Text
  /\ "failed" \in Text /\ "stopping" \in Text /\ "0" \in Text /\ "1" \in Text
  /\ NoScript \in Text
BY ConstantsAssumption DEF Words

LEMMA LineTypes ==
  ASSUME NEW line \in Lines
  PROVE  line.cmd \in Text /\ line.args \in Seq(Text)
BY ConstantsAssumption

LEMMA ArgsOfKnown ==
  ASSUME NEW line \in Lines, Known(line)
  PROVE  /\ line.cmd \in {"HEAD", "MESG", "TIME", "STYL", "RUNK", "LIST", "SCHED"}
              => line.args[1] \in Text
         /\ line.cmd \in {"TEXT", "ELAP"} =>
              line.args[1] \in Text /\ line.args[2] \in Text
BY LineTypes DEF Known, Options

LEMMA DefaultIsDisplay ==
  ASSUME NEW enabled \in BOOLEAN
  PROVE  DefaultDisplay(enabled) \in Displays
<1>1. 0 \in 0 .. Len(Styles) - 1
  BY ConstantsAssumption
<1> QED
  BY <1>1, WordsAreText DEF DefaultDisplay, Displays

LEMMA RepliesAreTyped ==
  ASSUME TypeOK
  PROVE  \A reply \in Replies : reply \in Seq(Text)
<1>1. /\ display.heading \in Text /\ display.message \in Text
      /\ display.style \in 0 .. Len(Styles) - 1
  BY DEF TypeOK, Displays
<1>2. Styles[display.style + 1] \in Text
  BY <1>1, ConstantsAssumption
<1>3. script \in Text
  BY ConstantsAssumption, WordsAreText DEF TypeOK, Keys
<1>4. get_status_string \in Seq(Text)
  BY <1>1, <1>2, <1>3, WordsAreText DEF get_status_string, Flag
<1>5. OK \in Seq(Text) /\ FAIL \in Seq(Text) /\ <<"VERS">> \in Seq(Text)
  BY WordsAreText DEF OK, FAIL
<1>6. Scripts \o OK \in Seq(Text) /\ Styles \o OK \in Seq(Text)
  BY <1>5, ConstantsAssumption
<1> QED
  BY <1>4, <1>5, <1>6 DEF Replies

(* Every handler leaves a display that can be painted.                     *)
LEMMA HandlersKeepTypes ==
  ASSUME TypeOK, NEW line \in Lines, Known(line), NEW reply, Handle(line, reply)
  PROVE  display' \in Displays /\ script' \in Keys \cup {NoScript}
<1> DEFINE a == line.args
<1>0. display \in Displays /\ script \in Keys \cup {NoScript}
  BY DEF TypeOK
<1>1. CASE line.cmd = "HEAD" /\ CmdHead(a, reply) /\ UNCHANGED script
  BY <1>0, <1>1, ArgsOfKnown DEF CmdHead, Set, Displays
<1>2. CASE line.cmd = "MESG" /\ CmdMesg(a, reply) /\ UNCHANGED script
  BY <1>0, <1>2, ArgsOfKnown DEF CmdMesg, Set, Displays
<1>3. CASE line.cmd = "TIME" /\ CmdTime(a, reply) /\ UNCHANGED script
  BY <1>0, <1>3 DEF CmdTime, Set, Displays
<1>4. CASE line.cmd = "REST" /\ CmdRest(reply) /\ UNCHANGED script
  BY <1>0, <1>4, WordsAreText DEF CmdRest, Displays, DefaultDisplay
<1>5. CASE line.cmd = "STYL" /\ CmdStyl(a, reply) /\ UNCHANGED script
  <2>1. toInt(a[1]) \in Int
    BY DEF toInt
  <2>2. CASE toInt(a[1]) >= Len(Styles)
    BY <1>0, <1>5, <2>2 DEF CmdStyl
  <2>3. CASE ~(toInt(a[1]) >= Len(Styles))
    <3>1. toInt(a[1]) \in 0 .. Len(Styles) - 1
      BY <1>5, <2>1, <2>3, ConstantsAssumption DEF CmdStyl
    <3>2. display' = [display EXCEPT !["style"] = toInt(a[1])]
      BY <1>5, <2>3 DEF CmdStyl, Set
    <3> QED
      BY <1>0, <1>5, <3>1, <3>2 DEF Displays
  <2> QED
    BY <2>2, <2>3
<1>6. CASE line.cmd = "SCHED" /\ CmdSched(a, reply) /\ UNCHANGED script
  BY <1>0, <1>6 DEF CmdSched, Set, Displays
<1>7. CASE line.cmd = "TEXT" /\ CmdText(a, reply) /\ UNCHANGED script
  BY <1>0, <1>7, ArgsOfKnown DEF CmdText, Displays
<1>8. CASE line.cmd = "ELAP" /\ CmdElap(a, reply) /\ UNCHANGED script
  <2>1. ASSUME NEW b \in BOOLEAN
        PROVE  /\ [display.timing EXCEPT ![a[1]] = b] \in [Timers -> BOOLEAN]
               /\ [display.show EXCEPT ![a[1]] = b] \in [Timers -> BOOLEAN]
    BY <1>0 DEF Displays
  <2>2. CASE \E b \in BOOLEAN :
               Set("timing", [display.timing EXCEPT ![a[1]] = b], reply)
    BY <1>0, <1>8, <2>1, <2>2 DEF Set, Displays
  <2>3. CASE \E b \in BOOLEAN :
               Set("show", [display.show EXCEPT ![a[1]] = b], reply)
    BY <1>0, <1>8, <2>1, <2>3 DEF Set, Displays
  <2>4. CASE UNCHANGED display
    BY <1>0, <1>8, <2>4
  <2>5. (a[2] = "START") \in BOOLEAN /\ (a[2] \in {"1", "ON"}) \in BOOLEAN
    OBVIOUS
  <2>6. \/ UNCHANGED display
        \/ \E b \in BOOLEAN :
             Set("timing", [display.timing EXCEPT ![a[1]] = b], reply)
        \/ \E b \in BOOLEAN :
             Set("show", [display.show EXCEPT ![a[1]] = b], reply)
    BY <1>8, <2>5 DEF CmdElap
  <2> QED
    BY <2>2, <2>3, <2>4, <2>6
<1>9. CASE line.cmd = "RUNK" /\ CmdRunk(a, reply)
  BY <1>0, <1>9, WordsAreText DEF CmdRunk, StartBgProcess, Unchanged, Displays
<1>10. CASE line.cmd = "STOP" /\ CmdStop(reply)
  BY <1>0, <1>10, WordsAreText DEF CmdStop, Unchanged, Displays
<1>11. CASE UNCHANGED <<display, script>>
  BY <1>0, <1>11
<1> QED
  BY <1>1, <1>2, <1>3, <1>4, <1>5, <1>6, <1>7, <1>8, <1>9, <1>10, <1>11
     DEF Handle, Unchanged

LEMMA HeadIsLine ==
  ASSUME TypeOK, HasLine
  PROVE  /\ Head(buffer[reader]) \in Lines /\ reader \in Conn
         /\ Tail(buffer[reader]) \in Seq(Lines)
BY DEF TypeOK, HasLine

LEMMA AnswerKeepsTypes ==
  ASSUME TypeOK, HasLine, NEW line \in Lines, NEW reply \in Seq(Text),
         NEW alive \in BOOLEAN, Answer(line, reply, alive)
  PROVE  answers' \in [Conn -> Seq(Records)] /\ history' \in Seq(Records)
<1>1. Record(line, reply, alive) \in Records
  BY DEF Record, Records
<1> QED
  BY <1>1, HeadIsLine DEF Answer, TypeOK

LEMMA ConstantReplies == OK \in Seq(Text) /\ FAIL \in Seq(Text)
BY WordsAreText DEF OK, FAIL

LEMMA LoopKeepsTypes ==
  ASSUME TypeOK, Loop
  PROVE  TypeOK'
<1> DEFINE line == Head(buffer[reader])
<1>1. CASE ParseText
  <2>0. HasLine /\ line \in Lines /\ Take
    BY <1>1, HeadIsLine DEF ParseText
  <2>1. PICK reply \in Replies :
          /\ IF Known(line) THEN Handle(line, reply) ELSE Unchanged(reply, FAIL)
          /\ Answer(line, reply, TRUE)
    BY <1>1 DEF ParseText
  <2>2. display' \in Displays /\ script' \in Keys \cup {NoScript}
    BY <2>0, <2>1, HandlersKeepTypes DEF Unchanged, TypeOK
  <2>3. answers' \in [Conn -> Seq(Records)] /\ history' \in Seq(Records)
    BY <2>0, <2>1, RepliesAreTyped, AnswerKeepsTypes
  <2> QED
    BY <1>1, <2>0, <2>2, <2>3, HeadIsLine DEF ParseText, Take, TypeOK
<1>2. CASE Quit
  <2>0. HasLine /\ line \in Lines /\ Take
    BY <1>2, HeadIsLine DEF Quit
  <2>1. Answer(line, OK, TRUE) \/ Answer(line, FAIL, TRUE)
    BY <1>2 DEF Quit
  <2>2. answers' \in [Conn -> Seq(Records)] /\ history' \in Seq(Records)
    BY <2>0, <2>1, ConstantReplies, AnswerKeepsTypes
  <2> QED
    BY <1>2, <2>0, <2>2, HeadIsLine DEF Quit, Take, TypeOK
<1>3. CASE Kill
  <2>0. HasLine /\ line \in Lines /\ Take
    BY <1>3, HeadIsLine DEF Kill
  <2>1. Answer(line, OK, FALSE) \/ Answer(line, FAIL, TRUE)
    BY <1>3 DEF Kill
  <2>2. answers' \in [Conn -> Seq(Records)] /\ history' \in Seq(Records)
    BY <2>0, <2>1, ConstantReplies, AnswerKeepsTypes
  <2>3. display.sched \in BOOLEAN
    BY DEF TypeOK, Displays
  <2>4. buffer' \in [Conn -> Seq(Lines)]
    BY <2>0, HeadIsLine DEF Take, TypeOK
  <2>5. /\ app' \in {"up", "closing", "crashed"} \cup {app}
        /\ tcpServer' \in {"null", tcpServer} /\ saved' \in {display.sched, saved}
        /\ reader' \in {NoConn, reader}
        /\ UNCHANGED <<wire, display, script, sent>>
    BY <1>3 DEF Kill, Close
  <2>6. sock' \in [Conn -> {"none", "open", "quit", "deleted"}]
    BY <1>3 DEF Kill, Close, TypeOK
  <2> QED
    BY <2>2, <2>3, <2>4, <2>5, <2>6 DEF TypeOK
<1>4. CASE ReadOutOfBounds
  <2>0. HasLine /\ line \in Lines
    BY <1>4, HeadIsLine DEF ReadOutOfBounds
  <2>1. CASE app' = "crashed" /\ UNCHANGED <<buffer, log>>
    BY <1>4, <2>1 DEF ReadOutOfBounds, TypeOK, log
  <2>2. CASE Answer(line, FAIL, TRUE) /\ Take /\ UNCHANGED app
    <3>1. answers' \in [Conn -> Seq(Records)] /\ history' \in Seq(Records)
      BY <2>0, <2>2, ConstantReplies, AnswerKeepsTypes
    <3> QED
      BY <1>4, <2>0, <2>2, <3>1, HeadIsLine DEF ReadOutOfBounds, Take, TypeOK
  <2> QED
    BY <1>4, <2>1, <2>2 DEF ReadOutOfBounds
<1>5. CASE ReadDone
  BY <1>5 DEF ReadDone, TypeOK, log
<1> QED
  BY <1>1, <1>2, <1>3, <1>4, <1>5 DEF Loop

(* Every variable keeps its type: no command leaves a style that is not    *)
(* loaded.                                                                 *)
THEOREM TypeCorrectness == Spec => []TypeOK
<1> USE ConstantsAssumption
<1>1. Init => TypeOK
  <2> SUFFICES ASSUME Init PROVE TypeOK
    OBVIOUS
  <2>1. display \in Displays
    BY DefaultIsDisplay DEF Init
  <2>2. /\ wire \in [Conn -> Seq(Lines)] /\ buffer \in [Conn -> Seq(Lines)]
        /\ sent \in [Conn -> Seq(Lines)]
        /\ answers \in [Conn -> Seq(Records)] /\ history \in Seq(Records)
    BY DEF Init
  <2>3. /\ sock \in [Conn -> {"none", "open", "quit", "deleted"}]
        /\ app \in {"constructing", "up", "closing", "gone", "crashed"}
        /\ tcpServer \in {"listening", "null"} /\ reader \in Conn \cup {NoConn}
        /\ script \in Keys \cup {NoScript} /\ saved \in BOOLEAN
    BY DEF Init
  <2> QED
    BY <2>1, <2>2, <2>3 DEF TypeOK
<1>2. TypeOK /\ [Next]_vars => TypeOK'
  <2> SUFFICES ASSUME TypeOK, [Next]_vars PROVE TypeOK'
    OBVIOUS
  <2>0. display.sched \in BOOLEAN
    BY DEF TypeOK, Displays
  <2>1. CASE UNCHANGED vars
    BY <2>1 DEF vars, log, TypeOK
  <2>2. CASE Construct
    <3>1. display' \in Displays
      BY <2>2, DefaultIsDisplay DEF Construct, TypeOK
    <3> QED
      BY <2>0, <2>2, <3>1 DEF Construct, TypeOK, log
  <2>3. CASE Network
    <3>1. ASSUME NEW c \in Conn, onConnection(c) \/ Hangup(c) PROVE TypeOK'
      BY <3>1 DEF onConnection, Hangup, TypeOK, log
    <3>2. ASSUME NEW c \in Conn, NEW line \in Lines, Send(c, line) PROVE TypeOK'
      <4>1. /\ Append(wire[c], line) \in Seq(Lines)
            /\ Append(sent[c], line) \in Seq(Lines)
        BY DEF TypeOK
      <4> QED
        BY <3>2, <4>1 DEF Send, TypeOK, log
    <3> QED
      BY <2>3, <3>1, <3>2 DEF Network
  <2>4. CASE Loop
    BY <2>4, LoopKeepsTypes
  <2>5. ASSUME NEW c \in Conn, ReadyRead(c) PROVE TypeOK'
    <3>1. buffer[c] \o wire[c] \in Seq(Lines) /\ <<>> \in Seq(Lines)
      BY DEF TypeOK
    <3> QED
      BY <2>5, <3>1 DEF ReadyRead, TypeOK, log
  <2>6. ASSUME NEW k \in Keys, KeyStart(k) PROVE TypeOK'
    <3>1. display' \in Displays /\ script' \in Keys \cup {NoScript}
      BY <2>6, WordsAreText DEF KeyStart, StartBgProcess, TypeOK, Displays
    <3> QED
      BY <2>6, <3>1 DEF KeyStart, TypeOK, log
  <2>7. CASE ProcessComplete \/ Leave
    BY <2>7 DEF ProcessComplete, Leave, TypeOK, log
  <2>8. CASE KeyQuit
    BY <2>0, <2>8 DEF KeyQuit, Close, TypeOK, log
  <2> QED
    BY <2>1, <2>2, <2>3, <2>4, <2>5, <2>6, <2>7, <2>8 DEF Next, Terminated
<1> QED
  BY <1>1, <1>2, PTL DEF Spec

-----------------------------------------------------------------------------
LEMMA Unquoted ==
  ASSUME TypeOK, AnswersInv, HasLine
  PROVE  /\ reader \in Conn /\ sock[reader] = "open"
         /\ \A i \in 1 .. Len(answers[reader]) : ~Said(answers[reader][i], "QUIT")
BY HeadIsLine DEF AnswersInv, QuitIsLast, HasLine, TypeOK

(* The three ways in which a line moves along.                            *)
LEMMA SentInOrder ==
  ASSUME NEW R, NEW L, NEW s \in Seq(L), NEW a \in Seq(R), NEW b \in Seq(L),
         NEW w \in Seq(L), NEW l \in L, InOrder(s, a, b, w)
  PROVE  InOrder(Append(s, l), a, b, Append(w, l))
<1>1. /\ Len(s) \in Nat /\ Len(a) \in Nat /\ Len(b) \in Nat /\ Len(w) \in Nat
  OBVIOUS
<1>2. /\ Len(Append(s, l)) = Len(s) + 1 /\ Append(s, l)[Len(s) + 1] = l
      /\ \A i \in 1 .. Len(s) : Append(s, l)[i] = s[i]
  OBVIOUS
<1>3. /\ Len(Append(w, l)) = Len(w) + 1 /\ Append(w, l)[Len(w) + 1] = l
      /\ \A i \in 1 .. Len(w) : Append(w, l)[i] = w[i]
  OBVIOUS
<1>4. \A i \in 1 .. Len(a) : a[i].line = Append(s, l)[i]
  BY <1>1, <1>2 DEF InOrder
<1>5. \A i \in 1 .. Len(b) : b[i] = Append(s, l)[Len(a) + i]
  BY <1>1, <1>2 DEF InOrder
<1>6. ASSUME NEW i \in 1 .. Len(w) + 1
      PROVE  Append(w, l)[i] = Append(s, l)[Len(a) + Len(b) + i]
  <2>1. Len(s) = Len(a) + Len(b) + Len(w)
    BY DEF InOrder
  <2>2. CASE i = Len(w) + 1
    <3>1. Len(a) + Len(b) + i = Len(s) + 1
      BY <1>1, <2>1, <2>2
    <3> QED
      BY <1>2, <1>3, <2>2, <3>1
  <2>3. CASE i \in 1 .. Len(w)
    <3>1. Len(a) + Len(b) + i \in 1 .. Len(s)
      BY <1>1, <2>1, <2>3
    <3>2. w[i] = s[Len(a) + Len(b) + i]
      BY <2>3 DEF InOrder
    <3> QED
      BY <1>2, <1>3, <2>3, <3>1, <3>2
  <2>4. i = Len(w) + 1 \/ i \in 1 .. Len(w)
    BY <1>1
  <2> QED
    BY <2>2, <2>3, <2>4
<1>7. Len(Append(s, l)) = Len(a) + Len(b) + Len(Append(w, l))
  BY <1>1, <1>2, <1>3 DEF InOrder
<1>8. \A i \in 1 .. Len(Append(w, l)) :
        Append(w, l)[i] = Append(s, l)[Len(a) + Len(b) + i]
  BY <1>3, <1>6
<1> QED
  BY <1>4, <1>5, <1>7, <1>8 DEF InOrder

LEMMA ReadInOrder ==
  ASSUME NEW R, NEW L, NEW s \in Seq(L), NEW a \in Seq(R), NEW b \in Seq(L),
         NEW w \in Seq(L), InOrder(s, a, b, w)
  PROVE  InOrder(s, a, b \o w, <<>>)
<1>1. /\ Len(s) \in Nat /\ Len(a) \in Nat /\ Len(b) \in Nat /\ Len(w) \in Nat
      /\ Len(<<>>) = 0
  OBVIOUS
<1>2. /\ Len(b \o w) = Len(b) + Len(w)
      /\ \A i \in 1 .. Len(b) + Len(w) :
           (b \o w)[i] = IF i <= Len(b) THEN b[i] ELSE w[i - Len(b)]
  OBVIOUS
<1>3. ASSUME NEW i \in 1 .. Len(b) + Len(w)
      PROVE  (b \o w)[i] = s[Len(a) + i]
  <2>1. CASE i <= Len(b)
    BY <1>1, <1>2, <2>1 DEF InOrder
  <2>2. CASE i > Len(b)
    <3> DEFINE j == i - Len(b)
    <3>1. j \in 1 .. Len(w) /\ (b \o w)[i] = w[j]
      BY <1>1, <1>2, <2>2
    <3>2. w[j] = s[Len(a) + Len(b) + j]
      BY <3>1 DEF InOrder
    <3>3. Len(a) + Len(b) + j = Len(a) + i
      BY <1>1
    <3> QED
      BY <3>1, <3>2, <3>3
  <2> QED
    BY <1>1, <2>1, <2>2
<1>4. \A i \in 1 .. Len(a) : a[i].line = s[i]
  BY DEF InOrder
<1>5. Len(s) = Len(a) + Len(b \o w) + 0
  BY <1>1, <1>2 DEF InOrder
<1> QED
  BY <1>1, <1>2, <1>3, <1>4, <1>5 DEF InOrder

LEMMA AnsweredInOrder ==
  ASSUME NEW R, NEW L, NEW s \in Seq(L), NEW a \in Seq(R), NEW b \in Seq(L),
         NEW w \in Seq(L), b # <<>>, NEW r \in R, r.line = Head(b),
         InOrder(s, a, b, w)
  PROVE  InOrder(s, Append(a, r), Tail(b), w)
<1>1. /\ Len(s) \in Nat /\ Len(a) \in Nat /\ Len(b) \in Nat /\ Len(w) \in Nat
  OBVIOUS
<1>2. /\ Len(Append(a, r)) = Len(a) + 1 /\ Append(a, r)[Len(a) + 1] = r
      /\ \A i \in 1 .. Len(a) : Append(a, r)[i] = a[i]
  OBVIOUS
<1>3. /\ Len(Tail(b)) = Len(b) - 1 /\ Len(b) > 0 /\ b[1] = Head(b)
      /\ \A i \in 1 .. Len(b) - 1 : Tail(b)[i] = b[i + 1]
  OBVIOUS
<1>4. b[1] = s[Len(a) + 1]
  BY <1>1, <1>3 DEF InOrder
<1>5. \A i \in 1 .. Len(a) + 1 : Append(a, r)[i].line = s[i]
  BY <1>1, <1>2, <1>3, <1>4 DEF InOrder
<1>6. ASSUME NEW i \in 1 .. Len(b) - 1
      PROVE  Tail(b)[i] = s[Len(a) + 1 + i]
  <2>1. i + 1 \in 1 .. Len(b) /\ Len(a) + (i + 1) = Len(a) + 1 + i
    BY <1>1
  <2>2. b[i + 1] = s[Len(a) + (i + 1)]
    BY <2>1 DEF InOrder
  <2> QED
    BY <1>3, <2>1, <2>2
<1>7. ASSUME NEW i \in 1 .. Len(w)
      PROVE  w[i] = s[Len(a) + 1 + (Len(b) - 1) + i]
  <2>1. Len(a) + 1 + (Len(b) - 1) + i = Len(a) + Len(b) + i
    BY <1>1
  <2> QED
    BY <2>1 DEF InOrder
<1>8. Len(s) = Len(a) + 1 + (Len(b) - 1) + Len(w)
  BY <1>1 DEF InOrder
<1> QED
  BY <1>1, <1>2, <1>3, <1>5, <1>6, <1>7, <1>8 DEF InOrder

(* A line that is answered moves from the buffer to the answers.           *)
LEMMA AnswerConserves ==
  ASSUME TypeOK, AnswersInv, HasLine, Take, NEW reply \in Seq(Text),
         NEW alive \in BOOLEAN, Answer(Head(buffer[reader]), reply, alive),
         wire' = wire, sent' = sent
  PROVE  \A c \in Conn : Conserved(c)'
<1>1. reader \in Conn /\ buffer[reader] \in Seq(Lines) /\ buffer[reader] # <<>>
  BY DEF TypeOK, HasLine
<1>2. ASSUME NEW c \in Conn, c # reader PROVE Conserved(c)'
  <2>1. answers'[c] = answers[c] /\ buffer'[c] = buffer[c]
    BY <1>1, <1>2 DEF Answer, Take, TypeOK
  <2> QED
    BY <2>1 DEF AnswersInv, Conserved
<1>3. ASSUME NEW c \in Conn, c = reader PROVE Conserved(c)'
  <2> DEFINE r == Record(Head(buffer[c]), reply, alive)
  <2>1. r \in Records /\ r.line = Head(buffer[c])
    BY <1>1, <1>3 DEF Record, Records
  <2>2. /\ answers[c] \in Seq(Records) /\ buffer[c] \in Seq(Lines)
        /\ wire[c] \in Seq(Lines) /\ sent[c] \in Seq(Lines)
    BY DEF TypeOK
  <2>3. answers'[c] = Append(answers[c], r) /\ buffer'[c] = Tail(buffer[c])
    BY <1>1, <1>3 DEF Answer, Take, TypeOK
  <2>4. InOrder(sent[c], answers[c], buffer[c], wire[c])
    BY DEF AnswersInv, Conserved
  <2> HIDE DEF r
  <2>5. InOrder(sent[c], Append(answers[c], r), Tail(buffer[c]), wire[c])
    BY <1>1, <1>3, <2>1, <2>2, <2>4, AnsweredInOrder
  <2> QED
    BY <2>3, <2>5 DEF Conserved
<1> QED
  BY <1>2, <1>3

(* The new reply is the last one, and only that to QUIT ends the reading.  *)
LEMMA QuitStaysLast ==
  ASSUME TypeOK, AnswersInv, HasLine,
         NEW reply \in Seq(Text), NEW alive \in BOOLEAN,
         Answer(Head(buffer[reader]), reply, alive),
         \A c \in Conn : sock[c] \in {"quit", "deleted"} =>
                            sock'[c] \in {"quit", "deleted"},
         Head(buffer[reader]).cmd = "QUIT" /\ reply = OK =>
           sock'[reader] \in {"quit", "deleted"}
  PROVE  \A c \in Conn : QuitIsLast(c)'
<1>1. reader \in Conn
  BY HeadIsLine
<1>2. ASSUME NEW c \in Conn, c # reader PROVE QuitIsLast(c)'
  <2>1. answers'[c] = answers[c]
    BY <1>1, <1>2 DEF Answer, TypeOK
  <2> QED
    BY <2>1 DEF AnswersInv, QuitIsLast
<1>3. ASSUME NEW c \in Conn, c = reader PROVE QuitIsLast(c)'
  <2> DEFINE a == answers[c] r == Record(Head(buffer[reader]), reply, alive)
  <2>1. a \in Seq(Records) /\ answers'[c] = Append(a, r)
    BY <1>1, <1>3 DEF Answer, TypeOK
  <2>2. r \in Records
    BY HeadIsLine DEF Record, Records
  <2>3. \A i \in 1 .. Len(a) : ~Said(a[i], "QUIT")
    BY <1>3, Unquoted
  <2>4. Said(r, "QUIT") => sock'[c] \in {"quit", "deleted"}
    BY <1>3 DEF Said, Record
  <2> HIDE DEF a, r
  <2>5. /\ Len(a) \in Nat /\ Len(Append(a, r)) = Len(a) + 1
        /\ Append(a, r)[Len(a) + 1] = r
        /\ \A i \in 1 .. Len(a) : Append(a, r)[i] = a[i]
    BY <2>1, <2>2
  <2>6. \A i \in 1 .. Len(a) + 1 :
          Said(Append(a, r)[i], "QUIT") =>
            i = Len(a) + 1 /\ sock'[c] \in {"quit", "deleted"}
    BY <2>3, <2>4, <2>5
  <2> QED
    BY <2>1, <2>5, <2>6 DEF QuitIsLast, Said
<1> QED
  BY <1>2, <1>3

LEMMA QuietStepKeeps ==
  ASSUME AnswersInv, app' = "constructing" => app = app' /\ reader' = reader,
         UNCHANGED <<answers, buffer, wire, sent>>,
         \A c \in Conn : sock[c] \in {"quit", "deleted"} =>
                            sock'[c] \in {"quit", "deleted"},
         reader' # NoConn /\ app' = "up" => sock'[reader'] = "open"
  PROVE  AnswersInv'
BY DEF AnswersInv, Conserved, QuitIsLast

LEMMA LoopKeepsAnswers ==
  ASSUME TypeOK, AnswersInv, Loop
  PROVE  AnswersInv'
<1> DEFINE line == Head(buffer[reader])
<1>0. HasLine => reader \in Conn /\ sock[reader] = "open"
  BY Unquoted
<1> OK \in Seq(Text) /\ FAIL \in Seq(Text) /\ TRUE \in BOOLEAN /\ FALSE \in BOOLEAN
  BY ConstantReplies
<1> app' # "constructing"
  BY DEF Loop, ParseText, Quit, Kill, Close, ReadOutOfBounds, ReadDone, HasLine
<1>1. CASE ParseText
  <2>1. HasLine /\ Take /\ sock' = sock /\ wire' = wire /\ sent' = sent
        /\ reader' = reader /\ line.cmd # "QUIT"
    BY <1>1 DEF ParseText
  <2>2. PICK reply \in Seq(Text) : Answer(line, reply, TRUE)
    BY <1>1, RepliesAreTyped DEF ParseText
  <2>3. \A c \in Conn : Conserved(c)'
    BY <2>1, <2>2, AnswerConserves
  <2>4. \A c \in Conn : QuitIsLast(c)'
    BY <2>1, <2>2, QuitStaysLast
  <2> QED
    BY <1>0, <2>1, <2>3, <2>4 DEF AnswersInv
<1>2. CASE Quit
  <2>1. HasLine /\ Take /\ wire' = wire /\ sent' = sent
    BY <1>2 DEF Quit
  <2>2. CASE Known(line)
    <3>1. Answer(line, OK, TRUE) /\ reader' = NoConn
          /\ sock' = [sock EXCEPT ![reader] = "quit"]
      BY <1>2, <2>2 DEF Quit
    <3>2. sock'[reader] = "quit"
          /\ \A c \in Conn : sock'[c] \in {sock[c], "quit"}
      BY <1>0, <2>1, <3>1 DEF TypeOK
    <3>3. \A c \in Conn : Conserved(c)'
      BY <2>1, <3>1, AnswerConserves
    <3>4. \A c \in Conn : QuitIsLast(c)'
      BY <2>1, <3>1, <3>2, QuitStaysLast
    <3> QED
      BY <3>1, <3>3, <3>4 DEF AnswersInv
  <2>3. CASE ~Known(line)
    <3>1. Answer(line, FAIL, TRUE) /\ reader' = reader /\ sock' = sock
      BY <1>2, <2>3 DEF Quit
    <3>2. FAIL # OK
      BY DEF FAIL, OK
    <3>3. \A c \in Conn : Conserved(c)'
      BY <2>1, <3>1, AnswerConserves
    <3>4. \A c \in Conn : QuitIsLast(c)'
      BY <2>1, <3>1, <3>2, QuitStaysLast
    <3> QED
      BY <1>0, <2>1, <3>1, <3>3, <3>4 DEF AnswersInv
  <2> QED
    BY <2>2, <2>3
<1>3. CASE Kill
  <2>1. HasLine /\ Take /\ wire' = wire /\ sent' = sent /\ line.cmd # "QUIT"
    BY <1>3 DEF Kill
  <2>2. \E reply \in {OK, FAIL}, alive \in BOOLEAN : Answer(line, reply, alive)
    BY <1>3 DEF Kill
  <2>3. \A c \in Conn : sock[c] \in {"quit", "deleted"} =>
                           sock'[c] \in {"quit", "deleted"}
    BY <1>3 DEF Kill, Close, TypeOK
  <2>4. \A c \in Conn : Conserved(c)'
    BY <2>1, <2>2, AnswerConserves
  <2>5. \A c \in Conn : QuitIsLast(c)'
    BY <2>1, <2>2, <2>3, QuitStaysLast
  <2>6. reader' # NoConn => sock' = sock /\ reader' = reader
    BY <1>3 DEF Kill
  <2> QED
    BY <1>0, <2>1, <2>4, <2>5, <2>6 DEF AnswersInv
<1>4. CASE ReadOutOfBounds
  <2>1. HasLine /\ sock' = sock /\ wire' = wire /\ sent' = sent
        /\ reader' = reader
    BY <1>4 DEF ReadOutOfBounds
  <2>2. CASE UNCHANGED <<buffer, log>>
    BY <1>0, <2>1, <2>2, QuietStepKeeps DEF log
  <2>3. CASE line.cmd = "BLANK" /\ Answer(line, FAIL, TRUE) /\ Take
    <3>1. line.cmd # "QUIT"
      BY <2>3
    <3>2. \A c \in Conn : Conserved(c)'
      BY <2>1, <2>3, AnswerConserves
    <3>3. \A c \in Conn : QuitIsLast(c)'
      BY <2>1, <2>3, <3>1, QuitStaysLast
    <3> QED
      BY <1>0, <2>1, <3>2, <3>3 DEF AnswersInv
  <2> QED
    BY <1>4, <2>2, <2>3 DEF ReadOutOfBounds
<1>5. CASE ReadDone
  BY <1>5, QuietStepKeeps DEF ReadDone, log
<1> QED
  BY <1>1, <1>2, <1>3, <1>4, <1>5 DEF Loop

(* Sending adds to the end of what was sent, readyRead moves the kernel's  *)
(* lines behind those the socket has.                                      *)
LEMMA SendConserves ==
  ASSUME TypeOK, AnswersInv, NEW c \in Conn, NEW line \in Lines, Send(c, line)
  PROVE  AnswersInv'
<1>1. /\ wire[c] \in Seq(Lines) /\ sent[c] \in Seq(Lines)
      /\ buffer[c] \in Seq(Lines) /\ answers[c] \in Seq(Records)
  BY DEF TypeOK
<1>2. /\ wire'[c] = Append(wire[c], line) /\ sent'[c] = Append(sent[c], line)
      /\ answers' = answers /\ buffer' = buffer /\ sock' = sock
      /\ app' = app /\ reader' = reader
      /\ \A d \in Conn \ {c} : wire'[d] = wire[d] /\ sent'[d] = sent[d]
  BY DEF Send, TypeOK, log
<1>3. InOrder(sent[c], answers[c], buffer[c], wire[c])
  BY DEF AnswersInv, Conserved
<1>4. InOrder(Append(sent[c], line), answers[c], buffer[c], Append(wire[c], line))
  BY <1>1, <1>3, SentInOrder
<1>5. Conserved(c)'
  BY <1>2, <1>4 DEF Conserved
<1>6. \A d \in Conn \ {c} : Conserved(d)'
  BY <1>2 DEF AnswersInv, Conserved
<1>7. \A d \in Conn : QuitIsLast(d)'
  BY <1>2 DEF AnswersInv, QuitIsLast
<1> QED
  BY <1>2, <1>5, <1>6, <1>7 DEF AnswersInv

LEMMA ReadyReadConserves ==
  ASSUME TypeOK, AnswersInv, NEW c \in Conn, ReadyRead(c)
  PROVE  AnswersInv'
<1>1. /\ wire[c] \in Seq(Lines) /\ sent[c] \in Seq(Lines)
      /\ buffer[c] \in Seq(Lines) /\ answers[c] \in Seq(Records)
  BY DEF TypeOK
<1>2. /\ buffer'[c] = buffer[c] \o wire[c] /\ wire'[c] = <<>>
      /\ answers' = answers /\ sent' = sent /\ sock' = sock
      /\ reader' = c /\ sock[c] = "open" /\ app' = "up"
      /\ \A d \in Conn \ {c} : wire'[d] = wire[d] /\ buffer'[d] = buffer[d]
  BY DEF ReadyRead, AtLoop, TypeOK, log
<1>3. InOrder(sent[c], answers[c], buffer[c], wire[c])
  BY DEF AnswersInv, Conserved
<1>4. InOrder(sent[c], answers[c], buffer[c] \o wire[c], <<>>)
  BY <1>1, <1>3, ReadInOrder
<1>5. Conserved(c)'
  BY <1>2, <1>4 DEF Conserved
<1>6. \A d \in Conn \ {c} : Conserved(d)'
  BY <1>2 DEF AnswersInv, Conserved
<1>7. \A d \in Conn : QuitIsLast(d)'
  BY <1>2 DEF AnswersInv, QuitIsLast
<1> QED
  BY <1>2, <1>5, <1>6, <1>7 DEF AnswersInv

THEOREM AnswersAreConserved == Spec => []AnswersInv
<1>1. Init => AnswersInv
  <2> SUFFICES ASSUME Init PROVE AnswersInv
    OBVIOUS
  <2>1. \A c \in Conn : answers[c] = <<>> /\ buffer[c] = <<>> /\ wire[c] = <<>>
                         /\ sent[c] = <<>>
    BY DEF Init
  <2> QED
    BY <2>1 DEF Init, AnswersInv, Conserved, InOrder, QuitIsLast
<1>2. TypeOK /\ AnswersInv /\ [Next]_vars => AnswersInv'
  <2> SUFFICES ASSUME TypeOK, AnswersInv, [Next]_vars PROVE AnswersInv'
    OBVIOUS
  <2>1. CASE UNCHANGED vars
    BY <2>1, QuietStepKeeps DEF vars, log, AnswersInv
  <2>2. CASE Construct
    BY <2>2, QuietStepKeeps DEF Construct, log, AnswersInv, TypeOK
  <2>3. ASSUME NEW c \in Conn, onConnection(c) \/ Hangup(c) PROVE AnswersInv'
    BY <2>3, QuietStepKeeps, ConstantsAssumption
       DEF onConnection, Hangup, AtLoop, log, TypeOK
  <2>4. ASSUME NEW c \in Conn, NEW line \in Lines, Send(c, line) PROVE AnswersInv'
    BY <2>4, SendConserves
  <2>5. CASE Loop
    BY <2>5, LoopKeepsAnswers
  <2>6. ASSUME NEW c \in Conn, ReadyRead(c) PROVE AnswersInv'
    BY <2>6, ReadyReadConserves
  <2>7. CASE ProcessComplete \/ Leave \/ \E k \in Keys : KeyStart(k)
    BY <2>7, QuietStepKeeps DEF ProcessComplete, Leave, KeyStart, log, AnswersInv
  <2>8. CASE KeyQuit
    BY <2>8, QuietStepKeeps DEF KeyQuit, Close, AtLoop, log, TypeOK
  <2> QED
    BY <2>1, <2>2, <2>3, <2>4, <2>5, <2>6, <2>7, <2>8
       DEF Next, Network, Terminated
<1> QED
  BY <1>1, <1>2, TypeCorrectness, PTL DEF Spec

(* One reply for each line, in the order it was sent, none after QUIT: for *)
(* any clients, lines, styles and scripts.                                 *)
THEOREM RepliesInOrder == Spec => []AnswersFollowRequests
<1>1. TypeOK /\ AnswersInv => AnswersFollowRequests
  <2> SUFFICES ASSUME TypeOK, AnswersInv, NEW c \in Conn
               PROVE  /\ Len(answers[c]) <= Len(sent[c])
                      /\ \A i \in DOMAIN answers[c] :
                           /\ answers[c][i].line = sent[c][i]
                           /\ Said(answers[c][i], "QUIT") => i = Len(answers[c])
    BY DEF AnswersFollowRequests
  <2>1. /\ answers[c] \in Seq(Records) /\ buffer[c] \in Seq(Lines)
        /\ wire[c] \in Seq(Lines) /\ sent[c] \in Seq(Lines)
    BY DEF TypeOK
  <2>2. /\ Len(answers[c]) \in Nat /\ Len(buffer[c]) \in Nat
        /\ Len(wire[c]) \in Nat /\ DOMAIN answers[c] = 1 .. Len(answers[c])
    BY <2>1
  <2>3. /\ Len(sent[c]) = Len(answers[c]) + Len(buffer[c]) + Len(wire[c])
        /\ \A i \in 1 .. Len(answers[c]) : answers[c][i].line = sent[c][i]
    BY DEF AnswersInv, Conserved, InOrder
  <2>4. \A i \in 1 .. Len(answers[c]) :
          Said(answers[c][i], "QUIT") => i = Len(answers[c])
    BY DEF AnswersInv, QuitIsLast
  <2>5. \A k, l, m \in Nat : k <= k + l + m
    OBVIOUS
  <2>6. Len(answers[c]) <= Len(sent[c])
    BY <2>2, <2>3, <2>5
  <2> QED
    BY <2>2, <2>3, <2>4, <2>6
<1> QED
  BY <1>1, AnswersAreConserved, TypeCorrectness, PTL

-----------------------------------------------------------------------------
(* LIST may answer with the names themselves.                              *)
NoNameIsStat == "STAT" \notin Keys /\ \A i \in DOMAIN Styles : Styles[i] # "STAT"

(* What a line does to the display, by its command and the reply.          *)
Effects(line, reply) ==
  LET done(cmds) == reply = OK /\ line.cmd \in cmds IN
  /\ display'.heading = IF done({"HEAD", "TEXT", "REST"})
                        THEN IF line.cmd = "REST" THEN "TestDisplay" ELSE line.args[1]
                        ELSE display.heading
  /\ display'.style = IF done({"STYL"}) THEN toInt(line.args[1]) ELSE display.style
  /\ Flag(display'.time) = IF done({"TIME", "REST"})
                           THEN IF line.cmd = "REST" THEN "1" ELSE Flag(line.args[1] = "1")
                           ELSE Flag(display.time)
  /\ Flag(display'.sched) = IF done({"SCHED"}) THEN line.args[1] ELSE Flag(display.sched)
  /\ reply = FAIL => /\ script' = script
                     /\ line.cmd # "RUNK" => display' = display
  /\ NoNameIsStat /\ reply[1] = "STAT" => reply = get_status_string

LEMMA NothingElse ==
  ASSUME NEW line, NEW reply, UNCHANGED <<display, script>>,
         reply = OK => line.cmd \notin {"HEAD", "TEXT", "REST", "STYL", "TIME", "SCHED"},
         NoNameIsStat /\ reply[1] = "STAT" => reply = get_status_string
  PROVE  Effects(line, reply)
BY DEF Effects

LEMMA HandlersHaveEffects ==
  ASSUME TypeOK, NEW line \in Lines, Known(line), NEW reply, Handle(line, reply)
  PROVE  Effects(line, reply)
<1> DEFINE a == line.args
<1>0. display \in Displays /\ OK # FAIL /\ OK[1] # "STAT" /\ FAIL[1] # "STAT"
  BY DEF TypeOK, OK, FAIL
<1>1. CASE line.cmd = "HEAD" /\ CmdHead(a, reply) /\ UNCHANGED script
  BY <1>0, <1>1 DEF CmdHead, Set, Displays, Effects
<1>2. CASE line.cmd = "MESG" /\ CmdMesg(a, reply) /\ UNCHANGED script
  BY <1>0, <1>2 DEF CmdMesg, Set, Displays, Effects
<1>3. CASE line.cmd = "TIME" /\ CmdTime(a, reply) /\ UNCHANGED script
  BY <1>0, <1>3 DEF CmdTime, Set, Displays, Effects, Flag
<1>4. CASE line.cmd = "REST" /\ CmdRest(reply) /\ UNCHANGED script
  BY <1>0, <1>4 DEF CmdRest, Displays, DefaultDisplay, Effects, Flag
<1>5. CASE line.cmd = "STYL" /\ CmdStyl(a, reply) /\ UNCHANGED script
  BY <1>0, <1>5 DEF CmdStyl, Set, Displays, Effects
<1>6. CASE line.cmd = "SCHED" /\ CmdSched(a, reply) /\ UNCHANGED script
  BY <1>0, <1>6 DEF CmdSched, Set, Displays, Effects, Flag
<1>7. CASE line.cmd = "TEXT" /\ CmdText(a, reply) /\ UNCHANGED script
  BY <1>0, <1>7 DEF CmdText, Displays, Effects
<1>8. CASE line.cmd = "ELAP" /\ CmdElap(a, reply) /\ UNCHANGED script
  BY <1>0, <1>8 DEF CmdElap, Set, Displays, Effects
<1>9. CASE line.cmd = "RUNK" /\ CmdRunk(a, reply)
  BY <1>0, <1>9 DEF CmdRunk, StartBgProcess, Unchanged, Displays, Effects
<1>10. CASE line.cmd = "STOP" /\ CmdStop(reply)
  BY <1>0, <1>10 DEF CmdStop, Unchanged, Displays, Effects
<1>11. CASE line.cmd = "LIST" /\ CmdList(a, reply) /\ UNCHANGED <<display, script>>
  <2>1. \A names \in Seq(Text) : (\A i \in DOMAIN names : names[i] # "STAT") =>
          (names \o OK)[1] # "STAT"
    BY WordsAreText DEF OK
  <2>2. NoNameIsStat =>
        /\ Scripts \in Seq(Text) /\ \A i \in DOMAIN Scripts : Scripts[i] # "STAT"
        /\ Styles \in Seq(Text) /\ \A i \in DOMAIN Styles : Styles[i] # "STAT"
        /\ <<>> \in Seq(Text) /\ \A i \in DOMAIN <<>> : <<>>[i] # "STAT"
    BY ConstantsAssumption DEF NoNameIsStat, Keys
  <2>3. NoNameIsStat => reply[1] # "STAT"
    BY <1>0, <1>11, <2>1, <2>2 DEF CmdList
  <2> QED
    BY <1>11, <2>3, NothingElse
<1>12. CASE line.cmd = "STAT" /\ Unchanged(reply, get_status_string)
  BY <1>12, NothingElse DEF Unchanged
<1>13. CASE line.cmd = "VERS" /\ Unchanged(reply, <<"VERS">>)
  BY <1>13, NothingElse DEF Unchanged
<1> QED
  BY <1>1, <1>2, <1>3, <1>4, <1>5, <1>6, <1>7, <1>8, <1>9, <1>10, <1>11, <1>12, <1>13
     DEF Handle

(* One step writes one reply, with its effects, or none.                   *)
LEMMA LoopAnswersOnce ==
  ASSUME TypeOK, Loop
  PROVE  \/ UNCHANGED <<display, script, history>>
         \/ \E line \in Lines, reply \in Seq(Text), alive \in BOOLEAN :
              history' = Append(history, Record(line, reply, alive)) /\ Effects(line, reply)
<1> DEFINE line == Head(buffer[reader])
<1>0. /\ OK \in Seq(Text) /\ FAIL \in Seq(Text) /\ OK # FAIL
      /\ OK[1] # "STAT" /\ FAIL[1] # "STAT"
  BY ConstantReplies DEF OK, FAIL
<1>1. CASE ParseText
  <2>1. PICK reply \in Replies :
          /\ IF Known(line) THEN Handle(line, reply) ELSE Unchanged(reply, FAIL)
          /\ Answer(line, reply, TRUE)
    BY <1>1 DEF ParseText
  <2>2. line \in Lines /\ reply \in Seq(Text)
    BY <1>1, <2>1, HeadIsLine, RepliesAreTyped DEF ParseText
  <2>3. Effects(line, reply)
    <3>1. CASE Known(line)
      BY <2>1, <2>2, <3>1, HandlersHaveEffects
    <3>2. CASE ~Known(line)
      BY <1>0, <2>1, <3>2, NothingElse DEF Unchanged
    <3> QED
      BY <3>1, <3>2
  <2> QED
    BY <2>1, <2>2, <2>3 DEF Answer
<1>2. CASE Quit \/ Kill
  <2>1. line \in Lines /\ line.cmd \in {"QUIT", "KILL"} /\ UNCHANGED <<display, script>>
    BY <1>2, HeadIsLine DEF Quit, Kill
  <2>2. PICK reply \in {OK, FAIL}, alive \in BOOLEAN : Answer(line, reply, alive)
    BY <1>2 DEF Quit, Kill
  <2>3. Effects(line, reply)
    BY <1>0, <2>1, <2>2, NothingElse
  <2> QED
    BY <1>0, <2>1, <2>2, <2>3 DEF Answer
<1>3. CASE ReadOutOfBounds
  <2>1. line \in Lines /\ UNCHANGED <<display, script>>
    BY <1>3, HeadIsLine DEF ReadOutOfBounds
  <2>2. UNCHANGED history \/ Answer(line, FAIL, TRUE)
    BY <1>3 DEF ReadOutOfBounds, log
  <2>3. Effects(line, FAIL)
    BY <1>0, <2>1, NothingElse
  <2> QED
    BY <1>0, <2>1, <2>2, <2>3 DEF Answer
<1>4. CASE ReadDone
  BY <1>4 DEF ReadDone, log
<1> QED
  BY <1>1, <1>2, <1>3, <1>4 DEF Loop

(* No other step answers or touches what a status tells but the start,     *)
(* before the first reply.                                                 *)
LEMMA OthersAnswerNothing ==
  ASSUME TypeOK, [Next]_vars, ~Loop
  PROVE  /\ history' = history
         /\ \/ UNCHANGED <<display.heading, display.style, display.time, display.sched>>
            \/ Construct
<1>1. CASE UNCHANGED vars
  BY <1>1 DEF vars, log
<1>2. CASE Construct
  BY <1>2 DEF Construct, log
<1>3. CASE Network
  BY <1>3 DEF Network, onConnection, Hangup, Send, log
<1>4. CASE \E c \in Conn : ReadyRead(c)
  BY <1>4 DEF ReadyRead, log
<1>5. CASE \E k \in Keys : KeyStart(k)
  BY <1>5 DEF KeyStart, StartBgProcess, log, TypeOK, Displays
<1>6. CASE ProcessComplete \/ KeyQuit \/ Leave
  BY <1>6 DEF ProcessComplete, KeyQuit, Leave, log
<1> QED
  BY <1>1, <1>2, <1>3, <1>4, <1>5, <1>6 DEF Next, Terminated

(* CmdXxx: a reply FAIL means that nothing was changed, whatever the line, *)
(* the styles and the scripts; RUNK alone shows that the start failed.     *)
THEOREM FailedCommandsDoNothing == Spec => FailChangesNothing
<1>1. TypeOK /\ [Next]_vars =>
        [Answered /\ Newest.reply = FAIL =>
           /\ script' = script
           /\ Newest.line.cmd # "RUNK" => display' = display]_vars
  <2> SUFFICES ASSUME TypeOK, [Next]_vars, Answered, Newest.reply = FAIL
               PROVE  /\ script' = script
                      /\ Newest.line.cmd # "RUNK" => display' = display
    OBVIOUS
  <2>1. Loop
    BY OthersAnswerNothing DEF Answered
  <2>2. PICK line \in Lines, reply \in Seq(Text), alive \in BOOLEAN :
          history' = Append(history, Record(line, reply, alive)) /\ Effects(line, reply)
    BY <2>1, LoopAnswersOnce DEF Answered
  <2>3. Newest = Record(line, reply, alive)
    <3>1. history \in Seq(Records) /\ Record(line, reply, alive) \in Records
      BY DEF TypeOK, Record, Records
    <3> QED
      BY <2>2, <3>1 DEF Newest
  <2> QED
    BY <2>2, <2>3 DEF Record, Effects
<1> QED
  BY <1>1, TypeCorrectness, PTL DEF Spec, FailChangesNothing

-----------------------------------------------------------------------------
(* The last successful command of a kind before the i-th reply.            *)
DoneBefore(h, i, cmds) ==
  {j \in 1 .. i - 1 : h[j].reply = OK /\ h[j].line.cmd \in cmds}
LastOf(done) == IF done = {} THEN 0 ELSE CHOOSE j \in done : \A k \in done : k <= j
LastAmong(h, i, cmds) == LastOf(DoneBefore(h, i, cmds))

Headings == {"HEAD", "TEXT", "REST"}
Times    == {"TIME", "REST"}

LEMMA SameSoFar ==
  ASSUME NEW h, NEW g, NEW i \in Nat, NEW cmds, \A j \in 1 .. i - 1 : g[j] = h[j]
  PROVE  LastAmong(g, i, cmds) = LastAmong(h, i, cmds)
<1>1. DoneBefore(g, i, cmds) = DoneBefore(h, i, cmds)
  BY DEF DoneBefore
<1> QED
  BY <1>1 DEF LastAmong

LEMMA NewLast ==
  ASSUME NEW g, NEW n \in Nat, NEW cmds, g[n + 1].reply = OK, g[n + 1].line.cmd \in cmds
  PROVE  LastAmong(g, n + 2, cmds) = n + 1
<1> DEFINE done == DoneBefore(g, n + 2, cmds)
<1>1. n + 1 \in done /\ done \subseteq 1 .. n + 1
  BY DEF DoneBefore
<1>2. LastAmong(g, n + 2, cmds) = CHOOSE j \in done : \A k \in done : k <= j
  BY <1>1 DEF LastAmong, LastOf
<1> HIDE DEF done
<1>3. \A j \in done : (\A k \in done : k <= j) <=> j = n + 1
  BY <1>1
<1> QED
  BY <1>1, <1>2, <1>3

LEMMA NotLast ==
  ASSUME NEW g, NEW n \in Nat, NEW cmds,
         ~(g[n + 1].reply = OK /\ g[n + 1].line.cmd \in cmds)
  PROVE  LastAmong(g, n + 2, cmds) = LastAmong(g, n + 1, cmds)
<1>1. DoneBefore(g, n + 2, cmds) = DoneBefore(g, n + 1, cmds)
  BY DEF DoneBefore
<1> QED
  BY <1>1 DEF LastAmong

(* What a status between the replies i - 1 and i of h has to tell.         *)
Told(h, i, heading, style, time, sched) ==
  /\ LET j == LastAmong(h, i, Headings) IN
     heading = IF j = 0 \/ h[j].line.cmd = "REST" THEN "TestDisplay" ELSE h[j].line.args[1]
  /\ LET j == LastAmong(h, i, {"STYL"}) IN
     style = Styles[IF j = 0 THEN 1 ELSE toInt(h[j].line.args[1]) + 1]
  /\ LET j == LastAmong(h, i, Times) IN
     j # 0 => time = IF h[j].line.cmd = "REST" THEN "1" ELSE Flag(h[j].line.args[1] = "1")
  /\ LET j == LastAmong(h, i, {"SCHED"}) IN j # 0 => sched = h[j].line.args[1]

(* There is a last one wherever there is one: by induction over the steps. *)
Ranged(h, i) == \A cmds \in {Headings, {"STYL"}, Times, {"SCHED"}} :
                  LastAmong(h, i, cmds) \in 0 .. i - 1

StatusInv ==
  /\ app = "constructing" => history = <<>>
  /\ \A i \in 1 .. Len(history) + 1 : Ranged(history, i)
  /\ Told(history, Len(history) + 1, display.heading, Styles[display.style + 1],
          Flag(display.time), Flag(display.sched))
  /\ \A i \in 1 .. Len(history) :
       LET r == history[i].reply IN
       r[1] = "STAT" => Told(history, i, r[2], r[4], r[5], r[6])

LEMMA ToldStays ==
  ASSUME NEW h, NEW g, NEW i \in Nat, Ranged(h, i), \A j \in 1 .. i - 1 : g[j] = h[j],
         NEW heading, NEW style, NEW time, NEW sched, Told(h, i, heading, style, time, sched)
  PROVE  Ranged(g, i) /\ Told(g, i, heading, style, time, sched)
<1>1. \A cmds \in {Headings, {"STYL"}, Times, {"SCHED"}} :
        /\ LastAmong(g, i, cmds) = LastAmong(h, i, cmds)
        /\ LastAmong(h, i, cmds) # 0 => g[LastAmong(h, i, cmds)] = h[LastAmong(h, i, cmds)]
  <2> SUFFICES ASSUME NEW cmds \in {Headings, {"STYL"}, Times, {"SCHED"}}
               PROVE  /\ LastAmong(g, i, cmds) = LastAmong(h, i, cmds)
                      /\ LastAmong(h, i, cmds) # 0 =>
                           g[LastAmong(h, i, cmds)] = h[LastAmong(h, i, cmds)]
    OBVIOUS
  <2>1. LastAmong(g, i, cmds) = LastAmong(h, i, cmds)
    BY SameSoFar
  <2>2. LastAmong(h, i, cmds) \in 0 .. i - 1
    BY DEF Ranged
  <2> QED
    BY <2>1, <2>2
<1> QED
  BY <1>1 DEF Ranged, Told

LEMMA RangedStays ==
  ASSUME NEW h, NEW g, NEW i \in Nat, Ranged(h, i), \A j \in 1 .. i - 1 : g[j] = h[j]
  PROVE  Ranged(g, i)
<1> SUFFICES ASSUME NEW cmds \in {Headings, {"STYL"}, Times, {"SCHED"}}
             PROVE  LastAmong(g, i, cmds) \in 0 .. i - 1
  BY DEF Ranged
<1>1. LastAmong(g, i, cmds) = LastAmong(h, i, cmds)
  BY SameSoFar
<1> QED
  BY <1>1 DEF Ranged

LEMMA RepliesKeepStatus ==
  ASSUME NoNameIsStat, TypeOK, StatusInv, app' # "constructing",
         NEW line \in Lines, NEW reply \in Seq(Text), NEW alive \in BOOLEAN,
         history' = Append(history, Record(line, reply, alive)), Effects(line, reply)
  PROVE  StatusInv'
<1> DEFINE g == history'
           kinds == {Headings, {"STYL"}, Times, {"SCHED"}}
<1>1. PICK n \in Nat : n = Len(history)
  BY DEF TypeOK
<1>2. /\ Len(g) = n + 1 /\ g[n + 1].line = line /\ g[n + 1].reply = reply
      /\ \A j \in 1 .. n : g[j] = history[j]
  <2>1. history \in Seq(Records) /\ Record(line, reply, alive) \in Records
    BY DEF TypeOK, Record, Records
  <2> QED
    BY <1>1, <2>1 DEF Record
<1>3. \A i \in 1 .. n + 1 : Ranged(history, i) /\ Ranged(g, i)
  <2> SUFFICES ASSUME NEW i \in 1 .. n + 1 PROVE Ranged(history, i) /\ Ranged(g, i)
    OBVIOUS
  <2>1. Ranged(history, i)
    BY <1>1 DEF StatusInv
  <2>2. i \in Nat /\ \A j \in 1 .. i - 1 : g[j] = history[j]
    BY <1>1, <1>2
  <2> QED
    BY <2>1, <2>2, RangedStays
<1>a. PICK m \in Nat : m = n + 1
  BY <1>1
<1>b. PICK k \in Nat : k = n + 2
  BY <1>1
<1>c. m - 1 = n /\ k - 1 = m /\ m \in 1 .. n + 1
  BY <1>1, <1>a, <1>b
<1>4. Told(g, n + 1, display.heading, Styles[display.style + 1],
           Flag(display.time), Flag(display.sched))
  <2>1. \A j \in 1 .. m - 1 : g[j] = history[j]
    BY <1>2, <1>c
  <2>2. Ranged(history, m)
        /\ Told(history, m, display.heading, Styles[display.style + 1],
                Flag(display.time), Flag(display.sched))
    BY <1>1, <1>3, <1>a, <1>c DEF StatusInv
  <2>3. Told(g, m, display.heading, Styles[display.style + 1],
             Flag(display.time), Flag(display.sched))
    BY <1>a, <2>1, <2>2, ToldStays
  <2> QED
    BY <1>a, <2>3
<1>5. \A cmds : LastAmong(g, n + 2, cmds) =
                  IF reply = OK /\ line.cmd \in cmds THEN n + 1 ELSE LastAmong(g, n + 1, cmds)
  <2> SUFFICES ASSUME NEW cmds
               PROVE  LastAmong(g, n + 2, cmds) =
                        IF reply = OK /\ line.cmd \in cmds THEN n + 1
                        ELSE LastAmong(g, n + 1, cmds)
    OBVIOUS
  <2>1. n \in Nat /\ g[n + 1].line = line /\ g[n + 1].reply = reply
    BY <1>1, <1>2
  <2> HIDE DEF g
  <2>2. CASE reply = OK /\ line.cmd \in cmds
    BY <2>1, <2>2, NewLast
  <2>3. CASE ~(reply = OK /\ line.cmd \in cmds)
    BY <2>1, <2>3, NotLast
  <2> QED
    BY <2>2, <2>3
<1>6. Ranged(g, n + 2)
  <2>1. ASSUME NEW cmds \in kinds PROVE LastAmong(g, k, cmds) \in 0 .. k - 1
    <3>1. Ranged(g, m)
      BY <1>3, <1>c
    <3>2. LastAmong(g, m, cmds) \in 0 .. m - 1
      BY <3>1 DEF Ranged
    <3>3. LastAmong(g, k, cmds) \in {m, LastAmong(g, m, cmds)}
      BY <1>5, <1>a, <1>b
    <3> QED
      BY <1>c, <3>2, <3>3
  <2>2. Ranged(g, k)
    BY <2>1 DEF Ranged
  <2> QED
    BY <1>b, <2>2
<1> HIDE DEF g
<1>7. Told(g, n + 2, display'.heading, Styles[display'.style + 1],
           Flag(display'.time), Flag(display'.sched))
  <2>1. LET j == LastAmong(g, n + 2, Headings) IN
        display'.heading = IF j = 0 \/ g[j].line.cmd = "REST" THEN "TestDisplay"
                           ELSE g[j].line.args[1]
    <3>1. CASE reply = OK /\ line.cmd \in Headings
      BY <1>2, <1>5, <3>1 DEF Effects, Headings
    <3>2. CASE ~(reply = OK /\ line.cmd \in Headings)
      BY <1>4, <1>5, <3>2 DEF Effects, Headings, Told
    <3> QED
      BY <3>1, <3>2
  <2>2. LET j == LastAmong(g, n + 2, {"STYL"}) IN
        Styles[display'.style + 1] = Styles[IF j = 0 THEN 1 ELSE toInt(g[j].line.args[1]) + 1]
    <3>1. CASE reply = OK /\ line.cmd \in {"STYL"}
      BY <1>2, <1>5, <3>1 DEF Effects
    <3>2. CASE ~(reply = OK /\ line.cmd \in {"STYL"})
      BY <1>4, <1>5, <3>2 DEF Effects, Told
    <3> QED
      BY <3>1, <3>2
  <2>3. LET j == LastAmong(g, n + 2, Times) IN
        j # 0 => Flag(display'.time) = IF g[j].line.cmd = "REST" THEN "1"
                                       ELSE Flag(g[j].line.args[1] = "1")
    <3>1. CASE reply = OK /\ line.cmd \in Times
      BY <1>2, <1>5, <3>1 DEF Effects, Times
    <3>2. CASE ~(reply = OK /\ line.cmd \in Times)
      BY <1>4, <1>5, <3>2 DEF Effects, Times, Told
    <3> QED
      BY <3>1, <3>2
  <2>4. LET j == LastAmong(g, n + 2, {"SCHED"}) IN
        j # 0 => Flag(display'.sched) = g[j].line.args[1]
    <3>1. CASE reply = OK /\ line.cmd \in {"SCHED"}
      BY <1>2, <1>5, <3>1 DEF Effects
    <3>2. CASE ~(reply = OK /\ line.cmd \in {"SCHED"})
      BY <1>4, <1>5, <3>2 DEF Effects, Told
    <3> QED
      BY <3>1, <3>2
  <2> QED
    BY <2>1, <2>2, <2>3, <2>4 DEF Told
<1>8. ASSUME NEW i \in 1 .. n + 1, g[i].reply[1] = "STAT"
      PROVE  Told(g, i, g[i].reply[2], g[i].reply[4], g[i].reply[5], g[i].reply[6])
  <2>1. CASE i = n + 1
    <3>1. g[i].reply = get_status_string
      BY <1>2, <1>8, <2>1 DEF Effects
    <3>2. /\ g[i].reply[2] = display.heading /\ g[i].reply[4] = Styles[display.style + 1]
          /\ g[i].reply[5] = Flag(display.time) /\ g[i].reply[6] = Flag(display.sched)
      BY <3>1 DEF get_status_string
    <3> QED
      BY <1>4, <2>1, <3>2
  <2>2. CASE i \in 1 .. n
    <3>1. g[i] = history[i] /\ i \in Nat /\ \A j \in 1 .. i - 1 : g[j] = history[j]
      BY <1>2, <2>2
    <3>2. Told(history, i, g[i].reply[2], g[i].reply[4], g[i].reply[5], g[i].reply[6])
      BY <1>1, <1>8, <2>2, <3>1 DEF StatusInv
    <3> QED
      BY <1>3, <3>1, <3>2, ToldStays
  <2> QED
    BY <2>1, <2>2
<1>9. \A i \in 1 .. n + 2 : Ranged(g, i)
  BY <1>3, <1>6
<1> QED
  BY <1>2, <1>7, <1>8, <1>9 DEF StatusInv, g

(* STAT: whoever sets heading, style, time or the switch of the scheduler, *)
(* and whatever the script does to the message, a status tells what the    *)
(* last successful command set, for any clients, lines, styles, scripts.   *)
THEOREM StatusIsUpToDate ==
  ASSUME NoNameIsStat
  PROVE  Spec => []StatusShowsLastWrites
<1>0. ASSUME NEW h, NEW cmds PROVE LastAmong(h, 1, cmds) = 0
  BY DEF LastAmong, LastOf, DoneBefore
<1>1. Init => StatusInv
  <2> SUFFICES ASSUME Init PROVE StatusInv
    OBVIOUS
  <2>1. history = <<>> /\ display.heading = "TestDisplay" /\ display.style = 0
    BY DEF Init, DefaultDisplay
  <2> QED
    BY <1>0, <2>1 DEF StatusInv, Ranged, Told
<1>2. TypeOK /\ StatusInv /\ [Next]_vars => StatusInv'
  <2> SUFFICES ASSUME TypeOK, StatusInv, [Next]_vars PROVE StatusInv'
    OBVIOUS
  <2>1. CASE Loop
    <3>1. app' # "constructing"
      BY <2>1 DEF Loop, ParseText, Quit, Kill, Close, ReadOutOfBounds, ReadDone, HasLine
    <3>2. CASE UNCHANGED <<display, script, history>>
      BY <3>1, <3>2 DEF StatusInv
    <3> QED
      BY <2>1, <3>1, <3>2, LoopAnswersOnce, RepliesKeepStatus
  <2>2. CASE Construct
    <3>1. history = <<>> /\ history' = <<>> /\ app' # "constructing"
      BY <2>2 DEF Construct, StatusInv, log
    <3>2. CASE UNCHANGED display
      BY <3>1, <3>2 DEF StatusInv
    <3>3. CASE display' = DefaultDisplay(saved)
      <4>1. display'.heading = "TestDisplay" /\ display'.style = 0
        BY <3>3 DEF DefaultDisplay
      <4> QED
        BY <1>0, <3>1, <4>1 DEF StatusInv, Ranged, Told
    <3> QED
      BY <2>2, <3>2, <3>3 DEF Construct
  <2>3. CASE ~Loop /\ ~Construct
    <3>1. history' = history
          /\ UNCHANGED <<display.heading, display.style, display.time, display.sched>>
      BY <2>3, OthersAnswerNothing
    <3>2. app' = "constructing" => app = "constructing"
      BY <2>3 DEF Next, vars, Network, onConnection, Hangup, Send, ReadyRead, KeyStart,
                  ProcessComplete, KeyQuit, Close, Leave, Terminated
    <3> QED
      BY <3>1, <3>2 DEF StatusInv
  <2> QED
    BY <2>1, <2>2, <2>3
<1>3. TypeOK /\ StatusInv => StatusShowsLastWrites
  <2> SUFFICES ASSUME TypeOK, StatusInv PROVE StatusShowsLastWrites
    OBVIOUS
  <2>1. \A i, cmds : LastOk(i, cmds) = LastAmong(history, i, cmds)
    BY DEF LastOk, LastAmong, LastOf, DoneBefore
  <2>2. DOMAIN history = 1 .. Len(history)
    BY DEF TypeOK
  <2> QED
    BY <2>1, <2>2 DEF StatusInv, Told, StatusShowsLastWrites, Headings, Times
<1> QED
  BY <1>1, <1>2, <1>3, TypeCorrectness, PTL DEF Spec
=============================================================================
