--------------------------- MODULE SchedulerProofs ---------------------------
(***************************************************************************)
(* The schedule never holds two events for one moment, whatever the files  *)
(* say, one timeout never starts two commands, what is due is run, the     *)
(* table of the web page shows what will be run, and the events in force   *)
(* are those of one file.                                                  *)
(***************************************************************************)
EXTENDS Scheduler, WellFoundedInduction, TLAPS

LEMMA ParsedIsEvent ==
  ASSUME NEW x \in Element
  PROVE  parseDateTime(x) \in Event
BY DEF Element, Event, parseDateTime

LEMMA ScheduledIsTyped ==
  ASSUME NEW evs \in Seq(Event), NEW e \in Event
  PROVE  scheduleEvent(evs, e) \in Seq(Event)
BY DEF scheduleEvent

(* Every variable keeps its type.                                          *)
THEOREM TypeCorrectness == Spec => []TypeOK
<1> USE ConstantsAssumption
<1>1. Init => TypeOK
  <2> SUFFICES ASSUME Init PROVE TypeOK
    OBVIOUS
  <2>1. rest \in Seq(Element)
    BY DEF Init
  <2>2. pc \in {"loop", "loading", "held"} /\ watched \in BOOLEAN
    BY DEF Init
  <2>3. events \in Seq(Event) /\ fired \subseteq
          [at : Nat, tick : Nat, slot : Nat, command : Commands]
    BY DEF Init
  <2>4. now \in Nat /\ ticks \in 0 .. TicksPerSecond
    BY DEF Init, TicksPerSecond
  <2>5. file \in Documents \cup {Missing, Broken} /\ notice = "none"
        /\ saved \in BOOLEAN /\ bSchedulerEnabled \in BOOLEAN
        /\ steady \in BOOLEAN /\ edits \in Nat /\ upsets \in Nat
    BY DEF Init
  <2> QED
    BY <2>1, <2>2, <2>3, <2>4, <2>5 DEF TypeOK
<1>2. TypeOK /\ [Next]_vars => TypeOK'
  <2> SUFFICES ASSUME TypeOK, [Next]_vars PROVE TypeOK'
    OBVIOUS
  <2> USE DEF TypeOK
  <2>1. CASE UNCHANGED vars
    BY <2>1 DEF vars, TicksPerSecond
  <2>2. CASE Second
    BY <2>2 DEF Second, TicksPerSecond, AtLoop
  <2>3. CASE Timeout
    <3>1. fired' \subseteq [at : Nat, tick : Nat, slot : Nat, command : Commands]
      <4>0. now \in Nat /\ ticks \in Nat
        BY DEF TicksPerSecond
      <4>1. ASSUME NEW i \in DOMAIN events
            PROVE  i \in Nat /\ events[i].command \in Commands
        <5>1. i \in Nat /\ events[i] \in Event
          OBVIOUS
        <5> QED
          BY <5>1 DEF Event
      <4> QED
        BY <2>3, <4>0, <4>1 DEF Timeout
    <3>2. ticks' \in 0 .. TicksPerSecond
      BY <2>3 DEF Timeout, TicksPerSecond
    <3> QED
      BY <2>3, <3>1, <3>2 DEF Timeout, TicksPerSecond
  <2>4. CASE HoldUp \/ Resume
    <3>1. CASE HoldUp
      <4>1. upsets' \in Nat /\ pc' = "held" /\ steady' = FALSE
        BY <3>1 DEF HoldUp
      <4>2. UNCHANGED <<now, ticks, file, watched, notice, rest, events,
                        bSchedulerEnabled, saved, fired, edits>>
        BY <3>1 DEF HoldUp
      <4> QED
        BY <4>1, <4>2 DEF TicksPerSecond
    <3>2. CASE Resume
      BY <3>2 DEF Resume, TicksPerSecond
    <3> QED
      BY <2>4, <3>1, <3>2
  <2>5. CASE LoadEvent
    <3>1. CASE rest = <<>>
      BY <2>5, <3>1 DEF LoadEvent, TicksPerSecond
    <3>2. CASE rest # <<>>
      <4>1. Head(rest) \in Element /\ Tail(rest) \in Seq(Element)
        BY <3>2
      <4>2. events' \in Seq(Event)
        BY <2>5, <3>2, <4>1, ParsedIsEvent, ScheduledIsTyped DEF LoadEvent
      <4> QED
        BY <2>5, <3>2, <4>1, <4>2 DEF LoadEvent, TicksPerSecond
    <3> QED
      BY <3>1, <3>2
  <2>6. CASE FileChanged
    <3>1. pc' \in {"loop", "loading", "held"} /\ rest' \in Seq(Element)
            /\ events' \in Seq(Event)
      <4>1. CASE file \in {Missing, Broken}
        BY <2>6, <4>1 DEF FileChanged, Open
      <4>2. CASE file \notin {Missing, Broken}
        BY <2>6, <4>2 DEF FileChanged, Open
      <4> QED
        BY <4>1, <4>2
    <3> QED
      BY <2>6, <3>1 DEF FileChanged, TicksPerSecond
  <2>7. CASE User
    BY <2>7 DEF User, WriteInPlace, Replace, Edited, TicksPerSecond
  <2>8. ASSUME NEW b \in BOOLEAN, CmdSched(b) PROVE TypeOK'
    BY <2>8 DEF CmdSched, TicksPerSecond
  <2>9. ASSUME NEW b \in BOOLEAN, Restart(b) PROVE TypeOK'
    <3>1. pc' \in {"loop", "loading", "held"} /\ rest' \in Seq(Element)
      BY <2>9 DEF Restart
    <3>2. saved' \in BOOLEAN /\ watched' \in BOOLEAN
      BY <2>9 DEF Restart
    <3>3. ticks' \in 0 .. TicksPerSecond
      BY <2>9 DEF Restart, TicksPerSecond
    <3>4. events' \in Seq(Event)
      BY <2>9 DEF Restart
    <3>5. bSchedulerEnabled' \in BOOLEAN /\ upsets' \in Nat /\ notice' = "none"
      BY <2>9, <3>2 DEF Restart
    <3> QED
      BY <2>9, <3>1, <3>2, <3>3, <3>4, <3>5 DEF Restart, TicksPerSecond
  <2> QED
    BY <2>1, <2>2, <2>3, <2>4, <2>5, <2>6, <2>7, <2>8, <2>9 DEF Next
<1> QED
  BY <1>1, <1>2, PTL DEF Spec

-----------------------------------------------------------------------------
(* scheduleEvent keeps conflicting events out.                             *)
LEMMA ScheduleKeepsPeace ==
  ASSUME NEW evs \in Seq(Event), NEW e \in Event,
         \A i, j \in DOMAIN evs : i # j => ~doEventsConflict(evs[i], evs[j]),
         NEW i \in DOMAIN scheduleEvent(evs, e),
         NEW j \in DOMAIN scheduleEvent(evs, e), i # j
  PROVE  ~doEventsConflict(scheduleEvent(evs, e)[i], scheduleEvent(evs, e)[j])
<1>1. CASE \E k \in DOMAIN evs : doEventsConflict(evs[k], e)
  BY <1>1 DEF scheduleEvent
<1>2. CASE \A k \in DOMAIN evs : ~doEventsConflict(evs[k], e)
  <2> DEFINE new == Append(evs, e)
  <2>1. scheduleEvent(evs, e) = new
    BY <1>2 DEF scheduleEvent
  <2>2. DOMAIN new = 1 .. Len(evs) + 1 /\ DOMAIN evs = 1 .. Len(evs)
        /\ new[Len(evs) + 1] = e /\ \A k \in DOMAIN evs : new[k] = evs[k]
    OBVIOUS
  <2>3. \A k \in DOMAIN evs : ~doEventsConflict(e, evs[k])
    BY <1>2 DEF doEventsConflict
  <2> HIDE DEF new
  <2> QED
    BY <1>2, <2>1, <2>2, <2>3
<1> QED
  BY <1>1, <1>2

(* No two events of the schedule are for one moment, whatever the files    *)
(* that were loaded say.                                                   *)
THEOREM ScheduleHasNoConflicts == Spec => []NoConflicts
<1>1. Init => NoConflicts
  BY DEF Init, NoConflicts
<1>2. TypeOK /\ NoConflicts /\ [Next]_vars => NoConflicts'
  <2> SUFFICES ASSUME TypeOK, NoConflicts, [Next]_vars PROVE NoConflicts'
    OBVIOUS
  <2>1. CASE events' = events
    BY <2>1 DEF NoConflicts
  <2>2. CASE events' = <<>>
    BY <2>2 DEF NoConflicts
  <2>3. CASE LoadEvent /\ rest # <<>>
    <3>1. Head(rest) \in Element /\ events \in Seq(Event)
      BY <2>3 DEF TypeOK
    <3>2. parseDateTime(Head(rest)) \in Event
      BY <3>1, ParsedIsEvent
    <3>3. events' = scheduleEvent(events, parseDateTime(Head(rest)))
      BY <2>3 DEF LoadEvent
    <3> QED
      BY <3>1, <3>2, <3>3, ScheduleKeepsPeace DEF NoConflicts
  <2> QED
    BY <2>1, <2>2, <2>3 DEF Next, vars, Second, Timeout, HoldUp, Resume,
       LoadEvent, FileChanged, Open, User, WriteInPlace, Replace, Edited,
       CmdSched, Restart
<1> QED
  BY <1>1, <1>2, TypeCorrectness, PTL DEF Spec

(* One timeout never starts two commands, through any number of edits,     *)
(* delays, switches and restarts.                                          *)
THEOREM OneCommandPerTimeout == Spec => []NeverTwice
<1> DEFINE Inv == FiredInv /\ NeverTwice
<1>1. Init => Inv
  BY DEF Init, FiredInv, NeverTwice
<1>2. TypeOK /\ NoConflicts /\ Inv /\ [Next]_vars => Inv'
  <2> SUFFICES ASSUME TypeOK, NoConflicts, Inv, [Next]_vars PROVE Inv'
    OBVIOUS
  <2>1. /\ now \in Nat /\ ticks \in 0 .. 2
        /\ \A f \in fired : f.at \in Nat /\ f.tick \in Nat
    BY DEF TypeOK, TicksPerSecond
  <2>2. CASE fired' = fired /\ now' = now /\ ticks' = ticks
    BY <2>2 DEF FiredInv, NeverTwice
  <2>3. CASE Second
    BY <2>1, <2>3 DEF Second, FiredInv, NeverTwice
  <2>4. CASE \E b \in BOOLEAN : Restart(b)
    BY <2>1, <2>4 DEF Restart, FiredInv, NeverTwice, TicksPerSecond
  <2>5. CASE Timeout
    <3>1. ticks' = ticks + 1 /\ now' = now
      BY <2>5 DEF Timeout
    <3>2. \A f \in fired : f.at = now => f.tick # ticks
      BY <2>1 DEF FiredInv
    <3> DEFINE due == {j \in DOMAIN events : isEventTime(events[j], now)}
    <3>3. \A i, j \in due : i = j
      <4> SUFFICES ASSUME NEW i \in due, NEW j \in due, i # j PROVE FALSE
        OBVIOUS
      <4>1. doEventsConflict(events[i], events[j])
        BY DEF isEventTime, doEventsConflict, Listed
      <4> QED
        BY <4>1 DEF NoConflicts
    <3> DEFINE Fire(i) == [at |-> now, tick |-> ticks, slot |-> i,
                           command |-> events[i].command]
    <3>4. \A f \in fired' : f \in fired \/ \E i \in due : f = Fire(i)
      BY <2>5 DEF Timeout
    <3> HIDE DEF due
    <3>5. \A i \in due : Fire(i).at = now /\ Fire(i).tick = ticks
      OBVIOUS
    <3>6. NeverTwice'
      BY <3>2, <3>3, <3>4, <3>5 DEF NeverTwice
    <3>7. FiredInv'
      BY <2>1, <3>1, <3>4, <3>5 DEF FiredInv
    <3> QED
      BY <3>6, <3>7
  <2> QED
    BY <2>2, <2>3, <2>4, <2>5 DEF Next, vars, HoldUp, Resume, LoadEvent,
       FileChanged, User, WriteInPlace, Replace, Edited, CmdSched
<1>3. Spec => []Inv
  BY <1>1, <1>2, TypeCorrectness, ScheduleHasNoConflicts, PTL DEF Spec
<1> QED
  BY <1>3, PTL

-----------------------------------------------------------------------------
(* The days.  Scheduler::html counts them from Sunday, 0, as the bits of   *)
(* dow do; isEventTime maps Qt's 7 to 0.                                   *)
LEMMA SameDay ==
  ASSUME NEW t \in Nat, NEW e, Sec(t) = 0
  PROVE  isEventTime(e, t) <=> DayOf(t) \in e.dow /\ Listed(e, MinuteOf(t))
<1>1. DayOf(t) \in 0 .. 6
  <2> DEFINE days == t \div (SecPerMin * MinPerDay)
  <2>1. SecPerMin * MinPerDay \in Nat \ {0}
    BY ConstantsAssumption
  <2>2. days \in Nat /\ StartDay \in Nat
    BY <2>1, ConstantsAssumption DEF Day
  <2> HIDE DEF days
  <2> QED
    BY <2>2 DEF DayOf, days
<1>2. (IF dayOfWeek(t) = 7 THEN 0 ELSE dayOfWeek(t)) = DayOf(t)
  BY <1>1 DEF dayOfWeek
<1> QED
  BY <1>2 DEF isEventTime

(* The table of the web page shows what timeout runs, for every length of  *)
(* the minute and of the day, every first day and every schedule.          *)
THEOREM TableShowsWhatRuns == Spec => []PageShowsWhatRuns
<1>1. Horizon \in Nat
  BY ConstantsAssumption
<1>2. PageShowsWhatRuns
  BY <1>1, SameDay DEF PageShowsWhatRuns, Cell
<1> QED
  BY <1>2, PTL

-----------------------------------------------------------------------------
(* A second in which nothing was touched is spent in the event loop, and   *)
(* after its first timeout the commands due in it have been run.           *)
SteadyIsAtLoop == steady => AtLoop

DueHaveRun ==
  steady /\ ticks > 0 /\ bSchedulerEnabled =>
    \A i \in DOMAIN events :
      isEventTime(events[i], now) =>
        \E f \in fired : f.at = now /\ f.command = events[i].command

LEMMA DueCommandsHaveRun == Spec => [](SteadyIsAtLoop /\ DueHaveRun)
<1> DEFINE Inv == SteadyIsAtLoop /\ DueHaveRun
<1>1. Init => Inv
  BY DEF Init, SteadyIsAtLoop, DueHaveRun
<1>2. TypeOK /\ Inv /\ [Next]_vars => Inv'
  <2> SUFFICES ASSUME TypeOK, Inv, [Next]_vars PROVE Inv'
    OBVIOUS
  <2>1. CASE Second
    <3>1. SteadyIsAtLoop'
      BY <2>1, Zenon DEF Second, SteadyIsAtLoop, AtLoop
    <3>2. ticks' = 0
      BY <2>1 DEF Second
    <3> QED
      BY <3>1, <3>2 DEF DueHaveRun
  <2>2. CASE Timeout
    <3>1. UNCHANGED <<now, pc, events, bSchedulerEnabled, steady>>
      BY <2>2 DEF Timeout
    <3>2. SteadyIsAtLoop'
      BY <3>1 DEF SteadyIsAtLoop, AtLoop
    <3>3. ASSUME bSchedulerEnabled, NEW i \in DOMAIN events, isEventTime(events[i], now)
          PROVE  \E f \in fired' : f.at = now /\ f.command = events[i].command
      <4> DEFINE f == [at |-> now, tick |-> ticks, slot |-> i, command |-> events[i].command]
      <4>1. f \in fired'
        BY <2>2, <3>3 DEF Timeout
      <4>2. f.at = now /\ f.command = events[i].command
        OBVIOUS
      <4> QED
        BY <4>1, <4>2
    <3> QED
      BY <3>1, <3>2, <3>3 DEF DueHaveRun
  <2>3. CASE ~steady'
    BY <2>3 DEF SteadyIsAtLoop, DueHaveRun
  <2>4. CASE LoadEvent
    <3>1. ~steady /\ steady' = steady
      BY <2>4 DEF LoadEvent, SteadyIsAtLoop, AtLoop
    <3> QED
      BY <2>3, <3>1
  <2>5. CASE Resume
    <3>1. ~steady /\ steady' = steady
      BY <2>5 DEF Resume, SteadyIsAtLoop, AtLoop
    <3> QED
      BY <2>3, <3>1
  <2>6. ASSUME NEW b \in BOOLEAN, CmdSched(b) PROVE Inv'
    <3>1. /\ UNCHANGED <<now, ticks, pc, events, fired>>
          /\ steady' => steady /\ bSchedulerEnabled' = bSchedulerEnabled
      BY <2>6 DEF CmdSched
    <3> QED
      BY <3>1 DEF SteadyIsAtLoop, DueHaveRun, AtLoop
  <2>7. CASE UNCHANGED <<now, ticks, pc, events, bSchedulerEnabled, fired, steady>>
    BY <2>7 DEF SteadyIsAtLoop, DueHaveRun, AtLoop
  <2>8. CASE User
    BY <2>7, <2>8 DEF User, WriteInPlace, Replace, Edited
  <2>9. CASE HoldUp \/ FileChanged \/ \E b \in BOOLEAN : Restart(b)
    BY <2>3, <2>9 DEF HoldUp, FileChanged, Restart
  <2> QED
    BY <2>1, <2>2, <2>4, <2>5, <2>6, <2>7, <2>8, <2>9 DEF Next, vars
<1> QED
  BY <1>1, <1>2, TypeCorrectness, PTL DEF Spec

(* Whatever the files, the clock and the upsets of other seconds, a        *)
(* command that is due in a second of which nothing disturbed the main     *)
(* thread or the schedule is run before the second ends.                   *)
THEOREM DueCommandsRun == Spec => EveryDueCommandRuns
<1>1. TypeOK /\ SteadyIsAtLoop /\ DueHaveRun /\ [Next]_vars =>
        [now' # now /\ steady /\ bSchedulerEnabled =>
           \A i \in DOMAIN events :
             Sec(now) = 0 /\ i \in Cell(DayOf(now), MinuteOf(now)) =>
               \E f \in fired : f.at = now /\ f.command = events[i].command]_vars
  <2> SUFFICES ASSUME TypeOK, SteadyIsAtLoop, DueHaveRun, [Next]_vars,
                      now' # now, steady, bSchedulerEnabled,
                      NEW i \in DOMAIN events, Sec(now) = 0,
                      i \in Cell(DayOf(now), MinuteOf(now))
               PROVE  \E f \in fired : f.at = now /\ f.command = events[i].command
    OBVIOUS
  <2>1. Second
    BY DEF Next, vars, Timeout, HoldUp, Resume, LoadEvent, FileChanged, User,
           WriteInPlace, Replace, Edited, CmdSched, Restart
  <2>2. ticks > 0
    BY <2>1 DEF Second, SteadyIsAtLoop
  <2>3. isEventTime(events[i], now)
    BY SameDay DEF Cell, TypeOK
  <2> QED
    BY <2>2, <2>3 DEF DueHaveRun
<1> QED
  BY <1>1, TypeCorrectness, DueCommandsHaveRun, PTL DEF Spec, EveryDueCommandRuns
-----------------------------------------------------------------------------
(* Induction over the numbers, for a property given as a set.              *)
LEMMA Induction ==
  ASSUME NEW S \in SUBSET Nat, 0 \in S, \A k \in S : k + 1 \in S
  PROVE  S = Nat
<1> SUFFICES ASSUME Nat \ S # {} PROVE FALSE
  OBVIOUS
<1>1. PICK n \in Nat \ S : \A m \in Nat \ S : ~(<<m, n>> \in OpToRel(<, Nat))
  BY NatLessThanWellFounded, WFMin
<1>2. PICK m \in Nat : n = m + 1
  <2>1. n \in Nat /\ n # 0
    BY <1>1
  <2> QED
    BY <2>1
<1>3. <<m, n>> \in OpToRel(<, Nat)
  BY <1>1, <1>2 DEF OpToRel
<1> QED
  BY <1>1, <1>2, <1>3

(* The events a prefix of a file leaves: what Accepted computes.           *)
Step(doc, acc, n) ==
  IF n = 0 THEN <<>>
  ELSE LET e == parseDateTime(doc[n]) IN
       IF \A i \in DOMAIN acc[n - 1] :
            \A d \in acc[n - 1][i].dow \cap e.dow :
              \A m \in Minute \cup {NoTime} :
                ~(Listed(acc[n - 1][i], m) /\ Listed(e, m))
       THEN acc[n - 1] \o <<e>> ELSE acc[n - 1]

Reading(doc, acc) == acc = [n \in 0 .. Len(doc) |-> Step(doc, acc, n)]

LEMMA AcceptedReads ==
  ASSUME NEW doc
  PROVE  Accepted(doc) = (CHOOSE acc : Reading(doc, acc))[Len(doc)]
BY DEF Accepted, Reading, Step

LEMMA ReadingExists ==
  ASSUME NEW doc \in Seq(Element)
  PROVE  \E acc : Reading(doc, acc)
<1> DEFINE Partial(n) == {f \in [0 .. n -> Seq(Event)] :
                           \A k \in 0 .. n : f[k] = Step(doc, f, k)}
           Good == {n \in Nat : n <= Len(doc) => Partial(n) # {}}
<1>1. 0 \in Good
  <2>1. [k \in 0 .. 0 |-> <<>>] \in Partial(0)
    BY DEF Step
  <2> QED
    BY <2>1
<1>2. ASSUME NEW n \in Good PROVE n + 1 \in Good
  <2>1. PICK m \in Nat : m = n + 1 /\ n \in Nat /\ (n <= Len(doc) => Partial(n) # {})
    BY <1>2
  <2>2. SUFFICES ASSUME m <= Len(doc) PROVE Partial(m) # {}
    BY <2>1
  <2>3. PICK f \in [0 .. n -> Seq(Event)] : \A k \in 0 .. n : f[k] = Step(doc, f, k)
    <3>1. n <= Len(doc)
      BY <2>1, <2>2
    <3>2. PICK f : f \in Partial(n)
      BY <2>1, <3>1
    <3> QED
      BY <3>2
  <2>4. doc[m] \in Element /\ parseDateTime(doc[m]) \in Event
    BY <2>1, <2>2, ParsedIsEvent
  <2>5. Step(doc, f, m) \in Seq(Event)
    <3>1. f[n] \in Seq(Event) /\ m # 0 /\ m - 1 = n
      BY <2>1, <2>3
    <3>2. f[n] \o <<parseDateTime(doc[m])>> \in Seq(Event)
      BY <2>4, <3>1
    <3> QED
      BY <3>1, <3>2 DEF Step
  <2> DEFINE last == Step(doc, f, m)
             g == [k \in 0 .. m |-> IF k <= n THEN f[k] ELSE last]
  <2>6. /\ g \in [0 .. m -> Seq(Event)] /\ g[m] = Step(doc, f, m)
        /\ \A k \in 0 .. n : g[k] = f[k]
    <3> HIDE DEF last
    <3>1. last \in Seq(Event)
      BY <2>5 DEF last
    <3>2. g[m] = last
      BY <2>1
    <3> QED
      BY <2>1, <2>3, <3>1, <3>2 DEF last
  <2> HIDE DEF last, g
  <2>7. ASSUME NEW k \in 0 .. m PROVE g[k] = Step(doc, g, k)
    <3>1. k = m \/ k \in 0 .. n
      BY <2>1
    <3>2. g[k] = Step(doc, f, k)
      BY <2>3, <2>6, <3>1
    <3>3. CASE k = 0
      BY <3>2, <3>3 DEF Step
    <3>4. CASE k # 0
      <4>1. k - 1 \in 0 .. n
        BY <2>1, <3>4
      <4>2. g[k - 1] = f[k - 1]
        BY <2>6, <4>1
      <4> QED
        BY <3>2, <3>4, <4>2 DEF Step
    <3> QED
      BY <3>3, <3>4
  <2> QED
    BY <2>6, <2>7
<1>3. Good = Nat
  <2> HIDE DEF Good
  <2>1. Good \in SUBSET Nat
    BY DEF Good
  <2> QED
    BY <1>1, <1>2, <2>1, Induction
<1>4. Len(doc) \in Nat
  OBVIOUS
<1>5. Partial(Len(doc)) # {}
  <2>1. Len(doc) \in Good
    BY <1>3, <1>4
  <2> QED
    BY <1>4, <2>1
<1>6. PICK f \in [0 .. Len(doc) -> Seq(Event)] :
        \A k \in 0 .. Len(doc) : f[k] = Step(doc, f, k)
  BY <1>5
<1>7. f = [k \in 0 .. Len(doc) |-> Step(doc, f, k)]
  BY <1>6
<1> QED
  BY <1>7 DEF Reading

(* Every prefix is read by one more scheduleEvent.                         *)
LEMMA AcceptedSteps ==
  ASSUME NEW doc \in Documents
  PROVE  \E acc : /\ acc[0] = <<>>
                  /\ \A n \in 1 .. Len(doc) :
                       acc[n - 1] \in Seq(Event) =>
                         acc[n] = scheduleEvent(acc[n - 1], parseDateTime(doc[n]))
                  /\ Accepted(doc) = acc[Len(doc)]
<1>1. doc \in Seq(Element)
  BY ConstantsAssumption
<1> DEFINE acc == CHOOSE f : Reading(doc, f)
<1>2. Reading(doc, acc)
  BY <1>1, ReadingExists
<1> HIDE DEF acc
<1>3. \A n \in 0 .. Len(doc) : acc[n] = Step(doc, acc, n)
  BY <1>2, Zenon DEF Reading
<1>4. acc[0] = <<>>
  <2>1. 0 \in 0 .. Len(doc)
    BY <1>1
  <2> QED
    BY <1>3, <2>1, Zenon DEF Step
<1>5. ASSUME NEW n \in 1 .. Len(doc), acc[n - 1] \in Seq(Event)
      PROVE  acc[n] = scheduleEvent(acc[n - 1], parseDateTime(doc[n]))
  <2> DEFINE e == parseDateTime(doc[n])
             old == acc[n - 1]
  <2>1. e \in Event
    BY <1>1, ParsedIsEvent
  <2>0. n # 0 /\ n \in 0 .. Len(doc)
    BY <1>1
  <2>2. acc[n] = IF \A i \in DOMAIN old :
                      \A d \in old[i].dow \cap e.dow :
                        \A m \in Minute \cup {NoTime} : ~(Listed(old[i], m) /\ Listed(e, m))
                 THEN old \o <<e>> ELSE old
    BY <2>0, <1>3, Zenon DEF Step
  <2>3. old \in Seq(Event)
    BY <1>5
  <2> HIDE DEF e, old
  <2>4. ASSUME NEW i \in DOMAIN old
        PROVE  doEventsConflict(old[i], e) <=>
                 ~ \A d \in old[i].dow \cap e.dow :
                     \A m \in Minute \cup {NoTime} : ~(Listed(old[i], m) /\ Listed(e, m))
    <3>1. old[i] \in Event
      BY <2>3
    <3>2. /\ \A k \in DOMAIN old[i].times : old[i].times[k] \in Minute \cup {NoTime}
          /\ \A k \in DOMAIN e.times : e.times[k] \in Minute \cup {NoTime}
      BY <2>1, <3>1 DEF Event
    <3> QED
      BY <3>2 DEF doEventsConflict, Listed
  <2>5. old \o <<e>> = Append(old, e)
    BY <2>1, <2>3
  <2>6. acc[n] = scheduleEvent(old, e)
    BY <2>2, <2>4, <2>5 DEF scheduleEvent
  <2> QED
    BY <2>6 DEF e, old
<1> QED
  BY <1>4, <1>5, AcceptedReads DEF acc

(* While a file is read, the events are those of the part read.            *)
IsPrefixOf(evs, left) ==
  \E doc \in Documents : \E acc :
    /\ Accepted(doc) = acc[Len(doc)]
    /\ \A n \in 1 .. Len(doc) :
         acc[n - 1] \in Seq(Event) =>
           acc[n] = scheduleEvent(acc[n - 1], parseDateTime(doc[n]))
    /\ \E n \in 0 .. Len(doc) :
         /\ evs = acc[n] /\ Len(left) = Len(doc) - n
         /\ \A k \in 1 .. Len(left) : left[k] = doc[n + k]

LoadedInv == IF pc = "loading" THEN IsPrefixOf(events, rest)
             ELSE events = <<>> \/ \E doc \in Documents : events = Accepted(doc)

LEMMA LoadingStarts ==
  ASSUME NEW doc \in Documents
  PROVE  IsPrefixOf(<<>>, doc)
<1>1. PICK acc : /\ acc[0] = <<>>
                 /\ \A n \in 1 .. Len(doc) :
                      acc[n - 1] \in Seq(Event) =>
                        acc[n] = scheduleEvent(acc[n - 1], parseDateTime(doc[n]))
                 /\ Accepted(doc) = acc[Len(doc)]
  BY AcceptedSteps
<1>2. Len(doc) \in Nat
  BY ConstantsAssumption
<1>3. 0 \in 0 .. Len(doc) /\ Len(doc) = Len(doc) - 0
      /\ \A k \in 1 .. Len(doc) : doc[k] = doc[0 + k]
  BY <1>2
<1> QED
  BY <1>1, <1>3 DEF IsPrefixOf

LEMMA LoadingGoesOn ==
  ASSUME NEW evs \in Seq(Event), NEW left \in Seq(Element), left # <<>>,
         IsPrefixOf(evs, left)
  PROVE  IsPrefixOf(scheduleEvent(evs, parseDateTime(Head(left))), Tail(left))
<1>0. PICK doc \in Documents :
        \E acc :
          /\ Accepted(doc) = acc[Len(doc)]
          /\ \A n \in 1 .. Len(doc) :
               acc[n - 1] \in Seq(Event) =>
                 acc[n] = scheduleEvent(acc[n - 1], parseDateTime(doc[n]))
          /\ \E n \in 0 .. Len(doc) :
               /\ evs = acc[n] /\ Len(left) = Len(doc) - n
               /\ \A k \in 1 .. Len(left) : left[k] = doc[n + k]
  BY DEF IsPrefixOf
<1>1. PICK acc :
        /\ Accepted(doc) = acc[Len(doc)]
        /\ \A n \in 1 .. Len(doc) :
             acc[n - 1] \in Seq(Event) =>
               acc[n] = scheduleEvent(acc[n - 1], parseDateTime(doc[n]))
        /\ \E n \in 0 .. Len(doc) :
             /\ evs = acc[n] /\ Len(left) = Len(doc) - n
             /\ \A k \in 1 .. Len(left) : left[k] = doc[n + k]
  BY <1>0
<1>2. PICK n \in 0 .. Len(doc) :
        /\ evs = acc[n] /\ Len(left) = Len(doc) - n
        /\ \A k \in 1 .. Len(left) : left[k] = doc[n + k]
  BY <1>1
<1>3. /\ Len(doc) \in Nat /\ Len(left) \in Nat \ {0} /\ n \in Nat
  BY ConstantsAssumption, <1>2
<1>4. PICK m \in 1 .. Len(doc) : m = n + 1
  BY <1>2, <1>3
<1>5. acc[m] = scheduleEvent(evs, parseDateTime(Head(left)))
  <2>1. Head(left) = doc[m]
    BY <1>2, <1>3, <1>4
  <2>2. acc[m - 1] = evs
    BY <1>2, <1>3, <1>4
  <2> QED
    BY <1>1, <1>4, <2>1, <2>2
<1>6. /\ Len(Tail(left)) = Len(doc) - m
      /\ \A k \in 1 .. Len(Tail(left)) : Tail(left)[k] = doc[m + k]
  <2>1. Len(Tail(left)) = Len(left) - 1
    BY <1>3
  <2>2. ASSUME NEW k \in 1 .. Len(Tail(left)) PROVE Tail(left)[k] = doc[m + k]
    <3>1. Tail(left)[k] = left[k + 1] /\ k + 1 \in 1 .. Len(left)
      BY <2>1, <1>3
    <3> QED
      BY <1>2, <1>3, <1>4, <3>1
  <2> QED
    BY <1>2, <1>3, <1>4, <2>1, <2>2
<1>7. m \in 0 .. Len(doc)
  BY <1>4
<1> QED
  BY <1>1, <1>5, <1>6, <1>7 DEF IsPrefixOf

(* The events in force are those of one file: all of it has been read when *)
(* loadSchedule returns.                                                   *)
THEOREM EventsInForceAreOfOneFile == Spec => []EventsAreOfOneFile
<1>1. Init => LoadedInv
  <2> SUFFICES ASSUME Init PROVE LoadedInv
    OBVIOUS
  <2>1. CASE file \in Documents
    BY <2>1, LoadingStarts DEF Init, LoadedInv
  <2>2. CASE file \notin Documents
    BY <2>2 DEF Init, LoadedInv
  <2> QED
    BY <2>1, <2>2
<1>2. TypeOK /\ LoadedInv /\ [Next]_vars => LoadedInv'
  <2> SUFFICES ASSUME TypeOK, LoadedInv, [Next]_vars PROVE LoadedInv'
    OBVIOUS
  <2>1. CASE UNCHANGED <<pc, rest, events>>
    BY <2>1 DEF LoadedInv
  <2>2. CASE HoldUp \/ Resume
    BY <2>2 DEF HoldUp, Resume, AtLoop, LoadedInv
  <2>3. CASE LoadEvent /\ rest = <<>>
    <3>0. PICK doc \in Documents :
            \E acc :
              /\ Accepted(doc) = acc[Len(doc)]
              /\ \E n \in 0 .. Len(doc) :
                   events = acc[n] /\ Len(rest) = Len(doc) - n
      BY <2>3 DEF LoadEvent, LoadedInv, IsPrefixOf
    <3>1. PICK acc :
            /\ Accepted(doc) = acc[Len(doc)]
            /\ \E n \in 0 .. Len(doc) : events = acc[n] /\ Len(rest) = Len(doc) - n
      BY <3>0
    <3>2. Len(doc) \in Nat
      BY ConstantsAssumption
    <3>3. events = Accepted(doc)
      BY <2>3, <3>1, <3>2
    <3> QED
      BY <2>3, <3>3 DEF LoadEvent, LoadedInv
  <2>4. CASE LoadEvent /\ rest # <<>>
    BY <2>4, LoadingGoesOn DEF LoadEvent, LoadedInv, TypeOK
  <2>5. CASE FileChanged
    <3>1. CASE file \in {Missing, Broken}
      BY <2>1, <2>5, <3>1 DEF FileChanged, Open
    <3>2. CASE file \notin {Missing, Broken}
      BY <2>5, <3>2, LoadingStarts DEF FileChanged, Open, LoadedInv, TypeOK
    <3> QED
      BY <3>1, <3>2
  <2>6. ASSUME NEW b \in BOOLEAN, Restart(b) PROVE LoadedInv'
    <3>1. CASE file \in Documents
      BY <2>6, <3>1, LoadingStarts DEF Restart, LoadedInv
    <3>2. CASE file \notin Documents
      BY <2>6, <3>2 DEF Restart, LoadedInv
    <3> QED
      BY <3>1, <3>2
  <2> QED
    BY <2>1, <2>2, <2>3, <2>4, <2>5, <2>6 DEF Next, vars, Second, Timeout, User,
       WriteInPlace, Replace, Edited, CmdSched
<1>3. LoadedInv => EventsAreOfOneFile
  BY DEF LoadedInv, EventsAreOfOneFile, AtLoop
<1> QED
  BY <1>1, <1>2, <1>3, TypeCorrectness, PTL DEF Spec
=============================================================================
