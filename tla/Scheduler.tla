------------------------------ MODULE Scheduler ------------------------------
(***************************************************************************)
(* Scheduler: runs the commands of schedule.xml at their times.  A QTimer  *)
(* of 1000 ms calls timeout(), which looks at the clock; a file watcher    *)
(* calls fileChanged(), which reads the file again.  Both run on the main  *)
(* thread, which anything else (a script being started, for one) may hold  *)
(* up: a second of the clock may then see no timeout, or two.              *)
(*                                                                         *)
(* The clock counts seconds from the midnight before StartDay; a minute    *)
(* has SecPerMin of them and a day MinPerDay minutes.                      *)
(***************************************************************************)
EXTENDS Integers, Sequences

CONSTANTS SecPerMin, MinPerDay,  \* 60 and 1440
          StartDay,
          Commands,
          Documents,    \* well-formed schedule files: sequences of <event>
          Missing,      \* no file
          Broken,       \* not XML, or the root is not <schedule>
          Editors,      \* how the file is saved: "inplace", "replace"
          Horizon, MaxEdits, MaxUpsets  \* bounds

Day    == 0 .. 6                 \* bits of dow, Sunday is 0
Minute == 0 .. MinPerDay - 1     \* hour and min, as one number
NoTime == -1                     \* hour() and minute() of an invalid QTime
BadDow == {-1}                   \* a <dow> that does not have seven characters

(* An <event>, its <dow> and <time> elements in order, and what is made    *)
(* of it: a mask of days and a list of times.                              *)
Element == [command : Commands, dow : Seq((SUBSET Day) \cup {BadDow}),
            times : Seq(Minute \cup {NoTime})]
Event   == [command : Commands, dow : SUBSET Day,
            times : Seq(Minute \cup {NoTime})]

ASSUME ConstantsAssumption ==
  /\ SecPerMin \in Nat \ {0} /\ MinPerDay \in Nat \ {0} /\ StartDay \in Day
  /\ Documents \subseteq Seq(Element)
  /\ Missing \notin Documents /\ Broken \notin Documents /\ Missing # Broken
  /\ Editors \subseteq {"inplace", "replace"}
  /\ Horizon \in Nat \ {0} /\ MaxEdits \in Nat /\ MaxUpsets \in Nat

VARIABLES
  now,      \* seconds since the first midnight
  ticks,    \* timeouts delivered in this second
  file,     \* what schedule.xml holds
  watched,  \* the path is still in the list of the watcher
  notice,   \* inotify has something to tell: "none", "changed", "removed"
  pc,       \* "loop"; "loading" inside loadSchedule, "held" in another handler
  rest,     \* the <event> elements still to be read
  events,
  bSchedulerEnabled,
  saved,    \* settings/scheduler
  fired,    \* history: [at, tick, slot, command] of every runCommand
  steady,   \* history: no load, no SCHED and no delay since the second began
  edits,
  upsets    \* delays and restarts so far

vars == <<now, ticks, file, watched, notice, pc, rest, events,
          bSchedulerEnabled, saved, fired, steady, edits, upsets>>

AtLoop == pc = "loop"

-----------------------------------------------------------------------------
Sec(t)       == t % SecPerMin
MinuteOf(t)  == (t \div SecPerMin) % MinPerDay
DayOf(t)     == (StartDay + t \div (SecPerMin * MinPerDay)) % 7
(* QDate::dayOfWeek counts from Monday, 1, to Sunday, 7.                   *)
dayOfWeek(t) == IF DayOf(t) = 0 THEN 7 ELSE DayOf(t)

Listed(e, m) == \E i \in DOMAIN e.times : e.times[i] = m

(* Mutant: bit 7 is tested on Sundays.                                     *)
isEventTimeNoSunday(e, t) ==
  Sec(t) = 0 /\ dayOfWeek(t) \in e.dow /\ Listed(e, MinuteOf(t))

(* Mutant: any second of the minute will do.                               *)
isEventMinute(e, t) == dayOfWeek(t) % 7 \in e.dow /\ Listed(e, MinuteOf(t))

isEventTime(e, t) ==
  /\ Sec(t) = 0
  /\ LET dow == IF dayOfWeek(t) = 7 THEN 0 ELSE dayOfWeek(t) IN dow \in e.dow
  /\ Listed(e, MinuteOf(t))

doEventsConflict(a, b) ==
  /\ a.dow \cap b.dow # {}
  /\ \E i \in DOMAIN a.times, j \in DOMAIN b.times : a.times[i] = b.times[j]

(* Mutant: an event is refused only for the days and times of its last     *)
(* predecessor.                                                            *)
scheduleAfterLast(evs, e) ==
  IF evs # <<>> /\ doEventsConflict(evs[Len(evs)], e) THEN evs
  ELSE Append(evs, e)

(* An event that conflicts with one already there is dropped, whole.       *)
scheduleEvent(evs, e) ==
  IF \E i \in DOMAIN evs : doEventsConflict(evs[i], e) THEN evs
  ELSE Append(evs, e)

parseDateTime(x) ==
  [command |-> x.command,
   dow |-> {d \in Day : \E i \in DOMAIN x.dow : x.dow[i] # BadDow /\ d \in x.dow[i]},
   times |-> x.times]

(* The cells of Scheduler::html for one day and minute.                    *)
Cell(d, m) == {i \in DOMAIN events : d \in events[i].dow /\ Listed(events[i], m)}

-----------------------------------------------------------------------------
(* loadSchedule: a file that cannot be read leaves everything as it was.   *)

(* Mutant: the new events are added to the old ones.                       *)
OpenAndKeep(f) ==
  IF f \in {Missing, Broken} THEN UNCHANGED <<pc, rest, events>>
  ELSE pc' = "loading" /\ rest' = f /\ UNCHANGED events

Open(f) ==
  IF f \in {Missing, Broken} THEN UNCHANGED <<pc, rest, events>>
  ELSE pc' = "loading" /\ rest' = f /\ events' = <<>>

LoadEvent ==
  /\ pc = "loading"
  /\ IF rest = <<>>
     THEN pc' = "loop" /\ UNCHANGED <<rest, events>>
     ELSE /\ events' = scheduleEvent(events, parseDateTime(Head(rest)))
          /\ rest' = Tail(rest) /\ UNCHANGED pc
  /\ UNCHANGED <<now, ticks, file, watched, notice, bSchedulerEnabled, saved,
                 fired, steady, edits, upsets>>

(* The main window is constructed: the file is watched if it exists, then  *)
(* loaded, then the saved switch is read.                                  *)
Init ==
  /\ now = 0 /\ ticks = 0
  /\ file \in Documents \cup {Missing, Broken}
  /\ watched = (file # Missing) /\ notice = "none"
  /\ pc = (IF file \in Documents THEN "loading" ELSE "loop")
  /\ rest = (IF file \in Documents THEN file ELSE <<>>)
  /\ events = <<>>
  /\ saved \in BOOLEAN /\ bSchedulerEnabled = saved
  /\ fired = {} /\ steady = FALSE /\ edits = 0 /\ upsets = 0

(* Another handler of the main thread takes its time, startBgProcess in    *)
(* waitForStarted (up to 30 s) for one.  The timeout that was due comes    *)
(* late, and the next one may follow in the same second.                   *)
HoldUp ==
  /\ AtLoop /\ pc' = "held" /\ steady' = FALSE
  /\ upsets < MaxUpsets /\ upsets' = upsets + 1
  /\ UNCHANGED <<now, ticks, file, watched, notice, rest, events,
                 bSchedulerEnabled, saved, fired, edits>>

Resume ==
  /\ pc = "held" /\ pc' = "loop"
  /\ UNCHANGED <<now, ticks, file, watched, notice, rest, events,
                 bSchedulerEnabled, saved, fired, steady, edits, upsets>>

TicksPerSecond == 2

Second ==
  /\ now < Horizon - 1
  /\ AtLoop => ticks > 0
  /\ now' = now + 1 /\ ticks' = 0 /\ steady' = AtLoop
  /\ UNCHANGED <<file, watched, notice, pc, rest, events, bSchedulerEnabled,
                 saved, fired, edits, upsets>>

Timeout ==
  /\ AtLoop /\ ticks < (IF steady THEN 1 ELSE TicksPerSecond)
  /\ ticks' = ticks + 1
  /\ fired' = IF bSchedulerEnabled
              THEN fired \cup {[at |-> now, tick |-> ticks, slot |-> i,
                                command |-> events[i].command] :
                               i \in {j \in DOMAIN events : isEventTime(events[j], now)}}
              ELSE fired
  /\ UNCHANGED <<now, file, watched, notice, pc, rest, events,
                 bSchedulerEnabled, saved, steady, edits, upsets>>

(* A path that was renamed or removed leaves the list of the watcher.      *)
FileChanged ==
  /\ AtLoop /\ notice # "none"
  /\ watched' = (notice = "changed") /\ notice' = "none"
  /\ Open(file) /\ steady' = FALSE
  /\ UNCHANGED <<now, ticks, file, bSchedulerEnabled, saved, fired, edits, upsets>>

CmdSched(b) ==
  /\ AtLoop /\ bSchedulerEnabled' = b
  /\ steady' = (steady /\ b = bSchedulerEnabled)
  /\ UNCHANGED <<now, ticks, file, watched, notice, pc, rest, events, saved,
                 fired, edits, upsets>>

(* closeEvent saves the switch, a crash does not; then the program is      *)
(* started again.  The first timeout of its timer is a second away.        *)
Restart(clean) ==
  /\ AtLoop /\ upsets < MaxUpsets /\ upsets' = upsets + 1
  /\ saved' = (IF clean THEN bSchedulerEnabled ELSE saved)
  /\ bSchedulerEnabled' = saved'
  /\ watched' = (file # Missing) /\ notice' = "none"
  /\ pc' = (IF file \in Documents THEN "loading" ELSE "loop")
  /\ rest' = (IF file \in Documents THEN file ELSE <<>>)
  /\ events' = <<>> /\ ticks' = TicksPerSecond /\ steady' = FALSE
  /\ UNCHANGED <<now, file, fired, edits>>

-----------------------------------------------------------------------------
(* The user saves the file: into the same inode (it may be seen half       *)
(* written), or by renaming another one over it.                           *)

Edited ==
  /\ edits < MaxEdits /\ edits' = edits + 1
  /\ UNCHANGED <<now, ticks, watched, pc, rest, events, bSchedulerEnabled,
                 saved, fired, steady, upsets>>

WriteInPlace(c) ==
  /\ "inplace" \in Editors /\ file # Missing /\ c # file
  /\ file' = c
  /\ notice' = IF watched /\ notice = "none" THEN "changed" ELSE notice
  /\ Edited

Replace(c) ==
  /\ "replace" \in Editors /\ c # file
  /\ file' = c
  /\ notice' = IF watched THEN "removed" ELSE notice
  /\ Edited

User ==
  \/ \E c \in Documents \cup {Broken} : WriteInPlace(c)
  \/ \E c \in Documents \cup {Missing} : Replace(c)

Next ==
  \/ Second \/ Timeout \/ HoldUp \/ Resume \/ LoadEvent \/ FileChanged \/ User
  \/ \E b \in BOOLEAN : CmdSched(b) \/ Restart(b)

Spec == Init /\ [][Next]_vars

(* The event loop goes on, and comes to every notifier that stays ready.   *)
FairSpec == /\ Spec /\ WF_vars(LoadEvent) /\ WF_vars(Resume)
            /\ SF_vars(FileChanged)

-----------------------------------------------------------------------------
(* Every variable has its type.                                            *)
TypeOK ==
  /\ now \in Nat /\ ticks \in 0 .. TicksPerSecond
  /\ file \in Documents \cup {Missing, Broken}
  /\ watched \in BOOLEAN /\ notice \in {"none", "changed", "removed"}
  /\ pc \in {"loop", "loading", "held"} /\ rest \in Seq(Element)
  /\ events \in Seq(Event)
  /\ bSchedulerEnabled \in BOOLEAN /\ saved \in BOOLEAN /\ steady \in BOOLEAN
  /\ fired \subseteq [at : Nat, tick : Nat, slot : Nat, command : Commands]
  /\ edits \in Nat /\ upsets \in Nat

(* What the schedule refuses a conflicting event for: one timeout never    *)
(* starts two commands, however files, edits and restarts came together    *)
(* (the second would find the slot taken and be lost).                     *)
NeverTwice == \A f, g \in fired : f.at = g.at /\ f.tick = g.tick => f = g

(* A command whose time comes while the scheduler is enabled, the main     *)
(* thread is not held up, and neither the file nor the switch is touched   *)
(* in that second, is run.                                                 *)
EveryDueCommandRuns ==
  [][now' # now /\ steady /\ bSchedulerEnabled =>
       \A i \in DOMAIN events :
         Sec(now) = 0 /\ i \in Cell(DayOf(now), MinuteOf(now)) =>
           \E f \in fired : f.at = now /\ f.command = events[i].command]_vars

(* The events the file stands for: reading front to back, those that       *)
(* conflict with none accepted before.                                     *)
Accepted(doc) ==
  LET acc[n \in 0 .. Len(doc)] ==
        IF n = 0 THEN <<>>
        ELSE LET e == parseDateTime(doc[n]) IN
             IF \A i \in DOMAIN acc[n - 1] :
                  \A d \in acc[n - 1][i].dow \cap e.dow :
                    \A m \in Minute \cup {NoTime} :
                      ~(Listed(acc[n - 1][i], m) /\ Listed(e, m))
             THEN acc[n - 1] \o <<e>> ELSE acc[n - 1]
  IN acc[Len(doc)]

(* The events in force are those of one file, never a mix of two, however  *)
(* many edits, reloads and restarts came before.                           *)
EventsAreOfOneFile ==
  AtLoop => events = <<>> \/ \E doc \in Documents : events = Accepted(doc)

(* The table of the web page shows, in the column of a day and the row of  *)
(* a minute, exactly the command timeout runs then: html counts the days   *)
(* from Sunday, isEventTime gets them from Qt.                             *)
PageShowsWhatRuns ==
  \A t \in 0 .. Horizon - 1 :
    Sec(t) = 0 => Cell(DayOf(t), MinuteOf(t))
                    = {i \in DOMAIN events : isEventTime(events[i], t)}

InForce(doc) == pc # "loading" /\ events = Accepted(doc)

(* A valid file that is left alone while the watcher still has its path is *)
(* in force in the end, however often it was seen half written and however *)
(* long the main thread was held up.                                       *)
WatchedFileIsInForce ==
  \A doc \in Documents : <>[](file = doc /\ watched) => <>[]InForce(doc)

(* The same without asking for the watcher: while there always is a file,  *)
(* a valid one that is left alone is in force in the end (scheduler.cpp:   *)
(* "When the schedule file is changed, reload the schedule xml").          *)
StableFileIsInForce ==
  \A doc \in Documents :
    [](file # Missing) /\ <>[](file = doc) => <>[]InForce(doc)

-----------------------------------------------------------------------------
(* The inductive invariant of NeverTwice.                                  *)
NoConflicts ==
  \A i, j \in DOMAIN events : i # j => ~doEventsConflict(events[i], events[j])

FiredInv == \A f \in fired : f.at <= now /\ (f.at = now => f.tick < ticks)
=============================================================================
