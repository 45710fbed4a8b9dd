------------------------------ MODULE FileLogger ------------------------------
(***************************************************************************)
(* The logger of QtWebApp (logger.cpp, filelogger.cpp): threads log under  *)
(* one static mutex, into buffers of their own that are printed when a     *)
(* message is grave enough; the timers of the main thread flush the file,  *)
(* rotate it and follow a new file name.  Messages are numbers; a file is  *)
(* the sequence of the messages in it.                                     *)
(***************************************************************************)
EXTENDS Integers, Sequences, FiniteSetsExt, SequencesExt

CONSTANTS Threads, Names,
          Types,                 \* QtMsgType: Debug 0, Warning 1, Critical 2, Fatal 3, Info 4
          minLevel, bufferSize, maxSize, maxBackups,
          MaxMessages, MaxFiles, MaxCrashes, MaxRefreshes   \* bounds

VARIABLES buffers,               \* the thread-local buffers
          fileName,
          open,                  \* file is not null
          unflushed,             \* the I/O buffer of file
          disk,                  \* name -> number -> content; 0 is the log, n is name.n
          written,               \* all that ever reached the files of a name
          timer,                 \* timerEvent; the mutex is its own except at "idle", "test"
          aborting,              \* a fatal message was logged; msgHandler lets nobody else in
          count, crashes, refreshes

bounds == <<crashes, refreshes>>
files == <<disk, written>>
process == <<buffers, aborting, count>>
vars == <<process, fileName, open, unflushed, files, timer, bounds>>

Numbers == 0..MaxFiles
Idle == [at |-> "idle", i |-> 0]

Init ==
  /\ buffers = [t \in Threads |-> <<>>]
  /\ fileName \in Names
  /\ open = TRUE
  /\ unflushed = <<>>
  /\ disk = [n \in Names |-> [k \in Numbers |-> <<>>]]
  /\ written = [n \in Names |-> <<>>]
  /\ timer = Idle /\ aborting = FALSE
  /\ count = 0 /\ crashes = 0 /\ refreshes = 0

MutexFree == timer.at \in {"idle", "test"}

Flush(ms) ==
  /\ disk' = [disk EXCEPT ![fileName][0] = @ \o ms]
  /\ written' = [written EXCEPT ![fileName] = @ \o ms]

close ==
  /\ IF open THEN Flush(unflushed) ELSE UNCHANGED files
  /\ unflushed' = <<>>

(* FileLogger::write of some messages: a critical one is flushed at once.  *)
(* On an error the file is closed, and the message goes to stderr as all   *)
(* that follow do.                                                         *)
Numbered(ms) == [k \in DOMAIN ms |-> ms[k].n]
Write(ms) ==
  \/ /\ open
     /\ IF \E k \in DOMAIN ms : ms[k].type >= 2
        THEN Flush(unflushed \o Numbered(ms)) /\ unflushed' = <<>>
        ELSE unflushed' = unflushed \o Numbered(ms) /\ UNCHANGED files
     /\ UNCHANGED open
  \/ /\ open
     /\ \E k \in 1..Len(ms) : Flush(unflushed \o Numbered(SubSeq(ms, 1, k - 1)))
     /\ unflushed' = <<>> /\ open' = FALSE
  \/ ~open /\ UNCHANGED <<open, unflushed, files>>

(* Logger::log, the message being numbered by `count'.                     *)
Grave(type) == IF type = 4 THEN 0 > minLevel ELSE type > minLevel

Log(t, type) ==
  LET m == [n |-> count + 1, type |-> type]
  IN /\ MutexFree /\ count < MaxMessages
     /\ count' = count + 1
     /\ IF bufferSize > 0
        THEN IF Grave(type)
             THEN /\ Write(IF Len(buffers[t]) < bufferSize THEN Append(buffers[t], m)
                           ELSE Tail(Append(buffers[t], m)))
                  /\ buffers' = [buffers EXCEPT ![t] = <<>>]
             ELSE /\ buffers' = [buffers EXCEPT ![t] =
                                   IF Len(@) < bufferSize THEN Append(@, m)
                                   ELSE Tail(Append(@, m))]
                  /\ UNCHANGED <<open, unflushed, files>>
        ELSE /\ IF type >= minLevel THEN Write(<<m>>)
                ELSE UNCHANGED <<open, unflushed, files>>
             /\ UNCHANGED buffers
     /\ UNCHANGED <<fileName, timer, bounds>>

(* All messages come through msgHandler, one thread at a time.  A warning  *)
(* that a write error causes in log() comes back to it and goes to stderr; *)
(* after a fatal message the program is aborted.                           *)
msgHandler(t, type) ==
  /\ ~aborting /\ aborting' = (type = 3)
  /\ Log(t, type)

(* Logger::clear, called after every request of the thread.                *)
Clear(t) ==
  /\ MutexFree /\ buffers[t] # <<>>
  /\ buffers' = [buffers EXCEPT ![t] = <<>>]
  /\ UNCHANGED <<fileName, open, unflushed, files, timer, count, aborting, bounds>>

(* timerEvent of the flush timer tests file before it takes the mutex: if  *)
(* a write fails in between, the null pointer ends the program.            *)
TimerTests ==
  /\ timer.at = "idle" /\ open
  /\ timer' = [timer EXCEPT !.at = "test"]
  /\ UNCHANGED <<process, fileName, open, unflushed, files, bounds>>

Backups(n) == CHOOSE k \in Numbers : /\ \A j \in 1..k : disk[n][j] # <<>>
                                     /\ k + 1 \in Numbers => disk[n][k + 1] = <<>>
TimerFlushes ==
  /\ timer.at = "test" /\ open
  /\ Flush(unflushed) /\ unflushed' = <<>>
  /\ IF maxSize > 0 /\ Len(disk[fileName][0] \o unflushed) >= maxSize
     THEN /\ \E k \in 1..MaxFiles : disk[fileName][k] = <<>>
          /\ open' = FALSE /\ timer' = [at |-> "remove", i |-> Backups(fileName)]
     ELSE UNCHANGED open /\ timer' = Idle
  /\ UNCHANGED <<process, fileName, bounds>>

(* rotate(): from the oldest backup to the newest.                         *)
RemoveBackupBelow ==
  /\ timer.at = "remove" /\ maxBackups > 0 /\ timer.i >= maxBackups
  /\ disk' = [disk EXCEPT ![fileName][timer.i - 1] = <<>>]
  /\ timer' = [timer EXCEPT !.i = @ - 1]
  /\ UNCHANGED <<process, fileName, open, unflushed, written, bounds>>
RemoveBackup ==
  /\ timer.at = "remove" /\ maxBackups > 0 /\ timer.i >= maxBackups
  /\ disk' = [disk EXCEPT ![fileName][timer.i] = <<>>]
  /\ timer' = [timer EXCEPT !.i = @ - 1]
  /\ UNCHANGED <<process, fileName, open, unflushed, written, bounds>>

RemovedEnough ==
  /\ timer.at = "remove" /\ ~(maxBackups > 0 /\ timer.i >= maxBackups)
  /\ timer' = [timer EXCEPT !.at = "shift"]
  /\ UNCHANGED <<process, fileName, open, unflushed, files, bounds>>

(* QFile::rename refuses to overwrite a file.                              *)
Rename(n, from, to) ==
  disk' = IF disk[n][to] # <<>> THEN disk
          ELSE [disk EXCEPT ![n][to] = disk[n][from], ![n][from] = <<>>]

ShiftBackup ==
  /\ timer.at = "shift"
  /\ Rename(fileName, timer.i, timer.i + 1)
  /\ timer' = IF timer.i > 0 THEN [timer EXCEPT !.i = @ - 1] ELSE [timer EXCEPT !.at = "open"]
  /\ UNCHANGED <<process, fileName, open, unflushed, written, bounds>>

(* When open() fails its qWarning comes back to log(), which waits for the *)
(* mutex its own thread has: nobody logs from then on.                     *)
Reopen ==
  /\ timer.at = "open"
  /\ \/ open' = TRUE /\ timer' = Idle
     \/ open' = FALSE /\ timer' = [timer EXCEPT !.at = "stuck"]
  /\ UNCHANGED <<process, fileName, unflushed, files, bounds>>

(* refreshSettings with another file name.                                 *)
RefreshSettings(n) ==
  /\ timer.at = "idle" /\ n # fileName
  /\ refreshes < MaxRefreshes /\ refreshes' = refreshes + 1
  /\ close
  /\ fileName' = n
  /\ open' = FALSE /\ timer' = [timer EXCEPT !.at = "open"]
  /\ UNCHANGED <<process, crashes>>

(* The program ends at any step, after a fatal message or for another      *)
(* reason, with what was not flushed, and starts again with the file in    *)
(* append mode.                                                            *)
Restarted ==
  /\ crashes < MaxCrashes /\ crashes' = crashes + 1
  /\ buffers' = [t \in Threads |-> <<>>] /\ unflushed' = <<>>
  /\ open' = TRUE /\ timer' = Idle /\ aborting' = FALSE
  /\ UNCHANGED <<fileName, count, refreshes>>

Crash == Restarted /\ UNCHANGED files

(* The logger is deleted, which closes the file; then the same.            *)
Quit == timer.at = "idle" /\ ~aborting /\ close /\ Restarted

Next ==
  \/ \E t \in Threads : Clear(t) \/ \E type \in Types : msgHandler(t, type)
  \/ TimerTests \/ TimerFlushes \/ RemoveBackup \/ RemovedEnough \/ ShiftBackup \/ Reopen
  \/ \E n \in Names : RefreshSettings(n)
  \/ Crash \/ Quit

Spec == Init /\ [][Next]_vars

-------------------------------------------------------------------------------
(* The files of a name from the oldest backup to the log itself.           *)
OldestFirst(n) == FlattenSeq([k \in 1..(MaxFiles + 1) |-> disk[n][MaxFiles + 1 - k]])

(* What the log and its backups keep is the end of all that was written to *)
(* them, without a gap and in order: rotation drops the oldest messages    *)
(* only, also when it was interrupted between two renames and continues in *)
(* another life of the program (rotate, timerEvent).                       *)
LogKeepsItsEnd == \A n \in Names : IsSuffix(OldestFirst(n), written[n])
===============================================================================
