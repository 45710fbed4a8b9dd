----------------------------- MODULE ProcessTable -----------------------------
(***************************************************************************)
(* How stopBgProcess finds the process to interrupt: LinuxProcessManager   *)
(* walks /proc while the processes of the board fork, end and are reaped,  *)
(* LinuxProcessEntry opens two files of each, and the first entry whose    *)
(* parent is the script gets a SIGINT.  The names come from the kernel in  *)
(* blocks of any size and ascending; a number is free again once its       *)
(* process is reaped, and the numbers are given out in turn.               *)
(***************************************************************************)
EXTENDS Integers, Sequences

CONSTANTS LastPid,      \* numbers are 1..LastPid, then again from the lowest free one
          MaxForks      \* bound: forks considered

Pid == 1..LastPid
init == 1               \* the process every orphan is given to
app == 2                \* TestDisplay
pid == 3                \* the script, as bgProcess.processId() has it
NoPid == -1             \* parent_pid of an entry that could not be read
NoProcess == [born |-> -1]

VARIABLES procs,        \* pid -> its process, or NoProcess
          lastPid,      \* the number given out last
          forks,        \* processes born so far
          at,           \* how far stopBgProcess has come
          dir,          \* readdir: the names fetched, the last of all of them, and
                        \* the one returned last
          processVec,   \* the entries made, with the time the process was read
          procVec,      \* which of them are the script's children
          stayed,       \* the script's children from opendir until now
          struck        \* the process the SIGINT reached

vars == <<procs, lastPid, forks, at, dir, processVec, procVec, stayed, struck>>

Process(n, parent, state) ==
  [born |-> n, ppid |-> parent, of |-> parent, state |-> state]
There(p) == procs[p] # NoProcess
ChildrenOf(p) == {c \in Pid : There(c) /\ procs[c].ppid = p}

Init ==
  /\ procs = [p \in Pid |-> CASE p = init -> Process(-3, 0, "alive")
                              [] p = app -> Process(-2, init, "alive")
                              [] p = pid -> Process(0, app, "alive")
                              [] OTHER -> NoProcess]
  /\ lastPid = pid /\ forks = 0
  /\ at = "running" /\ dir = [names |-> {}, last |-> -1, entry |-> 0]
  /\ processVec = <<>> /\ procVec = {}
  /\ stayed = {} /\ struck = NoProcess

-----------------------------------------------------------------------------
(* The kernel.  of is the number of the parent, kept when that one ends.   *)
Fork(p) ==
  /\ forks < MaxForks /\ There(p) /\ procs[p].state = "alive"
  /\ \E free \in Pid :
       LET ahead(q) == (q - lastPid - 1) % LastPid IN
       /\ ~There(free) /\ \A q \in Pid : There(q) \/ ahead(free) <= ahead(q)
       /\ forks' = forks + 1 /\ lastPid' = free
       /\ procs' = [procs EXCEPT ![free] = Process(forks', p, "alive")]
  /\ UNCHANGED <<at, dir, processVec, procVec, stayed, struck>>

(* Orphans are given to init; what it is given it reaps at once.           *)
Exit(p) ==
  LET orphans == ChildrenOf(p) IN
  /\ p \notin {init, app} /\ There(p) /\ procs[p].state = "alive"
  /\ procs' = [q \in Pid |->
                 CASE q = p -> IF procs[p].ppid = init THEN NoProcess
                               ELSE [procs[p] EXCEPT !.state = "zombie"]
                   [] q \in orphans -> IF procs[q].state = "zombie" THEN NoProcess
                                       ELSE [procs[q] EXCEPT !.ppid = init]
                   [] OTHER -> procs[q]]
  /\ stayed' = {q \in stayed : procs'[q] # NoProcess /\ procs'[q].ppid = pid}
  /\ UNCHANGED <<lastPid, forks, at, dir, processVec, procVec, struck>>

(* The parent waits for it; for the script that is Qt, in a signal handler.*)
Reap(p) ==
  /\ There(p) /\ procs[p].state = "zombie"
  /\ procs[procs[p].ppid].state = "alive"
  /\ procs' = [procs EXCEPT ![p] = NoProcess]
  /\ stayed' = stayed \ {p}
  /\ UNCHANGED <<lastPid, forks, at, dir, processVec, procVec, struck>>

-----------------------------------------------------------------------------
(* stopBgProcess and, in it, update(): opendir, which may fail; then a     *)
(* directory with no number, which comes first, and all the numbers.       *)
OpenProc ==
  /\ at = "running"
  /\ \/ at' = "readdir" /\ stayed' = ChildrenOf(pid)
     \/ at' = "unread" /\ UNCHANGED stayed
  /\ UNCHANGED <<procs, lastPid, forks, dir, processVec, procVec, struck>>

Fetch ==
  LET more == {p \in {0} \cup {q \in Pid : There(q)} : p > dir.last} IN
  IF more = {} THEN at' = "closedir" /\ UNCHANGED dir
  ELSE \E upTo \in more :
         /\ dir' = [dir EXCEPT !.names = {p \in more : p <= upTo}, !.last = upTo]
         /\ UNCHANGED at

NextName ==
  \E p \in dir.names :
    /\ \A q \in dir.names : p <= q
    /\ dir' = [dir EXCEPT !.names = @ \ {p}, !.entry = p]
    /\ at' = IF p = 0 THEN "readdir" ELSE "cmdline"

ReadDir ==
  /\ at = "readdir"
  /\ IF dir.names = {} THEN Fetch ELSE NextName
  /\ UNCHANGED <<procs, lastPid, forks, processVec, procVec, stayed, struck>>

Entry(parent) == [pid |-> dir.entry, ppid |-> parent, read |-> forks]

(* Mutant: the walk ends where a process has vanished.                     *)
OpenCmdlineGivesUp ==
  /\ at = "cmdline"
  /\ \/ /\ There(dir.entry) /\ at' = "stat" /\ UNCHANGED processVec
     \/ /\ ~There(dir.entry) /\ at' = "closedir"
        /\ processVec' = Append(processVec, Entry(NoPid))
  /\ UNCHANGED <<procs, lastPid, forks, dir, procVec, stayed, struck>>

(* LinuxProcessEntry: cmdline first, and nothing more if that is gone.     *)
OpenCmdline ==
  /\ at = "cmdline"
  /\ \/ /\ There(dir.entry) /\ at' = "stat" /\ UNCHANGED processVec
     \/ /\ ~There(dir.entry) /\ at' = "readdir"
        /\ processVec' = Append(processVec, Entry(NoPid))
  /\ UNCHANGED <<procs, lastPid, forks, dir, procVec, stayed, struck>>

OpenStat ==
  /\ at = "stat" /\ at' = "readdir"
  /\ LET p == dir.entry IN
     processVec' = Append(processVec, Entry(IF There(p) THEN procs[p].ppid ELSE NoPid))
  /\ UNCHANGED <<procs, lastPid, forks, dir, procVec, stayed, struck>>

(* getProcessesWithParent, and what its answer makes of the stop.          *)
GetProcessesWithParent ==
  /\ at = "closedir"
  /\ procVec' = {k \in DOMAIN processVec : processVec[k].ppid = pid}
  /\ at' = IF procVec' = {} THEN "nobody" ELSE "found"
  /\ UNCHANGED <<procs, lastPid, forks, dir, processVec, stayed, struck>>

FirstChild == processVec[CHOOSE k \in procVec : \A j \in procVec : k <= j]

Kill ==
  /\ at = "found" /\ at' = "killed"
  /\ struck' = procs[FirstChild.pid]
  /\ UNCHANGED <<procs, lastPid, forks, dir, processVec, procVec, stayed>>

Kernel == \E p \in Pid : Fork(p) \/ Exit(p) \/ Reap(p)
StopBgProcess ==
  OpenProc \/ ReadDir \/ OpenCmdline \/ OpenStat \/ GetProcessesWithParent \/ Kill
Next == Kernel \/ StopBgProcess
Spec == Init /\ [][Next]_vars

-----------------------------------------------------------------------------
(* What the scan is for, though the table changes under it: a process that *)
(* was a child of the script all along is in the answer, so the stop fails *)
(* for want of a child only if no child stayed; and a SIGINT reaches no    *)
(* process but one the script has forked, unless its number was given to a *)
(* new process after it was read (linuxprocessmanager.cpp:18-83,           *)
(* mainwindow.cpp:452-472).                                                *)
ChildIsFound ==
  /\ at \in {"nobody", "found", "killed"} =>
       \A c \in stayed : \E k \in procVec : processVec[k].pid = c
  /\ struck # NoProcess => struck.of = pid \/ struck.born > FirstChild.read
=============================================================================
