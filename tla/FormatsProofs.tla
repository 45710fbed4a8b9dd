---------------------------- MODULE FormatsProofs ----------------------------
(***************************************************************************)
(* Proofs about the process table, the Python driver and the requests.     *)
(* ChildrenAreFound rests on ProcessInv: the walk through /proc passes no  *)
(* child that stays, and what it noted of a process is of a child of the   *)
(* script or of one that has its number since.                             *)
(* ProgramsKnowTheDisplay rests on DriverInv, which relates the lines sent *)
(* and answered, the results and the display, and on Cleaning: what the    *)
(* programs have still to send and have sent last.                         *)
(* RequestsParsedAsSent rests on RequestInv: what still flows in is what   *)
(* is left of the requests of the client, from where the one is that is    *)
(* read; and on TakenInv, what was taken of it at most.                    *)
(* What is computed step by step is a function of what was read so far, so *)
(* two computations that begin the same and take the same steps are the    *)
(* same (SameResults).                                                     *)
(***************************************************************************)
EXTENDS Formats, FiniteSetTheorems, WellFoundedInduction, SequenceTheorems, TLAPS

LEMMA Induction ==
  ASSUME NEW S, 0 \in S, \A i \in S : i + 1 \in S, S \subseteq Nat
  PROVE  S = Nat
<1> SUFFICES ASSUME Nat \ S # {} PROVE FALSE
  OBVIOUS
<1>1. PICK n \in Nat \ S : \A m \in Nat \ S : ~(<<m, n>> \in OpToRel(<, Nat))
  BY NatLessThanWellFounded, WFMin, Zenon
<1>2. PICK m \in Nat : n = m + 1
  <2>1. n \in Nat /\ n # 0
    BY <1>1, Zenon
  <2> QED
    BY <2>1
<1>3. <<m, n>> \in OpToRel(<, Nat)
  BY <1>1, <1>2 DEF OpToRel
<1> QED
  BY <1>1, <1>2, <1>3, Zenon

(* What is computed step by step is determined by its first step.          *)
SameSteps(f, g, N) ==
  f[0] = g[0] /\ \A i \in 1 .. N : f[i - 1] = g[i - 1] => f[i] = g[i]

LEMMA SameResults ==
  ASSUME NEW N \in Nat, NEW f, NEW g, SameSteps(f, g, N)
  PROVE  f[N] = g[N]
<1> DEFINE S == {i \in Nat : i <= N => f[i] = g[i]}
<1>1. 0 \in S
  BY DEF SameSteps
<1>2. \A i \in S : i + 1 \in S
  <2> SUFFICES ASSUME NEW i \in S, i + 1 <= N PROVE f[i + 1] = g[i + 1]
    OBVIOUS
  <2>1. i + 1 \in 1 .. N /\ (i + 1) - 1 = i /\ f[i] = g[i]
    OBVIOUS
  <2> QED
    BY <2>1 DEF SameSteps
<1> HIDE DEF S
<1>3. S = Nat
  BY <1>1, <1>2, Induction DEF S
<1> QED
  BY <1>3 DEF S

-----------------------------------------------------------------------------
(***************************************************************************)
(* The process table.                                                      *)
(***************************************************************************)
Pid == Processes!Pid
There(p) == Processes!There(p)
ScriptPid == Processes!pid
NoProcess == Processes!NoProcess

Living == [born : Nat \cup {-3, -2}, ppid : Nat, of : Nat, state : {"alive", "zombie"}]
Entries == [pid : Pid, ppid : Nat \cup {-1}, read : Nat]

TableShape ==
  /\ procs \in [Pid -> Living \cup {NoProcess}]
  /\ forks \in Nat
  /\ dir \in [names : SUBSET ({0} \cup Pid), last : Int, entry : {0} \cup Pid]
  /\ processVec \in Seq(Entries)
  /\ at \in {"cmdline", "stat"} => dir.entry \in Pid

(* The script's children know it, and those that stayed are among them.    *)
ChildrenAreForked ==
  /\ \A q \in Pid : There(q) /\ procs[q].ppid = ScriptPid => procs[q].of = ScriptPid
  /\ \A c \in stayed : c \in Pid /\ There(c) /\ procs[c].ppid = ScriptPid

(* The walk passes no child that stays.                                    *)
Found(c) ==
  \E k \in DOMAIN processVec : processVec[k].pid = c /\ processVec[k].ppid = ScriptPid
Ahead(c) == c > dir.last \/ c \in dir.names \/ (at # "readdir" /\ c = dir.entry)

WalkPassesNone ==
  /\ at = "running" => dir.last = -1
  /\ at \in {"readdir", "cmdline", "stat"} => \A c \in stayed : Ahead(c) \/ Found(c)
  /\ at \in {"closedir", "nobody", "found", "killed"} => \A c \in stayed : Found(c)

(* An entry of a child is of it, or of one that has its number since.      *)
IsOf(p, read) == p = NoProcess \/ p.of = ScriptPid \/ p.born > read
EntriesAreOfChildren ==
  \A k \in DOMAIN processVec :
    processVec[k].ppid = ScriptPid =>
      processVec[k].read <= forks /\ IsOf(procs[processVec[k].pid], processVec[k].read)

AnswerIsOfEntries ==
  /\ at \in {"nobody", "found", "killed"} =>
       procVec = {k \in DOMAIN processVec : processVec[k].ppid = ScriptPid}
  /\ at = "found" => procVec # {}
  /\ IF at = "killed" THEN IsOf(struck, Processes!FirstChild.read) ELSE struck = NoProcess

ProcessInv == /\ TableShape /\ ChildrenAreForked /\ WalkPassesNone
              /\ EntriesAreOfChildren /\ AnswerIsOfEntries

USE DEF Pid, There, ScriptPid, NoProcess, Processes!Pid, Processes!There, Processes!pid,
   Processes!NoProcess

LEMMA ProcessInit == Processes!Init => ProcessInv
  BY PidAssumption DEF Processes!Init, ProcessInv, TableShape, ChildrenAreForked,
     WalkPassesNone, EntriesAreOfChildren, AnswerIsOfEntries, Living, Entries,
     Processes!Process, Processes!app, Processes!init

LEMMA ProcessesImplied == ProcessInv => Processes!ChildIsFound
  BY DEF ProcessInv, WalkPassesNone, AnswerIsOfEntries, Found, IsOf, Processes!ChildIsFound

LEMMA ProcessFork ==
  ASSUME ProcessInv, NEW p \in Pid, Processes!Fork(p)
  PROVE  ProcessInv'
<1>1. PICK free \in Pid : /\ ~There(free) /\ There(p)
                          /\ forks' = forks + 1
                          /\ procs' = [procs EXCEPT ![free] = Processes!Process(forks', p, "alive")]
  BY DEF Processes!Fork
<1>2. UNCHANGED <<at, dir, processVec, procVec, stayed, struck>>
  BY DEF Processes!Fork
<1>3. Processes!Process(forks', p, "alive") \in Living
  BY <1>1, PidAssumption DEF Living, Processes!Process, ProcessInv, TableShape
<1>4. TableShape'
  BY <1>1, <1>2, <1>3 DEF ProcessInv, TableShape
<1>5. ChildrenAreForked'
  BY <1>1, <1>2, <1>3 DEF ProcessInv, TableShape, ChildrenAreForked, Processes!Process, Living
<1>6. WalkPassesNone'
  BY <1>1, <1>2 DEF ProcessInv, WalkPassesNone, Ahead, Found
<1>7. EntriesAreOfChildren'
  <2>1. ASSUME NEW k \in DOMAIN processVec, processVec[k].ppid = ScriptPid
        PROVE  /\ processVec[k].read <= forks'
               /\ IsOf(procs'[processVec[k].pid], processVec[k].read)
    <3>1. processVec[k] \in Entries
      BY DEF ProcessInv, TableShape
    <3>2. processVec[k].read <= forks /\ IsOf(procs[processVec[k].pid], processVec[k].read)
      BY <2>1 DEF ProcessInv, EntriesAreOfChildren
    <3> QED
      BY <1>1, <3>1, <3>2 DEF ProcessInv, TableShape, IsOf, Entries, Processes!Process
  <2> QED
    BY <1>2, <2>1 DEF EntriesAreOfChildren, IsOf
<1>8. AnswerIsOfEntries'
  BY <1>2 DEF ProcessInv, AnswerIsOfEntries, IsOf, Processes!FirstChild
<1> QED
  BY <1>4, <1>5, <1>6, <1>7, <1>8 DEF ProcessInv

LEMMA ProcessExit ==
  ASSUME ProcessInv, NEW p \in Pid, Processes!Exit(p) \/ Processes!Reap(p)
  PROVE  ProcessInv'
<1>1. /\ procs' \in [Pid -> Living \cup {NoProcess}]
      /\ \A q \in Pid : procs'[q] # NoProcess =>
           /\ procs[q] # NoProcess
           /\ procs'[q].of = procs[q].of /\ procs'[q].born = procs[q].born
           /\ procs'[q].ppid = ScriptPid => procs[q].ppid = ScriptPid
      /\ stayed' \subseteq {q \in stayed : procs'[q] # NoProcess /\ procs'[q].ppid = ScriptPid}
  <2>1. CASE Processes!Exit(p)
    <3>1. \A q \in Pid : procs'[q] \in
            {NoProcess, [procs[q] EXCEPT !.state = "zombie"], [procs[q] EXCEPT !.ppid = 1], procs[q]}
      BY <2>1 DEF Processes!Exit, Processes!init
    <3>2. \A q \in Pid : procs[q] = NoProcess => procs'[q] = NoProcess
      BY <2>1 DEF Processes!Exit, Processes!init, Processes!ChildrenOf
    <3>3. DOMAIN procs' = Pid /\ procs' = [q \in Pid |-> procs'[q]]
      BY <2>1 DEF Processes!Exit
    <3>4. \A q \in Pid : procs[q] \in Living \cup {NoProcess}
      BY DEF ProcessInv, TableShape
    <3>5. ASSUME NEW q \in Pid, procs'[q] # NoProcess
          PROVE  /\ procs[q] # NoProcess /\ procs'[q] \in Living
                 /\ procs'[q].of = procs[q].of /\ procs'[q].born = procs[q].born
                 /\ procs'[q].ppid = ScriptPid => procs[q].ppid = ScriptPid
      BY <3>1, <3>2, <3>4, <3>5 DEF Living
    <3>6. \A q \in Pid : procs'[q] \in Living \cup {NoProcess}
      BY <3>5
    <3>7. stayed' = {q \in stayed : procs'[q] # NoProcess /\ procs'[q].ppid = ScriptPid}
      BY <2>1 DEF Processes!Exit
    <3> QED
      BY <3>3, <3>5, <3>6, <3>7
  <2>2. CASE Processes!Reap(p)
    BY <2>2 DEF Processes!Reap, ProcessInv, TableShape, ChildrenAreForked
  <2> QED
    BY <2>1, <2>2
<1>2. UNCHANGED <<lastPid, forks, at, dir, processVec, procVec, struck>>
  BY DEF Processes!Exit, Processes!Reap
<1>3. TableShape'
  BY <1>1, <1>2 DEF ProcessInv, TableShape
<1>4. ChildrenAreForked'
  BY <1>1, <1>2 DEF ProcessInv, TableShape, ChildrenAreForked
<1>5. WalkPassesNone'
  BY <1>1, <1>2 DEF ProcessInv, WalkPassesNone, Ahead, Found
<1>6. EntriesAreOfChildren'
  <2>1. ASSUME NEW k \in DOMAIN processVec, processVec[k].ppid = ScriptPid
        PROVE  /\ processVec[k].read <= forks
               /\ IsOf(procs'[processVec[k].pid], processVec[k].read)
    <3>1. processVec[k] \in Entries
      BY DEF ProcessInv, TableShape
    <3>2. processVec[k].read <= forks /\ IsOf(procs[processVec[k].pid], processVec[k].read)
      BY <2>1 DEF ProcessInv, EntriesAreOfChildren
    <3> QED
      BY <1>1, <3>1, <3>2 DEF IsOf, Entries
  <2> QED
    BY <1>2, <2>1 DEF EntriesAreOfChildren, IsOf
<1>7. AnswerIsOfEntries'
  BY <1>2 DEF ProcessInv, AnswerIsOfEntries, IsOf, Processes!FirstChild
<1> QED
  BY <1>3, <1>4, <1>5, <1>6, <1>7 DEF ProcessInv

LEMMA ProcessReadDir ==
  ASSUME ProcessInv, Processes!OpenProc \/ Processes!ReadDir
  PROVE  ProcessInv'
<1>1. UNCHANGED <<procs, lastPid, forks, processVec, procVec, struck>>
  BY DEF Processes!OpenProc, Processes!ReadDir
<1>2. CASE Processes!OpenProc
  <2>1. at = "running" /\ UNCHANGED dir /\ at' \in {"readdir", "unread"}
    BY <1>2 DEF Processes!OpenProc
  <2>2. stayed' = stayed \/ stayed' = {c \in Pid : There(c) /\ procs[c].ppid = ScriptPid}
    BY <1>2 DEF Processes!OpenProc, Processes!ChildrenOf
  <2>3. \A c \in stayed' : c \in Pid /\ There(c) /\ procs[c].ppid = ScriptPid
    BY <2>2 DEF ProcessInv, ChildrenAreForked
  <2>4. \A c \in stayed' : Ahead(c)'
    <3>1. dir.last = -1
      BY <2>1 DEF ProcessInv, WalkPassesNone
    <3> QED
      BY <2>1, <2>3, <3>1, PidAssumption DEF Ahead
  <2> QED
    <3>1. TableShape' /\ ChildrenAreForked'
      BY <1>1, <2>1, <2>3 DEF ProcessInv, TableShape, ChildrenAreForked
    <3>2. WalkPassesNone'
      BY <1>1, <2>1, <2>4 DEF ProcessInv, WalkPassesNone
    <3>3. EntriesAreOfChildren' /\ AnswerIsOfEntries'
      BY <1>1, <2>1 DEF ProcessInv, EntriesAreOfChildren, AnswerIsOfEntries, IsOf
    <3> QED
      BY <3>1, <3>2, <3>3 DEF ProcessInv
<1>3. CASE Processes!ReadDir
  <2>1. at = "readdir" /\ UNCHANGED stayed
    BY <1>3 DEF Processes!ReadDir
  <2>2. CASE dir.names = {}
    <3> DEFINE more == {p \in {0} \cup {q \in Pid : There(q)} : p > dir.last}
    <3>1. Processes!Fetch
      BY <1>3, <2>2 DEF Processes!ReadDir
    <3>2. CASE more = {}
      <4>1. at' = "closedir" /\ UNCHANGED dir
        BY <3>1, <3>2, Zenon DEF Processes!Fetch
      <4>2. \A c \in stayed : Found(c)
        BY <2>1, <2>2, <3>2 DEF ProcessInv, WalkPassesNone, Ahead, ChildrenAreForked
      <4> QED
        BY <1>1, <2>1, <4>1, <4>2 DEF ProcessInv, TableShape,
           ChildrenAreForked, WalkPassesNone, Found, EntriesAreOfChildren,
           AnswerIsOfEntries, IsOf
    <3>3. CASE more # {}
      <4>1. PICK upTo \in more :
              /\ dir' = [dir EXCEPT !.names = {p \in more : p <= upTo}, !.last = upTo]
              /\ UNCHANGED at
        BY <3>1, <3>3, Zenon DEF Processes!Fetch
      <4>2. dir' \in [names : SUBSET ({0} \cup Pid), last : Int, entry : {0} \cup Pid]
        <5>1. more \subseteq {0} \cup Pid /\ {0} \cup Pid \subseteq Int
          BY PidAssumption
        <5> HIDE DEF more
        <5> QED
          BY <4>1, <5>1, Zenon DEF ProcessInv, TableShape
      <4>3. \A c \in stayed : Ahead(c)' \/ Found(c)
        BY <2>1, <2>2, <4>1 DEF ProcessInv, TableShape, WalkPassesNone, Ahead, ChildrenAreForked
      <4> HIDE DEF more
      <4>4. TableShape' /\ ChildrenAreForked'
        <5>1. TableShape'
          BY <1>1, <2>1, <4>1, <4>2, Zenon DEF ProcessInv, TableShape
        <5>2. ChildrenAreForked'
          BY <1>1, <2>1 DEF ProcessInv, ChildrenAreForked
        <5> QED
          BY <5>1, <5>2
      <4>5. WalkPassesNone'
        BY <1>1, <2>1, <4>1, <4>3 DEF ProcessInv, WalkPassesNone, Found
      <4>6. EntriesAreOfChildren' /\ AnswerIsOfEntries'
        BY <1>1, <2>1, <4>1 DEF ProcessInv, EntriesAreOfChildren, AnswerIsOfEntries, IsOf
      <4> QED
        BY <4>4, <4>5, <4>6 DEF ProcessInv
    <3> QED
      BY <3>2, <3>3
  <2>3. CASE dir.names # {}
    <3>1. PICK p \in dir.names :
            /\ dir' = [dir EXCEPT !.names = @ \ {p}, !.entry = p]
            /\ at' = IF p = 0 THEN "readdir" ELSE "cmdline"
      BY <1>3, <2>3, Zenon DEF Processes!ReadDir, Processes!NextName
    <3>2. dir' \in [names : SUBSET ({0} \cup Pid), last : Int, entry : {0} \cup Pid]
      BY <3>1 DEF ProcessInv, TableShape
    <3>3. at' = "cmdline" => dir'.entry \in Pid
      BY <3>1 DEF ProcessInv, TableShape
    <3>4. \A c \in stayed : Ahead(c)' \/ Found(c)
      <4> SUFFICES ASSUME NEW c \in stayed PROVE Ahead(c)' \/ Found(c)
        OBVIOUS
      <4>0. dir'.entry = p /\ dir'.names = dir.names \ {p} /\ dir'.last = dir.last
        BY <3>1 DEF ProcessInv, TableShape
      <4>1. CASE c \in dir.names
        <5>1. c \in Pid /\ p \in {0} \cup Pid
          BY DEF ProcessInv, TableShape, ChildrenAreForked
        <5>2. CASE c = p
          <6>1. at' # "readdir"
            BY <3>1, <5>1, <5>2, PidAssumption
          <6> QED
            BY <4>0, <5>2, <6>1 DEF Ahead
        <5>3. CASE c # p
          BY <4>0, <4>1, <5>3 DEF Ahead
        <5> QED
          BY <5>2, <5>3
      <4>2. CASE c > dir.last
        BY <4>0, <4>2 DEF Ahead
      <4> QED
        BY <2>1, <4>1, <4>2 DEF ProcessInv, WalkPassesNone, Ahead
    <3> QED
      BY <1>1, <2>1, <3>1, <3>2, <3>3, <3>4 DEF ProcessInv, TableShape,
         ChildrenAreForked, WalkPassesNone, Found, EntriesAreOfChildren,
         AnswerIsOfEntries, IsOf
  <2> QED
    BY <2>2, <2>3
<1> QED
  BY <1>2, <1>3

(* An entry is added, and the walk has passed its number.                  *)
LEMMA ProcessEntry ==
  ASSUME ProcessInv, NEW parent \in Nat \cup {-1}, at \in {"cmdline", "stat"},
         at' = "readdir", processVec' = Append(processVec, Processes!Entry(parent)),
         UNCHANGED <<procs, lastPid, forks, dir, procVec, stayed, struck>>,
         There(dir.entry) => parent = procs[dir.entry].ppid,
         ~There(dir.entry) => parent = -1
  PROVE  ProcessInv'
<1> DEFINE e == Processes!Entry(parent)
<1>1. e \in Entries /\ e = [pid |-> dir.entry, ppid |-> parent, read |-> forks]
  BY DEF ProcessInv, TableShape, Processes!Entry, Entries
<1>2. /\ processVec \in Seq(Entries) /\ processVec' \in Seq(Entries)
      /\ Len(processVec) \in Nat
      /\ DOMAIN processVec = 1 .. Len(processVec)
      /\ DOMAIN processVec' = 1 .. Len(processVec) + 1
      /\ processVec'[Len(processVec) + 1] = e
      /\ \A k \in DOMAIN processVec : processVec'[k] = processVec[k]
  BY <1>1 DEF ProcessInv, TableShape
<1> HIDE DEF e
<1>3. TableShape'
  BY <1>2 DEF ProcessInv, TableShape
<1>4. ChildrenAreForked'
  BY DEF ProcessInv, ChildrenAreForked
<1>5. \A c \in stayed : (Ahead(c) \/ Found(c)) => (Ahead(c)' \/ Found(c)')
  <2> SUFFICES ASSUME NEW c \in stayed, Ahead(c) \/ Found(c) PROVE Ahead(c)' \/ Found(c)'
    OBVIOUS
  <2>1. CASE Found(c)
    BY <1>2, <2>1 DEF Found
  <2>2. CASE c = dir.entry
    <3>1. e.pid = c /\ e.ppid = ScriptPid
      BY <1>1, <2>2 DEF ProcessInv, ChildrenAreForked
    <3>2. Len(processVec) + 1 \in DOMAIN processVec'
      BY <1>2
    <3> QED
      BY <1>2, <3>1, <3>2 DEF Found
  <2> QED
    BY <2>1, <2>2 DEF Ahead
<1>6. WalkPassesNone'
  BY <1>5 DEF ProcessInv, WalkPassesNone
<1>7. EntriesAreOfChildren'
  <2>1. ASSUME NEW k \in DOMAIN processVec', processVec'[k].ppid = ScriptPid
        PROVE  /\ processVec'[k].read <= forks
               /\ IsOf(procs[processVec'[k].pid], processVec'[k].read)
    <3>1. CASE k \in DOMAIN processVec
      BY <1>2, <2>1, <3>1 DEF ProcessInv, EntriesAreOfChildren
    <3>2. CASE k = Len(processVec) + 1
      BY <1>1, <1>2, <2>1, <3>2 DEF ProcessInv, TableShape, ChildrenAreForked, IsOf
    <3> QED
      BY <1>2, <3>1, <3>2
  <2> QED
    BY <2>1 DEF EntriesAreOfChildren, IsOf
<1>8. AnswerIsOfEntries'
  BY DEF ProcessInv, AnswerIsOfEntries, IsOf
<1> QED
  BY <1>3, <1>4, <1>6, <1>7, <1>8 DEF ProcessInv

LEMMA ProcessOpens ==
  ASSUME ProcessInv, Processes!OpenCmdline \/ Processes!OpenStat
  PROVE  ProcessInv'
<1> USE DEF Processes!NoPid
<1>1. CASE Processes!OpenCmdline /\ at' = "stat"
  BY <1>1 DEF Processes!OpenCmdline, ProcessInv, TableShape, ChildrenAreForked,
     WalkPassesNone, Ahead, Found, EntriesAreOfChildren, AnswerIsOfEntries, IsOf
<1>2. CASE Processes!OpenCmdline /\ at' # "stat"
  BY <1>2, ProcessEntry DEF Processes!OpenCmdline
<1>3. CASE Processes!OpenStat
  <2> DEFINE parent == IF There(dir.entry) THEN procs[dir.entry].ppid ELSE -1
  <2>1. parent \in Nat \cup {-1}
    BY <1>3 DEF Processes!OpenStat, ProcessInv, TableShape, Living
  <2>2. processVec' = Append(processVec, Processes!Entry(parent))
    BY <1>3 DEF Processes!OpenStat
  <2>3. /\ at = "stat" /\ at' = "readdir"
        /\ UNCHANGED <<procs, lastPid, forks, dir, procVec, stayed, struck>>
    BY <1>3 DEF Processes!OpenStat
  <2>4. /\ There(dir.entry) => parent = procs[dir.entry].ppid
        /\ ~There(dir.entry) => parent = -1
    OBVIOUS
  <2> HIDE DEF parent
  <2> QED
    BY <2>1, <2>2, <2>3, <2>4, ProcessEntry
<1> QED
  BY <1>1, <1>2, <1>3

(* Numbers have a lowest.                                                  *)
LEMMA LowestOne ==
  ASSUME NEW S \in SUBSET Nat, S # {}
  PROVE  \E k \in S : \A j \in S : k <= j
<1>1. PICK k \in S : \A j \in S : ~(<<j, k>> \in OpToRel(<, Nat))
  BY NatLessThanWellFounded, WFMin, Zenon
<1>2. \A j \in S : j < k <=> <<j, k>> \in OpToRel(<, Nat)
  BY DEF OpToRel
<1>3. ASSUME NEW j \in S PROVE k <= j
  <2>1. k \in Nat /\ j \in Nat /\ ~(j < k)
    BY <1>1, <1>2, Zenon
  <2> QED
    BY <2>1
<1> QED
  BY <1>3

(* The first of the children found is one of them.                         *)
LEMMA FirstChildIsOne ==
  ASSUME ProcessInv, at = "found"
  PROVE  \E k \in DOMAIN processVec :
           Processes!FirstChild = processVec[k] /\ processVec[k].ppid = ScriptPid
<1>1. procVec # {} /\ procVec \subseteq DOMAIN processVec
  BY DEF ProcessInv, AnswerIsOfEntries
<1>2. procVec \subseteq Nat
  BY <1>1 DEF ProcessInv, TableShape
<1>4. \E k \in procVec : \A j \in procVec : k <= j
  BY <1>1, <1>2, LowestOne
<1> QED
  BY <1>1, <1>4 DEF ProcessInv, AnswerIsOfEntries, Processes!FirstChild

LEMMA ProcessAnswer ==
  ASSUME ProcessInv, Processes!GetProcessesWithParent \/ Processes!Kill
  PROVE  ProcessInv'
<1>1. CASE Processes!GetProcessesWithParent
  BY <1>1 DEF Processes!GetProcessesWithParent, ProcessInv, TableShape, ChildrenAreForked,
     WalkPassesNone, Ahead, Found, EntriesAreOfChildren, AnswerIsOfEntries, IsOf
<1>2. CASE Processes!Kill
  <2>1. PICK k \in DOMAIN processVec :
          Processes!FirstChild = processVec[k] /\ processVec[k].ppid = ScriptPid
    BY <1>2, FirstChildIsOne DEF Processes!Kill
  <2>2. IsOf(procs[Processes!FirstChild.pid], Processes!FirstChild.read)
    BY <2>1 DEF ProcessInv, EntriesAreOfChildren
  <2>3. Processes!FirstChild' = Processes!FirstChild
    BY <1>2 DEF Processes!Kill, Processes!FirstChild
  <2> QED
    BY <1>2, <2>2, <2>3 DEF Processes!Kill, ProcessInv, TableShape, ChildrenAreForked,
       WalkPassesNone, Ahead, Found, EntriesAreOfChildren, AnswerIsOfEntries, IsOf
<1> QED
  BY <1>1, <1>2

LEMMA ProcessStutter ==
  ASSUME ProcessInv, UNCHANGED Processes!vars
  PROVE  ProcessInv'
  BY DEF Processes!vars, ProcessInv, TableShape, ChildrenAreForked, WalkPassesNone, Ahead,
     Found, EntriesAreOfChildren, AnswerIsOfEntries, IsOf, Processes!FirstChild

LEMMA ProcessNext == ASSUME ProcessInv, Processes!Next PROVE ProcessInv'
  BY ProcessFork, ProcessExit, ProcessReadDir, ProcessOpens, ProcessAnswer
     DEF Processes!Next, Processes!Kernel, Processes!StopBgProcess

ProcessScene == scene = "processes" => ProcessInv

(* A process that was a child of the script as long as /proc was read is   *)
(* in the answer, and a SIGINT reaches none but a child, unless its number *)
(* was given away.                                                         *)
THEOREM ChildrenAreFound == Spec => []ChildIsFound
<1>1. Init => ProcessScene
  BY ProcessInit DEF Init, ProcessScene
<1>2. ProcessScene /\ [Next]_vars => ProcessScene'
  <2> SUFFICES ASSUME ProcessScene, [Next]_vars, scene' = "processes" PROVE ProcessInv'
    BY DEF ProcessScene
  <2>1. scene = "processes" /\ ProcessInv
    BY DEF Next, vars, ProcessScene
  <2>2. CASE Next
    BY <2>1, <2>2, ProcessNext DEF Next
  <2>3. CASE UNCHANGED vars
    BY <2>1, <2>3, ProcessStutter DEF vars, processVars, driverVars, Processes!vars
  <2> QED
    BY <2>2, <2>3
<1>3. ProcessScene => ChildIsFound
  BY ProcessesImplied DEF ProcessScene, ChildIsFound
<1> QED
  BY <1>1, <1>2, <1>3, PTL DEF Spec

-----------------------------------------------------------------------------
(* The Python driver: sequences, and the lines on their way.               *)
IsSeq(s) == \E S : s \in Seq(S)

LEMMA SeqLen ==
  ASSUME NEW s, IsSeq(s)
  PROVE  /\ Len(s) \in Nat /\ DOMAIN s = 1 .. Len(s)
         /\ s = <<>> <=> Len(s) = 0
<1>1. PICK S : s \in Seq(S)
  BY DEF IsSeq
<1> QED
  BY <1>1

LEMMA Appended ==
  ASSUME NEW s, IsSeq(s), NEW e
  PROVE  /\ IsSeq(Append(s, e)) /\ Len(Append(s, e)) = Len(s) + 1
         /\ Append(s, e)[Len(s) + 1] = e
         /\ \A i \in 1 .. Len(s) : Append(s, e)[i] = s[i]
<1>1. PICK S : s \in Seq(S)
  BY DEF IsSeq
<1> DEFINE T == S \cup {e}
<1>2. s \in Seq(T) /\ e \in T
  BY <1>1
<1> HIDE DEF T
<1> QED
  BY <1>2 DEF IsSeq

LEMMA Joint ==
  ASSUME NEW s, IsSeq(s), NEW t, IsSeq(t)
  PROVE  /\ IsSeq(s \o t) /\ Len(s \o t) = Len(s) + Len(t)
         /\ \A i \in 1 .. Len(s) : (s \o t)[i] = s[i]
         /\ \A i \in 1 .. Len(t) : (s \o t)[Len(s) + i] = t[i]
<1>1. PICK S : s \in Seq(S)
  BY DEF IsSeq
<1>2. PICK T : t \in Seq(T)
  BY DEF IsSeq
<1> DEFINE U == S \cup T
<1>3. s \in Seq(U) /\ t \in Seq(U)
  BY <1>1, <1>2
<1> HIDE DEF U
<1>4. IsSeq(s \o t)
  BY <1>3 DEF IsSeq
<1> QED
  BY <1>3, <1>4

LEMMA Shorter ==
  ASSUME NEW s, IsSeq(s), s # <<>>
  PROVE  /\ IsSeq(Tail(s)) /\ Len(Tail(s)) = Len(s) - 1 /\ Head(s) = s[1]
         /\ Len(s) \in Nat \ {0}
         /\ \A i \in 1 .. Len(s) - 1 : Tail(s)[i] = s[i + 1]
<1>1. PICK S : s \in Seq(S)
  BY DEF IsSeq
<1>2. IsSeq(Tail(s))
  BY <1>1 DEF IsSeq
<1> QED
  BY <1>1, <1>2

LEMMA NoLength == IsSeq(<<>>) /\ Len(<<>>) = 0
<1>1. <<>> \in Seq({})
  OBVIOUS
<1> QED
  BY <1>1 DEF IsSeq

LEMMA SingleLine ==
  ASSUME NEW x
  PROVE  IsSeq(<<x>>) /\ Len(<<x>>) = 1 /\ <<x>>[1] = x
<1>1. <<x>> \in Seq({x})
  OBVIOUS
<1> QED
  BY <1>1 DEF IsSeq

(* Sent are the lines that were answered, those the display has read and   *)
(* those on the wire, in this order.                                       *)
InOrder(s, a, b, w) ==
  /\ IsSeq(s) /\ IsSeq(a) /\ IsSeq(b) /\ IsSeq(w)
  /\ Len(s) = Len(a) + Len(b) + Len(w)
  /\ \A i \in 1 .. Len(a) : a[i].line = s[i]
  /\ \A i \in 1 .. Len(b) : b[i] = s[Len(a) + i]
  /\ \A i \in 1 .. Len(w) : w[i] = s[Len(a) + Len(b) + i]

LEMMA AskedInOrder ==
  ASSUME NEW s, NEW a, NEW b, NEW w, InOrder(s, a, b, w), NEW x, IsSeq(x)
  PROVE  InOrder(s \o x, a, b, w \o x)
<1>1. /\ Len(s) \in Nat /\ Len(a) \in Nat /\ Len(b) \in Nat /\ Len(w) \in Nat /\ Len(x) \in Nat
      /\ Len(s) = Len(a) + Len(b) + Len(w)
  BY SeqLen DEF InOrder
<1>2. /\ IsSeq(s \o x) /\ Len(s \o x) = Len(s) + Len(x)
      /\ \A i \in 1 .. Len(s) : (s \o x)[i] = s[i]
      /\ \A i \in 1 .. Len(x) : (s \o x)[Len(s) + i] = x[i]
  <2>1. IsSeq(s)
    BY DEF InOrder
  <2> QED
    BY <2>1, Joint
<1>3. /\ IsSeq(w \o x) /\ Len(w \o x) = Len(w) + Len(x)
      /\ \A i \in 1 .. Len(w) : (w \o x)[i] = w[i]
      /\ \A i \in 1 .. Len(x) : (w \o x)[Len(w) + i] = x[i]
  BY Joint DEF InOrder
<1>4. \A i \in 1 .. Len(a) : a[i].line = (s \o x)[i]
  BY <1>1, <1>2 DEF InOrder
<1>5. \A i \in 1 .. Len(b) : b[i] = (s \o x)[Len(a) + i]
  BY <1>1, <1>2 DEF InOrder
<1>6. ASSUME NEW i \in 1 .. Len(w \o x)
      PROVE  (w \o x)[i] = (s \o x)[Len(a) + Len(b) + i]
  <2>1. CASE i \in 1 .. Len(w)
    <3>1. Len(a) + Len(b) + i \in 1 .. Len(s)
      BY <1>1, <2>1
    <3>2. w[i] = s[Len(a) + Len(b) + i]
      BY <2>1 DEF InOrder
    <3> QED
      BY <1>2, <1>3, <2>1, <3>1, <3>2
  <2>2. CASE i > Len(w)
    <3> DEFINE j == i - Len(w)
    <3>1. /\ j \in 1 .. Len(x) /\ i = Len(w) + j
          /\ Len(a) + Len(b) + i = Len(s) + j
      BY <1>1, <1>3, <2>2
    <3> HIDE DEF j
    <3>2. (w \o x)[Len(w) + j] = x[j] /\ (s \o x)[Len(s) + j] = x[j]
      BY <1>2, <1>3, <3>1
    <3> QED
      BY <3>1, <3>2
  <2> QED
    BY <1>1, <1>3, <2>1, <2>2
<1> QED
  BY <1>1, <1>2, <1>3, <1>4, <1>5, <1>6, SMTT(30) DEF InOrder

LEMMA ReadInOrder ==
  ASSUME NEW s, NEW a, NEW b, NEW w, InOrder(s, a, b, w)
  PROVE  InOrder(s, a, b \o w, <<>>)
<1>1. /\ Len(s) \in Nat /\ Len(a) \in Nat /\ Len(b) \in Nat /\ Len(w) \in Nat
      /\ Len(s) = Len(a) + Len(b) + Len(w)
  BY SeqLen DEF InOrder
<1>2. /\ IsSeq(b \o w) /\ Len(b \o w) = Len(b) + Len(w)
      /\ \A i \in 1 .. Len(b) : (b \o w)[i] = b[i]
      /\ \A i \in 1 .. Len(w) : (b \o w)[Len(b) + i] = w[i]
  BY Joint DEF InOrder
<1>3. ASSUME NEW i \in 1 .. Len(b \o w) PROVE (b \o w)[i] = s[Len(a) + i]
  <2>1. CASE i \in 1 .. Len(b)
    BY <1>2, <2>1 DEF InOrder
  <2>2. CASE i > Len(b)
    <3> DEFINE j == i - Len(b)
    <3>1. /\ j \in 1 .. Len(w) /\ i = Len(b) + j
          /\ Len(a) + i = Len(a) + Len(b) + j
      BY <1>1, <1>2, <2>2
    <3> HIDE DEF j
    <3>2. (b \o w)[Len(b) + j] = w[j] /\ w[j] = s[Len(a) + Len(b) + j]
      BY <1>2, <3>1 DEF InOrder
    <3> QED
      BY <3>1, <3>2
  <2> QED
    BY <1>1, <1>2, <2>1, <2>2
<1> QED
  BY <1>1, <1>2, <1>3, NoLength DEF InOrder

LEMMA AnsweredInOrder ==
  ASSUME NEW s, NEW a, NEW b, NEW w, InOrder(s, a, b, w), b # <<>>, NEW r, r.line = Head(b)
  PROVE  InOrder(s, Append(a, r), Tail(b), w)
<1>1. /\ Len(s) \in Nat /\ Len(a) \in Nat /\ Len(b) \in Nat \ {0} /\ Len(w) \in Nat
      /\ Len(s) = Len(a) + Len(b) + Len(w)
  BY SeqLen, Shorter DEF InOrder
<1>2. /\ IsSeq(Append(a, r)) /\ Len(Append(a, r)) = Len(a) + 1
      /\ Append(a, r)[Len(a) + 1] = r
      /\ \A i \in 1 .. Len(a) : Append(a, r)[i] = a[i]
  BY Appended DEF InOrder
<1>3. /\ IsSeq(Tail(b)) /\ Len(Tail(b)) = Len(b) - 1 /\ Head(b) = b[1]
      /\ \A i \in 1 .. Len(b) - 1 : Tail(b)[i] = b[i + 1]
  BY Shorter DEF InOrder
<1>4. b[1] = s[Len(a) + 1]
  BY <1>1 DEF InOrder
<1>5. \A i \in 1 .. Len(a) + 1 : Append(a, r)[i].line = s[i]
  <2> TAKE i \in 1 .. Len(a) + 1
  <2>1. CASE i = Len(a) + 1
    BY <1>2, <1>3, <1>4, <2>1
  <2>2. CASE i \in 1 .. Len(a)
    BY <1>2, <2>2 DEF InOrder
  <2> QED
    BY <1>1, <2>1, <2>2
<1>6. \A i \in 1 .. Len(b) - 1 : Tail(b)[i] = s[Len(a) + 1 + i]
  <2> TAKE i \in 1 .. Len(b) - 1
  <2>1. i + 1 \in 1 .. Len(b) /\ Len(a) + (i + 1) = Len(a) + 1 + i
    BY <1>1
  <2>2. b[i + 1] = s[Len(a) + (i + 1)]
    BY <2>1 DEF InOrder
  <2> QED
    BY <1>3, <2>1, <2>2
<1>7. Len(a) + 1 + (Len(b) - 1) = Len(a) + Len(b)
  BY <1>1
<1> QED
  BY <1>1, <1>2, <1>3, <1>5, <1>6, <1>7 DEF InOrder

Spoken == {"REST", "HEAD", "MESG", "TEXT", "TIME", "LIST", "STAT", "ELAP", "QUIT"}

(* What a call is, and the first of its lines.                             *)
CallKinds(c) ==
  /\ IsSeq(c.sends)
  /\ c.wants \in {"ok", "list", "status", "nothing", "exception"}
  /\ c.wants # "exception" =>
       /\ c.sends # <<>> /\ c.sends[1].cmd \in Spoken
       /\ c.wants = "nothing" <=> c.sends[1].cmd = "QUIT"
       /\ c.wants = "status" <=> c.sends[1].cmd = "STAT"
       /\ c.sends[1].cmd = "STAT" => c.sends[1].args = <<>>
       /\ c.sends[1].cmd \in {"HEAD", "TEXT", "REST"} => c.wants = "ok"

OneLine(c, cmd, args, wants) ==
  /\ IsSeq(c.sends) /\ Len(c.sends) = 1 /\ c.wants = wants
  /\ c.sends[1].cmd = cmd /\ c.sends[1].args = args

LEMMA CallOfText ==
  ASSUME NEW cmd, NEW lines, IsSeq(lines), lines # <<>>, NEW wants
  PROVE  LET c == Driver!Call(cmd, lines, wants) IN
         /\ IsSeq(c.sends) /\ Len(c.sends) = Len(lines) /\ c.wants = wants
         /\ c.sends[1].cmd = cmd /\ c.sends[1].args = lines[1]
<1> DEFINE c == Driver!Call(cmd, lines, wants)
           first == [cmd |-> cmd, args |-> Head(lines)]
           others == [k \in DOMAIN Tail(lines) |-> Driver!LineOf(Tail(lines)[k])]
<1>1. /\ IsSeq(Tail(lines)) /\ Len(Tail(lines)) = Len(lines) - 1 /\ Head(lines) = lines[1]
      /\ Len(lines) \in Nat \ {0}
  BY Shorter
<1>2. DOMAIN Tail(lines) = 1 .. Len(lines) - 1
  BY <1>1, SeqLen
<1>3. IsSeq(others) /\ Len(others) = Len(lines) - 1
  <2> DEFINE S == {Driver!LineOf(Tail(lines)[k]) : k \in DOMAIN Tail(lines)}
             n == Len(lines) - 1
  <2>1. others \in [1 .. n -> S] /\ n \in Nat
    BY <1>1, <1>2
  <2> HIDE DEF others, S, n
  <2>2. others \in Seq(S) /\ Len(others) = n
    BY <2>1
  <2> QED
    BY <2>2 DEF IsSeq, n
<1> HIDE DEF others
<1>4. /\ IsSeq(<<first>>) /\ Len(<<first>>) = 1 /\ <<first>>[1] = first
  BY SingleLine
<1>5. /\ IsSeq(<<first>> \o others) /\ Len(<<first>> \o others) = 1 + (Len(lines) - 1)
      /\ (<<first>> \o others)[1] = first
  BY <1>3, <1>4, Joint
<1>6. c.sends = <<first>> \o others /\ c.wants = wants
  BY DEF Driver!Call, Driver!LinesFor, others
<1>7. first.cmd = cmd /\ first.args = lines[1]
  BY <1>1
<1> HIDE DEF c, first
<1>8. 1 + (Len(lines) - 1) = Len(lines)
  BY <1>1
<1> QED
  BY <1>5, <1>6, <1>7, <1>8 DEF c

LEMMA CallOfLine ==
  ASSUME NEW cmd, NEW args, NEW wants
  PROVE  OneLine(Driver!Call(cmd, <<args>>, wants), cmd, args, wants)
<1> DEFINE lines == <<args>>
<1>1. IsSeq(lines) /\ Len(lines) = 1 /\ lines[1] = args /\ lines # <<>>
  BY SingleLine
<1> HIDE DEF lines
<1>2. LET c == Driver!Call(cmd, lines, wants) IN
         /\ IsSeq(c.sends) /\ Len(c.sends) = Len(lines) /\ c.wants = wants
         /\ c.sends[1].cmd = cmd /\ c.sends[1].args = lines[1]
  BY <1>1, CallOfText
<1> QED
  BY <1>1, <1>2 DEF OneLine, lines

LEMMA OneLineIsKind ==
  ASSUME NEW c, NEW cmd \in Spoken, NEW args, NEW wants \in {"ok", "list", "status", "nothing"},
         OneLine(c, cmd, args, wants),
         wants = "nothing" <=> cmd = "QUIT",
         wants = "status" <=> cmd = "STAT",
         cmd = "STAT" => args = <<>>,
         cmd \in {"HEAD", "TEXT", "REST"} => wants = "ok"
  PROVE  CallKinds(c)
<1>1. IsSeq(c.sends) /\ c.sends # <<>>
  BY SeqLen DEF OneLine
<1> QED
  BY <1>1 DEF OneLine, CallKinds

(* The calls of the three programs.                                        *)
LEMMA Methods ==
  /\ OneLine(Driver!reset, "REST", <<>>, "ok")
  /\ OneLine(Driver!get_script_list, "LIST", <<"SCRIPT">>, "list")
  /\ OneLine(Driver!get_style_list, "LIST", <<"STYLE">>, "list")
  /\ OneLine(Driver!get_status, "STAT", <<>>, "status")
  /\ OneLine(Driver!close, "QUIT", <<>>, "nothing")
  /\ \A t : OneLine(Driver!set_heading(Driver!PlainText(t)), "HEAD", <<t>>, "ok")
  /\ \A t : OneLine(Driver!set_message(Driver!PlainText(t)), "MESG", <<t>>, "ok")
  /\ \A b : OneLine(Driver!set_time(b), "TIME", <<Driver!Flag(b)>>, "ok")
  /\ \A t \in Driver!Timers :
       /\ OneLine(Driver!start_elapsed(t), "ELAP", <<t, "START">>, "ok")
       /\ OneLine(Driver!stop_elapsed(t), "ELAP", <<t, "STOP">>, "ok")
       /\ \A s \in {"0", "1"} : OneLine(Driver!set_elapsed(t, s), "ELAP", <<t, s>>, "ok")
<1>1. /\ OneLine(Driver!reset, "REST", <<>>, "ok")
      /\ OneLine(Driver!get_script_list, "LIST", <<"SCRIPT">>, "list")
      /\ OneLine(Driver!get_style_list, "LIST", <<"STYLE">>, "list")
      /\ OneLine(Driver!get_status, "STAT", <<>>, "status")
      /\ OneLine(Driver!close, "QUIT", <<>>, "nothing")
  BY CallOfLine, Zenon DEF Driver!reset, Driver!get_script_list, Driver!get_style_list,
     Driver!get_status,
     Driver!close, Driver!PlainText
<1>2. /\ \A t : OneLine(Driver!set_heading(Driver!PlainText(t)), "HEAD", <<t>>, "ok")
      /\ \A t : OneLine(Driver!set_message(Driver!PlainText(t)), "MESG", <<t>>, "ok")
      /\ \A b : OneLine(Driver!set_time(b), "TIME", <<Driver!Flag(b)>>, "ok")
  BY CallOfLine, Zenon DEF Driver!set_heading, Driver!set_message, Driver!set_time,
     Driver!PlainText
<1>3. ASSUME NEW t \in Driver!Timers, NEW word
      PROVE  OneLine(Driver!Elapsed(t, word), "ELAP", <<t, word>>, "ok")
  BY CallOfLine, Zenon DEF Driver!Elapsed
<1>4. \A t \in Driver!Timers :
        /\ OneLine(Driver!start_elapsed(t), "ELAP", <<t, "START">>, "ok")
        /\ OneLine(Driver!stop_elapsed(t), "ELAP", <<t, "STOP">>, "ok")
  BY <1>3, Zenon DEF Driver!start_elapsed, Driver!stop_elapsed
<1>5. \A t \in Driver!Timers : \A s \in {"0", "1"} :
        OneLine(Driver!set_elapsed(t, s), "ELAP", <<t, s>>, "ok")
  BY <1>3, Zenon DEF Driver!set_elapsed
<1> QED
  BY <1>1, <1>2, <1>4, <1>5

LEMMA PlainTextIsShort ==
  ASSUME NEW h, NEW m
  PROVE  \E args : OneLine(Driver!set_text(Driver!PlainText(h), Driver!PlainText(m)), "TEXT", args, "ok")
<1> DEFINE args == <<h>> \o <<m>>
<1>1. Driver!Joined(Driver!PlainText(h), Driver!PlainText(m)) = <<args>>
  <2> DEFINE a == <<h>>
             b == <<m>>
  <2> HIDE DEF a, b
  <2>1. Driver!Front(<<a>>) = <<>> /\ Driver!Last(<<a>>) = a
    BY DEF Driver!Front, Driver!Last
  <2>2. Tail(<<b>>) = <<>> /\ Head(<<b>>) = b
    OBVIOUS
  <2>3. \A y : (<<>> \o <<y>>) \o <<>> = <<y>>
    OBVIOUS
  <2>4. Driver!Joined(<<a>>, <<b>>) = <<a \o b>>
    BY <2>1, <2>2, <2>3, Zenon DEF Driver!Joined
  <2> QED
    BY <2>4, Zenon DEF Driver!PlainText, a, b, args
<1> HIDE DEF args
<1> QED
  BY <1>1, CallOfLine, Zenon DEF Driver!set_text

AllKinds(todo) == IsSeq(todo) /\ \A k \in 1 .. Len(todo) : CallKinds(todo[k])
Single(todo) == \A k \in 1 .. Len(todo) : Len(todo[k].sends) = 1

LEMMA KindsOf ==
  ASSUME NEW S, NEW todo \in Seq(S), \A c \in S : CallKinds(c)
  PROVE  AllKinds(todo)
  BY DEF AllKinds, IsSeq

LEMMA SingleOf ==
  ASSUME NEW S, NEW todo \in Seq(S), \A c \in S : Len(c.sends) = 1
  PROVE  Single(todo)
  BY DEF Single

LEMMA KindsJoint ==
  ASSUME NEW s, NEW t, AllKinds(s), AllKinds(t)
  PROVE  AllKinds(s \o t)
<1>1. /\ IsSeq(s \o t) /\ Len(s \o t) = Len(s) + Len(t)
      /\ \A i \in 1 .. Len(s) : (s \o t)[i] = s[i]
      /\ \A i \in 1 .. Len(t) : (s \o t)[Len(s) + i] = t[i]
  BY Joint DEF AllKinds
<1>2. Len(s) \in Nat /\ Len(t) \in Nat
  BY SeqLen DEF AllKinds
<1> DEFINE u == s \o t
<1> HIDE DEF u
<1>3. ASSUME NEW k \in 1 .. Len(u) PROVE CallKinds(u[k])
  <2>1. CASE k \in 1 .. Len(s)
    BY <1>1, <2>1 DEF AllKinds, u
  <2>2. CASE k > Len(s)
    <3>1. PICK j \in 1 .. Len(t) : k = Len(s) + j
      <4>1. k - Len(s) \in 1 .. Len(t) /\ k = Len(s) + (k - Len(s))
        BY <1>1, <1>2, <2>2 DEF u
      <4> QED
        BY <4>1
    <3>2. u[k] = t[j]
      BY <1>1, <3>1 DEF u
    <3> QED
      BY <3>2 DEF AllKinds
  <2> QED
    BY <1>1, <1>2, <2>1, <2>2 DEF u
<1> QED
  BY <1>1, <1>3 DEF AllKinds, u

LEMMA KindsLeft ==
  ASSUME NEW todo, AllKinds(todo), todo # <<>>
  PROVE  /\ AllKinds(Tail(todo)) /\ CallKinds(Head(todo))
         /\ Single(todo) => Single(Tail(todo)) /\ Len(Head(todo).sends) = 1
<1>1. /\ IsSeq(Tail(todo)) /\ Len(Tail(todo)) = Len(todo) - 1 /\ Head(todo) = todo[1]
      /\ Len(todo) \in Nat \ {0}
      /\ \A i \in 1 .. Len(todo) - 1 : Tail(todo)[i] = todo[i + 1]
  BY Shorter DEF AllKinds
<1>2. 1 \in 1 .. Len(todo) /\ \A i \in 1 .. Len(todo) - 1 : i + 1 \in 1 .. Len(todo)
  BY <1>1
<1> QED
  BY <1>1, <1>2 DEF AllKinds, Single

LEMMA NoCalls == AllKinds(<<>>) /\ Single(<<>>)
  BY NoLength DEF AllKinds, Single

(* The call that comes next.                                               *)
LEMMA FirstCall ==
  ASSUME NEW s, NEW t, AllKinds(s), AllKinds(t), s \o t # <<>>
  PROVE  /\ s # <<>> => Head(s \o t) = Head(s)
         /\ s = <<>> => Head(s \o t) = Head(t) /\ t # <<>>
<1>1. /\ IsSeq(s \o t) /\ Len(s \o t) = Len(s) + Len(t)
      /\ \A i \in 1 .. Len(s) : (s \o t)[i] = s[i]
      /\ \A i \in 1 .. Len(t) : (s \o t)[Len(s) + i] = t[i]
  BY Joint DEF AllKinds
<1>2. /\ Len(s) \in Nat /\ Len(t) \in Nat /\ (s = <<>> <=> Len(s) = 0) /\ (t = <<>> <=> Len(t) = 0)
  BY SeqLen DEF AllKinds
<1>3. Head(s \o t) = (s \o t)[1]
  BY <1>1, Shorter
<1>4. CASE s # <<>>
  <2>1. 1 \in 1 .. Len(s) /\ Head(s) = s[1]
    BY <1>2, <1>4, Shorter DEF AllKinds
  <2> QED
    BY <1>1, <1>3, <1>4, <2>1
<1>5. CASE s = <<>>
  <2> DEFINE u == s \o t
  <2>1. u = t
    <3>1. PICK T : t \in Seq(T)
      BY DEF AllKinds, IsSeq
    <3> QED
      BY <1>5, <3>1
  <2> HIDE DEF u
  <2> QED
    BY <1>5, <2>1 DEF u
<1> QED
  BY <1>4, <1>5

-----------------------------------------------------------------------------
(* The programs.                                                           *)
LEMMA KindsOfMethods ==
  /\ CallKinds(Driver!reset) /\ CallKinds(Driver!get_script_list)
  /\ CallKinds(Driver!get_style_list) /\ CallKinds(Driver!get_status)
  /\ CallKinds(Driver!close)
  /\ \A t : CallKinds(Driver!set_heading(Driver!PlainText(t)))
  /\ \A t : CallKinds(Driver!set_message(Driver!PlainText(t)))
  /\ \A b : CallKinds(Driver!set_time(b))
  /\ \A t \in Driver!Timers :
       CallKinds(Driver!start_elapsed(t)) /\ CallKinds(Driver!stop_elapsed(t))
  /\ \A t \in Driver!Timers : \A s \in {"0", "1"} : CallKinds(Driver!set_elapsed(t, s))
  /\ \A h, m : CallKinds(Driver!set_text(Driver!PlainText(h), Driver!PlainText(m)))
<1>1. \A c, args :
        /\ OneLine(c, "REST", args, "ok") => CallKinds(c)
        /\ OneLine(c, "LIST", args, "list") => CallKinds(c)
        /\ OneLine(c, "STAT", <<>>, "status") => CallKinds(c)
        /\ OneLine(c, "QUIT", args, "nothing") => CallKinds(c)
        /\ OneLine(c, "HEAD", args, "ok") => CallKinds(c)
        /\ OneLine(c, "MESG", args, "ok") => CallKinds(c)
        /\ OneLine(c, "TIME", args, "ok") => CallKinds(c)
        /\ OneLine(c, "ELAP", args, "ok") => CallKinds(c)
        /\ OneLine(c, "TEXT", args, "ok") => CallKinds(c)
  BY OneLineIsKind DEF Spoken
<1> QED
  BY <1>1, Methods, PlainTextIsShort, Zenon

LEMMA DemonstrationKinds ==
  /\ AllKinds(Driver!Demonstration.attempt) /\ Single(Driver!Demonstration.attempt)
  /\ AllKinds(Driver!Demonstration.cleanup)
<1> DEFINE t0 == Driver!set_text(Driver!PlainText("a"), Driver!PlainText("b"))
           e1 == Driver!set_elapsed("0", "1")
           e2 == Driver!set_elapsed("1", "1")
           s1 == Driver!start_elapsed("1")
           s0 == Driver!start_elapsed("0")
           m0 == Driver!set_message(Driver!PlainText("c"))
           z0 == Driver!stop_elapsed("0")
           h0 == Driver!set_elapsed("0", "0")
           z1 == Driver!stop_elapsed("1")
           h1 == Driver!set_elapsed("1", "0")
           r0 == Driver!reset
           c0 == Driver!close
           showing == <<t0, e1, e2, s1, s0, m0>>
           four == <<z0, h0, z1, h1>>
           first == <<r0>>
           last == <<c0>>
           S == {t0, e1, e2, s1, s0, m0}
           T == {z0, h0, z1, h1, r0, c0}
<1>1. "0" \in Driver!Timers /\ "1" \in Driver!Timers
  BY DEF Driver!Timers
<1>2. /\ CallKinds(t0) /\ CallKinds(e1) /\ CallKinds(e2) /\ CallKinds(s1) /\ CallKinds(s0)
      /\ CallKinds(m0) /\ CallKinds(z0) /\ CallKinds(h0) /\ CallKinds(z1) /\ CallKinds(h1)
      /\ CallKinds(r0) /\ CallKinds(c0)
  BY <1>1, KindsOfMethods, Zenon
<1>3. /\ Len(t0.sends) = 1 /\ Len(e1.sends) = 1 /\ Len(e2.sends) = 1 /\ Len(s1.sends) = 1
      /\ Len(s0.sends) = 1 /\ Len(m0.sends) = 1
  <2>1. PICK args : OneLine(t0, "TEXT", args, "ok")
    BY PlainTextIsShort
  <2>2. /\ OneLine(e1, "ELAP", <<"0", "1">>, "ok") /\ OneLine(e2, "ELAP", <<"1", "1">>, "ok")
        /\ OneLine(s1, "ELAP", <<"1", "START">>, "ok") /\ OneLine(s0, "ELAP", <<"0", "START">>, "ok")
        /\ OneLine(m0, "MESG", <<"c">>, "ok")
    BY <1>1, Methods
  <2> QED
    BY <2>1, <2>2, Zenon DEF OneLine
<1>4. /\ Driver!Demonstration.attempt = showing
      /\ Driver!Demonstration.cleanup = first \o four \o last
  BY DEF Driver!Demonstration, Driver!elapsed_reset
<1> HIDE DEF t0, e1, e2, s1, s0, m0, z0, h0, z1, h1, r0, c0
<1>5. showing \in Seq(S) /\ four \in Seq(T) /\ first \in Seq(T) /\ last \in Seq(T)
  OBVIOUS
<1> HIDE DEF showing, four, first, last
<1>6. AllKinds(showing) /\ Single(showing) /\ AllKinds(four) /\ AllKinds(first) /\ AllKinds(last)
  <2>1. /\ \A c \in S : CallKinds(c) /\ Len(c.sends) = 1
        /\ \A c \in T : CallKinds(c)
    BY <1>2, <1>3
  <2> HIDE DEF S, T
  <2> QED
    BY <1>5, <2>1, KindsOf, SingleOf, Zenon
<1>7. AllKinds(first \o four \o last)
  BY <1>6, KindsJoint, Zenon
<1> QED
  BY <1>4, <1>6, <1>7, Zenon

LEMMA UnitTestsKinds == Driver!UnitTests.attempt = <<>> /\ AllKinds(Driver!UnitTests.cleanup)
<1> DEFINE r0 == Driver!reset
           l0 == Driver!get_script_list
           l1 == Driver!get_style_list
           h0 == Driver!set_heading(Driver!PlainText("a"))
           g0 == Driver!get_status
           m0 == Driver!set_message(Driver!PlainText("b"))
           t0 == Driver!set_text(Driver!PlainText("c"), Driver!PlainText("c"))
           n0 == Driver!set_time(FALSE)
           y0 == Driver!set_time(TRUE)
           c0 == Driver!close
           S == {r0, l0, l1, h0, g0, m0, t0, n0, y0, c0}
           all == <<r0, l0, l1, h0, g0, m0, g0, t0, g0, g0, n0, g0, y0, g0, r0, c0>>
<1>1. Driver!UnitTests.attempt = <<>> /\ Driver!UnitTests.cleanup = all
  BY DEF Driver!UnitTests
<1>2. /\ CallKinds(r0) /\ CallKinds(l0) /\ CallKinds(l1) /\ CallKinds(h0) /\ CallKinds(g0)
      /\ CallKinds(m0) /\ CallKinds(t0) /\ CallKinds(n0) /\ CallKinds(y0) /\ CallKinds(c0)
  BY KindsOfMethods, Zenon
<1> HIDE DEF r0, l0, l1, h0, g0, m0, t0, n0, y0, c0
<1>3. all \in Seq(S)
  OBVIOUS
<1>4. \A c \in S : CallKinds(c)
  BY <1>2
<1> HIDE DEF all, S
<1> QED
  BY <1>1, <1>3, <1>4, KindsOf, Zenon

LEMMA OtherKinds ==
  ASSUME NEW t \in Texts
  PROVE  Driver!Other(t).attempt = <<>> /\ AllKinds(Driver!Other(t).cleanup)
<1> DEFINE h0 == Driver!set_heading(t)
           g0 == Driver!get_status
           e0 == Driver!set_elapsed("2", "1")
           c0 == Driver!close
           S == {h0, g0, e0, c0}
           all == <<h0, g0, e0, c0>>
<1>1. Driver!Other(t).attempt = <<>> /\ Driver!Other(t).cleanup = all
  BY DEF Driver!Other
<1>2. CallKinds(h0)
  <2>1. IsSeq(t) /\ t # <<>>
    BY TextsAssumption DEF IsSeq
  <2>2. /\ IsSeq(h0.sends) /\ Len(h0.sends) = Len(t) /\ h0.wants = "ok"
        /\ h0.sends[1].cmd = "HEAD" /\ h0.sends[1].args = t[1]
    BY <2>1, CallOfText DEF Driver!set_heading
  <2> HIDE DEF h0
  <2>3. h0.sends # <<>>
    BY <2>1, <2>2, SeqLen
  <2> QED
    BY <2>2, <2>3 DEF CallKinds, Spoken
<1>3. CallKinds(e0)
  <2>1. e0 = Driver!InvalidArgument
    BY DEF Driver!set_elapsed, Driver!Elapsed, Driver!Timers
  <2>2. Driver!InvalidArgument.sends = <<>> /\ Driver!InvalidArgument.wants = "exception"
    BY DEF Driver!InvalidArgument
  <2> QED
    BY <2>1, <2>2, NoLength, Zenon DEF CallKinds
<1>4. CallKinds(g0) /\ CallKinds(c0)
  BY KindsOfMethods, Zenon
<1> HIDE DEF h0, g0, e0, c0
<1>5. all \in Seq(S)
  OBVIOUS
<1>6. \A c \in S : CallKinds(c)
  BY <1>2, <1>3, <1>4
<1> HIDE DEF all, S
<1> QED
  BY <1>1, <1>5, <1>6, KindsOf, Zenon

LEMMA ProgramKinds ==
  ASSUME NEW p \in Driver!Programs
  PROVE  AllKinds(p.attempt) /\ Single(p.attempt) /\ AllKinds(p.cleanup)
  BY DemonstrationKinds, UnitTestsKinds, OtherKinds, NoCalls, Zenon DEF Driver!Programs

AtFirst == Driver!DefaultDisplay(TRUE).heading
SetsHeading == {"HEAD", "TEXT", "REST"}
Heading(line) == IF line.cmd = "REST" THEN AtFirst ELSE line.args[1]

(* What a line that is answered means for the heading, and what a status   *)
(* says of it.                                                             *)
Effect(line, reply, before, after) ==
  /\ after = IF reply = Driver!OK /\ line.cmd \in SetsHeading THEN Heading(line) ELSE before
  /\ line.cmd = "STAT" /\ reply[1] = "STAT" => reply[2] = before

Fields == {"heading", "message", "time", "style", "sched", "show", "timing"}

LEMMA FailIsNotOK == Driver!FAIL # Driver!OK /\ Driver!FAIL[1] # "STAT"
  BY DEF Driver!FAIL, Driver!OK

LEMMA RefusedEffect ==
  ASSUME NEW line, NEW h
  PROVE  Effect(line, Driver!FAIL, h, h)
  BY FailIsNotOK, Zenon DEF Effect

LEMMA SetKeeps ==
  ASSUME DOMAIN display = Fields, NEW field \in Fields, NEW value, NEW reply,
         Driver!Set(field, value, reply)
  PROVE  /\ reply = Driver!OK /\ DOMAIN display' = Fields
         /\ display'.heading = IF field = "heading" THEN value ELSE display.heading
<1>1. display' = [display EXCEPT ![field] = value] /\ reply = Driver!OK
  BY DEF Driver!Set
<1>2. "heading" \in Fields
  BY DEF Fields
<1> QED
  BY <1>1, <1>2

LEMMA HandleEffect ==
  ASSUME DOMAIN display = Fields, NEW line, NEW reply, Driver!Handle(line, reply)
  PROVE  DOMAIN display' = Fields /\ Effect(line, reply, display.heading, display'.heading)
<1> DEFINE a == line.args
           Goal == /\ DOMAIN display' = Fields
                   /\ Effect(line, reply, display.heading, display'.heading)
<1>1. ASSUME line.cmd \notin SetsHeading \cup {"STAT"}, DOMAIN display' = Fields,
             display'.heading = display.heading
      PROVE  Goal
  BY <1>1 DEF Effect
<1>2. ASSUME UNCHANGED display PROVE DOMAIN display' = Fields /\ display'.heading = display.heading
  BY <1>2
<1>3. ASSUME NEW field \in Fields \ {"heading"}, NEW value, Driver!Set(field, value, reply)
      PROVE  DOMAIN display' = Fields /\ display'.heading = display.heading
  BY <1>3, SetKeeps
<1>4. ASSUME line.cmd = "HEAD", Driver!CmdHead(a, reply) PROVE Goal
  <2>1. Driver!Set("heading", a[1], reply)
    BY <1>4 DEF Driver!CmdHead
  <2>2. /\ reply = Driver!OK /\ DOMAIN display' = Fields /\ display'.heading = a[1]
    BY <2>1, SetKeeps DEF Fields
  <2> QED
    BY <1>4, <2>2 DEF Effect, Heading, SetsHeading
<1>5. ASSUME line.cmd = "TEXT", Driver!CmdText(a, reply) PROVE Goal
  <2>1. display' = [display EXCEPT !.heading = a[1], !.message = a[2]] /\ reply = Driver!OK
    BY <1>5 DEF Driver!CmdText
  <2>2. DOMAIN display' = Fields /\ display'.heading = a[1]
    BY <2>1 DEF Fields
  <2> QED
    BY <1>5, <2>1, <2>2 DEF Effect, Heading, SetsHeading
<1>6. ASSUME line.cmd = "REST", Driver!CmdRest(reply) PROVE Goal
  <2>1. DOMAIN display' = Fields /\ display'.heading = AtFirst /\ reply = Driver!OK
    BY <1>6 DEF Driver!CmdRest, Fields, AtFirst
  <2> QED
    BY <1>6, <2>1 DEF Effect, Heading, SetsHeading
<1>7. ASSUME line.cmd = "STAT", Driver!Unchanged(reply, Driver!get_status_string) PROVE Goal
  <2>1. reply = Driver!get_status_string /\ display' = display
    BY <1>7 DEF Driver!Unchanged
  <2>2. reply[2] = display.heading
    BY <2>1 DEF Driver!get_status_string
  <2> QED
    BY <1>7, <2>1, <2>2 DEF Effect, SetsHeading
<1>8. ASSUME line.cmd = "MESG", Driver!CmdMesg(a, reply) PROVE Goal
  BY <1>1, <1>3, <1>8 DEF Driver!CmdMesg, Fields, SetsHeading
<1>9. ASSUME line.cmd = "TIME", Driver!CmdTime(a, reply) PROVE Goal
  BY <1>1, <1>3, <1>9 DEF Driver!CmdTime, Fields, SetsHeading
<1>10. ASSUME line.cmd = "STYL", Driver!CmdStyl(a, reply) PROVE Goal
  BY <1>1, <1>2, <1>3, <1>10 DEF Driver!CmdStyl, Fields, SetsHeading
<1>11. ASSUME line.cmd = "SCHED", Driver!CmdSched(a, reply) PROVE Goal
  BY <1>1, <1>2, <1>3, <1>11 DEF Driver!CmdSched, Fields, SetsHeading
<1>12. ASSUME line.cmd = "ELAP", Driver!CmdElap(a, reply) PROVE Goal
  BY <1>1, <1>2, <1>3, <1>12 DEF Driver!CmdElap, Fields, SetsHeading
<1>13. ASSUME line.cmd = "RUNK", Driver!CmdRunk(a, reply) PROVE Goal
  BY <1>1, <1>2, <1>13 DEF Driver!CmdRunk, Driver!StartBgProcess, Driver!Unchanged, Fields,
     SetsHeading
<1>14. ASSUME line.cmd = "STOP", Driver!CmdStop(reply) PROVE Goal
  BY <1>1, <1>2, <1>14 DEF Driver!CmdStop, Driver!Unchanged, Fields, SetsHeading
<1>15. ASSUME line.cmd \in {"LIST", "VERS"}, UNCHANGED display PROVE Goal
  BY <1>1, <1>2, <1>15 DEF SetsHeading
<1> HIDE DEF Goal
<1> QED
  BY <1>4, <1>5, <1>6, <1>7, <1>8, <1>9, <1>10, <1>11, <1>12, <1>13, <1>14, <1>15, Zenon
     DEF Driver!Handle, Goal, Driver!Unchanged

DisplayShape(d) == DOMAIN d = Fields /\ DOMAIN d.timing = Driver!Timers /\ DOMAIN d.show = Driver!Timers

(* What a program may have left of the display as it was at first, which   *)
(* lines see to that and which undo it.                                    *)
Aspects == {"heading", "timing", "show"}
AsAtFirst(d, f, t) == IF f = "heading" THEN d.heading = AtFirst ELSE ~d[f][t]
Settles(line, f, t) ==
  \/ f = "heading" /\ line.cmd = "REST" /\ line.args = <<>>
  \/ f = "timing" /\ line.cmd = "ELAP" /\ line.args = <<t, "STOP">>
  \/ f = "show" /\ line.cmd = "ELAP" /\ line.args = <<t, "0">>
Disturbs(line, f) ==
  IF f = "heading" THEN line.cmd \in {"HEAD", "TEXT"}
  ELSE line.cmd = "ELAP" /\ line.args[2] \in {"START", "1", "ON"}

Settling(line, d, e) ==
  \A f \in Aspects : \A t \in Driver!Timers :
    /\ Settles(line, f, t) => AsAtFirst(e, f, t)
    /\ ~Disturbs(line, f) /\ AsAtFirst(d, f, t) => AsAtFirst(e, f, t)

LEMMA SettlesIsKnown ==
  ASSUME NEW line, NEW f, NEW t, Settles(line, f, t)
  PROVE  Driver!Known(line)
<1>1. /\ "REST" \in DOMAIN Driver!Options /\ Driver!Options["REST"] = 0
      /\ "ELAP" \in DOMAIN Driver!Options /\ Driver!Options["ELAP"] = 2
  BY DEF Driver!Options
<1>2. \/ line.cmd = "REST" /\ Len(line.args) = 0
      \/ line.cmd = "ELAP" /\ Len(line.args) = 2
  <2>1. Len(<<>>) = 0 /\ Len(<<t, "STOP">>) = 2 /\ Len(<<t, "0">>) = 2
    OBVIOUS
  <2> QED
    BY <2>1, Zenon DEF Settles
<1> DEFINE n == Len(line.args)
<1>3. n \in Nat /\ line.cmd \in DOMAIN Driver!Options /\ Driver!Options[line.cmd] = n
  <2>1. CASE line.cmd = "REST" /\ n = 0
    BY <1>1, <2>1
  <2>2. CASE line.cmd = "ELAP" /\ n = 2
    BY <1>1, <2>2
  <2> QED
    BY <1>2, <2>1, <2>2
<1>4. Driver!Options[line.cmd] >= n /\ Driver!Options[line.cmd] <= n
  <2> HIDE DEF n
  <2> QED
    BY <1>3
<1> QED
  BY <1>3, <1>4, Zenon DEF Driver!Known

LEMMA OtherFieldSettles ==
  ASSUME DisplayShape(display), NEW field \in Fields \ Aspects, NEW value,
         display' = [display EXCEPT ![field] = value]
  PROVE  /\ DisplayShape(display')
         /\ \A f \in Aspects : \A t \in Driver!Timers :
              AsAtFirst(display, f, t) => AsAtFirst(display', f, t)
<1>1. \A f \in Aspects : display'[f] = display[f]
  BY DEF DisplayShape, Aspects, Fields
<1>2. DOMAIN display' = Fields
  BY DEF DisplayShape
<1>3. display'["heading"] = display["heading"] /\ display'["timing"] = display["timing"] /\ display'["show"] = display["show"]
  BY <1>1 DEF Aspects
<1> QED
  BY <1>1, <1>2, <1>3 DEF AsAtFirst, DisplayShape

LEMMA ElapSettles ==
  ASSUME DisplayShape(display), NEW line, line.cmd = "ELAP", NEW reply,
         Driver!CmdElap(line.args, reply)
  PROVE  DisplayShape(display') /\ Settling(line, display, display')
<1> DEFINE a == line.args
           on == a[2] \in {"1", "ON"}
<1>0. ASSUME NEW t, a = <<t, "STOP">> \/ a = <<t, "0">>
      PROVE  a[1] = t /\ (a = <<t, "STOP">> => a[2] = "STOP") /\ (a = <<t, "0">> => a[2] = "0")
  BY <1>0
<1>1. CASE a[1] \in Driver!Timers /\ a[2] \in {"START", "STOP"}
  <2>1. display' = [display EXCEPT !["timing"] = [display.timing EXCEPT ![a[1]] = (a[2] = "START")]]
    BY <1>1 DEF Driver!CmdElap, Driver!Set
  <2>2. /\ DOMAIN display' = Fields /\ display'.show = display.show /\ display'.heading = display.heading
        /\ display'.timing = [display.timing EXCEPT ![a[1]] = (a[2] = "START")]
    BY <2>1 DEF DisplayShape, Fields
  <2>3. /\ DOMAIN display'.timing = Driver!Timers /\ display'.timing[a[1]] = (a[2] = "START")
        /\ \A t \in Driver!Timers : t # a[1] => display'.timing[t] = display.timing[t]
    BY <1>1, <2>2 DEF DisplayShape
  <2>4. ASSUME NEW f \in Aspects, NEW t \in Driver!Timers
        PROVE  /\ Settles(line, f, t) => AsAtFirst(display', f, t)
               /\ ~Disturbs(line, f) /\ AsAtFirst(display, f, t) => AsAtFirst(display', f, t)
    <3>1. CASE f = "timing"
      BY <1>0, <1>1, <2>3, <3>1 DEF Settles, Disturbs, AsAtFirst
    <3>2. CASE f = "show"
      BY <1>0, <1>1, <2>2, <3>2 DEF Settles, AsAtFirst
    <3>3. CASE f = "heading"
      BY <2>2, <3>3 DEF Settles, AsAtFirst
    <3> QED
      BY <3>1, <3>2, <3>3 DEF Aspects
  <2> QED
    BY <2>2, <2>3, <2>4 DEF DisplayShape, Settling
<1>2. CASE /\ ~(a[1] \in Driver!Timers /\ a[2] \in {"START", "STOP"})
           /\ a[1] \in Driver!Timers /\ a[2] \in {"1", "ON", "0", "OFF"} /\ display.show[a[1]] # on
  <2>1. display' = [display EXCEPT !["show"] = [display.show EXCEPT ![a[1]] = on]]
    BY <1>2 DEF Driver!CmdElap, Driver!Set
  <2>2. /\ DOMAIN display' = Fields /\ display'.timing = display.timing /\ display'.heading = display.heading
        /\ display'.show = [display.show EXCEPT ![a[1]] = on]
    BY <2>1 DEF DisplayShape, Fields
  <2>3. /\ DOMAIN display'.show = Driver!Timers /\ display'.show[a[1]] = on
        /\ \A t \in Driver!Timers : t # a[1] => display'.show[t] = display.show[t]
    BY <1>2, <2>2 DEF DisplayShape
  <2>4. ASSUME NEW f \in Aspects, NEW t \in Driver!Timers
        PROVE  /\ Settles(line, f, t) => AsAtFirst(display', f, t)
               /\ ~Disturbs(line, f) /\ AsAtFirst(display, f, t) => AsAtFirst(display', f, t)
    <3>1. CASE f = "timing"
      BY <1>0, <1>2, <2>2, <3>1 DEF Settles, AsAtFirst
    <3>2. CASE f = "show"
      BY <1>0, <1>2, <2>3, <3>2 DEF Settles, Disturbs, AsAtFirst
    <3>3. CASE f = "heading"
      BY <2>2, <3>3 DEF Settles, AsAtFirst
    <3> QED
      BY <3>1, <3>2, <3>3 DEF Aspects
  <2> QED
    BY <2>2, <2>3, <2>4 DEF DisplayShape, Settling
<1>3. CASE /\ ~(a[1] \in Driver!Timers /\ a[2] \in {"START", "STOP"})
           /\ ~(/\ a[1] \in Driver!Timers /\ a[2] \in {"1", "ON", "0", "OFF"}
                /\ display.show[a[1]] # on)
  <2>1. display' = display
    BY <1>3 DEF Driver!CmdElap
  <2>2. ASSUME NEW f \in Aspects, NEW t \in Driver!Timers, Settles(line, f, t)
        PROVE  AsAtFirst(display, f, t)
    BY <1>0, <1>3, <2>2 DEF Settles, AsAtFirst
  <2> QED
    BY <2>1, <2>2 DEF Settling
<1> QED
  BY <1>1, <1>2, <1>3

LEMMA HandleSettles ==
  ASSUME DisplayShape(display), NEW line, NEW reply, Driver!Handle(line, reply)
  PROVE  DisplayShape(display') /\ Settling(line, display, display')
<1> DEFINE a == line.args
           Goal == DisplayShape(display') /\ Settling(line, display, display')
           Kept == /\ DisplayShape(display')
                   /\ \A f \in Aspects : \A t \in Driver!Timers :
                        AsAtFirst(display, f, t) => AsAtFirst(display', f, t)
<1>1. ASSUME line.cmd \notin {"REST", "ELAP"}, Kept PROVE Goal
  BY <1>1 DEF Settling, Settles
<1>2. UNCHANGED display => Kept
  OBVIOUS
<1>3. \A field \in Fields \ Aspects : \A value :
        Driver!Set(field, value, reply) => Kept
  BY OtherFieldSettles DEF Driver!Set
<1>4. /\ "message" \in Fields \ Aspects /\ "time" \in Fields \ Aspects
      /\ "style" \in Fields \ Aspects /\ "sched" \in Fields \ Aspects
  BY DEF Fields, Aspects
<1>5. \A value : display' = [display EXCEPT !.message = value] => Kept
  BY <1>4, OtherFieldSettles
<1>6. ASSUME \/ line.cmd = "HEAD" /\ Driver!CmdHead(a, reply)
             \/ line.cmd = "TEXT" /\ Driver!CmdText(a, reply)
      PROVE  Goal
  <2>1. /\ DOMAIN display' = Fields /\ display'.timing = display.timing
        /\ display'.show = display.show
    BY <1>6 DEF Driver!CmdHead, Driver!CmdText, Driver!Set, DisplayShape, Fields
  <2>2. \A f \in Aspects : f # "heading" => display'[f] = display[f]
    BY <2>1 DEF Aspects
  <2>3. line.cmd \in {"HEAD", "TEXT"}
    BY <1>6
  <2> QED
    BY <2>1, <2>2, <2>3 DEF DisplayShape, Settling, Settles, Disturbs, AsAtFirst
<1>7. ASSUME line.cmd = "REST", Driver!CmdRest(reply) PROVE Goal
  <2>1. /\ DOMAIN display' = Fields /\ display'.timing = display.timing
        /\ display'.show = display.show /\ display'.heading = AtFirst
    BY <1>7 DEF Driver!CmdRest, DisplayShape, Fields, AtFirst
  <2>2. \A f \in Aspects : f # "heading" => display'[f] = display[f]
    BY <2>1 DEF Aspects
  <2> QED
    BY <1>7, <2>1, <2>2 DEF DisplayShape, Settling, Settles, AsAtFirst
<1>8. ASSUME line.cmd = "ELAP", Driver!CmdElap(a, reply) PROVE Goal
  BY <1>8, ElapSettles
<1> HIDE DEF Goal, Kept
<1>9. ASSUME line.cmd = "MESG", Driver!CmdMesg(a, reply) PROVE Goal
  BY <1>1, <1>3, <1>4, <1>9 DEF Driver!CmdMesg
<1>10. ASSUME line.cmd = "TIME", Driver!CmdTime(a, reply) PROVE Goal
  BY <1>1, <1>3, <1>4, <1>10 DEF Driver!CmdTime
<1>11. ASSUME line.cmd = "STYL", Driver!CmdStyl(a, reply) PROVE Goal
  BY <1>1, <1>2, <1>3, <1>4, <1>11 DEF Driver!CmdStyl
<1>12. ASSUME line.cmd = "SCHED", Driver!CmdSched(a, reply) PROVE Goal
  BY <1>1, <1>2, <1>3, <1>4, <1>12 DEF Driver!CmdSched
<1>13. ASSUME line.cmd = "RUNK", Driver!CmdRunk(a, reply) PROVE Goal
  BY <1>1, <1>2, <1>5, <1>13 DEF Driver!CmdRunk, Driver!StartBgProcess, Driver!Unchanged
<1>14. ASSUME line.cmd = "STOP", Driver!CmdStop(reply) PROVE Goal
  BY <1>1, <1>2, <1>5, <1>14 DEF Driver!CmdStop, Driver!Unchanged
<1>15. ASSUME line.cmd \in {"LIST", "VERS", "STAT"}, UNCHANGED display PROVE Goal
  BY <1>1, <1>2, <1>15
<1> QED
  BY <1>6, <1>7, <1>8, <1>9, <1>10, <1>11, <1>12, <1>13, <1>14, <1>15, Zenon
     DEF Driver!Handle, Goal, Driver!Unchanged

AllAtFirst(d) == \A f \in Aspects : \A t \in Driver!Timers : AsAtFirst(d, f, t)

PortShape ==
  /\ app \in {"constructing", "up", "closing", "gone", "crashed"}
  /\ DOMAIN sock = {driver} /\ sock[driver] \in {"none", "open", "quit", "deleted"}
  /\ DOMAIN wire = {driver} /\ DOMAIN buffer = {driver}
  /\ DOMAIN sent = {driver} /\ DOMAIN answers = {driver}
  /\ reader \in {driver, NoConn}
  /\ DisplayShape(display)
  /\ InOrder(sent[driver], answers[driver], buffer[driver], wire[driver])
  /\ app = "constructing" => /\ sock[driver] = "none" /\ AllAtFirst(display)
                             /\ reader = NoConn
  /\ app = "up" /\ reader = driver => sock[driver] = "open"

(* What a step of the program does to what the driver can see.             *)
Answered(r) ==
  /\ answers'[driver] = Append(answers[driver], r)
  /\ buffer[driver] # <<>> /\ r.line = Head(buffer[driver])
  /\ Effect(r.line, r.reply, display.heading, display'.heading)
  /\ Settling(r.line, display, display')
  /\ sock'[driver] = "quit" => sock[driver] = "quit" \/ r.line.cmd = "QUIT"
Quiet ==
  /\ answers'[driver] = answers[driver] /\ display'.heading = display.heading
  /\ \A f \in Aspects : \A t \in Driver!Timers :
       AsAtFirst(display, f, t) => AsAtFirst(display', f, t)
  /\ sock'[driver] = "quit" => sock[driver] = "quit"
PortStep ==
  /\ PortShape' /\ sent' = sent
  /\ sock[driver] = "deleted" => sock'[driver] = "deleted"
  /\ app' = "up" /\ sock'[driver] = "deleted" => app = "up" /\ sock[driver] = "deleted"
  /\ app' # "constructing"
  /\ Quiet \/ \E r : Answered(r)

LEMMA FirstDisplay ==
  ASSUME NEW b
  PROVE  /\ DisplayShape(Driver!DefaultDisplay(b)) /\ AllAtFirst(Driver!DefaultDisplay(b))
         /\ Driver!DefaultDisplay(b).heading = AtFirst
  BY DEF Driver!DefaultDisplay, DisplayShape, AllAtFirst, AsAtFirst, Aspects, AtFirst,
         Fields, Driver!Timers

LEMMA ConstructStep == ASSUME PortShape, Driver!Construct PROVE PortStep
<1>1. /\ UNCHANGED <<sock, wire, buffer, reader, sent, answers>> /\ app' = "up"
      /\ app = "constructing"
  BY DEF Driver!Construct, Driver!log
<1>2. AllAtFirst(display) /\ sock[driver] = "none"
  BY <1>1 DEF PortShape
<1>3. DisplayShape(display') /\ AllAtFirst(display')
  BY <1>2, FirstDisplay DEF Driver!Construct, PortShape
<1>4. display'.heading = display.heading
  <2>1. "heading" \in Aspects /\ "0" \in Driver!Timers
    BY DEF Aspects, Driver!Timers
  <2> QED
    BY <1>2, <1>3, <2>1 DEF AllAtFirst, AsAtFirst
<1>5. PortShape'
  BY <1>1, <1>3, TextsAssumption DEF PortShape
<1> QED
  BY <1>1, <1>2, <1>3, <1>4, <1>5 DEF PortStep, Quiet, AllAtFirst

LEMMA ReadyReadStep == ASSUME PortShape, Driver!ReadyRead(driver) PROVE PortStep
<1>1. /\ UNCHANGED <<app, sock, display, sent, answers>> /\ reader' = driver
      /\ app = "up" /\ sock[driver] = "open"
      /\ buffer' = [buffer EXCEPT ![driver] = @ \o wire[driver]]
      /\ wire' = [wire EXCEPT ![driver] = <<>>]
  BY DEF Driver!ReadyRead, Driver!AtLoop, Driver!log
<1>2. /\ DOMAIN buffer' = {driver} /\ DOMAIN wire' = {driver}
      /\ buffer'[driver] = buffer[driver] \o wire[driver] /\ wire'[driver] = <<>>
  BY <1>1 DEF PortShape
<1>3. InOrder(sent[driver], answers[driver], buffer[driver] \o wire[driver], <<>>)
  BY ReadInOrder DEF PortShape
<1>4. InOrder(sent[driver], answers[driver], buffer[driver], wire[driver])'
  BY <1>1, <1>2, <1>3, Zenon
<1>5. PortShape'
  BY <1>1, <1>2, <1>4 DEF PortShape
<1> QED
  BY <1>1, <1>5 DEF PortStep, Quiet

LEMMA AnswerStep ==
  ASSUME PortShape, Driver!HasLine, NEW reply, NEW alive,
         Driver!Answer(Head(buffer[reader]), reply, alive), Driver!Take, UNCHANGED <<sent, wire>>
  PROVE  /\ reader = driver /\ DOMAIN buffer' = {driver} /\ DOMAIN answers' = {driver}
         /\ InOrder(sent[driver], answers[driver], buffer[driver], wire[driver])'
         /\ \E r : /\ r.line = Head(buffer[driver]) /\ r.reply = reply
                   /\ answers'[driver] = Append(answers[driver], r) /\ buffer[driver] # <<>>
<1>1. reader = driver /\ buffer[driver] # <<>>
  BY DEF PortShape, Driver!HasLine
<1> DEFINE r == Driver!Record(Head(buffer[driver]), reply, alive)
<1>2. r.line = Head(buffer[driver]) /\ r.reply = reply
  BY DEF Driver!Record
<1>3. /\ answers' = [answers EXCEPT ![driver] = Append(@, r)]
      /\ buffer' = [buffer EXCEPT ![driver] = Tail(@)]
  BY <1>1 DEF Driver!Answer, Driver!Take
<1> HIDE DEF r
<1>4. /\ DOMAIN buffer' = {driver} /\ DOMAIN answers' = {driver}
      /\ answers'[driver] = Append(answers[driver], r) /\ buffer'[driver] = Tail(buffer[driver])
  BY <1>3 DEF PortShape
<1>5. InOrder(sent[driver], Append(answers[driver], r), Tail(buffer[driver]), wire[driver])
  BY <1>1, <1>2, AnsweredInOrder DEF PortShape
<1>6. InOrder(sent[driver], answers[driver], buffer[driver], wire[driver])'
  BY <1>4, <1>5, Zenon
<1> QED
  BY <1>1, <1>2, <1>4, <1>6

LEMMA RefusedSettles ==
  ASSUME NEW line, ~Driver!Known(line)
  PROVE  Settling(line, display, display)
  BY SettlesIsKnown DEF Settling

LEMMA ParseTextStep == ASSUME PortShape, Driver!ParseText PROVE PortStep
<1> DEFINE line == Head(buffer[reader])
<1>1. /\ Driver!HasLine /\ Driver!Take /\ sock[reader] = "open"
      /\ UNCHANGED <<app, sock, wire, reader, sent>> /\ app = "up"
  BY DEF Driver!ParseText, Driver!HasLine
<1>2. PICK reply : /\ IF Driver!Known(line) THEN Driver!Handle(line, reply)
                      ELSE Driver!Unchanged(reply, Driver!FAIL)
                   /\ Driver!Answer(line, reply, TRUE)
  BY DEF Driver!ParseText
<1>3. /\ reader = driver /\ DOMAIN buffer' = {driver} /\ DOMAIN answers' = {driver}
      /\ InOrder(sent[driver], answers[driver], buffer[driver], wire[driver])'
      /\ \E r : /\ r.line = Head(buffer[driver]) /\ r.reply = reply
                /\ answers'[driver] = Append(answers[driver], r) /\ buffer[driver] # <<>>
  <2> DEFINE alive == TRUE
  <2> HIDE DEF alive
  <2>1. Driver!Answer(line, reply, alive)
    BY <1>2 DEF alive
  <2> QED
    BY <1>1, <2>1, AnswerStep
<1>4. /\ DisplayShape(display') /\ Settling(line, display, display')
      /\ Effect(line, reply, display.heading, display'.heading)
  <2>1. CASE Driver!Known(line)
    BY <1>2, <2>1, HandleSettles, HandleEffect DEF PortShape, DisplayShape
  <2>2. CASE ~Driver!Known(line)
    <3>1. reply = Driver!FAIL /\ display' = display
      BY <1>2, <2>2 DEF Driver!Unchanged
    <3>2. Settling(line, display, display)
      BY <2>2, RefusedSettles
    <3>3. Effect(line, Driver!FAIL, display.heading, display.heading)
      BY RefusedEffect
    <3>4. Settling(line, display, display') /\ Effect(line, reply, display.heading, display'.heading)
      BY <3>1, <3>2, <3>3, Zenon
    <3> QED
      BY <3>1, <3>4 DEF PortShape
  <2> QED
    BY <2>1, <2>2
<1> HIDE DEF line
<1>5. line = Head(buffer[driver])
  BY <1>3 DEF line
<1>6. PortShape'
  BY <1>1, <1>3, <1>4 DEF PortShape
<1>7. \E r : Answered(r)
  BY <1>1, <1>3, <1>4, <1>5 DEF Answered
<1> QED
  BY <1>1, <1>6, <1>7 DEF PortStep

(* A line that is refused, or that is no concern of the display.           *)
LEMMA UnseenStep ==
  ASSUME PortShape, Driver!HasLine, NEW reply, NEW alive, NEW line, line = Head(buffer[reader]),
         Driver!Answer(line, reply, alive), Driver!Take, UNCHANGED <<sent, wire, display>>,
         \/ line.cmd \in {"QUIT", "KILL"}
         \/ line.cmd = "BLANK"
  PROVE  /\ reader = driver /\ DOMAIN buffer' = {driver} /\ DOMAIN answers' = {driver}
         /\ InOrder(sent[driver], answers[driver], buffer[driver], wire[driver])'
         /\ \E r : /\ r.line = line /\ answers'[driver] = Append(answers[driver], r)
                   /\ buffer[driver] # <<>> /\ line = Head(buffer[driver])
                   /\ Effect(r.line, r.reply, display.heading, display'.heading)
                   /\ Settling(r.line, display, display')
<1>1. /\ reader = driver /\ DOMAIN buffer' = {driver} /\ DOMAIN answers' = {driver}
      /\ InOrder(sent[driver], answers[driver], buffer[driver], wire[driver])'
  BY AnswerStep, Zenon
<1>2. PICK r : /\ r.line = Head(buffer[driver]) /\ r.reply = reply
               /\ answers'[driver] = Append(answers[driver], r) /\ buffer[driver] # <<>>
  BY AnswerStep, Zenon
<1>3. Effect(line, reply, display.heading, display'.heading)
  BY DEF Effect, SetsHeading
<1>4. Settling(line, display, display')
  BY DEF Settling, Settles
<1> QED
  BY <1>1, <1>2, <1>3, <1>4, Zenon

LEMMA QuitStep == ASSUME PortShape, Driver!Quit PROVE PortStep
<1>1. PICK line : line = Head(buffer[reader])
  OBVIOUS
<1>2. /\ Driver!HasLine /\ Driver!Take /\ UNCHANGED <<app, wire, sent, display>> /\ app = "up"
      /\ line.cmd = "QUIT"
  BY <1>1 DEF Driver!Quit, Driver!HasLine
<1>3. \E reply, alive : Driver!Answer(line, reply, alive)
  BY <1>1 DEF Driver!Quit
<1>4. /\ reader = driver /\ DOMAIN buffer' = {driver} /\ DOMAIN answers' = {driver}
      /\ InOrder(sent[driver], answers[driver], buffer[driver], wire[driver])'
      /\ \E r : /\ r.line = line /\ answers'[driver] = Append(answers[driver], r)
                /\ buffer[driver] # <<>> /\ line = Head(buffer[driver])
                /\ Effect(r.line, r.reply, display.heading, display'.heading)
                /\ Settling(r.line, display, display')
  BY <1>1, <1>2, <1>3, UnseenStep
<1>5. sock[driver] = "open"
  BY <1>2, <1>4 DEF PortShape
<1>6. /\ DOMAIN sock' = {driver} /\ sock'[driver] \in {"open", "quit"}
      /\ \/ reader' = reader /\ sock'[driver] = "open"
         \/ reader' = NoConn
  BY <1>1, <1>4, <1>5 DEF Driver!Quit, PortShape
<1>7. PortShape'
  BY <1>2, <1>4, <1>6, TextsAssumption DEF PortShape
<1>8. \E r : Answered(r)
  BY <1>2, <1>4 DEF Answered
<1> QED
  BY <1>2, <1>5, <1>6, <1>7, <1>8 DEF PortStep

LEMMA CloseSteps ==
  ASSUME PortShape, Driver!Close
  PROVE  /\ DOMAIN sock' = {driver} /\ sock'[driver] \in {sock[driver], "deleted"}
         /\ app' \in {"closing", "crashed"}
<1>1. CASE tcpServer = "listening"
  <2>1. /\ sock' = [c \in {driver} |-> IF sock[c] = "none" THEN "none" ELSE "deleted"]
        /\ app' = "closing"
    BY <1>1 DEF Driver!Close
  <2> QED
    BY <2>1 DEF PortShape
<1>2. CASE tcpServer # "listening"
  BY <1>2 DEF Driver!Close, PortShape
<1> QED
  BY <1>1, <1>2

LEMMA KillStep == ASSUME PortShape, Driver!Kill PROVE PortStep
<1>1. PICK line : line = Head(buffer[reader])
  OBVIOUS
<1>2. /\ Driver!HasLine /\ Driver!Take /\ UNCHANGED <<wire, sent, display>> /\ app = "up"
      /\ line.cmd = "KILL"
  BY <1>1 DEF Driver!Kill, Driver!HasLine
<1>3. \E reply, alive : Driver!Answer(line, reply, alive)
  BY <1>1 DEF Driver!Kill
<1>4. /\ reader = driver /\ DOMAIN buffer' = {driver} /\ DOMAIN answers' = {driver}
      /\ InOrder(sent[driver], answers[driver], buffer[driver], wire[driver])'
      /\ \E r : /\ r.line = line /\ answers'[driver] = Append(answers[driver], r)
                /\ buffer[driver] # <<>> /\ line = Head(buffer[driver])
                /\ Effect(r.line, r.reply, display.heading, display'.heading)
                /\ Settling(r.line, display, display')
  BY <1>1, <1>2, <1>3, UnseenStep
<1>5. sock[driver] = "open"
  BY <1>2, <1>4 DEF PortShape
<1>6. /\ DOMAIN sock' = {driver} /\ sock'[driver] \in {"open", "deleted"}
      /\ \/ reader' = reader /\ sock' = sock /\ app' = app
         \/ reader' = NoConn /\ app' \in {"closing", "crashed"}
  <2>1. \/ Driver!Close /\ reader' = NoConn
        \/ UNCHANGED <<app, sock, reader>>
    BY <1>1 DEF Driver!Kill
  <2>2. CASE Driver!Close /\ reader' = NoConn
    BY <1>5, <2>2, CloseSteps
  <2>3. CASE UNCHANGED <<app, sock, reader>>
    BY <1>5, <2>3 DEF PortShape
  <2> QED
    BY <2>1, <2>2, <2>3
<1>7. PortShape'
  BY <1>2, <1>4, <1>5, <1>6, TextsAssumption DEF PortShape
<1>8. \E r : Answered(r)
  BY <1>2, <1>4, <1>6 DEF Answered
<1> QED
  BY <1>2, <1>5, <1>6, <1>7, <1>8 DEF PortStep

LEMMA ReadOutOfBoundsStep == ASSUME PortShape, Driver!ReadOutOfBounds PROVE PortStep
<1>1. PICK line : line = Head(buffer[reader])
  OBVIOUS
<1>2. /\ Driver!HasLine /\ UNCHANGED <<wire, sent, display, sock, reader>> /\ app = "up"
  BY DEF Driver!ReadOutOfBounds, Driver!HasLine
<1>3. CASE app' = "crashed" /\ UNCHANGED <<buffer, answers>>
  BY <1>2, <1>3 DEF PortStep, PortShape, Quiet
<1>4. CASE /\ line.cmd = "BLANK" /\ (\E reply, alive : Driver!Answer(line, reply, alive))
           /\ Driver!Take /\ app' = app
  <2>1. /\ reader = driver /\ DOMAIN buffer' = {driver} /\ DOMAIN answers' = {driver}
        /\ InOrder(sent[driver], answers[driver], buffer[driver], wire[driver])'
        /\ \E r : /\ r.line = line /\ answers'[driver] = Append(answers[driver], r)
                  /\ buffer[driver] # <<>> /\ line = Head(buffer[driver])
                  /\ Effect(r.line, r.reply, display.heading, display'.heading)
                  /\ Settling(r.line, display, display')
    BY <1>1, <1>2, <1>4, UnseenStep
  <2>2. PortShape'
    BY <1>2, <1>4, <2>1 DEF PortShape
  <2>3. \E r : Answered(r)
    BY <1>2, <2>1 DEF Answered
  <2> QED
    BY <1>2, <1>4, <2>2, <2>3 DEF PortStep
<1> QED
  BY <1>1, <1>3, <1>4 DEF Driver!ReadOutOfBounds, Driver!log

LEMMA StillStep ==
  ASSUME PortShape, Driver!ReadDone \/ Driver!KeyQuit \/ Driver!Leave
  PROVE  PortStep
<1>1. UNCHANGED <<wire, buffer, display, sent, answers>>
  BY DEF Driver!ReadDone, Driver!KeyQuit, Driver!Leave, Driver!log
<1>2. /\ DOMAIN sock' = {driver} /\ sock'[driver] \in {sock[driver], "deleted"}
      /\ reader' \in {reader, NoConn}
      /\ app' \in {app, "closing", "crashed", "gone"}
      /\ app' = app => sock' = sock /\ app = "up"
  <2>1. CASE Driver!ReadDone
    BY <2>1 DEF Driver!ReadDone, PortShape
  <2>2. CASE Driver!KeyQuit
    BY <2>2, CloseSteps DEF Driver!KeyQuit, Driver!AtLoop
  <2>3. CASE Driver!Leave
    BY <2>3 DEF Driver!Leave, PortShape
  <2> QED
    BY <2>1, <2>2, <2>3
<1>3. PortShape'
  BY <1>1, <1>2, TextsAssumption DEF PortShape
<1> QED
  BY <1>1, <1>2, <1>3 DEF PortStep, Quiet, PortShape

LEMMA ProgramStep ==
  ASSUME PortShape, \/ Driver!Construct \/ Driver!Loop \/ Driver!ReadyRead(driver)
                    \/ Driver!KeyQuit \/ Driver!Leave
  PROVE  PortStep
  BY ConstructStep, ReadyReadStep, ParseTextStep, QuitStep, KillStep, ReadOutOfBoundsStep,
     StillStep DEF Driver!Loop

LEMMA OpenStep ==
  ASSUME PortShape, Driver!onConnection(driver)
  PROVE  /\ PortShape' /\ sock'[driver] = "open" /\ app' = "up"
         /\ UNCHANGED <<app, sent, answers, display>>
<1>1. /\ UNCHANGED <<app, wire, buffer, reader, display, sent, answers>> /\ app = "up"
      /\ sock' = [sock EXCEPT ![driver] = "open"]
  BY DEF Driver!onConnection, Driver!AtLoop, Driver!log
<1>2. DOMAIN sock' = {driver} /\ sock'[driver] = "open"
  BY <1>1 DEF PortShape
<1> QED
  BY <1>1, <1>2 DEF PortShape

LEMMA HangupStep ==
  ASSUME PortShape, Driver!Hangup(driver)
  PROVE  /\ PortShape' /\ sock'[driver] = "deleted" /\ app = "up"
         /\ sock[driver] \in {"open", "quit"}
         /\ UNCHANGED <<app, sent, answers, display, wire, buffer>>
<1>1. /\ UNCHANGED <<app, wire, buffer, reader, display, sent, answers>> /\ app = "up"
      /\ sock' = [sock EXCEPT ![driver] = "deleted"] /\ reader = NoConn
      /\ sock[driver] \in {"open", "quit"}
  BY DEF Driver!Hangup, Driver!AtLoop, Driver!log
<1>2. DOMAIN sock' = {driver} /\ sock'[driver] = "deleted"
  BY <1>1 DEF PortShape
<1> QED
  BY <1>1, <1>2, TextsAssumption DEF PortShape

(* Of each aspect: since the last line read that settles it, or from the   *)
(* start, it is as it was at first, unless a line disturbed it.            *)
Calm(s, m, i, f, t) ==
  /\ i \in 0 .. m /\ (i = 0 \/ Settles(s[i], f, t))
  /\ \A j \in i + 1 .. m : ~Disturbs(s[j], f)
SettledBy(s, m, d) ==
  \A f \in Aspects : \A t \in Driver!Timers : \A i \in Nat :
    Calm(s, m, i, f, t) => AsAtFirst(d, f, t)
QuitBy(s, m) == \E i \in 1 .. m : s[i].cmd = "QUIT"

Settled == SettledBy(sent[driver], Len(answers[driver]), display)
QuitRead == sock[driver] = "quit" => QuitBy(sent[driver], Len(answers[driver]))

LEMMA OneMoreLine ==
  ASSUME NEW s, NEW m \in Nat, NEW d, NEW e, NEW line, line = s[m + 1],
         SettledBy(s, m, d), Settling(line, d, e)
  PROVE  SettledBy(s, m + 1, e)
<1> SUFFICES ASSUME NEW f \in Aspects, NEW t \in Driver!Timers, NEW i \in Nat,
                    Calm(s, m + 1, i, f, t)
             PROVE  AsAtFirst(e, f, t)
  BY DEF SettledBy
<1>1. CASE i = m + 1
  <2>1. Settles(line, f, t)
    BY <1>1 DEF Calm
  <2> QED
    BY <2>1 DEF Settling
<1>2. CASE i # m + 1
  <2>1. i \in 0 .. m /\ m + 1 \in i + 1 .. m + 1 /\ \A j \in i + 1 .. m : j \in i + 1 .. m + 1
    BY <1>2 DEF Calm
  <2>2. Calm(s, m, i, f, t) /\ ~Disturbs(line, f)
    BY <2>1 DEF Calm
  <2>3. AsAtFirst(d, f, t)
    BY <2>2, Zenon DEF SettledBy
  <2> QED
    BY <2>2, <2>3 DEF Settling
<1> QED
  BY <1>1, <1>2

LEMMA MoreIsSent ==
  ASSUME NEW s, NEW u, NEW m \in Nat, NEW d, \A i \in 1 .. m : u[i] = s[i]
  PROVE  (SettledBy(s, m, d) => SettledBy(u, m, d)) /\ (QuitBy(s, m) => QuitBy(u, m))
<1>1. ASSUME NEW i \in Nat, NEW f, NEW t, Calm(u, m, i, f, t) PROVE Calm(s, m, i, f, t)
  <2>1. i \in 0 .. m /\ (i # 0 => i \in 1 .. m) /\ \A j \in i + 1 .. m : j \in 1 .. m
    BY <1>1 DEF Calm
  <2> QED
    BY <1>1, <2>1 DEF Calm
<1> QED
  BY <1>1 DEF SettledBy, QuitBy

LEMMA SettledKept ==
  ASSUME PortShape, PortStep, Settled, QuitRead
  PROVE  Settled' /\ QuitRead'
<1> DEFINE s == sent[driver]
           m == Len(answers[driver])
<1>1. sent'[driver] = s /\ m \in Nat /\ IsSeq(answers[driver])
  BY SeqLen DEF PortStep, PortShape, InOrder
<1>2. CASE Quiet
  <2>1. answers'[driver] = answers[driver]
    BY <1>2 DEF Quiet
  <2>2. Settled'
    BY <1>1, <1>2, <2>1 DEF Settled, SettledBy, Quiet
  <2>3. QuitRead'
    BY <1>1, <1>2, <2>1 DEF QuitRead, Quiet
  <2> QED
    BY <2>2, <2>3
<1>3. CASE \E r : Answered(r)
  <2>1. PICK r : Answered(r)
    BY <1>3
  <2>2. Len(answers'[driver]) = m + 1
    BY <1>1, <2>1, Appended DEF Answered
  <2>3. r.line = s[m + 1]
    <3>1. IsSeq(buffer[driver]) /\ buffer[driver] # <<>>
      BY <2>1 DEF Answered, PortShape, InOrder
    <3>2. Head(buffer[driver]) = buffer[driver][1] /\ 1 \in 1 .. Len(buffer[driver])
      BY <3>1, Shorter
    <3>3. buffer[driver][1] = s[m + 1]
      BY <3>2 DEF PortShape, InOrder
    <3> QED
      BY <2>1, <3>2, <3>3 DEF Answered
  <2>4. Settling(r.line, display, display')
    BY <2>1 DEF Answered
  <2> DEFINE line == r.line
  <2> HIDE DEF line
  <2>5. line = s[m + 1] /\ Settling(line, display, display') /\ line = r.line
    BY <2>3, <2>4 DEF line
  <2> HIDE DEF s, m
  <2>6. SettledBy(s, m + 1, display')
    BY <1>1, <2>5, OneMoreLine DEF Settled, s, m
  <2>7. Settled'
    BY <1>1, <2>2, <2>6, Zenon DEF Settled
  <2>8. ASSUME sock'[driver] = "quit" PROVE QuitBy(s, m + 1)
    <3>1. sock[driver] = "quit" \/ r.line.cmd = "QUIT"
      BY <2>1, <2>8 DEF Answered
    <3>2. CASE sock[driver] = "quit"
      <4>1. QuitBy(s, m)
        BY <3>2 DEF QuitRead, s, m
      <4> QED
        BY <1>1, <4>1 DEF QuitBy
    <3>3. CASE r.line.cmd = "QUIT"
      <4>1. s[m + 1].cmd = "QUIT"
        BY <2>5, <3>3, Zenon
      <4>2. m + 1 \in 1 .. m + 1
        BY <1>1
      <4> QED
        BY <4>1, <4>2, Zenon DEF QuitBy
    <3> QED
      BY <3>1, <3>2, <3>3
  <2> QED
    BY <1>1, <2>2, <2>7, <2>8, Zenon DEF QuitRead
<1> QED
  BY <1>2, <1>3 DEF PortStep

Greatest(S, j) == j \in S /\ \A k \in S : k <= j

LEMMA GreatestExists ==
  ASSUME NEW n \in Nat, NEW S \in SUBSET (1 .. n), S # {}
  PROVE  \E j \in S : Greatest(S, j)
<1> DEFINE Has(T) == \E j \in T : Greatest(T, j)
           N == {m \in Nat : \A T \in SUBSET (1 .. m) : T # {} => Has(T)}
<1>1. 0 \in N
  <2>1. \A T \in SUBSET (1 .. 0) : T = {}
    OBVIOUS
  <2> QED
    BY <2>1
<1>2. ASSUME NEW m \in N PROVE m + 1 \in N
  <2> SUFFICES ASSUME NEW T \in SUBSET (1 .. m + 1), T # {} PROVE Has(T)
    OBVIOUS
  <2>1. CASE m + 1 \in T
    BY <2>1 DEF Greatest
  <2>2. CASE m + 1 \notin T
    <3>1. T \in SUBSET (1 .. m)
      BY <2>2
    <3> HIDE DEF Has
    <3> QED
      BY <3>1
  <2> QED
    BY <2>1, <2>2
<1>0. N \subseteq Nat
  OBVIOUS
<1> HIDE DEF N
<1>3. N = Nat
  BY <1>0, <1>1, <1>2, Induction
<1> QED
  BY <1>3 DEF N

(* What the results before one of them tell of the heading.                *)
HeadingSet(r) == r.line.cmd \in SetsHeading /\ r.value = [is |-> "bool", holds |-> TRUE]
SetsIn(s, i) == {j \in 1 .. i - 1 : HeadingSet(s[j])}
LastOf(S) == CHOOSE j \in S : \A k \in S : k <= j
Before(s, i) ==
  IF SetsIn(s, i) = {} THEN AtFirst ELSE Heading(s[LastOf(SetsIn(s, i))].line)

LEMMA SetBeforeIs ==
  ASSUME NEW i
  PROVE  /\ Driver!SetBefore(i) = Before(results, i)
         /\ Driver!SetBefore(i)' = Before(results', i)
<1>1. Driver!SetBefore(i) = Before(results, i)
  <2>1. Driver!SetBefore(i) =
          IF SetsIn(results, i) = {} \/ results[LastOf(SetsIn(results, i))].line.cmd = "REST"
          THEN AtFirst ELSE results[LastOf(SetsIn(results, i))].line.args[1]
    BY Zenon DEF Driver!SetBefore, SetsIn, HeadingSet, LastOf, AtFirst, SetsHeading
  <2> QED
    BY <2>1, Zenon DEF Before, Heading
<1>2. Driver!SetBefore(i)' = Before(results', i)
  <2>1. Driver!SetBefore(i)' =
          IF SetsIn(results', i) = {} \/ results'[LastOf(SetsIn(results', i))].line.cmd = "REST"
          THEN AtFirst ELSE results'[LastOf(SetsIn(results', i))].line.args[1]
    BY Zenon DEF Driver!SetBefore, SetsIn, HeadingSet, LastOf, AtFirst, SetsHeading
  <2> QED
    BY <2>1, Zenon DEF Before, Heading
<1> QED
  BY <1>1, <1>2

LEMMA LastIsGreatest ==
  ASSUME NEW S, NEW j, Greatest(S, j), S \subseteq Int
  PROVE  LastOf(S) = j
<1>1. LastOf(S) \in S /\ \A k \in S : k <= LastOf(S)
  BY Zenon DEF LastOf, Greatest
<1> DEFINE l == LastOf(S)
<1> HIDE DEF l
<1>2. l \in S /\ j \in S /\ j <= l /\ l <= j
  BY <1>1, Zenon DEF Greatest, l
<1>3. l = j
  BY <1>2
<1> QED
  BY <1>3 DEF l

LEMMA SetsHaveLast ==
  ASSUME NEW s, NEW i \in Nat, SetsIn(s, i) # {}
  PROVE  Greatest(SetsIn(s, i), LastOf(SetsIn(s, i))) /\ SetsIn(s, i) \subseteq 1 .. i - 1
<1>1. i # 0 /\ i - 1 \in Nat /\ SetsIn(s, i) \in SUBSET (1 .. i - 1) /\ SetsIn(s, i) \subseteq Int
  BY DEF SetsIn
<1>2. PICK j : Greatest(SetsIn(s, i), j)
  BY <1>1, GreatestExists
<1>3. LastOf(SetsIn(s, i)) = j
  BY <1>1, <1>2, LastIsGreatest, Zenon
<1> QED
  BY <1>1, <1>2, <1>3, Zenon

LEMMA BeforeKept ==
  ASSUME NEW s, NEW u, NEW i \in Nat, \A j \in 1 .. i - 1 : u[j] = s[j]
  PROVE  Before(u, i) = Before(s, i)
<1>1. SetsIn(u, i) = SetsIn(s, i)
  BY DEF SetsIn
<1>2. CASE SetsIn(s, i) = {}
  BY <1>1, <1>2, Zenon DEF Before
<1>3. CASE SetsIn(s, i) # {}
  <2>1. LastOf(SetsIn(s, i)) \in 1 .. i - 1
    BY <1>3, SetsHaveLast DEF Greatest
  <2>2. u[LastOf(SetsIn(s, i))] = s[LastOf(SetsIn(s, i))]
    BY <2>1, Zenon
  <2> QED
    BY <1>1, <1>3, <2>2, Zenon DEF Before
<1> QED
  BY <1>2, <1>3

LEMMA BeforeFirst ==
  ASSUME NEW s
  PROVE  Before(s, 1) = AtFirst
<1>1. SetsIn(s, 1) = {}
  BY DEF SetsIn
<1> QED
  BY <1>1, Zenon DEF Before

LEMMA BeforeNext ==
  ASSUME NEW s, NEW i \in Nat \ {0}
  PROVE  Before(s, i + 1) = IF HeadingSet(s[i]) THEN Heading(s[i].line) ELSE Before(s, i)
<1>1. /\ SetsIn(s, i + 1) = IF HeadingSet(s[i]) THEN SetsIn(s, i) \cup {i} ELSE SetsIn(s, i)
      /\ SetsIn(s, i) \subseteq 1 .. i - 1
  <2>1. \A j : j \in 1 .. (i + 1) - 1 <=> j \in 1 .. i - 1 \/ j = i
    OBVIOUS
  <2> QED
    BY <2>1 DEF SetsIn
<1>2. CASE HeadingSet(s[i])
  <2> DEFINE S == SetsIn(s, i + 1)
  <2>1. Greatest(S, i) /\ S \subseteq Int /\ S # {}
    BY <1>1, <1>2 DEF Greatest
  <2>2. LastOf(S) = i
    BY <2>1, LastIsGreatest
  <2> QED
    BY <1>2, <2>1, <2>2, Zenon DEF Before
<1>3. CASE ~HeadingSet(s[i])
  BY <1>1, <1>3, Zenon DEF Before
<1> QED
  BY <1>2, <1>3

(* The program, what it has left to call and what it was told.             *)
ProgramShape ==
  /\ at \in {"new", "idle", "waiting", "closed", "raised"}
  /\ asked \in Nat /\ got \in Nat /\ debt \in Nat /\ got <= Len(answers[driver])
  /\ IsSeq(results)
  /\ AllKinds(attempt) /\ Single(attempt) /\ AllKinds(cleanup)
  /\ attempt # <<>> => debt = 0
  /\ app = "constructing" => at = "new"

(* What the results lead to expect of the heading.                         *)
Expected == Before(results, Len(results) + 1)

(* No more is unread than is owed, and while nothing is owed the heading   *)
(* is the expected one, or is about to be.                                 *)
AtNew == at = "new" => /\ sent[driver] = <<>> /\ results = <<>>
                       /\ got = 0 /\ debt = 0
AtIdle == at = "idle" /\ sock[driver] # "deleted" =>
  /\ Len(sent[driver]) <= got + debt
  /\ debt = 0 => display.heading = Expected
AtWaiting == at = "waiting" =>
  /\ Driver!Calls # <<>>
  /\ LET c == Head(Driver!Calls) IN
     /\ c.wants \notin {"exception", "nothing"}
     /\ asked = Len(sent[driver]) - Len(c.sends) + 1 /\ got + 1 <= asked
     /\ Len(sent[driver]) <= got + debt + 1 /\ sent[driver][asked] = c.sends[1]
     /\ debt = 0 => IF Len(answers[driver]) = got THEN display.heading = Expected
                    ELSE Effect(c.sends[1], answers[driver][got + 1].reply, Expected,
                                display.heading)
AtClosed == at = "closed" => Len(sent[driver]) <= got + debt + 1
Told == AtNew /\ AtIdle /\ AtWaiting /\ AtClosed

(* Facts of any state.                                                     *)
LEMMA Counted ==
  ASSUME PortShape, ProgramShape
  PROVE  /\ Len(sent[driver]) \in Nat /\ Len(answers[driver]) \in Nat
         /\ Len(buffer[driver]) \in Nat /\ Len(wire[driver]) \in Nat
         /\ Len(sent[driver]) =
              Len(answers[driver]) + Len(buffer[driver]) + Len(wire[driver])
         /\ got <= Len(answers[driver]) /\ got \in Nat /\ debt \in Nat /\ asked \in Nat
         /\ Len(results) \in Nat
         /\ buffer[driver] = <<>> <=> Len(buffer[driver]) = 0
  BY SeqLen DEF PortShape, ProgramShape, InOrder

(* The call in hand.                                                       *)
LEMMA InHand ==
  ASSUME ProgramShape, Driver!Calls # <<>>, NEW c, c = Head(Driver!Calls)
  PROVE  /\ CallKinds(c)
         /\ attempt # <<>> => c = Head(attempt) /\ Len(c.sends) = 1
         /\ attempt = <<>> => c = Head(cleanup) /\ cleanup # <<>>
<1>1. /\ attempt # <<>> => c = Head(attempt)
      /\ attempt = <<>> => c = Head(cleanup) /\ cleanup # <<>>
  BY FirstCall DEF ProgramShape, Driver!Calls
<1>2. CASE attempt # <<>>
  BY <1>1, <1>2, KindsLeft DEF ProgramShape
<1>3. CASE attempt = <<>>
  BY <1>1, <1>3, KindsLeft DEF ProgramShape
<1> QED
  BY <1>1, <1>2, <1>3

LEMMA SendsOne ==
  ASSUME NEW c, CallKinds(c), c.wants # "exception"
  PROVE  Len(c.sends) \in Nat \ {0} /\ IsSeq(c.sends)
  BY SeqLen DEF CallKinds

LEMMA NothingOwed ==
  ASSUME PortShape, ProgramShape, AtWaiting, at = "waiting", debt = 0
  PROVE  /\ Len(sent[driver]) = got + 1 /\ asked = got + 1
         /\ Len(Head(Driver!Calls).sends) = 1
         /\ Len(answers[driver]) # got => Len(answers[driver]) = got + 1 /\ buffer[driver] = <<>>
<1> DEFINE c == Head(Driver!Calls)
<1>1. /\ Driver!Calls # <<>> /\ c.wants # "exception"
      /\ asked = Len(sent[driver]) - Len(c.sends) + 1 /\ got + 1 <= asked
      /\ Len(sent[driver]) <= got + debt + 1
  BY DEF AtWaiting
<1>2. Len(c.sends) \in Nat \ {0}
  BY <1>1, InHand, SendsOne
<1> HIDE DEF c
<1> DEFINE s == Len(sent[driver])
           m == Len(answers[driver])
           b == Len(buffer[driver])
           w == Len(wire[driver])
           l == Len(c.sends)
<1>3. /\ s \in Nat /\ m \in Nat /\ b \in Nat /\ w \in Nat /\ l \in Nat \ {0} /\ got \in Nat
      /\ s = m + b + w /\ got <= m /\ s <= got + 0 + 1 /\ asked = s - l + 1 /\ got + 1 <= asked
  BY <1>1, <1>2, Counted
<1> HIDE DEF s, m, b, w, l
<1>4. s = got + 1 /\ asked = got + 1 /\ l = 1 /\ (m # got => m = got + 1 /\ b = 0)
  BY <1>3
<1>5. b = 0 => buffer[driver] = <<>>
  BY Counted DEF b
<1> QED
  BY <1>4, <1>5, Zenon DEF c, s, m, b, l

-----------------------------------------------------------------------------
(* What the program does while the driver waits or not.                    *)
LEMMA ToldByProgram ==
  ASSUME PortShape, ProgramShape, Told, PortStep,
         UNCHANGED <<attempt, cleanup, at, asked, got, debt, results>>
  PROVE  ProgramShape' /\ Told'
<1>0. sent' = sent /\ app' # "constructing" /\ IsSeq(answers[driver])
  BY DEF PortStep, PortShape, InOrder
<1>1. /\ Len(answers'[driver]) >= Len(answers[driver])
      /\ \A i \in 1 .. Len(answers[driver]) : answers'[driver][i] = answers[driver][i]
      /\ Len(answers'[driver]) \in Nat
      /\ buffer[driver] = <<>> =>
           answers'[driver] = answers[driver] /\ display'.heading = display.heading
  <2>1. CASE Quiet
    BY <2>1, Counted DEF Quiet
  <2>2. CASE \E r : Answered(r)
    <3>1. PICK r : Answered(r)
      BY <2>2
    <3>2. answers'[driver] = Append(answers[driver], r) /\ buffer[driver] # <<>>
      BY <3>1 DEF Answered
    <3> QED
      BY <1>0, <3>2, Counted, Appended
  <2> QED
    BY <2>1, <2>2 DEF PortStep
<1>2. ProgramShape'
  BY <1>0, <1>1, Counted DEF ProgramShape
<1>3. Expected' = Expected /\ Driver!Calls' = Driver!Calls
  BY DEF Expected, Driver!Calls
<1>4. AtNew' /\ AtClosed'
  BY <1>0 DEF Told, AtNew, AtClosed
<1>5. AtIdle'
  <2> SUFFICES ASSUME at = "idle", sock'[driver] # "deleted"
               PROVE  /\ Len(sent[driver]) <= got + debt
                      /\ debt = 0 => display'.heading = Expected
    BY <1>0, <1>3 DEF AtIdle
  <2>1. /\ Len(sent[driver]) <= got + debt
        /\ debt = 0 => display.heading = Expected
    BY DEF Told, AtIdle, PortStep
  <2>2. debt = 0 => buffer[driver] = <<>>
    <3> DEFINE s == Len(sent[driver])
               m == Len(answers[driver])
               b == Len(buffer[driver])
               w == Len(wire[driver])
    <3>1. /\ s \in Nat /\ m \in Nat /\ b \in Nat /\ w \in Nat /\ got \in Nat
          /\ s = m + b + w /\ got <= m /\ s <= got + debt
          /\ b = 0 => buffer[driver] = <<>>
      BY <2>1, Counted
    <3> HIDE DEF s, m, b, w
    <3> QED
      BY <3>1
  <2> QED
    BY <1>1, <2>1, <2>2
<1>6. AtWaiting'
  <2> DEFINE c == Head(Driver!Calls)
  <2> SUFFICES ASSUME at = "waiting"
               PROVE  /\ Driver!Calls # <<>>
                      /\ c.wants \notin {"exception", "nothing"}
                      /\ asked = Len(sent[driver]) - Len(c.sends) + 1 /\ got + 1 <= asked
                      /\ Len(sent[driver]) <= got + debt + 1
                      /\ sent[driver][asked] = c.sends[1]
                      /\ debt = 0 =>
                           IF Len(answers'[driver]) = got THEN display'.heading = Expected
                           ELSE Effect(c.sends[1], answers'[driver][got + 1].reply, Expected,
                                       display'.heading)
    BY <1>0, <1>3, Zenon DEF AtWaiting
  <2>1. /\ Driver!Calls # <<>>
        /\ c.wants \notin {"exception", "nothing"}
        /\ asked = Len(sent[driver]) - Len(c.sends) + 1 /\ got + 1 <= asked
        /\ Len(sent[driver]) <= got + debt + 1
        /\ sent[driver][asked] = c.sends[1]
        /\ debt = 0 =>
             IF Len(answers[driver]) = got THEN display.heading = Expected
             ELSE Effect(c.sends[1], answers[driver][got + 1].reply, Expected, display.heading)
    BY Zenon DEF Told, AtWaiting
  <2> DEFINE line == c.sends[1]
  <2> HIDE DEF c
  <2>2. ASSUME debt = 0
        PROVE  IF Len(answers'[driver]) = got THEN display'.heading = Expected
               ELSE Effect(line, answers'[driver][got + 1].reply, Expected, display'.heading)
    <3>1. /\ Len(sent[driver]) = got + 1 /\ asked = got + 1
          /\ Len(answers[driver]) # got =>
               Len(answers[driver]) = got + 1 /\ buffer[driver] = <<>>
      BY <2>2, NothingOwed DEF Told
    <3>2. CASE Len(answers[driver]) # got
      <4>1. /\ answers'[driver] = answers[driver] /\ display'.heading = display.heading
        BY <1>1, <3>1, <3>2
      <4> QED
        BY <2>1, <2>2, <3>2, <4>1
    <3>3. CASE Len(answers[driver]) = got /\ Quiet
      BY <2>1, <2>2, <3>3 DEF Quiet
    <3>4. CASE Len(answers[driver]) = got /\ \E r : Answered(r)
      <4>1. PICK r : Answered(r)
        BY <3>4
      <4>2. /\ answers'[driver] = Append(answers[driver], r) /\ buffer[driver] # <<>>
            /\ r.line = Head(buffer[driver])
            /\ Effect(r.line, r.reply, display.heading, display'.heading)
        BY <4>1 DEF Answered
      <4>3. Len(answers'[driver]) = got + 1 /\ answers'[driver][got + 1] = r
        BY <1>0, <3>4, <4>2, Appended
      <4>4. r.line = line
        <5>1. IsSeq(buffer[driver])
          BY DEF PortShape, InOrder
        <5>2. Head(buffer[driver]) = buffer[driver][1] /\ 1 \in 1 .. Len(buffer[driver])
          BY <4>2, <5>1, Shorter
        <5>3. buffer[driver][1] = sent[driver][Len(answers[driver]) + 1]
          BY <5>2 DEF PortShape, InOrder
        <5> QED
          BY <2>1, <3>1, <3>4, <4>2, <5>2, <5>3
      <4>5. display.heading = Expected
        BY <2>1, <2>2, <3>4
      <4>6. Effect(line, r.reply, Expected, display'.heading)
        BY <4>2, <4>4, <4>5, Zenon
      <4>7. Len(answers'[driver]) # got
        BY <4>3, Counted
      <4> QED
        BY <4>3, <4>6, <4>7, Zenon
    <3> QED
      BY <3>2, <3>3, <3>4 DEF PortStep
  <2> QED
    BY <2>1, <2>2, Zenon DEF line
<1> QED
  BY <1>2, <1>4, <1>5, <1>6 DEF Told

DriverInv ==
  /\ PortShape /\ Settled /\ QuitRead /\ ProgramShape /\ Told
  /\ Driver!InStep /\ Driver!StatusIsAsSet

LEMMA OwnPrograms == Driver!DriverInit => PortShape /\ ProgramShape
<1> SUFFICES ASSUME Driver!DriverInit PROVE PortShape /\ ProgramShape
  OBVIOUS
<1>1. PICK p \in Driver!Programs : attempt = p.attempt /\ cleanup = p.cleanup
  BY DEF Driver!DriverInit
<1>2. AllKinds(attempt) /\ Single(attempt) /\ AllKinds(cleanup)
  BY <1>1, ProgramKinds
<1>3. /\ at = "new" /\ asked = 0 /\ got = 0 /\ debt = 0 /\ results = <<>>
      /\ app = "constructing"
      /\ sock = [c \in {driver} |-> "none"] /\ reader = NoConn
      /\ wire = [c \in {driver} |-> <<>>] /\ buffer = [c \in {driver} |-> <<>>]
      /\ display = Driver!DefaultDisplay(TRUE)
      /\ sent = [c \in {driver} |-> <<>>] /\ answers = [c \in {driver} |-> <<>>]
  BY DEF Driver!DriverInit, Driver!Init
<1>4. /\ sock[driver] = "none" /\ wire[driver] = <<>> /\ buffer[driver] = <<>>
      /\ sent[driver] = <<>> /\ answers[driver] = <<>>
      /\ DOMAIN sock = {driver} /\ DOMAIN wire = {driver} /\ DOMAIN buffer = {driver}
      /\ DOMAIN sent = {driver} /\ DOMAIN answers = {driver}
  BY <1>3
<1>5. InOrder(<<>>, <<>>, <<>>, <<>>)
  BY NoLength DEF InOrder
<1>6. DisplayShape(display) /\ AllAtFirst(display)
  <2> DEFINE b == TRUE
  <2> HIDE DEF b
  <2>1. display = Driver!DefaultDisplay(b)
    BY <1>3 DEF b
  <2> QED
    BY <2>1, FirstDisplay
<1>7. PortShape
  BY <1>3, <1>4, <1>5, <1>6, TextsAssumption DEF PortShape
<1>8. ProgramShape
  BY <1>2, <1>3, <1>4, NoLength DEF ProgramShape
<1> QED
  BY <1>7, <1>8

LEMMA DriverInitially == Driver!DriverInit => DriverInv
<1> SUFFICES ASSUME Driver!DriverInit PROVE DriverInv
  OBVIOUS
<1>1. PortShape /\ ProgramShape
  BY OwnPrograms
<1>2. /\ at = "new" /\ got = 0 /\ debt = 0 /\ results = <<>> /\ sock[driver] = "none"
      /\ sent[driver] = <<>> /\ answers[driver] = <<>> /\ AllAtFirst(display)
  BY <1>1, TextsAssumption DEF Driver!DriverInit, Driver!Init, PortShape
<1>3. Settled
  BY <1>2 DEF Settled, SettledBy, AllAtFirst
<1>4. QuitRead /\ Told
  BY <1>2 DEF QuitRead, Told, AtNew, AtIdle, AtWaiting, AtClosed
<1>5. Driver!InStep /\ Driver!StatusIsAsSet
  BY <1>2 DEF Driver!InStep, Driver!StatusIsAsSet
<1> QED
  BY <1>1, <1>3, <1>4, <1>5 DEF DriverInv

(* The properties speak of the results alone.                              *)
LEMMA SameResultsSameTruth ==
  ASSUME DriverInv, results' = results
  PROVE  Driver!InStep' /\ Driver!StatusIsAsSet'
<1>1. Driver!InStep'
  BY DEF DriverInv, Driver!InStep
<1>2. Driver!StatusIsAsSet'
  <2>1. \A i : Driver!SetBefore(i)' = Driver!SetBefore(i)
    BY SetBeforeIs, Zenon
  <2> QED
    BY <2>1, Zenon DEF DriverInv, Driver!StatusIsAsSet
<1> QED
  BY <1>1, <1>2

LEMMA HeadingAtFirst ==
  ASSUME PortShape, Settled, sent[driver] = <<>>
  PROVE  display.heading = AtFirst
<1>1. Len(sent[driver]) = 0
  BY NoLength
<1>2. Len(answers[driver]) = 0
  BY <1>1, SeqLen DEF PortShape, InOrder
<1>3. "heading" \in Aspects /\ "0" \in Driver!Timers
  BY DEF Aspects, Driver!Timers
<1>4. Calm(sent[driver], 0, 0, "heading", "0")
  BY DEF Calm
<1>5. AsAtFirst(display, "heading", "0")
  BY <1>2, <1>3, <1>4 DEF Settled, SettledBy
<1> QED
  BY <1>5 DEF AsAtFirst

LEMMA DriverOpens == ASSUME DriverInv, Driver!open PROVE DriverInv'
<1>1. /\ at = "new" /\ at' = "idle" /\ Driver!onConnection(driver)
      /\ UNCHANGED <<attempt, cleanup, asked, got, debt, results>>
  BY DEF Driver!open
<1>2. /\ PortShape' /\ sock'[driver] = "open" /\ app' = "up"
      /\ UNCHANGED <<app, sent, answers, display>>
  BY <1>1, OpenStep DEF DriverInv
<1>3. Settled' /\ QuitRead'
  BY <1>2 DEF DriverInv, Settled, QuitRead
<1>4. ProgramShape'
  BY <1>1, <1>2 DEF DriverInv, ProgramShape
<1>5. Told'
  <2>1. sent[driver] = <<>> /\ results = <<>> /\ got = 0 /\ debt = 0
    BY <1>1 DEF DriverInv, Told, AtNew
  <2>2. Expected' = AtFirst
    <3>1. results' = <<>> /\ Len(results') = 0
      BY <1>1, <2>1, NoLength
    <3>2. Len(results') + 1 = 1
      BY <3>1
    <3>3. Before(results', 1) = AtFirst
      BY BeforeFirst
    <3> QED
      BY <3>2, <3>3, Zenon DEF Expected
  <2>3. display'.heading = AtFirst
    BY <1>2, <2>1, HeadingAtFirst DEF DriverInv
  <2>4. AtIdle'
    BY <1>1, <1>2, <2>1, <2>2, <2>3, NoLength DEF AtIdle
  <2> QED
    BY <1>1, <2>4 DEF Told, AtNew, AtWaiting, AtClosed
<1>6. Driver!InStep' /\ Driver!StatusIsAsSet'
  BY <1>1, SameResultsSameTruth
<1> QED
  BY <1>2, <1>3, <1>4, <1>5, <1>6 DEF DriverInv

(* What leaves the display and the connection alone.                       *)
LEMMA PortUntouched ==
  ASSUME DriverInv, UNCHANGED Driver!portVars
  PROVE  PortShape' /\ Settled' /\ QuitRead'
<1>1. UNCHANGED <<app, sock, wire, buffer, reader, display, sent, answers>>
  BY DEF Driver!portVars, Driver!vars, Driver!log
<1> QED
  BY <1>1, Zenon DEF DriverInv, PortShape, Settled, QuitRead

(* What the program has left to call when it goes on, and when it leaves.  *)
LEMMA CallsLeft ==
  ASSUME ProgramShape, Driver!Calls # <<>>, Driver!Returned \/ Driver!Leaves
  PROVE  /\ AllKinds(attempt)' /\ Single(attempt)' /\ AllKinds(cleanup)'
         /\ attempt' # <<>> => attempt # <<>>
<1>1. attempt = <<>> => cleanup # <<>>
  BY FirstCall DEF ProgramShape, Driver!Calls
<1>2. CASE Driver!Returned
  BY <1>1, <1>2, KindsLeft DEF ProgramShape, Driver!Returned
<1>3. CASE Driver!Leaves
  <2>1. AllKinds(<<Driver!close>>)
    <3> DEFINE c == Driver!close
    <3>1. CallKinds(c)
      BY KindsOfMethods
    <3> HIDE DEF c
    <3>2. <<c>> \in Seq({c}) /\ \A d \in {c} : CallKinds(d)
      BY <3>1
    <3> QED
      BY <3>1, SingleLine DEF AllKinds, c
  <2> QED
    BY <1>3, <2>1, NoCalls DEF Driver!Leaves
<1> QED
  BY <1>2, <1>3

LEMMA DriverGivesUp ==
  ASSUME DriverInv, Driver!ConnectionRefused \/ Driver!RaiseInvalid \/ Driver!BrokenPipe
  PROVE  DriverInv'
<1>1. /\ UNCHANGED <<Driver!portVars, asked, got, debt, results>>
      /\ at' \in {"raised", "idle"}
      /\ at' = "idle" => at = "idle"
      /\ \/ UNCHANGED <<attempt, cleanup>>
         \/ Driver!Leaves /\ Driver!Calls # <<>>
      /\ app # "constructing"
  BY DEF Driver!ConnectionRefused, Driver!RaiseInvalid, Driver!BrokenPipe, DriverInv,
     ProgramShape
<1>2. PortShape' /\ Settled' /\ QuitRead'
  BY <1>1, PortUntouched
<1>3. UNCHANGED <<app, sock, wire, buffer, reader, display, sent, answers>>
  BY <1>1 DEF Driver!portVars, Driver!vars, Driver!log
<1>4. ProgramShape'
  BY <1>1, <1>3, CallsLeft DEF DriverInv, ProgramShape
<1>5. Told'
  <2>1. Expected' = Expected
    BY <1>1 DEF Expected
  <2>2. AtIdle'
    BY <1>1, <1>3, <2>1, Zenon DEF DriverInv, Told, AtIdle
  <2> QED
    BY <1>1, <2>2 DEF Told, AtNew, AtWaiting, AtClosed
<1>6. Driver!InStep' /\ Driver!StatusIsAsSet'
  BY <1>1, SameResultsSameTruth
<1> QED
  BY <1>2, <1>4, <1>5, <1>6 DEF DriverInv

LEMMA DriverInterrupted == ASSUME DriverInv, Driver!KeyboardInterrupt PROVE DriverInv'
<1>1. /\ UNCHANGED <<Driver!portVars, cleanup, asked, got, results>>
      /\ at \in {"idle", "waiting"} /\ at' = "idle" /\ attempt # <<>> /\ attempt' = <<>>
      /\ debt' = Len(sent[driver]) - got
  BY DEF Driver!KeyboardInterrupt
<1>2. PortShape' /\ Settled' /\ QuitRead'
  BY <1>1, PortUntouched
<1>3. UNCHANGED <<app, sock, wire, buffer, reader, display, sent, answers>>
  BY <1>1 DEF Driver!portVars, Driver!vars, Driver!log
<1>4. debt = 0
  BY <1>1 DEF DriverInv, ProgramShape
<1>5. debt' \in Nat /\ Len(sent[driver]) = got + debt'
  <2> DEFINE s == Len(sent[driver])
             m == Len(answers[driver])
             b == Len(buffer[driver])
             w == Len(wire[driver])
  <2>1. /\ s \in Nat /\ m \in Nat /\ b \in Nat /\ w \in Nat /\ got \in Nat
        /\ s = m + b + w /\ got <= m /\ debt' = s - got
    BY <1>1, Counted DEF DriverInv
  <2> HIDE DEF s, m, b, w
  <2>2. debt' \in Nat /\ s = got + debt'
    BY <2>1
  <2> QED
    BY <2>2 DEF s
<1>6. ProgramShape'
  BY <1>1, <1>3, <1>5, NoCalls DEF DriverInv, ProgramShape
<1>7. AtIdle'
  <2>1. ASSUME debt' = 0, sock[driver] # "deleted" PROVE display.heading = Expected
    <3>1. at = "idle"
      BY <1>1, <1>4, <1>5, <2>1, NothingOwed, Counted DEF DriverInv, Told
    <3> QED
      BY <1>4, <2>1, <3>1 DEF DriverInv, Told, AtIdle
  <2>2. Expected' = Expected
    BY <1>1 DEF Expected
  <2>3. Len(sent[driver]) <= got + debt'
    BY <1>5, Counted DEF DriverInv
  <2>4. Len(sent'[driver]) <= got' + debt'
    BY <1>1, <1>3, <2>3
  <2> QED
    BY <1>1, <1>3, <2>1, <2>2, <2>4, Zenon DEF AtIdle
<1>8. Told'
  BY <1>1, <1>7 DEF Told, AtNew, AtWaiting, AtClosed
<1>9. Driver!InStep' /\ Driver!StatusIsAsSet'
  BY <1>1, SameResultsSameTruth
<1> QED
  BY <1>2, <1>6, <1>8, <1>9 DEF DriverInv

LEMMA SentMore ==
  ASSUME PortShape, NEW x, IsSeq(x),
         sent' = [sent EXCEPT ![driver] = @ \o x], wire' = [wire EXCEPT ![driver] = @ \o x],
         UNCHANGED <<app, sock, buffer, reader, display, answers>>
  PROVE  /\ PortShape' /\ Len(sent'[driver]) = Len(sent[driver]) + Len(x)
         /\ \A i \in 1 .. Len(sent[driver]) : sent'[driver][i] = sent[driver][i]
         /\ \A i \in 1 .. Len(x) : sent'[driver][Len(sent[driver]) + i] = x[i]
         /\ Settled => Settled'
         /\ QuitRead => QuitRead'
<1>1. /\ sent'[driver] = sent[driver] \o x /\ wire'[driver] = wire[driver] \o x
      /\ DOMAIN sent' = {driver} /\ DOMAIN wire' = {driver}
  BY DEF PortShape
<1>2. IsSeq(sent[driver])
  BY DEF PortShape, InOrder
<1>3. InOrder(sent[driver] \o x, answers[driver], buffer[driver], wire[driver] \o x)
  BY AskedInOrder DEF PortShape
<1>4. InOrder(sent[driver], answers[driver], buffer[driver], wire[driver])'
  BY <1>1, <1>3, Zenon
<1>5. PortShape'
  BY <1>1, <1>4 DEF PortShape
<1>6. /\ Len(sent'[driver]) = Len(sent[driver]) + Len(x)
      /\ \A i \in 1 .. Len(sent[driver]) : sent'[driver][i] = sent[driver][i]
      /\ \A i \in 1 .. Len(x) : sent'[driver][Len(sent[driver]) + i] = x[i]
  BY <1>1, <1>2, Joint
<1>7. Len(answers[driver]) \in Nat /\ \A i \in 1 .. Len(answers[driver]) : i \in 1 .. Len(sent[driver])
  BY SeqLen DEF PortShape, InOrder
<1>8. \A i \in 1 .. Len(answers[driver]) : sent'[driver][i] = sent[driver][i]
  BY <1>6, <1>7
<1> DEFINE s == sent[driver]
           u == sent'[driver]
           m == Len(answers[driver])
<1> HIDE DEF s, u, m
<1>9. /\ SettledBy(s, m, display) => SettledBy(u, m, display)
      /\ QuitBy(s, m) => QuitBy(u, m)
  BY <1>7, <1>8, MoreIsSent DEF s, u, m
<1>10. /\ Settled => Settled'
       /\ QuitRead => QuitRead'
  BY <1>9, Zenon DEF Settled, QuitRead, s, u, m
<1> QED
  BY <1>5, <1>6, <1>10

LEMMA DriverAsks == ASSUME DriverInv, Driver!Ask PROVE DriverInv'
<1> DEFINE c == Head(Driver!Calls)
           s == Len(sent[driver])
           l == Len(c.sends)
           m == Len(answers[driver])
<1>1. /\ at = "idle" /\ Driver!Calls # <<>> /\ sock[driver] # "deleted"
      /\ c.wants # "exception"
      /\ wire' = [wire EXCEPT ![driver] = @ \o c.sends]
      /\ sent' = [sent EXCEPT ![driver] = @ \o c.sends]
      /\ asked' = s + 1 /\ debt' = debt + l - 1
      /\ at' = IF Driver!Awaits(c) THEN "waiting"
               ELSE IF c.wants = "nothing" THEN "closed" ELSE "idle"
      /\ IF Driver!Awaits(c) THEN UNCHANGED <<attempt, cleanup>> ELSE Driver!Returned
      /\ UNCHANGED <<app, tcpServer, sock, buffer, reader, display, script, saved, answers,
                     history, got, results>>
  BY DEF Driver!Ask, Driver!log
<1>2. /\ CallKinds(c)
      /\ attempt # <<>> => l = 1
  BY <1>1, InHand DEF DriverInv
<1>3. l \in Nat \ {0} /\ IsSeq(c.sends)
  BY <1>1, <1>2, SendsOne
<1>4. /\ PortShape' /\ Settled' /\ QuitRead'
      /\ Len(sent'[driver]) = s + l /\ sent'[driver][s + 1] = c.sends[1]
  <2> DEFINE x == c.sends
  <2>1. /\ sent' = [sent EXCEPT ![driver] = @ \o x] /\ wire' = [wire EXCEPT ![driver] = @ \o x]
        /\ IsSeq(x)
    BY <1>1, <1>3
  <2>2. l = Len(x) /\ 1 \in 1 .. Len(x)
    BY <1>3
  <2> HIDE DEF x
  <2>3. /\ PortShape' /\ Settled' /\ QuitRead'
        /\ Len(sent'[driver]) = s + Len(x)
        /\ \A i \in 1 .. Len(x) : sent'[driver][s + i] = x[i]
    BY <1>1, <2>1, SentMore DEF DriverInv
  <2>4. sent'[driver][s + 1] = x[1]
    BY <2>2, <2>3
  <2> QED
    BY <2>2, <2>3, <2>4 DEF x
<1>5. /\ s \in Nat /\ m \in Nat /\ got \in Nat /\ debt \in Nat /\ got <= m /\ m <= s
      /\ s <= got + debt
      /\ debt = 0 => display.heading = Expected
  <2> DEFINE b == Len(buffer[driver])
             w == Len(wire[driver])
  <2>1. /\ s \in Nat /\ m \in Nat /\ b \in Nat /\ w \in Nat /\ got \in Nat /\ debt \in Nat
        /\ s = m + b + w /\ got <= m
    BY Counted DEF DriverInv
  <2>2. /\ s <= got + debt
        /\ debt = 0 => display.heading = Expected
    BY <1>1 DEF DriverInv, Told, AtIdle
  <2> HIDE DEF s, m, b, w
  <2> QED
    BY <2>1, <2>2
<1>6. /\ attempt # <<>> => debt = 0
      /\ attempt' # <<>> => attempt # <<>>
      /\ AllKinds(attempt)' /\ Single(attempt)' /\ AllKinds(cleanup)'
  BY <1>1, CallsLeft DEF DriverInv, ProgramShape
<1>7. /\ ~Driver!Awaits(c) => c.wants = "nothing"
      /\ Driver!Awaits(c) => c.wants \notin {"exception", "nothing"}
  BY <1>1 DEF Driver!Awaits
<1>8. m' = m /\ Expected' = Expected /\ app # "constructing"
  BY <1>1 DEF Expected, DriverInv, ProgramShape
<1> DEFINE z == Len(sent'[driver])
<1> HIDE DEF s, l, m, z
<1>9. /\ asked' \in Nat /\ debt' \in Nat /\ (attempt' # <<>> => debt' = 0)
      /\ z = s + l /\ asked' = z - l + 1 /\ got + 1 <= asked' /\ z <= got + debt' + 1
      /\ debt' = 0 => debt = 0 /\ m = got
  BY <1>1, <1>2, <1>3, <1>4, <1>5, <1>6 DEF z
<1>10. ProgramShape'
  <2>1. /\ at' \in {"new", "idle", "waiting", "closed", "raised"}
        /\ app' # "constructing" /\ got' = got /\ results' = results
    BY <1>1, <1>7, <1>8
  <2>2. /\ IsSeq(results) /\ got' <= Len(answers'[driver]) /\ got \in Nat
    BY <1>1, <1>5, <1>8 DEF m, DriverInv, ProgramShape
  <2> QED
    BY <1>6, <1>9, <2>1, <2>2 DEF ProgramShape
<1>11. Told'
  <2>1. CASE Driver!Awaits(c)
    <3>1. at' = "waiting" /\ Driver!Calls' = Driver!Calls /\ got' = got
      BY <1>1, <2>1 DEF Driver!Calls
    <3>2. /\ Driver!Calls # <<>> /\ c.wants \notin {"exception", "nothing"}
          /\ sent'[driver][asked'] = c.sends[1]
          /\ asked' = z - Len(c.sends) + 1
      BY <1>1, <1>4, <1>7, <1>9, <2>1 DEF l
    <3>3. debt' = 0 => Len(answers'[driver]) = got /\ display'.heading = Expected
      BY <1>1, <1>5, <1>9 DEF m
    <3> HIDE DEF c
    <3>4. AtWaiting'
      BY <1>8, <1>9, <3>1, <3>2, <3>3, Zenon DEF AtWaiting, c, z
    <3> QED
      BY <3>1, <3>4 DEF Told, AtNew, AtIdle, AtClosed
  <2>2. CASE ~Driver!Awaits(c)
    <3>1. at' = "closed" /\ got' = got
      BY <1>1, <1>7, <2>2
    <3>2. Len(sent'[driver]) <= got' + debt' + 1
      BY <1>9, <3>1 DEF z
    <3> QED
      BY <3>1, <3>2 DEF Told, AtNew, AtIdle, AtWaiting, AtClosed
  <2> QED
    BY <2>1, <2>2
<1>12. Driver!InStep' /\ Driver!StatusIsAsSet'
  BY <1>1, SameResultsSameTruth
<1> QED
  BY <1>4, <1>10, <1>11, <1>12 DEF DriverInv

LEMMA DriverLooksOn ==
  ASSUME DriverInv, PortStep, UNCHANGED Driver!driverVars
  PROVE  DriverInv'
<1>1. UNCHANGED <<attempt, cleanup, at, asked, got, debt, results>>
  BY DEF Driver!driverVars
<1>2. PortShape' /\ Settled' /\ QuitRead'
  BY SettledKept DEF DriverInv, PortStep
<1>3. ProgramShape' /\ Told'
  BY <1>1, ToldByProgram DEF DriverInv
<1>4. Driver!InStep' /\ Driver!StatusIsAsSet'
  BY <1>1, SameResultsSameTruth
<1> QED
  BY <1>2, <1>3, <1>4 DEF DriverInv

LEMMA DriverHangsUp == ASSUME DriverInv, Driver!Disconnected PROVE DriverInv'
<1>1. /\ UNCHANGED <<attempt, cleanup, at, asked, got, debt, results>>
      /\ Driver!Hangup(driver) /\ at \in {"closed", "raised"}
  BY DEF Driver!Disconnected, Driver!driverVars
<1>2. /\ PortShape' /\ sock'[driver] = "deleted" /\ UNCHANGED <<app, sent, answers, display>>
  BY <1>1, HangupStep DEF DriverInv
<1>3. Settled' /\ QuitRead'
  BY <1>2 DEF DriverInv, Settled, QuitRead
<1>4. ProgramShape'
  BY <1>1, <1>2 DEF DriverInv, ProgramShape
<1>5. Told'
  BY <1>1, <1>2 DEF DriverInv, Told, AtNew, AtIdle, AtWaiting, AtClosed
<1>6. Driver!InStep' /\ Driver!StatusIsAsSet'
  BY <1>1, SameResultsSameTruth
<1> QED
  BY <1>2, <1>3, <1>4, <1>5, <1>6 DEF DriverInv

(* What a method makes of a single reply.                                  *)
LEMMA ValueOfOK ==
  ASSUME NEW seen
  PROVE  Driver!Value("ok", seen) = [is |-> "bool", holds |-> seen = <<Driver!OK>>]
  BY DEF Driver!Value

LEMMA ValueIsOfKind ==
  ASSUME NEW wants \in {"ok", "list", "status"}, NEW seen
  PROVE  /\ Driver!Value(wants, seen).is = "bool" => wants = "ok"
         /\ Driver!Value(wants, seen).is = "status" =>
              /\ wants = "status" /\ Driver!Statuses(seen) # {}
              /\ Driver!Value(wants, seen).of.heading = Driver!FirstStatus(seen)[2]
<1> DEFINE v == Driver!Value(wants, seen)
<1>1. CASE wants = "ok"
  <2>1. v.is = "bool"
    BY <1>1 DEF Driver!Value
  <2> QED
    BY <1>1, <2>1
<1>2. CASE wants = "list"
  <2>1. v.is = "list"
    BY <1>2 DEF Driver!Value
  <2> QED
    BY <2>1
<1>3. CASE wants = "status" /\ Driver!Statuses(seen) # {}
  <2>1. v = [is |-> "status", of |-> Driver!Status(Driver!FirstStatus(seen))]
    BY <1>3 DEF Driver!Value
  <2>2. \A f : Driver!Status(f).heading = f[2]
    BY DEF Driver!Status
  <2> HIDE DEF v
  <2>3. v.of.heading = Driver!FirstStatus(seen)[2] /\ v.is = "status"
    BY <2>1, <2>2
  <2> QED
    BY <1>3, <2>3 DEF v
<1>4. CASE wants = "status" /\ Driver!Statuses(seen) = {}
  <2>1. v = [is |-> "exception"]
    BY <1>4 DEF Driver!Value
  <2>2. v.is = "exception"
    BY <2>1
  <2> QED
    BY <2>2
<1> QED
  BY <1>1, <1>2, <1>3, <1>4

LEMMA OneReplyIsOK ==
  ASSUME NEW seen, seen \in [1 .. 1 -> {seen[1]}]
  PROVE  seen = <<Driver!OK>> <=> seen[1] = Driver!OK
<1> DEFINE x == seen[1]
           y == Driver!OK
<1>1. seen = [k \in 1 .. 1 |-> x]
  OBVIOUS
<1>2. <<y>> = [k \in 1 .. 1 |-> y]
  OBVIOUS
<1>3. <<y>>[1] = y
  OBVIOUS
<1> HIDE DEF x, y
<1>4. x = y => seen = <<y>>
  BY <1>1, <1>2, Zenon
<1>5. seen = <<y>> => seen[1] = y
  BY <1>3, Zenon
<1> QED
  BY <1>4, <1>5 DEF x, y

LEMMA OneReplyStatus ==
  ASSUME NEW seen, seen \in [1 .. 1 -> {seen[1]}], Driver!Statuses(seen) # {}
  PROVE  Driver!FirstStatus(seen) = seen[1] /\ seen[1][1] = "STAT"
<1>1. Driver!Statuses(seen) = {1} /\ seen[1][1] = "STAT"
  BY DEF Driver!Statuses
<1>2. Driver!FirstStatus(seen) = seen[CHOOSE k \in {1} : \A j \in {1} : k <= j]
  BY <1>1, Zenon DEF Driver!FirstStatus
<1>3. (CHOOSE k \in {1} : \A j \in {1} : k <= j) = 1
  OBVIOUS
<1> QED
  BY <1>1, <1>2, <1>3

LEMMA DriverReceives == ASSUME DriverInv, NEW n \in Nat, Driver!Receive(n) PROVE DriverInv'
<1> DEFINE c == Head(Driver!Calls)
           s == Len(sent[driver])
           l == Len(c.sends)
           m == Len(answers[driver])
           L == Len(results)
           seen == [k \in 1 .. n |-> answers[driver][got + k].reply]
           v == Driver!Value(c.wants, seen)
           r == [line |-> c.sends[1], asked |-> asked, first |-> got + 1,
                 n |-> n, debt |-> debt, value |-> v]
<1>1. /\ at = "waiting" /\ got + n <= m /\ (n = 0 => sock[driver] = "deleted")
      /\ results' = Append(results, r)
      /\ IF v.is = "exception" THEN Driver!Leaves ELSE Driver!Returned
      /\ at' = "idle" /\ got' = got + n /\ UNCHANGED <<Driver!portVars, asked, debt>>
  BY DEF Driver!Receive
<1>2. UNCHANGED <<app, sock, wire, buffer, reader, display, sent, answers>>
  BY <1>1 DEF Driver!portVars, Driver!vars, Driver!log
<1>3. PortShape' /\ Settled' /\ QuitRead'
  BY <1>1, PortUntouched
<1>4. /\ Driver!Calls # <<>> /\ c.wants \in {"ok", "list", "status"} /\ CallKinds(c)
      /\ asked = s - l + 1 /\ got + 1 <= asked /\ s <= got + debt + 1
      /\ debt = 0 => IF m = got THEN display.heading = Expected
                     ELSE Effect(c.sends[1], answers[driver][got + 1].reply, Expected,
                                 display.heading)
  <2>1. /\ Driver!Calls # <<>> /\ c.wants \notin {"exception", "nothing"}
        /\ asked = s - l + 1 /\ got + 1 <= asked /\ s <= got + debt + 1
        /\ debt = 0 => IF m = got THEN display.heading = Expected
                       ELSE Effect(c.sends[1], answers[driver][got + 1].reply, Expected,
                                   display.heading)
    BY <1>1, Zenon DEF DriverInv, Told, AtWaiting
  <2>2. CallKinds(c)
    BY <2>1, InHand DEF DriverInv
  <2> HIDE DEF c
  <2>3. c.wants \in {"ok", "list", "status"}
    BY <2>1, <2>2 DEF CallKinds
  <2> QED
    BY <2>1, <2>2, <2>3, Zenon
<1>5. l \in Nat \ {0}
  BY <1>4, SendsOne
<1>6. /\ s \in Nat /\ m \in Nat /\ got \in Nat /\ debt \in Nat /\ asked \in Nat /\ L \in Nat
      /\ got <= m /\ m <= s
  <2> DEFINE b == Len(buffer[driver])
             w == Len(wire[driver])
  <2>1. /\ s \in Nat /\ m \in Nat /\ b \in Nat /\ w \in Nat /\ got \in Nat /\ debt \in Nat
        /\ s = m + b + w /\ got <= m /\ asked \in Nat /\ L \in Nat
    BY Counted DEF DriverInv
  <2> HIDE DEF s, m, b, w, L
  <2> QED
    BY <2>1
<1>7. /\ IsSeq(results') /\ Len(results') = L + 1 /\ results'[L + 1] = r
      /\ \A i \in 1 .. L : results'[i] = results[i]
  <2> HIDE DEF r
  <2> QED
    BY <1>1, Appended DEF DriverInv, ProgramShape
<1>8. DOMAIN results = 1 .. L /\ DOMAIN results' = 1 .. L + 1
  BY <1>7, SeqLen DEF DriverInv, ProgramShape
<1>9. /\ r.line = c.sends[1] /\ r.asked = asked /\ r.first = got + 1 /\ r.n = n
      /\ r.debt = debt /\ r.value = v
  OBVIOUS
<1>10. /\ n = 1 => seen \in [1 .. 1 -> {seen[1]}] /\ seen[1] = answers[driver][got + 1].reply
       /\ n = 0 => Driver!Statuses(seen) = {}
  <2>1. n = 1 => seen \in [1 .. 1 -> {seen[1]}] /\ seen[1] = answers[driver][got + 1].reply
    OBVIOUS
  <2>2. n = 0 => Driver!Statuses(seen) = {}
    BY DEF Driver!Statuses
  <2> QED
    BY <2>1, <2>2
<1>11. CallKinds(c) /\ (v.is = "bool" => c.wants = "ok")
       /\ (v.is = "status" => /\ c.wants = "status" /\ Driver!Statuses(seen) # {}
                              /\ v.of.heading = Driver!FirstStatus(seen)[2])
       /\ (c.wants = "ok" => v = [is |-> "bool", holds |-> seen = <<Driver!OK>>])
  <2> DEFINE wants == c.wants
  <2>1. wants \in {"ok", "list", "status"}
    BY <1>4
  <2> HIDE DEF seen, wants
  <2>2. /\ Driver!Value(wants, seen).is = "bool" => wants = "ok"
        /\ Driver!Value(wants, seen).is = "status" =>
              /\ wants = "status" /\ Driver!Statuses(seen) # {}
              /\ Driver!Value(wants, seen).of.heading = Driver!FirstStatus(seen)[2]
        /\ wants = "ok" => Driver!Value(wants, seen) = [is |-> "bool", holds |-> seen = <<Driver!OK>>]
    BY <2>1, ValueIsOfKind, ValueOfOK
  <2> QED
    BY <1>4, <2>2, Zenon DEF wants
<1> HIDE DEF c, s, l, m, L, seen, v, r
<1>12. /\ debt = 0 => /\ n <= 1
                      /\ n # 0 => n = 1 /\ m # got
       /\ s <= got + n + debt \/ n = 0
       /\ asked - (got + 1) <= debt /\ got + 1 <= asked
  BY <1>1, <1>4, <1>5, <1>6
(* While nothing is owed the one reply is that of the call.                *)
<1>13. ASSUME debt = 0, n # 0
       PROVE  /\ Effect(r.line, seen[1], Expected, display.heading)
              /\ HeadingSet(r) <=> r.line.cmd \in SetsHeading /\ seen[1] = Driver!OK
  <2>1. n = 1 /\ m # got
    BY <1>12, <1>13
  <2>2. seen \in [1 .. 1 -> {seen[1]}] /\ seen[1] = answers[driver][got + 1].reply
    BY <1>10, <2>1
  <2>3. Effect(r.line, seen[1], Expected, display.heading)
    BY <1>4, <1>9, <1>13, <2>1, <2>2, Zenon
  <2>4. seen = <<Driver!OK>> <=> seen[1] = Driver!OK
    BY <2>2, OneReplyIsOK
  <2>5. ASSUME r.line.cmd \in SetsHeading
        PROVE  v = [is |-> "bool", holds |-> TRUE] <=> seen[1] = Driver!OK
    <3>1. c.wants = "ok"
      BY <1>4, <1>9, <2>5 DEF CallKinds, SetsHeading
    <3>2. v = [is |-> "bool", holds |-> seen = <<Driver!OK>>]
      BY <1>11, <3>1
    <3> QED
      BY <2>4, <3>2
  <2>6. HeadingSet(r) <=> r.line.cmd \in SetsHeading /\ seen[1] = Driver!OK
    BY <1>9, <2>5, Zenon DEF HeadingSet
  <2> QED
    BY <2>3, <2>6
<1>14. \A i \in 1 .. L + 1 : Before(results', i) = Before(results, i)
  <2> SUFFICES ASSUME NEW i \in 1 .. L + 1 PROVE Before(results', i) = Before(results, i)
    OBVIOUS
  <2>1. \A j \in 1 .. i - 1 : results'[j] = results[j]
    BY <1>6, <1>7
  <2> QED
    BY <1>6, <2>1, BeforeKept
<1>15. Expected = Before(results, L + 1) /\ L + 1 \in 1 .. L + 1
  BY <1>6 DEF Expected, L
<1>16. ASSUME debt = 0, n # 0 PROVE display.heading = Expected'
  <2>1. Before(results', (L + 1) + 1) =
          IF HeadingSet(r) THEN Heading(r.line) ELSE Before(results', L + 1)
    <3>1. L + 1 \in Nat \ {0} /\ results'[L + 1] = r
      BY <1>6, <1>7
    <3>2. Before(results', (L + 1) + 1)
            = IF HeadingSet(results'[L + 1]) THEN Heading(results'[L + 1].line)
              ELSE Before(results', L + 1)
      BY <3>1, BeforeNext, Zenon
    <3> QED
      BY <3>1, <3>2, Zenon
  <2>2. Before(results', L + 1) = Expected
    BY <1>14, <1>15
  <2>3. display.heading = IF HeadingSet(r) THEN Heading(r.line) ELSE Expected
    BY <1>13, <1>16, Zenon DEF Effect
  <2>4. Expected' = Before(results', (L + 1) + 1)
    BY <1>7, Zenon DEF Expected
  <2> QED
    BY <2>1, <2>2, <2>3, <2>4, Zenon
<1>17. ProgramShape'
  <2>1. Driver!Returned \/ Driver!Leaves
    BY <1>1
  <2>2. /\ AllKinds(attempt)' /\ Single(attempt)' /\ AllKinds(cleanup)'
        /\ attempt' # <<>> => attempt # <<>>
    BY <1>4, <2>1, CallsLeft DEF DriverInv
  <2>3. got' \in Nat /\ got' <= m
    BY <1>1, <1>6
  <2>4. Len(answers'[driver]) = m
    BY <1>2 DEF m
  <2>5. /\ attempt # <<>> => debt = 0
        /\ app = "constructing" => at = "new"
    BY DEF DriverInv, ProgramShape
  <2> QED
    BY <1>1, <1>2, <1>6, <1>7, <2>2, <2>3, <2>4, <2>5 DEF ProgramShape
<1>18. Told'
  <2>1. ASSUME sock'[driver] # "deleted"
        PROVE  /\ Len(sent'[driver]) <= got' + debt'
               /\ debt' = 0 => display'.heading = Expected'
    <3>1. n # 0
      BY <1>1, <1>2, <2>1
    <3>2. s <= got + n + debt /\ Len(sent'[driver]) = s
      BY <1>2, <1>6, <1>12, <3>1 DEF s
    <3>3. Len(sent'[driver]) <= got' + debt'
      BY <1>1, <3>2
    <3> QED
      BY <1>1, <1>2, <1>16, <3>1, <3>3, Zenon
  <2>2. AtIdle'
    BY <2>1 DEF AtIdle
  <2> QED
    BY <1>1, <2>2 DEF Told, AtNew, AtWaiting, AtClosed
<1>19. Driver!InStep'
  <2>1. ASSUME NEW i \in DOMAIN results', results'[i].n > 0
        PROVE  /\ results'[i].asked - results'[i].first <= results'[i].debt
               /\ results'[i].first <= results'[i].asked
    <3>1. CASE i \in 1 .. L
      BY <1>7, <1>8, <2>1, <3>1 DEF DriverInv, Driver!InStep
    <3>2. CASE i = L + 1
      BY <1>7, <1>9, <1>12, <3>2
    <3> QED
      BY <1>6, <1>8, <3>1, <3>2
  <2> QED
    BY <2>1 DEF Driver!InStep
<1>20. Driver!StatusIsAsSet'
  <2>1. ASSUME NEW i \in DOMAIN results', results'[i].debt = 0, results'[i].value.is = "status"
        PROVE  results'[i].value.of.heading = Before(results, i) /\ i \in 1 .. L + 1
    <3>1. CASE i \in 1 .. L
      <4>1. results[i].value.of.heading = Driver!SetBefore(i)
        BY <1>7, <1>8, <2>1, <3>1, Zenon DEF DriverInv, Driver!StatusIsAsSet
      <4> QED
        BY <1>7, <1>8, <3>1, <4>1, SetBeforeIs
    <3>2. CASE i = L + 1
      <4>1. debt = 0 /\ v.is = "status" /\ results'[i].value = v
        BY <1>7, <1>9, <2>1, <3>2
      <4>2. /\ c.wants = "status" /\ Driver!Statuses(seen) # {}
            /\ v.of.heading = Driver!FirstStatus(seen)[2]
        BY <1>11, <4>1
      <4>3. n # 0
        BY <1>10, <4>2
      <4>4. n = 1 /\ seen \in [1 .. 1 -> {seen[1]}]
        BY <1>10, <1>12, <4>1, <4>3
      <4>5. Driver!FirstStatus(seen) = seen[1] /\ seen[1][1] = "STAT"
        BY <4>2, <4>4, OneReplyStatus
      <4>6. r.line.cmd = "STAT"
        BY <1>9, <1>11, <4>2 DEF CallKinds
      <4>7. seen[1][2] = Expected
        BY <1>13, <4>1, <4>3, <4>5, <4>6, Zenon DEF Effect
      <4>8. results'[i].value.of.heading = Expected
        BY <4>1, <4>2, <4>5, <4>7, Zenon
      <4> QED
        BY <1>15, <3>2, <4>8, Zenon
    <3> QED
      BY <1>6, <1>8, <3>1, <3>2
  <2>2. \A i : Driver!SetBefore(i)' = Before(results', i)
    BY SetBeforeIs, Zenon
  <2> QED
    BY <1>14, <2>1, <2>2, Zenon DEF Driver!StatusIsAsSet
<1> QED
  BY <1>3, <1>17, <1>18, <1>19, <1>20 DEF DriverInv

AreJoined(s, p, q, r) ==
  /\ IsSeq(s) /\ Len(s) = Len(p) + Len(q) + Len(r)
  /\ \A i \in 1 .. Len(p) : s[i] = p[i]
  /\ \A i \in 1 .. Len(q) : s[Len(p) + i] = q[i]
  /\ \A i \in 1 .. Len(r) : s[Len(p) + Len(q) + i] = r[i]

LEMMA JoinedTwice ==
  ASSUME NEW p, NEW q, NEW r, IsSeq(p), IsSeq(q), IsSeq(r)
  PROVE  AreJoined((p \o q) \o r, p, q, r)
<1>1. PICK P : p \in Seq(P)
  BY DEF IsSeq
<1>2. PICK Q : q \in Seq(Q)
  BY DEF IsSeq
<1>3. PICK R : r \in Seq(R)
  BY DEF IsSeq
<1> DEFINE U == P \cup Q \cup R
<1>4. p \in Seq(U) /\ q \in Seq(U) /\ r \in Seq(U)
  BY <1>1, <1>2, <1>3
<1> HIDE DEF U
<1>5. (p \o q) \o r \in Seq(U)
  BY <1>4
<1> QED
  BY <1>4, <1>5 DEF IsSeq, AreJoined

LEMMA FourCalls ==
  ASSUME NEW a, NEW b, NEW c, NEW d
  PROVE  LET s == <<a, b, c, d>> IN
         IsSeq(s) /\ Len(s) = 4 /\ s[1] = a /\ s[2] = b /\ s[3] = c /\ s[4] = d
<1>1. <<a, b, c, d>> \in Seq({a, b, c, d})
  OBVIOUS
<1> QED
  BY <1>1, Zenon DEF IsSeq

(* Calls of one line each, the last of them and no other the QUIT.         *)
Scripted(todo) ==
  /\ IsSeq(todo)
  /\ \A i \in 1 .. Len(todo) :
       /\ IsSeq(todo[i].sends) /\ Len(todo[i].sends) = 1 /\ todo[i].wants # "exception"
       /\ todo[i].wants = "nothing" <=> i = Len(todo)
       /\ todo[i].sends[1].cmd = "QUIT" <=> i = Len(todo)

Own == Driver!Demonstration.cleanup
Tests == Driver!UnitTests.cleanup

LEMMA OwnLines ==
  /\ Scripted(Own) /\ Len(Own) = 6
  /\ OneLine(Own[1], "REST", <<>>, "ok")
  /\ OneLine(Own[2], "ELAP", <<"0", "STOP">>, "ok")
  /\ OneLine(Own[3], "ELAP", <<"0", "0">>, "ok")
  /\ OneLine(Own[4], "ELAP", <<"1", "STOP">>, "ok")
  /\ OneLine(Own[5], "ELAP", <<"1", "0">>, "ok")
  /\ OneLine(Own[6], "QUIT", <<>>, "nothing")
<1> DEFINE z0 == Driver!stop_elapsed("0")
           h0 == Driver!set_elapsed("0", "0")
           z1 == Driver!stop_elapsed("1")
           h1 == Driver!set_elapsed("1", "0")
           r0 == Driver!reset
           c0 == Driver!close
<1>1. "0" \in Driver!Timers /\ "1" \in Driver!Timers
  BY DEF Driver!Timers
<1>2. /\ OneLine(z0, "ELAP", <<"0", "STOP">>, "ok") /\ OneLine(h0, "ELAP", <<"0", "0">>, "ok")
      /\ OneLine(z1, "ELAP", <<"1", "STOP">>, "ok") /\ OneLine(h1, "ELAP", <<"1", "0">>, "ok")
      /\ OneLine(r0, "REST", <<>>, "ok") /\ OneLine(c0, "QUIT", <<>>, "nothing")
  BY <1>1, Methods
<1>3. Own = (<<r0>> \o <<z0, h0, z1, h1>>) \o <<c0>>
  BY DEF Own, Driver!Demonstration, Driver!elapsed_reset
<1> HIDE DEF z0, h0, z1, h1, r0, c0
<1> DEFINE p == <<r0>>
           q == <<z0, h0, z1, h1>>
           r == <<c0>>
<1>4. /\ IsSeq(p) /\ IsSeq(q) /\ IsSeq(r) /\ Len(p) = 1 /\ Len(q) = 4 /\ Len(r) = 1
      /\ p[1] = r0 /\ q[1] = z0 /\ q[2] = h0 /\ q[3] = z1 /\ q[4] = h1 /\ r[1] = c0
  BY SingleLine, FourCalls, Zenon
<1> HIDE DEF p, q, r
<1>5. Own = (p \o q) \o r
  BY <1>3, Zenon DEF p, q, r
<1>10. /\ IsSeq(Own) /\ Len(Own) = 6
       /\ Own[1] = p[1] /\ Own[2] = q[1] /\ Own[3] = q[2] /\ Own[4] = q[3]
       /\ Own[5] = q[4] /\ Own[6] = r[1]
  <2>1. AreJoined(Own, p, q, r)
    BY <1>4, <1>5, JoinedTwice, Zenon
  <2> QED
    BY <1>4, <2>1 DEF AreJoined
<1>6. /\ IsSeq(Own) /\ Len(Own) = 6
      /\ OneLine(Own[1], "REST", <<>>, "ok")
      /\ OneLine(Own[2], "ELAP", <<"0", "STOP">>, "ok")
      /\ OneLine(Own[3], "ELAP", <<"0", "0">>, "ok")
      /\ OneLine(Own[4], "ELAP", <<"1", "STOP">>, "ok")
      /\ OneLine(Own[5], "ELAP", <<"1", "0">>, "ok")
      /\ OneLine(Own[6], "QUIT", <<>>, "nothing")
  BY <1>2, <1>4, <1>10, Zenon
<1>7. \A i \in 1 .. 6 : i = 1 \/ i = 2 \/ i = 3 \/ i = 4 \/ i = 5 \/ i = 6
  OBVIOUS
<1>8. \A i \in 1 .. 6 :
        /\ IsSeq(Own[i].sends) /\ Len(Own[i].sends) = 1 /\ Own[i].wants # "exception"
        /\ Own[i].wants = "nothing" <=> i = 6
        /\ Own[i].sends[1].cmd = "QUIT" <=> i = 6
  BY <1>6, <1>7 DEF OneLine
<1>9. Scripted(Own)
  BY <1>6, <1>8, Zenon DEF Scripted
<1> QED
  BY <1>6, <1>9

LEMMA TestsLines ==
  /\ Scripted(Tests) /\ Len(Tests) = 16
  /\ \A i \in 1 .. 16 : Tests[i].sends[1].cmd # "ELAP"
  /\ OneLine(Tests[15], "REST", <<>>, "ok")
<1> DEFINE r0 == Driver!reset
           l0 == Driver!get_script_list
           l1 == Driver!get_style_list
           h0 == Driver!set_heading(Driver!PlainText("a"))
           g0 == Driver!get_status
           m0 == Driver!set_message(Driver!PlainText("b"))
           t0 == Driver!set_text(Driver!PlainText("c"), Driver!PlainText("c"))
           n0 == Driver!set_time(FALSE)
           y0 == Driver!set_time(TRUE)
           c0 == Driver!close
           S == {r0, l0, l1, h0, g0, m0, t0, n0, y0}
           s == <<r0, l0, l1, h0, g0, m0, g0, t0, g0, g0, n0, g0, y0, g0, r0, c0>>
<1>1. Tests = s
  BY DEF Tests, Driver!UnitTests
<1>2. /\ \E a : OneLine(r0, "REST", a, "ok")
      /\ \E a : OneLine(l0, "LIST", a, "list")
      /\ \E a : OneLine(l1, "LIST", a, "list")
      /\ \E a : OneLine(h0, "HEAD", a, "ok")
      /\ \E a : OneLine(g0, "STAT", a, "status")
      /\ \E a : OneLine(m0, "MESG", a, "ok")
      /\ \E a : OneLine(t0, "TEXT", a, "ok")
      /\ \E a : OneLine(n0, "TIME", a, "ok")
      /\ \E a : OneLine(y0, "TIME", a, "ok")
      /\ OneLine(c0, "QUIT", <<>>, "nothing")
      /\ OneLine(r0, "REST", <<>>, "ok")
  BY Methods, PlainTextIsShort, Zenon
<1> HIDE DEF r0, l0, l1, h0, g0, m0, t0, n0, y0, c0
<1>3. s \in Seq(S \cup {c0}) /\ Len(s) = 16
  OBVIOUS
<1>4. /\ \A i \in 1 .. 15 : s[i] \in S
      /\ s[15] = r0 /\ s[16] = c0
  OBVIOUS
<1>5. \A c \in S : /\ IsSeq(c.sends) /\ Len(c.sends) = 1
                   /\ c.wants # "exception" /\ c.wants # "nothing"
                   /\ c.sends[1].cmd # "QUIT" /\ c.sends[1].cmd # "ELAP"
  BY <1>2 DEF OneLine
<1> HIDE DEF S, s
<1>6. /\ IsSeq(c0.sends) /\ Len(c0.sends) = 1 /\ c0.wants = "nothing"
      /\ c0.sends[1].cmd = "QUIT"
  BY <1>2 DEF OneLine
<1>7. \A i \in 1 .. 16 :
        /\ IsSeq(s[i].sends) /\ Len(s[i].sends) = 1 /\ s[i].wants # "exception"
        /\ s[i].wants = "nothing" <=> i = 16
        /\ s[i].sends[1].cmd = "QUIT" <=> i = 16
        /\ s[i].sends[1].cmd # "ELAP"
  <2> SUFFICES ASSUME NEW i \in 1 .. 16
               PROVE  /\ IsSeq(s[i].sends) /\ Len(s[i].sends) = 1 /\ s[i].wants # "exception"
                      /\ s[i].wants = "nothing" <=> i = 16
                      /\ s[i].sends[1].cmd = "QUIT" <=> i = 16
                      /\ s[i].sends[1].cmd # "ELAP"
    OBVIOUS
  <2>1. CASE i = 16
    BY <1>4, <1>6, <2>1
  <2>2. CASE i # 16
    <3>1. s[i] \in S
      BY <1>4, <2>2
    <3> QED
      BY <1>5, <2>2, <3>1
  <2> QED
    BY <2>1, <2>2
<1>8. IsSeq(s)
  BY <1>3 DEF IsSeq
<1>9. Scripted(s)
  BY <1>3, <1>7, <1>8, Zenon DEF Scripted
<1> QED
  BY <1>1, <1>2, <1>3, <1>4, <1>7, <1>9, Zenon

(* Nobody else's program resets.                                           *)
NoReset(todo) ==
  \A k \in 1 .. Len(todo) :
    todo[k].wants # "exception" => todo[k].sends[1].cmd # "REST"

LEMMA OthersDoNotReset ==
  ASSUME NEW t \in Texts
  PROVE  NoReset(Driver!Other(t).cleanup)
<1> DEFINE h0 == Driver!set_heading(t)
           g0 == Driver!get_status
           e0 == Driver!set_elapsed("2", "1")
           c0 == Driver!close
           s == <<h0, g0, e0, c0>>
<1>1. Driver!Other(t).cleanup = s
  BY DEF Driver!Other
<1>2. h0.sends[1].cmd = "HEAD"
  <2>1. IsSeq(t) /\ t # <<>>
    BY TextsAssumption DEF IsSeq
  <2> QED
    BY <2>1, CallOfText DEF Driver!set_heading
<1>3. e0.wants = "exception"
  <2>1. e0 = Driver!InvalidArgument
    BY DEF Driver!set_elapsed, Driver!Elapsed, Driver!Timers
  <2> QED
    BY <2>1 DEF Driver!InvalidArgument
<1>4. OneLine(g0, "STAT", <<>>, "status") /\ OneLine(c0, "QUIT", <<>>, "nothing")
  BY Methods
<1> HIDE DEF h0, g0, e0, c0
<1>5. g0.sends[1].cmd # "REST" /\ c0.sends[1].cmd # "REST" /\ h0.sends[1].cmd # "REST"
  BY <1>2, <1>4 DEF OneLine
<1>6. Len(s) = 4 /\ s[1] = h0 /\ s[2] = g0 /\ s[3] = e0 /\ s[4] = c0
  BY FourCalls, Zenon
<1> HIDE DEF s
<1>7. \A k \in 1 .. 4 : k = 1 \/ k = 2 \/ k = 3 \/ k = 4
  OBVIOUS
<1>8. \A k \in 1 .. 4 : s[k].wants # "exception" => s[k].sends[1].cmd # "REST"
  BY <1>3, <1>5, <1>6, <1>7
<1> QED
  BY <1>1, <1>6, <1>8, Zenon DEF NoReset

Raised == \E i \in DOMAIN results : results[i].value.is = "exception"

(* Sent last are the lines of the first k of the calls.                    *)
Wrote(w, todo, k) ==
  k \in 0 .. Len(w) /\ \A i \in 1 .. k : w[(Len(w) - k) + i] = todo[i].sends[1]
Rest(left, todo) ==
  /\ Len(left) \in 0 .. Len(todo)
  /\ \A i \in 1 .. Len(left) : left[i] = todo[(Len(todo) - Len(left)) + i]
Progress(todo) ==
  IF attempt # <<>> THEN 0
  ELSE IF at = "waiting" THEN Len(todo) - Len(cleanup) + 1 ELSE Len(todo) - Len(cleanup)

(* A program that makes the calls to their end, the last of which is QUIT. *)
Follows(todo) ==
  /\ \A k \in 1 .. Len(attempt) : /\ attempt[k].wants \notin {"exception", "nothing"}
                                  /\ attempt[k].sends[1].cmd # "QUIT"
  /\ Rest(cleanup, todo)
  /\ attempt # <<>> => Len(cleanup) = Len(todo)
  /\ app = "up" => debt <= 1
  /\ Wrote(sent[driver], todo, Progress(todo))
  /\ \A i \in 1 .. Len(sent[driver]) :
       sent[driver][i].cmd = "QUIT" => at = "closed" /\ i = Len(sent[driver])
  /\ at = "closed" => attempt = <<>> /\ cleanup = <<>>

LEMMA WroteOne ==
  ASSUME NEW w, NEW z, NEW todo, NEW k \in Nat, Wrote(w, todo, k), Len(w) \in Nat,
         Len(z) = Len(w) + 1, \A i \in 1 .. Len(w) : z[i] = w[i],
         z[Len(w) + 1] = todo[k + 1].sends[1]
  PROVE  Wrote(z, todo, k + 1)
<1> DEFINE n == Len(w)
<1>1. /\ n \in Nat /\ k \in 0 .. n /\ Len(z) = n + 1
      /\ \A i \in 1 .. k : w[(n - k) + i] = todo[i].sends[1]
      /\ \A i \in 1 .. n : z[i] = w[i]
  BY DEF Wrote
<1>2. z[n + 1] = todo[k + 1].sends[1]
  OBVIOUS
<1> HIDE DEF n
<1>3. ASSUME NEW i \in 1 .. k + 1 PROVE z[((n + 1) - (k + 1)) + i] = todo[i].sends[1]
  <2>0. ((n + 1) - (k + 1)) + i = (n - k) + i
    BY <1>1
  <2>1. CASE i = k + 1
    <3>1. (n - k) + i = n + 1
      BY <1>1, <2>1
    <3> QED
      BY <1>2, <2>0, <2>1, <3>1
  <2>2. CASE i \in 1 .. k
    <3>1. (n - k) + i \in 1 .. n
      BY <1>1, <2>2
    <3> QED
      BY <1>1, <2>0, <2>2, <3>1
  <2> QED
    BY <2>1, <2>2
<1>4. k + 1 \in 0 .. Len(z) /\ (n + 1) - (k + 1) = Len(z) - (k + 1)
  BY <1>1
<1>5. ASSUME NEW i \in 1 .. k + 1 PROVE z[(Len(z) - (k + 1)) + i] = todo[i].sends[1]
  BY <1>3, <1>4
<1> QED
  BY <1>4, <1>5 DEF Wrote

LEMMA RestOne ==
  ASSUME NEW left, NEW todo, IsSeq(left), IsSeq(todo), left # <<>>, Rest(left, todo)
  PROVE  /\ Rest(Tail(left), todo) /\ Len(Tail(left)) = Len(left) - 1
         /\ Head(left) = todo[(Len(todo) - Len(left)) + 1]
         /\ (Len(todo) - Len(left)) + 1 \in 1 .. Len(todo)
         /\ Len(left) \in Nat \ {0} /\ Len(todo) \in Nat
<1> DEFINE n == Len(todo)
           l == Len(left)
           t == Tail(left)
<1>1. /\ n \in Nat /\ l \in Nat \ {0} /\ l <= n /\ Len(t) = l - 1 /\ Head(left) = left[1]
      /\ \A i \in 1 .. l - 1 : t[i] = left[i + 1]
      /\ \A i \in 1 .. l : left[i] = todo[(n - l) + i]
  BY SeqLen, Shorter DEF Rest
<1> HIDE DEF n, l, t
<1>2. ASSUME NEW i \in 1 .. l - 1 PROVE t[i] = todo[(n - (l - 1)) + i]
  <2>1. i + 1 \in 1 .. l /\ (n - (l - 1)) + i = (n - l) + (i + 1)
    BY <1>1
  <2> QED
    BY <1>1, <2>1
<1>3. left[1] = todo[(n - l) + 1] /\ (n - l) + 1 \in 1 .. n /\ l - 1 \in 0 .. n
  BY <1>1
<1>4. Rest(t, todo)
  BY <1>1, <1>2, <1>3 DEF Rest, n
<1> QED
  BY <1>1, <1>3, <1>4 DEF n, l, t

-----------------------------------------------------------------------------
(* The steps of a program that follows its calls.                          *)
LEMMA FollowsWhatIsAsked ==
  ASSUME DriverInv, DriverInv', Driver!Ask, NEW todo, Scripted(todo), Follows(todo)
  PROVE  Follows(todo)'
<1> DEFINE c == Head(Driver!Calls)
           s == Len(sent[driver])
           N == Len(todo)
           lc == Len(cleanup)
           w == sent[driver]
           z == sent'[driver]
<1>1. /\ at = "idle" /\ Driver!Calls # <<>>
      /\ c.wants # "exception"
      /\ wire' = [wire EXCEPT ![driver] = @ \o c.sends]
      /\ sent' = [sent EXCEPT ![driver] = @ \o c.sends]
      /\ debt' = debt + Len(c.sends) - 1
      /\ at' = IF Driver!Awaits(c) THEN "waiting"
               ELSE IF c.wants = "nothing" THEN "closed" ELSE "idle"
      /\ IF Driver!Awaits(c) THEN UNCHANGED <<attempt, cleanup>> ELSE Driver!Returned
      /\ UNCHANGED <<app, sock, buffer, reader, display, answers>>
  BY DEF Driver!Ask, Driver!log
<1>2. /\ CallKinds(c)
      /\ attempt # <<>> => c = Head(attempt) /\ Len(c.sends) = 1
      /\ attempt = <<>> => c = Head(cleanup) /\ cleanup # <<>>
  BY <1>1, InHand DEF DriverInv
<1>3. IsSeq(c.sends) /\ IsSeq(attempt) /\ IsSeq(cleanup) /\ IsSeq(todo)
  BY <1>1, <1>2, SendsOne DEF DriverInv, ProgramShape, AllKinds, Scripted
<1>4. s \in Nat /\ N \in Nat /\ lc \in Nat /\ debt \in Nat
  BY <1>3, SeqLen, Counted DEF DriverInv
<1>5. /\ Len(z) = s + Len(c.sends)
      /\ \A i \in 1 .. s : z[i] = w[i]
      /\ \A i \in 1 .. Len(c.sends) : z[s + i] = c.sends[i]
  <2> DEFINE x == c.sends
  <2>1. /\ sent' = [sent EXCEPT ![driver] = @ \o x] /\ wire' = [wire EXCEPT ![driver] = @ \o x]
        /\ IsSeq(x)
    BY <1>1, <1>3
  <2> HIDE DEF x
  <2>2. /\ Len(z) = s + Len(x) /\ \A i \in 1 .. s : z[i] = w[i]
        /\ \A i \in 1 .. Len(x) : z[s + i] = x[i]
    BY <1>1, <2>1, SentMore DEF DriverInv
  <2> QED
    BY <2>2 DEF x
<1>6. ASSUME NEW i \in 1 .. s PROVE w[i].cmd # "QUIT"
  BY <1>1 DEF Follows
<1>7. CASE attempt # <<>>
  <2>1. /\ c = attempt[1] /\ 1 \in 1 .. Len(attempt) /\ Len(c.sends) = 1
    BY <1>2, <1>3, <1>7, Shorter
  <2>2. c.wants \notin {"exception", "nothing"} /\ c.sends[1].cmd # "QUIT"
    BY <2>1 DEF Follows
  <2> HIDE DEF c
  <2>3. at' = "waiting" /\ UNCHANGED <<attempt, cleanup>> /\ debt' = debt
    BY <1>1, <1>4, <2>1, <2>2 DEF Driver!Awaits
  <2>4. Wrote(z, todo, 0)
    BY <1>4, <1>5, <2>1 DEF Wrote
  <2>5. ASSUME NEW i \in 1 .. Len(z) PROVE z[i].cmd # "QUIT"
    <3>1. CASE i \in 1 .. s
      BY <1>5, <1>6, <3>1
    <3>2. CASE i = s + 1
      BY <1>5, <2>1, <2>2, <3>2
    <3> QED
      BY <1>4, <1>5, <2>1, <3>1, <3>2
  <2>6. Progress(todo)' = 0
    BY <1>7, <2>3 DEF Progress
  <2> QED
    BY <1>1, <1>7, <2>3, <2>4, <2>5, <2>6 DEF Follows
<1>8. CASE attempt = <<>>
  <2>1. cleanup # <<>> /\ c = Head(cleanup)
    BY <1>2, <1>8
  <2>2. /\ Rest(Tail(cleanup), todo) /\ Len(Tail(cleanup)) = lc - 1
        /\ c = todo[(N - lc) + 1] /\ (N - lc) + 1 \in 1 .. N /\ lc \in Nat \ {0}
    BY <1>3, <2>1, RestOne DEF Follows
  <2> DEFINE k == N - lc
  <2>3. /\ Len(c.sends) = 1
        /\ c.wants = "nothing" <=> k + 1 = N
        /\ c.sends[1].cmd = "QUIT" <=> k + 1 = N
    BY <2>2 DEF Scripted
  <2>4. k \in Nat /\ Wrote(w, todo, k) /\ Progress(todo) = k
    BY <1>1, <1>4, <1>8, <2>2 DEF Follows, Progress
  <2>5. z[s + 1] = c.sends[1] /\ Len(z) = s + 1 /\ c.sends[1] = todo[k + 1].sends[1]
    <3>1. 1 \in 1 .. Len(c.sends)
      BY <2>3
    <3>2. z[s + 1] = c.sends[1]
      BY <1>5, <3>1
    <3>3. Len(z) = s + 1
      BY <1>5, <2>3
    <3>4. c.sends[1] = todo[k + 1].sends[1]
      BY <2>2
    <3> QED
      BY <3>2, <3>3, <3>4
  <2> HIDE DEF k
  <2>6. Wrote(z, todo, k + 1)
    BY <1>4, <1>5, <2>4, <2>5, WroteOne
  <2>7. debt' = debt
    <3> DEFINE l == Len(c.sends)
    <3>1. l = 1 /\ debt' = debt + l - 1 /\ debt \in Nat
      BY <1>1, <1>4, <2>3
    <3> HIDE DEF l
    <3> QED
      BY <3>1
  <2>8. CASE c.wants # "nothing"
    <3>1. at' = "waiting" /\ UNCHANGED <<attempt, cleanup>> /\ c.sends[1].cmd # "QUIT"
      BY <1>1, <2>3, <2>8 DEF Driver!Awaits
    <3>2. Progress(todo)' = k + 1
      BY <1>4, <1>8, <3>1 DEF Progress, k
    <3>3. ASSUME NEW i \in 1 .. Len(z) PROVE z[i].cmd # "QUIT"
      <4>1. CASE i \in 1 .. s
        BY <1>5, <1>6, <4>1
      <4>2. CASE i = s + 1
        BY <2>5, <3>1, <4>2
      <4> QED
        BY <1>4, <2>5, <4>1, <4>2
    <3> QED
      BY <1>1, <1>8, <2>6, <2>7, <3>1, <3>2, <3>3 DEF Follows
  <2>9. CASE c.wants = "nothing"
    <3>1. at' = "closed" /\ cleanup' = Tail(cleanup) /\ attempt' = attempt
      BY <1>1, <1>8, <2>9 DEF Driver!Awaits, Driver!Returned
    <3>2. Len(cleanup') = 0 /\ cleanup' = <<>>
      <4>1. lc = 1
        BY <1>4, <2>2, <2>3, <2>9 DEF k
      <4>2. Len(cleanup') = 0 /\ IsSeq(Tail(cleanup))
        BY <1>3, <2>1, <2>2, <3>1, <4>1, Shorter
      <4> QED
        BY <3>1, <4>2, SeqLen
    <3>3. Progress(todo)' = k + 1
      BY <1>4, <1>8, <2>2, <3>1 DEF Progress, k
    <3>4. ASSUME NEW i \in 1 .. Len(z), z[i].cmd = "QUIT" PROVE i = Len(z)
      <4>1. i \notin 1 .. s
        BY <1>5, <1>6, <3>4
      <4> QED
        BY <1>4, <2>5, <4>1
    <3>5. Rest(cleanup', todo)
      BY <2>2, <3>1
    <3> QED
      BY <1>1, <1>8, <2>6, <2>7, <3>1, <3>2, <3>3, <3>4, <3>5 DEF Follows
  <2> QED
    BY <2>8, <2>9
<1> QED
  BY <1>7, <1>8

LEMMA FollowsWhatIsReceived ==
  ASSUME DriverInv, NEW n \in Nat, Driver!Receive(n), ~Raised',
         NEW todo, Scripted(todo), Follows(todo)
  PROVE  Follows(todo)'
<1>1. /\ at = "waiting" /\ at' = "idle" /\ UNCHANGED <<Driver!portVars, debt>>
      /\ Driver!Returned \/ \E r : /\ results' = Append(results, r)
                                   /\ r.value.is = "exception"
  <2> DEFINE c == Head(Driver!Calls)
             seen == [k \in 1 .. n |-> answers[driver][got + k].reply]
             v == Driver!Value(c.wants, seen)
             r == [line |-> c.sends[1], asked |-> asked, first |-> got + 1,
                   n |-> n, debt |-> debt, value |-> v]
  <2>1. /\ at = "waiting" /\ at' = "idle" /\ UNCHANGED <<Driver!portVars, debt>>
        /\ results' = Append(results, r)
        /\ IF v.is = "exception" THEN Driver!Leaves ELSE Driver!Returned
    BY DEF Driver!Receive
  <2>2. r.value = v
    OBVIOUS
  <2> HIDE DEF r, v
  <2> QED
    BY <2>1, <2>2
<1>2. Driver!Returned
  <2> SUFFICES ASSUME NEW r, results' = Append(results, r), r.value.is = "exception"
               PROVE  FALSE
    BY <1>1
  <2>1. IsSeq(results)
    BY DEF DriverInv, ProgramShape
  <2>2. /\ results'[Len(results) + 1] = r /\ Len(results') = Len(results) + 1
        /\ IsSeq(results') /\ Len(results) \in Nat
    BY <2>1, Appended, SeqLen
  <2>3. Len(results) + 1 \in DOMAIN results'
    BY <2>2, SeqLen
  <2> QED
    BY <2>2, <2>3 DEF Raised
<1>3. UNCHANGED <<app, sent>>
  BY <1>1 DEF Driver!portVars, Driver!vars
<1>4. /\ Driver!Calls # <<>> /\ IsSeq(attempt) /\ IsSeq(cleanup) /\ IsSeq(todo)
  BY <1>1 DEF DriverInv, Told, AtWaiting, ProgramShape, AllKinds, Scripted
<1>5. CASE attempt # <<>>
  <2>1. attempt' = Tail(attempt) /\ cleanup' = cleanup
    BY <1>2, <1>5 DEF Driver!Returned
  <2>2. /\ Len(Tail(attempt)) = Len(attempt) - 1 /\ Len(attempt) \in Nat \ {0}
        /\ \A i \in 1 .. Len(attempt) - 1 : Tail(attempt)[i] = attempt[i + 1]
    BY <1>4, <1>5, Shorter
  <2>3. ASSUME NEW k \in 1 .. Len(attempt')
        PROVE  /\ attempt'[k].wants \notin {"exception", "nothing"}
               /\ attempt'[k].sends[1].cmd # "QUIT"
    <3>1. k + 1 \in 1 .. Len(attempt) /\ attempt'[k] = attempt[k + 1]
      BY <2>1, <2>2
    <3> QED
      BY <3>1 DEF Follows
  <2>4. Progress(todo) = 0 /\ Progress(todo)' = 0
    <3>1. Len(cleanup) = Len(todo) /\ Len(todo) \in Nat
      BY <1>4, <1>5, SeqLen DEF Follows
    <3> QED
      BY <1>1, <1>5, <2>1, <3>1 DEF Progress
  <2> QED
    BY <1>1, <1>3, <1>5, <2>1, <2>3, <2>4 DEF Follows
<1>6. CASE attempt = <<>>
  <2>1. cleanup # <<>>
    BY <1>4, <1>6, InHand DEF DriverInv
  <2>2. attempt' = <<>> /\ cleanup' = Tail(cleanup)
    BY <1>2, <1>6 DEF Driver!Returned
  <2>3. /\ Rest(Tail(cleanup), todo) /\ Len(Tail(cleanup)) = Len(cleanup) - 1
        /\ Len(cleanup) \in Nat \ {0} /\ Len(todo) \in Nat
    BY <1>4, <2>1, RestOne DEF Follows
  <2>4. Progress(todo)' = Progress(todo)
    BY <1>1, <1>6, <2>2, <2>3 DEF Progress
  <2>5. Len(attempt') = 0
    BY <2>2, NoLength
  <2> QED
    BY <1>1, <1>3, <2>2, <2>3, <2>4, <2>5 DEF Follows
<1> QED
  BY <1>5, <1>6

LEMMA FollowsAfterInterrupt ==
  ASSUME DriverInv, Driver!KeyboardInterrupt, NEW todo, Scripted(todo), Follows(todo),
         app = "up" => sock[driver] # "deleted"
  PROVE  Follows(todo)'
<1>1. /\ UNCHANGED <<Driver!portVars, cleanup>>
      /\ at \in {"idle", "waiting"} /\ at' = "idle" /\ attempt # <<>> /\ attempt' = <<>>
      /\ debt' = Len(sent[driver]) - got
  BY DEF Driver!KeyboardInterrupt
<1>2. UNCHANGED <<app, sent>>
  BY <1>1 DEF Driver!portVars, Driver!vars
<1>3. debt = 0
  BY <1>1 DEF DriverInv, ProgramShape
<1>4. /\ Len(sent[driver]) \in Nat /\ got \in Nat
      /\ app = "up" => Len(sent[driver]) <= got + 1
  <2>1. Len(sent[driver]) \in Nat /\ got \in Nat
    BY Counted DEF DriverInv
  <2>2. CASE at = "waiting"
    BY <1>3, <2>1, <2>2, NothingOwed DEF DriverInv, Told
  <2>3. CASE at = "idle"
    BY <1>3, <2>1, <2>3 DEF DriverInv, Told, AtIdle
  <2> QED
    BY <1>1, <2>1, <2>2, <2>3
<1>5. app = "up" => debt' <= 1
  BY <1>1, <1>4
<1>6. Len(cleanup) = Len(todo) /\ Len(todo) \in Nat
  BY <1>1, SeqLen DEF Follows, Scripted
<1>7. Progress(todo) = 0 /\ Progress(todo)' = 0
  BY <1>1, <1>6 DEF Progress
<1>8. Len(attempt') = 0
  BY <1>1, NoLength
<1> QED
  BY <1>1, <1>2, <1>5, <1>7, <1>8 DEF Follows

LEMMA FollowsAnyway ==
  ASSUME UNCHANGED <<attempt, cleanup, debt, sent>>, NEW todo, Follows(todo),
         app' = "up" => app = "up" \/ debt = 0,
         at' = "waiting" <=> at = "waiting", at' = "closed" <=> at = "closed"
  PROVE  Follows(todo)'
<1>1. Progress(todo)' = Progress(todo)
  BY DEF Progress
<1> QED
  BY <1>1 DEF Follows

NoTimers(w) == \A i \in 1 .. Len(w) : w[i].cmd # "ELAP"
Owns == Follows(Own)
Unit == attempt = <<>> /\ Follows(Tests) /\ NoTimers(sent[driver])
Others == /\ attempt = <<>> /\ NoReset(cleanup)
          /\ \A i \in DOMAIN results : results[i].line.cmd # "REST"
Gone == app = "up" /\ sock[driver] = "deleted" =>
  /\ at \in {"closed", "raised"}
  /\ at = "closed" =>
       Len(answers[driver]) = Len(sent[driver]) \/ Len(answers[driver]) > got
Cleaning == (Raised \/ Owns \/ Unit \/ Others) /\ Gone

LEMMA FollowsAtFirst ==
  ASSUME NEW todo, Scripted(todo), cleanup = todo, at = "new", debt = 0,
         sent[driver] = <<>>,
         \A k \in 1 .. Len(attempt) : /\ attempt[k].wants \notin {"exception", "nothing"}
                                      /\ attempt[k].sends[1].cmd # "QUIT"
  PROVE  Follows(todo)
<1> DEFINE n == Len(todo)
<1>1. n \in Nat
  BY SeqLen DEF Scripted
<1>2. Len(cleanup) = n
  OBVIOUS
<1>3. Len(sent[driver]) = 0
  BY NoLength
<1>4. Progress(todo) = 0
  BY <1>1, <1>2 DEF Progress
<1>5. Rest(cleanup, todo)
  <2>1. \A i \in 1 .. Len(cleanup) : cleanup[i] = todo[(n - n) + i]
    BY <1>1, <1>2
  <2> QED
    BY <1>1, <1>2, <2>1 DEF Rest
<1>6. Wrote(sent[driver], todo, 0)
  BY <1>3 DEF Wrote
<1> QED
  BY <1>2, <1>3, <1>4, <1>5, <1>6 DEF Follows

LEMMA DemonstrationShown ==
  \A k \in 1 .. Len(Driver!Demonstration.attempt) :
    LET c == Driver!Demonstration.attempt[k] IN
    c.wants \notin {"exception", "nothing"} /\ c.sends[1].cmd # "QUIT"
<1> DEFINE t0 == Driver!set_text(Driver!PlainText("a"), Driver!PlainText("b"))
           e1 == Driver!set_elapsed("0", "1")
           e2 == Driver!set_elapsed("1", "1")
           s1 == Driver!start_elapsed("1")
           s0 == Driver!start_elapsed("0")
           m0 == Driver!set_message(Driver!PlainText("c"))
           showing == <<t0, e1, e2, s1, s0, m0>>
           S == {t0, e1, e2, s1, s0, m0}
<1>1. "0" \in Driver!Timers /\ "1" \in Driver!Timers
  BY DEF Driver!Timers
<1>2. PICK args : OneLine(t0, "TEXT", args, "ok")
  BY PlainTextIsShort
<1>3. /\ OneLine(e1, "ELAP", <<"0", "1">>, "ok") /\ OneLine(e2, "ELAP", <<"1", "1">>, "ok")
      /\ OneLine(s1, "ELAP", <<"1", "START">>, "ok") /\ OneLine(s0, "ELAP", <<"0", "START">>, "ok")
      /\ OneLine(m0, "MESG", <<"c">>, "ok")
  BY <1>1, Methods
<1>4. Driver!Demonstration.attempt = showing
  BY DEF Driver!Demonstration
<1> HIDE DEF t0, e1, e2, s1, s0, m0
<1>5. showing \in Seq(S)
  OBVIOUS
<1>6. \A c \in S : c.wants \notin {"exception", "nothing"} /\ c.sends[1].cmd # "QUIT"
  BY <1>2, <1>3 DEF OneLine
<1> HIDE DEF showing, S
<1>7. \A k \in 1 .. Len(showing) : showing[k] \in S
  BY <1>5
<1> QED
  BY <1>4, <1>6, <1>7, Zenon

LEMMA CleaningInitially == Driver!DriverInit => Cleaning
<1> SUFFICES ASSUME Driver!DriverInit PROVE Cleaning
  OBVIOUS
<1>1. PICK p \in Driver!Programs : attempt = p.attempt /\ cleanup = p.cleanup
  BY DEF Driver!DriverInit
<1>2. /\ at = "new" /\ debt = 0 /\ results = <<>> /\ app = "constructing"
      /\ sent = [c \in {driver} |-> <<>>]
  BY DEF Driver!DriverInit, Driver!Init
<1>3. sent[driver] = <<>>
  BY <1>2
<1>4. Gone
  BY <1>2 DEF Gone
<1>5. CASE p = Driver!Demonstration
  <2>1. cleanup = Own /\ attempt = Driver!Demonstration.attempt
    BY <1>1, <1>5, Zenon DEF Own
  <2>2. Follows(Own)
    BY <1>2, <1>3, <2>1, FollowsAtFirst, OwnLines, DemonstrationShown, Zenon
  <2> QED
    BY <1>4, <2>2 DEF Cleaning, Owns
<1>6. CASE p = Driver!UnitTests
  <2>1. cleanup = Tests /\ attempt = <<>>
    BY <1>1, <1>6, UnitTestsKinds, Zenon DEF Tests
  <2>2. Len(attempt) = 0 /\ Len(sent[driver]) = 0
    BY <1>3, <2>1, NoLength
  <2>3. \A k \in 1 .. Len(attempt) : /\ attempt[k].wants \notin {"exception", "nothing"}
                                     /\ attempt[k].sends[1].cmd # "QUIT"
    BY <2>2
  <2>4. Follows(Tests)
    BY <1>2, <1>3, <2>1, <2>3, FollowsAtFirst, TestsLines, Zenon
  <2> QED
    BY <1>4, <2>1, <2>2, <2>4 DEF Cleaning, Unit, NoTimers
<1>7. ASSUME NEW t \in Texts, p = Driver!Other(t) PROVE Cleaning
  <2>1. attempt = <<>> /\ NoReset(cleanup)
    BY <1>1, <1>7, OtherKinds, OthersDoNotReset, Zenon
  <2>2. DOMAIN results = {}
    BY <1>2, NoLength, SeqLen
  <2> QED
    BY <1>4, <2>1, <2>2 DEF Cleaning, Others
<1> QED
  BY <1>5, <1>6, <1>7 DEF Driver!Programs

LEMMA StillRaised ==
  ASSUME Raised, ProgramShape, results' = results \/ \E r : results' = Append(results, r)
  PROVE  Raised'
<1>1. CASE results' = results
  BY <1>1 DEF Raised
<1>2. CASE \E r : results' = Append(results, r)
  <2>1. PICK r : results' = Append(results, r)
    BY <1>2
  <2>2. /\ IsSeq(results') /\ Len(results') = Len(results) + 1 /\ Len(results) \in Nat
        /\ \A i \in 1 .. Len(results) : results'[i] = results[i]
    BY <2>1, Appended, SeqLen DEF ProgramShape
  <2>3. DOMAIN results = 1 .. Len(results) /\ DOMAIN results' = 1 .. Len(results')
    <3>1. IsSeq(results)
      BY DEF ProgramShape
    <3> QED
      BY <2>2, <3>1, SeqLen, Zenon
  <2>4. PICK i \in 1 .. Len(results) : results[i].value.is = "exception"
    BY <2>3, Zenon DEF Raised
  <2>5. i \in DOMAIN results' /\ results'[i] = results[i]
    <3>1. i \in 1 .. Len(results')
      BY <2>2
    <3> QED
      BY <2>2, <2>3, <3>1, Zenon
  <2> QED
    BY <2>4, <2>5 DEF Raised
<1> QED
  BY <1>1, <1>2

LEMMA NoResetLeft ==
  ASSUME NEW todo, IsSeq(todo), todo # <<>>, NoReset(todo)
  PROVE  /\ NoReset(Tail(todo))
         /\ Head(todo).wants # "exception" => Head(todo).sends[1].cmd # "REST"
<1>1. /\ Len(Tail(todo)) = Len(todo) - 1 /\ Head(todo) = todo[1]
      /\ Len(todo) \in Nat \ {0}
      /\ \A i \in 1 .. Len(todo) - 1 : Tail(todo)[i] = todo[i + 1]
  BY Shorter
<1>2. 1 \in 1 .. Len(todo) /\ \A i \in 1 .. Len(todo) - 1 : i + 1 \in 1 .. Len(todo)
  BY <1>1
<1> QED
  BY <1>1, <1>2 DEF NoReset

LEMMA NoResetAtEnd == NoReset(<<>>) /\ NoReset(<<Driver!close>>)
<1>1. NoReset(<<>>)
  BY NoLength DEF NoReset
<1> DEFINE c0 == Driver!close
<1>2. OneLine(c0, "QUIT", <<>>, "nothing")
  BY Methods
<1> HIDE DEF c0
<1>3. Len(<<c0>>) = 1 /\ <<c0>>[1] = c0
  BY SingleLine
<1> DEFINE s == <<c0>>
<1> HIDE DEF s
<1>4. NoReset(s)
  BY <1>2, <1>3 DEF NoReset, OneLine, s
<1> QED
  BY <1>1, <1>4 DEF s, c0

LEMMA OthersLeave ==
  ASSUME Others, Driver!Leaves
  PROVE  attempt' = <<>> /\ NoReset(cleanup')
<1>1. attempt' = <<>> /\ (cleanup' = <<Driver!close>> \/ cleanup' = <<>>)
  BY DEF Driver!Leaves
<1> QED
  BY <1>1, NoResetAtEnd, Zenon

LEMMA OthersReturn ==
  ASSUME DriverInv, Others, Driver!Returned, Driver!Calls # <<>>
  PROVE  attempt' = <<>> /\ NoReset(cleanup')
<1>1. attempt' = <<>> /\ cleanup' = Tail(cleanup)
  BY DEF Others, Driver!Returned
<1>2. cleanup # <<>> /\ IsSeq(cleanup)
  BY InHand DEF DriverInv, Others, ProgramShape, AllKinds
<1> QED
  BY <1>1, <1>2, NoResetLeft, Zenon DEF Others

LEMMA ScriptedWants ==
  ASSUME NEW todo, Scripted(todo), Follows(todo), DriverInv, Driver!Calls # <<>>
  PROVE  Head(Driver!Calls).wants # "exception"
<1> DEFINE c == Head(Driver!Calls)
<1>1. /\ attempt # <<>> => c = Head(attempt)
      /\ attempt = <<>> => c = Head(cleanup) /\ cleanup # <<>>
  BY InHand DEF DriverInv
<1>2. IsSeq(attempt) /\ IsSeq(cleanup) /\ IsSeq(todo)
  BY DEF DriverInv, ProgramShape, AllKinds, Scripted
<1>3. CASE attempt # <<>>
  <2>1. c = attempt[1] /\ 1 \in 1 .. Len(attempt)
    BY <1>1, <1>2, <1>3, Shorter
  <2> QED
    BY <2>1 DEF Follows
<1>4. CASE attempt = <<>>
  <2>1. /\ c = todo[(Len(todo) - Len(cleanup)) + 1]
        /\ (Len(todo) - Len(cleanup)) + 1 \in 1 .. Len(todo)
    BY <1>1, <1>2, <1>4, RestOne DEF Follows
  <2> QED
    BY <2>1 DEF Scripted
<1> QED
  BY <1>3, <1>4

LEMMA UnitAsks ==
  ASSUME DriverInv, DriverInv', Driver!Ask, Unit
  PROVE  Unit'
<1> DEFINE c == Head(Driver!Calls)
           s == Len(sent[driver])
<1>1. /\ sent' = [sent EXCEPT ![driver] = @ \o c.sends]
      /\ wire' = [wire EXCEPT ![driver] = @ \o c.sends]
      /\ UNCHANGED <<app, sock, buffer, reader, display, answers>>
      /\ Driver!Calls # <<>> /\ c.wants # "exception"
      /\ IF Driver!Awaits(c) THEN UNCHANGED <<attempt, cleanup>> ELSE Driver!Returned
  BY DEF Driver!Ask, Driver!log
<1>2. Follows(Tests)'
  <2>1. Scripted(Tests)'
    BY TestsLines DEF Tests, Driver!UnitTests
  <2> QED
    BY TestsLines, FollowsWhatIsAsked, Zenon DEF Unit
<1>3. attempt' = <<>>
  BY <1>1 DEF Unit, Driver!Returned
<1>4. /\ Len(c.sends) = 1 /\ c.sends[1].cmd # "ELAP"
  <2>1. c = Head(cleanup) /\ cleanup # <<>> /\ IsSeq(cleanup) /\ IsSeq(Tests)
    BY <1>1, InHand, TestsLines DEF DriverInv, Unit, ProgramShape, AllKinds, Scripted
  <2>2. \E i \in 1 .. Len(Tests) : c = Tests[i]
    BY <2>1, RestOne DEF Unit, Follows
  <2>3. PICK i \in 1 .. 16 : c = Tests[i]
    BY <2>2, TestsLines
  <2> QED
    BY <2>3, TestsLines DEF Scripted
<1>5. IsSeq(c.sends)
  BY <1>1, InHand, SendsOne DEF DriverInv
<1>6. /\ Len(sent'[driver]) = s + Len(c.sends)
      /\ \A i \in 1 .. s : sent'[driver][i] = sent[driver][i]
      /\ \A i \in 1 .. Len(c.sends) : sent'[driver][s + i] = c.sends[i]
  <2> DEFINE x == c.sends
  <2>1. /\ sent' = [sent EXCEPT ![driver] = @ \o x] /\ wire' = [wire EXCEPT ![driver] = @ \o x]
        /\ IsSeq(x)
    BY <1>1, <1>5
  <2> HIDE DEF x
  <2>2. /\ Len(sent'[driver]) = s + Len(x)
        /\ \A i \in 1 .. s : sent'[driver][i] = sent[driver][i]
        /\ \A i \in 1 .. Len(x) : sent'[driver][s + i] = x[i]
    BY <1>1, <2>1, SentMore DEF DriverInv
  <2> QED
    BY <2>2 DEF x
<1>7. NoTimers(sent'[driver])
  <2>1. s \in Nat /\ 1 \in 1 .. Len(c.sends)
    BY <1>4, Counted DEF DriverInv
  <2>2. sent'[driver][s + 1].cmd # "ELAP" /\ Len(sent'[driver]) = s + 1
    BY <1>4, <1>6, <2>1
  <2>3. \A i \in 1 .. s : sent[driver][i].cmd # "ELAP"
    BY DEF Unit, NoTimers
  <2> HIDE DEF s
  <2>4. \A i \in 1 .. s + 1 : i \in 1 .. s \/ i = s + 1
    BY <2>1
  <2> QED
    BY <1>6, <2>2, <2>3, <2>4 DEF NoTimers
<1> QED
  BY <1>2, <1>3, <1>7 DEF Unit

LEMMA CleaningAsks == ASSUME DriverInv, DriverInv', Driver!Ask, Cleaning PROVE Cleaning'
<1>1. Gone'
  BY DEF Driver!Ask, Gone
<1>2. results' = results /\ Driver!Calls # <<>>
      /\ (UNCHANGED <<attempt, cleanup>> \/ Driver!Returned)
  BY DEF Driver!Ask
<1>3. CASE Raised
  BY <1>1, <1>2, <1>3, StillRaised DEF Cleaning, DriverInv
<1>4. CASE Owns
  <2>1. Follows(Own)'
    BY <1>4, OwnLines, FollowsWhatIsAsked, Zenon DEF Owns
  <2> QED
    BY <1>1, <2>1 DEF Cleaning, Owns
<1>5. CASE Unit
  BY <1>1, <1>5, UnitAsks DEF Cleaning
<1>6. CASE Others
  <2>1. attempt' = <<>> /\ NoReset(cleanup')
    BY <1>2, <1>6, OthersReturn DEF Others
  <2>2. NoReset(cleanup)' /\ \A i \in DOMAIN results' : results'[i].line.cmd # "REST"
    BY <1>2, <1>6, <2>1 DEF Others, NoReset
  <2> QED
    BY <1>1, <2>1, <2>2 DEF Cleaning, Others
<1> QED
  BY <1>3, <1>4, <1>5, <1>6 DEF Cleaning

LEMMA CleaningReceives ==
  ASSUME DriverInv, NEW n \in Nat, Driver!Receive(n), Cleaning
  PROVE  Cleaning'
<1> DEFINE c == Head(Driver!Calls)
           seen == [k \in 1 .. n |-> answers[driver][got + k].reply]
           v == Driver!Value(c.wants, seen)
           r == [line |-> c.sends[1], asked |-> asked, first |-> got + 1,
                 n |-> n, debt |-> debt, value |-> v]
<1>1. /\ at = "waiting" /\ UNCHANGED <<app, sock, sent, answers, display>>
      /\ results' = Append(results, r)
      /\ Driver!Leaves \/ Driver!Returned
  BY DEF Driver!Receive, Driver!portVars, Driver!vars, Driver!log
<1>2. /\ Driver!Calls # <<>> /\ c.wants # "exception" /\ r.line = c.sends[1]
  BY <1>1 DEF DriverInv, Told, AtWaiting
<1> HIDE DEF r
<1>3. Gone'
  BY <1>1 DEF Gone, Cleaning
<1>4. CASE Raised
  BY <1>1, <1>3, <1>4, StillRaised DEF Cleaning, DriverInv
<1>5. CASE Raised'
  BY <1>3, <1>5 DEF Cleaning
<1>6. CASE Owns /\ ~Raised'
  <2>1. Follows(Own)'
    BY <1>6, OwnLines, FollowsWhatIsReceived, Zenon DEF Owns
  <2> QED
    BY <1>3, <2>1 DEF Cleaning, Owns
<1>7. CASE Unit /\ ~Raised'
  <2>1. Follows(Tests)'
    BY <1>7, TestsLines, FollowsWhatIsReceived, Zenon DEF Unit
  <2>2. attempt' = <<>>
    BY <1>1, <1>7 DEF Unit, Driver!Leaves, Driver!Returned
  <2> QED
    BY <1>1, <1>3, <1>7, <2>1, <2>2 DEF Cleaning, Unit, NoTimers
<1>8. CASE Others
  <2>1. attempt' = <<>> /\ NoReset(cleanup')
    BY <1>1, <1>2, <1>8, OthersReturn, OthersLeave, Zenon
  <2>2. r.line.cmd # "REST"
    <3>1. cleanup # <<>> /\ IsSeq(cleanup) /\ c = Head(cleanup)
      BY <1>2, <1>8, InHand DEF DriverInv, Others, ProgramShape, AllKinds
    <3> QED
      BY <1>2, <1>8, <3>1, NoResetLeft DEF Others
  <2>3. /\ IsSeq(results') /\ Len(results') = Len(results) + 1 /\ Len(results) \in Nat
        /\ \A i \in 1 .. Len(results) : results'[i] = results[i]
        /\ results'[Len(results) + 1] = r
        /\ DOMAIN results = 1 .. Len(results)
    BY <1>1, Appended, SeqLen DEF DriverInv, ProgramShape
  <2>4. ASSUME NEW i \in DOMAIN results' PROVE results'[i].line.cmd # "REST"
    <3>1. i \in 1 .. Len(results) \/ i = Len(results) + 1
      BY <2>3, SeqLen
    <3> QED
      BY <1>8, <2>2, <2>3, <3>1 DEF Others
  <2> QED
    BY <1>3, <2>1, <2>4 DEF Cleaning, Others, NoReset
<1> QED
  BY <1>4, <1>5, <1>6, <1>7, <1>8 DEF Cleaning

LEMMA CleaningGivesUp ==
  ASSUME DriverInv, Cleaning,
         Driver!ConnectionRefused \/ Driver!RaiseInvalid \/ Driver!BrokenPipe
  PROVE  Cleaning'
<1>1. /\ UNCHANGED <<app, sock, sent, answers, display, results, debt, got>>
      /\ \/ at' = "raised" /\ at \in {"new", "idle"} /\ UNCHANGED <<attempt, cleanup>>
         \/ Driver!RaiseInvalid /\ Driver!Leaves /\ UNCHANGED at
  BY DEF Driver!ConnectionRefused, Driver!RaiseInvalid, Driver!BrokenPipe,
         Driver!portVars, Driver!vars, Driver!log
<1>2. Gone'
  BY <1>1 DEF Gone, Cleaning
<1>3. ASSUME NEW todo, Scripted(todo), Follows(todo)
      PROVE  Follows(todo)' /\ UNCHANGED attempt
  <2>1. ~Driver!RaiseInvalid
    BY <1>3, ScriptedWants DEF Driver!RaiseInvalid
  <2>2. UNCHANGED <<attempt, cleanup, debt, sent, app>> /\ at' = "raised" /\ at \in {"new", "idle"}
    BY <1>1, <2>1
  <2> QED
    BY <1>3, <2>2, FollowsAnyway
<1>4. CASE Raised
  BY <1>1, <1>2, <1>4 DEF Cleaning, Raised
<1>5. CASE Owns
  <2>1. Follows(Own)'
    BY <1>3, <1>5, OwnLines, Zenon DEF Owns
  <2> QED
    BY <1>2, <2>1 DEF Cleaning, Owns
<1>6. CASE Unit
  <2>1. Follows(Tests)' /\ attempt' = attempt
    BY <1>3, <1>6, TestsLines, Zenon DEF Unit
  <2> QED
    BY <1>1, <1>2, <1>6, <2>1 DEF Cleaning, Unit, NoTimers
<1>7. CASE Others
  <2>1. attempt' = <<>> /\ NoReset(cleanup')
    BY <1>1, <1>7, OthersLeave DEF Others
  <2> QED
    BY <1>1, <1>2, <1>7, <2>1 DEF Cleaning, Others, NoReset
<1> QED
  BY <1>4, <1>5, <1>6, <1>7 DEF Cleaning

LEMMA CleaningInterrupted ==
  ASSUME DriverInv, Cleaning, Driver!KeyboardInterrupt
  PROVE  Cleaning'
<1>1. /\ UNCHANGED <<app, sock, sent, answers, results, cleanup>>
      /\ at \in {"idle", "waiting"} /\ at' = "idle" /\ attempt # <<>>
  BY DEF Driver!KeyboardInterrupt, Driver!portVars, Driver!vars, Driver!log
<1>2. app = "up" => sock[driver] # "deleted"
  BY <1>1 DEF Cleaning, Gone
<1>3. Gone'
  BY <1>1, <1>2 DEF Gone
<1>4. CASE Raised
  BY <1>1, <1>3, <1>4 DEF Cleaning, Raised
<1>5. CASE Owns
  <2>1. Follows(Own)'
    BY <1>2, <1>5, OwnLines, FollowsAfterInterrupt, Zenon DEF Owns
  <2> QED
    BY <1>3, <2>1 DEF Cleaning, Owns
<1> QED
  BY <1>1, <1>4, <1>5 DEF Cleaning, Unit, Others

LEMMA CleaningAnyway ==
  ASSUME Cleaning, Gone', UNCHANGED <<attempt, cleanup, debt, sent, results>>,
         app' = "up" => app = "up" \/ debt = 0,
         at' = "waiting" <=> at = "waiting", at' = "closed" <=> at = "closed"
  PROVE  Cleaning'
<1>1. \A todo : Follows(todo) => Follows(todo)'
  BY FollowsAnyway
<1>2. CASE Raised
  BY <1>2 DEF Cleaning, Raised
<1>3. CASE Owns
  <2>1. Follows(Own)'
    BY <1>3, FollowsAnyway DEF Owns
  <2> QED
    BY <2>1 DEF Cleaning, Owns
<1>4. CASE Unit
  <2>1. Follows(Tests)'
    BY <1>4, FollowsAnyway DEF Unit
  <2> QED
    BY <1>4, <2>1 DEF Cleaning, Unit, NoTimers
<1>5. CASE Others
  BY <1>5 DEF Cleaning, Others, NoReset
<1> QED
  BY <1>2, <1>3, <1>4, <1>5 DEF Cleaning

LEMMA CleaningOpens == ASSUME DriverInv, Cleaning, Driver!open PROVE Cleaning'
<1>1. /\ at = "new" /\ at' = "idle" /\ UNCHANGED <<attempt, cleanup, debt, results>>
      /\ Driver!onConnection(driver)
  BY DEF Driver!open
<1>2. sock'[driver] = "open" /\ UNCHANGED <<app, sent>>
  BY <1>1, OpenStep DEF DriverInv
<1>3. Gone'
  BY <1>2 DEF Gone
<1> QED
  BY <1>1, <1>2, <1>3, CleaningAnyway

LEMMA CleaningHangsUp == ASSUME DriverInv, Cleaning, Driver!Disconnected PROVE Cleaning'
<1>1. /\ UNCHANGED <<attempt, cleanup, at, got, debt, results>>
      /\ Driver!Hangup(driver) /\ at \in {"closed", "raised"}
      /\ wire[driver] \o buffer[driver] = <<>> \/ Len(answers[driver]) > got
  BY DEF Driver!Disconnected, Driver!driverVars
<1>2. UNCHANGED <<app, sent, answers>>
  BY <1>1, HangupStep DEF DriverInv
<1>3. ASSUME wire[driver] \o buffer[driver] = <<>>
      PROVE  Len(answers[driver]) = Len(sent[driver])
  <2> DEFINE w == wire[driver]
             b == buffer[driver]
             j == w \o b
  <2>1. IsSeq(w) /\ IsSeq(b) /\ Len(sent[driver]) = Len(answers[driver]) + Len(b) + Len(w)
    BY DEF DriverInv, PortShape, InOrder
  <2>2. j = <<>>
    BY <1>3
  <2>3. IsSeq(j) /\ Len(j) = Len(w) + Len(b) /\ Len(w) \in Nat /\ Len(b) \in Nat
    BY <2>1, Joint, SeqLen
  <2>4. Len(answers[driver]) \in Nat
    BY Counted DEF DriverInv
  <2> HIDE DEF w, b, j
  <2>5. Len(j) = 0
    BY <2>2, NoLength
  <2> DEFINE x == Len(w)
             y == Len(b)
             m == Len(answers[driver])
             s == Len(sent[driver])
  <2>6. x \in Nat /\ y \in Nat /\ x + y = 0 /\ m \in Nat /\ s = m + y + x
    BY <2>1, <2>3, <2>4, <2>5
  <2> HIDE DEF x, y, m, s
  <2>7. s = m
    BY <2>6
  <2> QED
    BY <2>7 DEF s, m
<1>4. Gone'
  BY <1>1, <1>2, <1>3 DEF Gone
<1> QED
  BY <1>1, <1>2, <1>4, CleaningAnyway

LEMMA UpFrom ==
  ASSUME app' = "up", Driver!Display
  PROVE  app \in {"up", "constructing"}
  BY DEF Driver!Display, Driver!Construct, Driver!Loop, Driver!ParseText, Driver!Quit,
     Driver!Kill,
         Driver!ReadOutOfBounds, Driver!ReadDone, Driver!ReadyRead, Driver!KeyQuit, Driver!Leave,
         Driver!AtLoop, Driver!HasLine

LEMMA CleaningLooksOn ==
  ASSUME DriverInv, Cleaning, PortStep, UNCHANGED Driver!driverVars,
         app' = "up" => app \in {"up", "constructing"}
  PROVE  Cleaning'
<1>1. UNCHANGED <<attempt, cleanup, at, asked, got, debt, results, sent>>
  BY DEF Driver!driverVars, PortStep
<1>2. app' = "up" => app = "up" \/ debt = 0
  BY DEF DriverInv, ProgramShape, Told, AtNew
<1> DEFINE s == Len(sent[driver])
           m == Len(answers[driver])
<1>3. /\ s \in Nat /\ m \in Nat /\ got \in Nat /\ got <= m /\ IsSeq(answers[driver])
      /\ buffer[driver] # <<>> => m < s
  <2> DEFINE b == Len(buffer[driver])
             w == Len(wire[driver])
  <2>1. /\ s \in Nat /\ m \in Nat /\ b \in Nat /\ w \in Nat /\ got \in Nat
        /\ s = m + b + w /\ got <= m
        /\ buffer[driver] # <<>> => b # 0
    BY Counted DEF DriverInv
  <2>2. IsSeq(answers[driver])
    BY DEF DriverInv, PortShape, InOrder
  <2> HIDE DEF s, m, b, w
  <2> QED
    BY <2>1, <2>2
<1>4. ASSUME app' = "up", sock'[driver] = "deleted" PROVE app = "up" /\ sock[driver] = "deleted"
  BY <1>4 DEF PortStep
<1>5. ASSUME at = "closed", m = s \/ m > got
      PROVE  Len(answers'[driver]) = s \/ Len(answers'[driver]) > got
  <2>1. CASE Quiet
    BY <1>5, <2>1 DEF Quiet
  <2>2. CASE \E r : Answered(r)
    <3>1. PICK r : Answered(r)
      BY <2>2
    <3>2. Len(answers'[driver]) = m + 1 /\ m < s
      BY <1>3, <3>1, Appended DEF Answered
    <3> HIDE DEF m, s
    <3> QED
      BY <1>3, <1>5, <3>2
  <2> QED
    BY <2>1, <2>2 DEF PortStep
<1>6. Gone'
  BY <1>1, <1>4, <1>5 DEF Gone, Cleaning
<1> QED
  BY <1>1, <1>2, <1>6, CleaningAnyway

-----------------------------------------------------------------------------
(* What the last lines of a program leave.                                 *)
LEMMA OwnLeavesReset ==
  ASSUME NEW w, NEW s \in Nat, s >= 6, NEW m \in Nat, m = s \/ m = s - 1, NEW d,
         \A i \in 1 .. 6 : w[(s - 6) + i] = Own[i].sends[1],
         SettledBy(w, m, d)
  PROVE  \A f \in Aspects : \A t \in Driver!Timers : AsAtFirst(d, f, t)
<1> DEFINE Line(i, cmd, a) == w[i].cmd = cmd /\ w[i].args = a
<1>1. /\ Line(s - 5, "REST", <<>>) /\ Line(s - 4, "ELAP", <<"0", "STOP">>)
      /\ Line(s - 3, "ELAP", <<"0", "0">>) /\ Line(s - 2, "ELAP", <<"1", "STOP">>)
      /\ Line(s - 1, "ELAP", <<"1", "0">>) /\ Line(s, "QUIT", <<>>)
  <2>1. /\ (s - 6) + 1 = s - 5 /\ (s - 6) + 2 = s - 4 /\ (s - 6) + 3 = s - 3
        /\ (s - 6) + 4 = s - 2 /\ (s - 6) + 5 = s - 1 /\ (s - 6) + 6 = s
    OBVIOUS
  <2>2. /\ w[s - 5] = Own[1].sends[1] /\ w[s - 4] = Own[2].sends[1]
        /\ w[s - 3] = Own[3].sends[1] /\ w[s - 2] = Own[4].sends[1]
        /\ w[s - 1] = Own[5].sends[1] /\ w[s] = Own[6].sends[1]
    <3>1. 1 \in 1 .. 6 /\ 2 \in 1 .. 6 /\ 3 \in 1 .. 6 /\ 4 \in 1 .. 6 /\ 5 \in 1 .. 6 /\ 6 \in 1 .. 6
      OBVIOUS
    <3> QED
      BY <2>1, <3>1, Zenon
  <2> QED
    BY <2>2, OwnLines, Zenon DEF OneLine
<1>2. <<"0", "STOP">>[2] = "STOP" /\ <<"1", "STOP">>[2] = "STOP" /\ <<"0", "0">>[2] = "0"
      /\ <<"1", "0">>[2] = "0"
  OBVIOUS
<1>3. ASSUME NEW j \in s - 4 .. s, NEW f \in Aspects PROVE ~Disturbs(w[j], f)
  <2>1. j = s - 4 \/ j = s - 3 \/ j = s - 2 \/ j = s - 1 \/ j = s
    OBVIOUS
  <2>2. /\ w[j].cmd = "ELAP" \/ w[j].cmd = "QUIT"
        /\ w[j].cmd = "ELAP" => w[j].args[2] = "STOP" \/ w[j].args[2] = "0"
    BY <1>1, <1>2, <2>1
  <2> QED
    BY <2>2 DEF Disturbs
<1>4. ASSUME NEW f \in Aspects, NEW t, NEW i \in s - 5 .. s - 1, Settles(w[i], f, t)
      PROVE  Calm(w, m, i, f, t)
  <2>1. i \in 0 .. m /\ \A j \in i + 1 .. m : j \in s - 4 .. s
    OBVIOUS
  <2> QED
    BY <1>3, <1>4, <2>1 DEF Calm
<1>5. \A f \in Aspects : \A t \in Driver!Timers : \E i \in s - 5 .. s - 1 : Settles(w[i], f, t)
  <2>1. /\ s - 5 \in s - 5 .. s - 1 /\ s - 4 \in s - 5 .. s - 1 /\ s - 3 \in s - 5 .. s - 1
        /\ s - 2 \in s - 5 .. s - 1 /\ s - 1 \in s - 5 .. s - 1
    OBVIOUS
  <2>2. /\ \A t : Settles(w[s - 5], "heading", t)
        /\ Settles(w[s - 4], "timing", "0") /\ Settles(w[s - 3], "show", "0")
        /\ Settles(w[s - 2], "timing", "1") /\ Settles(w[s - 1], "show", "1")
    BY <1>1, Zenon DEF Settles
  <2> HIDE DEF Line
  <2> QED
    BY <2>1, <2>2 DEF Aspects, Driver!Timers
<1>6. \A i \in s - 5 .. s - 1 : i \in Nat
  OBVIOUS
<1> QED
  BY <1>4, <1>5, <1>6 DEF SettledBy

LEMMA LastOrNext ==
  ASSUME NEW s \in Nat, s >= 16, NEW m \in Nat, m = s \/ m = s - 1
  PROVE  /\ \A j \in (s - 1) + 1 .. m : j = s
         /\ \A j \in 0 + 1 .. m : j \in 1 .. s
         /\ s - 1 \in 0 .. m /\ 0 \in 0 .. m
<1>1. CASE m = s
  BY <1>1
<1>2. CASE m = s - 1
  BY <1>2
<1> QED
  BY <1>1, <1>2

LEMMA TestsLeaveReset ==
  ASSUME NEW w, NEW s \in Nat, s >= 16, NEW m \in Nat, m = s \/ m = s - 1, NEW d, s = Len(w),
         \A i \in 1 .. 16 : w[(s - 16) + i] = Tests[i].sends[1],
         NoTimers(w), SettledBy(w, m, d)
  PROVE  \A f \in Aspects : \A t \in Driver!Timers : AsAtFirst(d, f, t)
<1>1. w[s - 1].cmd = "REST" /\ w[s - 1].args = <<>> /\ w[s].cmd = "QUIT"
  <2>1. (s - 16) + 15 = s - 1 /\ (s - 16) + 16 = s /\ 15 \in 1 .. 16 /\ 16 \in 1 .. 16
    OBVIOUS
  <2>2. w[s - 1] = Tests[15].sends[1] /\ w[s] = Tests[16].sends[1]
    BY <2>1, Zenon
  <2>3. Tests[16].sends[1].cmd = "QUIT"
    BY <2>1, TestsLines DEF Scripted
  <2> QED
    BY <2>2, <2>3, TestsLines DEF OneLine
<1>2. ASSUME NEW j \in 0 + 1 .. m PROVE w[j].cmd # "ELAP"
  <2>1. j \in 1 .. s
    BY LastOrNext, Zenon
  <2>2. j \in 1 .. Len(w)
    BY <2>1
  <2> QED
    BY <2>2 DEF NoTimers
<1>3. (\A j \in (s - 1) + 1 .. m : j = s) /\ s - 1 \in 0 .. m /\ 0 \in 0 .. m
  BY LastOrNext, Zenon
<1>4. ASSUME NEW t PROVE Calm(w, m, s - 1, "heading", t)
  <2>1. Settles(w[s - 1], "heading", t)
    BY <1>1, Zenon DEF Settles
  <2>2. ~Disturbs(w[s], "heading")
    BY <1>1 DEF Disturbs
  <2>3. \A j \in (s - 1) + 1 .. m : ~Disturbs(w[j], "heading")
    BY <1>3, <2>2, Zenon
  <2> QED
    BY <1>3, <2>1, <2>3, Zenon DEF Calm
<1>5. ASSUME NEW t PROVE Calm(w, m, 0, "timing", t) /\ Calm(w, m, 0, "show", t)
  <2>1. \A j \in 0 + 1 .. m : ~Disturbs(w[j], "timing") /\ ~Disturbs(w[j], "show")
    BY <1>2, Zenon DEF Disturbs
  <2> QED
    BY <1>3, <2>1, Zenon DEF Calm
<1>6. s - 1 \in Nat /\ 0 \in Nat
  OBVIOUS
<1> QED
  BY <1>4, <1>5, <1>6 DEF SettledBy, Aspects

LEMMA ReadToTheEnd ==
  ASSUME DriverInv, Gone, NEW todo, Scripted(todo), Follows(todo),
         at = "closed", app = "up", sock[driver] \in {"quit", "deleted"}
  PROVE  /\ Len(sent[driver]) \in Nat /\ Len(sent[driver]) >= Len(todo)
         /\ \A i \in 1 .. Len(todo) :
              sent[driver][(Len(sent[driver]) - Len(todo)) + i] = todo[i].sends[1]
         /\ Len(answers[driver]) \in Nat
         /\ Len(answers[driver]) = Len(sent[driver])
              \/ Len(answers[driver]) = Len(sent[driver]) - 1
<1> DEFINE s == Len(sent[driver])
           m == Len(answers[driver])
           n == Len(todo)
<1>1. s \in Nat /\ m \in Nat /\ m <= s /\ got \in Nat /\ got <= m /\ n \in Nat /\ debt \in Nat
  <2> DEFINE b == Len(buffer[driver])
             w == Len(wire[driver])
  <2>1. /\ s \in Nat /\ m \in Nat /\ b \in Nat /\ w \in Nat /\ got \in Nat
        /\ s = m + b + w /\ got <= m /\ debt \in Nat
    BY Counted DEF DriverInv
  <2>2. n \in Nat
    BY SeqLen DEF Scripted
  <2> HIDE DEF s, m, b, w, n
  <2> QED
    BY <2>1, <2>2
<1>2. Wrote(sent[driver], todo, n)
  <2>1. attempt = <<>> /\ Len(cleanup) = 0
    BY NoLength DEF Follows
  <2>2. Progress(todo) = n
    BY <1>1, <2>1 DEF Progress
  <2> QED
    BY <2>2 DEF Follows
<1>3. m = s \/ m = s - 1
  <2>1. CASE sock[driver] = "quit"
    <3>1. PICK i \in 1 .. m : sent[driver][i].cmd = "QUIT"
      BY <2>1 DEF DriverInv, QuitRead, QuitBy
    <3>2. i = s
      BY <1>1, <3>1 DEF Follows
    <3> QED
      BY <1>1, <3>2
  <2>2. CASE sock[driver] = "deleted"
    <3>1. m = s \/ m > got
      BY <2>2 DEF Gone
    <3>2. s <= got + debt + 1 /\ debt <= 1
      BY DEF DriverInv, Told, AtClosed, Follows
    <3> HIDE DEF s, m
    <3> QED
      BY <1>1, <3>1, <3>2
  <2> QED
    BY <2>1, <2>2
<1>4. n <= s /\ \A i \in 1 .. n : sent[driver][(s - n) + i] = todo[i].sends[1]
  BY <1>1, <1>2 DEF Wrote
<1> QED
  BY <1>1, <1>3, <1>4

LEMMA DriverLeaves == ASSUME DriverInv, Cleaning PROVE Driver!LeftReset
<1> SUFFICES ASSUME at = "closed", app = "up", sock[driver] \in {"quit", "deleted"},
                    \E i \in DOMAIN results : results[i].line.cmd = "REST",
                    \A i \in DOMAIN results : results[i].value.is # "exception"
             PROVE  \A f \in Aspects : \A t \in Driver!Timers : AsAtFirst(display, f, t)
  <2>1. ASSUME \A f \in Aspects : \A t \in Driver!Timers : AsAtFirst(display, f, t)
        PROVE  /\ display.heading = Driver!DefaultDisplay(TRUE).heading
               /\ \A t \in Driver!Timers : ~display.show[t] /\ ~display.timing[t]
    <3>1. "0" \in Driver!Timers /\ "heading" \in Aspects /\ "show" \in Aspects /\ "timing" \in Aspects
      BY DEF Driver!Timers, Aspects
    <3>2. AsAtFirst(display, "heading", "0")
      BY <2>1, <3>1
    <3>3. \A t \in Driver!Timers : AsAtFirst(display, "show", t) /\ AsAtFirst(display, "timing", t)
      BY <2>1, <3>1
    <3> QED
      BY <3>2, <3>3 DEF AsAtFirst, AtFirst
  <2> QED
    BY <2>1 DEF Driver!LeftReset
<1> DEFINE w == sent[driver]
           s == Len(w)
           m == Len(answers[driver])
<1>1. SettledBy(w, m, display) /\ Gone
  BY DEF DriverInv, Settled, Cleaning
<1>2. CASE Owns
  <2>1. Scripted(Own) /\ Len(Own) = 6
    BY OwnLines
  <2>2. /\ s \in Nat /\ s >= Len(Own) /\ m \in Nat /\ (m = s \/ m = s - 1)
        /\ \A i \in 1 .. Len(Own) : w[(s - Len(Own)) + i] = Own[i].sends[1]
    BY <1>1, <1>2, <2>1, ReadToTheEnd, Zenon DEF Owns
  <2> HIDE DEF w, s, m
  <2>3. s >= 6 /\ \A i \in 1 .. 6 : w[(s - 6) + i] = Own[i].sends[1]
    BY <2>1, <2>2
  <2> QED
    BY <1>1, <2>2, <2>3, OwnLeavesReset
<1>3. CASE Unit
  <2>1. Scripted(Tests) /\ Len(Tests) = 16
    BY TestsLines
  <2>2. /\ s \in Nat /\ s >= Len(Tests) /\ m \in Nat /\ (m = s \/ m = s - 1)
        /\ \A i \in 1 .. Len(Tests) : w[(s - Len(Tests)) + i] = Tests[i].sends[1]
        /\ NoTimers(w) /\ s = Len(w)
    BY <1>1, <1>3, <2>1, ReadToTheEnd, Zenon DEF Unit
  <2> HIDE DEF w, s, m
  <2>3. s >= 16 /\ \A i \in 1 .. 16 : w[(s - 16) + i] = Tests[i].sends[1]
    BY <2>1, <2>2
  <2> QED
    BY <1>1, <2>2, <2>3, TestsLeaveReset
<1> QED
  BY <1>2, <1>3 DEF Cleaning, Raised, Others

-----------------------------------------------------------------------------
LEMMA DriverNextStep ==
  ASSUME DriverInv, Cleaning, Driver!DriverNext
  PROVE  DriverInv' /\ Cleaning'
<1>1. CASE Driver!open
  BY <1>1, DriverOpens, CleaningOpens
<1>2. CASE Driver!ConnectionRefused \/ Driver!RaiseInvalid \/ Driver!BrokenPipe
  BY <1>2, DriverGivesUp, CleaningGivesUp
<1>3. CASE Driver!Ask
  BY <1>3, DriverAsks, CleaningAsks
<1>4. CASE \E n \in 0 .. Len(answers[driver]) : Driver!Receive(n)
  <2>1. PICK n \in 0 .. Len(answers[driver]) : Driver!Receive(n)
    BY <1>4
  <2>2. n \in Nat
    BY Counted DEF DriverInv
  <2> QED
    BY <2>1, <2>2, DriverReceives, CleaningReceives
<1>5. CASE Driver!KeyboardInterrupt
  BY <1>5, DriverInterrupted, CleaningInterrupted
<1>6. CASE Driver!Disconnected
  BY <1>6, DriverHangsUp, CleaningHangsUp
<1>7. CASE Driver!Display
  <2>1. PortStep /\ UNCHANGED Driver!driverVars
    BY <1>7, ProgramStep DEF Driver!Display, DriverInv
  <2>2. app' = "up" => app \in {"up", "constructing"}
    BY <1>7, UpFrom
  <2> QED
    BY <2>1, <2>2, DriverLooksOn, CleaningLooksOn
<1> QED
  BY <1>1, <1>2, <1>3, <1>4, <1>5, <1>6, <1>7 DEF Driver!DriverNext

LEMMA DriverStutter ==
  ASSUME DriverInv, Cleaning, UNCHANGED Driver!allVars
  PROVE  DriverInv' /\ Cleaning'
<1>1. UNCHANGED <<app, tcpServer, sock, wire, buffer, reader, display, script, saved, sent,
                  answers, history, attempt, cleanup, at, asked, got, debt, results>>
  BY DEF Driver!allVars, Driver!portVars, Driver!vars, Driver!log, Driver!driverVars
<1>2. PortShape' /\ Settled' /\ QuitRead' /\ ProgramShape'
  BY <1>1 DEF DriverInv, PortShape, Settled, QuitRead, ProgramShape
<1>3. Driver!InStep' /\ Driver!StatusIsAsSet'
  BY <1>1, SameResultsSameTruth
<1>4. Told'
  BY <1>1 DEF DriverInv, Told, AtNew, AtIdle, AtWaiting, AtClosed, Expected, Driver!Calls
<1>5. Gone'
  BY <1>1 DEF Cleaning, Gone
<1>6. Cleaning'
  BY <1>1, <1>5, CleaningAnyway
<1> QED
  BY <1>2, <1>3, <1>4, <1>6 DEF DriverInv

DriverScene == scene = "driver" => DriverInv /\ Cleaning

(* What a program is told through the Python driver is true, and the       *)
(* demonstration and the unit tests leave the display as they should, with *)
(* Ctrl-C or without (display_driver.py, test-display.py), for any texts.  *)
THEOREM ProgramsKnowTheDisplay == Spec => []DriverKnowsTheDisplay
<1>1. Init => DriverScene
  BY DriverInitially, CleaningInitially DEF Init, DriverScene
<1>2. DriverScene /\ [Next]_vars => DriverScene'
  <2> SUFFICES ASSUME DriverScene, [Next]_vars, scene' = "driver"
               PROVE  DriverInv' /\ Cleaning'
    BY DEF DriverScene
  <2>1. scene = "driver" /\ DriverInv /\ Cleaning
    BY DEF Next, vars, DriverScene
  <2>2. CASE Next
    BY <2>1, <2>2, DriverNextStep DEF Next
  <2>3. CASE UNCHANGED vars
    <3>1. UNCHANGED Driver!allVars
      BY <2>3 DEF vars, driverVars, Driver!allVars, Driver!portVars, Driver!vars, Driver!log,
                  Driver!driverVars
    <3> QED
      BY <2>1, <3>1, DriverStutter
  <2> QED
    BY <2>2, <2>3
<1>3. DriverScene => DriverKnowsTheDisplay
  <2>1. DriverInv /\ Cleaning => Driver!DriverKnowsTheDisplay
    BY DriverLeaves DEF Driver!DriverKnowsTheDisplay, DriverInv
  <2> QED
    BY <2>1 DEF DriverScene, DriverKnowsTheDisplay
<1> QED
  BY <1>1, <1>2, <1>3, PTL DEF Spec

-----------------------------------------------------------------------------
(* Sequences one after the other.                                          *)
Joining(ss, f) == f[0] = <<>> /\ \A n \in 1 .. Len(ss) : f[n] = f[n - 1] \o ss[n]
JoinRead(ss, f) ==
  f = [n \in 0 .. Len(ss) |-> IF n = 0 THEN <<>> ELSE f[n - 1] \o ss[n]]

LEMMA ConcatOnce ==
  ASSUME NEW ss, Len(ss) \in Nat, NEW f, Joining(ss, f)
  PROVE  Request!Concat(ss) = f[Len(ss)]
<1> DEFINE h == [n \in 0 .. Len(ss) |-> f[n]]
           g == CHOOSE r : JoinRead(ss, r)
<1>1. JoinRead(ss, h)
  <2>1. \A n \in 0 .. Len(ss) : h[n] = IF n = 0 THEN <<>> ELSE h[n - 1] \o ss[n]
    BY SMTT(30) DEF Joining
  <2> QED
    BY <2>1 DEF JoinRead
<1> HIDE DEF h
<1>2. JoinRead(ss, g)
  BY <1>1, Zenon
<1>3. Request!Concat(ss) = g[Len(ss)]
  BY Zenon DEF Request!Concat, Request!Fold, JoinRead
<1> HIDE DEF g
<1>4. \A n \in 0 .. Len(ss) : g[n] = IF n = 0 THEN <<>> ELSE g[n - 1] \o ss[n]
  BY <1>2, Zenon DEF JoinRead
<1>5. SameSteps(g, f, Len(ss))
  <2>1. 0 \in 0 .. Len(ss) /\ \A n \in 1 .. Len(ss) : n \in 0 .. Len(ss) /\ n # 0
    OBVIOUS
  <2> QED
    BY <1>4, <2>1, Zenon DEF Joining, SameSteps
<1>6. g[Len(ss)] = f[Len(ss)]
  BY <1>5, SameResults
<1> QED
  BY <1>3, <1>6

LEMMA OneFurther ==
  ASSUME NEW m \in Nat, NEW f, NEW y
  PROVE  \E h : h[m + 1] = y /\ \A n \in 0 .. m : h[n] = f[n]
<1> DEFINE h == [n \in 0 .. m + 1 |-> IF n = m + 1 THEN y ELSE f[n]]
<1>1. h[m + 1] = y /\ \A n \in 0 .. m : h[n] = f[n]
  OBVIOUS
<1> QED
  BY <1>1, Zenon

-----------------------------------------------------------------------------
(* Where the elements of sequences one after the other are.                *)
IsJoint(u, s, t) ==
  /\ Len(u) = Len(s) + Len(t) /\ Len(s) \in Nat /\ Len(t) \in Nat /\ Len(s) <= Len(u)
  /\ \A i \in 1 .. Len(s) : u[i] = s[i]
  /\ \A i \in 1 .. Len(t) : Len(s) + i \in 1 .. Len(u) /\ u[Len(s) + i] = t[i]

LEMMA JointIn ==
  ASSUME NEW S, NEW s \in Seq(S), NEW t \in Seq(S)
  PROVE  s \o t \in Seq(S) /\ IsJoint(s \o t, s, t)
  BY DEF IsJoint

StartsWith(u, s) == Len(s) <= Len(u) /\ \A i \in 1 .. Len(s) : u[i] = s[i]

LEMMA JointBegins ==
  ASSUME NEW s, NEW t, NEW u, IsJoint(u, s, t), NEW r, Len(r) \in Nat, StartsWith(s, r)
  PROVE  StartsWith(u, r)
  BY DEF StartsWith, IsJoint

JoinsIn(S, ss, f) ==
  Joining(ss, f) /\ \A n \in 0 .. Len(ss) : f[n] \in Seq(S)

LEMMA Joins ==
  ASSUME NEW S, NEW ss \in Seq(Seq(S))
  PROVE  \E f : JoinsIn(S, ss, f) /\ Request!Concat(ss) = f[Len(ss)]
<1> DEFINE N == Len(ss)
           Reach(m, f) == /\ f[0] = <<>> /\ \A n \in 1 .. m : f[n] = f[n - 1] \o ss[n]
                          /\ \A n \in 0 .. m : f[n] \in Seq(S)
           T == {m \in Nat : m <= N => \E f : Reach(m, f)}
<1>0. N \in Nat /\ \A n \in 1 .. N : ss[n] \in Seq(S)
  OBVIOUS
<1>1. 0 \in T
  <2> DEFINE f == [n \in {0} |-> <<>>]
  <2>1. Reach(0, f)
    OBVIOUS
  <2> QED
    BY <2>1
<1> HIDE DEF T, N
<1>2. ASSUME NEW m \in T PROVE m + 1 \in T
  <2> SUFFICES ASSUME m + 1 <= N PROVE \E f : Reach(m + 1, f)
    <3>1. m + 1 \in Nat
      BY DEF T
    <3> QED
      BY <3>1 DEF T
  <2>1. m \in Nat /\ m <= N /\ m + 1 \in 1 .. N
    BY <1>0 DEF T
  <2>2. PICK f : Reach(m, f)
    BY <1>0, <2>1 DEF T
  <2>3. PICK h : h[m + 1] = f[m] \o ss[m + 1] /\ \A n \in 0 .. m : h[n] = f[n]
    <3>1. m \in Nat
      BY <2>1
    <3>2. \A g, y : \E h : h[m + 1] = y /\ \A n \in 0 .. m : h[n] = g[n]
      BY <3>1, OneFurther, Zenon
    <3> QED
      BY <3>2, Zenon
  <2>4. h[m + 1] \in Seq(S)
    <3>1. f[m] \in Seq(S) /\ ss[m + 1] \in Seq(S)
      BY <1>0, <2>1, <2>2
    <3>2. f[m] \o ss[m + 1] \in Seq(S)
      BY <3>1, ConcatProperties
    <3> QED
      BY <2>3, <3>2
  <2>5. \A n \in 0 .. m + 1 : h[n] \in Seq(S)
    <3>1. \A n \in 0 .. m : h[n] \in Seq(S)
      BY <2>2, <2>3
    <3> QED
      BY <2>1, <2>4, <3>1
  <2>6. ASSUME NEW n \in 1 .. m + 1 PROVE h[n] = h[n - 1] \o ss[n]
    <3>1. CASE n = m + 1
      <4>1. h[m] = f[m] /\ n - 1 = m
        BY <2>1, <2>3, <3>1
      <4> QED
        BY <2>3, <3>1, <4>1
    <3>2. CASE n # m + 1
      <4>1. n \in 1 .. m /\ n \in 0 .. m /\ n - 1 \in 0 .. m
        BY <2>1, <3>2
      <4> QED
        BY <2>2, <2>3, <4>1
    <3> QED
      BY <3>1, <3>2
  <2>7. h[0] = <<>>
    BY <2>1, <2>2, <2>3
  <2>8. Reach(m + 1, h)
    BY <2>5, <2>6, <2>7
  <2> QED
    BY <2>8, Zenon
<1>3. T = Nat
  <2>1. T \subseteq Nat
    BY DEF T
  <2> QED
    BY <1>1, <1>2, <2>1, Induction
<1>4. PICK f : Reach(N, f)
  <2>1. N \in T /\ N <= N
    BY <1>0, <1>3
  <2> QED
    BY <2>1 DEF T
<1>5. JoinsIn(S, ss, f)
  BY <1>4 DEF JoinsIn, Joining, N
<1>6. Request!Concat(ss) = f[N]
  BY <1>0, <1>4, ConcatOnce DEF Joining, N
<1> QED
  BY <1>5, <1>6 DEF N

LEMMA JoinsGrow ==
  ASSUME NEW S, NEW ss \in Seq(Seq(S)), NEW f, JoinsIn(S, ss, f)
  PROVE  \A n \in 0 .. Len(ss) : \A m \in n .. Len(ss) : StartsWith(f[m], f[n])
<1> SUFFICES ASSUME NEW n \in 0 .. Len(ss)
             PROVE  \A m \in n .. Len(ss) : StartsWith(f[m], f[n])
  OBVIOUS
<1> DEFINE N == Len(ss)
           T == {d \in Nat : n + d <= N => StartsWith(f[n + d], f[n])}
<1>1. /\ N \in Nat /\ n \in Nat /\ \A m \in 0 .. N : f[m] \in Seq(S)
      /\ Len(f[n]) \in Nat
  <2>1. N \in Nat /\ n \in Nat /\ \A m \in 0 .. N : f[m] \in Seq(S)
    BY DEF JoinsIn
  <2>2. f[n] \in Seq(S)
    BY <2>1
  <2> QED
    BY <2>1, <2>2
<1>2. \A m \in 1 .. N : f[m] = f[m - 1] \o ss[m] /\ ss[m] \in Seq(S)
  <2>1. \A m \in 1 .. N : f[m] = f[m - 1] \o ss[m]
    BY Zenon DEF JoinsIn, Joining
  <2>2. \A m \in 1 .. N : ss[m] \in Seq(S)
    OBVIOUS
  <2> QED
    BY <2>1, <2>2
<1> HIDE DEF N
<1>3. 0 \in T
  <2>1. n + 0 = n /\ StartsWith(f[n], f[n])
    BY <1>1 DEF StartsWith
  <2> QED
    BY <2>1
<1>4. ASSUME NEW d \in T PROVE d + 1 \in T
  <2> SUFFICES ASSUME n + (d + 1) <= N PROVE StartsWith(f[n + (d + 1)], f[n])
    OBVIOUS
  <2> DEFINE m == n + d
  <2>1. d \in Nat /\ m \in 0 .. N /\ m + 1 \in 1 .. N /\ n + (d + 1) = m + 1
    BY <1>1
  <2>2. StartsWith(f[m], f[n])
    BY <1>1, <2>1
  <2>3. (m + 1) - 1 = m
    BY <2>1
  <2> HIDE DEF m
  <2>4. f[m] \in Seq(S) /\ ss[m + 1] \in Seq(S) /\ f[m + 1] = f[m] \o ss[m + 1]
    BY <1>1, <1>2, <2>1, <2>3
  <2>5. IsJoint(f[m + 1], f[m], ss[m + 1])
    BY <2>4, JointIn
  <2>6. StartsWith(f[m + 1], f[n])
    BY <1>1, <2>2, <2>5, JointBegins, Zenon
  <2> QED
    BY <2>1, <2>6
<1> HIDE DEF T
<1>5. T = Nat
  <2>1. T \subseteq Nat
    BY DEF T
  <2> QED
    BY <1>3, <1>4, <2>1, Induction
<1>6. ASSUME NEW m \in n .. N PROVE StartsWith(f[m], f[n])
  <2>1. m - n \in Nat /\ n + (m - n) = m /\ m <= N
    BY <1>1
  <2> QED
    BY <1>5, <2>1 DEF T
<1> QED
  BY <1>6 DEF N

LEMMA JoinPlaces ==
  ASSUME NEW S, NEW ss \in Seq(Seq(S)), NEW f, JoinsIn(S, ss, f),
         NEW n \in 1 .. Len(ss)
  PROVE  /\ ss[n] \in Seq(S) /\ f[n - 1] \in Seq(S) /\ f[n] \in Seq(S)
         /\ f[Len(ss)] \in Seq(S)
         /\ IsJoint(f[n], f[n - 1], ss[n]) /\ StartsWith(f[Len(ss)], f[n])
<1>1. /\ Len(ss) \in Nat /\ n - 1 \in 0 .. Len(ss) /\ n \in 0 .. Len(ss)
      /\ Len(ss) \in n .. Len(ss) /\ Len(ss) \in 0 .. Len(ss) /\ ss[n] \in Seq(S)
  OBVIOUS
<1>2. /\ f[n - 1] \in Seq(S) /\ f[n] \in Seq(S) /\ f[Len(ss)] \in Seq(S)
      /\ f[n] = f[n - 1] \o ss[n]
  BY <1>1, Zenon DEF JoinsIn, Joining
<1>3. IsJoint(f[n], f[n - 1], ss[n])
  BY <1>1, <1>2, JointIn
<1>4. StartsWith(f[Len(ss)], f[n])
  BY <1>1, JoinsGrow, Zenon
<1> QED
  BY <1>1, <1>2, <1>3, <1>4

-----------------------------------------------------------------------------
(* Requests.  What the socket gives.                                       *)
Byte == STRING \cup {Request!CR, Request!LF}

LEMMA WordsParts ==
  ASSUME NEW s \in Seq(Byte), NEW n \in 0 .. Len(s)
  PROVE  /\ SubSeq(s, 1, n) \in Seq(Byte) /\ Len(SubSeq(s, 1, n)) = n
         /\ SubSeq(s, n + 1, Len(s)) \in Seq(Byte)
         /\ SubSeq(s, 1, n) \o SubSeq(s, n + 1, Len(s)) = s
         /\ \A i \in 1 .. n : SubSeq(s, 1, n)[i] = s[i]
<1>1. Len(s) \in Nat /\ n \in Nat /\ \A i \in 1 .. Len(s) : s[i] \in Byte
  OBVIOUS
<1>2. /\ SubSeq(s, 1, n) \in Seq(Byte) /\ Len(SubSeq(s, 1, n)) = n
      /\ \A i \in 1 .. n : SubSeq(s, 1, n)[i] = s[i]
  BY <1>1
<1>3. SubSeq(s, n + 1, Len(s)) \in Seq(Byte)
  BY <1>1, SubSeqProperties
<1>4. SubSeq(s, 1, n) \o SubSeq(s, n + 1, Len(s)) = SubSeq(s, 1, Len(s))
  <2>1. /\ 1 \in 1 .. Len(s) + 1 /\ n \in 1 - 1 .. Len(s)
        /\ Len(s) \in n .. Len(s)
    BY <1>1
  <2> QED
    BY <2>1, ConcatAdjacentSubSeq
<1>5. SubSeq(s, 1, Len(s)) = s
  BY SubSeqFull
<1> QED
  BY <1>1, <1>2, <1>3, <1>4, <1>5

LEMMA LeastOf ==
  ASSUME NEW S \in SUBSET Nat, S # {}
  PROVE  Request!Least(S) \in S /\ \A i \in S : Request!Least(S) <= i
<1>1. PICK n \in S : \A m \in S : ~(<<m, n>> \in OpToRel(<, Nat))
  BY NatLessThanWellFounded, WFMin, Zenon
<1>2. \A m \in S : n <= m
  <2> SUFFICES ASSUME NEW m \in S PROVE n <= m
    OBVIOUS
  <2>1. m \in Nat /\ n \in Nat
    BY <1>1
  <2>2. ~(m < n)
    <3> SUFFICES ASSUME m < n PROVE FALSE
      OBVIOUS
    <3>1. <<m, n>> \in OpToRel(<, Nat)
      BY <2>1 DEF OpToRel
    <3> QED
      BY <1>1, <3>1, Zenon
  <2> QED
    BY <2>1, <2>2
<1>3. \E i \in S : \A j \in S : i <= j
  BY <1>2
<1> QED
  BY <1>3, Zenon DEF Request!Least

(* What readLine gives: up to the first line feed, the limit or the end.   *)
LEMMA LineRead ==
  ASSUME NEW s \in Seq(Byte), s # <<>>, NEW n \in Nat \ {0}
  PROVE  \E e \in 1 .. Len(s) :
           /\ Request!readLine(s, n) = SubSeq(s, 1, e) /\ e <= n
           /\ \A i \in 1 .. e - 1 : s[i] # Request!LF
<1>1. Len(s) \in Nat \ {0} /\ DOMAIN s = 1 .. Len(s)
  OBVIOUS
<1> DEFINE ends == {i \in DOMAIN s : s[i] = Request!LF \/ i = n \/ i = Len(s)}
           e == Request!Least(ends)
<1>2. /\ \A i \in 1 .. Len(s) : (s[i] = Request!LF \/ i = n \/ i = Len(s)) => i \in ends
      /\ \A i \in ends : i \in 1 .. Len(s) /\ (s[i] = Request!LF \/ i = n \/ i = Len(s))
  BY <1>1, Zenon
<1> HIDE DEF ends
<1>7. Len(s) \in ends /\ ends \in SUBSET Nat /\ (n <= Len(s) => n \in ends)
  <2>1. Len(s) \in 1 .. Len(s) /\ (n <= Len(s) => n \in 1 .. Len(s))
    BY <1>1
  <2>2. Len(s) \in ends /\ (n <= Len(s) => n \in ends)
    BY <1>2, <2>1, Zenon
  <2>3. \A i \in ends : i \in 1 .. Len(s)
    BY <1>2, Zenon
  <2>4. ends \in SUBSET Nat
    BY <1>1, <2>3
  <2> QED
    BY <2>2, <2>4
<1>3. e \in ends /\ \A i \in ends : e <= i
  BY <1>7, LeastOf, Zenon
<1>4. Request!readLine(s, n) = SubSeq(s, 1, e)
  BY DEF Request!readLine, ends
<1> HIDE DEF e
<1>5. e \in 1 .. Len(s) /\ e <= n
  <2>1. e \in 1 .. Len(s)
    BY <1>2, <1>3, Zenon
  <2>2. n <= Len(s) => e <= n
    BY <1>3, <1>7, Zenon
  <2> QED
    BY <1>1, <2>1, <2>2
<1>6. \A i \in 1 .. e - 1 : s[i] # Request!LF
  <2> SUFFICES ASSUME NEW i \in 1 .. e - 1, s[i] = Request!LF PROVE FALSE
    OBVIOUS
  <2>1. i \in 1 .. Len(s) /\ ~(e <= i)
    BY <1>1, <1>5
  <2>2. i \in ends
    BY <1>2, <2>1, Zenon
  <2> QED
    BY <1>3, <2>1, <2>2, Zenon
<1> QED
  BY <1>4, <1>5, <1>6

LEMMA BytesRead ==
  ASSUME NEW s \in Seq(Byte), NEW n \in Int
  PROVE  \E e \in 0 .. Len(s) :
           /\ Request!readBytes(s, n) = SubSeq(s, 1, e)
           /\ n >= 0 => e <= n
<1>1. Len(s) \in Nat
  OBVIOUS
<1>2. CASE n < 0
  <2>1. Request!readBytes(s, n) = SubSeq(s, 1, n) /\ 0 \in 0 .. Len(s)
    BY <1>1, <1>2 DEF Request!readBytes
  <2>2. SubSeq(s, 1, n) = SubSeq(s, 1, 0)
    BY <1>2, SubSeqEmpty
  <2> QED
    BY <1>2, <2>1, <2>2
<1>3. CASE n >= 0
  BY <1>1, <1>3 DEF Request!readBytes
<1> QED
  BY <1>2, <1>3

-----------------------------------------------------------------------------
(* What a request takes.  Its fields, of which the sizes matter here.      *)
IsParsed(p) ==
  /\ DOMAIN p = {"status", "currentSize", "expectedBodySize", "lineBuffer", "query",
                 "currentHeader", "headers", "multipart", "bodyData", "parameters",
                 "cookies", "files"}
  /\ {p.lineBuffer, p.bodyData} \subseteq Seq(Byte) /\ p.multipart \in BOOLEAN
  /\ p.expectedBodySize \in Int

InHeadOf(p) == p.status \in {"waitForRequest", "waitForHeader"}

(* n bytes are not more than the request may have taken.                   *)
Allowed(p, n) ==
  CASE InHeadOf(p) ->
         /\ p.currentSize \in n .. maxSize /\ ~p.multipart /\ p.bodyData = <<>>
    [] p.status = "waitForBody" ->
         IF p.multipart THEN n <= maxSize + 1 + Len(p.bodyData)
         ELSE p.currentSize \in n .. maxSize
    [] p.status = "complete" ->
         n <= IF p.multipart THEN maxSize + maxMultiPartSize ELSE maxSize
    [] p.status = "abort" -> TRUE

LEMMA MaxSizes == maxSize \in Nat /\ maxMultiPartSize \in Nat /\ ReadBlock \in Nat \ {0}
  BY ClientsAssumption

LEMMA AllowedInHead ==
  ASSUME NEW p, NEW n, InHeadOf(p)
  PROVE  Allowed(p, n) <=>
           /\ p.currentSize \in n .. maxSize /\ ~p.multipart /\ p.bodyData = <<>>
  BY DEF Allowed, InHeadOf

LEMMA AllowedAfter ==
  ASSUME NEW p, NEW n
  PROVE  /\ p.status = "waitForBody" =>
              /\ Allowed(p, n) <=>
                   IF p.multipart THEN n <= maxSize + 1 + Len(p.bodyData)
                   ELSE p.currentSize \in n .. maxSize
              /\ ~InHeadOf(p)
         /\ p.status = "complete" =>
              /\ Allowed(p, n) <=>
                   n <= IF p.multipart THEN maxSize + maxMultiPartSize ELSE maxSize
              /\ ~InHeadOf(p)
         /\ p.status = "abort" => Allowed(p, n)
  BY DEF Allowed, InHeadOf

(* What is finished keeps to what it may take.                             *)
WithinLimits(p, n) ==
  /\ IsParsed(p) /\ Allowed(p, n)
  /\ InHeadOf(p) \/ p.status \in {"waitForBody", "complete", "abort"}

TakenInv ==
  /\ {sock, stream} \subseteq Seq(Byte) /\ taken \in Nat /\ IsSeq(outcomes)
  /\ request = Request!NoRequest \/ WithinLimits(request, taken)
  /\ Request!AcceptedFits

(* What is asked of a request before it is finished.                       *)
Fitting(q, n) ==
  /\ IsParsed(q)
  /\ \/ InHeadOf(q) /\ q.currentSize \in Nat /\ n <= q.currentSize
          /\ ~q.multipart /\ q.bodyData = <<>>
     \/ q.status = "waitForBody" /\ ~q.multipart /\ q.currentSize \in Nat
          /\ n <= q.currentSize
     \/ q.status = "waitForBody" /\ q.multipart /\ n <= maxSize + 1 + Len(q.bodyData)
     \/ q.status = "complete" /\ q.currentSize \in Nat /\ n <= q.currentSize
     \/ q.status = "complete" /\ q.multipart /\ n <= maxSize + maxMultiPartSize
     \/ q.status = "abort"

LEMMA FinishedFits ==
  ASSUME NEW q, NEW n \in Nat, Fitting(q, n)
  PROVE  WithinLimits(Request!Finished(q), n)
<1> DEFINE p == Request!Finished(q)
<1> USE DEF WithinLimits, Fitting
<1>1. maxSize \in Nat /\ maxMultiPartSize \in Nat /\ Request!TooMany(q) \in BOOLEAN
  BY MaxSizes DEF Request!TooMany
<1>2. CASE Request!TooMany(q)
  <2>1. p = [q EXCEPT !.status = "abort"]
    BY <1>2 DEF Request!Finished
  <2>2. p.status = "abort" /\ IsParsed(p)
    BY <2>1 DEF IsParsed
  <2> QED
    BY <2>2 DEF Allowed, InHeadOf
<1>3. CASE ~Request!TooMany(q) /\ q.status # "complete"
  <2>1. p = q
    BY <1>3 DEF Request!Finished
  <2>2. CASE InHeadOf(q)
    <3>1. q.currentSize \in Nat /\ n <= q.currentSize /\ ~q.multipart /\ q.bodyData = <<>>
      BY <1>3, <2>2 DEF InHeadOf
    <3>2. q.currentSize <= maxSize
      BY <1>1, <1>3, <3>1 DEF Request!TooMany
    <3> QED
      BY <1>1, <2>1, <2>2, <3>1, <3>2, AllowedInHead
  <2>3. CASE q.status = "waitForBody"
    <3>1. CASE q.multipart
      <4>1. n <= maxSize + 1 + Len(q.bodyData)
        BY <2>3, <3>1 DEF InHeadOf
      <4>2. Allowed(q, n)
        BY <2>3, <3>1, <4>1, AllowedAfter
      <4>3. q.status \in {"waitForBody", "complete", "abort"}
        BY <2>3
      <4> QED
        BY <2>1, <4>2, <4>3
    <3>2. CASE ~q.multipart
      <4>1. q.currentSize \in Nat /\ n <= q.currentSize
        BY <2>3, <3>2 DEF InHeadOf
      <4>2. q.currentSize <= maxSize
        BY <1>1, <1>3, <3>2, <4>1 DEF Request!TooMany
      <4>3. Allowed(q, n) /\ q.status \in {"waitForBody", "complete", "abort"}
        <5>1. q.currentSize \in n .. maxSize
          BY <1>1, <4>1, <4>2
        <5> QED
          BY <2>3, <3>2, <5>1, AllowedAfter, Zenon
      <4> QED
        BY <2>1, <4>3
    <3> QED
      BY <3>1, <3>2
  <2>4. CASE q.status = "abort"
    BY <2>1, <2>4, AllowedAfter
  <2> QED
    BY <1>3, <2>2, <2>3, <2>4
<1>4. CASE ~Request!TooMany(q) /\ q.status = "complete"
  <2> DEFINE d == Request!decodeRequestParams(q)
  <2>1. p = Request!extractCookies(d)
    BY <1>4 DEF Request!Finished
  <2>2. IsParsed(d) /\ d.status = "complete" /\ d.multipart = q.multipart
    BY <1>4 DEF Request!decodeRequestParams, IsParsed
  <2> HIDE DEF d
  <2>3. IsParsed(p) /\ p.status = "complete" /\ p.multipart = q.multipart
    BY <2>1, <2>2 DEF Request!extractCookies, IsParsed
  <2>4. n <= IF q.multipart THEN maxSize + maxMultiPartSize ELSE maxSize
    BY <1>1, <1>4 DEF Request!TooMany, InHeadOf
  <2> QED
    BY <2>3, <2>4, AllowedAfter
<1> QED
  BY <1>2, <1>3, <1>4

LEMMA HeadTakes ==
  ASSUME NEW p, IsParsed(p), NEW n \in Nat, NEW chunk \in Seq(Byte),
         InHeadOf(p), Allowed(p, n)
  PROVE  LET q == Request!Buffered(p, chunk)
         IN /\ IsParsed(q) /\ q.currentSize \in Nat /\ n + Len(chunk) <= q.currentSize
            /\ ~q.multipart /\ q.bodyData = <<>> /\ q.status = p.status
<1> DEFINE line == p.lineBuffer \o chunk
<1>1. line \in Seq(Byte) /\ Len(line) = Len(p.lineBuffer) + Len(chunk)
      /\ Len(p.lineBuffer) \in Nat /\ Len(chunk) \in Nat
  BY ConcatProperties DEF IsParsed
<1> HIDE DEF line
<1>2. Request!Buffered(p, chunk) =
        [p EXCEPT !.lineBuffer = line, !.currentSize = @ + Len(line)]
  BY DEF Request!Buffered, line
<1>3. p.currentSize \in Nat /\ n <= p.currentSize
  BY MaxSizes, AllowedInHead
<1>4. ~p.multipart /\ p.bodyData = <<>>
  BY AllowedInHead
<1> DEFINE q == [p EXCEPT !.lineBuffer = line, !.currentSize = @ + Len(line)]
<1>5. /\ q.currentSize = p.currentSize + Len(line) /\ q.multipart = p.multipart
      /\ q.bodyData = p.bodyData /\ q.status = p.status /\ IsParsed(q)
  <2>1. /\ q.currentSize = p.currentSize + Len(line) /\ q.multipart = p.multipart
        /\ q.bodyData = p.bodyData /\ q.status = p.status
    BY DEF IsParsed
  <2>2. q.lineBuffer = line
    BY DEF IsParsed
  <2>3. IsParsed(q)
    BY <1>1, <2>1, <2>2 DEF IsParsed
  <2> QED
    BY <2>1, <2>3
<1> HIDE DEF q
<1> QED
  BY <1>1, <1>2, <1>3, <1>4, <1>5 DEF q

-----------------------------------------------------------------------------
(* What a client sends.                                                    *)
LineOf(r, k) == r.headers[k] \o Request!Break
LinesOf(r) == [k \in DOMAIN r.headers |-> LineOf(r, k)]
FirstOf(r) == SubSeq(r.line, 1, 1) \o r.query \o Tail(r.line)

LEMMA BreakParts ==
  /\ Request!Break \in Seq(Byte) /\ Len(Request!Break) = 2 /\ Request!Break[1] = Request!CR /\ Request!Break[2] = Request!LF
  /\ Request!CR # Request!LF
<1>1. Request!CR \in Byte /\ Request!LF \in Byte
  BY DEF Byte
<1>2. Request!CR # Request!LF
  BY DEF Request!CR, Request!LF
<1>3. Request!Break = <<Request!CR, Request!LF>>
  BY DEF Request!Break
<1> QED
  BY <1>1, <1>2, <1>3

LEMMA OfBytes ==
  /\ Seq(STRING) \subseteq Seq(Byte)
  /\ \A x, y, z \in Seq(Byte) : (x \o y) \o z = x \o (y \o z)
<1>1. ASSUME NEW s \in Seq(STRING) PROVE s \in Seq(Byte)
  BY SeqMonotonic DEF Byte
<1>2. ASSUME NEW x \in Seq(Byte), NEW y \in Seq(Byte), NEW z \in Seq(Byte)
      PROVE  (x \o y) \o z = x \o (y \o z)
  BY ConcatAssociative
<1> QED
  BY <1>1, <1>2

LEMMA LinesTyped ==
  ASSUME NEW r, Request!IsRequest(r)
  PROVE  /\ LinesOf(r) \in Seq(Seq(Byte)) /\ Len(LinesOf(r)) = Len(r.headers)
         /\ Request!Break \in Seq(Byte) /\ FirstOf(r) \in Seq(Byte)
         /\ {r.line, r.query, r.body} \subseteq Seq(Byte) /\ r.line # <<>>
         /\ Len(r.headers) \in Nat /\ DOMAIN r.headers = 1 .. Len(r.headers)
         /\ \A k \in 1 .. Len(r.headers) :
              r.headers[k] \in Seq(Byte) /\ LinesOf(r)[k] = LineOf(r, k)
<1>1. Request!Break \in Seq(Byte)
  BY BreakParts
<1>2. {r.line, r.query, r.body} \subseteq Seq(Byte) /\ r.line # <<>>
  BY OfBytes DEF Request!IsRequest
<1>3. /\ Len(r.headers) \in Nat /\ DOMAIN r.headers = 1 .. Len(r.headers)
      /\ \A k \in 1 .. Len(r.headers) : r.headers[k] \in Seq(STRING)
  BY DEF Request!IsRequest
<1>4. \A k \in 1 .. Len(r.headers) : LineOf(r, k) \in Seq(Byte) /\ r.headers[k] \in Seq(Byte)
  BY <1>1, <1>3, OfBytes DEF LineOf
<1>5. LinesOf(r) \in Seq(Seq(Byte)) /\ Len(LinesOf(r)) = Len(r.headers)
  BY <1>3, <1>4 DEF LinesOf
<1>6. \A k \in 1 .. Len(r.headers) : LinesOf(r)[k] = LineOf(r, k)
  BY <1>3 DEF LinesOf
<1>7. FirstOf(r) \in Seq(Byte)
  <2>1. r.line \in Seq(Byte) /\ r.line # <<>> /\ Len(r.line) \in Nat \ {0}
    BY <1>2
  <2>2. SubSeq(r.line, 1, 1) \in Seq(Byte) /\ Tail(r.line) \in Seq(Byte)
    BY <2>1
  <2>3. SubSeq(r.line, 1, 1) \o r.query \in Seq(Byte)
    BY <1>2, <2>2
  <2> QED
    BY <2>2, <2>3 DEF FirstOf
<1> QED
  BY <1>1, <1>2, <1>3, <1>4, <1>5, <1>6, <1>7

LEMMA ConcatTyped ==
  ASSUME NEW S, NEW ss \in Seq(Seq(S))
  PROVE  Request!Concat(ss) \in Seq(S)
<1>1. PICK f : JoinsIn(S, ss, f) /\ Request!Concat(ss) = f[Len(ss)]
  BY Joins
<1>2. Len(ss) \in 0 .. Len(ss)
  OBVIOUS
<1> QED
  BY <1>1, <1>2 DEF JoinsIn

AfterHead(r) == Request!Break \o r.body

(* A request is its first line, its header lines, an empty line and its    *)
(* body.                                                                   *)
LEMMA EncodedAs ==
  ASSUME NEW r, Request!IsRequest(r)
  PROVE  /\ Request!Encode(r) = (FirstOf(r) \o Request!Break) \o (Request!Concat(LinesOf(r)) \o AfterHead(r))
         /\ Request!Encode(r) \in Seq(Byte) /\ Request!Concat(LinesOf(r)) \in Seq(Byte)
         /\ AfterHead(r) \in Seq(Byte)
<1>1. /\ Request!Break \in Seq(Byte) /\ FirstOf(r) \in Seq(Byte)
      /\ r.query \in Seq(Byte) /\ r.body \in Seq(Byte)
  BY LinesTyped
<1>2. Request!Concat(LinesOf(r)) \in Seq(Byte)
  BY LinesTyped, ConcatTyped
<1>3. Request!Encode(r) = FirstOf(r) \o Request!Break \o Request!Concat(LinesOf(r)) \o Request!Break \o r.body
  BY Zenon DEF Request!Encode, FirstOf, LinesOf, LineOf
<1> DEFINE a == FirstOf(r) \o Request!Break
           c == Request!Concat(LinesOf(r))
<1>4. a \in Seq(Byte) /\ c \in Seq(Byte) /\ AfterHead(r) \in Seq(Byte)
      /\ Request!Encode(r) = ((a \o c) \o Request!Break) \o r.body
  BY <1>1, <1>2, <1>3 DEF AfterHead
<1> HIDE DEF a, c
<1>5. a \o c \in Seq(Byte)
  BY <1>4
<1>6. ((a \o c) \o Request!Break) \o r.body = (a \o c) \o AfterHead(r)
  BY <1>1, <1>5, OfBytes, ZenonT(30) DEF AfterHead
<1>7. (a \o c) \o AfterHead(r) = a \o (c \o AfterHead(r))
  BY <1>4, OfBytes
<1>8. a \o (c \o AfterHead(r)) \in Seq(Byte)
  BY <1>4
<1> QED
  BY <1>4, <1>6, <1>7, <1>8 DEF a, c

Encoded(c) == [k \in DOMAIN c |-> Request!Encode(c[k])]

LEMMA ClientTyped ==
  ASSUME NEW c \in Clients
  PROVE  /\ Len(c) \in Nat /\ DOMAIN c = 1 .. Len(c)
         /\ \A k \in 1 .. Len(c) : Request!IsRequest(c[k]) /\ Encoded(c)[k] = Request!Encode(c[k])
         /\ Encoded(c) \in Seq(Seq(Byte)) /\ Len(Encoded(c)) = Len(c)
         /\ Request!Concat(Encoded(c)) \in Seq(Byte)
<1>1. c \in Seq(Request!ToSet(c)) /\ \A r \in Request!ToSet(c) : Request!IsRequest(r)
  BY ClientsAssumption
<1>2. Len(c) \in Nat /\ DOMAIN c = 1 .. Len(c)
  BY <1>1
<1>3. \A k \in 1 .. Len(c) : Request!IsRequest(c[k])
  BY <1>1, <1>2 DEF Request!ToSet
<1>4. \A k \in 1 .. Len(c) : Request!Encode(c[k]) \in Seq(Byte)
  BY <1>3, EncodedAs, Zenon
<1>5. Encoded(c) \in Seq(Seq(Byte)) /\ Len(Encoded(c)) = Len(c)
  BY <1>2, <1>4 DEF Encoded
<1>6. \A k \in 1 .. Len(c) : Encoded(c)[k] = Request!Encode(c[k])
  BY <1>2 DEF Encoded
<1> QED
  BY <1>2, <1>3, <1>5, <1>6, ConcatTyped

LEMMA TakenInit == Request!Init => TakenInv
<1> SUFFICES ASSUME Request!Init PROVE TakenInv
  OBVIOUS
<1>1. stream = Request!Concat(Encoded(client)) /\ client \in Clients
  BY DEF Request!Init, Encoded
<1>2. stream \in Seq(Byte)
  BY <1>1, ClientTyped
<1> QED
  BY <1>2, NoLength DEF Request!Init, TakenInv, Request!AcceptedFits

LEMMA FirstLineFits ==
  ASSUME NEW p, IsParsed(p), NEW n \in Nat, NEW chunk \in Seq(Byte),
         InHeadOf(p), Allowed(p, n)
  PROVE  Fitting(Request!readRequest(p, chunk), n + Len(chunk))
<1> DEFINE q == Request!Buffered(p, chunk)
           line == Request!Trimmed(q.lineBuffer)
           r == [q EXCEPT !.lineBuffer = <<>>]
           m == n + Len(chunk)
<1>1. /\ IsParsed(q) /\ q.currentSize \in Nat /\ m <= q.currentSize
      /\ ~q.multipart /\ q.bodyData = <<>> /\ InHeadOf(q)
  BY HeadTakes DEF InHeadOf
<1> HIDE DEF q, m
<1>2. /\ IsParsed(r) /\ r.currentSize = q.currentSize /\ ~r.multipart
      /\ r.bodyData = <<>> /\ InHeadOf(r)
  BY <1>1 DEF IsParsed, InHeadOf
<1>3. Fitting(q, m) /\ Fitting(r, m)
  BY <1>1, <1>2 DEF Fitting
<1>4. Fitting([q EXCEPT !.lineBuffer = <<>>, !.status = "abort"], m)
  BY <1>1 DEF Fitting, IsParsed
<1>5. ASSUME NEW x
      PROVE  Fitting([q EXCEPT !.lineBuffer = <<>>, !.status = "waitForHeader",
                               !.query = x], m)
  BY <1>1 DEF Fitting, IsParsed, InHeadOf
<1>6. Fitting(Request!readRequest(p, chunk), m)
  BY <1>3, <1>4, <1>5, Zenon DEF Request!readRequest, q
<1> QED
  BY <1>6 DEF m

LEMMA HeaderFits ==
  ASSUME NEW p, IsParsed(p), NEW n \in Nat, NEW chunk \in Seq(Byte),
         InHeadOf(p), Allowed(p, n), n + Len(chunk) <= maxSize + 1
  PROVE  Fitting(Request!readHeader(p, chunk), n + Len(chunk))
<1> DEFINE q == Request!Buffered(p, chunk)
           r == [q EXCEPT !.lineBuffer = <<>>]
           m == n + Len(chunk)
<1>1. /\ IsParsed(q) /\ q.currentSize \in Nat /\ m <= q.currentSize
      /\ ~q.multipart /\ q.bodyData = <<>> /\ InHeadOf(q)
  BY HeadTakes DEF InHeadOf
<1>2. m \in Nat /\ m <= maxSize + 1
  OBVIOUS
<1> HIDE DEF q, m
<1>3. /\ IsParsed(r) /\ r.currentSize = q.currentSize /\ ~r.multipart
      /\ r.bodyData = <<>> /\ InHeadOf(r)
  BY <1>1 DEF IsParsed, InHeadOf
<1> HIDE DEF r
<1>4. Fitting(q, m) /\ Fitting(r, m)
  BY <1>1, <1>3 DEF Fitting
<1>5. Fitting(Request!HeadersDone(r), m)
  <2> DEFINE multi == Len(Request!value(r, "type")) > 0 /\ Request!value(r, "type")[1] = "multi"
             size == Request!toInt(Request!value(r, "length"))
             next == IF size = 0 THEN "complete"
                     ELSE IF ~multi /\ size + r.currentSize > maxSize THEN "abort"
                     ELSE IF multi /\ size > maxMultiPartSize THEN "abort"
                     ELSE "waitForBody"
             d == [r EXCEPT !.multipart = multi, !.expectedBodySize = size, !.status = next]
  <2>1. Request!HeadersDone(r) = d
    BY DEF Request!HeadersDone
  <2>2. size \in Int
    <3>1. \A x \in DOMAIN Request!Numbers : Request!Numbers[x] \in Int
      BY MaxSizes DEF Request!Numbers
    <3> QED
      BY <3>1 DEF Request!toInt
  <2>3. multi \in BOOLEAN
    OBVIOUS
  <2>4. next \in {"complete", "abort", "waitForBody"}
    OBVIOUS
  <2> HIDE DEF multi, size, next
  <2>5. /\ IsParsed(d) /\ d.status = next /\ d.multipart = multi
        /\ d.currentSize = r.currentSize /\ d.bodyData = r.bodyData
    BY <1>3, <2>2, <2>3 DEF IsParsed
  <2> HIDE DEF d
  <2>6. Len(d.bodyData) = 0 /\ d.currentSize \in Nat /\ m <= d.currentSize
    BY <1>1, <1>3, <2>5
  <2>7. d.status = "waitForBody" /\ d.multipart => Fitting(d, m)
    <3>1. m <= maxSize + 1 + Len(d.bodyData)
      BY <1>2, <2>6, MaxSizes
    <3> QED
      BY <2>5, <3>1, Zenon DEF Fitting
  <2>8. d.status = "waitForBody" /\ ~d.multipart => Fitting(d, m)
    BY <2>5, <2>6, Zenon DEF Fitting
  <2>9. d.status \in {"complete", "abort"} => Fitting(d, m)
    BY <2>5, <2>6, Zenon DEF Fitting
  <2> QED
    BY <2>1, <2>4, <2>5, <2>7, <2>8, <2>9
<1>6. ASSUME NEW line PROVE Fitting(Request!AddHeader(r, line), m)
  <2> DEFINE a == Request!AddHeader(r, line)
  <2>1. /\ DOMAIN a = DOMAIN r /\ a.currentSize = r.currentSize /\ a.status = r.status
        /\ a.multipart = r.multipart /\ a.bodyData = r.bodyData
        /\ a.lineBuffer = r.lineBuffer /\ a.expectedBodySize = r.expectedBodySize
    BY <1>3 DEF Request!AddHeader, IsParsed
  <2> HIDE DEF a
  <2>2. IsParsed(a)
    BY <1>3, <2>1 DEF IsParsed
  <2>3. InHeadOf(a) /\ a.currentSize \in Nat /\ m <= a.currentSize
        /\ ~a.multipart /\ a.bodyData = <<>>
    BY <1>1, <1>3, <2>1 DEF InHeadOf
  <2>4. Fitting(a, m)
    BY <2>2, <2>3, Zenon DEF Fitting
  <2> QED
    BY <2>4 DEF a
<1>7. Fitting(Request!readHeader(p, chunk), m)
  BY <1>4, <1>5, <1>6, Zenon DEF Request!readHeader, q, r
<1> QED
  BY <1>7 DEF m

LEMMA BodyFits ==
  ASSUME NEW p, IsParsed(p), NEW n \in Nat, NEW chunk \in Seq(Byte),
         p.status = "waitForBody", Allowed(p, n)
  PROVE  Fitting(Request!readBody(p, chunk), n + Len(chunk))
<1> DEFINE body == p.bodyData \o chunk
           q == [p EXCEPT !.bodyData = body]
           m == n + Len(chunk)
           size == Len(q.bodyData)
<1>1. body \in Seq(Byte) /\ Len(body) = Len(p.bodyData) + Len(chunk)
      /\ Len(p.bodyData) \in Nat /\ Len(chunk) \in Nat /\ m \in Nat
  BY DEF IsParsed
<1>2. q = [p EXCEPT !.bodyData = @ \o chunk]
  OBVIOUS
<1> HIDE DEF body
<1>3. /\ IsParsed(q) /\ q.status = p.status /\ q.multipart = p.multipart
      /\ q.currentSize = p.currentSize /\ q.bodyData = body
  BY <1>1 DEF IsParsed
<1> HIDE DEF q
<1>4. CASE ~p.multipart
  <2>1. p.currentSize \in n .. maxSize
    BY <1>4, AllowedAfter
  <2> DEFINE r == [q EXCEPT !.currentSize = @ + Len(chunk),
                            !.status = IF size >= p.expectedBodySize THEN "complete" ELSE @]
  <2>2. Request!readBody(p, chunk) = r
    BY <1>2, <1>4 DEF Request!readBody
  <2>3. /\ IsParsed(r) /\ r.currentSize = p.currentSize + Len(chunk)
        /\ r.multipart = p.multipart /\ r.status \in {"complete", "waitForBody"}
    BY <1>3 DEF IsParsed
  <2> HIDE DEF r
  <2>4. r.currentSize \in Nat /\ m <= r.currentSize
    BY <1>1, <2>1, <2>3, MaxSizes
  <2> QED
    BY <1>4, <2>2, <2>3, <2>4 DEF Fitting
<1>5. CASE p.multipart
  <2>1. n <= maxSize + 1 + Len(p.bodyData)
    BY <1>5, AllowedAfter
  <2>2. m <= maxSize + 1 + size /\ size \in Nat /\ m \in Nat
    <3> DEFINE x == Len(p.bodyData)
               y == Len(chunk)
    <3>1. size = x + y /\ x \in Nat /\ y \in Nat /\ m = n + y /\ n <= maxSize + 1 + x
      BY <1>1, <1>3, <2>1
    <3> HIDE DEF size, m, x, y
    <3> QED
      BY <3>1, MaxSizes
  <2>3. CASE size >= maxMultiPartSize
    <3>1. Request!readBody(p, chunk) = [q EXCEPT !.status = "abort"]
      BY <1>2, <1>5, <2>3 DEF Request!readBody
    <3> QED
      BY <1>3, <3>1 DEF Fitting, IsParsed
  <2>4. CASE ~(size >= maxMultiPartSize) /\ size >= p.expectedBodySize
    <3> DEFINE c == Request!parseMultiPartFile(q)
               d == [c EXCEPT !.status = "complete"]
    <3>1. Request!readBody(p, chunk) = d
      BY <1>2, <1>5, <2>4 DEF Request!readBody
    <3>2. IsParsed(c) /\ c.multipart = q.multipart
      BY <1>3 DEF Request!parseMultiPartFile, IsParsed
    <3> HIDE DEF c
    <3>3. IsParsed(d) /\ d.multipart = p.multipart /\ d.status = "complete"
      BY <1>3, <3>2 DEF IsParsed
    <3>4. m <= maxSize + maxMultiPartSize
      <4> HIDE DEF size, m
      <4> QED
        BY <2>2, <2>4, MaxSizes
    <3> QED
      BY <1>5, <3>1, <3>3, <3>4 DEF Fitting
  <2>5. CASE ~(size >= maxMultiPartSize) /\ ~(size >= p.expectedBodySize)
    <3>1. Request!readBody(p, chunk) = q
      BY <1>2, <1>5, <2>5 DEF Request!readBody
    <3> QED
      BY <1>3, <1>5, <2>2, <3>1 DEF Fitting
  <2> QED
    BY <2>3, <2>4, <2>5
<1> QED
  BY <1>3, <1>4, <1>5 DEF IsParsed

LEMMA PartTaken ==
  ASSUME NEW s \in Seq(Byte), NEW e \in 0 .. Len(s), NEW chunk, chunk = SubSeq(s, 1, e)
  PROVE  chunk \in Seq(Byte) /\ Len(chunk) = e /\ SubSeq(s, Len(chunk) + 1, Len(s)) \in Seq(Byte)
  BY WordsParts

LEMMA LineTaken ==
  ASSUME NEW p, NEW n \in Nat, InHeadOf(p), Allowed(p, n), NEW s \in Seq(Byte), s # <<>>
  PROVE  LET chunk == Request!readLine(s, maxSize - p.currentSize + 1)
         IN /\ chunk \in Seq(Byte) /\ n + Len(chunk) \in Nat
            /\ n + Len(chunk) <= maxSize + 1
            /\ SubSeq(s, Len(chunk) + 1, Len(s)) \in Seq(Byte)
<1> DEFINE most == maxSize - p.currentSize + 1
           chunk == Request!readLine(s, most)
<1>1. p.currentSize \in n .. maxSize /\ maxSize \in Nat
  BY AllowedInHead, MaxSizes
<1>2. most \in Nat \ {0} /\ n + most <= maxSize + 1
  BY <1>1
<1> HIDE DEF most
<1>3. PICK e \in 1 .. Len(s) : chunk = SubSeq(s, 1, e) /\ e <= most
  BY <1>2, LineRead
<1>4. Len(s) \in Nat /\ e \in 0 .. Len(s)
  BY <1>3
<1> HIDE DEF chunk
<1>5. chunk \in Seq(Byte) /\ Len(chunk) = e /\ SubSeq(s, Len(chunk) + 1, Len(s)) \in Seq(Byte)
  BY <1>3, <1>4, PartTaken
<1>6. n + e \in Nat /\ n + e <= maxSize + 1
  BY <1>1, <1>2, <1>3, <1>4
<1>7. n + Len(chunk) \in Nat /\ n + Len(chunk) <= maxSize + 1
  BY <1>5, <1>6
<1> QED
  BY <1>5, <1>7 DEF chunk, most

LEMMA TakenRead ==
  ASSUME TakenInv, Request!ReadRequest \/ Request!ReadHeader \/ Request!ReadBody
  PROVE  TakenInv' /\ WithinLimits(request', taken')
<1> USE DEF TakenInv
<1>1. CASE Request!ReadRequest
  <2>1. /\ sock # <<>> /\ request.status = "waitForRequest"
        /\ request' = Request!Finished(Request!readRequest(request, Request!LineOfHead))
        /\ taken' = taken + Len(Request!LineOfHead)
        /\ sock' = SubSeq(sock, Len(Request!LineOfHead) + 1, Len(sock))
        /\ UNCHANGED <<stream, outcomes>>
    BY <1>1 DEF Request!ReadRequest, Request!Reads
  <2>2. /\ IsParsed(request) /\ Allowed(request, taken) /\ InHeadOf(request)
    BY <2>1 DEF WithinLimits, Request!NoRequest, InHeadOf
  <2>3. /\ Request!LineOfHead \in Seq(Byte) /\ taken' \in Nat /\ sock' \in Seq(Byte)
    BY <2>1, <2>2, LineTaken DEF Request!LineOfHead
  <2>4. Fitting(Request!readRequest(request, Request!LineOfHead), taken')
    BY <2>1, <2>2, <2>3, FirstLineFits
  <2>5. WithinLimits(request', taken')
    BY <2>1, <2>3, <2>4, FinishedFits
  <2> QED
    BY <2>1, <2>3, <2>5 DEF Request!AcceptedFits
<1>2. CASE Request!ReadHeader
  <2>1. /\ sock # <<>> /\ request.status = "waitForHeader"
        /\ request' = Request!Finished(Request!readHeader(request, Request!LineOfHead))
        /\ taken' = taken + Len(Request!LineOfHead)
        /\ sock' = SubSeq(sock, Len(Request!LineOfHead) + 1, Len(sock))
        /\ UNCHANGED <<stream, outcomes>>
    BY <1>2 DEF Request!ReadHeader, Request!Reads
  <2>2. /\ IsParsed(request) /\ Allowed(request, taken) /\ InHeadOf(request)
    BY <2>1 DEF WithinLimits, Request!NoRequest, InHeadOf
  <2>3. /\ Request!LineOfHead \in Seq(Byte) /\ taken' \in Nat /\ sock' \in Seq(Byte)
        /\ taken + Len(Request!LineOfHead) <= maxSize + 1
    BY <2>1, <2>2, LineTaken DEF Request!LineOfHead
  <2>4. Fitting(Request!readHeader(request, Request!LineOfHead), taken')
    BY <2>1, <2>2, <2>3, HeaderFits
  <2>5. WithinLimits(request', taken')
    BY <2>1, <2>3, <2>4, FinishedFits
  <2> QED
    BY <2>1, <2>3, <2>5 DEF Request!AcceptedFits
<1>3. CASE Request!ReadBody
  <2> DEFINE chunk == Request!readBytes(sock, Request!ToRead(request))
  <2>1. /\ sock # <<>> /\ request.status = "waitForBody"
        /\ request' = Request!Finished(Request!readBody(request, chunk))
        /\ taken' = taken + Len(chunk)
        /\ sock' = SubSeq(sock, Len(chunk) + 1, Len(sock))
        /\ UNCHANGED <<stream, outcomes>>
    BY <1>3 DEF Request!ReadBody, Request!Reads
  <2>2. /\ IsParsed(request) /\ Allowed(request, taken)
    BY <2>1 DEF WithinLimits, Request!NoRequest
  <2>3. Request!ToRead(request) \in Int
    BY <2>2, MaxSizes DEF Request!ToRead, IsParsed
  <2>4. PICK e \in 0 .. Len(sock) : chunk = SubSeq(sock, 1, e)
    BY <2>3, BytesRead
  <2> HIDE DEF chunk
  <2>5. /\ chunk \in Seq(Byte) /\ taken' \in Nat /\ sock' \in Seq(Byte)
    BY <2>1, <2>4, PartTaken
  <2>6. Fitting(Request!readBody(request, chunk), taken')
    BY <2>1, <2>2, <2>5, BodyFits
  <2>7. WithinLimits(request', taken')
    BY <2>1, <2>5, <2>6, FinishedFits
  <2> QED
    BY <2>1, <2>5, <2>7 DEF Request!AcceptedFits
<1> QED
  BY <1>1, <1>2, <1>3

LEMMA TakenNext == ASSUME TakenInv, Request!Next PROVE TakenInv'
<1> USE DEF TakenInv
<1>1. ASSUME NEW n \in 1 .. Len(stream), Request!Arrive(n) PROVE TakenInv'
  <2>1. n \in 0 .. Len(stream)
    OBVIOUS
  <2>2. sock' \in Seq(Byte) /\ stream' \in Seq(Byte)
    BY <1>1, <2>1, WordsParts DEF Request!Arrive
  <2> QED
    BY <1>1, <2>2 DEF Request!Arrive, Request!AcceptedFits
<1>2. CASE Request!Create
  <2>1. WithinLimits(Request!NewRequest, 0)
    <3>1. /\ IsParsed(Request!NewRequest) /\ InHeadOf(Request!NewRequest) /\ Request!NewRequest.currentSize = 0
          /\ ~Request!NewRequest.multipart /\ Request!NewRequest.bodyData = <<>>
      BY NoLength DEF IsParsed, Request!NewRequest, InHeadOf
    <3>2. Allowed(Request!NewRequest, 0)
      BY <3>1, AllowedInHead, MaxSizes
    <3> QED
      BY <3>1, <3>2 DEF WithinLimits
  <2> QED
    BY <1>2, <2>1 DEF Request!Create, Request!AcceptedFits
<1>3. ASSUME Request!ReadRequest \/ Request!ReadHeader \/ Request!ReadBody PROVE TakenInv'
  BY <1>3, TakenRead
<1>4. CASE Request!Complete
  <2> DEFINE o == [accepted |-> TRUE, told |-> Request!Told(request),
                   taken |-> taken, multipart |-> request.multipart]
  <2>1. /\ request.status = "complete" /\ request' = Request!NoRequest
        /\ outcomes' = Append(outcomes, o) /\ UNCHANGED <<sock, stream, taken>>
    BY <1>4 DEF Request!Complete
  <2>2. taken <= IF request.multipart THEN maxSize + maxMultiPartSize ELSE maxSize
    BY <2>1, AllowedAfter DEF WithinLimits, Request!NoRequest
  <2>3. o.taken <= IF o.multipart THEN maxSize + 1 + maxMultiPartSize - 1 ELSE maxSize
    BY <2>2, MaxSizes
  <2> HIDE DEF o
  <2>4. IsSeq(outcomes') /\ Request!AcceptedFits'
    <3>1. /\ IsSeq(outcomes') /\ Len(outcomes') = Len(outcomes) + 1
          /\ outcomes'[Len(outcomes) + 1] = o
          /\ \A i \in 1 .. Len(outcomes) : outcomes'[i] = outcomes[i]
          /\ Len(outcomes) \in Nat /\ DOMAIN outcomes = 1 .. Len(outcomes)
      BY <2>1, Appended, SeqLen
    <3>2. DOMAIN outcomes' = 1 .. Len(outcomes) + 1
      BY <3>1, SeqLen
    <3> QED
      BY <2>3, <3>1, <3>2 DEF Request!AcceptedFits
  <2> QED
    BY <2>1, <2>4
<1>5. CASE Request!Abort
  <2> DEFINE o == [accepted |-> FALSE]
  <2>1. /\ request' = Request!NoRequest /\ outcomes' = Append(outcomes, o)
        /\ sock' = <<>> /\ stream' = <<>> /\ UNCHANGED taken
    BY <1>5 DEF Request!Abort
  <2>2. ~o.accepted
    OBVIOUS
  <2> HIDE DEF o
  <2>3. IsSeq(outcomes') /\ Request!AcceptedFits'
    <3>1. /\ IsSeq(outcomes') /\ Len(outcomes') = Len(outcomes) + 1
          /\ outcomes'[Len(outcomes) + 1] = o
          /\ \A i \in 1 .. Len(outcomes) : outcomes'[i] = outcomes[i]
          /\ Len(outcomes) \in Nat /\ DOMAIN outcomes = 1 .. Len(outcomes)
      BY <2>1, Appended, SeqLen
    <3>2. DOMAIN outcomes' = 1 .. Len(outcomes) + 1
      BY <3>1, SeqLen
    <3> QED
      BY <2>2, <3>1, <3>2 DEF Request!AcceptedFits
  <2> QED
    BY <2>1, <2>3
<1> QED
  BY <1>1, <1>2, <1>3, <1>4, <1>5 DEF Request!Next

-----------------------------------------------------------------------------
(* Parameters.  Those of the first n words.                                *)
KeptOf(words, n) == {k \in 1 .. n : words[k] # "amp"}
NthOf(counted, i) == CHOOSE k \in counted : Cardinality({j \in counted : j <= k}) = i
ParametersIn(words, counted) == [i \in 1 .. Cardinality(counted) |-> <<words[NthOf(counted, i)]>>]
ParametersUpTo(words, n) == ParametersIn(words, KeptOf(words, n))

LEMMA ParametersAll ==
  ASSUME NEW words, IsSeq(words)
  PROVE  Request!ParametersOf(words) = ParametersUpTo(words, Len(words))
<1> DEFINE counted == {k \in DOMAIN words : words[k] # "amp"}
<1>1. Request!ParametersOf(words) = ParametersIn(words, counted)
  BY Zenon DEF Request!ParametersOf, ParametersIn, NthOf, Request!Cardinality, Cardinality
<1>2. counted = KeptOf(words, Len(words))
  BY SeqLen DEF KeptOf
<1> HIDE DEF counted
<1> QED
  BY <1>1, <1>2, Zenon DEF ParametersUpTo

LEMMA KeptFinite ==
  ASSUME NEW words, NEW n \in Nat
  PROVE  IsFiniteSet(KeptOf(words, n)) /\ Cardinality(KeptOf(words, n)) \in Nat
<1>1. IsFiniteSet(1 .. n)
  BY FS_Interval
<1>2. KeptOf(words, n) \subseteq 1 .. n
  BY DEF KeptOf
<1> QED
  BY <1>1, <1>2, FS_Subset, FS_CardinalityType

LEMMA ParameterAdded ==
  ASSUME NEW words, NEW n \in Nat, words[n + 1] # "amp"
  PROVE  /\ Len(ParametersUpTo(words, n + 1)) = Len(ParametersUpTo(words, n)) + 1
         /\ ParametersUpTo(words, n + 1)[Len(ParametersUpTo(words, n)) + 1]
              = <<words[n + 1]>>
         /\ \A i \in 1 .. Len(ParametersUpTo(words, n)) :
              ParametersUpTo(words, n + 1)[i] = ParametersUpTo(words, n)[i]
<1> DEFINE A == KeptOf(words, n)
           B == KeptOf(words, n + 1)
           c == Cardinality(A)
<1>1. B = A \cup {n + 1} /\ n + 1 \notin A
  BY DEF KeptOf
<1>2. IsFiniteSet(A) /\ c \in Nat
  BY KeptFinite
<1>3. A \subseteq 1 .. n
  BY DEF KeptOf
<1>4. Cardinality(B) = c + 1
  BY <1>1, <1>2, FS_AddElement
<1> HIDE DEF A, B, c
<1>5. {j \in B : j <= n + 1} = B /\ \A k \in A : {j \in B : j <= k} = {j \in A : j <= k}
  <2>1. {j \in B : j <= n + 1} = B
    <3>1. \A j \in B : j <= n + 1
      BY <1>1, <1>3
    <3> QED
      BY <3>1, Zenon
  <2>2. ASSUME NEW k \in A PROVE {j \in B : j <= k} = {j \in A : j <= k}
    <3>1. k \in Nat /\ ~(n + 1 <= k)
      BY <1>3
    <3>2. \A j : (j \in B /\ j <= k) <=> (j \in A /\ j <= k)
      BY <1>1, <3>1
    <3> QED
      BY <3>2, Zenon
  <2> QED
    BY <2>1, <2>2
<1>6. \A k \in A : Cardinality({j \in A : j <= k}) \in 0 .. c
  <2> SUFFICES ASSUME NEW k \in A PROVE Cardinality({j \in A : j <= k}) \in 0 .. c
    OBVIOUS
  <2> DEFINE D == {j \in A : j <= k}
  <2>1. D \subseteq A
    OBVIOUS
  <2> HIDE DEF D
  <2>2. IsFiniteSet(D) /\ Cardinality(D) <= Cardinality(A)
    BY <1>2, <2>1, FS_Subset
  <2>3. Cardinality(D) \in Nat
    BY <2>2, FS_CardinalityType
  <2> QED
    BY <1>2, <2>2, <2>3 DEF D, c
<1>7. NthOf(B, c + 1) = n + 1
  <2> DEFINE P(k) == Cardinality({j \in B : j <= k}) = c + 1
  <2>1. n + 1 \in B /\ P(n + 1)
    BY <1>1, <1>4, <1>5
  <2>2. \A k \in B : P(k) => k = n + 1
    BY <1>1, <1>2, <1>5, <1>6
  <2>3. NthOf(B, c + 1) = CHOOSE k \in B : P(k)
    BY Zenon DEF NthOf
  <2> HIDE DEF P
  <2> QED
    BY <2>1, <2>2, <2>3, Zenon
<1>8. ASSUME NEW i \in 1 .. c PROVE NthOf(B, i) = NthOf(A, i)
  <2> DEFINE P(k) == Cardinality({j \in B : j <= k}) = i
             Q(k) == Cardinality({j \in A : j <= k}) = i
  <2>1. ~P(n + 1)
    BY <1>2, <1>4, <1>5
  <2>2. \A k \in A : P(k) <=> Q(k)
    BY <1>5, Zenon
  <2>3. NthOf(B, i) = CHOOSE k \in B : P(k)
    BY Zenon DEF NthOf
  <2>4. NthOf(A, i) = CHOOSE k \in A : Q(k)
    BY Zenon DEF NthOf
  <2>5. \A k : (k \in B /\ P(k)) <=> (k \in A /\ Q(k))
    <3> HIDE DEF P, Q
    <3> QED
      BY <1>1, <2>1, <2>2
  <2> HIDE DEF P, Q
  <2> QED
    BY <2>3, <2>4, <2>5
<1>9. /\ ParametersUpTo(words, n) = [i \in 1 .. c |-> <<words[NthOf(A, i)]>>]
      /\ ParametersUpTo(words, n + 1) =
           [i \in 1 .. c + 1 |-> <<words[NthOf(B, i)]>>]
  BY <1>4 DEF ParametersUpTo, ParametersIn, A, B, c
<1> QED
  BY <1>2, <1>7, <1>8, <1>9

Folding(ps, words, f) ==
  f[0] = ps /\ \A n \in 1 .. Len(words) : f[n] = Request!WithParameter(f[n - 1], words[n])
FoldRead(ps, words, f) ==
  f = [k \in 0 .. Len(words) |->
         IF k = 0 THEN ps ELSE Request!WithParameter(f[k - 1], words[k])]

LEMMA ParametersFolded ==
  ASSUME NEW ps, NEW words, Len(words) \in Nat, NEW f, Folding(ps, words, f)
  PROVE  Request!Fold(Request!WithParameter, ps, words) = f[Len(words)]
<1> DEFINE h == [n \in 0 .. Len(words) |-> f[n]]
           g == CHOOSE r : FoldRead(ps, words, r)
<1>1. FoldRead(ps, words, h)
  <2>1. \A n \in 0 .. Len(words) :
          h[n] = IF n = 0 THEN ps ELSE Request!WithParameter(h[n - 1], words[n])
    BY DEF Folding
  <2> QED
    BY <2>1 DEF FoldRead
<1> HIDE DEF h
<1>2. FoldRead(ps, words, g)
  BY <1>1, Zenon
<1>3. Request!Fold(Request!WithParameter, ps, words) = g[Len(words)]
  BY Zenon DEF Request!Fold, FoldRead
<1> HIDE DEF g
<1>4. \A n \in 0 .. Len(words) :
        g[n] = IF n = 0 THEN ps ELSE Request!WithParameter(g[n - 1], words[n])
  BY <1>2, Zenon DEF FoldRead
<1>5. SameSteps(g, f, Len(words))
  <2>1. 0 \in 0 .. Len(words) /\ \A n \in 1 .. Len(words) : n \in 0 .. Len(words) /\ n # 0
    OBVIOUS
  <2> QED
    BY <1>4, <2>1, Zenon DEF Folding, SameSteps
<1>6. g[Len(words)] = f[Len(words)]
  BY <1>5, SameResults
<1> QED
  BY <1>3, <1>6

LEMMA InOneSet ==
  ASSUME NEW s, IsSeq(s), NEW t, IsSeq(t), NEW e
  PROVE  \E U : {s, t} \subseteq Seq(U) /\ e \in U
<1>1. PICK S : s \in Seq(S)
  BY DEF IsSeq
<1>2. PICK T : t \in Seq(T)
  BY DEF IsSeq
<1> DEFINE U == S \cup T \cup {e}
<1>3. s \in Seq(U) /\ t \in Seq(U) /\ e \in U
  BY <1>1, <1>2, SeqMonotonic
<1> QED
  BY <1>3, Zenon

LEMMA AddedLast ==
  ASSUME NEW s, IsSeq(s), NEW t, IsSeq(t), NEW e, Len(t) = Len(s) + 1, t[Len(s) + 1] = e,
         \A i \in 1 .. Len(s) : t[i] = s[i]
  PROVE  t = Append(s, e)
<1>1. PICK U : {s, t} \subseteq Seq(U) /\ e \in U
  BY InOneSet
<1>2. /\ Append(s, e) \in Seq(U) /\ Len(Append(s, e)) = Len(s) + 1 /\ Len(s) \in Nat
      /\ \A i \in 1 .. Len(s) : Append(s, e)[i] = s[i]
      /\ Append(s, e)[Len(s) + 1] = e
  BY <1>1
<1> DEFINE a == Append(s, e)
<1> HIDE DEF a
<1>3. a \in Seq(U) /\ t \in Seq(U) /\ Len(t) = Len(a) /\ \A i \in 1 .. Len(t) : t[i] = a[i]
  BY <1>1, <1>2 DEF a
<1>4. t = a
  BY <1>3, SeqEqual
<1> QED
  BY <1>4 DEF a

LEMMA JointAppend ==
  ASSUME NEW s, IsSeq(s), NEW t, IsSeq(t), NEW e
  PROVE  s \o Append(t, e) = Append(s \o t, e)
<1>1. PICK U : {s, t} \subseteq Seq(U) /\ e \in U
  BY InOneSet
<1>2. <<e>> \in Seq(U) /\ s \o t \in Seq(U)
  BY <1>1
<1>3. Append(t, e) = t \o <<e>> /\ Append(s \o t, e) = (s \o t) \o <<e>>
  BY <1>1, <1>2, AppendIsConcat
<1>4. (s \o t) \o <<e>> = s \o (t \o <<e>>)
  BY <1>1, <1>2, ConcatAssociative
<1> QED
  BY <1>3, <1>4

LEMMA ParametersSeq ==
  ASSUME NEW words, NEW n \in Nat
  PROVE  IsSeq(ParametersUpTo(words, n)) /\ Len(ParametersUpTo(words, n)) \in Nat
<1> DEFINE counted == KeptOf(words, n)
           c == Cardinality(counted)
           q == ParametersUpTo(words, n)
           T == {<<words[NthOf(counted, i)]>> : i \in 1 .. c}
<1>1. c \in Nat
  BY KeptFinite
<1>2. q = [i \in 1 .. c |-> <<words[NthOf(counted, i)]>>]
  BY DEF ParametersUpTo, ParametersIn
<1> HIDE DEF c, q
<1>3. q \in [1 .. c -> T]
  BY <1>2
<1> HIDE DEF T
<1>4. q \in Seq(T)
  BY <1>1, <1>3
<1> QED
  BY <1>4 DEF IsSeq, q

(* The words between the ampersands are added, each as a parameter.        *)
LEMMA ParametersAdded ==
  ASSUME NEW ps, IsSeq(ps), NEW words, IsSeq(words)
  PROVE  Request!Fold(Request!WithParameter, ps, words) = ps \o Request!ParametersOf(words)
<1> DEFINE f == [n \in 0 .. Len(words) |-> ps \o ParametersUpTo(words, n)]
<1>1. Len(words) \in Nat
  BY SeqLen
<1>2. f[0] = ps
  <2>1. KeptOf(words, 0) = {}
    BY DEF KeptOf
  <2>2. Cardinality(KeptOf(words, 0)) = 0
    BY <2>1, FS_EmptySet
  <2>3. ParametersUpTo(words, 0) = <<>>
    <3>1. Len(ParametersUpTo(words, 0)) = 0
      BY <2>2 DEF ParametersUpTo, ParametersIn
    <3> QED
      BY <3>1, ParametersSeq, SeqLen
  <2>4. f[0] = ps \o ParametersUpTo(words, 0)
    BY <1>1
  <2>5. ps \o <<>> = ps
    BY ConcatEmptySeq DEF IsSeq
  <2> QED
    BY <2>3, <2>4, <2>5, Zenon
<1>3. ASSUME NEW n \in 1 .. Len(words) PROVE f[n] = Request!WithParameter(f[n - 1], words[n])
  <2> DEFINE m == n - 1
  <2>1. m \in Nat /\ n = m + 1 /\ m \in 0 .. Len(words) /\ m + 1 \in 0 .. Len(words)
    BY <1>1
  <2> HIDE DEF m
  <2> DEFINE a == ParametersUpTo(words, m)
             b == ParametersUpTo(words, m + 1)
  <2>2. f[m] = ps \o a /\ f[m + 1] = ps \o b
    BY <2>1
  <2>3. IsSeq(a) /\ IsSeq(b) /\ Len(a) \in Nat
    <3>1. m + 1 \in Nat
      BY <2>1
    <3> QED
      BY <2>1, <3>1, ParametersSeq
  <2>4. CASE words[m + 1] = "amp"
    <3>1. KeptOf(words, m + 1) = KeptOf(words, m)
      BY <2>1, <2>4 DEF KeptOf
    <3>2. b = a
      BY <3>1 DEF ParametersUpTo
    <3>3. f[m + 1] = f[m]
      BY <2>2, <3>2, Zenon
    <3> HIDE DEF f
    <3> QED
      BY <2>1, <2>4, <3>3 DEF Request!WithParameter, m
  <2>5. CASE words[m + 1] # "amp"
    <3>1. b = Append(a, <<words[m + 1]>>)
      <4>1. /\ Len(b) = Len(a) + 1 /\ b[Len(a) + 1] = <<words[m + 1]>>
            /\ \A i \in 1 .. Len(a) : b[i] = a[i]
        BY <2>1, <2>5, ParameterAdded
      <4> HIDE DEF a, b
      <4> QED
        BY <2>3, <4>1, AddedLast
    <3> HIDE DEF a, b, f
    <3>2. f[m + 1] = Append(f[m], <<words[m + 1]>>)
      BY <2>2, <2>3, <3>1, JointAppend
    <3> QED
      BY <2>1, <2>5, <3>2 DEF Request!WithParameter, m
  <2> QED
    BY <2>4, <2>5
<1>4. Folding(ps, words, f)
  BY <1>2, <1>3 DEF Folding
<1>5. f[Len(words)] = ps \o Request!ParametersOf(words)
  BY <1>1, ParametersAll
<1> HIDE DEF f
<1> QED
  BY <1>1, <1>4, <1>5, ParametersFolded

-----------------------------------------------------------------------------
(* Cookies.                                                                *)
TakingCookies(s, line, f) ==
  f[0] = s /\ \A n \in 1 .. Len(line) : f[n] = Request!WithCookie(f[n - 1], line[n])
CookiesRead(s, line, f) ==
  f = [k \in 0 .. Len(line) |-> IF k = 0 THEN s ELSE Request!WithCookie(f[k - 1], line[k])]

LEMMA CookiesFolded ==
  ASSUME NEW s, NEW line, Len(line) \in Nat, NEW f, TakingCookies(s, line, f)
  PROVE  Request!Fold(Request!WithCookie, s, line) = f[Len(line)]
<1> DEFINE h == [n \in 0 .. Len(line) |-> f[n]]
           g == CHOOSE r : CookiesRead(s, line, r)
<1>1. CookiesRead(s, line, h)
  <2>1. \A n \in 0 .. Len(line) :
          h[n] = IF n = 0 THEN s ELSE Request!WithCookie(h[n - 1], line[n])
    BY DEF TakingCookies
  <2> QED
    BY <2>1 DEF CookiesRead
<1> HIDE DEF h
<1>2. CookiesRead(s, line, g)
  BY <1>1, Zenon
<1>3. Request!Fold(Request!WithCookie, s, line) = g[Len(line)]
  BY Zenon DEF Request!Fold, CookiesRead
<1> HIDE DEF g
<1>4. \A n \in 0 .. Len(line) :
        g[n] = IF n = 0 THEN s ELSE Request!WithCookie(g[n - 1], line[n])
  BY <1>2, Zenon DEF CookiesRead
<1>5. SameSteps(g, f, Len(line))
  <2>1. 0 \in 0 .. Len(line) /\ \A n \in 1 .. Len(line) : n \in 0 .. Len(line) /\ n # 0
    OBVIOUS
  <2> QED
    BY <1>4, <2>1, Zenon DEF TakingCookies, SameSteps
<1> QED
  BY <1>3, <1>5, SameResults

TakingLines(s, lines, f) ==
  f[0] = s /\ \A n \in 1 .. Len(lines) : f[n] = Request!WithCookies(f[n - 1], lines[n])
LinesRead(s, lines, f) ==
  f = [k \in 0 .. Len(lines) |-> IF k = 0 THEN s ELSE Request!WithCookies(f[k - 1], lines[k])]

LEMMA LinesFolded ==
  ASSUME NEW s, NEW lines, Len(lines) \in Nat, NEW f, TakingLines(s, lines, f)
  PROVE  Request!Fold(Request!WithCookies, s, lines) = f[Len(lines)]
<1> DEFINE h == [n \in 0 .. Len(lines) |-> f[n]]
           g == CHOOSE r : LinesRead(s, lines, r)
<1>1. LinesRead(s, lines, h)
  <2>1. \A n \in 0 .. Len(lines) :
          h[n] = IF n = 0 THEN s ELSE Request!WithCookies(h[n - 1], lines[n])
    BY DEF TakingLines
  <2> QED
    BY <2>1 DEF LinesRead
<1> HIDE DEF h
<1>2. LinesRead(s, lines, g)
  BY <1>1, Zenon
<1>3. Request!Fold(Request!WithCookies, s, lines) = g[Len(lines)]
  BY Zenon DEF Request!Fold, LinesRead
<1> HIDE DEF g
<1>4. \A n \in 0 .. Len(lines) :
        g[n] = IF n = 0 THEN s ELSE Request!WithCookies(g[n - 1], lines[n])
  BY <1>2, Zenon DEF LinesRead
<1>5. SameSteps(g, f, Len(lines))
  <2>1. 0 \in 0 .. Len(lines) /\ \A n \in 1 .. Len(lines) : n \in 0 .. Len(lines) /\ n # 0
    OBVIOUS
  <2> QED
    BY <1>4, <2>1, Zenon DEF TakingLines, SameSteps
<1> QED
  BY <1>3, <1>5, SameResults

LEMMA CookiesOfOneLine ==
  ASSUME NEW line, IsSeq(line), Len(line) <= 1, Request!ToSet(line) \cap {"word", "bare"} = {}
  PROVE  Request!WithCookies({}, line)
           = {[name |-> "user", value |-> w] : w \in Request!ToSet(line)}
<1> DEFINE f == [n \in 0 .. Len(line) |-> IF n = 0 THEN {} ELSE {Request!CookieOf(line[1])}]
<1>1. Len(line) \in {0, 1} /\ DOMAIN line = 1 .. Len(line)
  <2>1. Len(line) \in Nat /\ DOMAIN line = 1 .. Len(line)
    BY SeqLen, Zenon
  <2> QED
    BY <2>1
<1>2. f[0] = {}
  BY <1>1
<1>3. ASSUME NEW n \in 1 .. Len(line) PROVE f[n] = Request!WithCookie(f[n - 1], line[n])
  <2>1. n = 1 /\ n - 1 = 0 /\ f[1] = {Request!CookieOf(line[1])}
    BY <1>1
  <2> HIDE DEF f
  <2>2. Request!WithCookie({}, line[1]) = {Request!CookieOf(line[1])}
    BY DEF Request!WithCookie
  <2> QED
    BY <1>2, <2>1, <2>2
<1>4. TakingCookies({}, line, f)
  BY <1>2, <1>3 DEF TakingCookies
<1>5. Request!WithCookies({}, line) = f[Len(line)]
  BY <1>1, <1>4, CookiesFolded DEF Request!WithCookies
<1>6. CASE Len(line) = 0
  BY <1>1, <1>5, <1>6 DEF Request!ToSet
<1>7. CASE Len(line) = 1
  <2>1. Request!ToSet(line) = {line[1]}
    BY <1>1, <1>7 DEF Request!ToSet
  <2>2. Request!CookieOf(line[1]) = [name |-> "user", value |-> line[1]]
    BY <2>1 DEF Request!CookieOf
  <2>3. f[Len(line)] = {Request!CookieOf(line[1])}
    BY <1>7
  <2> HIDE DEF f
  <2> QED
    BY <1>5, <2>1, <2>2, <2>3
<1> QED
  BY <1>1, <1>6, <1>7

LEMMA CookiesTold ==
  ASSUME NEW lines, IsSeq(lines), Len(lines) <= 1,
         \A k \in DOMAIN lines : /\ IsSeq(lines[k]) /\ Len(lines[k]) <= 1
                                 /\ Request!ToSet(lines[k]) \cap {"word", "bare"} = {}
  PROVE  Request!Fold(Request!WithCookies, {}, Request!Reversed(lines)) =
           {[name |-> "user", value |-> w] : w \in Request!ToSet(IF lines = <<>> THEN <<>> ELSE Request!Last(lines))}
<1> DEFINE rs == Request!Reversed(lines)
           f == [n \in 0 .. Len(lines) |-> IF n = 0 THEN {} ELSE Request!WithCookies({}, lines[1])]
<1>1. Len(lines) \in {0, 1} /\ DOMAIN lines = 1 .. Len(lines) /\ (lines = <<>> <=> Len(lines) = 0)
  <2>1. Len(lines) \in Nat /\ DOMAIN lines = 1 .. Len(lines)
    BY SeqLen
  <2>2. lines = <<>> <=> Len(lines) = 0
    BY SeqLen
  <2> QED
    BY <2>1, <2>2
<1>2. Len(rs) = Len(lines) /\ \A k \in 1 .. Len(lines) : rs[k] = lines[1]
  BY <1>1 DEF Request!Reversed
<1> HIDE DEF rs
<1>3. f[0] = {}
  BY <1>1
<1>4. ASSUME NEW n \in 1 .. Len(lines) PROVE f[n] = Request!WithCookies(f[n - 1], rs[n])
  <2>1. n = 1 /\ n - 1 = 0 /\ f[1] = Request!WithCookies({}, lines[1]) /\ rs[1] = lines[1]
    BY <1>1, <1>2
  <2> HIDE DEF f
  <2> QED
    BY <1>3, <2>1
<1>5. TakingLines({}, rs, f)
  BY <1>2, <1>3, <1>4 DEF TakingLines
<1>6. Request!Fold(Request!WithCookies, {}, rs) = f[Len(lines)]
  <2>1. Len(rs) \in Nat
    BY <1>1, <1>2
  <2> HIDE DEF f
  <2> QED
    BY <1>2, <1>5, <2>1, LinesFolded
<1>7. CASE Len(lines) = 0
  <2>1. Request!ToSet(<<>>) = {}
    BY DEF Request!ToSet
  <2> QED
    BY <1>1, <1>6, <1>7, <2>1 DEF rs
<1>8. CASE Len(lines) = 1
  <2>1. Request!Last(lines) = lines[1] /\ 1 \in DOMAIN lines /\ lines # <<>>
    BY <1>1, <1>8 DEF Request!Last
  <2>2. f[Len(lines)] = Request!WithCookies({}, lines[1])
    BY <1>8
  <2> HIDE DEF f
  <2>3. Request!WithCookies({}, lines[1]) = {[name |-> "user", value |-> w] : w \in Request!ToSet(lines[1])}
    BY <2>1, CookiesOfOneLine
  <2> QED
    BY <1>6, <2>1, <2>2, <2>3 DEF rs
<1> QED
  BY <1>1, <1>7, <1>8

-----------------------------------------------------------------------------
(* A multipart body.  Where its parser is, having put at most most lines   *)
(* into fields.                                                            *)
PartState(place, kind, v, open, ps, fs, z) ==
  [place |-> place, kind |-> kind, value |-> v, open |-> open, parameters |-> ps,
   files |-> fs, fieldSize |-> z]
BetweenParts(m, place, ps, fs, most) ==
  \E z \in 0 .. most : m = PartState(place, "none", <<>>, FALSE, ps, fs, z)
Named(m, kind, ps, fs, most) ==
  \E z \in 0 .. most : m = PartState("head", kind, <<>>, FALSE, ps, fs, z)
WithinPart(m, kind, v, open, ps, fs, most) ==
  \E z \in 0 .. most : m = PartState("data", kind, v, open, ps, fs, z)

LEMMA LineBetween ==
  ASSUME NEW m, NEW ps, NEW fs, NEW most \in Nat, BetweenParts(m, "head", ps, fs, most)
  PROVE  /\ \A line \in {"bound", "last"} :
              BetweenParts(Request!OneLine(m, line), "head", ps, fs, most + 1)
         /\ \A kind \in {"field", "file"} : Named(Request!OneLine(m, kind), kind, ps, fs, most + 1)
<1>1. PICK z \in 0 .. most : m = PartState("head", "none", <<>>, FALSE, ps, fs, z)
  BY DEF BetweenParts
<1>2. z \in 0 .. most + 1
  OBVIOUS
<1>3. \A line \in {"bound", "last"} : Request!OneLine(m, line) = m
  BY <1>1 DEF Request!OneLine, Request!InHead, PartState
<1>4. ASSUME NEW kind \in {"field", "file"}
      PROVE  Request!OneLine(m, kind) = PartState("head", kind, <<>>, FALSE, ps, fs, z)
  <2>1. Request!OneLine(m, kind) = [m EXCEPT !.kind = kind]
    BY <1>1 DEF Request!OneLine, Request!InHead, PartState
  <2> QED
    BY <1>1, <2>1 DEF PartState
<1> QED
  BY <1>1, <1>2, <1>3, <1>4, Zenon DEF BetweenParts, Named

LEMMA LineNamed ==
  ASSUME NEW m, NEW kind, NEW ps, NEW fs, NEW most \in Nat, Named(m, kind, ps, fs, most)
  PROVE  WithinPart(Request!OneLine(m, "empty"), kind, <<>>, FALSE, ps, fs, most + 1)
<1>1. PICK z \in 0 .. most : m = PartState("head", kind, <<>>, FALSE, ps, fs, z)
  BY DEF Named
<1>2. z \in 0 .. most + 1
  OBVIOUS
<1>3. Request!OneLine(m, "empty") = [m EXCEPT !.place = "data"]
  BY <1>1 DEF Request!OneLine, Request!InHead, PartState
<1>4. Request!OneLine(m, "empty") = PartState("data", kind, <<>>, FALSE, ps, fs, z)
  BY <1>1, <1>3 DEF PartState
<1> QED
  BY <1>2, <1>4, Zenon DEF WithinPart

LEMMA LineWithin ==
  ASSUME NEW m, NEW kind \in {"field", "file"}, NEW v, NEW open, NEW ps, NEW fs,
         NEW most \in Nat, WithinPart(m, kind, v, open, ps, fs, most),
         NEW line, line \notin {"bound", "last"}
  PROVE  WithinPart(Request!OneLine(m, line), kind, IF kind = "field" THEN Append(v, line) ELSE v,
                IF kind = "file" THEN TRUE ELSE open, ps, fs, most + 1)
<1>1. PICK z \in 0 .. most : m = PartState("data", kind, v, open, ps, fs, z)
  BY DEF WithinPart
<1>2. z \in 0 .. most + 1 /\ z + 1 \in 0 .. most + 1
  OBVIOUS
<1>3. Request!OneLine(m, line) = Request!InData(m, line)
  BY <1>1 DEF Request!OneLine, PartState
<1>4. CASE kind = "field"
  <2>1. Request!OneLine(m, line) = [m EXCEPT !.value = Append(@, line), !.fieldSize = @ + 1]
    BY <1>1, <1>3, <1>4 DEF Request!InData, PartState
  <2>2. Request!OneLine(m, line) = PartState("data", kind, Append(v, line), open, ps, fs, z + 1)
    BY <1>1, <2>1 DEF PartState
  <2> QED
    BY <1>2, <1>4, <2>2 DEF WithinPart
<1>5. CASE kind = "file"
  <2>1. Request!OneLine(m, line) = [m EXCEPT !.open = TRUE]
    BY <1>1, <1>3, <1>5 DEF Request!InData, PartState
  <2>2. Request!OneLine(m, line) = PartState("data", kind, v, TRUE, ps, fs, z)
    BY <1>1, <2>1 DEF PartState
  <2> QED
    BY <1>2, <1>5, <2>2 DEF WithinPart
<1> QED
  BY <1>4, <1>5

LEMMA LineEnds ==
  ASSUME NEW m, NEW kind \in {"field", "file"}, NEW v, NEW open, NEW ps, NEW fs,
         NEW most \in Nat, WithinPart(m, kind, v, open, ps, fs, most),
         kind = "file" => open = TRUE,
         NEW line \in {"bound", "last"}
  PROVE  BetweenParts(Request!OneLine(m, line), IF line = "last" THEN "done" ELSE "head",
                 Append(ps, IF kind = "field" THEN v ELSE <<"filename">>),
                 IF kind = "field" THEN fs
                 ELSE [named |-> 1, leaked |-> fs.leaked + fs.named], most + 1)
<1>1. PICK z \in 0 .. most : m = PartState("data", kind, v, open, ps, fs, z)
  BY DEF WithinPart
<1>2. z \in 0 .. most + 1
  OBVIOUS
<1> DEFINE place == IF line = "last" THEN "done" ELSE "head"
           n == [m EXCEPT !.place = place, !.kind = "none", !.value = <<>>, !.open = FALSE]
<1>3. Request!OneLine(m, line) = Request!PartDone(m, line)
  BY <1>1 DEF Request!OneLine, Request!InData, PartState
<1> HIDE DEF place
<1>4. n = PartState(place, "none", <<>>, FALSE, ps, fs, z)
  <2>1. PICK shut : shut = FALSE
    BY Zenon
  <2> DEFINE m1 == [m EXCEPT !.place = place]
             m2 == [m1 EXCEPT !.kind = "none"]
             m3 == [m2 EXCEPT !.value = <<>>]
             m4 == [m3 EXCEPT !.open = shut]
  <2>2. m1 = PartState(place, kind, v, open, ps, fs, z)
    BY <1>1 DEF PartState
  <2> HIDE DEF m1
  <2>3. m2 = PartState(place, "none", v, open, ps, fs, z)
    BY <2>2 DEF PartState
  <2> HIDE DEF m2
  <2>4. m3 = PartState(place, "none", <<>>, open, ps, fs, z)
    BY <2>3 DEF PartState
  <2> HIDE DEF m3
  <2>5. m4 = PartState(place, "none", <<>>, shut, ps, fs, z)
    BY <2>4 DEF PartState
  <2>6. n = m4
    BY <2>1, Zenon DEF m1, m2, m3
  <2> HIDE DEF n, m4
  <2> QED
    BY <2>1, <2>5, <2>6, Zenon
<1>5. CASE kind = "field"
  <2>1. Request!PartDone(m, line) = [n EXCEPT !.parameters = Append(@, m.value)]
    BY <1>1, <1>5 DEF Request!PartDone, PartState, place
  <2>2. m.value = v
    BY <1>1 DEF PartState
  <2> HIDE DEF n
  <2>3. Request!PartDone(m, line) = PartState(place, "none", <<>>, FALSE, Append(ps, v), fs, z)
    BY <1>4, <2>1, <2>2 DEF PartState
  <2> QED
    BY <1>2, <1>3, <1>5, <2>3 DEF BetweenParts, place
<1>6. CASE kind = "file"
  <2>1. Request!PartDone(m, line) =
          [n EXCEPT !.parameters = Append(@, <<"filename">>),
                    !.files = [named |-> 1, leaked |-> @.leaked + @.named]]
    BY <1>1, <1>6 DEF Request!PartDone, PartState, place
  <2> HIDE DEF n
  <2>2. Request!PartDone(m, line) =
          PartState(place, "none", <<>>, FALSE, Append(ps, <<"filename">>),
                    [named |-> 1, leaked |-> fs.leaked + fs.named], z)
    BY <1>4, <2>1 DEF PartState
  <2> QED
    BY <1>2, <1>3, <1>6, <2>2 DEF BetweenParts, place
<1> QED
  BY <1>5, <1>6

ParsingParts(body, f) ==
  f[0] = Request!MultiPart /\ \A n \in 1 .. Len(body) : f[n] = Request!OneLine(f[n - 1], body[n])
PartsRead(body, f) ==
  f = [k \in 0 .. Len(body) |-> IF k = 0 THEN Request!MultiPart ELSE Request!OneLine(f[k - 1], body[k])]

LEMMA PartsFolded ==
  ASSUME NEW body, Len(body) \in Nat, NEW f, ParsingParts(body, f)
  PROVE  Request!Fold(Request!OneLine, Request!MultiPart, body) = f[Len(body)]
<1> DEFINE h == [n \in 0 .. Len(body) |-> f[n]]
           g == CHOOSE r : PartsRead(body, r)
<1>1. PartsRead(body, h)
  <2>1. \A n \in 0 .. Len(body) :
          h[n] = IF n = 0 THEN Request!MultiPart ELSE Request!OneLine(h[n - 1], body[n])
    BY DEF ParsingParts
  <2> QED
    BY <2>1 DEF PartsRead
<1> HIDE DEF h
<1>2. PartsRead(body, g)
  BY <1>1, Zenon
<1>3. Request!Fold(Request!OneLine, Request!MultiPart, body) = g[Len(body)]
  BY Zenon DEF Request!Fold, PartsRead
<1> HIDE DEF g
<1>4. \A n \in 0 .. Len(body) :
        g[n] = IF n = 0 THEN Request!MultiPart ELSE Request!OneLine(g[n - 1], body[n])
  BY <1>2, Zenon DEF PartsRead
<1>5. SameSteps(g, f, Len(body))
  <2>1. 0 \in 0 .. Len(body) /\ \A n \in 1 .. Len(body) : n \in 0 .. Len(body) /\ n # 0
    OBVIOUS
  <2> QED
    BY <1>4, <2>1, Zenon DEF ParsingParts, SameSteps
<1> QED
  BY <1>3, <1>5, SameResults

LEMMA PartsParse ==
  ASSUME NEW body, Len(body) \in Nat
  PROVE  \E f : ParsingParts(body, f)
<1> DEFINE Reach(m, f) == /\ f[0] = Request!MultiPart
                          /\ \A n \in 1 .. m : f[n] = Request!OneLine(f[n - 1], body[n])
           T == {m \in Nat : \E f : Reach(m, f)}
<1>1. 0 \in T
  <2> DEFINE f == [n \in {0} |-> Request!MultiPart]
  <2>1. Reach(0, f)
    OBVIOUS
  <2> QED
    BY <2>1
<1>2. ASSUME NEW m \in T PROVE m + 1 \in T
  <2>1. m \in Nat /\ m + 1 \in Nat
    OBVIOUS
  <2>2. PICK f : Reach(m, f)
    OBVIOUS
  <2>3. PICK h : h[m + 1] = Request!OneLine(f[m], body[m + 1]) /\ \A n \in 0 .. m : h[n] = f[n]
    <3>1. \A g, y : \E h : h[m + 1] = y /\ \A n \in 0 .. m : h[n] = g[n]
      BY <2>1, OneFurther, Zenon
    <3> QED
      BY <3>1, Zenon
  <2>4. ASSUME NEW n \in 1 .. m + 1 PROVE h[n] = Request!OneLine(h[n - 1], body[n])
    <3>1. CASE n = m + 1
      <4>1. h[m] = f[m] /\ n - 1 = m
        BY <2>1, <2>3, <3>1
      <4> QED
        BY <2>3, <3>1, <4>1, Zenon
    <3>2. CASE n # m + 1
      <4>1. n \in 1 .. m /\ n \in 0 .. m /\ n - 1 \in 0 .. m
        BY <2>1, <3>2
      <4> QED
        BY <2>2, <2>3, <4>1, Zenon
    <3> QED
      BY <3>1, <3>2
  <2>5. Reach(m + 1, h)
    <3>1. h[0] = Request!MultiPart
      BY <2>1, <2>2, <2>3
    <3> QED
      BY <2>4, <3>1
  <2> HIDE DEF Reach
  <2> QED
    BY <2>1, <2>5
<1> HIDE DEF T, Reach
<1>3. T = Nat
  <2>1. T \subseteq Nat
    BY DEF T
  <2> QED
    BY <1>1, <1>2, <2>1, Induction
<1>4. PICK f : Reach(Len(body), f)
  BY <1>3 DEF T
<1> QED
  BY <1>4 DEF Reach, ParsingParts

(* The data of a part that begins after the o-th line.                     *)
LEMMA DataParsed ==
  ASSUME NEW body, Len(body) \in Nat, NEW f, ParsingParts(body, f),
         NEW o \in Nat, NEW kind \in {"field", "file"}, NEW lines, IsSeq(lines),
         o + Len(lines) <= Len(body), \A i \in 1 .. Len(lines) : body[o + i] = lines[i],
         \A i \in 1 .. Len(lines) : lines[i] \notin {"bound", "last"},
         kind = "file" => lines # <<>>,
         NEW ps, NEW fs, WithinPart(f[o], kind, <<>>, FALSE, ps, fs, o)
  PROVE  \E v, open :
           /\ WithinPart(f[o + Len(lines)], kind, v, open, ps, fs, o + Len(lines))
           /\ (kind = "field" => v = lines) /\ (kind = "file" => open = TRUE)
<1> DEFINE At(i, v, open) ==
             /\ WithinPart(f[o + i], kind, v, open, ps, fs, o + i)
             /\ IsSeq(v) /\ (kind = "field" => /\ Len(v) = i
                                               /\ \A j \in 1 .. i : v[j] = lines[j])
             /\ (kind = "file" /\ i > 0 => open = TRUE)
           T == {i \in Nat : i <= Len(lines) => \E v, open : At(i, v, open)}
<1>0. Len(lines) \in Nat /\ (lines = <<>> <=> Len(lines) = 0)
  BY SeqLen
<1>1. 0 \in T
  <2>1. o + 0 = o
    OBVIOUS
  <2>2. WithinPart(f[o + 0], kind, <<>>, FALSE, ps, fs, o + 0)
    BY <2>1, Zenon
  <2>3. \A j \in 1 .. 0 : <<>>[j] = lines[j]
    OBVIOUS
  <2>4. ~(0 > 0)
    OBVIOUS
  <2>5. At(0, <<>>, FALSE)
    BY <2>2, <2>3, <2>4, NoLength, Zenon
  <2> HIDE DEF At
  <2> QED
    BY <2>5
<1>2. ASSUME NEW i \in T PROVE i + 1 \in T
  <2> SUFFICES ASSUME i + 1 <= Len(lines) PROVE \E v, open : At(i + 1, v, open)
    <3> HIDE DEF At
    <3> QED
      OBVIOUS
  <2>1. i \in Nat /\ i <= Len(lines) /\ i + 1 \in 1 .. Len(lines)
        /\ o + i \in Nat /\ o + (i + 1) \in 1 .. Len(body) /\ (o + (i + 1)) - 1 = o + i
        /\ (o + i) + 1 = o + (i + 1)
    BY <1>0
  <2>2. PICK v, open : At(i, v, open)
    <3> HIDE DEF At
    <3> QED
      BY <2>1
  <2> DEFINE w == IF kind = "field" THEN Append(v, lines[i + 1]) ELSE v
             now == IF kind = "file" THEN TRUE ELSE open
  <2>3. f[o + (i + 1)] = Request!OneLine(f[o + i], lines[i + 1])
    BY <2>1, Zenon DEF ParsingParts
  <2>4. WithinPart(f[o + i], kind, v, open, ps, fs, o + i)
    BY <2>2
  <2>5. WithinPart(f[o + (i + 1)], kind, w, now, ps, fs, o + (i + 1))
    <3>1. lines[i + 1] \notin {"bound", "last"}
      BY <2>1
    <3>2. WithinPart(Request!OneLine(f[o + i], lines[i + 1]), kind, w, now, ps, fs, (o + i) + 1)
      BY <2>1, <2>4, <3>1, LineWithin
    <3> QED
      BY <2>1, <2>3, <3>2
  <2>6. IsSeq(w) /\ (kind = "field" => /\ Len(w) = i + 1
                                       /\ \A j \in 1 .. i + 1 : w[j] = lines[j])
    <3>1. IsSeq(v)
      BY <2>2
    <3>2. CASE kind = "field"
      <4>1. Len(v) = i /\ \A j \in 1 .. i : v[j] = lines[j]
        BY <2>2, <3>2
      <4>2. /\ IsSeq(Append(v, lines[i + 1])) /\ Len(Append(v, lines[i + 1])) = i + 1
            /\ Append(v, lines[i + 1])[i + 1] = lines[i + 1]
            /\ \A j \in 1 .. i : Append(v, lines[i + 1])[j] = v[j]
        BY <3>1, <4>1, Appended
      <4>3. w = Append(v, lines[i + 1])
        BY <3>2
      <4> HIDE DEF w
      <4> QED
        BY <2>1, <4>1, <4>2, <4>3
    <3> QED
      BY <3>1, <3>2
  <2>7. kind = "file" => now = TRUE
    OBVIOUS
  <2> HIDE DEF w, now
  <2>8. At(i + 1, w, now)
    BY <2>5, <2>6, <2>7
  <2> HIDE DEF At
  <2> QED
    BY <2>8
<1> HIDE DEF T
<1>3. T = Nat
  <2>1. T \subseteq Nat
    BY DEF T
  <2> QED
    BY <1>1, <1>2, <2>1, Induction
<1>4. PICK v, open : At(Len(lines), v, open)
  <2> HIDE DEF At
  <2>1. Len(lines) \in T /\ Len(lines) <= Len(lines)
    BY <1>0, <1>3
  <2> QED
    BY <2>1 DEF T
<1>5. kind = "field" => v = lines
  <2> SUFFICES ASSUME kind = "field" PROVE v = lines
    OBVIOUS
  <2>1. Len(v) = Len(lines) /\ \A j \in 1 .. Len(lines) : v[j] = lines[j]
    BY <1>4
  <2>2. PICK U : {v, lines} \subseteq Seq(U)
    BY <1>4, InOneSet
  <2> QED
    BY <2>1, <2>2, SeqEqual
<1>6. kind = "file" => open = TRUE
  BY <1>0, <1>4
<1> QED
  BY <1>4, <1>5, <1>6, Zenon

(* Where the lines of the k-th part are, which begins after the o-th.      *)
PartAt(body, part, o, next) ==
  /\ o \in Nat /\ next = o + 3 + Len(part.data) /\ next + 1 \in 1 .. Len(body)
  /\ body[o + 1] = "bound" /\ body[o + 2] = part.kind /\ body[o + 3] = "empty"
  /\ \A i \in 1 .. Len(part.data) : body[o + 3 + i] = part.data[i]

PartWord == STRING \cup {"bound", "empty", "last", "field", "file"}
PartText(part) == <<"bound", part.kind, "empty">> \o part.data
PartTexts(parts) == [k \in DOMAIN parts |-> PartText(parts[k])]

LEMMA PartTextAt ==
  ASSUME NEW part, part.kind \in PartWord, part.data \in Seq(STRING)
  PROVE  LET t == PartText(part)
         IN /\ t \in Seq(PartWord) /\ Len(t) = 3 + Len(part.data)
            /\ t[1] = "bound" /\ t[2] = part.kind /\ t[3] = "empty"
            /\ \A i \in 1 .. Len(part.data) : t[3 + i] = part.data[i]
<1>1. part.data \in Seq(PartWord)
  BY SeqMonotonic DEF PartWord
<1>2. "bound" \in PartWord /\ "empty" \in PartWord
  BY DEF PartWord
<1> HIDE DEF PartWord
<1> QED
  BY <1>1, <1>2 DEF PartText

LEMMA PartPlaces ==
  ASSUME NEW parts \in Seq([kind : STRING, data : Seq(STRING)]),
         \A k \in DOMAIN parts : Request!IsPart(parts[k])
  PROVE  \E past : /\ past[0] = 0 /\ Len(Request!BodyOf(parts)) = past[Len(parts)] + 1
                   /\ \A k \in 1 .. Len(parts) :
                        PartAt(Request!BodyOf(parts), parts[k], past[k - 1], past[k])
                   /\ Request!BodyOf(parts)[past[Len(parts)] + 1] = "last"
                   /\ IsSeq(Request!BodyOf(parts))
<1> DEFINE N == Len(parts)
           ss == PartTexts(parts)
           body == Request!BodyOf(parts)
<1>1. /\ N \in Nat /\ DOMAIN parts = 1 .. N
      /\ \A k \in 1 .. N : parts[k].data \in Seq(STRING) /\ parts[k].kind \in PartWord
  <2>1. N \in Nat /\ DOMAIN parts = 1 .. N
    OBVIOUS
  <2> DEFINE R == [kind : STRING, data : Seq(STRING)]
  <2>2. \A k \in 1 .. N : parts[k] \in R
    <3>1. parts \in Seq(R)
      OBVIOUS
    <3> HIDE DEF R
    <3> QED
      BY <3>1
  <2>3. \A k \in 1 .. N : parts[k].data \in Seq(STRING)
    BY <2>2
  <2>4. \A k \in 1 .. N : parts[k].kind \in {"field", "file"}
    BY <2>1, Zenon DEF Request!IsPart
  <2>5. {"field", "file"} \subseteq PartWord
    BY DEF PartWord
  <2> QED
    BY <2>1, <2>3, <2>4, <2>5
<1>2. \A k \in 1 .. N : PartText(parts[k]) \in Seq(PartWord)
  BY <1>1, PartTextAt, Zenon
<1>3. ss \in Seq(Seq(PartWord)) /\ Len(ss) = N /\ \A k \in 1 .. N : ss[k] = PartText(parts[k])
  BY <1>1, <1>2 DEF PartTexts
<1>4. body = Request!Concat(ss) \o <<"last">>
  BY Zenon DEF Request!BodyOf, PartTexts, PartText
<1> HIDE DEF N, ss, body
<1>5. PICK f : JoinsIn(PartWord, ss, f) /\ Request!Concat(ss) = f[N]
  BY <1>3, Joins
<1>6. /\ f[0] = <<>> /\ \A k \in 0 .. N : f[k] \in Seq(PartWord)
  BY <1>3, <1>5 DEF JoinsIn, Joining
<1>7. <<"last">> \in Seq(PartWord) /\ Len(<<"last">>) = 1 /\ <<"last">>[1] = "last"
  BY DEF PartWord
<1>8. f[N] \in Seq(PartWord)
  BY <1>1, <1>6
<1>9. body \in Seq(PartWord) /\ IsJoint(body, f[N], <<"last">>)
  BY <1>4, <1>5, <1>7, <1>8, JointIn
<1> DEFINE past == [k \in 0 .. N |-> Len(f[k])]
<1>10. \A k \in 0 .. N : past[k] = Len(f[k]) /\ past[k] \in Nat
  BY <1>6
<1> HIDE DEF past
<1>11. past[0] = 0 /\ Len(body) = past[N] + 1 /\ body[past[N] + 1] = "last"
  <2>1. past[0] = 0 /\ past[N] = Len(f[N])
    BY <1>1, <1>6, <1>10
  <2> QED
    BY <1>7, <1>9, <2>1 DEF IsJoint
<1>12. ASSUME NEW k \in 1 .. N PROVE PartAt(body, parts[k], past[k - 1], past[k])
  <2> DEFINE d == parts[k].data
             o == past[k - 1]
             t == PartText(parts[k])
  <2>1. /\ k - 1 \in 0 .. N /\ k \in 0 .. N /\ o = Len(f[k - 1]) /\ past[k] = Len(f[k]) /\ o \in Nat
    BY <1>1, <1>10
  <2>2. IsJoint(f[k], f[k - 1], t) /\ StartsWith(f[N], f[k])
    BY <1>3, <1>5, JoinPlaces
  <2>3. /\ Len(t) = 3 + Len(d) /\ t[1] = "bound" /\ t[2] = parts[k].kind /\ t[3] = "empty"
        /\ \A i \in 1 .. Len(d) : t[3 + i] = d[i]
    BY <1>1, PartTextAt
  <2>4. StartsWith(body, f[k])
    <3>1. Len(f[k]) \in Nat
      BY <1>6, <2>1
    <3> QED
      BY <1>9, <2>2, <3>1, JointBegins
  <2>5. Len(d) \in Nat
    BY <1>1
  <2> HIDE DEF t
  <2> DEFINE n == Len(d)
  <2>6. past[k] = o + 3 + n /\ \A i \in 1 .. 3 + n : body[o + i] = t[i]
    <3>1. Len(f[k]) = o + (3 + n) /\ \A i \in 1 .. 3 + n : o + i \in 1 .. Len(f[k]) /\ f[k][o + i] = t[i]
      BY <2>1, <2>2, <2>3 DEF IsJoint
    <3>2. \A i \in 1 .. Len(f[k]) : body[i] = f[k][i]
      BY <2>4 DEF StartsWith
    <3>3. o \in Nat /\ n \in Nat
      BY <2>1, <2>5
    <3>5. past[k] = o + (3 + n)
      BY <2>1, <3>1, Zenon
    <3> HIDE DEF o, n
    <3>4. \A i \in 1 .. 3 + n : body[o + i] = t[i]
      BY <3>1, <3>2, Zenon
    <3> QED
      BY <3>3, <3>4, <3>5
  <2>7. past[k] + 1 \in 1 .. Len(body)
    <3>1. Len(f[k]) <= Len(f[N]) /\ Len(body) = Len(f[N]) + 1
      BY <1>7, <1>9, <2>2 DEF StartsWith, IsJoint
    <3>2. Len(f[k]) \in Nat /\ Len(f[N]) \in Nat
      BY <1>1, <1>6, <2>1
    <3> QED
      BY <2>1, <3>1, <3>2
  <2> HIDE DEF o, d, n
  <2>8. n \in Nat /\ o \in Nat
    BY <2>1, <2>5 DEF n, o
  <2>9. body[o + 1] = t[1] /\ body[o + 2] = t[2] /\ body[o + 3] = t[3]
    BY <2>6, <2>8
  <2>10. \A i \in 1 .. n : body[o + 3 + i] = d[i]
    <3> SUFFICES ASSUME NEW i \in 1 .. n PROVE body[o + 3 + i] = d[i]
      OBVIOUS
    <3>1. 3 + i \in 1 .. 3 + n /\ o + (3 + i) = o + 3 + i
      BY <2>8
    <3>2. body[o + (3 + i)] = t[3 + i] /\ t[3 + i] = d[i]
      BY <2>3, <2>6, <3>1 DEF n
    <3> QED
      BY <3>1, <3>2
  <2> QED
    BY <2>3, <2>6, <2>7, <2>8, <2>9, <2>10 DEF PartAt, o, d, n
<1>13. IsSeq(body)
  BY <1>9 DEF IsSeq
<1> QED
  BY <1>11, <1>12, <1>13, Zenon DEF N, body

(* What the first k parts mean.                                            *)
Meant(part) == IF part.kind = "file" THEN <<"filename">> ELSE part.data
MeantOf(parts, k) == [j \in 1 .. k |-> Meant(parts[j])]
FilesOf(parts, k) ==
  [named |-> IF \E j \in 1 .. k : parts[j].kind = "file" THEN 1 ELSE 0, leaked |-> 0]

LEMMA MeantFurther ==
  ASSUME NEW parts, NEW k \in Nat
  PROVE  /\ IsSeq(MeantOf(parts, k)) /\ MeantOf(parts, 0) = <<>>
         /\ MeantOf(parts, k + 1) = Append(MeantOf(parts, k), Meant(parts[k + 1]))
<1> DEFINE T == {Meant(parts[j]) : j \in 1 .. k + 1}
           s == MeantOf(parts, k)
           t == MeantOf(parts, k + 1)
           e == Meant(parts[k + 1])
<1>1. /\ k + 1 \in Nat /\ k + 1 \in 1 .. k + 1 /\ \A j \in 1 .. k : j \in 1 .. k + 1
  OBVIOUS
<1>2. \A j \in 1 .. k + 1 : Meant(parts[j]) \in T
  OBVIOUS
<1> HIDE DEF T
<1>3. s = [j \in 1 .. k |-> Meant(parts[j])] /\ t = [j \in 1 .. k + 1 |-> Meant(parts[j])]
  BY DEF MeantOf
<1> HIDE DEF s, t
<1>4. s \in Seq(T) /\ Len(s) = k /\ \A j \in 1 .. k : s[j] = Meant(parts[j])
  BY <1>1, <1>2, <1>3
<1>5. t \in Seq(T) /\ Len(t) = k + 1 /\ \A j \in 1 .. k + 1 : t[j] = Meant(parts[j])
  BY <1>1, <1>2, <1>3
<1>6. IsSeq(s) /\ IsSeq(t)
  BY <1>4, <1>5 DEF IsSeq
<1>7. t = Append(s, e)
  BY <1>1, <1>4, <1>5, <1>6, AddedLast
<1>8. MeantOf(parts, 0) = <<>>
  BY DEF MeantOf
<1> QED
  BY <1>6, <1>7, <1>8 DEF s, t

LEMMA FilesFurther ==
  ASSUME NEW parts, NEW k \in Nat, parts[k + 1].kind \in {"field", "file"},
         \A j \in 1 .. k : ~(parts[j].kind = "file" /\ parts[k + 1].kind = "file")
  PROVE  FilesOf(parts, k + 1) =
           IF parts[k + 1].kind = "field" THEN FilesOf(parts, k)
           ELSE [named |-> 1,
                 leaked |-> FilesOf(parts, k).leaked + FilesOf(parts, k).named]
<1>1. k + 1 \in 1 .. k + 1 /\ (\A j \in 1 .. k + 1 : j = k + 1 \/ j \in 1 .. k)
      /\ \A j \in 1 .. k : j \in 1 .. k + 1
  OBVIOUS
<1>2. CASE parts[k + 1].kind = "field"
  <2>1. (\E j \in 1 .. k + 1 : parts[j].kind = "file") <=> \E j \in 1 .. k : parts[j].kind = "file"
    BY <1>1, <1>2
  <2> QED
    BY <1>2, <2>1 DEF FilesOf
<1>3. CASE parts[k + 1].kind = "file"
  <2>1. /\ \E j \in 1 .. k + 1 : parts[j].kind = "file"
        /\ ~\E j \in 1 .. k : parts[j].kind = "file"
    BY <1>1, <1>3
  <2>2. FilesOf(parts, k + 1) = [named |-> 1, leaked |-> 0]
    BY <2>1 DEF FilesOf
  <2>3. FilesOf(parts, k) = [named |-> 0, leaked |-> 0]
    BY <2>1 DEF FilesOf
  <2> QED
    BY <1>3, <2>2, <2>3
<1> QED
  BY <1>2, <1>3

LEMMA OnePartParsed ==
  ASSUME NEW body, Len(body) \in Nat, NEW f, ParsingParts(body, f),
         NEW part, Request!IsPart(part), part.data \in Seq(STRING), NEW o, NEW next,
         PartAt(body, part, o, next), NEW ps, NEW fs, BetweenParts(f[o + 1], "head", ps, fs, o + 1),
         NEW line \in {"bound", "last"}, body[next + 1] = line
  PROVE  BetweenParts(f[next + 1], IF line = "last" THEN "done" ELSE "head",
                 Append(ps, Meant(part)),
                 IF part.kind = "field" THEN fs
                 ELSE [named |-> 1, leaked |-> fs.leaked + fs.named], next + 1)
<1> DEFINE kind == part.kind
           lines == part.data
           d == o + 3
<1>1. /\ kind \in {"field", "file"} /\ (kind = "file" => lines # <<>>)
      /\ IsSeq(lines)
      /\ \A i \in 1 .. Len(lines) : lines[i] \notin {"bound", "last"}
  <2>1. kind \in {"field", "file"} /\ (kind = "file" => lines # <<>>)
    BY Zenon DEF Request!IsPart
  <2>2. IsSeq(lines)
    BY DEF IsSeq
  <2>3. \A i \in 1 .. Len(lines) : lines[i] \in Request!ToSet(lines)
    BY DEF Request!ToSet
  <2>4. Request!ToSet(lines) \cap {"bound", "last"} = {}
    BY Zenon DEF Request!IsPart
  <2> HIDE DEF lines, kind
  <2> QED
    BY <2>1, <2>2, <2>3, <2>4
<1>2. /\ o \in Nat /\ next = d + Len(lines) /\ next + 1 \in 1 .. Len(body)
      /\ body[o + 2] = kind /\ body[o + 3] = "empty" /\ Len(lines) \in Nat
      /\ \A i \in 1 .. Len(lines) : body[d + i] = lines[i]
  <2>1. Len(lines) \in Nat
    OBVIOUS
  <2> QED
    BY <2>1, Zenon DEF PartAt
<1> HIDE DEF kind, lines
<1>3. /\ o + 1 \in Nat /\ o + 2 \in 1 .. Len(body) /\ o + 3 \in 1 .. Len(body) /\ d \in Nat
      /\ (o + 2) - 1 = o + 1 /\ (o + 3) - 1 = o + 2 /\ (next + 1) - 1 = next /\ next \in Nat
      /\ (o + 1) + 1 = o + 2 /\ (o + 2) + 1 = o + 3 /\ o + 2 \in Nat
      /\ d + Len(lines) <= Len(body) /\ d = o + 3
  BY <1>2
<1> HIDE DEF d
<1>4. Named(f[o + 2], kind, ps, fs, o + 2)
  <2>1. f[o + 2] = Request!OneLine(f[o + 1], kind)
    BY <1>2, <1>3, Zenon DEF ParsingParts
  <2>2. Named(Request!OneLine(f[o + 1], kind), kind, ps, fs, (o + 1) + 1)
    BY <1>1, <1>3, LineBetween, Zenon
  <2> QED
    BY <1>3, <2>1, <2>2, Zenon
<1>5. WithinPart(f[d], kind, <<>>, FALSE, ps, fs, d)
  <2>1. f[o + 3] = Request!OneLine(f[o + 2], "empty")
    BY <1>2, <1>3, Zenon DEF ParsingParts
  <2>2. WithinPart(Request!OneLine(f[o + 2], "empty"), kind, <<>>, FALSE, ps, fs, (o + 2) + 1)
    BY <1>3, <1>4, LineNamed, Zenon
  <2> QED
    BY <1>3, <2>1, <2>2, Zenon
<1>6. PICK v, open : /\ WithinPart(f[next], kind, v, open, ps, fs, next)
                     /\ (kind = "field" => v = lines) /\ (kind = "file" => open = TRUE)
  <2>1. \E v, open : /\ WithinPart(f[d + Len(lines)], kind, v, open, ps, fs, d + Len(lines))
                     /\ (kind = "field" => v = lines) /\ (kind = "file" => open = TRUE)
    <3>1. d + Len(lines) <= Len(body) /\ d \in Nat
      BY <1>3
    <3> QED
      BY <1>1, <1>2, <1>5, <3>1, DataParsed, ZenonT(60)
  <2> QED
    BY <1>2, <2>1, Zenon
<1>7. f[next + 1] = Request!OneLine(f[next], line)
  BY <1>2, <1>3, Zenon DEF ParsingParts
<1>8. BetweenParts(Request!OneLine(f[next], line), IF line = "last" THEN "done" ELSE "head",
              Append(ps, IF kind = "field" THEN v ELSE <<"filename">>),
              IF kind = "field" THEN fs
              ELSE [named |-> 1, leaked |-> fs.leaked + fs.named], next + 1)
  BY <1>1, <1>3, <1>6, LineEnds
<1>9. (IF kind = "field" THEN v ELSE <<"filename">>) = Meant(part)
  BY <1>1, <1>6 DEF Meant, kind, lines
<1> QED
  BY <1>7, <1>8, <1>9, Zenon DEF kind

(* A multipart body is parsed as it was put together.                      *)
LEMMA PartsTold ==
  ASSUME NEW parts \in Seq([kind : STRING, data : Seq(STRING)]),
         \A k \in DOMAIN parts : Request!IsPart(parts[k]),
         \A j, k \in DOMAIN parts :
           parts[j].kind = "file" /\ parts[k].kind = "file" => j = k
  PROVE  \E place :
           BetweenParts(Request!Fold(Request!OneLine, Request!MultiPart, Request!BodyOf(parts)), place,
                   MeantOf(parts, Len(parts)), FilesOf(parts, Len(parts)), Len(Request!BodyOf(parts)))
<1> DEFINE N == Len(parts)
           body == Request!BodyOf(parts)
           R == [kind : STRING, data : Seq(STRING)]
<1>1. N \in Nat /\ DOMAIN parts = 1 .. N /\ \A k \in 1 .. N : parts[k] \in R
  <2>1. parts \in Seq(R)
    OBVIOUS
  <2> HIDE DEF R
  <2> QED
    BY <2>1
<1>2. PICK past : /\ past[0] = 0 /\ Len(body) = past[N] + 1
                  /\ \A k \in 1 .. N : PartAt(body, parts[k], past[k - 1], past[k])
                  /\ body[past[N] + 1] = "last" /\ IsSeq(body)
  BY PartPlaces
<1> HIDE DEF N, body
<1>3. Len(body) \in Nat
  BY <1>2, SeqLen
<1>4. PICK f : ParsingParts(body, f)
  BY <1>3, PartsParse
<1>5. Request!Fold(Request!OneLine, Request!MultiPart, body) = f[Len(body)]
  BY <1>3, <1>4, PartsFolded
<1> DEFINE PlaceAfter(k) == IF k = N /\ k > 0 THEN "done" ELSE "head"
           Q(k) == BetweenParts(f[past[k] + 1], PlaceAfter(k), MeantOf(parts, k), FilesOf(parts, k),
                           past[k] + 1)
           T == {k \in Nat : k <= N => Q(k)}
<1>6. \A k \in 0 .. N : body[past[k] + 1] = IF k = N THEN "last" ELSE "bound"
  <2> SUFFICES ASSUME NEW k \in 0 .. N, k # N PROVE body[past[k] + 1] = "bound"
    BY <1>2
  <2>1. k + 1 \in 1 .. N /\ (k + 1) - 1 = k
    BY <1>1
  <2>2. PartAt(body, parts[k + 1], past[k], past[k + 1])
    BY <1>2, <2>1
  <2> QED
    BY <2>2 DEF PartAt
<1>7. 0 \in T
  <2>1. past[0] + 1 = 1 /\ 0 \in Nat /\ 0 \in 0 .. N /\ PlaceAfter(0) = "head" /\ 1 \in 1 .. Len(body) /\ 1 - 1 = 0
    <3>1. CASE N = 0
      BY <1>2, <3>1
    <3>2. CASE N # 0
      <4>1. PartAt(body, parts[1], past[0], past[1])
        <5>1. 1 \in 1 .. N /\ 1 - 1 = 0
          BY <1>1, <3>2
        <5> QED
          BY <1>2, <5>1
      <4> HIDE DEF N
      <4>2. 1 <= Len(body)
        <5>1. past[1] + 1 \in 1 .. Len(body)
          BY <4>1 DEF PartAt
        <5> QED
          BY <1>3, <5>1
      <4> QED
        BY <1>1, <1>2, <1>3, <4>2
    <3> QED
      BY <3>1, <3>2
  <2>2. f[1] = Request!OneLine(f[0], body[1]) /\ f[0] = Request!MultiPart
    BY <1>4, <2>1, Zenon DEF ParsingParts
  <2>3. body[1] \in {"bound", "last"}
    BY <1>6, <2>1
  <2>4. FilesOf(parts, 0) = [named |-> 0, leaked |-> 0]
    BY DEF FilesOf
  <2>5. BetweenParts(Request!MultiPart, "head", MeantOf(parts, 0), FilesOf(parts, 0), 0)
    <3>1. Request!MultiPart = PartState("head", "none", <<>>, FALSE, MeantOf(parts, 0), FilesOf(parts, 0), 0)
      BY <2>4, MeantFurther DEF Request!MultiPart, PartState
    <3>2. 0 \in 0 .. 0
      OBVIOUS
    <3> QED
      BY <3>1, <3>2, Zenon DEF BetweenParts
  <2>6. BetweenParts(Request!OneLine(Request!MultiPart, body[1]), "head", MeantOf(parts, 0), FilesOf(parts, 0), 0 + 1)
    BY <2>3, <2>5, LineBetween
  <2>7. 0 + 1 = 1
    OBVIOUS
  <2>8. Q(0)
    BY <2>1, <2>2, <2>6, <2>7, Zenon
  <2> QED
    BY <2>8
<1>8. ASSUME NEW k \in T PROVE k + 1 \in T
  <2> SUFFICES ASSUME k + 1 <= N PROVE Q(k + 1)
    <3> HIDE DEF Q
    <3> QED
      OBVIOUS
  <2>1. k \in Nat /\ k <= N /\ k + 1 \in 1 .. N /\ k + 1 \in 0 .. N /\ (k + 1) - 1 = k /\ k # N
        /\ PlaceAfter(k) = "head" /\ PlaceAfter(k + 1) = (IF k + 1 = N THEN "done" ELSE "head")
    BY <1>1
  <2>2. Q(k)
    <3> HIDE DEF Q
    <3> QED
      BY <2>1
  <2> DEFINE part == parts[k + 1]
             line == body[past[k + 1] + 1]
  <2>3. Request!IsPart(part) /\ part.data \in Seq(STRING)
    BY <1>1, <2>1
  <2>4. PartAt(body, part, past[k], past[k + 1])
    BY <1>2, <2>1
  <2>5. line = IF k + 1 = N THEN "last" ELSE "bound"
    BY <1>6, <2>1
  <2>6. BetweenParts(f[past[k] + 1], "head", MeantOf(parts, k), FilesOf(parts, k), past[k] + 1)
    BY <2>1, <2>2, Zenon
  <2> HIDE DEF part, line
  <2>7. line \in {"bound", "last"} /\ (line = "last" <=> k + 1 = N)
    BY <2>5
  <2>8. BetweenParts(f[past[k + 1] + 1], IF line = "last" THEN "done" ELSE "head",
                Append(MeantOf(parts, k), Meant(part)),
                IF part.kind = "field" THEN FilesOf(parts, k)
                ELSE [named |-> 1, leaked |-> FilesOf(parts, k).leaked + FilesOf(parts, k).named],
                past[k + 1] + 1)
    <3>1. body[past[k + 1] + 1] = line
      BY DEF line
    <3> QED
      BY <1>3, <1>4, <2>3, <2>4, <2>6, <2>7, <3>1, OnePartParsed, Zenon
  <2>9. MeantOf(parts, k + 1) = Append(MeantOf(parts, k), Meant(part))
    BY <2>1, MeantFurther DEF part
  <2>10. FilesOf(parts, k + 1) =
           IF part.kind = "field" THEN FilesOf(parts, k)
           ELSE [named |-> 1, leaked |-> FilesOf(parts, k).leaked + FilesOf(parts, k).named]
    <3>1. part.kind \in {"field", "file"}
      BY <2>3, Zenon DEF Request!IsPart
    <3>2. \A j \in 1 .. k : ~(parts[j].kind = "file" /\ part.kind = "file")
      <4>1. \A j \in 1 .. k : j \in DOMAIN parts /\ k + 1 \in DOMAIN parts /\ j # k + 1
        BY <1>1, <2>1
      <4> QED
        BY <4>1, Zenon DEF part
    <3> QED
      BY <2>1, <3>1, <3>2, FilesFurther DEF part
  <2>11. PlaceAfter(k + 1) = IF line = "last" THEN "done" ELSE "head"
    BY <2>1, <2>7
  <2> QED
    BY <2>8, <2>9, <2>10, <2>11, Zenon
<1> HIDE DEF T, Q
<1>9. T = Nat
  <2>1. T \subseteq Nat
    BY DEF T
  <2> QED
    BY <1>7, <1>8, <2>1, Induction
<1>10. Q(N)
  BY <1>1, <1>9 DEF T
<1> QED
  BY <1>2, <1>5, <1>10, Zenon DEF Q, N, body

-----------------------------------------------------------------------------
(* Headers.  What the first k lines say.                                   *)
SaidAt(r, k, name) == {j \in 1 .. k : r.headers[j][1] = name}
SaidBy(r, k, name) ==
  IF SaidAt(r, k, name) = {} THEN <<>> ELSE Tail(r.headers[Request!Greatest(SaidAt(r, k, name))])

LatestOf(values) == IF values = <<>> THEN <<>> ELSE Request!Last(values)
HeadersKnown(h, r, k) ==
  /\ DOMAIN h = Request!Header
  /\ \A name \in Request!Header : IsSeq(h[name]) /\ LatestOf(h[name]) = SaidBy(r, k, name)
  /\ Len(h["cookie"]) <= 1 /\ (SaidAt(r, k, "cookie") = {} => h["cookie"] = <<>>)
  /\ \A i \in DOMAIN h["cookie"] :
       /\ IsSeq(h["cookie"][i]) /\ Len(h["cookie"][i]) <= 1
       /\ Request!ToSet(h["cookie"][i]) \cap {"word", "bare"} = {}

LEMMA AllSaid ==
  ASSUME NEW r, Request!IsRequest(r), NEW name
  PROVE  Request!Said(r, name) = SaidBy(r, Len(r.headers), name)
<1>1. DOMAIN r.headers = 1 .. Len(r.headers)
  BY LinesTyped
<1> QED
  BY <1>1, Zenon DEF Request!Said, SaidBy, SaidAt

LEMMA NothingSaid ==
  ASSUME NEW r PROVE HeadersKnown([name \in Request!Header |-> <<>>], r, 0)
<1> DEFINE h == [name \in Request!Header |-> <<>>]
<1>1. \A name : SaidAt(r, 0, name) = {} /\ SaidBy(r, 0, name) = <<>>
  BY DEF SaidAt, SaidBy
<1>2. DOMAIN h = Request!Header /\ \A name \in Request!Header : h[name] = <<>>
  OBVIOUS
<1> HIDE DEF h
<1>3. h["cookie"] = <<>>
  BY <1>2 DEF Request!Header
<1>4. IsSeq(<<>>) /\ Len(<<>>) = 0 /\ DOMAIN <<>> = {}
  BY NoLength, SeqLen
<1>5. HeadersKnown(h, r, 0)
  BY <1>1, <1>2, <1>3, <1>4 DEF HeadersKnown, LatestOf
<1> QED
  BY <1>5 DEF h

LEMMA SaidFurther ==
  ASSUME NEW r, NEW k \in Nat, NEW name
  PROVE  /\ r.headers[k + 1][1] = name => SaidBy(r, k + 1, name) = Tail(r.headers[k + 1])
         /\ r.headers[k + 1][1] # name =>
              SaidBy(r, k + 1, name) = SaidBy(r, k, name)
         /\ SaidAt(r, k + 1, name) = {} => SaidAt(r, k, name) = {}
<1> DEFINE A == SaidAt(r, k, name)
           B == SaidAt(r, k + 1, name)
<1>1. CASE r.headers[k + 1][1] = name
  <2>1. k + 1 \in B /\ \A j \in B : j \in 1 .. k + 1
    BY <1>1 DEF SaidAt
  <2> HIDE DEF B
  <2>2. \A j \in B : j <= k + 1 /\ j \in Nat
    BY <2>1
  <2>3. Request!Greatest(B) = k + 1
    <3>1. Request!Greatest(B) \in B /\ \A j \in B : j <= Request!Greatest(B)
      BY <2>1, <2>2, Zenon DEF Request!Greatest
    <3>2. Request!Greatest(B) <= k + 1 /\ k + 1 <= Request!Greatest(B) /\ Request!Greatest(B) \in Nat
      BY <2>1, <2>2, <3>1
    <3> QED
      BY <3>2
  <2>4. B # {}
    BY <2>1
  <2> QED
    BY <1>1, <2>3, <2>4, Zenon DEF SaidBy, B
<1>2. CASE r.headers[k + 1][1] # name
  <2>1. B = A
    BY <1>2 DEF SaidAt
  <2> QED
    BY <1>2, <2>1, Zenon DEF SaidBy
<1> QED
  BY <1>1, <1>2

LEMMA HonestLine ==
  ASSUME NEW r, Request!IsRequest(r), Request!Honest(r), NEW k \in 1 .. Len(r.headers)
  PROVE  /\ r.headers[k] \in Seq(STRING) /\ r.headers[k] # <<>> /\ r.headers[k][1] \in Request!Header
         /\ r.headers[k] \in Seq(Byte) /\ ~Request!HasBreak(r.headers[k])
         /\ Tail(r.headers[k]) \in Seq(STRING)
         /\ r.headers[k][1] = "cookie" =>
              /\ Len(Tail(r.headers[k])) <= 1
              /\ Request!ToSet(Tail(r.headers[k])) \cap {"word", "bare"} = {}
              /\ \A j \in 1 .. Len(r.headers) : r.headers[j][1] = "cookie" => j = k
<1> DEFINE line == r.headers[k]
<1>1. DOMAIN r.headers = 1 .. Len(r.headers) /\ line \in Seq(Byte)
  BY LinesTyped
<1>2. /\ line # <<>> /\ line[1] \in Request!Header /\ ~Request!HasBreak(line)
      /\ line[1] = "cookie" =>
           /\ Len(line) <= 2 /\ Request!ToSet(line) \cap {"word", "bare"} = {}
           /\ \A j \in 1 .. Len(r.headers) : r.headers[j][1] = "cookie" => j = k
  BY <1>1, Zenon DEF Request!Honest
<1>3. line \in Seq(STRING)
  BY DEF Request!IsRequest
<1> HIDE DEF line
<1>4. /\ Tail(line) \in Seq(STRING) /\ Len(Tail(line)) = Len(line) - 1 /\ Len(line) \in Nat
      /\ \A i \in 1 .. Len(line) - 1 : Tail(line)[i] = line[i + 1]
  BY <1>2, <1>3
<1>5. Request!ToSet(Tail(line)) \subseteq Request!ToSet(line)
  <2> SUFFICES ASSUME NEW i \in DOMAIN Tail(line) PROVE Tail(line)[i] \in Request!ToSet(line)
    BY DEF Request!ToSet
  <2>1. i \in 1 .. Len(line) - 1 /\ i + 1 \in DOMAIN line
    BY <1>3, <1>4
  <2> QED
    BY <1>4, <2>1 DEF Request!ToSet
<1>6. line[1] = "cookie" => /\ Len(Tail(line)) <= 1
                            /\ Request!ToSet(Tail(line)) \cap {"word", "bare"} = {}
  <2>1. line[1] = "cookie" => Len(Tail(line)) <= 1
    BY <1>2, <1>4
  <2>2. line[1] = "cookie" => Request!ToSet(Tail(line)) \cap {"word", "bare"} = {}
    BY <1>2, <1>5
  <2> QED
    BY <2>1, <2>2
<1> QED
  BY <1>1, <1>2, <1>3, <1>4, <1>6, Zenon DEF line

LEMMA HeaderKnown ==
  ASSUME NEW r, Request!IsRequest(r), Request!Honest(r), NEW k \in Nat, k + 1 \in 1 .. Len(r.headers),
         NEW h, HeadersKnown(h, r, k)
  PROVE  HeadersKnown([h EXCEPT ![r.headers[k + 1][1]] = Append(@, Tail(r.headers[k + 1]))],
                      r, k + 1)
<1> DEFINE line == r.headers[k + 1]
           name == line[1]
           g == [h EXCEPT ![name] = Append(@, Tail(line))]
<1>1. /\ name \in Request!Header /\ IsSeq(Tail(line))
      /\ name = "cookie" =>
           /\ Len(Tail(line)) <= 1 /\ Request!ToSet(Tail(line)) \cap {"word", "bare"} = {}
           /\ \A j \in 1 .. Len(r.headers) : r.headers[j][1] = "cookie" => j = k + 1
  <2>1. Tail(line) \in Seq(STRING)
    BY HonestLine
  <2>2. IsSeq(Tail(line))
    BY <2>1 DEF IsSeq
  <2> QED
    BY <2>2, HonestLine, Zenon
<1>2. /\ DOMAIN h = Request!Header
      /\ \A n \in Request!Header : IsSeq(h[n]) /\ LatestOf(h[n]) = SaidBy(r, k, n)
      /\ Len(h["cookie"]) <= 1 /\ (SaidAt(r, k, "cookie") = {} => h["cookie"] = <<>>)
      /\ \A i \in DOMAIN h["cookie"] :
           /\ IsSeq(h["cookie"][i]) /\ Len(h["cookie"][i]) <= 1
           /\ Request!ToSet(h["cookie"][i]) \cap {"word", "bare"} = {}
  BY Zenon DEF HeadersKnown
<1>3. /\ DOMAIN g = Request!Header /\ g[name] = Append(h[name], Tail(line))
      /\ \A n \in Request!Header : n # name => g[n] = h[n]
  <2> HIDE DEF name, line
  <2> QED
    BY <1>1, <1>2
<1> HIDE DEF g
<1>4. /\ IsSeq(g[name]) /\ Len(g[name]) = Len(h[name]) + 1 /\ Len(h[name]) \in Nat
      /\ g[name][Len(h[name]) + 1] = Tail(line) /\ g[name] # <<>>
      /\ DOMAIN g[name] = 1 .. Len(g[name])
  <2>1. IsSeq(h[name])
    BY <1>1, <1>2
  <2>2. /\ IsSeq(g[name]) /\ Len(g[name]) = Len(h[name]) + 1 /\ Len(h[name]) \in Nat
        /\ g[name][Len(h[name]) + 1] = Tail(line)
    BY <1>3, <2>1, Appended, SeqLen, SMTT(30)
  <2>3. DOMAIN g[name] = 1 .. Len(g[name]) /\ (g[name] = <<>> <=> Len(g[name]) = 0)
    BY <2>2, SeqLen
  <2> QED
    BY <2>2, <2>3
<1>5. \A n \in Request!Header : IsSeq(g[n]) /\ LatestOf(g[n]) = SaidBy(r, k + 1, n)
  <2>1. SaidBy(r, k + 1, name) = Tail(line)
    BY SaidFurther
  <2>2. LatestOf(g[name]) = Tail(line)
    BY <1>4 DEF LatestOf, Request!Last
  <2>3. \A n \in Request!Header : n # name => SaidBy(r, k + 1, n) = SaidBy(r, k, n)
    BY SaidFurther, Zenon
  <2> QED
    BY <1>2, <1>3, <1>4, <2>1, <2>2, <2>3, Zenon
<1>6. CASE name = "cookie"
  <2>1. SaidAt(r, k, "cookie") = {}
    <3>1. \A j \in 1 .. k : j \in 1 .. Len(r.headers) /\ j # k + 1
      <4>1. Len(r.headers) \in Nat
        BY LinesTyped
      <4> QED
        BY <4>1
    <3> QED
      BY <1>1, <1>6, <3>1 DEF SaidAt
  <2>2. h["cookie"] = <<>>
    BY <1>2, <2>1
  <2>3. Len(g["cookie"]) = 1 /\ g["cookie"][1] = Tail(line)
    BY <1>4, <1>6, <2>2, NoLength
  <2>4. \A i \in DOMAIN g["cookie"] : i = 1
    BY <1>4, <1>6, <2>3
  <2>5. SaidAt(r, k + 1, "cookie") # {}
    <3>1. k + 1 \in SaidAt(r, k + 1, "cookie")
      BY <1>6 DEF SaidAt
    <3> QED
      BY <3>1
  <2>6. Len(g["cookie"]) <= 1
    BY <2>3
  <2> QED
    BY <1>1, <1>3, <1>5, <1>6, <2>3, <2>4, <2>5, <2>6, Zenon DEF HeadersKnown, g
<1>7. CASE name # "cookie"
  <2>1. g["cookie"] = h["cookie"]
    BY <1>3, <1>7 DEF Request!Header
  <2>2. SaidAt(r, k + 1, "cookie") = {} => SaidAt(r, k, "cookie") = {}
    BY SaidFurther, Zenon
  <2> QED
    BY <1>2, <1>3, <1>5, <2>1, <2>2, Zenon DEF HeadersKnown, g
<1> QED
  BY <1>6, <1>7

(* What a request is told, once its head and body are known.               *)
KnownAs(q, r) ==
  /\ IsParsed(q) /\ q.query = r.query /\ HeadersKnown(q.headers, r, Len(r.headers))
  /\ (q.multipart <=> Request!IsMulti(r)) /\ q.bodyData = r.body
  /\ q.parameters = MeantOf(r.parts, Len(r.parts))
  /\ q.files = FilesOf(r.parts, Len(r.parts))

LEMMA ValueKnown ==
  ASSUME NEW q, NEW r, Request!IsRequest(r), HeadersKnown(q.headers, r, Len(r.headers)),
         NEW name \in Request!Header
  PROVE  Request!value(q, name) = Request!Said(r, name)
  BY AllSaid, Zenon DEF HeadersKnown, Request!value, LatestOf

LEMMA RequestTold ==
  ASSUME NEW q, NEW r, Request!IsRequest(r), Request!Honest(r), KnownAs(q, r)
  PROVE  Request!Told(Request!extractCookies(Request!decodeRequestParams(q)))
           = Request!Expected(r)
<1> USE DEF KnownAs
<1> DEFINE N == Len(r.parts)
           ps == MeantOf(r.parts, N)
           form == q.bodyData # <<>> /\ ~q.multipart
                     /\ (Request!value(q, "type")
                          = <<>> \/ Request!value(q, "type")[1] = "form")
           words == r.query \o (IF Request!IsForm(r) THEN r.body ELSE <<>>)
           all == ps \o Request!ParametersOf(words)
           cs == {[name |-> "user", value |-> w] : w \in Request!ToSet(Request!Said(r, "cookie"))}
           d == [q EXCEPT !.parameters = all]
           e == [d EXCEPT !.cookies = cs, !.headers["cookie"] = <<>>]
<1>0. "type" \in Request!Header /\ "cookie" \in Request!Header /\ "other" \in Request!Header
  BY DEF Request!Header
<1>1. /\ Request!value(q, "type") = Request!Said(r, "type") /\ Request!value(q, "other") = Request!Said(r, "other")
      /\ Request!value(q, "cookie") = Request!Said(r, "cookie")
  BY <1>0, ValueKnown
<1>2. q.query \o (IF form THEN q.bodyData ELSE <<>>) = words
  <2>1. form <=> r.body # <<>> /\ Request!IsForm(r)
    BY <1>1, Zenon DEF Request!IsForm
  <2> HIDE DEF form
  <2>2. CASE r.body = <<>>
    BY <2>1, <2>2
  <2>3. CASE r.body # <<>>
    BY <2>1, <2>3
  <2> QED
    BY <2>2, <2>3
<1>3. IsSeq(ps) /\ IsSeq(words)
  <2>1. N \in Nat
    BY DEF Request!IsRequest
  <2>2. words \in Seq(Byte)
    <3>1. r.query \in Seq(Byte) /\ r.body \in Seq(Byte) /\ <<>> \in Seq(Byte)
      BY LinesTyped
    <3> QED
      BY <3>1
  <2> HIDE DEF words
  <2> QED
    BY <2>1, <2>2, MeantFurther DEF IsSeq
<1>4. Request!Fold(Request!WithParameter, q.parameters, words) = all
  <2> HIDE DEF words
  <2> QED
    BY <1>3, ParametersAdded
<1> HIDE DEF words, all, ps, form
<1>5. Request!decodeRequestParams(q) = d
  <2>1. Request!decodeRequestParams(q) =
          [q EXCEPT !.parameters = Request!Fold(Request!WithParameter, q.parameters,
                                        q.query \o (IF form THEN q.bodyData ELSE <<>>))]
    BY Zenon DEF Request!decodeRequestParams, form
  <2> QED
    BY <1>2, <1>4, <2>1, Zenon
<1>6. Request!Fold(Request!WithCookies, {}, Request!Reversed(q.headers["cookie"])) = cs
  <2> DEFINE lines == q.headers["cookie"]
  <2>1. /\ IsSeq(lines) /\ Len(lines) <= 1
        /\ \A i \in DOMAIN lines : /\ IsSeq(lines[i]) /\ Len(lines[i]) <= 1
                                   /\ Request!ToSet(lines[i]) \cap {"word", "bare"} = {}
    BY <1>0, Zenon DEF HeadersKnown
  <2>2. (IF lines = <<>> THEN <<>> ELSE Request!Last(lines)) = Request!Said(r, "cookie")
    BY <1>1 DEF Request!value
  <2> HIDE DEF lines
  <2> QED
    BY <2>1, <2>2, CookiesTold DEF lines
<1> HIDE DEF cs
<1>7. d.headers = q.headers /\ IsParsed(d) /\ d.query = q.query /\ d.parameters = all
      /\ d.multipart = q.multipart /\ d.bodyData = q.bodyData /\ d.files = q.files
  BY DEF IsParsed
<1> HIDE DEF d
<1>8. Request!extractCookies(d) = e
  BY <1>6, <1>7, Zenon DEF Request!extractCookies
<1>9. /\ e.query = q.query /\ e.parameters = all /\ e.cookies = cs
      /\ e.multipart = q.multipart /\ e.bodyData = q.bodyData /\ e.files = q.files
      /\ e.headers = [q.headers EXCEPT !["cookie"] = <<>>]
  BY <1>7 DEF IsParsed
<1> HIDE DEF e
<1>10. e.headers["type"] = q.headers["type"] /\ e.headers["other"] = q.headers["other"]
  BY <1>9
<1>11. Request!value(e, "type") = Request!Said(r, "type") /\ Request!value(e, "other") = Request!Said(r, "other")
  BY <1>1, <1>10 DEF Request!value
<1>12. DOMAIN r.parts = 1 .. N
  BY DEF Request!IsRequest
<1>13. [k \in DOMAIN r.parts |-> IF k \in Request!Files(r) THEN <<"filename">> ELSE r.parts[k].data] = ps
  <2>1. \A k \in DOMAIN r.parts :
          (IF k \in Request!Files(r) THEN <<"filename">> ELSE r.parts[k].data) = Meant(r.parts[k])
    BY DEF Request!Files, Meant
  <2> QED
    BY <1>12, <2>1 DEF ps, MeantOf
<1>14. [named |-> IF Request!Files(r) # {} THEN 1 ELSE 0, leaked |-> 0] = FilesOf(r.parts, N)
  <2>1. Request!Files(r) # {} <=> \E j \in 1 .. N : r.parts[j].kind = "file"
    BY <1>12 DEF Request!Files
  <2> QED
    BY <2>1, Zenon DEF FilesOf
<1>15. Request!Expected(r) =
         [query |-> r.query, parameters |-> all, cookies |-> cs, type |-> Request!Said(r, "type"),
          other |-> Request!Said(r, "other"), bodyData |-> IF Request!IsMulti(r) THEN <<>> ELSE r.body,
          files |-> FilesOf(r.parts, N)]
  BY <1>13, <1>14, Zenon DEF Request!Expected, all, words, cs
<1>16. Request!Told(e) =
         [query |-> r.query, parameters |-> all, cookies |-> cs, type |-> Request!Said(r, "type"),
          other |-> Request!Said(r, "other"), bodyData |-> IF Request!IsMulti(r) THEN <<>> ELSE r.body,
          files |-> FilesOf(r.parts, N)]
  <2>1. (IF e.multipart THEN <<>> ELSE e.bodyData) = IF Request!IsMulti(r) THEN <<>> ELSE r.body
    BY <1>9, Zenon
  <2> QED
    BY <1>9, <1>11, <2>1, Zenon DEF Request!Told
<1> QED
  BY <1>5, <1>8, <1>15, <1>16, Zenon

-----------------------------------------------------------------------------
(* What is left of sequences one after the other.                          *)
LEMMA SplitSame ==
  ASSUME NEW a \in Seq(Byte), NEW b \in Seq(Byte), NEW c \in Seq(Byte), NEW d \in Seq(Byte),
         a \o b = c \o d, Len(a) = Len(c)
  PROVE  a = c /\ b = d
<1>1. \A i \in 1 .. Len(a) : a[i] = (a \o b)[i] /\ c[i] = (c \o d)[i]
  BY Joint DEF IsSeq
<1>2. a = c
  <2>1. \A i \in 1 .. Len(a) : a[i] = c[i]
    BY <1>1
  <2> QED
    BY <2>1, SeqEqual
<1>3. b = d
  BY <1>2, ConcatSimplifications
<1> QED
  BY <1>2, <1>3

Leaves(ss, t) ==
  /\ t[0] = Request!Concat(ss) /\ t[Len(ss)] = <<>>
  /\ \A n \in 0 .. Len(ss) : t[n] \in Seq(Byte)
  /\ \A n \in 1 .. Len(ss) : t[n - 1] = ss[n] \o t[n]
After(ss, n) == (CHOOSE t : Leaves(ss, t))[n]

LEMMA SomethingLeft ==
  ASSUME NEW ss \in Seq(Seq(Byte)) PROVE \E t : Leaves(ss, t)
<1> DEFINE N == Len(ss)
           c == Request!Concat(ss)
<1>1. N \in Nat /\ c \in Seq(Byte) /\ Len(c) \in Nat
  <2>1. c \in Seq(Byte)
    BY ConcatTyped
  <2> HIDE DEF c
  <2> QED
    BY <2>1
<1>2. PICK f : JoinsIn(Byte, ss, f) /\ c = f[N]
  BY Joins
<1>3. /\ \A n \in 0 .. N : f[n] \in Seq(Byte) /\ Len(f[n]) \in Nat
      /\ f[0] = <<>>
  <2>1. \A n \in 0 .. N : f[n] \in Seq(Byte)
    BY <1>2 DEF JoinsIn
  <2>2. f[0] = <<>>
    BY <1>2 DEF JoinsIn, Joining
  <2> QED
    BY <2>1, <2>2
<1> HIDE DEF c
<1> DEFINE t == [n \in 0 .. N |-> SubSeq(c, Len(f[n]) + 1, Len(c))]
<1>4. \A n \in 0 .. N : t[n] = SubSeq(c, Len(f[n]) + 1, Len(c)) /\ Len(f[n]) <= Len(c)
  <2>1. \A n \in 0 .. N : StartsWith(f[N], f[n])
    <3>1. \A n \in 0 .. N : N \in n .. N
      BY <1>1
    <3> QED
      BY <1>2, <3>1, JoinsGrow, Zenon
  <2>2. \A n \in 0 .. N : Len(f[n]) <= Len(c)
    BY <1>2, <2>1 DEF StartsWith
  <2> QED
    BY <2>2
<1> HIDE DEF t, N
<1>5. \A n \in 0 .. N : t[n] \in Seq(Byte)
  <2> SUFFICES ASSUME NEW n \in 0 .. N PROVE t[n] \in Seq(Byte)
    OBVIOUS
  <2>1. Len(f[n]) \in 0 .. Len(c)
    <3>1. Len(f[n]) \in Nat /\ Len(f[n]) <= Len(c)
      BY <1>3, <1>4, Zenon
    <3> QED
      BY <1>1, <3>1
  <2> QED
    BY <1>1, <1>4, <2>1, WordsParts
<1>6. t[0] = c
  <2>1. Len(f[0]) = 0 /\ 0 \in 0 .. N
    BY <1>1, <1>3
  <2>2. t[0] = SubSeq(c, 1, Len(c))
    <3>1. Len(f[0]) + 1 = 1
      BY <2>1
    <3> QED
      BY <1>4, <2>1, <3>1, Zenon
  <2> QED
    BY <1>1, <2>2, SubSeqFull
<1>7. t[N] = <<>>
  <2>1. N \in 0 .. N /\ Len(f[N]) = Len(c) /\ Len(c) \in Nat
    BY <1>1, <1>2
  <2>2. t[N] = SubSeq(c, Len(c) + 1, Len(c))
    BY <1>4, <2>1
  <2> QED
    BY <2>1, <2>2, SubSeqEmpty
<1>8. ASSUME NEW n \in 1 .. N PROVE t[n - 1] = ss[n] \o t[n]
  <2>1. n - 1 \in 0 .. N /\ n \in 0 .. N
    BY <1>1
  <2>2. /\ ss[n] \in Seq(Byte) /\ f[n - 1] \in Seq(Byte) /\ f[n] \in Seq(Byte)
        /\ f[n] = f[n - 1] \o ss[n]
    <3>1. ss[n] \in Seq(Byte)
      BY DEF N
    <3> QED
      BY <1>2, <1>3, <2>1, <3>1 DEF JoinsIn, Joining, N
  <2>3. c = f[n] \o t[n] /\ c = f[n - 1] \o t[n - 1]
    <3>1. ASSUME NEW m \in 0 .. N PROVE c = f[m] \o t[m]
      <4>1. Len(f[m]) \in 0 .. Len(c)
        <5>1. Len(f[m]) \in Nat /\ Len(f[m]) <= Len(c)
          BY <1>3, <1>4, Zenon
        <5> QED
          BY <1>1, <5>1
      <4>2. c = SubSeq(c, 1, Len(f[m])) \o t[m]
        BY <1>1, <1>4, <4>1, WordsParts
      <4>3. SubSeq(c, 1, Len(f[m])) = f[m]
        <5>1. StartsWith(c, f[m])
          <6>1. N \in m .. N
            BY <1>1
          <6> QED
            BY <1>2, <6>1, JoinsGrow, Zenon DEF N
        <5>2. \A i \in 1 .. Len(f[m]) : SubSeq(c, 1, Len(f[m]))[i] = f[m][i]
          BY <1>1, <4>1, <5>1, WordsParts DEF StartsWith
        <5>3. SubSeq(c, 1, Len(f[m])) \in Seq(Byte) /\ Len(SubSeq(c, 1, Len(f[m]))) = Len(f[m])
          BY <1>1, <4>1, WordsParts
        <5> QED
          BY <1>3, <5>2, <5>3, SeqEqual
      <4> QED
        BY <4>2, <4>3
    <3> QED
      BY <2>1, <3>1
  <2>4. t[n] \in Seq(Byte) /\ t[n - 1] \in Seq(Byte)
    BY <1>5, <2>1
  <2> DEFINE a == f[n - 1]
             x == ss[n]
             y == t[n]
             z == t[n - 1]
  <2>5. /\ a \in Seq(Byte) /\ x \in Seq(Byte) /\ y \in Seq(Byte) /\ z \in Seq(Byte)
        /\ (a \o x) \o y = a \o z
    BY <2>2, <2>3, <2>4
  <2> HIDE DEF a, x, y, z
  <2>6. (a \o x) \o y = a \o (x \o y)
    BY <2>5, OfBytes, Zenon
  <2>7. x \o y \in Seq(Byte)
    BY <2>5, ConcatProperties
  <2>8. x \o y = z
    BY <2>5, <2>6, <2>7, ConcatSimplifications
  <2> QED
    BY <2>8 DEF x, y, z
<1> QED
  BY <1>5, <1>6, <1>7, <1>8 DEF Leaves, N, c

LEMMA AfterIs ==
  ASSUME NEW ss \in Seq(Seq(Byte))
  PROVE  /\ After(ss, 0) = Request!Concat(ss) /\ After(ss, Len(ss)) = <<>>
         /\ \A n \in 0 .. Len(ss) : After(ss, n) \in Seq(Byte)
         /\ \A n \in 1 .. Len(ss) : After(ss, n - 1) = ss[n] \o After(ss, n)
<1> DEFINE t == CHOOSE u : Leaves(ss, u)
<1>1. Leaves(ss, t)
  BY SomethingLeft, Zenon
<1>2. \A n : After(ss, n) = t[n]
  BY Zenon DEF After
<1> HIDE DEF t
<1> QED
  BY <1>1, <1>2 DEF Leaves

-----------------------------------------------------------------------------
(* Lines of a head.  What has no break is what is left of the line it ends *)
(* with a break.                                                           *)
LEMMA BrokenLine ==
  ASSUME NEW x \in Seq(Byte)
  PROVE  /\ x \o Request!Break \in Seq(Byte) /\ Len(x) \in Nat /\ Len(x \o Request!Break) = Len(x) + 2
         /\ \A i \in 1 .. Len(x) : (x \o Request!Break)[i] = x[i]
         /\ (x \o Request!Break)[Len(x) + 1] = Request!CR /\ (x \o Request!Break)[Len(x) + 2] = Request!LF
         /\ DOMAIN (x \o Request!Break) = 1 .. Len(x) + 2
<1> DEFINE b == Request!Break
           w == x \o b
<1>1. b \in Seq(Byte) /\ Len(b) = 2 /\ b[1] = Request!CR /\ b[2] = Request!LF
  BY BreakParts
<1> HIDE DEF b
<1>2. IsSeq(x) /\ IsSeq(b)
  BY <1>1 DEF IsSeq
<1>3. /\ w \in Seq(Byte) /\ Len(w) = Len(x) + Len(b)
      /\ \A i \in 1 .. Len(x) : w[i] = x[i]
  <2>1. w \in Seq(Byte)
    BY <1>1
  <2>2. Len(w) = Len(x) + Len(b) /\ \A i \in 1 .. Len(x) : w[i] = x[i]
    BY <1>2, Joint
  <2> QED
    BY <2>1, <2>2
<1>4. \A i \in 1 .. Len(b) : w[Len(x) + i] = b[i]
  BY <1>2, Joint
<1> HIDE DEF w
<1>5. w[Len(x) + 1] = Request!CR /\ w[Len(x) + 2] = Request!LF
  <2>1. 1 \in 1 .. Len(b) /\ 2 \in 1 .. Len(b)
    BY <1>1
  <2> QED
    BY <1>1, <1>4, <2>1
<1>6. Len(x) \in Nat /\ DOMAIN w = 1 .. Len(w)
  BY <1>3
<1> QED
  BY <1>1, <1>3, <1>5, <1>6 DEF b, w

LEMMA WholeLine ==
  ASSUME NEW x \in Seq(Byte), ~Request!HasBreak(x)
  PROVE  Request!HasBreak(x \o Request!Break) /\ Request!Trimmed(x \o Request!Break) = x
<1> DEFINE w == x \o Request!Break
           n == Len(x)
           counted == {i \in DOMAIN w : w[i] \notin {Request!CR, Request!LF}}
<1>1. /\ w \in Seq(Byte) /\ n \in Nat /\ Len(w) = n + 2 /\ DOMAIN w = 1 .. n + 2
      /\ \A i \in 1 .. n : w[i] = x[i]
      /\ w[n + 1] = Request!CR /\ w[n + 2] = Request!LF
  BY BrokenLine
<1>2. \A i \in 1 .. n : x[i] \notin {Request!CR, Request!LF}
  <2>1. DOMAIN x = 1 .. n
    OBVIOUS
  <2> QED
    BY <2>1, Zenon DEF Request!HasBreak
<1>3. Request!HasBreak(w)
  <2>1. n + 1 \in DOMAIN w /\ w[n + 1] \in {Request!CR, Request!LF}
    BY <1>1
  <2> QED
    BY <2>1, Zenon DEF Request!HasBreak
<1>4. counted = 1 .. n
  <2>1. \A i \in 1 .. n + 2 : i = n + 1 \/ i = n + 2 \/ i \in 1 .. n
    BY <1>1
  <2>2. \A i \in 1 .. n : i \in 1 .. n + 2
    BY <1>1
  <2> HIDE DEF w, n
  <2> QED
    BY <1>1, <1>2, <2>1, <2>2
<1>5. Request!Trimmed(w) = IF counted = {} THEN <<>> ELSE SubSeq(w, Request!Least(counted), Request!Greatest(counted))
  BY Zenon DEF Request!Trimmed
<1> HIDE DEF counted
<1>6. CASE n = 0
  <2>1. counted = {} /\ x = <<>>
    BY <1>4, <1>6
  <2> QED
    BY <1>3, <1>5, <2>1
<1>7. CASE n # 0
  <2>1. counted # {} /\ 1 \in counted /\ n \in counted /\ \A i \in counted : i \in Nat /\ 1 <= i /\ i <= n
    <3> HIDE DEF n
    <3> QED
      BY <1>1, <1>4, <1>7
  <2>2. Request!Least(counted) = 1
    <3>1. counted \in SUBSET Nat
      BY <2>1
    <3>2. Request!Least(counted) \in counted /\ Request!Least(counted) <= 1
      BY <2>1, <3>1, LeastOf
    <3> QED
      BY <2>1, <3>2
  <2>3. Request!Greatest(counted) = n
    <3>1. Request!Greatest(counted) \in counted /\ \A i \in counted : i <= Request!Greatest(counted)
      BY <2>1, Zenon DEF Request!Greatest
    <3> QED
      BY <1>1, <2>1, <3>1
  <2>4. SubSeq(w, 1, n) = x
    <3>1. n \in 0 .. Len(w)
      BY <1>1
    <3>2. /\ SubSeq(w, 1, n) \in Seq(Byte) /\ Len(SubSeq(w, 1, n)) = n
          /\ \A i \in 1 .. n : SubSeq(w, 1, n)[i] = w[i]
      BY <1>1, <3>1, WordsParts
    <3> HIDE DEF w
    <3> QED
      BY <1>1, <3>2, SeqEqual
  <2> QED
    BY <1>3, <1>5, <2>1, <2>2, <2>3, <2>4
<1> QED
  BY <1>6, <1>7

LineGone(b, s, more, x, rest, chunk) ==
  LET left == SubSeq(s, Len(chunk) + 1, Len(s))
      line == b \o chunk
  IN /\ chunk \in Seq(Byte) /\ chunk # <<>> /\ left \in Seq(Byte)
     /\ line \o (left \o more) = (x \o Request!Break) \o rest
     /\ \/ Request!Last(chunk) = Request!CR
        \/ line = x \o Request!Break /\ left \o more = rest
        \/ Len(line) <= Len(x) /\ ~Request!HasBreak(line)

LEMMA LineGoes ==
  ASSUME NEW b \in Seq(Byte), NEW s \in Seq(Byte), s # <<>>, NEW more \in Seq(Byte),
         NEW x \in Seq(Byte), ~Request!HasBreak(x), Len(b) <= Len(x), NEW rest \in Seq(Byte),
         b \o (s \o more) = (x \o Request!Break) \o rest, NEW n \in Nat \ {0}
  PROVE  LineGone(b, s, more, x, rest, Request!readLine(s, n))
<1> DEFINE chunk == Request!readLine(s, n)
           left == SubSeq(s, Len(chunk) + 1, Len(s))
           line == b \o chunk
           xb == x \o Request!Break
           all == xb \o rest
           lb == Len(b)
           lx == Len(x)
<1>1. PICK e \in 1 .. Len(s) : /\ chunk = SubSeq(s, 1, e)
                               /\ \A i \in 1 .. e - 1 : s[i] # Request!LF
  BY LineRead, Zenon
<1>2. Len(s) \in Nat /\ e \in 0 .. Len(s) /\ lb \in Nat /\ lx \in Nat /\ e \in Nat \ {0}
  OBVIOUS
<1> HIDE DEF chunk
<1>3. /\ chunk \in Seq(Byte) /\ Len(chunk) = e /\ left \in Seq(Byte) /\ chunk \o left = s
      /\ \A i \in 1 .. e : chunk[i] = s[i]
  BY <1>1, <1>2, WordsParts
<1> HIDE DEF left
<1>4. chunk # <<>>
  BY <1>2, <1>3
<1>5. /\ line \in Seq(Byte) /\ Len(line) = lb + e
  <2>1. line \in Seq(Byte)
    BY <1>3
  <2>2. Len(line) = lb + Len(chunk)
    BY <1>3, Joint DEF IsSeq
  <2> QED
    BY <1>3, <2>1, <2>2
<1>5a. \A j \in 1 .. e : line[lb + j] = chunk[j]
  BY <1>3, Joint DEF IsSeq
<1>6. left \o more \in Seq(Byte)
  BY <1>3
<1>7. line \o (left \o more) = all
  <2>1. s \o more = chunk \o (left \o more)
    BY <1>3, OfBytes, ZenonT(30)
  <2>2. line \o (left \o more) = b \o (chunk \o (left \o more))
    <3> DEFINE u == left \o more
    <3>1. u \in Seq(Byte)
      BY <1>6
    <3> HIDE DEF u
    <3>2. (b \o chunk) \o u = b \o (chunk \o u)
      <4>1. chunk \in Seq(Byte)
        BY <1>3
      <4> QED
        BY <3>1, <4>1, OfBytes, Zenon
    <3> QED
      BY <3>2 DEF u
  <2> QED
    BY <2>1, <2>2
<1>8. /\ xb \in Seq(Byte) /\ Len(xb) = lx + 2 /\ xb[lx + 1] = Request!CR /\ xb[lx + 2] = Request!LF
      /\ \A i \in 1 .. lx : xb[i] = x[i]
  BY BrokenLine
<1> HIDE DEF line, xb
<1>9. \A i \in 1 .. lx : x[i] \notin {Request!CR, Request!LF}
  <2>1. DOMAIN x = 1 .. lx
    OBVIOUS
  <2> QED
    BY <2>1, Zenon DEF Request!HasBreak
<1>10. IsJoint(all, xb, rest) /\ IsJoint(all, line, left \o more)
  BY <1>5, <1>6, <1>7, <1>8, JointIn
<1> HIDE DEF all, lb, lx
<1>11. \A i \in 1 .. lb + e : i \in 1 .. lx + 2 => line[i] = xb[i]
  <2>1. /\ \A i \in 1 .. lx + 2 : all[i] = xb[i]
        /\ \A i \in 1 .. lb + e : all[i] = line[i]
    BY <1>5, <1>8, <1>10 DEF IsJoint
  <2> QED
    BY <2>1
<1>12. lb <= lx
  BY DEF lb, lx
<1>13. CASE lb + e > lx + 1
  <2>1. lb + e = lx + 2
    <3> SUFFICES ASSUME lb + e > lx + 2 PROVE FALSE
      BY <1>2, <1>13
    <3> DEFINE j == lx + 2 - lb
    <3>1. j \in 1 .. e - 1 /\ j \in 1 .. e /\ lb + j = lx + 2 /\ lb + j \in 1 .. lb + e
          /\ lb + j \in 1 .. lx + 2
      BY <1>2, <1>12
    <3> HIDE DEF j
    <3>2. line[lb + j] = Request!LF
      BY <1>8, <1>11, <3>1
    <3>3. s[j] = Request!LF
      BY <1>3, <1>5a, <3>1, <3>2
    <3> QED
      BY <1>1, <3>1, <3>3
  <2>2. Len(line) = Len(xb)
    BY <1>5, <1>8, <2>1
  <2>3. line = xb /\ left \o more = rest
    BY <1>5, <1>6, <1>7, <1>8, <2>2, SplitSame DEF all
  <2> QED
    BY <1>3, <1>4, <1>7, <2>3, Zenon DEF LineGone, chunk, left, line, xb, all
<1>14. CASE lb + e = lx + 1
  <2>1. line[lx + 1] = Request!CR
    <3>1. lx + 1 \in 1 .. lb + e /\ lx + 1 \in 1 .. lx + 2
      BY <1>2, <1>14
    <3> QED
      BY <1>8, <1>11, <3>1
  <2>2. e \in 1 .. e /\ lb + e = lx + 1
    BY <1>2, <1>14
  <2>3. Request!Last(chunk) = Request!CR
    BY <1>3, <1>5a, <2>1, <2>2 DEF Request!Last
  <2> QED
    BY <1>3, <1>4, <1>7, <2>3, Zenon DEF LineGone, chunk, left, line, xb, all
<1>15. CASE lb + e <= lx
  <2>1. \A i \in 1 .. lb + e : i \in 1 .. lx /\ i \in 1 .. lx + 2
    BY <1>2, <1>15
  <2>2. \A i \in 1 .. lb + e : line[i] \notin {Request!CR, Request!LF}
    BY <1>8, <1>9, <1>11, <2>1
  <2>3. DOMAIN line = 1 .. lb + e
    BY <1>5
  <2>4. ~Request!HasBreak(line) /\ Len(line) <= lx
    BY <1>5, <1>15, <2>2, <2>3 DEF Request!HasBreak
  <2> QED
    BY <1>3, <1>4, <1>7, <2>4, Zenon DEF LineGone, chunk, left, line, xb, all, lx
<1>16. lb + e > lx + 1 \/ lb + e = lx + 1 \/ lb + e <= lx
  BY <1>2
<1> QED
  BY <1>13, <1>14, <1>15, <1>16, Zenon

-----------------------------------------------------------------------------
(* How far a request is, of what still flows in; rest is what follows it.  *)
HeadLeft(r, k) == After(LinesOf(r), k) \o AfterHead(r)
NextLine(r, k) == IF k < Len(r.headers) THEN r.headers[k + 1] ELSE <<>>
Blank(p) == p.parameters = <<>> /\ p.files = [named |-> 0, leaked |-> 0]
            /\ ~p.multipart /\ p.bodyData = <<>>

AtFirstLine(p, r, flow, rest) ==
  /\ p.status = "waitForRequest" /\ Blank(p) /\ p.headers = [name \in Request!Header |-> <<>>]
  /\ p.lineBuffer \o flow = (FirstOf(r) \o Request!Break) \o (HeadLeft(r, 0) \o rest)
  /\ Len(p.lineBuffer) <= Len(FirstOf(r))
AtHeader(p, r, flow, rest, k) ==
  /\ p.status = "waitForHeader" /\ Blank(p) /\ p.query = r.query
  /\ HeadersKnown(p.headers, r, k)
  /\ p.lineBuffer \o flow = HeadLeft(r, k) \o rest
  /\ Len(p.lineBuffer) <= Len(NextLine(r, k))
AtBody(p, r, flow, rest) ==
  /\ p.status = "waitForBody" /\ p.query = r.query
  /\ p.parameters = <<>> /\ p.files = [named |-> 0, leaked |-> 0]
  /\ HeadersKnown(p.headers, r, Len(r.headers)) /\ (p.multipart <=> Request!IsMulti(r))
  /\ p.expectedBodySize = Len(r.body) /\ Len(p.bodyData) < Len(r.body)
  /\ p.bodyData \o flow = r.body \o rest
Under(p, r, flow, rest) ==
  \/ AtFirstLine(p, r, flow, rest)
  \/ \E k \in 0 .. Len(r.headers) : AtHeader(p, r, flow, rest, k)
  \/ AtBody(p, r, flow, rest)
  \/ p.status = "abort"

(* Its size, if no line of its head was cut.                               *)
HeadSize(r) == Request!Size(r) - Len(r.body)
Counts(p, r, n) ==
  /\ InHeadOf(p) => p.currentSize = n
  /\ p.status = "waitForBody" => p.currentSize = IF p.multipart THEN HeadSize(r) ELSE n

(* Before it is finished, and after.                                       *)
Unfinished(q, r, flow, rest, n, whole) ==
  /\ IsParsed(q)
  /\ \/ Under(q, r, flow, rest)
     \/ q.status = "complete" /\ KnownAs(q, r) /\ flow = rest
  /\ whole /\ Request!Fits(r) => Counts(q, r, n) /\ q.status # "abort" /\ ~Request!TooMany(q)
Underway(p, r, flow, rest, n, whole) ==
  /\ IsParsed(p)
  /\ \/ Under(p, r, flow, rest)
     \/ p.status = "complete" /\ Request!Told(p) = Request!Expected(r) /\ flow = rest
  /\ whole /\ Request!Fits(r) => Counts(p, r, n) /\ p.status # "abort"

LEMMA FinishedGoes ==
  ASSUME NEW q, NEW r, Request!IsRequest(r), Request!Honest(r), NEW flow, NEW rest, NEW n, NEW whole \in BOOLEAN,
         Unfinished(q, r, flow, rest, n, whole)
  PROVE  Underway(Request!Finished(q), r, flow, rest, n, whole)
<1> DEFINE p == Request!Finished(q)
<1>0. /\ IsParsed(q)
      /\ \/ Under(q, r, flow, rest)
         \/ q.status = "complete" /\ KnownAs(q, r) /\ flow = rest
      /\ whole /\ Request!Fits(r) => Counts(q, r, n) /\ q.status # "abort" /\ ~Request!TooMany(q)
  BY Zenon DEF Unfinished
<1>1. CASE Request!TooMany(q)
  <2>1. p = [q EXCEPT !.status = "abort"]
    BY <1>1 DEF Request!Finished
  <2>2. p.status = "abort" /\ IsParsed(p)
    BY <1>0, <2>1 DEF IsParsed
  <2>3. ~(whole /\ Request!Fits(r))
    BY <1>0, <1>1, Zenon
  <2> HIDE DEF p
  <2>4. Under(p, r, flow, rest)
    BY <2>2, Zenon DEF Under
  <2>5. Underway(p, r, flow, rest, n, whole)
    BY <2>2, <2>3, <2>4 DEF Underway
  <2> QED
    BY <2>5 DEF p
<1>2. CASE ~Request!TooMany(q) /\ q.status = "complete"
  <2>1. KnownAs(q, r) /\ flow = rest
    BY <1>0, <1>2 DEF Under, AtFirstLine, AtHeader, AtBody
  <2>2. p = Request!extractCookies(Request!decodeRequestParams(q))
    BY <1>2 DEF Request!Finished
  <2>3. Request!Told(p) = Request!Expected(r)
    BY <2>1, <2>2, RequestTold
  <2> DEFINE d == Request!decodeRequestParams(q)
  <2>4. IsParsed(d) /\ d.status = "complete"
    BY <1>0, <1>2 DEF Request!decodeRequestParams, IsParsed
  <2> HIDE DEF d
  <2>5. Request!extractCookies(d).status = "complete" /\ IsParsed(Request!extractCookies(d))
    BY <2>4 DEF Request!extractCookies, IsParsed
  <2>6. p.status = "complete" /\ IsParsed(p)
    BY <2>2, <2>5, Zenon DEF d
  <2>7. Counts(p, r, n)
    BY <2>6 DEF Counts, InHeadOf
  <2>8. p.status # "abort"
    BY <2>6
  <2> HIDE DEF p
  <2>9. Underway(p, r, flow, rest, n, whole)
    BY <2>1, <2>3, <2>6, <2>7, <2>8, Zenon DEF Underway
  <2> QED
    BY <2>9 DEF p
<1>3. CASE ~Request!TooMany(q) /\ q.status # "complete"
  <2>1. p = q
    BY <1>3 DEF Request!Finished
  <2> QED
    BY <1>0, <1>3, <2>1 DEF Underway
<1> QED
  BY <1>1, <1>2, <1>3

(* Sizes: what has been taken when so much is left.                        *)
LEMMA SizesFit ==
  ASSUME NEW r, Request!IsRequest(r)
  PROVE  /\ Request!Size(r) \in Nat /\ Len(r.body) \in Nat /\ HeadSize(r) \in Nat
         /\ Request!Fits(r) => /\ HeadSize(r) <= maxSize
                               /\ Request!IsMulti(r) => /\ Len(r.body) < maxMultiPartSize
                                                        /\ Request!Size(r) <= maxMultiPartSize
                               /\ ~Request!IsMulti(r) => Request!Size(r) <= maxSize
<1>1. Len(r.body) \in Nat
  BY DEF Request!IsRequest
<1>2. Request!Size(r) \in Nat /\ Request!Size(r) >= Len(r.body)
  <2> DEFINE a == FirstOf(r) \o Request!Break
             b == Request!Concat(LinesOf(r))
  <2>1. /\ Request!Encode(r) = a \o (b \o AfterHead(r)) /\ b \in Seq(Byte) /\ AfterHead(r) \in Seq(Byte)
        /\ Request!Encode(r) \in Seq(Byte)
    BY EncodedAs
  <2>2. a \in Seq(Byte) /\ r.body \in Seq(Byte) /\ Request!Break \in Seq(Byte) /\ Len(Request!Break) = 2
    BY LinesTyped, BreakParts
  <2> HIDE DEF a, b
  <2> DEFINE c == AfterHead(r)
             d == b \o c
  <2>3. Len(c) = 2 + Len(r.body)
    <3>1. Len(Request!Break \o r.body) = Len(Request!Break) + Len(r.body)
      BY <2>2, ConcatProperties
    <3> QED
      BY <2>2, <3>1 DEF AfterHead
  <2>4. d \in Seq(Byte) /\ Len(d) = Len(b) + Len(c)
    BY <2>1, ConcatProperties
  <2> HIDE DEF d
  <2>5. Len(Request!Encode(r)) = Len(a) + (Len(b) + (2 + Len(r.body)))
    <3>1. Len(Request!Encode(r)) = Len(a) + Len(d)
      <4>1. Len(a \o d) = Len(a) + Len(d)
        BY <2>2, <2>4, ConcatProperties
      <4> QED
        BY <2>1, <4>1 DEF d
    <3> QED
      BY <2>3, <2>4, <3>1
  <2>6. Len(a) \in Nat /\ Len(b) \in Nat
    BY <2>1, <2>2
  <2> QED
    BY <1>1, <2>5, <2>6 DEF Request!Size
<1>3. maxSize \in Nat /\ maxMultiPartSize \in Nat
  BY MaxSizes
<1>4. ASSUME Request!Fits(r), Request!IsMulti(r)
      PROVE  /\ HeadSize(r) <= maxSize /\ Len(r.body) < maxMultiPartSize
             /\ HeadSize(r) + Len(r.body) <= maxMultiPartSize
  BY <1>4, Zenon DEF Request!Fits, HeadSize
<1>5. ASSUME Request!Fits(r), ~Request!IsMulti(r) PROVE Request!Size(r) <= maxSize
  BY <1>5, Zenon DEF Request!Fits
<1>6. HeadSize(r) = Request!Size(r) - Len(r.body)
  BY DEF HeadSize
<1> HIDE DEF Request!Size, HeadSize
<1>7. HeadSize(r) \in Nat /\ HeadSize(r) <= Request!Size(r)
      /\ HeadSize(r) + Len(r.body) = Request!Size(r)
  BY <1>1, <1>2, <1>6
<1>8. Request!Fits(r) /\ ~Request!IsMulti(r) => HeadSize(r) <= maxSize
  BY <1>2, <1>3, <1>5, <1>7
<1> QED
  BY <1>1, <1>2, <1>4, <1>5, <1>7, <1>8, Zenon

LEMMA BufferedIs ==
  ASSUME NEW p, IsParsed(p), NEW chunk \in Seq(Byte)
  PROVE  LET q == Request!Buffered(p, chunk)
         IN /\ IsParsed(q) /\ q.lineBuffer = p.lineBuffer \o chunk
            /\ q.currentSize = p.currentSize + Len(p.lineBuffer \o chunk)
            /\ q.status = p.status /\ q.query = p.query /\ q.headers = p.headers
            /\ q.multipart = p.multipart /\ q.bodyData = p.bodyData
            /\ q.parameters = p.parameters /\ q.files = p.files
<1> DEFINE line == p.lineBuffer \o chunk
           q == [p EXCEPT !.lineBuffer = line, !.currentSize = @ + Len(line)]
<1>1. line \in Seq(Byte)
  BY DEF IsParsed
<1> HIDE DEF line
<1>2. Request!Buffered(p, chunk) = q
  BY DEF Request!Buffered, line
<1>3. /\ q.lineBuffer = line /\ q.currentSize = p.currentSize + Len(line)
      /\ q.status = p.status /\ q.query = p.query /\ q.headers = p.headers
      /\ q.multipart = p.multipart /\ q.bodyData = p.bodyData
      /\ q.parameters = p.parameters /\ q.files = p.files
      /\ q.expectedBodySize = p.expectedBodySize /\ DOMAIN q = DOMAIN p
  BY DEF IsParsed
<1> HIDE DEF q
<1>4. IsParsed(q)
  BY <1>1, <1>3 DEF IsParsed
<1> QED
  BY <1>2, <1>3, <1>4 DEF line

(* The first line of a request that keeps to the protocol.                 *)
LEMMA HonestFirst ==
  ASSUME NEW r, Request!IsRequest(r), Request!Honest(r)
  PROVE  LET x == FirstOf(r)
         IN /\ x \in Seq(Byte) /\ ~Request!HasBreak(x) /\ Len(x) = Len(r.query) + 2
            /\ Len(r.query) \in Nat
            /\ x[1] = "get" /\ Request!Last(x) = "http" /\ x # <<>>
            /\ SubSeq(x, 2, Len(x) - 1) = r.query
<1> DEFINE x == FirstOf(r)
           a == SubSeq(r.line, 1, 1)
           c == Tail(r.line)
           n == Len(r.query)
           m == a \o r.query
<1>1. r.line \in Seq(Byte) /\ Len(r.line) = 2 /\ r.line[1] = "get" /\ r.line[2] = "http"
  <2>1. r.line = <<"get", "http">>
    BY Zenon DEF Request!Honest, Request!FirstLine
  <2>2. r.line \in Seq(Byte)
    BY LinesTyped
  <2> QED
    BY <2>1, <2>2
<1>2. r.query \in Seq(Byte) /\ ~Request!HasBreak(r.query) /\ n \in Nat
  <2>1. r.query \in Seq(Byte)
    BY LinesTyped
  <2>2. ~Request!HasBreak(r.query)
    BY Zenon DEF Request!Honest
  <2> QED
    BY <2>1, <2>2
<1>3. a \in Seq(Byte) /\ Len(a) = 1 /\ a[1] = "get"
  <2>1. 1 \in 0 .. Len(r.line)
    BY <1>1
  <2> QED
    BY <1>1, <2>1, WordsParts
<1>4. c \in Seq(Byte) /\ Len(c) = 1 /\ c[1] = "http"
  <2> DEFINE l == r.line
  <2>1. l \in Seq(Byte) /\ Len(l) = 2 /\ l[2] = "http" /\ l # <<>>
    BY <1>1
  <2> HIDE DEF l
  <2>2. Tail(l) \in Seq(Byte) /\ Len(Tail(l)) = 1 /\ Tail(l)[1] = l[1 + 1]
    BY <2>1, HeadTailProperties
  <2> QED
    BY <2>1, <2>2 DEF l
<1>5. x = m \o c
  BY Zenon DEF FirstOf
<1> HIDE DEF x, a, c, n
<1>6. IsJoint(m, a, r.query) /\ m \in Seq(Byte)
  BY <1>2, <1>3, JointIn
<1> HIDE DEF m
<1>7. IsJoint(x, m, c) /\ x \in Seq(Byte)
  BY <1>4, <1>5, <1>6, JointIn
<1>8. /\ Len(x) = n + 2 /\ x[1] = "get" /\ x[n + 2] = "http"
      /\ \A i \in 1 .. n : x[i + 1] = r.query[i]
  <2>1. Len(m) = 1 + n /\ m[1] = "get" /\ \A i \in 1 .. n : m[1 + i] = r.query[i]
    BY <1>2, <1>3, <1>6 DEF IsJoint, n
  <2>2. Len(x) = n + 2 /\ x[(1 + n) + 1] = "http" /\ \A i \in 1 .. 1 + n : x[i] = m[i]
    BY <1>2, <1>4, <1>7, <2>1 DEF IsJoint
  <2>3. x[1] = "get"
    BY <1>2, <2>1, <2>2
  <2>4. (1 + n) + 1 = n + 2
    BY <1>2
  <2>5. \A i \in 1 .. n : i + 1 \in 1 .. 1 + n /\ i + 1 = 1 + i
    BY <1>2
  <2> QED
    BY <2>1, <2>2, <2>3, <2>4, <2>5
<1>9. ~Request!HasBreak(x)
  <2>1. \A i \in 1 .. n : r.query[i] \notin {Request!CR, Request!LF}
    <3>1. DOMAIN r.query = 1 .. n
      BY <1>2 DEF n
    <3> QED
      BY <1>2, <3>1, Zenon DEF Request!HasBreak
  <2>2. \A i \in 1 .. n + 2 : i = 1 \/ i = n + 2 \/ (i - 1 \in 1 .. n /\ (i - 1) + 1 = i)
    BY <1>2
  <2>3. \A i \in 1 .. n + 2 : x[i] \notin {Request!CR, Request!LF}
    <3> SUFFICES ASSUME NEW i \in 1 .. n + 2 PROVE x[i] \notin {Request!CR, Request!LF}
      OBVIOUS
    <3>1. CASE i = 1
      BY <1>8, <3>1 DEF Request!CR, Request!LF
    <3>2. CASE i = n + 2
      BY <1>8, <3>2 DEF Request!CR, Request!LF
    <3>3. CASE i - 1 \in 1 .. n /\ (i - 1) + 1 = i
      <4>1. x[(i - 1) + 1] = r.query[i - 1]
        BY <1>8, <3>3
      <4> QED
        BY <2>1, <3>3, <4>1
    <3> QED
      BY <2>2, <3>1, <3>2, <3>3
  <2>4. DOMAIN x = 1 .. n + 2
    BY <1>7, <1>8
  <2> QED
    BY <2>3, <2>4, Zenon DEF Request!HasBreak
<1>10. SubSeq(x, 2, Len(x) - 1) = r.query
  <2>1. Len(x) - 1 = n + 1 /\ (n + 1) - 2 + 1 = n
    BY <1>2, <1>8
  <2>2. /\ SubSeq(x, 2, n + 1) \in Seq(Byte) /\ Len(SubSeq(x, 2, n + 1)) = n
        /\ \A i \in 1 .. n : SubSeq(x, 2, n + 1)[i] = x[i + 1]
    <3>1. \A i \in 2 .. n + 1 : x[i] \in Byte
      <4>1. \A i \in 2 .. n + 1 : i \in 1 .. Len(x)
        BY <1>2, <1>8
      <4> QED
        BY <1>7, <4>1, ElementOfSeq
    <3>2. n + 1 \in Int /\ 2 \in Int /\ (n + 1) - 2 + 1 = n
      BY <1>2
    <3>3. /\ SubSeq(x, 2, n + 1) \in Seq(Byte)
          /\ Len(SubSeq(x, 2, n + 1)) = IF 2 <= n + 1 THEN (n + 1) - 2 + 1 ELSE 0
          /\ \A i \in 1 .. (n + 1) - 2 + 1 : SubSeq(x, 2, n + 1)[i] = x[2 + i - 1]
      BY <3>1, <3>2, SubSeqProperties
    <3>4. (IF 2 <= n + 1 THEN (n + 1) - 2 + 1 ELSE 0) = n
      BY <1>2
    <3>5. \A i \in 1 .. n : 2 + i - 1 = i + 1
      BY <1>2
    <3> QED
      BY <3>2, <3>3, <3>4, <3>5
  <2>3. Len(r.query) = n
    BY DEF n
  <2>4. SubSeq(x, 2, n + 1) = r.query
    BY <1>2, <1>8, <2>2, <2>3, SeqEqual
  <2> QED
    BY <2>1, <2>4
<1> QED
  <2>1. Request!Last(x) = "http" /\ x # <<>>
    BY <1>2, <1>8 DEF Request!Last
  <2> QED
    BY <1>2, <1>7, <1>8, <1>9, <1>10, <2>1 DEF x, n

LEMMA LeftTyped ==
  ASSUME NEW r, Request!IsRequest(r)
  PROVE  /\ \A k \in 0 .. Len(r.headers) : HeadLeft(r, k) \in Seq(Byte)
         /\ \A k \in 0 .. Len(r.headers) :
              k < Len(r.headers) =>
                HeadLeft(r, k) = (r.headers[k + 1] \o Request!Break) \o HeadLeft(r, k + 1)
         /\ HeadLeft(r, Len(r.headers)) = Request!Break \o r.body
         /\ HeadLeft(r, 0) = Request!Concat(LinesOf(r)) \o AfterHead(r)
<1> DEFINE ss == LinesOf(r)
           N == Len(r.headers)
<1>1. /\ ss \in Seq(Seq(Byte)) /\ Len(ss) = N /\ N \in Nat
      /\ \A k \in 1 .. N : ss[k] = r.headers[k] \o Request!Break /\ r.headers[k] \in Seq(Byte)
      /\ Request!Break \in Seq(Byte) /\ r.body \in Seq(Byte)
  BY LinesTyped DEF LineOf
<1>2. AfterHead(r) \in Seq(Byte) /\ AfterHead(r) = Request!Break \o r.body
  BY <1>1, EncodedAs DEF AfterHead
<1> HIDE DEF ss, N
<1>3. /\ After(ss, 0) = Request!Concat(ss) /\ After(ss, N) = <<>>
      /\ \A n \in 0 .. N : After(ss, n) \in Seq(Byte)
      /\ \A n \in 1 .. N : After(ss, n - 1) = ss[n] \o After(ss, n)
  BY <1>1, AfterIs
<1> DEFINE end == AfterHead(r)
<1>4. \A k : HeadLeft(r, k) = After(ss, k) \o end
  BY Zenon DEF HeadLeft, ss
<1>4a. end \in Seq(Byte)
  BY <1>2
<1> HIDE DEF end
<1>5. \A k \in 0 .. N : HeadLeft(r, k) \in Seq(Byte)
  <2> SUFFICES ASSUME NEW k \in 0 .. N PROVE HeadLeft(r, k) \in Seq(Byte)
    OBVIOUS
  <2>1. After(ss, k) \in Seq(Byte)
    BY <1>3, Zenon
  <2>2. After(ss, k) \o end \in Seq(Byte)
    BY <1>4a, <2>1, ConcatProperties
  <2> QED
    BY <1>4, <2>2, Zenon
<1>6. ASSUME NEW k \in 0 .. N, k < N
      PROVE  HeadLeft(r, k) = (r.headers[k + 1] \o Request!Break) \o HeadLeft(r, k + 1)
  <2>1. k + 1 \in 1 .. N /\ k + 1 \in 0 .. N /\ (k + 1) - 1 = k
    BY <1>1, <1>6
  <2> DEFINE a == r.headers[k + 1] \o Request!Break
             b == After(ss, k + 1)
  <2>2. a \in Seq(Byte) /\ After(ss, k) = a \o b /\ b \in Seq(Byte)
    <3>1. a \in Seq(Byte)
      <4>1. r.headers[k + 1] \in Seq(Byte)
        BY <1>1, <2>1, Zenon
      <4> QED
        BY <1>1, <4>1, ConcatProperties
    <3>2. ss[k + 1] = a /\ After(ss, k) = ss[k + 1] \o b /\ b \in Seq(Byte)
      BY <1>1, <1>3, <2>1, Zenon
    <3> QED
      BY <3>1, <3>2
  <2> HIDE DEF a, b
  <2>3. (a \o b) \o end = a \o (b \o end)
    BY <1>4a, <2>2, OfBytes, Zenon
  <2> QED
    BY <1>4, <2>2, <2>3, Zenon DEF a, b
<1>7. HeadLeft(r, N) = Request!Break \o r.body
  <2>1. <<>> \o end = end
    BY <1>4a, ConcatEmptySeq
  <2> QED
    BY <1>2, <1>3, <1>4, <2>1 DEF end
<1>8. HeadLeft(r, 0) = Request!Concat(ss) \o end
  BY <1>3, <1>4
<1> QED
  BY <1>5, <1>6, <1>7, <1>8 DEF N, ss, end

LEMMA NextLineIs ==
  ASSUME NEW r, Request!IsRequest(r), Request!Honest(r), NEW k \in 0 .. Len(r.headers),
         NEW rest \in Seq(Byte)
  PROVE  LET x == NextLine(r, k)
         IN /\ x \in Seq(Byte) /\ ~Request!HasBreak(x)
            /\ k < Len(r.headers) =>
                 HeadLeft(r, k) \o rest = (x \o Request!Break) \o (HeadLeft(r, k + 1) \o rest)
            /\ k = Len(r.headers) =>
                 HeadLeft(r, k) \o rest = (x \o Request!Break) \o (r.body \o rest) /\ x = <<>>
<1> DEFINE N == Len(r.headers)
           x == NextLine(r, k)
<1>1. N \in Nat /\ Request!Break \in Seq(Byte) /\ r.body \in Seq(Byte)
  BY LinesTyped
<1>2. CASE k < N
  <2>1. k + 1 \in 1 .. N /\ k + 1 \in 0 .. N /\ k # N
    BY <1>1, <1>2
  <2>2. x = r.headers[k + 1]
    BY <1>2 DEF NextLine
  <2>3. x \in Seq(Byte) /\ ~Request!HasBreak(x)
    <3>1. r.headers[k + 1] \in Seq(Byte) /\ ~Request!HasBreak(r.headers[k + 1])
      BY <2>1, HonestLine, Zenon
    <3> HIDE DEF x
    <3> QED
      BY <2>2, <3>1, Zenon
  <2> HIDE DEF x
  <2> DEFINE a == x \o Request!Break
             b == HeadLeft(r, k + 1)
  <2>4. HeadLeft(r, k) = a \o b
    BY <1>2, <2>2, LeftTyped, Zenon
  <2>5. a \in Seq(Byte) /\ b \in Seq(Byte)
    <3>1. a \in Seq(Byte)
      BY <1>1, <2>3, ConcatProperties
    <3>2. b \in Seq(Byte)
      BY <2>1, LeftTyped, Zenon
    <3> QED
      BY <3>1, <3>2
  <2> HIDE DEF a, b
  <2>6. (a \o b) \o rest = a \o (b \o rest)
    BY <2>5, OfBytes, Zenon
  <2> QED
    BY <2>1, <2>3, <2>4, <2>6, Zenon DEF a, b, x
<1>3. CASE k = N
  <2>1. ~(k < N) /\ x = <<>>
    BY <1>1, <1>3 DEF NextLine
  <2>2. x \in Seq(Byte) /\ ~Request!HasBreak(x)
    <3>1. DOMAIN x = {} /\ x \in Seq(Byte)
      BY <2>1
    <3> QED
      BY <3>1, Zenon DEF Request!HasBreak
  <2>3. <<>> \o Request!Break = Request!Break
    BY <1>1, ConcatEmptySeq
  <2>4. HeadLeft(r, k) = Request!Break \o r.body
    BY <1>3, LeftTyped
  <2>5. (Request!Break \o r.body) \o rest = Request!Break \o (r.body \o rest)
    BY <1>1, OfBytes, Zenon
  <2> HIDE DEF x
  <2> QED
    BY <2>1, <2>2, <2>3, <2>4, <2>5, Zenon DEF x
<1>4. k < N \/ k = N
  BY <1>1
<1> QED
  BY <1>2, <1>3, <1>4, Zenon

LEMMA JoinedTwo ==
  ASSUME NEW a \in Seq(Byte), NEW c \in Seq(Byte)
  PROVE  /\ a \o c \in Seq(Byte) /\ Len(a \o c) = Len(a) + Len(c)
         /\ Len(a) \in Nat /\ Len(c) \in Nat
  BY ConcatProperties

(* What may have been taken when a head or a body is not yet complete.     *)
LEMMA RoomLeft ==
  ASSUME NEW q, IsParsed(q), NEW r, Request!IsRequest(r), Request!Honest(r),
         NEW flow \in Seq(Byte), NEW rest \in Seq(Byte),
         NEW n \in Nat, n + Len(flow) = Request!Size(r) + Len(rest)
  PROVE  /\ AtFirstLine(q, r, flow, rest) => n <= HeadSize(r)
         /\ \A k \in 0 .. Len(r.headers) : AtHeader(q, r, flow, rest, k) => n <= HeadSize(r)
         /\ AtBody(q, r, flow, rest) => n <= Request!Size(r)
         /\ flow = r.body \o rest => n = HeadSize(r)
         /\ flow = rest => n = Request!Size(r)
<1> DEFINE b == q.lineBuffer
           y == Len(r.body)
           z == Len(rest)
           w == Len(flow)
           N == Len(r.headers)
           size == Request!Size(r)
<1>1. /\ y \in Nat /\ z \in Nat /\ w \in Nat /\ size \in Nat /\ HeadSize(r) = size - y
      /\ r.body \in Seq(Byte) /\ b \in Seq(Byte) /\ Len(b) \in Nat /\ N \in Nat
  <2>1. r.body \in Seq(Byte) /\ N \in Nat
    BY LinesTyped
  <2>2. b \in Seq(Byte)
    BY DEF IsParsed
  <2>3. size \in Nat
    BY SizesFit
  <2>4. HeadSize(r) = size - y
    BY DEF HeadSize
  <2> HIDE DEF size, b
  <2> QED
    BY <2>1, <2>2, <2>3, <2>4
<1>2. ASSUME NEW x \in Seq(Byte), NEW t \in Seq(Byte), Len(t) >= y + z,
             Len(b) <= Len(x), b \o flow = (x \o Request!Break) \o t
      PROVE  n <= HeadSize(r)
  <2>1. /\ x \o Request!Break \in Seq(Byte) /\ Len(x \o Request!Break) = Len(x) + 2 /\ Len(x) \in Nat
    BY BrokenLine
  <2>2. Len((x \o Request!Break) \o t) = (Len(x) + 2) + Len(t) /\ Len(t) \in Nat
    <3> DEFINE u == x \o Request!Break
    <3>1. u \in Seq(Byte) /\ Len(u) = Len(x) + 2
      BY <2>1
    <3> HIDE DEF u
    <3>2. Len(u \o t) = Len(u) + Len(t) /\ Len(t) \in Nat
      BY <3>1, JoinedTwo, Zenon
    <3> QED
      BY <3>1, <3>2 DEF u
  <2>3. Len(b \o flow) = Len(b) + w
    BY <1>1, ConcatProperties
  <2>4. w >= y + z
    BY <1>1, <1>2, <2>1, <2>2, <2>3
  <2> HIDE DEF w, y, z, size
  <2>5. n + w = size + z
    BY DEF w, z, size
  <2> QED
    BY <1>1, <2>4, <2>5
<1>3. ASSUME NEW k \in 0 .. N PROVE HeadLeft(r, k) \in Seq(Byte) /\ Len(HeadLeft(r, k)) >= y
  <2>1. HeadLeft(r, k) = After(LinesOf(r), k) \o AfterHead(r)
    BY DEF HeadLeft
  <2>2. After(LinesOf(r), k) \in Seq(Byte)
    BY LinesTyped, AfterIs
  <2>3. AfterHead(r) \in Seq(Byte) /\ Len(AfterHead(r)) = 2 + y
    <3> DEFINE u == Request!Break
               v == r.body
    <3>1. u \in Seq(Byte) /\ Len(u) = 2
      BY BreakParts
    <3>3. v \in Seq(Byte) /\ Len(v) = y
      BY <1>1
    <3> HIDE DEF u, v, y
    <3>2. u \o v \in Seq(Byte) /\ Len(u \o v) = Len(u) + Len(v)
      BY <3>1, <3>3, ConcatProperties
    <3>4. u \o v = AfterHead(r)
      BY DEF u, v, AfterHead
    <3> QED
      BY <3>1, <3>2, <3>3, <3>4
  <2> DEFINE a == After(LinesOf(r), k)
             c == AfterHead(r)
  <2>4. Len(a \o c) = Len(a) + Len(c) /\ a \o c \in Seq(Byte) /\ Len(a) \in Nat
    <3>1. a \in Seq(Byte) /\ c \in Seq(Byte)
      BY <2>2, <2>3
    <3> HIDE DEF a, c
    <3> QED
      BY <3>1, ConcatProperties
  <2> HIDE DEF a, c, y
  <2>5. Len(a \o c) >= y
    BY <1>1, <2>3, <2>4 DEF c
  <2> QED
    BY <2>1, <2>4, <2>5 DEF a, c
<1>4. \A k \in 0 .. N : HeadLeft(r, k) \o rest \in Seq(Byte) /\ Len(HeadLeft(r, k) \o rest) >= y + z
  <2> SUFFICES ASSUME NEW k \in 0 .. N
               PROVE  HeadLeft(r, k) \o rest \in Seq(Byte) /\ Len(HeadLeft(r, k) \o rest) >= y + z
    OBVIOUS
  <2> DEFINE a == HeadLeft(r, k)
  <2>1. a \in Seq(Byte) /\ Len(a) >= y /\ Len(a) \in Nat
    BY <1>3
  <2> HIDE DEF a, y
  <2>2. a \o rest \in Seq(Byte) /\ Len(a \o rest) = Len(a) + z
    BY <2>1, ConcatProperties
  <2>3. Len(a \o rest) >= y + z
    BY <1>1, <2>1, <2>2
  <2> QED
    BY <2>2, <2>3 DEF a
<1>5. ASSUME AtFirstLine(q, r, flow, rest) PROVE n <= HeadSize(r)
  <2>1. FirstOf(r) \in Seq(Byte) /\ 0 \in 0 .. N
    BY <1>1, LinesTyped
  <2>2. b \o flow = (FirstOf(r) \o Request!Break) \o (HeadLeft(r, 0) \o rest) /\ Len(b) <= Len(FirstOf(r))
    BY <1>5 DEF AtFirstLine
  <2>3. HeadLeft(r, 0) \o rest \in Seq(Byte) /\ Len(HeadLeft(r, 0) \o rest) >= y + z
    BY <1>4, <2>1
  <2> QED
    BY <1>2, <2>1, <2>2, <2>3
<1>6. ASSUME NEW k \in 0 .. N, AtHeader(q, r, flow, rest, k) PROVE n <= HeadSize(r)
  <2> DEFINE x == NextLine(r, k)
             t == IF k < N THEN HeadLeft(r, k + 1) \o rest ELSE r.body \o rest
  <2>1. b \o flow = HeadLeft(r, k) \o rest /\ Len(b) <= Len(x)
    BY <1>6 DEF AtHeader
  <2>2. x \in Seq(Byte) /\ HeadLeft(r, k) \o rest = (x \o Request!Break) \o t
    <3>1. x \in Seq(Byte)
      BY NextLineIs
    <3>2. k < N => HeadLeft(r, k) \o rest = (x \o Request!Break) \o (HeadLeft(r, k + 1) \o rest)
      BY NextLineIs, Zenon
    <3>3. k = N => HeadLeft(r, k) \o rest = (x \o Request!Break) \o (r.body \o rest)
      BY NextLineIs, Zenon
    <3>4. k < N \/ (k = N /\ ~(k < N))
      BY <1>1
    <3> HIDE DEF x
    <3> QED
      BY <3>1, <3>2, <3>3, <3>4, Zenon DEF t
  <2>3. t \in Seq(Byte) /\ Len(t) >= y + z
    <3>1. CASE k < N
      <4>1. k + 1 \in 0 .. N
        BY <1>1, <3>1
      <4> QED
        BY <1>4, <3>1, <4>1
    <3>2. CASE ~(k < N)
      <4>1. r.body \o rest \in Seq(Byte) /\ Len(r.body \o rest) = y + z
        BY <1>1, ConcatProperties
      <4>2. y + z >= y + z
        BY <1>1
      <4> QED
        BY <3>2, <4>1, <4>2
    <3> QED
      BY <3>1, <3>2
  <2> HIDE DEF t, x
  <2> QED
    BY <1>2, <2>1, <2>2, <2>3 DEF x
<1>7. Len(r.body \o rest) = y + z
  BY <1>1, ConcatProperties
<1>8. ASSUME AtBody(q, r, flow, rest) PROVE n <= size
  <2>1. q.bodyData \in Seq(Byte) /\ q.bodyData \o flow = r.body \o rest /\ Len(q.bodyData) < y
    BY <1>8 DEF AtBody, IsParsed
  <2> DEFINE v == Len(q.bodyData)
  <2>2. v + w = y + z /\ v \in Nat /\ v < y
    BY <1>7, <2>1, ConcatProperties
  <2>3. n + w = size + z
    OBVIOUS
  <2> HIDE DEF v, w, y, z, size
  <2> QED
    BY <1>1, <2>2, <2>3
<1>9. flow = r.body \o rest => n = HeadSize(r)
  <2>1. flow = r.body \o rest => w = y + z
    BY <1>7
  <2>2. n + w = size + z
    OBVIOUS
  <2> HIDE DEF w, y, z, size
  <2> QED
    BY <1>1, <2>1, <2>2
<1>10. flow = rest => n = size
  <2>1. n + w = size + z /\ (flow = rest => w = z)
    OBVIOUS
  <2> HIDE DEF w, z, size
  <2> QED
    BY <1>1, <2>1
<1> QED
  BY <1>5, <1>6, <1>8, <1>9, <1>10

(* How much has been taken, whatever part of a head or a body it is.       *)
Taken(r, flow, rest, n) == n \in Nat /\ n + Len(flow) = Request!Size(r) + Len(rest)

LEMMA TakenMore ==
  ASSUME NEW r, Request!IsRequest(r), NEW rest \in Seq(Byte), NEW more \in Seq(Byte),
         NEW s \in Seq(Byte), NEW n, Taken(r, s \o more, rest, n),
         NEW chunk \in Seq(Byte), NEW left \in Seq(Byte), s = chunk \o left
  PROVE  Taken(r, left \o more, rest, n + Len(chunk))
<1> DEFINE a == Len(s \o more)
           c == Len(left \o more)
           total == Request!Size(r) + Len(rest)
<1>1. a = Len(chunk) + Len(left) + Len(more) /\ Len(chunk) \in Nat /\ Len(left) \in Nat
      /\ Len(more) \in Nat
  <2>1. /\ Len(s) = Len(chunk) + Len(left) /\ Len(chunk) \in Nat /\ Len(left) \in Nat
    BY JoinedTwo, Zenon
  <2>2. a = Len(s) + Len(more) /\ Len(more) \in Nat
    BY JoinedTwo, Zenon
  <2> QED
    BY <2>1, <2>2
<1>2. c = Len(left) + Len(more)
  BY JoinedTwo, Zenon
<1>3. n \in Nat /\ n + a = total
  BY DEF Taken
<1> HIDE DEF a, c, total
<1>4. n + Len(chunk) \in Nat /\ (n + Len(chunk)) + c = total
  BY <1>1, <1>2, <1>3
<1> QED
  BY <1>4 DEF Taken, c, total

(* In a head there is room, if it fits.                                    *)
LEMMA HeadUnfinished ==
  ASSUME NEW q, IsParsed(q), NEW r, Request!IsRequest(r), Request!Honest(r),
         NEW flow \in Seq(Byte), NEW rest \in Seq(Byte), NEW n, Taken(r, flow, rest, n),
         \/ AtFirstLine(q, r, flow, rest)
         \/ \E k \in 0 .. Len(r.headers) : AtHeader(q, r, flow, rest, k),
         NEW whole \in BOOLEAN, whole /\ Request!Fits(r) => q.currentSize = n
  PROVE  Unfinished(q, r, flow, rest, n, whole)
<1>1. n \in Nat /\ n + Len(flow) = Request!Size(r) + Len(rest)
  BY DEF Taken
<1>2. n <= HeadSize(r)
  BY <1>1, RoomLeft
<1>3. InHeadOf(q) /\ Blank(q) /\ q.status # "waitForBody" /\ q.status # "abort"
  BY DEF AtFirstLine, AtHeader, InHeadOf
<1>4. Under(q, r, flow, rest)
  BY DEF Under
<1>5. Request!Fits(r) => HeadSize(r) <= maxSize /\ HeadSize(r) \in Nat
  BY SizesFit
<1>6. maxSize \in Nat
  BY MaxSizes
<1> HIDE DEF Taken
<1>7. n <= maxSize /\ q.currentSize = n => ~Request!TooMany(q)
  BY <1>1, <1>3, <1>6 DEF Request!TooMany, Blank
<1>8. Request!Fits(r) => n <= maxSize
  BY <1>1, <1>2, <1>5, <1>6
<1> QED
  BY <1>3, <1>4, <1>7, <1>8 DEF Unfinished, Counts

(* What is read goes on with the line that waits.                          *)
Goes(p, r, s, more, rest, chunk, left, x, t) ==
  /\ chunk \in Seq(Byte) /\ left \in Seq(Byte) /\ s = chunk \o left
  /\ p.lineBuffer \o chunk \in Seq(Byte)
  /\ \/ /\ p.lineBuffer \o chunk = x \o Request!Break /\ left \o more = t
     \/ /\ (p.lineBuffer \o chunk) \o (left \o more) = (x \o Request!Break) \o t
        /\ Len(p.lineBuffer \o chunk) <= Len(x) /\ ~Request!HasBreak(p.lineBuffer \o chunk)

LEMMA PartGoes ==
  ASSUME NEW p, IsParsed(p), NEW r, NEW s \in Seq(Byte), s # <<>>, NEW more \in Seq(Byte),
         NEW rest, NEW x \in Seq(Byte), ~Request!HasBreak(x), NEW t \in Seq(Byte),
         p.lineBuffer \o (s \o more) = (x \o Request!Break) \o t, Len(p.lineBuffer) <= Len(x),
         NEW limit \in Nat \ {0}, NEW chunk, chunk = Request!readLine(s, limit), Request!Last(chunk) # Request!CR,
         NEW left, left = SubSeq(s, Len(chunk) + 1, Len(s))
  PROVE  Goes(p, r, s, more, rest, chunk, left, x, t)
<1> DEFINE b == p.lineBuffer
<1>1. b \in Seq(Byte)
  BY DEF IsParsed
<1> HIDE DEF b
<1>2. b \o (s \o more) = (x \o Request!Break) \o t /\ Len(b) <= Len(x)
  BY DEF b
<1>3. /\ chunk \in Seq(Byte) /\ left \in Seq(Byte)
      /\ (b \o chunk) \o (left \o more) = (x \o Request!Break) \o t
      /\ \/ Request!Last(chunk) = Request!CR
         \/ b \o chunk = x \o Request!Break /\ left \o more = t
         \/ Len(b \o chunk) <= Len(x) /\ ~Request!HasBreak(b \o chunk)
  <2>1. LineGone(b, s, more, x, t, chunk)
    BY <1>1, <1>2, LineGoes
  <2> QED
    BY <2>1, Zenon DEF LineGone
<1>4. s = chunk \o left
  <2>1. PICK e \in 1 .. Len(s) : chunk = SubSeq(s, 1, e)
    BY LineRead
  <2>2. e \in 0 .. Len(s)
    OBVIOUS
  <2>3. Len(chunk) = e /\ SubSeq(s, 1, e) \o SubSeq(s, e + 1, Len(s)) = s
    BY <2>1, <2>2, WordsParts
  <2> QED
    BY <2>1, <2>3
<1>5. b \o chunk \in Seq(Byte)
  BY <1>1, <1>3, JoinedTwo
<1> QED
  BY <1>3, <1>4, <1>5, Zenon DEF Goes, b

LEMMA FirstLineGoes ==
  ASSUME NEW p, IsParsed(p), NEW r, Request!IsRequest(r), Request!Honest(r),
         NEW s \in Seq(Byte), NEW more \in Seq(Byte), NEW rest \in Seq(Byte),
         AtFirstLine(p, r, s \o more, rest), NEW n, Taken(r, s \o more, rest, n),
         NEW whole \in BOOLEAN, whole /\ Request!Fits(r) => p.currentSize = n /\ p.lineBuffer = <<>>,
         NEW chunk, NEW left,
         Goes(p, r, s, more, rest, chunk, left, FirstOf(r), HeadLeft(r, 0) \o rest)
  PROVE  Unfinished(Request!readRequest(p, chunk), r, left \o more, rest, n + Len(chunk), whole)
<1> DEFINE x == FirstOf(r)
           t == HeadLeft(r, 0) \o rest
           q == Request!Buffered(p, chunk)
           line == p.lineBuffer \o chunk
           flow == left \o more
           m == n + Len(chunk)
           N == Len(r.headers)
<1>1. /\ chunk \in Seq(Byte) /\ left \in Seq(Byte) /\ s = chunk \o left /\ line \in Seq(Byte)
      /\ \/ line = x \o Request!Break /\ flow = t
         \/ line \o flow = (x \o Request!Break) \o t /\ Len(line) <= Len(x) /\ ~Request!HasBreak(line)
  BY DEF Goes
<1>2. /\ IsParsed(q) /\ q.lineBuffer = line
      /\ q.currentSize = p.currentSize + Len(line)
      /\ q.status = p.status /\ q.query = p.query /\ q.headers = p.headers
      /\ q.multipart = p.multipart /\ q.bodyData = p.bodyData
      /\ q.parameters = p.parameters /\ q.files = p.files
  BY <1>1, BufferedIs, Zenon
<1>3. whole /\ Request!Fits(r) => q.currentSize = m
  <2>1. p.lineBuffer = <<>> => line = chunk
    BY <1>1, ConcatProperties
  <2> QED
    BY <1>2, <2>1
<1>4. flow \in Seq(Byte) /\ Taken(r, flow, rest, m)
  <2>1. flow \in Seq(Byte)
    BY <1>1, JoinedTwo, Zenon
  <2>2. Taken(r, flow, rest, m)
    BY <1>1, TakenMore, Zenon
  <2> QED
    BY <2>1, <2>2
<1>5. /\ x \in Seq(Byte) /\ ~Request!HasBreak(x) /\ x # <<>> /\ x[1] = "get" /\ Request!Last(x) = "http"
      /\ SubSeq(x, 2, Len(x) - 1) = r.query
  BY HonestFirst, Zenon
<1>6. /\ p.status = "waitForRequest" /\ Blank(p)
      /\ p.headers = [name \in Request!Header |-> <<>>]
  BY DEF AtFirstLine
<1>6a. 0 \in 0 .. N /\ N \in Nat /\ <<>> \in Seq(Byte)
  BY LinesTyped
<1> HIDE DEF x, t, q, line, flow, m, N
<1>7. CASE line \o flow = (x \o Request!Break) \o t /\ Len(line) <= Len(x) /\ ~Request!HasBreak(line)
  <2>1. Request!readRequest(p, chunk) = q
    BY <1>2, <1>7 DEF Request!readRequest, q
  <2>2. Blank(q)
    BY <1>2, <1>6 DEF Blank
  <2>3. AtFirstLine(q, r, flow, rest)
    BY <1>2, <1>6, <1>7, <2>2 DEF AtFirstLine, x, t
  <2> QED
    BY <1>2, <1>3, <1>4, <2>1, <2>3, HeadUnfinished, Zenon DEF flow, m
<1>8. CASE line = x \o Request!Break /\ flow = t
  <2> DEFINE h == [q EXCEPT !.lineBuffer = <<>>, !.status = "waitForHeader",
                            !.query = r.query]
  <2>1. Request!HasBreak(line) /\ Request!Trimmed(line) = x
    BY <1>5, <1>8, WholeLine, Zenon
  <2>2. Request!readRequest(p, chunk) = h
    BY <1>2, <1>5, <2>1, Zenon DEF Request!readRequest, q
  <2>3. /\ IsParsed(h) /\ h.status = "waitForHeader" /\ h.query = r.query
        /\ h.lineBuffer = <<>> /\ h.currentSize = q.currentSize
        /\ h.headers = [name \in Request!Header |-> <<>>]
        /\ h.parameters = p.parameters /\ h.files = p.files /\ h.multipart = p.multipart
        /\ h.bodyData = p.bodyData
    BY <1>2, <1>6, <1>6a DEF IsParsed
  <2> HIDE DEF h
  <2>4. Blank(h)
    BY <1>6, <2>3 DEF Blank
  <2>5. HeadersKnown(h.headers, r, 0)
    BY <2>3, NothingSaid
  <2>6. h.lineBuffer \o flow = HeadLeft(r, 0) \o rest
    BY <1>4, <1>8, <2>3, ConcatProperties DEF t
  <2>7. Len(h.lineBuffer) <= Len(NextLine(r, 0))
    <3>1. NextLine(r, 0) \in Seq(Byte)
      BY <1>6a, NextLineIs DEF N
    <3>2. Len(NextLine(r, 0)) \in Nat
      BY <3>1
    <3> QED
      BY <2>3, <3>2
  <2>8. AtHeader(h, r, flow, rest, 0)
    BY <2>3, <2>4, <2>5, <2>6, <2>7, Zenon DEF AtHeader
  <2>9. whole /\ Request!Fits(r) => h.currentSize = m
    BY <1>3, <2>3
  <2> QED
    BY <1>4, <1>6a, <2>2, <2>3, <2>8, <2>9, HeadUnfinished, Zenon DEF flow, m, N
<1> QED
  BY <1>1, <1>7, <1>8, Zenon

(* What the headers say of the body.                                       *)
LEMMA SaidIs ==
  ASSUME NEW r, Request!IsRequest(r), Request!Honest(r), NEW name
  PROVE  IsSeq(Request!Said(r, name))
<1> DEFINE N == Len(r.headers)
           T == {k \in Nat : k <= N => IsSeq(SaidBy(r, k, name))}
<1>1. N \in Nat
  BY LinesTyped
<1>2. 0 \in T
  BY NoLength DEF SaidBy, SaidAt
<1>3. \A k \in T : k + 1 \in T
  <2> SUFFICES ASSUME NEW k \in T, k + 1 <= N PROVE IsSeq(SaidBy(r, k + 1, name))
    OBVIOUS
  <2>1. k \in Nat /\ k + 1 \in 1 .. N /\ IsSeq(SaidBy(r, k, name))
    BY <1>1
  <2>2. IsSeq(Tail(r.headers[k + 1]))
    BY <2>1, HonestLine DEF IsSeq
  <2> HIDE DEF T
  <2> QED
    BY <2>1, <2>2, SaidFurther
<1> HIDE DEF T
<1>4. T = Nat
  <2>1. T \subseteq Nat
    BY DEF T
  <2> QED
    BY <1>2, <1>3, <2>1, Induction
<1>5. IsSeq(SaidBy(r, N, name))
  BY <1>1, <1>4 DEF T
<1> QED
  BY <1>5, AllSaid

LEMMA MultiKnown ==
  ASSUME NEW r, Request!IsRequest(r), Request!Honest(r)
  PROVE  LET v == Request!Said(r, "type") IN (Len(v) > 0 /\ v[1] = "multi") <=> Request!IsMulti(r)
<1> DEFINE v == Request!Said(r, "type")
<1>1. Len(v) \in Nat /\ DOMAIN v = 1 .. Len(v)
  BY SaidIs, SeqLen
<1>2. ~Request!IsMulti(r) => "multi" \notin Request!ToSet(v)
  BY DEF Request!Honest
<1>3. Request!IsMulti(r) <=> v = <<"multi">>
  BY DEF Request!IsMulti
<1> HIDE DEF v
<1>4. v = <<"multi">> => Len(v) > 0 /\ v[1] = "multi"
  OBVIOUS
<1>5. Len(v) > 0 => 1 \in DOMAIN v
  BY <1>1
<1>6. Len(v) > 0 /\ v[1] = "multi" => "multi" \in Request!ToSet(v)
  BY <1>5 DEF Request!ToSet
<1> QED
  BY <1>2, <1>3, <1>4, <1>6, Zenon DEF v

(* An empty body has no parts.                                             *)
LEMMA NoBody ==
  ASSUME NEW r, Request!IsRequest(r), Request!Honest(r)
  PROVE  /\ r.body = <<>> <=> Len(r.body) = 0
         /\ Request!toInt(Request!Said(r, "length")) = Len(r.body)
         /\ Request!IsMulti(r) => Len(r.body) # 0 /\ r.body = Request!BodyOf(r.parts)
         /\ ~Request!IsMulti(r) => /\ MeantOf(r.parts, Len(r.parts)) = <<>>
                                   /\ FilesOf(r.parts, Len(r.parts))
                                        = [named |-> 0, leaked |-> 0]
<1>1. r.body = <<>> <=> Len(r.body) = 0
  BY LinesTyped
<1>2. Request!IsMulti(r) => /\ r.body = Request!BodyOf(r.parts)
                            /\ \A k \in DOMAIN r.parts : Request!IsPart(r.parts[k])
  BY DEF Request!Honest
<1>3. ASSUME Request!IsMulti(r) PROVE Len(r.body) # 0
  <2> DEFINE c == Request!Concat([k \in DOMAIN r.parts |->
                            <<"bound", r.parts[k].kind, "empty">> \o r.parts[k].data])
             e == <<"last">>
  <2>1. r.body = c \o e
    BY <1>2, <1>3 DEF Request!BodyOf
  <2>2. IsSeq(c)
    <3> DEFINE S == STRING \cup {"bound", "empty"}
               R == [kind : STRING, data : Seq(STRING)]
               N == Len(r.parts)
               A(k) == <<"bound", r.parts[k].kind, "empty">>
               D(k) == r.parts[k].data
               ss == [k \in DOMAIN r.parts |-> A(k) \o D(k)]
    <3>1. r.parts \in Seq(R)
      BY DEF Request!IsRequest
    <3> HIDE DEF R
    <3>2. N \in Nat /\ DOMAIN r.parts = 1 .. N /\ \A k \in 1 .. N : r.parts[k] \in R
      BY <3>1
    <3>3. \A k \in 1 .. N : r.parts[k].kind \in STRING /\ r.parts[k].data \in Seq(STRING)
      BY <3>2 DEF R
    <3>4. "bound" \in S /\ "empty" \in S /\ STRING \subseteq S
      OBVIOUS
    <3> HIDE DEF S
    <3>5. \A k \in 1 .. N : A(k) \in Seq(S) /\ D(k) \in Seq(S)
      <4> SUFFICES ASSUME NEW k \in 1 .. N PROVE A(k) \in Seq(S) /\ D(k) \in Seq(S)
        OBVIOUS
      <4>1. r.parts[k].kind \in S /\ D(k) \in Seq(STRING)
        BY <3>3, <3>4
      <4>2. A(k) \in Seq(S)
        BY <3>4, <4>1
      <4> HIDE DEF D
      <4>3. D(k) \in Seq(S)
        BY <3>4, <4>1, SeqMonotonic
      <4> QED
        BY <4>2, <4>3
    <3> HIDE DEF A, D
    <3>6. \A k \in 1 .. N : A(k) \o D(k) \in Seq(S)
      BY <3>5, ConcatProperties
    <3>7. ss \in Seq(Seq(S))
      BY <3>2, <3>6
    <3> HIDE DEF ss
    <3>8. Request!Concat(ss) \in Seq(S)
      BY <3>7, ConcatTyped
    <3>9. c = Request!Concat(ss)
      BY DEF ss, A, D
    <3> QED
      BY <3>8, <3>9 DEF IsSeq
  <2>2a. e \in Seq({"last"}) /\ Len(e) = 1
    OBVIOUS
  <2> HIDE DEF c, e
  <2>3. IsSeq(c) /\ IsSeq(e) /\ Len(e) = 1
    BY <2>2, <2>2a DEF IsSeq
  <2>4. Len(c \o e) = Len(c) + Len(e) /\ Len(c) \in Nat
    BY <2>3, Joint, SeqLen
  <2> QED
    BY <2>1, <2>3, <2>4
<1>4. ASSUME ~Request!IsMulti(r)
      PROVE  /\ MeantOf(r.parts, Len(r.parts)) = <<>>
             /\ FilesOf(r.parts, Len(r.parts)) = [named |-> 0, leaked |-> 0]
  <2>1. r.parts = <<>> /\ Len(r.parts) = 0
    BY <1>4 DEF Request!Honest
  <2>2. MeantOf(r.parts, 0) = <<>>
    BY DEF MeantOf
  <2>3. FilesOf(r.parts, 0) = [named |-> 0, leaked |-> 0]
    BY DEF FilesOf
  <2> QED
    BY <2>1, <2>2, <2>3
<1>5. Request!toInt(Request!Said(r, "length")) = Len(r.body)
  BY DEF Request!Honest
<1> QED
  BY <1>1, <1>2, <1>3, <1>4, <1>5

(* At the empty line it is decided what comes.                             *)
LEMMA HeadersGo ==
  ASSUME NEW h, IsParsed(h), NEW r, Request!IsRequest(r), Request!Honest(r),
         NEW flow \in Seq(Byte), NEW rest \in Seq(Byte), flow = r.body \o rest,
         Blank(h), h.query = r.query, HeadersKnown(h.headers, r, Len(r.headers)),
         NEW n, Taken(r, flow, rest, n),
         NEW whole \in BOOLEAN, whole /\ Request!Fits(r) => h.currentSize = n
  PROVE  Unfinished(Request!HeadersDone(h), r, flow, rest, n, whole)
<1> DEFINE multi == Len(Request!value(h, "type")) > 0 /\ Request!value(h, "type")[1] = "multi"
           size == Request!toInt(Request!value(h, "length"))
           next == IF size = 0 THEN "complete"
                   ELSE IF ~multi /\ size + h.currentSize > maxSize THEN "abort"
                   ELSE IF multi /\ size > maxMultiPartSize THEN "abort"
                   ELSE "waitForBody"
           d == [h EXCEPT !.multipart = multi, !.expectedBodySize = size, !.status = next]
           b == Len(r.body)
           hs == HeadSize(r)
           N == Len(r.parts)
<1>1. Request!HeadersDone(h) = d
  BY DEF Request!HeadersDone
<1>2. multi <=> Request!IsMulti(r)
  <2>1. Request!value(h, "type") = Request!Said(r, "type")
    BY ValueKnown DEF Request!Header
  <2> QED
    BY <2>1, MultiKnown, Zenon
<1>3. size = b
  <2>1. Request!value(h, "length") = Request!Said(r, "length")
    BY ValueKnown DEF Request!Header
  <2> QED
    BY <2>1, NoBody
<1>4. multi \in BOOLEAN
  OBVIOUS
<1>5. /\ size = 0 => next = "complete"
      /\ size # 0 /\ ~multi /\ size + h.currentSize > maxSize => next = "abort"
      /\ size # 0 /\ multi /\ size > maxMultiPartSize => next = "abort"
      /\ size # 0 /\ (~multi => ~(size + h.currentSize > maxSize))
                  /\ (multi => ~(size > maxMultiPartSize)) => next = "waitForBody"
      /\ next \in {"complete", "abort", "waitForBody"}
      /\ next = "complete" => size = 0
      /\ next = "abort" => \/ ~multi /\ size + h.currentSize > maxSize
                           \/ multi /\ size > maxMultiPartSize
  OBVIOUS
<1>6. b \in Nat /\ hs \in Nat /\ n \in Nat /\ maxSize \in Nat /\ maxMultiPartSize \in Nat
      /\ Request!Size(r) = hs + b /\ Request!Size(r) \in Nat
  <2>1. n \in Nat
    BY DEF Taken
  <2>2. b \in Nat /\ hs \in Nat /\ Request!Size(r) \in Nat /\ hs = Request!Size(r) - b
    BY SizesFit DEF HeadSize
  <2> HIDE DEF b, hs, Request!Size
  <2>3. Request!Size(r) = hs + b
    BY <2>2
  <2> QED
    BY <2>1, <2>2, <2>3, MaxSizes
<1>7. n = hs
  <2>1. n \in Nat /\ n + Len(flow) = Request!Size(r) + Len(rest)
    BY DEF Taken
  <2> QED
    BY <2>1, RoomLeft
<1>8. /\ Request!Fits(r) => hs <= maxSize
      /\ Request!Fits(r) /\ Request!IsMulti(r) => b < maxMultiPartSize /\ Request!Size(r) <= maxMultiPartSize
      /\ Request!Fits(r) /\ ~Request!IsMulti(r) => Request!Size(r) <= maxSize
  BY SizesFit
<1> HIDE DEF multi, size, next
<1>9. /\ IsParsed(d) /\ d.status = next /\ d.multipart = multi
      /\ d.currentSize = h.currentSize /\ d.bodyData = h.bodyData
      /\ d.expectedBodySize = size /\ d.query = h.query /\ d.headers = h.headers
      /\ d.parameters = h.parameters /\ d.files = h.files
  BY <1>3, <1>4, <1>6 DEF IsParsed
<1> HIDE DEF d, b, hs, N
<1>10. /\ h.bodyData = <<>> /\ h.parameters = <<>>
       /\ h.files = [named |-> 0, leaked |-> 0] /\ ~h.multipart
  BY DEF Blank
<1>11. (d.multipart <=> Request!IsMulti(r)) /\ d.bodyData = <<>> /\ Len(d.bodyData) = 0
  BY <1>2, <1>9, <1>10
<1>12. Under(d, r, flow, rest) \/ (d.status = "complete" /\ KnownAs(d, r) /\ flow = rest)
  <2>1. CASE next = "complete"
    <3>1. b = 0 /\ r.body = <<>> /\ ~Request!IsMulti(r)
      BY <1>3, <1>5, <2>1, NoBody DEF b
    <3>2. flow = rest
      BY <3>1, ConcatProperties
    <3>3. d.parameters = MeantOf(r.parts, N) /\ d.files = FilesOf(r.parts, N)
      BY <1>9, <1>10, <3>1, NoBody DEF N
    <3>4. d.bodyData = r.body
      BY <1>11, <3>1
    <3>5. KnownAs(d, r)
      BY <1>9, <1>11, <3>3, <3>4, Zenon DEF KnownAs, N
    <3> QED
      BY <1>9, <2>1, <3>2, <3>5
  <2>2. CASE next = "abort"
    BY <1>9, <2>2 DEF Under
  <2>3. CASE next = "waitForBody"
    <3>1. Len(d.bodyData) < b
      BY <1>3, <1>5, <1>6, <1>11, <2>3
    <3>2. d.bodyData \o flow = r.body \o rest
      BY <1>11, ConcatProperties
    <3>3. d.expectedBodySize = b
      BY <1>3, <1>9
    <3>4. d.status = "waitForBody" /\ d.query = r.query /\ d.parameters = <<>>
          /\ d.files = [named |-> 0, leaked |-> 0]
          /\ HeadersKnown(d.headers, r, Len(r.headers))
      BY <1>9, <1>10, <2>3
    <3>5. AtBody(d, r, flow, rest)
      BY <1>11, <3>1, <3>2, <3>3, <3>4, Zenon DEF AtBody, b
    <3> QED
      BY <3>5 DEF Under
  <2> QED
    BY <1>5, <2>1, <2>2, <2>3
<1>13. ASSUME whole, Request!Fits(r)
       PROVE  Counts(d, r, n) /\ d.status # "abort" /\ ~Request!TooMany(d)
  <2>1. d.currentSize = hs /\ h.currentSize = hs
    BY <1>7, <1>9, <1>13
  <2>2. next # "abort"
    BY <1>2, <1>3, <1>5, <1>6, <1>8, <1>13, <2>1
  <2>3. Counts(d, r, n)
    BY <1>5, <1>7, <1>9, <2>1, <2>2, Zenon DEF Counts, InHeadOf, hs
  <2>4. Request!IsMulti(r) => ~(hs > maxMultiPartSize)
    BY <1>6, <1>8, <1>13
  <2>5. ~Request!IsMulti(r) => ~(hs > maxSize)
    BY <1>6, <1>8, <1>13
  <2>6. ~Request!TooMany(d)
    BY <1>11, <2>1, <2>4, <2>5, Zenon DEF Request!TooMany
  <2> QED
    BY <1>9, <2>2, <2>3, <2>6
<1>14. Unfinished(d, r, flow, rest, n, whole)
  BY <1>9, <1>12, <1>13, Zenon DEF Unfinished
<1> QED
  BY <1>1, <1>14

LEMMA HeaderGoes ==
  ASSUME NEW p, IsParsed(p), NEW r, Request!IsRequest(r), Request!Honest(r),
         NEW s \in Seq(Byte), NEW more \in Seq(Byte), NEW rest \in Seq(Byte),
         NEW k \in 0 .. Len(r.headers), AtHeader(p, r, s \o more, rest, k),
         NEW n, Taken(r, s \o more, rest, n),
         NEW whole \in BOOLEAN, whole /\ Request!Fits(r) => p.currentSize = n /\ p.lineBuffer = <<>>,
         NEW chunk, NEW left, NEW t,
         k < Len(r.headers) => t = HeadLeft(r, k + 1) \o rest,
         k = Len(r.headers) => t = r.body \o rest,
         Goes(p, r, s, more, rest, chunk, left, NextLine(r, k), t)
  PROVE  Unfinished(Request!readHeader(p, chunk), r, left \o more, rest, n + Len(chunk), whole)
<1> DEFINE x == NextLine(r, k)
           q == Request!Buffered(p, chunk)
           h == [q EXCEPT !.lineBuffer = <<>>]
           line == p.lineBuffer \o chunk
           flow == left \o more
           m == n + Len(chunk)
           N == Len(r.headers)
<1>1. /\ chunk \in Seq(Byte) /\ left \in Seq(Byte) /\ s = chunk \o left /\ line \in Seq(Byte)
      /\ \/ line = x \o Request!Break /\ flow = t
         \/ line \o flow = (x \o Request!Break) \o t /\ Len(line) <= Len(x) /\ ~Request!HasBreak(line)
  BY DEF Goes
<1>2. /\ IsParsed(q) /\ q.lineBuffer = line
      /\ q.currentSize = p.currentSize + Len(line)
      /\ q.status = p.status /\ q.query = p.query /\ q.headers = p.headers
      /\ q.multipart = p.multipart /\ q.bodyData = p.bodyData
      /\ q.parameters = p.parameters /\ q.files = p.files
  BY <1>1, BufferedIs, Zenon
<1>3. whole /\ Request!Fits(r) => q.currentSize = m
  <2>1. p.lineBuffer = <<>> => line = chunk
    BY <1>1, ConcatProperties
  <2> QED
    BY <1>2, <2>1
<1>4. flow \in Seq(Byte) /\ Taken(r, flow, rest, m)
  <2>1. flow \in Seq(Byte)
    BY <1>1, JoinedTwo, Zenon
  <2>2. Taken(r, flow, rest, m)
    BY <1>1, TakenMore, Zenon
  <2> QED
    BY <2>1, <2>2
<1>5. /\ N \in Nat /\ <<>> \in Seq(Byte) /\ k \in 0 .. N
      /\ x \in Seq(Byte) /\ ~Request!HasBreak(x)
      /\ k < N => HeadLeft(r, k) \o rest
           = (x \o Request!Break) \o (HeadLeft(r, k + 1) \o rest)
      /\ k = N => HeadLeft(r, k) \o rest = (x \o Request!Break) \o (r.body \o rest) /\ x = <<>>
  <2>1. N \in Nat /\ <<>> \in Seq(Byte) /\ k \in 0 .. N
    BY LinesTyped
  <2>2. x \in Seq(Byte) /\ ~Request!HasBreak(x)
    BY NextLineIs
  <2>3. k < N => HeadLeft(r, k) \o rest = (x \o Request!Break) \o (HeadLeft(r, k + 1) \o rest)
    BY NextLineIs, Zenon
  <2>4. k = N => HeadLeft(r, k) \o rest = (x \o Request!Break) \o (r.body \o rest) /\ x = <<>>
    BY NextLineIs, Zenon
  <2> QED
    BY <2>1, <2>2, <2>3, <2>4, Zenon
<1>6. /\ p.status = "waitForHeader" /\ Blank(p) /\ p.query = r.query
      /\ HeadersKnown(p.headers, r, k)
  BY DEF AtHeader
<1>6a. (x \o Request!Break) \o t = HeadLeft(r, k) \o rest
  <2>1. k < N \/ k = N
    BY <1>5
  <2> QED
    BY <1>5, <2>1, Zenon
<1>6b. k < N => x = r.headers[k + 1]
  BY DEF NextLine
<1> HIDE DEF x, q, line, flow, m, N
<1>7. CASE line \o flow = (x \o Request!Break) \o t /\ Len(line) <= Len(x) /\ ~Request!HasBreak(line)
  <2>1. Request!readHeader(p, chunk) = q
    BY <1>2, <1>7 DEF Request!readHeader, q
  <2>2. Blank(q)
    BY <1>2, <1>6 DEF Blank
  <2>3. AtHeader(q, r, flow, rest, k)
    BY <1>2, <1>6, <1>6a, <1>7, <2>2 DEF AtHeader, x
  <2> QED
    BY <1>2, <1>3, <1>4, <1>5, <2>1, <2>3, HeadUnfinished, Zenon DEF flow, m, N
<1>8. CASE line = x \o Request!Break /\ flow = t
  <2>1. Request!HasBreak(line) /\ Request!Trimmed(line) = x
    BY <1>5, <1>8, WholeLine, Zenon
  <2>2. Request!readHeader(p, chunk) = IF x = <<>> THEN Request!HeadersDone(h) ELSE Request!AddHeader(h, x)
    BY <1>2, <2>1, Zenon DEF Request!readHeader, q
  <2>3. /\ IsParsed(h) /\ h.status = "waitForHeader" /\ h.query = r.query
        /\ h.lineBuffer = <<>> /\ h.currentSize = q.currentSize
        /\ h.headers = p.headers
        /\ h.parameters = p.parameters /\ h.files = p.files /\ h.multipart = p.multipart
        /\ h.bodyData = p.bodyData
    BY <1>2, <1>5, <1>6 DEF IsParsed
  <2> HIDE DEF h
  <2>4. Blank(h)
    BY <1>6, <2>3 DEF Blank
  <2>5. whole /\ Request!Fits(r) => h.currentSize = m
    BY <1>3, <2>3
  <2>6. HeadersKnown(h.headers, r, k)
    BY <1>6, <2>3
  <2>7. CASE k = N
    <3>1. flow = r.body \o rest /\ Request!readHeader(p, chunk) = Request!HeadersDone(h)
      BY <1>5, <1>8, <2>2, <2>7 DEF N
    <3>2. HeadersKnown(h.headers, r, Len(r.headers))
      BY <2>6, <2>7 DEF N
    <3>3. Unfinished(Request!HeadersDone(h), r, flow, rest, m, whole)
      BY <1>4, <2>3, <2>4, <2>5, <3>1, <3>2, HeadersGo, Zenon
    <3> QED
      BY <3>1, <3>3 DEF flow, m
  <2>8. CASE k < N
    <3> DEFINE g == [h.headers EXCEPT ![x[1]] = Append(@, Tail(x))]
               a == [[h EXCEPT !.currentHeader = x[1]] EXCEPT !.headers = g]
    <3>1. k \in Nat /\ k + 1 \in 1 .. N /\ k + 1 \in 0 .. N
      BY <1>5, <2>8
    <3>2. x = r.headers[k + 1] /\ x # <<>> /\ x[1] \in Request!Header
      BY <1>6b, <2>8, <3>1, HonestLine DEF N
    <3>3. HeadersKnown(g, r, k + 1)
      BY <2>6, <3>1, <3>2, HeaderKnown DEF N
    <3>4. Request!AddHeader(h, x) =
            [h EXCEPT !.currentHeader = x[1], !.headers[x[1]] = Append(@, Tail(x))]
      BY <3>2, Zenon DEF Request!AddHeader
    <3>5. Request!readHeader(p, chunk) = a
      <4>1. [h EXCEPT !.currentHeader = x[1], !.headers[x[1]] = Append(@, Tail(x))] = a
        OBVIOUS
      <4> QED
        BY <2>2, <3>2, <3>4, <4>1, Zenon
    <3> HIDE DEF g
    <3>6. /\ IsParsed(a) /\ a.status = "waitForHeader" /\ a.query = r.query
          /\ a.lineBuffer = <<>> /\ a.currentSize = h.currentSize /\ a.headers = g
          /\ a.parameters = h.parameters /\ a.files = h.files /\ a.multipart = h.multipart
          /\ a.bodyData = h.bodyData
      BY <2>3 DEF IsParsed
    <3> HIDE DEF a
    <3>7. Blank(a)
      BY <2>4, <3>6 DEF Blank
    <3>8. a.lineBuffer \o flow = HeadLeft(r, k + 1) \o rest
      BY <1>4, <1>8, <2>8, <3>6, ConcatProperties DEF N
    <3>9. Len(a.lineBuffer) <= Len(NextLine(r, k + 1))
      <4>1. NextLine(r, k + 1) \in Seq(Byte)
        BY <3>1, NextLineIs DEF N
      <4>2. Len(NextLine(r, k + 1)) \in Nat
        BY <4>1
      <4> QED
        BY <3>6, <4>2
    <3>10. AtHeader(a, r, flow, rest, k + 1)
      BY <3>3, <3>6, <3>7, <3>8, <3>9, Zenon DEF AtHeader
    <3>11. whole /\ Request!Fits(r) => a.currentSize = m
      BY <2>5, <3>6
    <3>12. Unfinished(a, r, flow, rest, m, whole)
      BY <1>4, <3>1, <3>6, <3>10, <3>11, HeadUnfinished, Zenon DEF N
    <3> QED
      BY <3>5, <3>12 DEF flow, m
  <2>9. k < N \/ k = N
    BY <1>5
  <2> QED
    BY <2>7, <2>8, <2>9
<1> QED
  BY <1>1, <1>7, <1>8, Zenon

(* A multipart body is read as its parts are meant.                        *)
WithParts(q, r, z) ==
  [[[q EXCEPT !.parameters = MeantOf(r.parts, Len(r.parts))]
      EXCEPT !.currentSize = @ + z] EXCEPT !.files = FilesOf(r.parts, Len(r.parts))]

LEMMA PartsGo ==
  ASSUME NEW q, IsParsed(q), NEW r, Request!IsRequest(r), Request!Honest(r), Request!IsMulti(r), q.bodyData = r.body
  PROVE  \E z \in 0 .. Len(r.body) : Request!parseMultiPartFile(q) = WithParts(q, r, z)
<1> DEFINE N == Len(r.parts)
           ps == MeantOf(r.parts, N)
           fs == FilesOf(r.parts, N)
           m == Request!Fold(Request!OneLine, Request!MultiPart, q.bodyData)
<1>1. /\ r.body = Request!BodyOf(r.parts) /\ \A k \in DOMAIN r.parts : Request!IsPart(r.parts[k])
      /\ \A j, k \in Request!Files(r) : j = k
  BY Zenon DEF Request!Honest
<1>2. \A j, k \in DOMAIN r.parts :
        r.parts[j].kind = "file" /\ r.parts[k].kind = "file" => j = k
  BY <1>1, Zenon DEF Request!Files
<1>3. r.parts \in Seq([kind : STRING, data : Seq(STRING)])
  BY DEF Request!IsRequest
<1>4. PICK place : BetweenParts(Request!Fold(Request!OneLine, Request!MultiPart, Request!BodyOf(r.parts)), place, ps, fs,
                           Len(Request!BodyOf(r.parts)))
  BY <1>1, <1>2, <1>3, PartsTold, Zenon
<1>5. BetweenParts(m, place, ps, fs, Len(r.body))
  BY <1>1, <1>4
<1>6. Request!parseMultiPartFile(q) =
        [q EXCEPT !.parameters = m.parameters, !.currentSize = @ + m.fieldSize,
          !.files = [m.files EXCEPT !.leaked = @ + (IF m.open THEN 1 ELSE 0)]]
  BY Zenon DEF Request!parseMultiPartFile
<1>7. fs.leaked = 0 /\ DOMAIN fs = {"named", "leaked"}
  BY DEF FilesOf
<1>8. [fs EXCEPT !.leaked = @ + 0] = fs
  <2> DEFINE c == IF \E j \in 1 .. N : r.parts[j].kind = "file" THEN 1 ELSE 0
  <2>1. fs = [named |-> c, leaked |-> 0]
    BY DEF FilesOf
  <2> HIDE DEF c, fs
  <2> QED
    BY <2>1
<1> HIDE DEF m, ps, fs
<1>9. PICK z \in 0 .. Len(r.body) : m = PartState(place, "none", <<>>, FALSE, ps, fs, z)
  BY <1>5, Zenon DEF BetweenParts
<1>10. m.parameters = ps /\ m.fieldSize = z /\ m.files = fs /\ ~m.open
  <2>1. PICK shut : shut = FALSE
    OBVIOUS
  <2>2. m = PartState(place, "none", <<>>, shut, ps, fs, z)
    BY <1>9, <2>1
  <2>3. m.parameters = ps /\ m.fieldSize = z /\ m.files = fs /\ m.open = shut
    BY <2>2 DEF PartState
  <2> QED
    BY <2>1, <2>3, Zenon
<1>11. [m.files EXCEPT !.leaked = @ + (IF m.open THEN 1 ELSE 0)] = fs
  <2>1. (IF m.open THEN 1 ELSE 0) = 0
    BY <1>10, Zenon
  <2> QED
    BY <1>8, <1>10, <2>1, Zenon
<1>12. Request!parseMultiPartFile(q) =
         [q EXCEPT !.parameters = ps, !.currentSize = @ + z, !.files = fs]
  BY <1>6, <1>10, <1>11, Zenon
<1>13. [q EXCEPT !.parameters = ps, !.currentSize = @ + z, !.files = fs] = WithParts(q, r, z)
  BY DEF WithParts, ps, fs
<1> QED
  BY <1>12, <1>13

(* All of a body is there.                                                 *)
LEMMA BodyComplete ==
  ASSUME NEW q, IsParsed(q), NEW r, Request!IsRequest(r), Request!Honest(r),
         NEW rest \in Seq(Byte), NEW n, Taken(r, rest, rest, n),
         q.bodyData = r.body, q.query = r.query, (q.multipart <=> Request!IsMulti(r)),
         HeadersKnown(q.headers, r, Len(r.headers)), q.status = "complete",
         q.parameters = MeantOf(r.parts, Len(r.parts)),
         q.files = FilesOf(r.parts, Len(r.parts)),
         NEW whole \in BOOLEAN,
         whole /\ Request!Fits(r) =>
           /\ ~Request!IsMulti(r) => q.currentSize = n
           /\ Request!IsMulti(r) => \E z \in 0 .. Len(r.body) : q.currentSize
                = HeadSize(r) + z
  PROVE  Unfinished(q, r, rest, rest, n, whole)
<1> DEFINE b == Len(r.body)
           hs == HeadSize(r)
           size == Request!Size(r)
           c == q.currentSize
<1>1. KnownAs(q, r)
  BY Zenon DEF KnownAs
<1>2. n = size
  BY RoomLeft DEF Taken
<1>3. /\ b \in Nat /\ hs \in Nat /\ size \in Nat /\ hs = size - b
      /\ Request!Fits(r) /\ Request!IsMulti(r) => size <= maxMultiPartSize
      /\ Request!Fits(r) /\ ~Request!IsMulti(r) => size <= maxSize
  BY SizesFit DEF HeadSize
<1>4. maxSize \in Nat /\ maxMultiPartSize \in Nat
  BY MaxSizes
<1> HIDE DEF b, hs, size, c
<1>5. ASSUME whole, Request!Fits(r) PROVE ~Request!TooMany(q)
  <2>1. CASE Request!IsMulti(r)
    <3>1. PICK z \in 0 .. b : c = hs + z
      BY <1>5, <2>1 DEF b, hs, c
    <3>2. ~(c > maxMultiPartSize)
      BY <1>3, <1>4, <1>5, <2>1, <3>1
    <3> QED
      BY <2>1, <3>2 DEF Request!TooMany, c
  <2>2. CASE ~Request!IsMulti(r)
    <3>1. c = n
      BY <1>5, <2>2 DEF c
    <3>2. ~(c > maxSize)
      BY <1>2, <1>3, <1>4, <1>5, <2>2, <3>1
    <3> QED
      BY <2>2, <3>2 DEF Request!TooMany, c
  <2> QED
    BY <2>1, <2>2
<1>6. Counts(q, r, n) /\ q.status # "abort"
  BY DEF Counts, InHeadOf
<1> QED
  BY <1>1, <1>5, <1>6, Zenon DEF Unfinished

(* More of a body is to come.                                              *)
LEMMA BodyUnfinished ==
  ASSUME NEW q, IsParsed(q), NEW r, Request!IsRequest(r), Request!Honest(r),
         NEW flow \in Seq(Byte), NEW rest \in Seq(Byte), NEW n, Taken(r, flow, rest, n),
         AtBody(q, r, flow, rest),
         NEW whole \in BOOLEAN,
         whole /\ Request!Fits(r) => q.currentSize = IF q.multipart THEN HeadSize(r) ELSE n
  PROVE  Unfinished(q, r, flow, rest, n, whole)
<1> DEFINE b == Len(r.body)
           hs == HeadSize(r)
           size == Request!Size(r)
           c == q.currentSize
<1>1. n \in Nat /\ n <= size
  BY RoomLeft DEF Taken
<1>2. q.status = "waitForBody" /\ (q.multipart <=> Request!IsMulti(r)) /\ Under(q, r, flow, rest)
  BY DEF AtBody, Under
<1>3. /\ b \in Nat /\ hs \in Nat /\ size \in Nat /\ hs = size - b
      /\ Request!Fits(r) /\ Request!IsMulti(r) => size <= maxMultiPartSize
      /\ Request!Fits(r) /\ ~Request!IsMulti(r) => size <= maxSize
  BY SizesFit DEF HeadSize
<1>4. maxSize \in Nat /\ maxMultiPartSize \in Nat
  BY MaxSizes
<1> HIDE DEF b, hs, size, c
<1>5. ASSUME whole, Request!Fits(r) PROVE ~Request!TooMany(q)
  <2>1. CASE Request!IsMulti(r)
    <3>1. c = hs
      BY <1>2, <1>5, <2>1, Zenon DEF hs, c
    <3>2. ~(c > maxMultiPartSize)
      BY <1>3, <1>4, <1>5, <2>1, <3>1
    <3> QED
      BY <1>2, <2>1, <3>2 DEF Request!TooMany, c
  <2>2. CASE ~Request!IsMulti(r)
    <3>1. c = n
      BY <1>2, <1>5, <2>2, Zenon DEF c
    <3>2. ~(c > maxSize)
      BY <1>1, <1>3, <1>4, <1>5, <2>2, <3>1
    <3> QED
      BY <1>2, <2>2, <3>2 DEF Request!TooMany, c
  <2> QED
    BY <2>1, <2>2
<1>6. ASSUME whole, Request!Fits(r) PROVE Counts(q, r, n) /\ q.status # "abort"
  <2>1. ~InHeadOf(q) /\ q.status # "abort"
    BY <1>2 DEF InHeadOf
  <2> QED
    BY <1>6, <2>1, Zenon DEF Counts
<1> QED
  BY <1>2, <1>5, <1>6, Zenon DEF Unfinished

(* So much of a body is read.                                              *)
BytesGo(p, r, s, chunk, left) ==
  /\ chunk \in Seq(Byte) /\ left \in Seq(Byte) /\ s = chunk \o left
  /\ Len(chunk) <= Len(r.body) - Len(p.bodyData)

LEMMA BodyGoes ==
  ASSUME NEW p, IsParsed(p), NEW r, Request!IsRequest(r), Request!Honest(r),
         NEW s \in Seq(Byte), NEW more \in Seq(Byte), NEW rest \in Seq(Byte),
         AtBody(p, r, s \o more, rest), NEW n, Taken(r, s \o more, rest, n),
         NEW whole \in BOOLEAN, whole /\ Request!Fits(r) => Counts(p, r, n),
         NEW chunk, NEW left, BytesGo(p, r, s, chunk, left)
  PROVE  Unfinished(Request!readBody(p, chunk), r, left \o more, rest, n + Len(chunk), whole)
<1> DEFINE v == p.bodyData \o chunk
           q == [p EXCEPT !.bodyData = v]
           flow == left \o more
           m == n + Len(chunk)
           b == Len(r.body)
           size == Len(v)
           e == Len(chunk)
<1>0. /\ chunk \in Seq(Byte) /\ left \in Seq(Byte) /\ s = chunk \o left
      /\ e <= b - Len(p.bodyData)
  BY DEF BytesGo
<1>1. /\ p.status = "waitForBody" /\ p.query = r.query
      /\ p.parameters = <<>> /\ p.files = [named |-> 0, leaked |-> 0]
      /\ HeadersKnown(p.headers, r, Len(r.headers)) /\ (p.multipart <=> Request!IsMulti(r))
      /\ p.expectedBodySize = b /\ Len(p.bodyData) < b
      /\ p.bodyData \o (s \o more) = r.body \o rest
  BY DEF AtBody
<1>2. /\ p.bodyData \in Seq(Byte) /\ p.multipart \in BOOLEAN /\ p.expectedBodySize \in Int
      /\ r.body \in Seq(Byte) /\ b \in Nat
  <2>1. r.body \in Seq(Byte)
    BY LinesTyped
  <2> QED
    BY <2>1 DEF IsParsed
<1>3. v \in Seq(Byte) /\ size \in Nat /\ size <= b /\ e \in Nat
  <2>1. v \in Seq(Byte) /\ size = Len(p.bodyData) + e /\ e \in Nat /\ Len(p.bodyData) \in Nat
    BY <1>0, <1>2, JoinedTwo
  <2>2. e <= b - Len(p.bodyData)
    BY <1>0
  <2> HIDE DEF v, e, b, size
  <2> QED
    BY <1>2, <2>1, <2>2
<1>4. flow \in Seq(Byte) /\ Taken(r, flow, rest, m)
  <2>1. flow \in Seq(Byte)
    BY <1>0, JoinedTwo, Zenon
  <2>2. Taken(r, flow, rest, m)
    BY <1>0, TakenMore, Zenon
  <2> QED
    BY <2>1, <2>2
<1>5. v \o flow = r.body \o rest
  <2>1. s \o more = chunk \o flow
    BY <1>0, OfBytes, Zenon
  <2>2. v \o flow = p.bodyData \o (chunk \o flow)
    <3> DEFINE a == p.bodyData
    <3>1. a \in Seq(Byte) /\ flow \in Seq(Byte) /\ chunk \in Seq(Byte)
      BY <1>0, <1>2, <1>4
    <3> HIDE DEF a, flow
    <3>2. (a \o chunk) \o flow = a \o (chunk \o flow)
      BY <3>1, OfBytes, Zenon
    <3> QED
      BY <3>2 DEF a
  <2> QED
    BY <1>1, <2>1, <2>2, Zenon
<1>6. q = [p EXCEPT !.bodyData = @ \o chunk]
  OBVIOUS
<1> HIDE DEF v
<1>7. /\ IsParsed(q) /\ q.bodyData = v /\ q.multipart = p.multipart
      /\ q.status = p.status /\ q.query = p.query /\ q.headers = p.headers
      /\ q.parameters = p.parameters /\ q.files = p.files
      /\ q.currentSize = p.currentSize /\ q.expectedBodySize = p.expectedBodySize
      /\ q.lineBuffer = p.lineBuffer
  BY <1>3 DEF IsParsed
<1> HIDE DEF q, flow, m, b, size, e
<1>8. whole /\ Request!Fits(r) => p.currentSize = IF p.multipart THEN HeadSize(r) ELSE n
  BY <1>1, Zenon DEF Counts
<1>9. size >= b => v = r.body /\ flow = rest
  <2>1. size >= b => size = b
    BY <1>2, <1>3
  <2> QED
    BY <1>2, <1>3, <1>4, <1>5, <2>1, SplitSame DEF size, b
<1>10. /\ Len(q.bodyData) = size /\ p.expectedBodySize = b
  BY <1>1, <1>7 DEF size
<1>11. Request!Fits(r) /\ Request!IsMulti(r) => ~(size >= maxMultiPartSize)
  <2>1. Request!Fits(r) /\ Request!IsMulti(r) => b < maxMultiPartSize
    BY SizesFit DEF b
  <2> QED
    BY <1>2, <1>3, <2>1, MaxSizes
<1>12. CASE ~p.multipart /\ size >= b
  <2> DEFINE d == [[q EXCEPT !.currentSize = @ + e] EXCEPT !.status = "complete"]
  <2>1. Request!readBody(p, chunk) = d
    <3>1. Request!readBody(p, chunk) = [q EXCEPT !.currentSize = @ + e, !.status = "complete"]
      BY <1>6, <1>7, <1>10, <1>12 DEF Request!readBody, e
    <3> QED
      BY <3>1
  <2>2. /\ IsParsed(d) /\ d.bodyData = v /\ d.multipart = p.multipart
        /\ d.status = "complete" /\ d.query = p.query /\ d.headers = p.headers
        /\ d.parameters = p.parameters /\ d.files = p.files
        /\ d.currentSize = p.currentSize + e
    BY <1>7 DEF IsParsed
  <2> HIDE DEF d
  <2>3. ~Request!IsMulti(r) /\ v = r.body /\ flow = rest
    BY <1>1, <1>9, <1>12
  <2>4. d.parameters = MeantOf(r.parts, Len(r.parts)) /\ d.files = FilesOf(r.parts, Len(r.parts))
    BY <1>1, <2>2, <2>3, NoBody
  <2>5. whole /\ Request!Fits(r) => d.currentSize = m
    BY <1>8, <1>12, <2>2 DEF m, e
  <2>6. Unfinished(d, r, rest, rest, m, whole)
    <3>1. d.bodyData = r.body /\ d.query = r.query /\ (d.multipart <=> Request!IsMulti(r))
          /\ HeadersKnown(d.headers, r, Len(r.headers)) /\ Taken(r, rest, rest, m)
      BY <1>1, <1>4, <2>2, <2>3
    <3> QED
      BY <2>2, <2>3, <2>4, <2>5, <3>1, BodyComplete, Zenon
  <2> QED
    BY <2>1, <2>3, <2>6 DEF flow, m, e
<1>13. CASE ~p.multipart /\ ~(size >= b)
  <2> DEFINE d == [q EXCEPT !.currentSize = @ + e]
  <2>1. Request!readBody(p, chunk) = d
    <3>1. Request!readBody(p, chunk) = [q EXCEPT !.currentSize = @ + e, !.status = @]
      BY <1>6, <1>7, <1>10, <1>13 DEF Request!readBody, e
    <3>2. [q EXCEPT !.currentSize = @ + e, !.status = @] = d
      BY <1>7 DEF IsParsed
    <3> QED
      BY <3>1, <3>2
  <2>2. /\ IsParsed(d) /\ d.bodyData = v /\ d.multipart = p.multipart
        /\ d.status = p.status /\ d.query = p.query /\ d.headers = p.headers
        /\ d.parameters = p.parameters /\ d.files = p.files
        /\ d.expectedBodySize = p.expectedBodySize
        /\ d.currentSize = p.currentSize + e
    BY <1>7 DEF IsParsed
  <2> HIDE DEF d
  <2>3. Len(d.bodyData) < b
    BY <1>2, <1>3, <1>13, <2>2 DEF size
  <2>4. AtBody(d, r, flow, rest)
    BY <1>1, <1>5, <2>2, <2>3 DEF AtBody, b
  <2>5. whole /\ Request!Fits(r) => d.currentSize = m
    BY <1>8, <1>13, <2>2 DEF m, e
  <2>6. whole /\ Request!Fits(r) => d.currentSize = IF d.multipart THEN HeadSize(r) ELSE m
    BY <1>13, <2>2, <2>5, Zenon
  <2>7. Unfinished(d, r, flow, rest, m, whole)
    BY <1>4, <2>2, <2>4, <2>6, BodyUnfinished, Zenon
  <2> QED
    BY <2>1, <2>7 DEF flow, m, e
<1>14. CASE p.multipart /\ size >= maxMultiPartSize
  <2> DEFINE d == [q EXCEPT !.status = "abort"]
  <2>1. Request!readBody(p, chunk) = d
    BY <1>6, <1>7, <1>10, <1>14 DEF Request!readBody
  <2>2. IsParsed(d) /\ d.status = "abort"
    BY <1>7 DEF IsParsed
  <2> HIDE DEF d
  <2>3. ~Request!Fits(r)
    BY <1>1, <1>11, <1>14
  <2>4. Unfinished(d, r, flow, rest, m, whole)
    BY <2>2, <2>3 DEF Unfinished, Under
  <2> QED
    BY <2>1, <2>4 DEF flow, m, e
<1>15. CASE p.multipart /\ ~(size >= maxMultiPartSize) /\ size >= b
  <2>1. Request!IsMulti(r) /\ v = r.body /\ flow = rest
    BY <1>1, <1>9, <1>15
  <2>2. q.bodyData = r.body
    BY <1>7, <2>1
  <2>3. PICK z \in 0 .. b : Request!parseMultiPartFile(q) = WithParts(q, r, z)
    BY <1>7, <2>1, <2>2, PartsGo DEF b
  <2> DEFINE g == WithParts(q, r, z)
             d == [g EXCEPT !.status = "complete"]
  <2>4. Request!readBody(p, chunk) = d
    BY <1>6, <1>7, <1>10, <1>15, <2>3 DEF Request!readBody
  <2>5. /\ IsParsed(d) /\ d.bodyData = v /\ d.multipart = p.multipart
        /\ d.status = "complete" /\ d.query = p.query /\ d.headers = p.headers
        /\ d.parameters = MeantOf(r.parts, Len(r.parts))
        /\ d.files = FilesOf(r.parts, Len(r.parts))
        /\ d.currentSize = p.currentSize + z
    BY <1>7 DEF IsParsed, WithParts
  <2> HIDE DEF d
  <2>6. whole /\ Request!Fits(r) => d.currentSize = HeadSize(r) + z
    BY <1>8, <1>15, <2>5
  <2>7. Unfinished(d, r, rest, rest, m, whole)
    <3>1. d.bodyData = r.body /\ d.query = r.query /\ (d.multipart <=> Request!IsMulti(r))
          /\ HeadersKnown(d.headers, r, Len(r.headers)) /\ Taken(r, rest, rest, m)
      BY <1>1, <1>4, <2>1, <2>5
    <3>2. z \in 0 .. Len(r.body)
      BY DEF b
    <3> QED
      BY <2>1, <2>5, <2>6, <3>1, <3>2, BodyComplete, Zenon
  <2> QED
    BY <2>1, <2>4, <2>7 DEF flow, m, e
<1>16. CASE p.multipart /\ ~(size >= maxMultiPartSize) /\ ~(size >= b)
  <2>1. Request!readBody(p, chunk) = q
    BY <1>6, <1>7, <1>10, <1>16 DEF Request!readBody
  <2>2. Len(q.bodyData) < b
    BY <1>2, <1>3, <1>10, <1>16
  <2>3. AtBody(q, r, flow, rest)
    BY <1>1, <1>5, <1>7, <2>2 DEF AtBody, b
  <2>4. whole /\ Request!Fits(r) => q.currentSize = IF q.multipart THEN HeadSize(r) ELSE m
    BY <1>7, <1>8, <1>16, Zenon
  <2>5. Unfinished(q, r, flow, rest, m, whole)
    BY <1>4, <1>7, <2>3, <2>4, BodyUnfinished, Zenon
  <2> QED
    BY <2>1, <2>5 DEF flow, m, e
<1> QED
  BY <1>12, <1>13, <1>14, <1>15, <1>16

-----------------------------------------------------------------------------
(* What is read, whatever it is part of.                                   *)
Following(p, r, flow, rest, n, whole) ==
  Underway(p, r, flow, rest, n, whole) /\ Taken(r, flow, rest, n)

LEMMA FollowedOn ==
  ASSUME NEW q, NEW r, Request!IsRequest(r), Request!Honest(r), NEW flow, NEW rest, NEW n,
         Taken(r, flow, rest, n), NEW whole \in BOOLEAN,
         Unfinished(q, r, flow, rest, n, whole)
  PROVE  Following(Request!Finished(q), r, flow, rest, n, whole)
  BY FinishedGoes, Zenon DEF Following

LineOff(s, chunk, left, limit) ==
  /\ chunk = Request!readLine(s, limit) /\ left = SubSeq(s, Len(chunk) + 1, Len(s))
  /\ limit \in Nat \ {0} /\ s \in Seq(Byte) /\ s # <<>>

LEMMA FirstLineFollows ==
  ASSUME NEW p, NEW r, Request!IsRequest(r), Request!Honest(r),
         NEW s, NEW more \in Seq(Byte), NEW rest \in Seq(Byte), NEW n,
         NEW whole \in BOOLEAN, Following(p, r, s \o more, rest, n, whole),
         p.status = "waitForRequest",
         NEW chunk, NEW left, NEW limit, LineOff(s, chunk, left, limit), Request!Last(chunk) # Request!CR,
         NEW still \in BOOLEAN, still => whole /\ p.lineBuffer = <<>>
  PROVE  Following(Request!Finished(Request!readRequest(p, chunk)), r, left \o more, rest,
                   n + Len(chunk), still)
<1> DEFINE x == FirstOf(r)
           t == HeadLeft(r, 0) \o rest
<1>0. s \in Seq(Byte)
  BY DEF LineOff
<1>1. /\ IsParsed(p) /\ Taken(r, s \o more, rest, n)
      /\ whole /\ Request!Fits(r) => Counts(p, r, n)
      /\ \/ Under(p, r, s \o more, rest)
         \/ p.status = "complete"
  BY DEF Following, Underway
<1>2. AtFirstLine(p, r, s \o more, rest)
  BY <1>1 DEF Under, AtHeader, AtBody
<1>3. x \in Seq(Byte) /\ ~Request!HasBreak(x)
  BY HonestFirst
<1>4. t \in Seq(Byte)
  <2>1. HeadLeft(r, 0) \in Seq(Byte)
    <3>1. 0 \in 0 .. Len(r.headers)
      BY LinesTyped
    <3> QED
      BY <3>1, LeftTyped
  <2> QED
    BY <2>1, JoinedTwo
<1>5. p.lineBuffer \o (s \o more) = (x \o Request!Break) \o t /\ Len(p.lineBuffer) <= Len(x)
  BY <1>2 DEF AtFirstLine
<1> HIDE DEF x, t
<1>6. Goes(p, r, s, more, rest, chunk, left, x, t)
  BY <1>1, <1>3, <1>4, <1>5, PartGoes DEF LineOff
<1>7. still /\ Request!Fits(r) => p.currentSize = n /\ p.lineBuffer = <<>>
  BY <1>1 DEF Counts, InHeadOf
<1>8. Unfinished(Request!readRequest(p, chunk), r, left \o more, rest, n + Len(chunk), still)
  BY <1>0, <1>1, <1>2, <1>6, <1>7, FirstLineGoes, Zenon DEF x, t
<1>9. chunk \in Seq(Byte) /\ left \in Seq(Byte) /\ s = chunk \o left
  BY <1>6 DEF Goes
<1> DEFINE flow == left \o more
           m == n + Len(chunk)
           q == Request!readRequest(p, chunk)
<1>20. Taken(r, flow, rest, m)
  BY <1>0, <1>1, <1>9, TakenMore
<1>21. Unfinished(q, r, flow, rest, m, still)
  BY <1>8
<1> HIDE DEF flow, m, q
<1>22. Following(Request!Finished(q), r, flow, rest, m, still)
  BY <1>20, <1>21, FollowedOn
<1> QED
  BY <1>22 DEF flow, m, q

(* What comes after the next line.                                         *)
NextPart(r, k, rest) ==
  IF k < Len(r.headers) THEN HeadLeft(r, k + 1) \o rest ELSE r.body \o rest

LEMMA NextParts ==
  ASSUME NEW r, Request!IsRequest(r), Request!Honest(r), NEW k \in 0 .. Len(r.headers),
         NEW rest \in Seq(Byte)
  PROVE  LET x == NextLine(r, k)
             t == NextPart(r, k, rest)
         IN /\ x \in Seq(Byte) /\ ~Request!HasBreak(x) /\ t \in Seq(Byte)
            /\ HeadLeft(r, k) \o rest = (x \o Request!Break) \o t
            /\ k < Len(r.headers) => t = HeadLeft(r, k + 1) \o rest
            /\ k = Len(r.headers) => t = r.body \o rest
<1> DEFINE N == Len(r.headers)
           x == NextLine(r, k)
           t == NextPart(r, k, rest)
<1>3. x \in Seq(Byte) /\ ~Request!HasBreak(x)
  BY NextLineIs
<1>4. N \in Nat /\ r.body \in Seq(Byte)
  BY LinesTyped
<1>5. /\ k < N => HeadLeft(r, k) \o rest = (x \o Request!Break) \o t
      /\ k = N => HeadLeft(r, k) \o rest = (x \o Request!Break) \o t
      /\ k < N => t = HeadLeft(r, k + 1) \o rest
      /\ k = N => t = r.body \o rest
  <2>1. k = N => ~(k < N)
    BY <1>4
  <2>2. k < N => HeadLeft(r, k) \o rest = (x \o Request!Break) \o (HeadLeft(r, k + 1) \o rest)
    BY NextLineIs, Zenon
  <2>3. k = N => HeadLeft(r, k) \o rest = (x \o Request!Break) \o (r.body \o rest)
    BY NextLineIs, Zenon
  <2> HIDE DEF x
  <2> QED
    BY <2>1, <2>2, <2>3, Zenon DEF NextPart
<1>6. t \in Seq(Byte)
  <2>1. CASE k < N
    <3>1. HeadLeft(r, k + 1) \in Seq(Byte)
      <4>1. k + 1 \in 0 .. N
        BY <1>4, <2>1
      <4> QED
        BY <4>1, LeftTyped
    <3>2. HeadLeft(r, k + 1) \o rest \in Seq(Byte)
      BY <3>1, JoinedTwo
    <3> QED
      BY <2>1, <3>2 DEF NextPart
  <2>2. CASE ~(k < N)
    <3>1. r.body \o rest \in Seq(Byte)
      BY <1>4, JoinedTwo
    <3> QED
      BY <2>2, <3>1 DEF NextPart
  <2> QED
    BY <2>1, <2>2
<1>7. k < N \/ k = N
  BY <1>4
<1>8. HeadLeft(r, k) \o rest = (x \o Request!Break) \o t
  <2> HIDE DEF x, t
  <2> QED
    BY <1>5, <1>7
<1> HIDE DEF x, t
<1> QED
  BY <1>3, <1>5, <1>6, <1>8, Zenon DEF x, t, N

LEMMA HeaderFollows ==
  ASSUME NEW p, NEW r, Request!IsRequest(r), Request!Honest(r),
         NEW s, NEW more \in Seq(Byte), NEW rest \in Seq(Byte), NEW n,
         NEW whole \in BOOLEAN, Following(p, r, s \o more, rest, n, whole),
         p.status = "waitForHeader",
         NEW chunk, NEW left, NEW limit, LineOff(s, chunk, left, limit), Request!Last(chunk) # Request!CR,
         NEW still \in BOOLEAN, still => whole /\ p.lineBuffer = <<>>
  PROVE  Following(Request!Finished(Request!readHeader(p, chunk)), r, left \o more, rest,
                   n + Len(chunk), still)
<1>0. s \in Seq(Byte)
  BY DEF LineOff
<1>1. /\ IsParsed(p) /\ Taken(r, s \o more, rest, n)
      /\ whole /\ Request!Fits(r) => Counts(p, r, n)
      /\ \/ Under(p, r, s \o more, rest)
         \/ p.status = "complete"
  BY DEF Following, Underway
<1>2. PICK k \in 0 .. Len(r.headers) : AtHeader(p, r, s \o more, rest, k)
  BY <1>1 DEF Under, AtFirstLine, AtBody
<1> DEFINE x == NextLine(r, k)
           t == NextPart(r, k, rest)
<1>3. /\ x \in Seq(Byte) /\ ~Request!HasBreak(x) /\ t \in Seq(Byte)
      /\ HeadLeft(r, k) \o rest = (x \o Request!Break) \o t
      /\ k < Len(r.headers) => t = HeadLeft(r, k + 1) \o rest
      /\ k = Len(r.headers) => t = r.body \o rest
  BY NextParts
<1> HIDE DEF x, t
<1>8. p.lineBuffer \o (s \o more) = (x \o Request!Break) \o t /\ Len(p.lineBuffer) <= Len(x)
  <2>1. p.lineBuffer \o (s \o more) = HeadLeft(r, k) \o rest /\ Len(p.lineBuffer) <= Len(x)
    BY <1>2 DEF AtHeader, x
  <2> QED
    BY <1>3, <2>1, Zenon
<1>9. Goes(p, r, s, more, rest, chunk, left, x, t)
  BY <1>1, <1>3, <1>8, PartGoes DEF LineOff
<1>10. still /\ Request!Fits(r) => p.currentSize = n /\ p.lineBuffer = <<>>
  BY <1>1 DEF Counts, InHeadOf
<1>11. Unfinished(Request!readHeader(p, chunk), r, left \o more, rest, n + Len(chunk), still)
  BY <1>0, <1>1, <1>2, <1>3, <1>9, <1>10, HeaderGoes, Zenon DEF x
<1>12. chunk \in Seq(Byte) /\ left \in Seq(Byte) /\ s = chunk \o left
  BY <1>9 DEF Goes
<1> DEFINE flow == left \o more
           m == n + Len(chunk)
           q == Request!readHeader(p, chunk)
<1>20. Taken(r, flow, rest, m)
  BY <1>0, <1>1, <1>12, TakenMore
<1>21. Unfinished(q, r, flow, rest, m, still)
  BY <1>11
<1> HIDE DEF flow, m, q
<1>22. Following(Request!Finished(q), r, flow, rest, m, still)
  BY <1>20, <1>21, FollowedOn
<1> QED
  BY <1>22 DEF flow, m, q

BytesOff(p, s, chunk, left) ==
  chunk = Request!readBytes(s, Request!ToRead(p)) /\ left = SubSeq(s, Len(chunk) + 1, Len(s))

LEMMA BodyFollows ==
  ASSUME NEW p, NEW r, Request!IsRequest(r), Request!Honest(r),
         NEW s \in Seq(Byte), NEW more \in Seq(Byte), NEW rest \in Seq(Byte), NEW n,
         NEW whole \in BOOLEAN, Following(p, r, s \o more, rest, n, whole),
         p.status = "waitForBody", NEW chunk, NEW left, BytesOff(p, s, chunk, left),
         NEW still \in BOOLEAN, still => whole
  PROVE  Following(Request!Finished(Request!readBody(p, chunk)), r, left \o more, rest,
                   n + Len(chunk), still)
<1> DEFINE d == Len(r.body) - Len(p.bodyData)
<1>1. /\ IsParsed(p) /\ Taken(r, s \o more, rest, n)
      /\ whole /\ Request!Fits(r) => Counts(p, r, n)
      /\ \/ Under(p, r, s \o more, rest)
         \/ p.status = "complete"
  BY DEF Following, Underway
<1>2. AtBody(p, r, s \o more, rest)
  BY <1>1 DEF Under, AtHeader, AtFirstLine
<1>3. d \in Int /\ d >= 0 /\ Request!ToRead(p) \in Int /\ Request!ToRead(p) >= 0 /\ Request!ToRead(p) <= d
  <2>1. p.expectedBodySize = Len(r.body) /\ Len(p.bodyData) < Len(r.body)
    BY <1>2 DEF AtBody
  <2>2. Len(r.body) \in Nat /\ Len(p.bodyData) \in Nat
    BY <1>1, SizesFit DEF IsParsed
  <2>3. d \in Int /\ d >= 0
    BY <2>1, <2>2
  <2>4. Request!ToRead(p) = IF p.multipart /\ d > ReadBlock THEN ReadBlock ELSE d
    BY <2>1, Zenon DEF Request!ToRead
  <2> HIDE DEF d
  <2>5. Request!ToRead(p) = d \/ (Request!ToRead(p) = ReadBlock /\ d > ReadBlock)
    BY <2>4
  <2> QED
    BY <2>3, <2>5, MaxSizes
<1> HIDE DEF d
<1>4. PICK e \in 0 .. Len(s) : chunk = SubSeq(s, 1, e) /\ e <= Request!ToRead(p)
  BY <1>3, BytesRead DEF BytesOff
<1>5. Len(chunk) = e /\ chunk \in Seq(Byte) /\ left \in Seq(Byte) /\ s = chunk \o left
  BY <1>4, WordsParts DEF BytesOff
<1>6. Len(chunk) <= Len(r.body) - Len(p.bodyData)
  <2>1. Len(chunk) <= d
    BY <1>3, <1>4, <1>5
  <2> QED
    BY <2>1 DEF d
<1>7. still /\ Request!Fits(r) => Counts(p, r, n)
  BY <1>1
<1>8. Unfinished(Request!readBody(p, chunk), r, left \o more, rest, n + Len(chunk), still)
  <2>1. IsParsed(p) /\ Taken(r, s \o more, rest, n)
    BY <1>1
  <2>2. BytesGo(p, r, s, chunk, left)
    BY <1>5, <1>6 DEF BytesGo
  <2> QED
    BY <1>2, <1>7, <2>1, <2>2, BodyGoes, Zenon
<1> DEFINE flow == left \o more
           m == n + Len(chunk)
           q == Request!readBody(p, chunk)
<1>20. Taken(r, flow, rest, m)
  BY <1>1, <1>5, TakenMore
<1>21. Unfinished(q, r, flow, rest, m, still)
  BY <1>8
<1> HIDE DEF flow, m, q
<1>22. Following(Request!Finished(q), r, flow, rest, m, still)
  BY <1>20, <1>21, FollowedOn
<1> QED
  BY <1>22 DEF flow, m, q

-----------------------------------------------------------------------------
(* The requests of a connection, one after the other.                      *)
Keeps(c, cs, m) == "break" \notin cs /\ \A j \in 1 .. m : Request!Honest(c[j])
AsSent(c, cs, outs) ==
  \A i \in DOMAIN outs : Keeps(c, cs, i) /\ Request!Fits(c[i]) =>
    IF outs[i].accepted THEN outs[i].told = Request!Expected(c[i]) ELSE "line" \in cs

(* Between two requests the next is to come, or no more is read.           *)
Waiting(c, cs, outs, flow) ==
  \/ flow = <<>>
  \/ Keeps(c, cs, Len(outs)) =>
       Len(outs) <= Len(c) /\ flow = After(Encoded(c), Len(outs))
Sending(p, c, cs, outs, flow, n) ==
  LET i == Len(outs) + 1
  IN Keeps(c, cs, i) =>
       i <= Len(c) /\ Following(p, c[i], flow, After(Encoded(c), i), n, "line" \notin cs)

RequestInv ==
  /\ TakenInv /\ client \in Clients /\ AsSent(client, cuts, outcomes)
  /\ request = Request!NoRequest => Waiting(client, cuts, outcomes, sock \o stream)
  /\ request # Request!NoRequest => Sending(request, client, cuts, outcomes, sock \o stream, taken)

LEMMA RequestImplied == AsSent(client, cuts, outcomes) <=> Request!ParsedAsSent
  BY Zenon DEF AsSent, Keeps, Request!ParsedAsSent

LEMMA SentStill ==
  ASSUME NEW c, NEW cs, NEW outs, AsSent(c, cs, outs), NEW more, cs \subseteq more
  PROVE  AsSent(c, more, outs)
  BY DEF AsSent, Keeps

LEMMA OutcomeMore ==
  ASSUME NEW c, NEW cs, NEW outs, IsSeq(outs), AsSent(c, cs, outs), NEW o,
         Keeps(c, cs, Len(outs) + 1) /\ Request!Fits(c[Len(outs) + 1]) =>
           IF o.accepted THEN o.told = Request!Expected(c[Len(outs) + 1]) ELSE "line" \in cs
  PROVE  AsSent(c, cs, Append(outs, o)) /\ Len(Append(outs, o)) = Len(outs) + 1
<1> DEFINE s == Append(outs, o)
           n == Len(outs)
<1>1. /\ IsSeq(s) /\ Len(s) = n + 1 /\ s[n + 1] = o
      /\ \A i \in 1 .. n : s[i] = outs[i]
  BY Appended
<1>2. n \in Nat /\ DOMAIN outs = 1 .. n
  BY SeqLen
<1>3. DOMAIN s = 1 .. n + 1
  BY <1>1, SeqLen
<1> HIDE DEF s
<1>4. ASSUME NEW i \in 1 .. n + 1, Keeps(c, cs, i), Request!Fits(c[i])
      PROVE  IF s[i].accepted THEN s[i].told = Request!Expected(c[i]) ELSE "line" \in cs
  <2>1. CASE i = n + 1
    <3>1. s[i] = o /\ Keeps(c, cs, n + 1) /\ Request!Fits(c[n + 1])
      BY <1>1, <1>4, <2>1
    <3>2. IF o.accepted THEN o.told = Request!Expected(c[n + 1]) ELSE "line" \in cs
      BY <3>1, Zenon
    <3> HIDE DEF n
    <3> QED
      BY <2>1, <3>1, <3>2, Zenon
  <2>2. CASE i # n + 1
    <3>1. i \in 1 .. n
      BY <1>2, <2>2
    <3>2. s[i] = outs[i] /\ i \in DOMAIN outs
      BY <1>1, <1>2, <3>1
    <3> QED
      BY <1>4, <3>2, Zenon DEF AsSent
  <2> QED
    BY <2>1, <2>2
<1>5. AsSent(c, cs, s)
  BY <1>3, <1>4, Zenon DEF AsSent
<1> QED
  BY <1>1, <1>5 DEF s

LEMMA RequestInit == Request!Init => RequestInv
<1> SUFFICES ASSUME Request!Init PROVE RequestInv
  OBVIOUS
<1>1. /\ client \in Clients /\ stream = Request!Concat(Encoded(client)) /\ sock = <<>>
      /\ request = Request!NoRequest /\ outcomes = <<>>
  BY Zenon DEF Request!Init, Encoded
<1>2. /\ Encoded(client) \in Seq(Seq(Byte)) /\ stream \in Seq(Byte) /\ Len(client) \in Nat
  BY <1>1, ClientTyped
<1>3. sock \o stream = After(Encoded(client), 0)
  <2>1. sock \o stream = stream
    BY <1>1, <1>2, ConcatProperties
  <2> QED
    BY <1>1, <1>2, <2>1, AfterIs
<1>4. Len(outcomes) = 0 /\ DOMAIN outcomes = {}
  BY <1>1
<1>5. Waiting(client, cuts, outcomes, sock \o stream)
  BY <1>2, <1>3, <1>4 DEF Waiting
<1>6. AsSent(client, cuts, outcomes)
  BY <1>4 DEF AsSent
<1> QED
  BY <1>1, <1>5, <1>6, TakenInit DEF RequestInv

(* The next request begins where the one before it ended.                  *)
LEMMA NextBegins ==
  ASSUME NEW r, Request!IsRequest(r), NEW rest \in Seq(Byte), NEW flow, flow = Request!Encode(r) \o rest,
         NEW whole \in BOOLEAN
  PROVE  Following(Request!NewRequest, r, flow, rest, 0, whole)
<1> DEFINE a == FirstOf(r) \o Request!Break
           d == HeadLeft(r, 0)
           p == Request!NewRequest
           e == Request!Encode(r)
<1>1. e = a \o d /\ e \in Seq(Byte) /\ a \in Seq(Byte) /\ d \in Seq(Byte)
      /\ Len(FirstOf(r)) \in Nat
  <2>1. e = a \o (Request!Concat(LinesOf(r)) \o AfterHead(r)) /\ e \in Seq(Byte)
    BY EncodedAs
  <2>2. 0 \in 0 .. Len(r.headers)
    BY LinesTyped
  <2>3. d = Request!Concat(LinesOf(r)) \o AfterHead(r) /\ d \in Seq(Byte)
    BY <2>2, LeftTyped
  <2>4. FirstOf(r) \in Seq(Byte)
    BY LinesTyped
  <2>5. a \in Seq(Byte) /\ Len(FirstOf(r)) \in Nat
    BY <2>4, BrokenLine
  <2> QED
    BY <2>1, <2>3, <2>5, Zenon
<1>2. flow = a \o (d \o rest)
  <2> HIDE DEF a, d, e
  <2>1. flow = (a \o d) \o rest
    BY <1>1 DEF e
  <2> QED
    BY <1>1, <2>1, OfBytes, Zenon
<1>3. flow \in Seq(Byte) /\ Len(flow) = Request!Size(r) + Len(rest) /\ Len(flow) \in Nat
  <2> HIDE DEF e
  <2>1. flow = e \o rest
    BY DEF e
  <2>2. e \o rest \in Seq(Byte) /\ Len(e \o rest) = Len(e) + Len(rest) /\ Len(e) \in Nat
        /\ Len(rest) \in Nat
    BY <1>1, JoinedTwo
  <2> QED
    BY <2>1, <2>2 DEF Request!Size, e
<1>4. Taken(r, flow, rest, 0)
  BY <1>3 DEF Taken
<1>5. /\ p.status = "waitForRequest" /\ p.lineBuffer = <<>> /\ p.currentSize = 0
      /\ p.headers = [name \in Request!Header |-> <<>>] /\ p.parameters = <<>>
      /\ p.files = [named |-> 0, leaked |-> 0] /\ ~p.multipart /\ p.bodyData = <<>>
      /\ IsParsed(p)
  BY NoLength DEF Request!NewRequest, IsParsed
<1> HIDE DEF p, a, d
<1>6. p.lineBuffer \o flow = a \o (d \o rest)
  BY <1>2, <1>3, <1>5, ConcatProperties
<1>7. AtFirstLine(p, r, flow, rest)
  <2>1. Len(p.lineBuffer) <= Len(FirstOf(r))
    BY <1>1, <1>5
  <2> QED
    BY <1>5, <1>6, <2>1 DEF AtFirstLine, Blank, a, d
<1>8. Under(p, r, flow, rest)
  BY <1>7 DEF Under
<1>9. Counts(p, r, 0) /\ p.status # "abort"
  BY <1>5 DEF Counts
<1>10. Following(p, r, flow, rest, 0, whole)
  BY <1>4, <1>5, <1>8, <1>9, Zenon DEF Following, Underway
<1> QED
  BY <1>10 DEF p

LEMMA CreateSends ==
  ASSUME NEW c \in Clients, NEW cs, NEW outs, IsSeq(outs), NEW flow, flow # <<>>,
         Waiting(c, cs, outs, flow)
  PROVE  Sending(Request!NewRequest, c, cs, outs, flow, 0)
<1> DEFINE n == Len(outs)
           ss == Encoded(c)
<1>1. /\ Len(c) \in Nat /\ ss \in Seq(Seq(Byte)) /\ Len(ss) = Len(c) /\ n \in Nat
      /\ \A k \in 1 .. Len(c) : Request!IsRequest(c[k]) /\ ss[k] = Request!Encode(c[k])
  BY ClientTyped, SeqLen
<1>2. SUFFICES ASSUME Keeps(c, cs, n + 1)
               PROVE  n + 1 <= Len(c)
                      /\ Following(Request!NewRequest, c[n + 1], flow, After(ss, n + 1), 0, "line" \notin cs)
  BY Zenon DEF Sending
<1>3. Keeps(c, cs, n)
  BY <1>1, <1>2 DEF Keeps
<1>4. n <= Len(c) /\ flow = After(ss, n)
  BY <1>3, Zenon DEF Waiting
<1> HIDE DEF n, ss
<1>5. n # Len(c)
  BY <1>1, <1>4, AfterIs
<1>6. n + 1 \in 1 .. Len(c) /\ (n + 1) - 1 = n
  BY <1>1, <1>4, <1>5
<1>7. flow = Request!Encode(c[n + 1]) \o After(ss, n + 1) /\ After(ss, n + 1) \in Seq(Byte)
  <2>1. n + 1 \in 1 .. Len(ss) /\ n + 1 \in 0 .. Len(ss)
    BY <1>1, <1>6
  <2>2. After(ss, (n + 1) - 1) = ss[n + 1] \o After(ss, n + 1)
    BY <1>1, <2>1, AfterIs
  <2>3. ss[n + 1] = Request!Encode(c[n + 1])
    BY <1>1, <1>6
  <2>4. After(ss, n + 1) \in Seq(Byte)
    BY <1>1, <2>1, AfterIs
  <2> QED
    BY <1>4, <1>6, <2>2, <2>3, <2>4
<1>8. ("line" \notin cs) \in BOOLEAN
  OBVIOUS
<1>9. Request!IsRequest(c[n + 1])
  BY <1>1, <1>6
<1>10. Following(Request!NewRequest, c[n + 1], flow, After(ss, n + 1), 0, "line" \notin cs)
  BY <1>7, <1>8, <1>9, NextBegins, Zenon
<1> QED
  BY <1>6, <1>10 DEF n, ss

(* Reading goes on with the request that is read.                          *)
ReadOn(p, q, s, more, left, n, m, cs, cuts2) ==
  \A r, rest :
    Request!IsRequest(r) /\ Request!Honest(r) /\ rest \in Seq(Byte) /\ "break" \notin cuts2
      /\ Following(p, r, s \o more, rest, n, "line" \notin cs)
    => Following(q, r, left \o more, rest, m, "line" \notin cuts2)

LEMMA ReadSends ==
  ASSUME NEW c \in Clients, NEW cs, NEW outs, IsSeq(outs), NEW p, NEW q, NEW s, NEW more,
         NEW left, NEW n, NEW m, NEW cuts2, cs \subseteq cuts2,
         ReadOn(p, q, s, more, left, n, m, cs, cuts2),
         Sending(p, c, cs, outs, s \o more, n)
  PROVE  Sending(q, c, cuts2, outs, left \o more, m)
<1> DEFINE i == Len(outs) + 1
           rest == After(Encoded(c), i)
<1>1. SUFFICES ASSUME Keeps(c, cuts2, i)
               PROVE  i <= Len(c)
                      /\ Following(q, c[i], left \o more, rest, m, "line" \notin cuts2)
  BY Zenon DEF Sending
<1>2. Keeps(c, cs, i) /\ "break" \notin cuts2
  BY <1>1 DEF Keeps
<1>3. i <= Len(c) /\ Following(p, c[i], s \o more, rest, n, "line" \notin cs)
  BY <1>2, Zenon DEF Sending
<1>4. i \in 1 .. Len(c) /\ i \in 1 .. i
  <2>1. Len(outs) \in Nat /\ Len(c) \in Nat
    BY SeqLen, ClientTyped
  <2> QED
    BY <1>3, <2>1
<1>5. Request!IsRequest(c[i]) /\ Request!Honest(c[i]) /\ rest \in Seq(Byte)
  <2>1. Request!IsRequest(c[i]) /\ i \in 0 .. Len(Encoded(c)) /\ Encoded(c) \in Seq(Seq(Byte))
    BY <1>4, ClientTyped
  <2>2. Request!Honest(c[i])
    BY <1>2, <1>4, Zenon DEF Keeps
  <2>3. rest \in Seq(Byte)
    BY <2>1, AfterIs
  <2> QED
    BY <2>1, <2>2, <2>3
<1> HIDE DEF i, rest
<1> QED
  BY <1>2, <1>3, <1>5, Zenon DEF ReadOn

LEMMA LineSome ==
  ASSUME NEW s \in Seq(Byte), s # <<>>, NEW limit \in Nat \ {0}
  PROVE  Request!readLine(s, limit) # <<>>
<1>1. PICK e \in 1 .. Len(s) : Request!readLine(s, limit) = SubSeq(s, 1, e)
  BY LineRead
<1>2. e \in 0 .. Len(s) /\ e # 0
  OBVIOUS
<1>3. Len(Request!readLine(s, limit)) = e
  BY <1>1, <1>2, WordsParts
<1> QED
  BY <1>2, <1>3

(* The limit with which a line is read.                                    *)
LEMMA LimitIs ==
  ASSUME NEW p, NEW n, WithinLimits(p, n), n \in Nat, InHeadOf(p)
  PROVE  maxSize - p.currentSize + 1 \in Nat \ {0}
<1>1. p.currentSize \in n .. maxSize /\ maxSize \in Nat
  BY AllowedInHead, MaxSizes DEF WithinLimits
<1> QED
  BY <1>1

CutsOf(p, chunk) ==
  (IF p.lineBuffer # <<>> THEN {"line"} ELSE {}) \cup
  (IF chunk # <<>> /\ Request!Last(chunk) = Request!CR THEN {"break"} ELSE {})

LEMMA RequestReadOn ==
  ASSUME NEW p, p.status = "waitForRequest", NEW s, NEW more \in Seq(Byte), NEW chunk,
         NEW left, NEW limit, LineOff(s, chunk, left, limit), NEW n, NEW cs
  PROVE  ReadOn(p, Request!Finished(Request!readRequest(p, chunk)), s, more, left, n, n + Len(chunk), cs,
                cs \cup CutsOf(p, chunk))
<1> DEFINE cuts2 == cs \cup CutsOf(p, chunk)
           whole == "line" \notin cs
           still == "line" \notin cuts2
<1>1. SUFFICES ASSUME NEW r, NEW rest, Request!IsRequest(r), Request!Honest(r), rest \in Seq(Byte),
                      "break" \notin cuts2, Following(p, r, s \o more, rest, n, whole)
               PROVE  Following(Request!Finished(Request!readRequest(p, chunk)), r, left \o more, rest,
                                n + Len(chunk), still)
  BY Zenon DEF ReadOn
<1>2. /\ chunk = Request!readLine(s, limit) /\ left = SubSeq(s, Len(chunk) + 1, Len(s))
      /\ limit \in Nat \ {0} /\ s \in Seq(Byte) /\ s # <<>>
  BY DEF LineOff
<1>3. Request!Last(chunk) # Request!CR
  BY <1>1, <1>2, LineSome DEF CutsOf
<1>4. still => whole /\ p.lineBuffer = <<>>
  BY DEF CutsOf
<1>5. whole \in BOOLEAN /\ still \in BOOLEAN
  OBVIOUS
<1> HIDE DEF whole, still, cuts2
<1> QED
  BY <1>1, <1>3, <1>4, <1>5, FirstLineFollows, Zenon

LEMMA HeaderReadOn ==
  ASSUME NEW p, p.status = "waitForHeader", NEW s, NEW more \in Seq(Byte), NEW chunk,
         NEW left, NEW limit, LineOff(s, chunk, left, limit), NEW n, NEW cs
  PROVE  ReadOn(p, Request!Finished(Request!readHeader(p, chunk)), s, more, left, n, n + Len(chunk), cs,
                cs \cup CutsOf(p, chunk))
<1> DEFINE cuts2 == cs \cup CutsOf(p, chunk)
           whole == "line" \notin cs
           still == "line" \notin cuts2
<1>1. SUFFICES ASSUME NEW r, NEW rest, Request!IsRequest(r), Request!Honest(r), rest \in Seq(Byte),
                      "break" \notin cuts2, Following(p, r, s \o more, rest, n, whole)
               PROVE  Following(Request!Finished(Request!readHeader(p, chunk)), r, left \o more, rest,
                                n + Len(chunk), still)
  BY Zenon DEF ReadOn
<1>2. /\ chunk = Request!readLine(s, limit) /\ left = SubSeq(s, Len(chunk) + 1, Len(s))
      /\ limit \in Nat \ {0} /\ s \in Seq(Byte) /\ s # <<>>
  BY DEF LineOff
<1>3. Request!Last(chunk) # Request!CR
  BY <1>1, <1>2, LineSome DEF CutsOf
<1>4. still => whole /\ p.lineBuffer = <<>>
  BY DEF CutsOf
<1>5. whole \in BOOLEAN /\ still \in BOOLEAN
  OBVIOUS
<1> HIDE DEF whole, still, cuts2
<1> QED
  BY <1>1, <1>3, <1>4, <1>5, HeaderFollows, Zenon

LEMMA BodyReadOn ==
  ASSUME NEW p, p.status = "waitForBody", NEW s \in Seq(Byte), NEW more \in Seq(Byte),
         NEW chunk, NEW left, BytesOff(p, s, chunk, left), NEW n, NEW cs
  PROVE  ReadOn(p, Request!Finished(Request!readBody(p, chunk)), s, more, left, n, n + Len(chunk), cs,
                cs \cup CutsOf(p, chunk))
<1> DEFINE cuts2 == cs \cup CutsOf(p, chunk)
           whole == "line" \notin cs
           still == "line" \notin cuts2
<1>1. SUFFICES ASSUME NEW r, NEW rest, Request!IsRequest(r), Request!Honest(r), rest \in Seq(Byte),
                      "break" \notin cuts2, Following(p, r, s \o more, rest, n, whole)
               PROVE  Following(Request!Finished(Request!readBody(p, chunk)), r, left \o more, rest,
                                n + Len(chunk), still)
  BY Zenon DEF ReadOn
<1>2. still => whole
  OBVIOUS
<1>3. whole \in BOOLEAN /\ still \in BOOLEAN
  OBVIOUS
<1> HIDE DEF whole, still, cuts2
<1> QED
  BY <1>1, <1>2, <1>3, BodyFollows

(* A read goes on with the request, or is of no account.                   *)
LEMMA ReadKeeps ==
  ASSUME RequestInv, Request!ReadRequest \/ Request!ReadHeader \/ Request!ReadBody PROVE RequestInv'
<1> DEFINE c == client
           outs == outcomes
<1>1. TakenInv' /\ WithinLimits(request', taken')
  BY TakenRead DEF RequestInv
<1>2. request' # Request!NoRequest
  BY <1>1 DEF WithinLimits, Request!NoRequest, InHeadOf
<1>3. /\ sock \in Seq(Byte) /\ stream \in Seq(Byte) /\ taken \in Nat /\ IsSeq(outcomes)
      /\ client \in Clients /\ AsSent(client, cuts, outcomes)
      /\ request # Request!NoRequest =>
           /\ WithinLimits(request, taken)
           /\ Sending(request, client, cuts, outcomes, sock \o stream, taken)
  BY DEF RequestInv, TakenInv
<1>4. \E chunk :
        /\ ReadOn(request, request', sock, stream, sock', taken, taken', cuts, cuts')
        /\ request # Request!NoRequest /\ cuts \subseteq cuts'
        /\ UNCHANGED <<client, stream, outcomes>>
  <2>1. CASE Request!ReadRequest
    <3> DEFINE chunk == Request!LineOfHead
               limit == maxSize - request.currentSize + 1
    <3>1. /\ sock # <<>> /\ request.status = "waitForRequest"
          /\ request' = Request!Finished(Request!readRequest(request, chunk))
          /\ taken' = taken + Len(chunk) /\ cuts' = cuts \cup CutsOf(request, chunk)
          /\ sock' = SubSeq(sock, Len(chunk) + 1, Len(sock))
          /\ UNCHANGED <<client, stream, outcomes>>
      BY <2>1 DEF Request!ReadRequest, Request!Reads, Request!CutBy, CutsOf
    <3>2. request # Request!NoRequest
      BY <3>1 DEF Request!NoRequest
    <3>3. limit \in Nat \ {0}
      BY <1>3, <3>1, <3>2, LimitIs DEF InHeadOf
    <3>4. chunk = Request!readLine(sock, limit)
      BY DEF Request!LineOfHead
    <3> HIDE DEF chunk, limit
    <3>5. LineOff(sock, chunk, sock', limit)
      BY <1>3, <3>1, <3>3, <3>4 DEF LineOff
    <3>6. ReadOn(request, Request!Finished(Request!readRequest(request, chunk)), sock, stream, sock', taken,
                 taken + Len(chunk), cuts, cuts \cup CutsOf(request, chunk))
      BY <1>3, <3>1, <3>5, RequestReadOn
    <3> QED
      BY <3>1, <3>2, <3>6
  <2>2. CASE Request!ReadHeader
    <3> DEFINE chunk == Request!LineOfHead
               limit == maxSize - request.currentSize + 1
    <3>1. /\ sock # <<>> /\ request.status = "waitForHeader"
          /\ request' = Request!Finished(Request!readHeader(request, chunk))
          /\ taken' = taken + Len(chunk) /\ cuts' = cuts \cup CutsOf(request, chunk)
          /\ sock' = SubSeq(sock, Len(chunk) + 1, Len(sock))
          /\ UNCHANGED <<client, stream, outcomes>>
      BY <2>2 DEF Request!ReadHeader, Request!Reads, Request!CutBy, CutsOf
    <3>2. request # Request!NoRequest
      BY <3>1 DEF Request!NoRequest
    <3>3. limit \in Nat \ {0}
      BY <1>3, <3>1, <3>2, LimitIs DEF InHeadOf
    <3>4. chunk = Request!readLine(sock, limit)
      BY DEF Request!LineOfHead
    <3> HIDE DEF chunk, limit
    <3>5. LineOff(sock, chunk, sock', limit)
      BY <1>3, <3>1, <3>3, <3>4 DEF LineOff
    <3>6. ReadOn(request, Request!Finished(Request!readHeader(request, chunk)), sock, stream, sock', taken,
                 taken + Len(chunk), cuts, cuts \cup CutsOf(request, chunk))
      BY <1>3, <3>1, <3>5, HeaderReadOn
    <3> QED
      BY <3>1, <3>2, <3>6
  <2>3. CASE Request!ReadBody
    <3> DEFINE chunk == Request!readBytes(sock, Request!ToRead(request))
    <3>1. /\ sock # <<>> /\ request.status = "waitForBody"
          /\ request' = Request!Finished(Request!readBody(request, chunk))
          /\ taken' = taken + Len(chunk) /\ cuts' = cuts \cup CutsOf(request, chunk)
          /\ sock' = SubSeq(sock, Len(chunk) + 1, Len(sock))
          /\ UNCHANGED <<client, stream, outcomes>>
      BY <2>3 DEF Request!ReadBody, Request!Reads, Request!CutBy, CutsOf
    <3>2. request # Request!NoRequest
      BY <3>1 DEF Request!NoRequest
    <3>3. BytesOff(request, sock, chunk, sock')
      BY <3>1 DEF BytesOff
    <3> HIDE DEF chunk
    <3>4. ReadOn(request, Request!Finished(Request!readBody(request, chunk)), sock, stream, sock', taken,
                 taken + Len(chunk), cuts, cuts \cup CutsOf(request, chunk))
      BY <1>3, <3>1, <3>3, BodyReadOn
    <3> QED
      BY <3>1, <3>2, <3>4
  <2> QED
    BY <2>1, <2>2, <2>3
<1>5. Sending(request', client, cuts', outcomes, sock' \o stream, taken')
  BY <1>3, <1>4, ReadSends
<1>6. AsSent(client, cuts', outcomes)
  BY <1>3, <1>4, SentStill
<1> QED
  BY <1>1, <1>2, <1>3, <1>4, <1>5, <1>6 DEF RequestInv

LEMMA RequestNext == ASSUME RequestInv, Request!Next PROVE RequestInv'
<1>0. /\ sock \in Seq(Byte) /\ stream \in Seq(Byte) /\ taken \in Nat /\ IsSeq(outcomes)
      /\ client \in Clients /\ AsSent(client, cuts, outcomes) /\ TakenInv
      /\ request = Request!NoRequest => Waiting(client, cuts, outcomes, sock \o stream)
      /\ request # Request!NoRequest =>
           Sending(request, client, cuts, outcomes, sock \o stream, taken)
  BY DEF RequestInv, TakenInv
<1>00. TakenInv'
  BY <1>0, TakenNext
<1>1. ASSUME NEW n \in 1 .. Len(stream), Request!Arrive(n) PROVE RequestInv'
  <2>1. /\ sock = <<>> /\ sock' = SubSeq(stream, 1, n)
        /\ stream' = SubSeq(stream, n + 1, Len(stream))
        /\ UNCHANGED <<client, request, outcomes, taken, cuts>>
    BY <1>1 DEF Request!Arrive
  <2>2. n \in 0 .. Len(stream)
    OBVIOUS
  <2>3. sock' \o stream' = stream /\ sock \o stream = stream
    BY <1>0, <2>1, <2>2, WordsParts, ConcatProperties
  <2> QED
    BY <1>0, <1>00, <2>1, <2>3 DEF RequestInv
<1>2. CASE Request!Create
  <2>1. /\ sock # <<>> /\ request.status = "none" /\ request' = Request!NewRequest /\ taken' = 0
        /\ UNCHANGED <<client, stream, sock, outcomes, cuts>>
    BY <1>2 DEF Request!Create
  <2>2. request = Request!NoRequest
    BY <1>0, <2>1 DEF TakenInv, WithinLimits, InHeadOf
  <2>3. sock \o stream # <<>>
    <3>1. Len(sock \o stream) = Len(sock) + Len(stream) /\ Len(sock) \in Nat
          /\ Len(stream) \in Nat /\ Len(sock) # 0 /\ sock \o stream \in Seq(Byte)
      BY <1>0, <2>1, JoinedTwo
    <3> QED
      BY <3>1
  <2>4. Sending(Request!NewRequest, client, cuts, outcomes, sock \o stream, 0)
    BY <1>0, <2>2, <2>3, CreateSends
  <2>5. Request!NewRequest # Request!NoRequest
    BY DEF Request!NewRequest, Request!NoRequest
  <2> QED
    BY <1>0, <1>00, <2>1, <2>4, <2>5 DEF RequestInv
<1>3. CASE Request!ReadRequest \/ Request!ReadHeader \/ Request!ReadBody
  BY <1>3, ReadKeeps
<1>4. CASE Request!Complete
  <2> DEFINE o == [accepted |-> TRUE, told |-> Request!Told(request),
                   taken |-> taken, multipart |-> request.multipart]
             i == Len(outcomes) + 1
             flow == sock \o stream
             rest == After(Encoded(client), i)
  <2>1. /\ request.status = "complete" /\ request' = Request!NoRequest
        /\ outcomes' = Append(outcomes, o)
        /\ UNCHANGED <<client, stream, sock, taken, cuts>>
    BY <1>4 DEF Request!Complete
  <2>2. request # Request!NoRequest
    BY <2>1 DEF Request!NoRequest
  <2>3. o.accepted /\ o.told = Request!Told(request)
    OBVIOUS
  <2> HIDE DEF o, i, flow, rest
  <2>4. Keeps(client, cuts, i) =>
          /\ i <= Len(client)
          /\ Following(request, client[i], flow, rest, taken, "line" \notin cuts)
    BY <1>0, <2>2, Zenon DEF Sending, i, flow, rest
  <2>5. Keeps(client, cuts, i) =>
          i <= Len(client) /\ Request!Told(request) = Request!Expected(client[i]) /\ flow = rest
    <3>1. ~Under(request, client[i], flow, rest)
      BY <2>1 DEF Under, AtFirstLine, AtHeader, AtBody
    <3> QED
      BY <2>4, <3>1, Zenon DEF Following, Underway
  <2>6. Keeps(client, cuts, i) /\ Request!Fits(client[i]) =>
          IF o.accepted THEN o.told = Request!Expected(client[i]) ELSE "line" \in cuts
    BY <2>3, <2>5, Zenon
  <2>7. AsSent(client, cuts, outcomes') /\ Len(outcomes') = i
    BY <1>0, <2>1, <2>6, OutcomeMore DEF i
  <2>8. Waiting(client, cuts, outcomes', flow)
    BY <2>5, <2>7, Zenon DEF Waiting, rest
  <2> QED
    BY <1>0, <1>00, <2>1, <2>7, <2>8 DEF RequestInv, flow
<1>5. CASE Request!Abort
  <2> DEFINE o == [accepted |-> FALSE]
             i == Len(outcomes) + 1
             flow == sock \o stream
             rest == After(Encoded(client), i)
  <2>1. /\ request.status = "abort" /\ request' = Request!NoRequest
        /\ outcomes' = Append(outcomes, o) /\ sock' = <<>> /\ stream' = <<>>
        /\ UNCHANGED <<client, taken, cuts>>
    BY <1>5 DEF Request!Abort
  <2>2. request # Request!NoRequest
    BY <2>1 DEF Request!NoRequest
  <2>3. ~o.accepted
    OBVIOUS
  <2> HIDE DEF o, i, flow, rest
  <2>4. Keeps(client, cuts, i) =>
          Following(request, client[i], flow, rest, taken, "line" \notin cuts)
    BY <1>0, <2>2, Zenon DEF Sending, i, flow, rest
  <2>5. Keeps(client, cuts, i) /\ Request!Fits(client[i]) => "line" \in cuts
    BY <2>1, <2>4, Zenon DEF Following, Underway
  <2>6. Keeps(client, cuts, i) /\ Request!Fits(client[i]) =>
          IF o.accepted THEN o.told = Request!Expected(client[i]) ELSE "line" \in cuts
    BY <2>3, <2>5, Zenon
  <2>7. AsSent(client, cuts, outcomes')
    BY <1>0, <2>1, <2>6, OutcomeMore DEF i
  <2>8. sock' \o stream' = <<>>
    BY <2>1
  <2>9. Waiting(client, cuts, outcomes', sock' \o stream')
    BY <2>8, Zenon DEF Waiting
  <2> QED
    BY <1>0, <1>00, <2>1, <2>7, <2>9 DEF RequestInv
<1> QED
  BY <1>1, <1>2, <1>3, <1>4, <1>5 DEF Request!Next

LEMMA RequestStutter == ASSUME RequestInv, UNCHANGED Request!vars PROVE RequestInv'
<1>1. TakenInv'
  BY DEF RequestInv, TakenInv, Request!AcceptedFits, Request!vars
<1> QED
  BY <1>1 DEF RequestInv, Request!vars

RequestScene == scene = "request" => RequestInv

(* However the network cuts what a client sends, each of its requests      *)
(* becomes what the client means, or is refused for its size or because a  *)
(* line of a head came in parts; and none is accepted that took more than  *)
(* the limits allow (HttpRequest, ParsedAsSent of the run formats).        *)
THEOREM RequestsParsedAsSent == Spec => []ParsedAsSent
<1>1. Init => RequestScene
  BY RequestInit DEF Init, RequestScene
<1>2. RequestScene /\ [Next]_vars => RequestScene'
  <2> SUFFICES ASSUME RequestScene, [Next]_vars, scene' = "request" PROVE RequestInv'
    BY DEF RequestScene
  <2>1. scene = "request" /\ RequestInv
    BY DEF Next, vars, RequestScene
  <2>2. CASE Next
    BY <2>1, <2>2, RequestNext DEF Next
  <2>3. CASE UNCHANGED vars
    <3>1. UNCHANGED Request!vars
      BY <2>3 DEF vars, requestVars, Request!vars
    <3> QED
      BY <2>1, <3>1, RequestStutter
  <2> QED
    BY <2>2, <2>3
<1>3. RequestScene => ParsedAsSent
  BY RequestImplied DEF RequestScene, ParsedAsSent, RequestInv, TakenInv
<1> QED
  BY <1>1, <1>2, <1>3, PTL DEF Spec
=============================================================================
