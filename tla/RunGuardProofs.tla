--------------------------- MODULE RunGuardProofs ---------------------------
(***************************************************************************)
(* The run guard lets one instance run, for any number of processes and of *)
(* crashes: GuardInv is inductive.  Every step of a process inside its     *)
(* critical section finds the others outside of theirs, or running.        *)
(***************************************************************************)
EXTENDS RunGuard, TLAPS

(* Every variable keeps its type.                                          *)
THEOREM TypeCorrectness == Spec => []TypeOK
<1>1. Init => TypeOK
  <2> SUFFICES ASSUME Init PROVE TypeOK
    OBVIOUS
  <2>1. pc \in [Proc -> Critical \cup {"out", "ctor", "check", "try", "running",
                                       "last"}]
    BY DEF Init
  <2>2. result \in [Proc -> BOOLEAN]
    BY DEF Init
  <2> QED
    BY <2>1, <2>2 DEF Init, TypeOK
<1>2. TypeOK /\ [Next]_vars => TypeOK'
  <2> SUFFICES ASSUME TypeOK, [Next]_vars PROVE TypeOK'
    OBVIOUS
  <2> USE ProcAssumption DEF TypeOK
  <2>1. CASE UNCHANGED vars
    BY <2>1 DEF vars
  <2>2. ASSUME NEW p \in Proc, Start(p) \/ Leave(p) PROVE TypeOK'
    BY <2>2 DEF Start, Leave, Goto, Critical
  <2>3. ASSUME NEW p \in Proc, Construct(p) PROVE TypeOK'
    BY <2>3 DEF Construct, CtorAcquire, FixAttach, FixDetach, CtorRelease,
                Acquire, Release, Attach, Detach, Goto, Critical
  <2>4. ASSUME NEW p \in Proc, IsAnotherRunning(p) PROVE TypeOK'
    BY <2>4 DEF IsAnotherRunning, CheckAcquire, Probe, ProbeDetach,
                ProbeRelease, Acquire, Release, Attach, Detach, Goto, Critical
  <2>5. ASSUME NEW p \in Proc, TryToRun(p) PROVE TypeOK'
    BY <2>5 DEF TryToRun, TryAcquire, Create, CreateAttach, CreateRelease,
                Acquire, Release, Attach, Goto, Critical
  <2>6. ASSUME NEW p \in Proc, Finish(p) PROVE TypeOK'
    BY <2>6 DEF Finish, LastAcquire, LastDetach, LastRelease,
                Acquire, Release, Detach, Goto, Critical
  <2>7. ASSUME NEW p \in Proc, Crash(p) PROVE TypeOK'
    BY <2>7 DEF Crash, Undo, Critical
  <2> QED
    BY <2>1, <2>2, <2>3, <2>4, <2>5, <2>6, <2>7 DEF Next
<1> QED
  BY <1>1, <1>2, PTL DEF Spec

-----------------------------------------------------------------------------
(* What detach does to the set of users.                                   *)
LEMMA UsersAfterDetach ==
  ASSUME NEW p, Detach(p)
  PROVE  /\ attached' # {} => attached # {} /\ attached # {p}
         /\ attached' = {} => attached \subseteq {p}
         /\ segment' => segment /\ (p \in attached => attached # {p})
<1> QED
  BY DEF Detach

LEMMA InitEstablishes == Init => GuardInv
  BY DEF Init, GuardInv, LockIsExclusive, RunnerKeepsItsSegment, AtMostOneRuns,
         UsersAreKnown, ResultIsFresh, CreatorIsAlone, NoLeftover,
         RefusedForAReason, Running, Creating, Critical, Holding

(* A process that takes memLock, or starts, or leaves its main loop,       *)
(* changes nothing the others can see.                                     *)
LEMMA MoveKeeps ==
  ASSUME TypeOK, GuardInv, NEW p \in Proc,
         Start(p) \/ Leave(p) \/ CtorAcquire(p) \/ CheckAcquire(p)
           \/ TryAcquire(p) \/ LastAcquire(p)
  PROVE  GuardInv'
<1> USE ProcAssumption DEF TypeOK, Start, Leave, CtorAcquire, CheckAcquire,
        TryAcquire, LastAcquire, Acquire, Goto, GuardInv
<1>1. \A q \in Proc : Running(q)' = Running(q) /\ Creating(q)' = Creating(q)
  BY DEF Running, Creating, Holding
<1>2. LockIsExclusive'
  BY DEF LockIsExclusive, Critical
<1>3. RunnerKeepsItsSegment' /\ AtMostOneRuns'
  BY <1>1 DEF RunnerKeepsItsSegment, AtMostOneRuns
<1>4. UsersAreKnown'
  BY <1>1 DEF UsersAreKnown, LockIsExclusive, Critical
<1>5. ResultIsFresh'
  BY DEF ResultIsFresh
<1>6. CreatorIsAlone' /\ NoLeftover'
  BY <1>1 DEF CreatorIsAlone, NoLeftover
<1>7. RefusedForAReason'
  BY <1>1 DEF RefusedForAReason
<1> QED
  BY <1>2, <1>3, <1>4, <1>5, <1>6, <1>7

LEMMA ConstructKeeps ==
  ASSUME TypeOK, GuardInv, NEW p \in Proc,
         FixAttach(p) \/ FixDetach(p) \/ CtorRelease(p)
  PROVE  GuardInv'
<1> USE ProcAssumption DEF TypeOK, FixAttach, FixDetach, CtorRelease, Attach,
        Detach, Release, Goto, GuardInv
<1>0. /\ \A q \in Proc \ {p} : pc[q] \notin Critical /\ pc'[q] = pc[q]
      /\ \A q \in Proc : result'[q] = result[q]
      /\ ~Running(p) /\ ~Creating(p)
  BY DEF LockIsExclusive, Running, Creating, Holding, Critical
<1>1. \A q \in Proc : Running(q)' = Running(q) /\ ~Creating(q)'
  BY <1>0 DEF Running, Creating, Holding, Critical
<1>2. LockIsExclusive'
  BY <1>0 DEF LockIsExclusive, Critical
<1>3. RunnerKeepsItsSegment' /\ AtMostOneRuns'
  BY <1>0, <1>1 DEF RunnerKeepsItsSegment, AtMostOneRuns
<1>4. UsersAreKnown'
  BY <1>0, <1>1, UsersAfterDetach DEF UsersAreKnown, Critical
<1>5. ResultIsFresh'
  BY <1>0 DEF ResultIsFresh
<1>6. CreatorIsAlone'
  BY <1>1 DEF CreatorIsAlone
<1>7. NoLeftover'
  <2>1. CASE Detach(p)
    BY <1>0, <1>1, <2>1, UsersAfterDetach DEF NoLeftover, UsersAreKnown, Critical, Creating
  <2>2. CASE ~Detach(p)
    BY <1>0, <1>1, <2>2 DEF NoLeftover, UsersAreKnown, Critical, Creating, Detach
  <2> QED
    BY <2>1, <2>2
<1>8. RefusedForAReason'
  BY <1>0, <1>1 DEF RefusedForAReason, Critical
<1> QED
  BY <1>2, <1>3, <1>4, <1>5, <1>6, <1>7, <1>8

LEMMA ProbeKeeps ==
  ASSUME TypeOK, GuardInv, NEW p \in Proc,
         Probe(p) \/ ProbeDetach(p) \/ ProbeRelease(p)
  PROVE  GuardInv'
<1> USE ProcAssumption DEF TypeOK, Probe, ProbeDetach, ProbeRelease, Attach,
        Detach, Release, Goto, GuardInv
<1>0. /\ \A q \in Proc \ {p} : pc[q] \notin Critical /\ pc'[q] = pc[q]
                               /\ result'[q] = result[q]
      /\ ~Running(p) /\ ~Creating(p)
  BY DEF LockIsExclusive, Running, Creating, Holding, Critical
<1>1. \A q \in Proc : Running(q)' = Running(q) /\ ~Creating(q)'
  BY <1>0 DEF Running, Creating, Holding, Critical
<1>2. LockIsExclusive'
  BY <1>0 DEF LockIsExclusive, Critical
<1>3. RunnerKeepsItsSegment' /\ AtMostOneRuns'
  BY <1>0, <1>1 DEF RunnerKeepsItsSegment, AtMostOneRuns
<1>4. UsersAreKnown'
  BY <1>0, <1>1, UsersAfterDetach DEF UsersAreKnown, Critical
<1>5. ResultIsFresh'
  BY <1>0 DEF ResultIsFresh
<1>6. CreatorIsAlone'
  BY <1>1 DEF CreatorIsAlone
<1>7. NoLeftover'
  <2>1. CASE Detach(p)
    BY <1>0, <1>1, <2>1, UsersAfterDetach DEF NoLeftover, UsersAreKnown, Critical, Creating
  <2>2. CASE ~Detach(p)
    BY <1>0, <1>1, <2>2 DEF NoLeftover, UsersAreKnown, Critical, Creating, Detach
  <2> QED
    BY <2>1, <2>2
<1>8. RefusedForAReason'
  <2>1. CASE Probe(p)
    <3>1. p \in cleaned /\ segment => \E q \in Proc \ {p} : Running(q)
      BY <1>0, <2>1 DEF NoLeftover, UsersAreKnown, Critical, Creating
    <3> QED
      BY <1>0, <1>1, <2>1, <3>1 DEF RefusedForAReason, Critical
  <2>2. CASE ProbeDetach(p) \/ ProbeRelease(p)
    BY <1>0, <1>1, <2>2 DEF RefusedForAReason, Critical
  <2> QED
    BY <2>1, <2>2
<1> QED
  BY <1>2, <1>3, <1>4, <1>5, <1>6, <1>7, <1>8

LEMMA CreateKeeps ==
  ASSUME TypeOK, GuardInv, NEW p \in Proc,
         Create(p) \/ CreateAttach(p) \/ CreateRelease(p)
  PROVE  GuardInv'
<1> USE ProcAssumption DEF TypeOK, Create, CreateAttach, CreateRelease, Attach,
        Release, Goto, GuardInv
<1>0. /\ \A q \in Proc \ {p} : pc[q] \notin Critical /\ pc'[q] = pc[q]
                               /\ result'[q] = result[q]
  BY DEF LockIsExclusive, Critical
<1>1. \A q \in Proc \ {p} : Running(q)' = Running(q) /\ ~Creating(q)
                            /\ ~Creating(q)'
  BY <1>0 DEF Running, Creating, Holding, Critical
<1>2. LockIsExclusive'
  BY <1>0 DEF LockIsExclusive, Critical
<1>a. Creating(p) \/ CreateRelease(p) \/ ~Running(p)'
  BY DEF Creating, Running, Holding
<1>b. CASE Create(p)
  <2>1. ~Running(p)' /\ ~Running(p) /\ (Creating(p)' <=> ~segment)
        /\ (segment => Creating(p)' = Creating(p))
    BY <1>b DEF Running, Creating, Holding, ResultIsFresh
  <2>2. ~segment => \A q \in Proc : ~Running(q)
    BY DEF RunnerKeepsItsSegment
  <2>3. RunnerKeepsItsSegment' /\ AtMostOneRuns' /\ CreatorIsAlone'
    BY <1>b, <1>1, <2>1, <2>2
       DEF RunnerKeepsItsSegment, AtMostOneRuns, CreatorIsAlone
  <2>4. UsersAreKnown' /\ ResultIsFresh'
    BY <1>b, <1>0, <1>1, <2>1 DEF UsersAreKnown, ResultIsFresh, Critical
  <2>5. NoLeftover'
    BY <1>b, <1>1, <2>1 DEF NoLeftover
  <2>6. p \in cleaned /\ segment => \E q \in Proc \ {p} : Running(q)
    BY <1>b, <1>0, <1>1, <2>1 DEF NoLeftover, UsersAreKnown, Critical, Creating
  <2>7. RefusedForAReason'
    BY <1>b, <1>0, <1>1, <2>1, <2>6 DEF RefusedForAReason, Critical, Creating
  <2> QED
    BY <1>2, <2>3, <2>4, <2>5, <2>7
<1>c. CASE CreateAttach(p)
  <2>1. ~Creating(p)' /\ (Running(p)' <=> result[p]) /\ ~Running(p)
        /\ (Creating(p) <=> result[p])
    BY <1>c DEF Running, Creating, Holding
  <2>2. result[p] => segment /\ p \in attached' /\ \A q \in Proc : ~Running(q)
    BY <1>c, <2>1 DEF CreatorIsAlone
  <2>3. RunnerKeepsItsSegment' /\ AtMostOneRuns'
    BY <1>c, <1>1, <2>1, <2>2 DEF RunnerKeepsItsSegment, AtMostOneRuns
  <2>4. CreatorIsAlone'
    BY <1>1, <2>1 DEF CreatorIsAlone
  <2>5. UsersAreKnown' /\ ResultIsFresh'
    BY <1>c, <1>0, <1>1, <2>1, <2>2 DEF UsersAreKnown, ResultIsFresh, Critical
  <2>6. NoLeftover'
    BY <1>c, <1>1, <2>1, <2>2 DEF NoLeftover
  <2>7. RefusedForAReason'
    BY <1>c, <1>0, <1>1, <2>1 DEF RefusedForAReason, Critical
  <2> QED
    BY <1>2, <2>3, <2>4, <2>5, <2>6, <2>7
<1>d. CASE CreateRelease(p)
  <2>1. Running(p)' = Running(p) /\ ~Creating(p) /\ ~Creating(p)'
    BY <1>d DEF Running, Creating, Holding
  <2>2. RunnerKeepsItsSegment' /\ AtMostOneRuns' /\ CreatorIsAlone'
    BY <1>d, <1>1, <2>1 DEF RunnerKeepsItsSegment, AtMostOneRuns, CreatorIsAlone
  <2>3. UsersAreKnown' /\ ResultIsFresh'
    BY <1>d, <1>0, <1>1, <2>1 DEF UsersAreKnown, ResultIsFresh, Critical
  <2>4. NoLeftover'
    BY <1>d, <1>1, <2>1 DEF NoLeftover
  <2>5. RefusedForAReason'
    BY <1>d, <1>0, <1>1, <2>1 DEF RefusedForAReason, Critical
  <2> QED
    BY <1>2, <2>2, <2>3, <2>4, <2>5
<1> QED
  BY <1>b, <1>c, <1>d

LEMMA FinishKeeps ==
  ASSUME TypeOK, GuardInv, NEW p \in Proc, LastDetach(p) \/ LastRelease(p)
  PROVE  GuardInv'
<1> USE ProcAssumption DEF TypeOK, LastDetach, LastRelease, Detach, Release,
        Goto, GuardInv
<1>0. /\ \A q \in Proc \ {p} : pc[q] \notin Critical /\ pc'[q] = pc[q]
                               /\ result'[q] = result[q]
      /\ ~Creating(p) /\ ~Running(p)' /\ ~Creating(p)'
  BY DEF LockIsExclusive, Running, Creating, Holding, Critical
<1>1. \A q \in Proc \ {p} : Running(q)' = Running(q) /\ ~Creating(q)
                            /\ ~Creating(q)'
  BY <1>0 DEF Running, Creating, Holding, Critical
<1>2. LockIsExclusive'
  BY <1>0 DEF LockIsExclusive, Critical
<1>3. RunnerKeepsItsSegment' /\ AtMostOneRuns'
  BY <1>0, <1>1 DEF RunnerKeepsItsSegment, AtMostOneRuns
<1>4. UsersAreKnown'
  <2>1. CASE LastDetach(p)
    <3>1. attached' = attached \ {p} /\ (attached' # {} => segment')
      BY <2>1, UsersAfterDetach DEF UsersAreKnown
    <3>2. segment' => segment
      BY <2>1
    <3>3. pc'[p] = "lastRelease"
      BY <2>1
    <3> QED
      BY <1>0, <1>1, <3>1, <3>2, <3>3 DEF UsersAreKnown, Critical
  <2>2. CASE LastRelease(p)
    BY <1>0, <1>1, <2>2 DEF UsersAreKnown, Critical, Running, Holding
  <2> QED
    BY <2>1, <2>2
<1>5. ResultIsFresh'
  BY <1>0 DEF ResultIsFresh
<1>6. CreatorIsAlone'
  BY <1>0, <1>1 DEF CreatorIsAlone
<1>7. NoLeftover'
  <2>1. CASE Detach(p)
    BY <1>0, <1>1, <2>1, UsersAfterDetach DEF NoLeftover, UsersAreKnown, Critical, Creating
  <2>2. CASE ~Detach(p)
    BY <1>0, <1>1, <2>2 DEF NoLeftover, UsersAreKnown, Critical, Creating, Detach
  <2> QED
    BY <2>1, <2>2
<1>8. RefusedForAReason'
  BY <1>0, <1>1 DEF RefusedForAReason, Critical
<1> QED
  BY <1>2, <1>3, <1>4, <1>5, <1>6, <1>7, <1>8

(* The kernel gives back what the dead process held, and nothing else.     *)
LEMMA CrashKeeps ==
  ASSUME TypeOK, GuardInv, NEW p \in Proc, Crash(p)
  PROVE  GuardInv'
<1> USE ProcAssumption DEF TypeOK, Crash, Undo, GuardInv
<1>0. /\ \A q \in Proc \ {p} : /\ pc'[q] = pc[q] /\ result'[q] = result[q]
                               /\ Running(q)' = Running(q)
                               /\ Creating(q)' = Creating(q)
      /\ pc'[p] = "out" /\ ~result'[p] /\ ~Running(p)' /\ ~Creating(p)'
  BY DEF Running, Creating, Holding
<1>2. LockIsExclusive'
  BY <1>0 DEF LockIsExclusive, Critical
<1>3. RunnerKeepsItsSegment' /\ AtMostOneRuns'
  BY <1>0 DEF RunnerKeepsItsSegment, AtMostOneRuns
<1>4. UsersAreKnown'
  BY <1>0 DEF UsersAreKnown
<1>5. ResultIsFresh'
  BY <1>0 DEF ResultIsFresh
<1>6. CreatorIsAlone'
  BY <1>0 DEF CreatorIsAlone
<1>7. NoLeftover' /\ RefusedForAReason'
  BY DEF NoLeftover, RefusedForAReason
<1> QED
  BY <1>2, <1>3, <1>4, <1>5, <1>6, <1>7

-----------------------------------------------------------------------------
(* GuardInv holds in every reachable state.                                *)
THEOREM GuardIsInductive == Spec => []GuardInv
<1>1. TypeOK /\ GuardInv /\ [Next]_vars => GuardInv'
  <2> SUFFICES ASSUME TypeOK, GuardInv, [Next]_vars PROVE GuardInv'
    OBVIOUS
  <2>1. CASE UNCHANGED vars
    BY <2>1 DEF vars, GuardInv, LockIsExclusive, RunnerKeepsItsSegment,
           AtMostOneRuns, UsersAreKnown, ResultIsFresh, CreatorIsAlone,
           NoLeftover, RefusedForAReason, Running, Creating, Critical, Holding
  <2>2. ASSUME NEW p \in Proc,
               \/ Start(p) \/ Construct(p) \/ IsAnotherRunning(p) \/ TryToRun(p)
               \/ Leave(p) \/ Finish(p) \/ Crash(p)
        PROVE  GuardInv'
    BY <2>2, MoveKeeps, ConstructKeeps, ProbeKeeps, CreateKeeps, FinishKeeps,
       CrashKeeps DEF Construct, IsAnotherRunning, TryToRun, Finish
  <2> QED
    BY <2>1, <2>2 DEF Next
<1> QED
  BY <1>1, InitEstablishes, TypeCorrectness, PTL DEF Spec

(* At most one instance of the application runs, for any number of         *)
(* processes, whatever dies and when.                                      *)
THEOREM OneInstance == Spec => []AtMostOneRuns
  BY GuardIsInductive, PTL DEF GuardInv

(* A new process never takes the segment away from the one that runs.      *)
THEOREM SegmentIsKept == Spec => []RunnerKeepsItsSegment
  BY GuardIsInductive, PTL DEF GuardInv

(* The critical sections of runguard.cpp exclude each other.               *)
THEOREM MutualExclusion == Spec => []LockIsExclusive
  BY GuardIsInductive, PTL DEF GuardInv

(* Without a crash since its cleanup a process is refused only because     *)
(* another one runs.                                                       *)
THEOREM RefusalsAreJust == Spec => []RefusedForAReason
  BY GuardIsInductive, PTL DEF GuardInv
=============================================================================
