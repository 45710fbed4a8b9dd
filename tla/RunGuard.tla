------------------------------ MODULE RunGuard ------------------------------
(***************************************************************************)
(* RunGuard: one instance of the application per machine.  A process runs  *)
(* while it is attached to a System V shared memory segment it created;    *)
(* every look at the segment is made under the system semaphore memLock.   *)
(* The kernel detaches a process that dies and undoes its semaphore        *)
(* operations (SEM_UNDO), but it leaves the segment behind: the attach and *)
(* detach of the constructor are there to remove such a leftover.          *)
(***************************************************************************)
EXTENDS Integers, FiniteSets

CONSTANTS Proc,       \* processes started by a user, again and again
          NoProc,     \* nobody holds memLock
          MaxCrashes  \* bound: processes that die without running destructors

ASSUME ProcAssumption == NoProc \notin Proc /\ MaxCrashes \in Nat

VARIABLES
  pc,        \* process -> the next thing it does
  result,    \* process -> isRunning of its probe, then what create returned
  memLock,   \* the holder of the semaphore
  segment,   \* the shared memory segment exists
  attached,  \* the processes attached to it
  crashes,
  cleaned    \* history: processes whose constructor has looked for a leftover,
             \* and since then nobody has crashed

vars == <<pc, result, memLock, segment, attached, crashes, cleaned>>

Critical == {"fixAttach", "fixDetach", "fixRelease", "probe", "probeDetach",
             "probeRelease", "create", "createAttach", "createRelease",
             "detach", "lastRelease"}
Holding  == {"createRelease", "running", "last", "detach"}

Running(p) == pc[p] \in Holding /\ result[p]

Init ==
  /\ pc = [p \in Proc |-> "out"] /\ result = [p \in Proc |-> FALSE]
  /\ memLock = NoProc /\ segment = FALSE /\ attached = {}
  /\ crashes = 0 /\ cleaned = {}

Goto(p, from, to) == pc[p] = from /\ pc' = [pc EXCEPT ![p] = to]

Acquire(p, from, to) ==
  /\ Goto(p, from, to)
  /\ memLock = NoProc /\ memLock' = p
  /\ UNCHANGED <<result, segment, attached, crashes, cleaned>>

Release(p) ==
  /\ memLock' = IF memLock = p THEN NoProc ELSE memLock
  /\ UNCHANGED <<segment, attached, crashes>>

(* QSharedMemory::attach finds the segment or fails; detach by the last    *)
(* attached process removes it.                                            *)
Attach(p)  == attached' = IF segment THEN attached \cup {p} ELSE attached

Detach(p) ==
  /\ attached' = attached \ {p}
  /\ segment' = (segment /\ (p \in attached => attached # {p}))

-----------------------------------------------------------------------------
(* RunGuard::RunGuard                                                      *)

Start(p) ==
  /\ Goto(p, "out", "ctor")
  /\ UNCHANGED <<result, memLock, segment, attached, crashes, cleaned>>

CtorAcquire(p) == Acquire(p, "ctor", "fixAttach")

FixAttach(p) ==
  /\ Goto(p, "fixAttach", "fixDetach") /\ Attach(p)
  /\ UNCHANGED <<result, memLock, segment, crashes, cleaned>>

(* Mutant: the object is a member instead of a local, and stays attached.  *)
FixStays(p) ==
  /\ Goto(p, "fixDetach", "fixRelease") /\ cleaned' = cleaned \cup {p}
  /\ UNCHANGED <<result, memLock, segment, attached, crashes>>
FixDetach(p) ==
  /\ Goto(p, "fixDetach", "fixRelease") /\ Detach(p)
  /\ cleaned' = cleaned \cup {p}
  /\ UNCHANGED <<result, memLock, crashes>>

CtorRelease(p) ==
  /\ Goto(p, "fixRelease", "check") /\ Release(p)
  /\ UNCHANGED <<result, cleaned>>

-----------------------------------------------------------------------------
(* RunGuard::isAnotherRunning                                              *)

CheckAcquire(p) == Acquire(p, "check", "probe")

Probe(p) ==
  /\ Goto(p, "probe", "probeDetach") /\ Attach(p)
  /\ result' = [result EXCEPT ![p] = segment]
  /\ UNCHANGED <<memLock, segment, crashes, cleaned>>

ProbeDetach(p) ==
  /\ Goto(p, "probeDetach", "probeRelease")
  /\ IF result[p] THEN Detach(p) ELSE UNCHANGED <<attached, segment>>
  /\ UNCHANGED <<result, memLock, crashes, cleaned>>

(* On TRUE main() prints "Another instance is already running" and leaves. *)
(* Mutant: an early return that forgets memLock.release().                 *)
ProbeReturnsEarly(p) ==
  /\ Goto(p, "probeRelease", IF result[p] THEN "last" ELSE "try")
  /\ IF result[p] THEN UNCHANGED <<memLock, segment, attached, crashes>>
                  ELSE Release(p)
  /\ result' = [result EXCEPT ![p] = FALSE] /\ UNCHANGED cleaned
ProbeRelease(p) ==
  /\ Goto(p, "probeRelease", IF result[p] THEN "last" ELSE "try") /\ Release(p)
  /\ result' = [result EXCEPT ![p] = FALSE] /\ UNCHANGED cleaned

-----------------------------------------------------------------------------
(* RunGuard::tryToRun: create makes a new segment, then attaches to it.    *)

TryAcquire(p) == Acquire(p, "try", "create")

(* Mutant: create opens a segment that exists already.                     *)
CreateOrOpen(p) ==
  /\ Goto(p, "create", "createAttach") /\ segment' = TRUE
  /\ result' = [result EXCEPT ![p] = TRUE]
  /\ UNCHANGED <<memLock, attached, crashes, cleaned>>

Create(p) ==
  /\ Goto(p, "create", "createAttach") /\ segment' = TRUE
  /\ result' = [result EXCEPT ![p] = ~segment]
  /\ UNCHANGED <<memLock, attached, crashes, cleaned>>

CreateAttach(p) ==
  /\ Goto(p, "createAttach", "createRelease")
  /\ IF result[p] THEN Attach(p) ELSE UNCHANGED attached
  /\ UNCHANGED <<result, memLock, segment, crashes, cleaned>>

(* Mutant: release() is called if create succeeded instead of if it failed.*)
CreateUndone(p) ==
  /\ Goto(p, "createRelease", IF result[p] THEN "running" ELSE "last")
  /\ memLock' = NoProc /\ UNCHANGED <<result, crashes, cleaned>>
  /\ IF result[p] THEN Detach(p) ELSE UNCHANGED <<segment, attached>>
CreateRelease(p) ==
  /\ Goto(p, "createRelease", IF result[p] THEN "running" ELSE "last")
  /\ Release(p) /\ UNCHANGED <<result, cleaned>>

-----------------------------------------------------------------------------
(* RunGuard::release, by the destructor.  (After a failed create tryToRun  *)
(* calls it once more: a process that is not attached changes nothing.)    *)

Leave(p) ==
  /\ Goto(p, "running", "last")
  /\ UNCHANGED <<result, memLock, segment, attached, crashes, cleaned>>

LastAcquire(p) == Acquire(p, "last", "detach")

LastDetach(p) ==
  /\ Goto(p, "detach", "lastRelease") /\ Detach(p)
  /\ result' = [result EXCEPT ![p] = FALSE]
  /\ UNCHANGED <<memLock, crashes, cleaned>>

LastRelease(p) ==
  /\ Goto(p, "lastRelease", "out") /\ Release(p)
  /\ cleaned' = cleaned \ {p} /\ UNCHANGED result

(* SEM_UNDO.                                                               *)
Undo(p) == memLock' = IF memLock = p THEN NoProc ELSE memLock

Crash(p) ==
  /\ pc[p] # "out" /\ crashes < MaxCrashes
  /\ pc' = [pc EXCEPT ![p] = "out"] /\ result' = [result EXCEPT ![p] = FALSE]
  /\ Undo(p) /\ attached' = attached \ {p}
  /\ crashes' = crashes + 1 /\ cleaned' = {}
  /\ UNCHANGED segment

-----------------------------------------------------------------------------
Construct(p) == CtorAcquire(p) \/ FixAttach(p) \/ FixDetach(p) \/ CtorRelease(p)
IsAnotherRunning(p) ==
  CheckAcquire(p) \/ Probe(p) \/ ProbeDetach(p) \/ ProbeRelease(p)
TryToRun(p) == TryAcquire(p) \/ Create(p) \/ CreateAttach(p) \/ CreateRelease(p)
Finish(p) == LastAcquire(p) \/ LastDetach(p) \/ LastRelease(p)

Next == \E p \in Proc :
          \/ Start(p) \/ Construct(p) \/ IsAnotherRunning(p) \/ TryToRun(p)
          \/ Leave(p) \/ Finish(p) \/ Crash(p)

Spec == Init /\ [][Next]_vars

(* A process that does not wait goes on; the kernel wakes the waiters of a *)
(* semaphore in order, so that none waits forever while others get it.     *)
Steps(p) == Construct(p) \/ IsAnotherRunning(p) \/ TryToRun(p) \/ Finish(p)
FairSpec == Spec /\ \A p \in Proc : SF_vars(Steps(p))

-----------------------------------------------------------------------------
(* Every variable has its type.                                            *)
TypeOK ==
  /\ pc \in [Proc -> Critical \cup {"out", "ctor", "check", "try", "running",
                                    "last"}]
  /\ result \in [Proc -> BOOLEAN]
  /\ memLock \in Proc \cup {NoProc}
  /\ segment \in BOOLEAN /\ attached \subseteq Proc
  /\ crashes \in Nat /\ cleaned \subseteq Proc

(* At most one instance runs, whatever dies and when.                      *)
AtMostOneRuns == \A p, q \in Proc : Running(p) /\ Running(q) => p = q

(* Whoever touches the segment holds the semaphore, alone.                 *)
LockIsExclusive == \A p \in Proc : pc[p] \in Critical => memLock = p

(* A process is told that another one runs only if another one does: a     *)
(* leftover segment can mislead it only when somebody died after it        *)
(* cleaned up.                                                             *)
RefusedForAReason ==
  \A p \in cleaned :
    (pc[p] = "probeDetach" /\ result[p]) \/ (pc[p] = "createAttach" /\ ~result[p])
      => \E q \in Proc \ {p} : Running(q)

(* The attach and detach of a new process never take the segment away from *)
(* the process that runs.                                                  *)
RunnerKeepsItsSegment == \A p \in Proc : Running(p) => segment /\ p \in attached

(* A start is answered: the process runs, or leaves again (or dies).       *)
StartIsAnswered ==
  \A p \in Proc : pc[p] = "ctor" ~> pc[p] \in {"running", "out"}

(* The inductive invariant behind the four above.  Only a running process  *)
(* stays attached, and only under memLock is anyone else.                  *)
UsersAreKnown ==
  /\ attached # {} => segment
  /\ \A p \in attached : Running(p) \/ pc[p] \in {"fixDetach", "probeDetach"}
  /\ \A p \in Proc :
       /\ pc[p] = "fixDetach" /\ segment => p \in attached
       /\ pc[p] = "probeDetach" => result[p] = (p \in attached)

(* isRunning and the answer of create are read where they were set.        *)
ResultIsFresh ==
  \A p \in Proc :
    pc[p] \in {"out", "ctor", "check", "try", "fixAttach", "fixDetach", "probe",
              "create", "fixRelease", "lastRelease"} => ~result[p]

Creating(p) == pc[p] = "createAttach" /\ result[p]

(* A successful create happens where nobody runs.                          *)
CreatorIsAlone ==
  \A p \in Proc : Creating(p) => segment /\ \A q \in Proc : ~Running(q)

(* Since a cleanup, a segment without users is one just created.           *)
NoLeftover ==
  cleaned # {} /\ segment => attached # {} \/ \E q \in Proc : Creating(q)

GuardInv ==
  /\ LockIsExclusive /\ RunnerKeepsItsSegment /\ AtMostOneRuns
  /\ UsersAreKnown /\ ResultIsFresh /\ CreatorIsAlone /\ NoLeftover
  /\ RefusedForAReason
=============================================================================
