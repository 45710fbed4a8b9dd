----------------------------- MODULE JobJournal -----------------------------
(***************************************************************************)
(* What script control promises, without processes, temporary files or     *)
(* threads: one job slot, and a journal in which the rows of one job stand *)
(* together.  ScriptControl implements it (JobJournal there).              *)
(***************************************************************************)
EXTENDS Integers, Sequences

CONSTANTS Paths,   \* the scripts that may run
          NoPath   \* the empty script name

VARIABLES slot,    \* the script that runs, or NoPath
          start,   \* journal row of that job's START, 0 if it was not stored
          rows     \* the journal

vars == <<slot, start, rows>>

Row(type, script, ref) == [type |-> type, script |-> script, ref |-> ref]

Init == slot = NoPath /\ start = 0 /\ rows = <<>>

(* A job begins only in an empty slot; its START row refers to nothing.    *)
Begin(p) ==
  /\ slot = NoPath
  /\ slot' = p
  /\ \/ rows' = Append(rows, Row("START", p, 0)) /\ start' = Len(rows) + 1
     \/ rows' = rows /\ start' = 0

(* A job ends once; what is stored of it refers to its own START.          *)
End ==
  /\ slot # NoPath
  /\ slot' = NoPath
  /\ start' = 0
  /\ \E stop \in {<<>>, <<Row("STOP", slot, start)>>},
        log \in {<<>>, <<Row("LOG", slot, start)>>} :
       rows' = rows \o stop \o log

Next == End \/ \E p \in Paths : Begin(p)

Spec == Init /\ [][Next]_vars
=============================================================================
