-------------------------- MODULE WebDisplayProofs --------------------------
(***************************************************************************)
(* What the pages show, for any number of web threads, any texts and any   *)
(* versions of the schedule: proofs of PageIsASnapshot and                 *)
(* TableIsOfOneFile.                                                       *)
(*                                                                         *)
(* The argument is about the steps a thread has left.  For each lock they  *)
(* can be annotated with how often the thread holds it (Annotates), which  *)
(* agrees with holder and depth at the first of them; a text is read and   *)
(* set at a place where that is at least one, half of a schedule is set    *)
(* where it is two.  So nobody else is in the middle of a change when a    *)
(* thread reads the first of two fields it wants, nor before it has read   *)
(* the second.                                                             *)
(***************************************************************************)
EXTENDS WebDisplay, SequenceTheorems, TLAPS

Change(step, l) ==
  IF step.on # l THEN 0
  ELSE CASE step.op = "lock" -> 1 [] step.op = "unlock" -> -1 [] OTHER -> 0

(* How often a thread has to hold l for a step.                            *)
Needed(step, l) ==
  IF l = SchedLock /\ step.on \in {"top", "bottom"}
  THEN (IF step.op = "put" THEN 2 ELSE 1)
  ELSE IF l = MainLock /\ step.on \in {"heading", "message"} /\ step.value \notin Pictures
  THEN 1 ELSE 0

(* d says how often the thread holds l before each of the steps s and      *)
(* after the last, when it started with base.                              *)
Annotates(d, s, l, base) ==
  /\ d \in [1 .. Len(s) + 1 -> Nat]
  /\ d[Len(s) + 1] = base
  /\ \A i \in 1 .. Len(s) : /\ d[i + 1] = d[i] + Change(s[i], l)
                            /\ d[i] >= Needed(s[i], l)

Balanced(s, l, base) == \E d : Annotates(d, s, l, base) /\ d[1] = base

LEMMA EmptyIsBalanced ==
  ASSUME NEW l, NEW base \in Nat
  PROVE  Balanced(<<>>, l, base)
<1>1. Annotates([i \in 1 .. 1 |-> base], <<>>, l, base)
  BY DEF Annotates
<1> QED
  BY <1>1 DEF Balanced

LEMMA SingleIsBalanced ==
  ASSUME NEW l \in Locks, NEW base \in Nat, NEW step \in Steps,
         Change(step, l) = 0, Needed(step, l) <= base
  PROVE  Balanced(<<step>>, l, base)
<1> DEFINE d == [i \in 1 .. 2 |-> base]
<1>1. Annotates(d, <<step>>, l, base)
  BY DEF Annotates
<1> QED
  BY <1>1 DEF Balanced

LEMMA ConcatIsBalanced ==
  ASSUME NEW l, NEW base \in Nat, NEW s \in Seq(Steps), NEW r \in Seq(Steps),
         Balanced(s, l, base), Balanced(r, l, base)
  PROVE  Balanced(s \o r, l, base)
<1>1. PICK d1 : Annotates(d1, s, l, base) /\ d1[1] = base
  BY DEF Balanced
<1>2. PICK d2 : Annotates(d2, r, l, base) /\ d2[1] = base
  BY DEF Balanced
<1> DEFINE d == [i \in 1 .. Len(s) + Len(r) + 1 |->
                   IF i <= Len(s) THEN d1[i] ELSE d2[i - Len(s)]]
<1>3. Annotates(d, s \o r, l, base)
  <2>1. Len(s \o r) = Len(s) + Len(r) /\ Len(s) \in Nat /\ Len(r) \in Nat
    OBVIOUS
  <2>2. d \in [1 .. Len(s \o r) + 1 -> Nat] /\ d[Len(s \o r) + 1] = base
    BY <1>1, <1>2, <2>1 DEF Annotates
  <2>3. ASSUME NEW i \in 1 .. Len(s \o r)
        PROVE  d[i + 1] = d[i] + Change((s \o r)[i], l) /\ d[i] >= Needed((s \o r)[i], l)
    <3>1. CASE i < Len(s)
      BY <1>1, <2>1, <3>1 DEF Annotates
    <3>2. CASE i = Len(s)
      BY <1>1, <1>2, <2>1, <3>2 DEF Annotates
    <3>3. CASE i > Len(s)
      <4>1. (s \o r)[i] = r[i - Len(s)] /\ i - Len(s) \in 1 .. Len(r)
        BY <2>1, <3>3
      <4>2. d[i] = d2[i - Len(s)] /\ d[i + 1] = d2[i - Len(s) + 1]
        BY <2>1, <3>3
      <4> QED
        BY <1>2, <4>1, <4>2 DEF Annotates
    <3> QED
      BY <2>1, <3>1, <3>2, <3>3
  <2> HIDE DEF d
  <2> QED
    BY <2>2, <2>3 DEF Annotates
<1>4. d[1] = base
  BY <1>1, <1>2 DEF Annotates
<1> HIDE DEF d
<1> QED
  BY <1>3, <1>4 DEF Balanced

LEMMA UnderIsBalanced ==
  ASSUME NEW l \in Locks, NEW k \in Locks, NEW base \in Nat, NEW s \in Seq(Steps),
         Balanced(s, l, IF k = l THEN base + 1 ELSE base)
  PROVE  Balanced(Under(k, s), l, base)
<1> DEFINE inner == IF k = l THEN base + 1 ELSE base
<1>1. PICK d1 : Annotates(d1, s, l, inner) /\ d1[1] = inner
  BY DEF Balanced
<1> DEFINE u == Under(k, s)
           d == [i \in 1 .. Len(s) + 3 |->
                   IF i = 1 \/ i = Len(s) + 3 THEN base ELSE d1[i - 1]]
<1>2. /\ Len(u) = Len(s) + 2 /\ Len(s) \in Nat
      /\ u[1] = Step("lock", k, NoValue) /\ u[Len(s) + 2] = Step("unlock", k, NoValue)
      /\ \A i \in 2 .. Len(s) + 1 : u[i] = s[i - 1]
  BY DEF Under, Lock, Unlock
<1> HIDE DEF u
<1>3. d \in [1 .. Len(u) + 1 -> Nat] /\ d[Len(u) + 1] = base /\ d[1] = base
  BY <1>1, <1>2 DEF Annotates
<1>4. ASSUME NEW i \in 1 .. Len(u)
      PROVE  d[i + 1] = d[i] + Change(u[i], l) /\ d[i] >= Needed(u[i], l)
  <2>1. d[2] = inner /\ d[Len(s) + 2] = inner
    BY <1>1, <1>2 DEF Annotates
  <2>2. CASE i = 1
    BY <1>2, <2>1, <2>2 DEF Change, Needed, Step, Locks, MainLock, SchedLock, DbLock
  <2>3. CASE i = Len(s) + 2
    BY <1>2, <2>1, <2>3 DEF Change, Needed, Step, Locks, MainLock, SchedLock, DbLock
  <2>4. CASE i \in 2 .. Len(s) + 1
    <3>1. d[i] = d1[i - 1] /\ u[i] = s[i - 1] /\ i - 1 \in 1 .. Len(s)
      BY <1>2, <2>4
    <3>2. d[i + 1] = d1[i - 1 + 1]
      BY <1>1, <1>2, <2>4 DEF Annotates
    <3> QED
      BY <1>1, <3>1, <3>2 DEF Annotates
  <2> QED
    BY <1>2, <2>2, <2>3, <2>4
<1>5. Annotates(d, u, l, base)
  BY <1>3, <1>4 DEF Annotates
<1> QED
  BY <1>3, <1>5 DEF Balanced, u

-----------------------------------------------------------------------------
(* What the main thread runs: no page is read, and the halves of a         *)
(* schedule are set one after the other, with an unlock and a lock in      *)
(* between.                                                                *)
PutTop(v)    == Step("put", "top", v)
PutBottom(v) == Step("put", "bottom", v)

Program(s) == s \in Seq(Steps) /\ \A l \in Locks : Balanced(s, l, 0)

(* Neither pages nor schedules.                                            *)
Plain(s) == \A i \in 1 .. Len(s) : s[i].op # "get" /\ s[i].on \notin {"top", "bottom"}

TopsFirst(s) ==
  \A i \in 1 .. Len(s) :
    /\ s[i].op # "get"
    /\ s[i].op = "put" /\ s[i].on = "top" =>
         /\ i + 3 <= Len(s)
         /\ s[i + 1] = Step("unlock", SchedLock, NoValue)
         /\ s[i + 2] = Step("lock", SchedLock, NoValue)
         /\ s[i + 3] = PutBottom(s[i].value)
    /\ s[i].op = "put" /\ s[i].on = "bottom" => i >= 4 /\ s[i - 3] = PutTop(s[i].value)

MainList(s) == Program(s) /\ TopsFirst(s)

(* A part of a handler.                                                    *)
Part(s, base) == s \in Seq(Steps) /\ Plain(s) /\ \A l \in Locks : Balanced(s, l, base[l])

Free   == [l \in Locks |-> 0]
Held(k) == [l \in Locks |-> IF l = k THEN 1 ELSE 0]

LEMMA NothingIsPart ==
  ASSUME NEW base \in [Locks -> Nat]
  PROVE  Part(<<>>, base)
BY EmptyIsBalanced DEF Part, Plain

LEMMA ConcatIsPart ==
  ASSUME NEW base \in [Locks -> Nat], NEW s, NEW r, Part(s, base), Part(r, base)
  PROVE  Part(s \o r, base)
<1>1. s \in Seq(Steps) /\ r \in Seq(Steps) /\ s \o r \in Seq(Steps)
  BY DEF Part
<1>2. Plain(s \o r)
  <2>1. ASSUME NEW i \in 1 .. Len(s \o r)
        PROVE  (s \o r)[i].op # "get" /\ (s \o r)[i].on \notin {"top", "bottom"}
    <3>1. CASE i <= Len(s)
      BY <1>1, <3>1 DEF Part, Plain
    <3>2. CASE i > Len(s)
      <4>1. (s \o r)[i] = r[i - Len(s)] /\ i - Len(s) \in 1 .. Len(r)
        BY <1>1, <3>2
      <4> QED
        BY <4>1 DEF Part, Plain
    <3> QED
      BY <1>1, <3>1, <3>2
  <2> QED
    BY <2>1 DEF Plain
<1> QED
  BY <1>1, <1>2, ConcatIsBalanced DEF Part

(* The steps of a list under a lock.                                       *)
LEMMA StepsUnder ==
  ASSUME NEW k \in Locks, NEW s \in Seq(Steps)
  PROVE  /\ Under(k, s) \in Seq(Steps) /\ Len(Under(k, s)) = Len(s) + 2
         /\ Under(k, s)[1] = Step("lock", k, NoValue)
         /\ Under(k, s)[Len(s) + 2] = Step("unlock", k, NoValue)
         /\ \A i \in 2 .. Len(s) + 1 : Under(k, s)[i] = s[i - 1]
<1>1. Step("lock", k, NoValue) \in Steps /\ Step("unlock", k, NoValue) \in Steps
  BY DEF Step, Steps, Values
<1> QED
  BY <1>1 DEF Under, Lock, Unlock

LEMMA UnderIsPart ==
  ASSUME NEW k \in Locks, NEW s,
         Part(s, Held(k))
  PROVE  Part(Under(k, s), Free)
<1>1. s \in Seq(Steps) /\ Plain(s)
  BY DEF Part
<1>2. /\ Under(k, s) \in Seq(Steps) /\ Len(Under(k, s)) = Len(s) + 2
      /\ Under(k, s)[1] = Step("lock", k, NoValue)
      /\ Under(k, s)[Len(s) + 2] = Step("unlock", k, NoValue)
      /\ \A i \in 2 .. Len(s) + 1 : Under(k, s)[i] = s[i - 1]
  BY <1>1, StepsUnder
<1>3. Plain(Under(k, s))
  <2>1. ASSUME NEW i \in 1 .. Len(Under(k, s))
        PROVE  Under(k, s)[i].op # "get" /\ Under(k, s)[i].on \notin {"top", "bottom"}
    <3>1. CASE i = 1 \/ i = Len(s) + 2
      BY <1>2, <3>1 DEF Step, Locks, MainLock, SchedLock, DbLock
    <3>2. CASE i \in 2 .. Len(s) + 1
      <4>1. i - 1 \in 1 .. Len(s)
        BY <1>1, <3>2
      <4> QED
        BY <1>1, <1>2, <3>2, <4>1 DEF Plain
    <3> QED
      BY <1>1, <1>2, <3>1, <3>2
  <2> QED
    BY <2>1 DEF Plain
<1>4. ASSUME NEW l \in Locks
      PROVE  Balanced(Under(k, s), l, Free[l])
  <2>1. Balanced(s, l, IF k = l THEN 0 + 1 ELSE 0)
    BY DEF Part, Held, Free
  <2> QED
    BY <1>1, <2>1, UnderIsBalanced DEF Free
<1> QED
  BY <1>2, <1>3, <1>4 DEF Part

LEMMA WhatIsPut ==
  \A v \in Texts \cup Schedules \cup Pictures \cup {"yes", "no"} : v \in Values \ {NoValue}
BY ConstantsAssumption DEF Values, Pictures, NoValue

(* A field is set: a text of a client under mainMutex, one of the          *)
(* program's own anywhere.                                                 *)
LEMMA PutIsPart ==
  ASSUME NEW f \in {"heading", "message", "bgRunning"}, NEW v \in Values \ {NoValue},
         NEW base \in [Locks -> Nat],
         \/ f = "bgRunning" \/ v \in Pictures \/ base[MainLock] >= 1
  PROVE  Part(Put(f, v), base)
<1> DEFINE step == Step("put", f, v)
<1>1. step \in Steps
  BY DEF Step, Steps, Fields
<1>2. ASSUME NEW l \in Locks
      PROVE  Change(step, l) = 0 /\ Needed(step, l) <= base[l] /\ base[l] \in Nat
  BY DEF Change, Needed, Step, Locks, MainLock, SchedLock
<1>3. Plain(<<step>>)
  BY DEF Plain, Step
<1> HIDE DEF step
<1>4. \A l \in Locks : Balanced(<<step>>, l, base[l])
  BY <1>1, <1>2, SingleIsBalanced
<1> QED
  BY <1>1, <1>3, <1>4 DEF Part, Put, step

LEMMA PartIsMainList ==
  ASSUME NEW s, Part(s, Free)
  PROVE  MainList(s)
BY DEF Part, Plain, Free, MainList, Program, TopsFirst

LEMMA BasesAreNumbers == Free \in [Locks -> Nat] /\ \A k : Held(k) \in [Locks -> Nat]
BY DEF Free, Held

LEMMA LogIsPart ==
  ASSUME NEW base \in [Locks -> Nat]
  PROVE  Part(handleLog, base)
<1>1. /\ Step("lock", DbLock, NoValue) \in Steps /\ Step("unlock", DbLock, NoValue) \in Steps
      /\ DbLock \in Locks /\ <<>> \in Seq(Steps) /\ DbLock \notin {"top", "bottom"}
  BY DEF Step, Steps, Values, Locks, DbLock
<1>2. /\ Under(DbLock, <<>>) \in Seq(Steps) /\ Len(Under(DbLock, <<>>)) = 2
      /\ Under(DbLock, <<>>)[1] = Step("lock", DbLock, NoValue)
      /\ Under(DbLock, <<>>)[2] = Step("unlock", DbLock, NoValue)
  BY <1>1 DEF Under, Lock, Unlock
<1>3. Plain(Under(DbLock, <<>>))
  BY <1>1, <1>2 DEF Plain, Step
<1>4. ASSUME NEW l \in Locks
      PROVE  Balanced(Under(DbLock, <<>>), l, base[l])
  <2>1. Balanced(<<>>, l, IF DbLock = l THEN base[l] + 1 ELSE base[l])
    BY EmptyIsBalanced
  <2> QED
    BY <1>1, <2>1, UnderIsBalanced
<1> QED
  BY <1>2, <1>3, <1>4 DEF Part, handleLog

LEMMA StartIsPart ==
  ASSUME NEW started \in BOOLEAN, NEW base \in {Free, Held(SchedLock)}
  PROVE  Part(startBgProcess(started), base)
<1>1. base \in [Locks -> Nat]
  BY BasesAreNumbers
<1>2. /\ Part(Put("message", "starting"), base) /\ Part(Put("message", "failed"), base)
      /\ Part(Put("bgRunning", "yes"), base)
  BY <1>1, PutIsPart, WhatIsPut DEF Pictures
<1>3. Part(handleLog \o Put("bgRunning", "yes"), base)
  BY <1>1, <1>2, LogIsPart, ConcatIsPart
<1>4. /\ Part(Put("message", "starting") \o (handleLog \o Put("bgRunning", "yes")), base)
      /\ Part(Put("message", "starting") \o Put("message", "failed"), base)
      /\ Part(<<>>, base)
  BY <1>1, <1>2, <1>3, ConcatIsPart, NothingIsPart
<1> QED
  BY <1>4 DEF startBgProcess

LEMMA SetterIsPart ==
  ASSUME NEW f \in {"heading", "message"}, NEW v \in Texts
  PROVE  Part(Under(MainLock, Put(f, v)), Free)
<1>1. Part(Put(f, v), Held(MainLock))
  BY PutIsPart, WhatIsPut, BasesAreNumbers DEF Held, Locks
<1> QED
  BY <1>1, UnderIsPart DEF Locks

(* The one handler that sets the schedule, step by step.                   *)
LEMMA LoadIsMainList ==
  ASSUME NEW v \in Schedules
  PROVE  MainList(loadSchedule(v))
<1> DEFINE lock == Step("lock", SchedLock, NoValue)
           unlock == Step("unlock", SchedLock, NoValue)
           both == scheduleEvent("top", v) \o scheduleEvent("bottom", v)
           steps == loadSchedule(v)
<1>1. SchedLock \in Locks /\ PutTop(v) \in Steps /\ PutBottom(v) \in Steps
  BY WhatIsPut DEF Step, Steps, Locks, Fields, PutTop, PutBottom
<1>2. /\ steps \in Seq(Steps) /\ Len(steps) = 8
      /\ steps[1] = lock /\ steps[2] = lock /\ steps[3] = PutTop(v) /\ steps[4] = unlock
      /\ steps[5] = lock /\ steps[6] = PutBottom(v) /\ steps[7] = unlock /\ steps[8] = unlock
  <2>1. ASSUME NEW f \in {"top", "bottom"}
        PROVE  LET e == scheduleEvent(f, v) IN
               /\ e \in Seq(Steps) /\ Len(e) = 3
               /\ e[1] = lock /\ e[2] = Step("put", f, v) /\ e[3] = unlock
    <3>1. Put(f, v) \in Seq(Steps) /\ Len(Put(f, v)) = 1 /\ Put(f, v)[1] = Step("put", f, v)
      BY WhatIsPut DEF Put, Step, Steps, Fields
    <3> DEFINE p == Put(f, v)
               e == Under(SchedLock, p)
    <3>2. scheduleEvent(f, v) = e
      BY DEF scheduleEvent
    <3> HIDE DEF p
    <3>3. /\ e \in Seq(Steps) /\ Len(e) = Len(p) + 2
          /\ e[1] = lock /\ e[Len(p) + 2] = unlock
          /\ \A i \in 2 .. Len(p) + 1 : e[i] = p[i - 1]
      BY <1>1, <3>1, StepsUnder DEF p
    <3> HIDE DEF e, lock, unlock
    <3>4. e[2] = p[2 - 1]
      BY <3>1, <3>3 DEF p
    <3> QED
      BY <3>1, <3>2, <3>3, <3>4 DEF p
  <2>2. /\ both \in Seq(Steps) /\ Len(both) = 6
        /\ both[1] = lock /\ both[2] = PutTop(v) /\ both[3] = unlock
        /\ both[4] = lock /\ both[5] = PutBottom(v) /\ both[6] = unlock
    <3> DEFINE a == scheduleEvent("top", v)
               b == scheduleEvent("bottom", v)
    <3>1. /\ a \in Seq(Steps) /\ Len(a) = 3 /\ b \in Seq(Steps) /\ Len(b) = 3
          /\ a[1] = lock /\ a[2] = PutTop(v) /\ a[3] = unlock
          /\ b[1] = lock /\ b[2] = PutBottom(v) /\ b[3] = unlock
      BY <2>1 DEF PutTop, PutBottom
    <3> HIDE DEF a, b, lock, unlock
    <3>2. /\ a \o b \in Seq(Steps) /\ Len(a \o b) = Len(a) + Len(b)
          /\ \A i \in 1 .. Len(a) + Len(b) :
               (a \o b)[i] = IF i <= Len(a) THEN a[i] ELSE b[i - Len(a)]
      BY <3>1, ConcatProperties, Zenon
    <3>3. both = a \o b
      BY DEF a, b
    <3> HIDE DEF both
    <3>4. /\ both[1] = a[1] /\ both[2] = a[2] /\ both[3] = a[3]
          /\ both[4] = b[4 - 3] /\ both[5] = b[5 - 3] /\ both[6] = b[6 - 3]
      BY <3>1, <3>2, <3>3
    <3> QED
      BY <3>1, <3>2, <3>3, <3>4
  <2>3. steps = Under(SchedLock, both)
    BY DEF loadSchedule
  <2> HIDE DEF both, steps
  <2>4. /\ steps \in Seq(Steps) /\ Len(steps) = Len(both) + 2
        /\ steps[1] = lock /\ steps[Len(both) + 2] = unlock
        /\ \A i \in 2 .. Len(both) + 1 : steps[i] = both[i - 1]
    BY <1>1, <2>2, <2>3, StepsUnder
  <2> HIDE DEF lock, unlock
  <2>5. /\ steps[2] = both[2 - 1] /\ steps[3] = both[3 - 1] /\ steps[4] = both[4 - 1]
        /\ steps[5] = both[5 - 1] /\ steps[6] = both[6 - 1] /\ steps[7] = both[7 - 1]
    BY <2>2, <2>4
  <2> QED
    BY <2>2, <2>4, <2>5
<1> HIDE DEF steps
<1>3. \A i \in 1 .. 8 : i \in {1, 2, 3, 4, 5, 6, 7, 8}
  OBVIOUS
<1>4. \A l \in Locks : Balanced(steps, l, 0)
  <2>1. Annotates(<<0, 1, 2, 2, 1, 2, 2, 1, 0>>, steps, SchedLock, 0)
    <3>1. /\ Change(lock, SchedLock) = 1 /\ Change(unlock, SchedLock) = -1
          /\ Change(PutTop(v), SchedLock) = 0 /\ Change(PutBottom(v), SchedLock) = 0
      BY DEF Change, Step, PutTop, PutBottom, SchedLock
    <3>2. /\ Needed(lock, SchedLock) = 0 /\ Needed(unlock, SchedLock) = 0
          /\ Needed(PutTop(v), SchedLock) = 2 /\ Needed(PutBottom(v), SchedLock) = 2
      BY DEF Needed, Step, PutTop, PutBottom, SchedLock, MainLock
    <3> HIDE DEF lock, unlock
    <3> QED
      BY <1>2, <1>3, <3>1, <3>2 DEF Annotates
  <2>2. ASSUME NEW l \in Locks \ {SchedLock}
        PROVE  Annotates([i \in 1 .. 9 |-> 0], steps, l, 0)
    <3>1. ASSUME NEW step \in {lock, unlock, PutTop(v), PutBottom(v)}
          PROVE  Change(step, l) = 0 /\ Needed(step, l) = 0
      BY DEF Change, Needed, Step, PutTop, PutBottom, SchedLock, MainLock, DbLock, Locks
    <3>2. \A i \in 1 .. 8 : steps[i] \in {lock, unlock, PutTop(v), PutBottom(v)}
      BY <1>2, <1>3
    <3> HIDE DEF lock, unlock
    <3> QED
      BY <1>2, <3>1, <3>2 DEF Annotates
  <2> DEFINE none == [i \in 1 .. 9 |-> 0]
  <2>3. none[1] = 0
    OBVIOUS
  <2> HIDE DEF none
  <2>4. \A l \in Locks \ {SchedLock} : Balanced(steps, l, 0)
    BY <2>2, <2>3 DEF Balanced, none
  <2> QED
    BY <2>1, <2>4 DEF Balanced
<1>5. TopsFirst(steps)
  <2>1. /\ lock.op = "lock" /\ unlock.op = "unlock"
        /\ PutTop(v).on = "top" /\ PutTop(v).op = "put" /\ PutTop(v).value = v
        /\ PutBottom(v).on = "bottom" /\ PutBottom(v).op = "put" /\ PutBottom(v).value = v
    BY DEF Step, PutTop, PutBottom
  <2>2. ASSUME NEW i \in 1 .. 8
        PROVE  /\ steps[i].op # "get"
               /\ steps[i].op = "put" => i \in {3, 6}
    BY <1>2, <1>3, <2>1
  <2>3. steps[3].on = "top" /\ steps[6].on = "bottom" /\ steps[3].value = v /\ steps[6].value = v
    BY <1>2, <2>1
  <2> QED
    BY <1>2, <2>2, <2>3 DEF TopsFirst
<1> QED
  BY <1>2, <1>4, <1>5 DEF MainList, Program, steps

(* Every handler of the main thread is such a list.                        *)
LEMMA HandlersAreMainLists ==
  ASSUME NEW h \in Handlers
  PROVE  MainList(h)
<1>1. CASE \E t, u \in Texts : h = CmdText(t, u)
  <2>1. PICK t \in Texts, u \in Texts : h = CmdText(t, u)
    BY <1>1
  <2>2. Part(h, Free)
    BY <2>1, SetterIsPart, ConcatIsPart, BasesAreNumbers DEF CmdText, setHeading, setMessage
  <2> QED
    BY <2>2, PartIsMainList
<1>2. CASE h = resetText \/ h = stopBgProcess
  <2>1. /\ Part(Put("heading", "default"), Free) /\ Part(Put("message", "default"), Free)
        /\ Part(Put("message", "stopping"), Free) /\ Part(<<>>, Free)
    BY PutIsPart, NothingIsPart, BasesAreNumbers, WhatIsPut DEF Pictures
  <2>2. Part(h, Free)
    BY <1>2, <2>1, ConcatIsPart, BasesAreNumbers DEF resetText, stopBgProcess
  <2> QED
    BY <2>2, PartIsMainList
<1>3. CASE h = get_status_string \/ h = enable
  <2>1. Part(Under(MainLock, <<>>), Free) /\ Part(Under(SchedLock, <<>>), Free)
    BY NothingIsPart, UnderIsPart, BasesAreNumbers DEF Locks
  <2> QED
    BY <1>3, <2>1, PartIsMainList DEF get_status_string, enable
<1>4. CASE \E b \in BOOLEAN : h = startBgProcess(b)
  BY <1>4, StartIsPart, PartIsMainList
<1>5. CASE \E due, b \in BOOLEAN : h = timeout(due, b)
  <2>1. PICK due \in BOOLEAN, b \in BOOLEAN : h = timeout(due, b)
    BY <1>5
  <2>2. Part(IF due THEN startBgProcess(b) ELSE <<>>, Held(SchedLock))
    BY StartIsPart, NothingIsPart, BasesAreNumbers
  <2>3. Part(h, Free)
    BY <2>1, <2>2, UnderIsPart DEF timeout, Locks
  <2> QED
    BY <2>3, PartIsMainList
<1>6. CASE \E v \in Schedules : h = loadSchedule(v)
  BY <1>6, LoadIsMainList
<1>7. CASE h = processComplete
  <2>1. Part(Put("bgRunning", "no"), Free)
    BY PutIsPart, BasesAreNumbers, WhatIsPut
  <2>2. Part(handleLog \o handleLog, Free)
    BY LogIsPart, ConcatIsPart, BasesAreNumbers
  <2>3. Part(Put("bgRunning", "no") \o handleLog \o handleLog, Free)
    BY <2>1, LogIsPart, ConcatIsPart, BasesAreNumbers
  <2> QED
    BY <1>7, <2>3, PartIsMainList DEF processComplete
<1> QED
  BY <1>1, <1>2, <1>3, <1>4, <1>5, <1>6, <1>7 DEF Handlers

-----------------------------------------------------------------------------
(* What a web thread runs: nothing is set, two fields are read one right   *)
(* after the other and once, and the last step is an unlock.               *)
IsGet(step, f) == step.op = "get" /\ step.on = f

ReadsBoth(s, a, b) ==
  /\ \A i \in 1 .. Len(s) : IsGet(s[i], a) => i < Len(s) /\ IsGet(s[i + 1], b)
  /\ \A i \in 1 .. Len(s) : IsGet(s[i], b) => i > 1 /\ IsGet(s[i - 1], a)

ReadsOnce(s) ==
  \A i, j \in 1 .. Len(s) : s[i].op = "get" /\ s[j].op = "get" /\ s[i].on = s[j].on => i = j

Ended(s) == s # <<>> => s[Len(s)].op = "unlock"

PageList(s) ==
  /\ Program(s) /\ Ended(s) /\ ReadsOnce(s) /\ \A i \in 1 .. Len(s) : s[i].op # "put"
  /\ \A i \in 1 .. Len(s) :
       s[i].op = "get" => s[i].on \in {"heading", "message", "top", "bottom"}
  /\ ReadsBoth(s, "heading", "message") /\ ReadsBoth(s, "top", "bottom")

LEMMA StepsOfIndex ==
  LET s == Under(MainLock, handleIndex) IN
  /\ s \in Seq(Steps) /\ Len(s) = 3
  /\ s[1].op = "lock" /\ s[2].op = "send" /\ s[3].op = "unlock"
<1>1. handleIndex \in Seq(Steps) /\ Len(handleIndex) = 1 /\ handleIndex[1].op = "send"
  BY DEF handleIndex, Send, Step, Steps, Values
<1> DEFINE p == handleIndex
           s == Under(MainLock, p)
<1> HIDE DEF p
<1>2. /\ s \in Seq(Steps) /\ Len(s) = Len(p) + 2
      /\ s[1] = Step("lock", MainLock, NoValue)
      /\ s[Len(p) + 2] = Step("unlock", MainLock, NoValue)
      /\ \A i \in 2 .. Len(p) + 1 : s[i] = p[i - 1]
  BY <1>1, StepsUnder DEF Locks, p
<1> HIDE DEF s
<1>3. s[2] = p[2 - 1]
  BY <1>1, <1>2 DEF p
<1>4. s[1].op = "lock" /\ s[3].op = "unlock"
  BY <1>1, <1>2 DEF p, Step
<1> QED
  BY <1>1, <1>2, <1>3, <1>4 DEF p, s

LEMMA StepsOfStatus ==
  LET s == Under(MainLock, handleStatusPage) IN
  /\ s \in Seq(Steps) /\ Len(s) = 7
  /\ s[1].op = "lock" /\ IsGet(s[2], "heading") /\ IsGet(s[3], "message")
  /\ s[4].op = "lock" /\ s[5].op = "unlock" /\ s[6].op = "send" /\ s[7].op = "unlock"
<1> DEFINE p == handleStatusPage
           s == Under(MainLock, p)
<1>1. /\ p \in Seq(Steps) /\ Len(p) = 5
      /\ p[1] = Step("get", "heading", NoValue) /\ p[2] = Step("get", "message", NoValue)
      /\ p[3] = Step("lock", DbLock, NoValue) /\ p[4] = Step("unlock", DbLock, NoValue)
      /\ p[5] = Step("send", "page", NoValue)
  <2>1. /\ Step("get", "heading", NoValue) \in Steps /\ Step("get", "message", NoValue) \in Steps
        /\ Step("lock", DbLock, NoValue) \in Steps /\ Step("unlock", DbLock, NoValue) \in Steps
        /\ Step("send", "page", NoValue) \in Steps
    BY DEF Step, Steps, Values, Fields, Locks
  <2> QED
    BY <2>1 DEF handleStatusPage, Get, getRecentTable, Under, Lock, Unlock, Send
<1> HIDE DEF p
<1>2. /\ s \in Seq(Steps) /\ Len(s) = Len(p) + 2
      /\ s[1] = Step("lock", MainLock, NoValue)
      /\ s[Len(p) + 2] = Step("unlock", MainLock, NoValue)
      /\ \A i \in 2 .. Len(p) + 1 : s[i] = p[i - 1]
  BY <1>1, StepsUnder DEF Locks
<1> HIDE DEF s
<1>3. /\ s[2] = p[2 - 1] /\ s[3] = p[3 - 1] /\ s[4] = p[4 - 1] /\ s[5] = p[5 - 1]
      /\ s[6] = p[6 - 1]
  BY <1>1, <1>2
<1>4. \A op, on : Step(op, on, NoValue).op = op /\ Step(op, on, NoValue).on = on
  BY DEF Step
<1> QED
  BY <1>1, <1>2, <1>3, <1>4 DEF p, s, IsGet

LEMMA StepsOfSysInfo ==
  LET s == Under(MainLock, handleSysInfo) IN
  /\ s \in Seq(Steps) /\ Len(s) = 7
  /\ s[1].op = "lock" /\ s[2].op = "lock" /\ IsGet(s[3], "top") /\ IsGet(s[4], "bottom")
  /\ s[5].op = "unlock" /\ s[6].op = "send" /\ s[7].op = "unlock"
<1> DEFINE p == handleSysInfo
           s == Under(MainLock, p)
<1>1. /\ p \in Seq(Steps) /\ Len(p) = 5
      /\ p[1] = Step("lock", SchedLock, NoValue) /\ p[2] = Step("get", "top", NoValue)
      /\ p[3] = Step("get", "bottom", NoValue) /\ p[4] = Step("unlock", SchedLock, NoValue)
      /\ p[5] = Step("send", "page", NoValue)
  <2>1. /\ Step("get", "top", NoValue) \in Steps /\ Step("get", "bottom", NoValue) \in Steps
        /\ Step("lock", SchedLock, NoValue) \in Steps
        /\ Step("unlock", SchedLock, NoValue) \in Steps
        /\ Step("send", "page", NoValue) \in Steps
    BY DEF Step, Steps, Values, Fields, Locks
  <2> QED
    BY <2>1 DEF handleSysInfo, html, Get, Under, Lock, Unlock, Send
<1> HIDE DEF p
<1>2. /\ s \in Seq(Steps) /\ Len(s) = Len(p) + 2
      /\ s[1] = Step("lock", MainLock, NoValue)
      /\ s[Len(p) + 2] = Step("unlock", MainLock, NoValue)
      /\ \A i \in 2 .. Len(p) + 1 : s[i] = p[i - 1]
  BY <1>1, StepsUnder DEF Locks
<1> HIDE DEF s
<1>3. /\ s[2] = p[2 - 1] /\ s[3] = p[3 - 1] /\ s[4] = p[4 - 1] /\ s[5] = p[5 - 1]
      /\ s[6] = p[6 - 1]
  BY <1>1, <1>2
<1>4. \A op, on : Step(op, on, NoValue).op = op /\ Step(op, on, NoValue).on = on
  BY DEF Step
<1> QED
  BY <1>1, <1>2, <1>3, <1>4 DEF p, s, IsGet

(* The locks of a page.                                                    *)
LEMMA ReadingIsBalanced ==
  ASSUME NEW f \in {"heading", "message", "top", "bottom"}, NEW l \in Locks,
         NEW base \in Nat,
         l = MainLock /\ f \in {"heading", "message"} => base >= 1,
         l = SchedLock /\ f \in {"top", "bottom"} => base >= 1
  PROVE  Get(f) \in Seq(Steps) /\ Balanced(Get(f), l, base)
<1>1. Step("get", f, NoValue) \in Steps
  BY DEF Step, Steps, Values, Fields
<1>2. Change(Step("get", f, NoValue), l) = 0 /\ Needed(Step("get", f, NoValue), l) <= base
  BY DEF Change, Needed, Step, Locks, MainLock, SchedLock
<1> QED
  BY <1>1, <1>2, SingleIsBalanced DEF Get

LEMMA SendIsBalanced ==
  ASSUME NEW l \in Locks, NEW base \in Nat
  PROVE  Send \in Seq(Steps) /\ Balanced(Send, l, base)
<1>1. Step("send", "page", NoValue) \in Steps
  BY DEF Step, Steps, Values
<1>2. /\ Change(Step("send", "page", NoValue), l) = 0
      /\ Needed(Step("send", "page", NoValue), l) = 0
  BY DEF Change, Needed, Step, Locks, MainLock, SchedLock
<1> QED
  BY <1>1, <1>2, SingleIsBalanced DEF Send

LEMMA PagesAreBalanced ==
  ASSUME NEW s \in service
  PROVE  Program(s)
<1>1. ASSUME NEW l \in Locks
      PROVE  /\ Balanced(Under(MainLock, handleIndex), l, 0)
             /\ Balanced(Under(MainLock, handleStatusPage), l, 0)
             /\ Balanced(Under(MainLock, handleSysInfo), l, 0)
  <2> DEFINE base == IF MainLock = l THEN 0 + 1 ELSE 0
  <2>1. base \in Nat /\ (l = MainLock => base >= 1) /\ MainLock \in Locks /\ SchedLock \in Locks
           /\ DbLock \in Locks /\ MainLock # SchedLock
    BY DEF Locks, MainLock, SchedLock, DbLock
  <2> HIDE DEF base
  <2>2. handleIndex \in Seq(Steps) /\ Balanced(handleIndex, l, base)
    BY <2>1, SendIsBalanced DEF handleIndex
  <2>3. handleStatusPage \in Seq(Steps) /\ Balanced(handleStatusPage, l, base)
    <3>1. /\ Get("heading") \in Seq(Steps) /\ Balanced(Get("heading"), l, base)
          /\ Get("message") \in Seq(Steps) /\ Balanced(Get("message"), l, base)
      BY <2>1, ReadingIsBalanced DEF MainLock, SchedLock
    <3>2. getRecentTable \in Seq(Steps) /\ Balanced(getRecentTable, l, base)
      <4>1. <<>> \in Seq(Steps) /\ Balanced(<<>>, l, IF DbLock = l THEN base + 1 ELSE base)
        BY <2>1, EmptyIsBalanced
      <4> QED
        BY <2>1, <4>1, UnderIsBalanced, StepsUnder DEF getRecentTable
    <3> DEFINE texts == Get("heading") \o Get("message")
               table == texts \o getRecentTable
    <3>3. texts \in Seq(Steps) /\ Balanced(texts, l, base)
      BY <2>1, <3>1, ConcatIsBalanced
    <3> HIDE DEF texts
    <3>4. table \in Seq(Steps) /\ Balanced(table, l, base)
      BY <2>1, <3>2, <3>3, ConcatIsBalanced
    <3>5. handleStatusPage = table \o Send
      BY DEF handleStatusPage, texts
    <3> HIDE DEF table
    <3>6. Send \in Seq(Steps) /\ Balanced(Send, l, base)
      BY <2>1, SendIsBalanced
    <3> QED
      BY <2>1, <3>4, <3>5, <3>6, ConcatIsBalanced
  <2>4. handleSysInfo \in Seq(Steps) /\ Balanced(handleSysInfo, l, base)
    <3> DEFINE inner == IF SchedLock = l THEN base + 1 ELSE base
    <3>1. inner \in Nat /\ (l = SchedLock => inner >= 1)
      BY <2>1
    <3> HIDE DEF inner
    <3>2. /\ Get("top") \in Seq(Steps) /\ Balanced(Get("top"), l, inner)
          /\ Get("bottom") \in Seq(Steps) /\ Balanced(Get("bottom"), l, inner)
      BY <3>1, ReadingIsBalanced DEF MainLock, SchedLock
    <3>3. /\ Get("top") \o Get("bottom") \in Seq(Steps)
          /\ Balanced(Get("top") \o Get("bottom"), l, inner)
      BY <3>1, <3>2, ConcatIsBalanced
    <3>4. html \in Seq(Steps) /\ Balanced(html, l, base)
      BY <2>1, <3>3, UnderIsBalanced, StepsUnder DEF html, inner
    <3> QED
      BY <2>1, <3>4, SendIsBalanced, ConcatIsBalanced DEF handleSysInfo
  <2> QED
    BY <2>1, <2>2, <2>3, <2>4, UnderIsBalanced DEF base
<1> QED
  BY <1>1, StepsOfIndex, StepsOfStatus, StepsOfSysInfo DEF Program, service

LEMMA PagesArePageLists ==
  ASSUME NEW s \in service
  PROVE  PageList(s)
<1>1. \A i : /\ i \in 1 .. 3 => i \in {1, 2, 3}
             /\ i \in 1 .. 7 => i \in {1, 2, 3, 4, 5, 6, 7}
  OBVIOUS
<1>2. CASE s = Under(MainLock, handleIndex)
  BY <1>1, <1>2, PagesAreBalanced, StepsOfIndex DEF PageList, Ended, ReadsOnce, ReadsBoth, IsGet
<1>3. CASE s = Under(MainLock, handleStatusPage)
  BY <1>1, <1>3, PagesAreBalanced, StepsOfStatus DEF PageList, Ended, ReadsOnce, ReadsBoth, IsGet
<1>4. CASE s = Under(MainLock, handleSysInfo)
  BY <1>1, <1>4, PagesAreBalanced, StepsOfSysInfo DEF PageList, Ended, ReadsOnce, ReadsBoth, IsGet
<1> QED
  BY <1>2, <1>3, <1>4 DEF service

-----------------------------------------------------------------------------
(* The inductive invariant.  The lists of steps left are annotated with    *)
(* what holder and depth say.                                              *)
Annotated(s, l, n) == \E d : Annotates(d, s, l, 0) /\ d[1] = n

Own(t, l) == IF holder[l] = t THEN depth[l] ELSE 0

LockInv ==
  \A l \in Locks :
    /\ holder[l] = NoThread <=> depth[l] = 0
    /\ \A t \in Threads : Annotated(todo[t], l, Own(t, l))

(* What the main thread has left, with the upper half of the schedule as   *)
(* it is: the same as that of TopsFirst, but for a lower half whose upper  *)
(* half has been set.                                                      *)
SetsInTurn(s, top) ==
  \A i \in 1 .. Len(s) :
    /\ s[i].op # "get"
    /\ s[i].op = "put" /\ s[i].on = "top" =>
         /\ i + 3 <= Len(s)
         /\ s[i + 1] = Step("unlock", SchedLock, NoValue)
         /\ s[i + 2] = Step("lock", SchedLock, NoValue)
         /\ s[i + 3] = PutBottom(s[i].value)
    /\ s[i].op = "put" /\ s[i].on = "bottom" =>
         \/ i >= 4 /\ s[i - 3] = PutTop(s[i].value)
         \/ i <= 3 /\ top = s[i].value

Midway(s, top) ==
  \/ /\ Len(s) >= 3 /\ s[1] = Step("unlock", SchedLock, NoValue)
     /\ s[2] = Step("lock", SchedLock, NoValue) /\ s[3] = PutBottom(top)
  \/ Len(s) >= 2 /\ s[1] = Step("lock", SchedLock, NoValue) /\ s[2] = PutBottom(top)
  \/ Len(s) >= 1 /\ s[1] = PutBottom(top)

LoadInv ==
  /\ SetsInTurn(todo[Main], shared["top"])
  /\ shared["top"] # shared["bottom"] => Midway(todo[Main], shared["top"])

(* What a web thread has left, with what its page has: it is about to read *)
(* b whenever it has a and not b.                                          *)
ReadsInTurn(s, p, a, b) ==
  /\ \A i \in 1 .. Len(s) : IsGet(s[i], a) =>
       i < Len(s) /\ IsGet(s[i + 1], b) /\ p[a] = NoValue /\ p[b] = NoValue
  /\ \A i \in 1 .. Len(s) : IsGet(s[i], b) =>
       p[b] = NoValue /\ ((i > 1 /\ IsGet(s[i - 1], a)) \/ (i = 1 /\ p[a] # NoValue))
  /\ p[a] # NoValue /\ p[b] = NoValue => s # <<>> /\ IsGet(s[1], b)

Reading(s) ==
  /\ Ended(s) /\ ReadsOnce(s) /\ \A i \in 1 .. Len(s) : s[i].op # "put"
  /\ \A i \in 1 .. Len(s) :
       s[i].op = "get" => s[i].on \in {"heading", "message", "top", "bottom"}

Serving(s, p) ==
  /\ Reading(s) /\ (s = <<>> => p = BlankPage)
  /\ ReadsInTurn(s, p, "heading", "message") /\ ReadsInTurn(s, p, "top", "bottom")

WebInv == \A w \in Web : Serving(todo[w], page[w])

(* What was read first is still so when the second is read.                *)
ShowInv ==
  \A w \in Web :
    /\ todo[w] # <<>> => Displayed \in shown[w]
    /\ page[w]["heading"] # NoValue /\ page[w]["message"] = NoValue /\ ~raced[w] =>
         page[w]["heading"] = shared["heading"]
    /\ page[w]["top"] # NoValue /\ page[w]["bottom"] = NoValue =>
         page[w]["top"] = shared["top"] /\ page[w]["top"] = shared["bottom"]

IInv ==
  /\ TypeOK /\ LockInv /\ LoadInv /\ WebInv /\ ShowInv
  /\ PageIsASnapshot /\ TableIsOfOneFile

LEMMA Tails ==
  ASSUME NEW s \in Seq(Steps), s # <<>>
  PROVE  /\ Tail(s) \in Seq(Steps) /\ Len(Tail(s)) = Len(s) - 1 /\ Head(s) = s[1]
         /\ Len(s) \in Nat \ {0} /\ s[1] \in Steps
         /\ \A i \in 1 .. Len(s) - 1 : Tail(s)[i] = s[i + 1]
         /\ Tail(s) = <<>> <=> Len(s) = 1
<1>1. /\ Tail(s) \in Seq(Steps) /\ Len(Tail(s)) = Len(s) - 1 /\ Head(s) = s[1]
      /\ Len(s) \in Nat \ {0} /\ s[1] \in Steps
      /\ \A i \in 1 .. Len(s) - 1 : Tail(s)[i] = s[i + 1]
  OBVIOUS
<1>2. Len(Tail(s)) = 0 <=> Tail(s) = <<>>
  BY <1>1, EmptySeq
<1> QED
  BY <1>1, <1>2

LEMMA TailIsAnnotated ==
  ASSUME NEW s \in Seq(Steps), s # <<>>, NEW l \in Locks, NEW n, Annotated(s, l, n)
  PROVE  /\ n \in Nat /\ n >= Needed(Head(s), l) /\ n + Change(Head(s), l) \in Nat
         /\ Annotated(Tail(s), l, n + Change(Head(s), l))
<1>1. PICK d : Annotates(d, s, l, 0) /\ d[1] = n
  BY DEF Annotated
<1> DEFINE e == [i \in 1 .. Len(s) |-> d[i + 1]]
<1>2. n \in Nat /\ n >= Needed(s[1], l) /\ d[2] = n + Change(s[1], l) /\ d[2] \in Nat
  BY <1>1, Tails DEF Annotates
<1>3. Annotates(e, Tail(s), l, 0)
  <2>1. e \in [1 .. Len(Tail(s)) + 1 -> Nat] /\ e[Len(Tail(s)) + 1] = 0
    BY <1>1, Tails DEF Annotates
  <2>2. ASSUME NEW i \in 1 .. Len(Tail(s))
        PROVE  e[i + 1] = e[i] + Change(Tail(s)[i], l) /\ e[i] >= Needed(Tail(s)[i], l)
    <3>1. i + 1 \in 1 .. Len(s) /\ Tail(s)[i] = s[i + 1] /\ i \in 1 .. Len(s)
      BY Tails
    <3>2. e[i] = d[i + 1] /\ e[i + 1] = d[i + 1 + 1]
      BY <3>1
    <3> QED
      BY <1>1, <3>1, <3>2 DEF Annotates
  <2> HIDE DEF e
  <2> QED
    BY <2>1, <2>2 DEF Annotates
<1>4. e[1] = n + Change(s[1], l)
  BY <1>2, Tails
<1> HIDE DEF e
<1> QED
  BY <1>2, <1>3, <1>4, Tails DEF Annotated

LEMMA NothingLeftNothingHeld ==
  ASSUME NEW l, NEW n, Annotated(<<>>, l, n)
  PROVE  n = 0
BY DEF Annotated, Annotates

LEMMA WhoNeedsHolds ==
  ASSUME TypeOK, LockInv, NEW t \in Threads, todo[t] # <<>>, NEW l \in Locks,
         Needed(Head(todo[t]), l) >= 1
  PROVE  holder[l] = t
<1>1. Annotated(todo[t], l, Own(t, l)) /\ todo[t] \in Seq(Steps)
  BY DEF LockInv, TypeOK
<1>2. Needed(Head(todo[t]), l) \in Nat
  BY DEF Needed
<1>3. Own(t, l) >= 1
  BY <1>1, <1>2, TailIsAnnotated
<1> QED
  BY <1>3 DEF Own

(* Between the two halves the main thread holds schedMutex throughout.     *)
LEMMA MidwayHolds ==
  ASSUME TypeOK, LockInv, NEW top, Midway(todo[Main], top)
  PROVE  holder[SchedLock] = Main
<1> DEFINE s == todo[Main]
<1>1. Annotated(s, SchedLock, Own(Main, SchedLock)) /\ s \in Seq(Steps)
  BY DEF LockInv, TypeOK, Threads, Locks
<1>2. PICK d : Annotates(d, s, SchedLock, 0) /\ d[1] = Own(Main, SchedLock)
  BY <1>1 DEF Annotated
<1>3. /\ Needed(PutBottom(top), SchedLock) = 2
      /\ Change(Step("lock", SchedLock, NoValue), SchedLock) = 1
      /\ Change(Step("unlock", SchedLock, NoValue), SchedLock) = -1
  BY DEF Needed, Change, PutBottom, Step
<1> HIDE DEF s
<1>4. CASE Len(s) >= 1 /\ s[1] = PutBottom(top)
  BY <1>1, <1>2, <1>3, <1>4 DEF Annotates, Own
<1>5. CASE Len(s) >= 2 /\ s[1] = Step("lock", SchedLock, NoValue) /\ s[2] = PutBottom(top)
  <2>1. d[2] = d[1] + 1 /\ d[2] >= 2 /\ d[1] \in Nat
    BY <1>1, <1>2, <1>3, <1>5, SMTT(30) DEF Annotates
  <2> QED
    BY <1>2, <2>1 DEF Own
<1>6. CASE /\ Len(s) >= 3 /\ s[1] = Step("unlock", SchedLock, NoValue)
           /\ s[2] = Step("lock", SchedLock, NoValue) /\ s[3] = PutBottom(top)
  <2>1. d[2] = d[1] + (-1) /\ d[2] \in Nat /\ d[1] \in Nat
    BY <1>1, <1>2, <1>3, <1>6 DEF Annotates
  <2> QED
    BY <1>2, <2>1 DEF Own
<1> QED
  BY <1>4, <1>5, <1>6 DEF Midway, s

-----------------------------------------------------------------------------
(* A thread takes its next step: what stays true of the steps left.        *)
AfterFirst(s, f, old) == IF s[1].op = "put" /\ s[1].on = f THEN s[1].value ELSE old

LEMMA SetsInTurnTail ==
  ASSUME NEW s \in Seq(Steps), s # <<>>, NEW top, SetsInTurn(s, top)
  PROVE  SetsInTurn(Tail(s), AfterFirst(s, "top", top))
<1> DEFINE r == Tail(s)
           new == AfterFirst(s, "top", top)
<1>0. new = IF s[1].op = "put" /\ s[1].on = "top" THEN s[1].value ELSE top
  BY DEF AfterFirst
<1>1. /\ Len(r) = Len(s) - 1 /\ Len(s) \in Nat \ {0}
      /\ \A i \in 1 .. Len(r) : r[i] = s[i + 1] /\ i + 1 \in 1 .. Len(s)
  BY Tails
<1> HIDE DEF r, new
<1>2. ASSUME NEW i \in 1 .. Len(r)
      PROVE  /\ r[i].op # "get"
             /\ r[i].op = "put" /\ r[i].on = "top" =>
                  /\ i + 3 <= Len(r)
                  /\ r[i + 1] = Step("unlock", SchedLock, NoValue)
                  /\ r[i + 2] = Step("lock", SchedLock, NoValue)
                  /\ r[i + 3] = PutBottom(r[i].value)
  <2>1. r[i].op # "get"
    BY <1>1 DEF SetsInTurn
  <2>2. ASSUME r[i].op = "put", r[i].on = "top"
        PROVE  /\ i + 3 <= Len(r)
               /\ r[i + 1] = s[i + 1 + 1] /\ r[i + 2] = s[i + 1 + 2] /\ r[i + 3] = s[i + 1 + 3]
    <3>1. i + 1 + 3 <= Len(s)
      BY <1>1, <2>2 DEF SetsInTurn
    <3> QED
      BY <1>1, <3>1
  <2> QED
    BY <1>1, <2>1, <2>2 DEF SetsInTurn
<1>3. ASSUME NEW i \in 1 .. Len(r), r[i].op = "put", r[i].on = "bottom"
      PROVE  \/ i >= 4 /\ r[i - 3] = PutTop(r[i].value)
             \/ i <= 3 /\ new = r[i].value
  <2>1. CASE i >= 4
    <3>1. s[i + 1 - 3] = PutTop(s[i + 1].value)
      BY <1>1, <1>3, <2>1 DEF SetsInTurn
    <3> QED
      BY <1>1, <2>1, <3>1
  <2>2. CASE i = 3
    <3>1. s[i + 1 - 3] = PutTop(s[i + 1].value)
      BY <1>1, <1>3, <2>2 DEF SetsInTurn
    <3> QED
      BY <1>0, <1>1, <2>2, <3>1 DEF PutTop, Step
  <2>3. CASE i < 3
    <3>1. top = s[i + 1].value
      BY <1>1, <1>3, <2>3 DEF SetsInTurn
    <3>2. ~(s[1].op = "put" /\ s[1].on = "top")
      <4>1. ASSUME s[1].op = "put", s[1].on = "top"
            PROVE  /\ s[2] = Step("unlock", SchedLock, NoValue)
                   /\ s[3] = Step("lock", SchedLock, NoValue)
        <5>1. 1 \in 1 .. Len(s)
          BY <1>1
        <5>2. s[1 + 1] = Step("unlock", SchedLock, NoValue) /\ s[1 + 2] = Step("lock", SchedLock, NoValue)
          BY <4>1, <5>1 DEF SetsInTurn
        <5> QED
          BY <5>2
      <4> QED
        BY <1>1, <1>3, <2>3, <4>1 DEF Step
    <3> QED
      BY <1>0, <1>1, <2>3, <3>1, <3>2
  <2> QED
    BY <1>1, <2>1, <2>2, <2>3
<1> QED
  BY <1>2, <1>3 DEF SetsInTurn, r, new

LEMMA MidwayTail ==
  ASSUME NEW s \in Seq(Steps), s # <<>>, NEW top, NEW bottom, SetsInTurn(s, top),
         top # bottom => Midway(s, top),
         AfterFirst(s, "top", top) # AfterFirst(s, "bottom", bottom)
  PROVE  Midway(Tail(s), AfterFirst(s, "top", top))
<1> DEFINE new == AfterFirst(s, "top", top)
<1>1. 1 \in 1 .. Len(s) /\ Len(Tail(s)) = Len(s) - 1
      /\ \A i \in 1 .. Len(s) - 1 : Tail(s)[i] = s[i + 1]
  BY Tails
<1>2. CASE s[1].op = "put" /\ s[1].on = "top"
  <2>1. /\ 1 + 3 <= Len(s) /\ s[1 + 1] = Step("unlock", SchedLock, NoValue)
        /\ s[1 + 2] = Step("lock", SchedLock, NoValue) /\ s[1 + 3] = PutBottom(s[1].value)
    BY <1>1, <1>2 DEF SetsInTurn
  <2>2. /\ Len(Tail(s)) >= 3 /\ Tail(s)[1] = s[1 + 1] /\ Tail(s)[2] = s[1 + 2]
        /\ Tail(s)[3] = s[1 + 3]
    BY <1>1, <2>1, Tails
  <2> QED
    BY <1>2, <2>1, <2>2 DEF Midway, AfterFirst
<1>3. CASE s[1].op = "put" /\ s[1].on = "bottom"
  BY <1>1, <1>3 DEF SetsInTurn, AfterFirst
<1>4. CASE ~(s[1].op = "put" /\ s[1].on \in {"top", "bottom"})
  <2>1. Midway(s, top) /\ new = top
    BY <1>4 DEF AfterFirst
  <2>2. s[1] # PutBottom(top)
    BY <1>4 DEF PutBottom, Step
  <2>3. CASE Len(s) >= 2 /\ s[2] = PutBottom(top)
    BY <1>1, <2>1, <2>3, Tails DEF Midway
  <2>4. CASE Len(s) >= 3 /\ s[2] = Step("lock", SchedLock, NoValue) /\ s[3] = PutBottom(top)
    <3>1. Tail(s)[1] = s[1 + 1] /\ Tail(s)[2] = s[2 + 1] /\ Len(Tail(s)) >= 2
      BY <1>1, <2>4, Tails
    <3> QED
      BY <2>1, <2>4, <3>1 DEF Midway
  <2> QED
    BY <2>1, <2>2, <2>3, <2>4 DEF Midway
<1> QED
  BY <1>2, <1>3, <1>4

LEMMA ReadsInTurnTail ==
  ASSUME NEW s \in Seq(Steps), s # <<>>, ReadsOnce(s), NEW p, NEW q, NEW a, NEW b, a # b,
         ReadsInTurn(s, p, a, b),
         IF IsGet(s[1], a) THEN q[a] # NoValue /\ q[b] = p[b]
         ELSE IF IsGet(s[1], b) THEN q[b] # NoValue /\ q[a] = p[a]
         ELSE q[a] = p[a] /\ q[b] = p[b]
  PROVE  ReadsInTurn(Tail(s), q, a, b)
<1> DEFINE r == Tail(s)
<1>1. /\ Len(r) = Len(s) - 1 /\ Len(s) \in Nat \ {0} /\ (r = <<>> <=> Len(s) = 1)
      /\ \A i \in 1 .. Len(r) : r[i] = s[i + 1] /\ i + 1 \in 1 .. Len(s)
  BY Tails
<1> HIDE DEF r
<1>2. ASSUME NEW i \in 1 .. Len(r), IsGet(r[i], a)
      PROVE  i < Len(r) /\ IsGet(r[i + 1], b) /\ q[a] = NoValue /\ q[b] = NoValue
  <2>1. i + 1 < Len(s) /\ IsGet(s[i + 1 + 1], b) /\ p[a] = NoValue /\ p[b] = NoValue
    BY <1>1, <1>2 DEF ReadsInTurn
  <2>2. /\ 1 \in 1 .. Len(s) /\ i + 1 \in 1 .. Len(s) /\ i + 1 + 1 \in 1 .. Len(s)
        /\ IsGet(s[i + 1], a) /\ i + 1 # 1 /\ i + 1 + 1 # 1
    BY <1>1, <1>2, <2>1
  <2>3. ~IsGet(s[1], a) /\ ~IsGet(s[1], b)
    BY <2>1, <2>2 DEF ReadsOnce, IsGet
  <2> QED
    BY <1>1, <2>1, <2>2, <2>3
<1>3. ASSUME NEW i \in 1 .. Len(r), IsGet(r[i], b)
      PROVE  q[b] = NoValue /\ ((i > 1 /\ IsGet(r[i - 1], a)) \/ (i = 1 /\ q[a] # NoValue))
  <2>1. p[b] = NoValue /\ IsGet(s[i + 1 - 1], a)
    BY <1>1, <1>3 DEF ReadsInTurn
  <2>2. ~IsGet(s[1], b)
    <3>1. 1 \in 1 .. Len(s) /\ i + 1 \in 1 .. Len(s) /\ i + 1 # 1 /\ IsGet(s[i + 1], b)
      BY <1>1, <1>3
    <3> QED
      BY <3>1 DEF ReadsOnce, IsGet
  <2>3. CASE i = 1
    BY <2>1, <2>2, <2>3
  <2>4. CASE i > 1
    <3>1. r[i - 1] = s[i - 1 + 1]
      BY <1>1, <2>4
    <3> QED
      BY <1>1, <2>1, <2>2, <2>4, <3>1
  <2> QED
    BY <1>1, <2>3, <2>4
<1>4. ASSUME q[a] # NoValue, q[b] = NoValue
      PROVE  r # <<>> /\ IsGet(r[1], b)
  <2>1. CASE IsGet(s[1], a)
    <3>1. 1 < Len(s) /\ IsGet(s[1 + 1], b)
      BY <1>1, <2>1 DEF ReadsInTurn
    <3> QED
      BY <1>1, <3>1
  <2>2. CASE ~IsGet(s[1], a)
    BY <1>4, <2>2 DEF ReadsInTurn
  <2> QED
    BY <2>1, <2>2
<1> QED
  BY <1>2, <1>3, <1>4 DEF ReadsInTurn, r

LEMMA ReadingTail ==
  ASSUME NEW s \in Seq(Steps), s # <<>>, Reading(s)
  PROVE  Reading(Tail(s))
<1> DEFINE r == Tail(s)
<1>1. /\ r \in Seq(Steps) /\ Len(r) = Len(s) - 1 /\ Len(s) \in Nat \ {0}
      /\ \A i \in 1 .. Len(r) : r[i] = s[i + 1] /\ i + 1 \in 1 .. Len(s)
  BY Tails
<1> HIDE DEF r
<1>2. ReadsOnce(r)
  <2>1. ASSUME NEW i \in 1 .. Len(r), NEW j \in 1 .. Len(r), r[i].op = "get",
               r[j].op = "get", r[i].on = r[j].on
        PROVE  i = j
    <3>1. i + 1 = j + 1
      BY <1>1, <2>1 DEF Reading, ReadsOnce
    <3> QED
      BY <3>1
  <2> QED
    BY <2>1 DEF ReadsOnce
<1>3. Ended(r)
  <2>1. CASE r # <<>>
    <3>1. Len(r) \in 1 .. Len(r)
      BY <1>1, <2>1, EmptySeq
    <3>2. r[Len(r)] = s[Len(s)]
      BY <1>1, <3>1
    <3> QED
      BY <3>2 DEF Reading, Ended
  <2> QED
    BY <2>1 DEF Ended
<1> QED
  BY <1>1, <1>2, <1>3 DEF Reading, r

-----------------------------------------------------------------------------
LEMMA Advancing ==
  ASSUME TypeOK, NEW t \in Threads, NEW op, Advance(t, op)
  PROVE  /\ todo[t] \in Seq(Steps) /\ todo[t] # <<>>
         /\ Head(todo[t]) = todo[t][1] /\ Head(todo[t]) \in Steps /\ Head(todo[t]).op = op
         /\ todo' \in [Threads -> Seq(Steps)] /\ todo'[t] = Tail(todo[t])
         /\ \A u \in Threads \ {t} : todo'[u] = todo[u]
         /\ UNCHANGED <<handlers, pages>>
BY Tails DEF TypeOK, Advance

LEMMA OnlyMainWrites ==
  ASSUME TypeOK, WebInv, NEW t \in Threads, Write(t)
  PROVE  t = Main
<1>1. todo[t] \in Seq(Steps) /\ todo[t] # <<>> /\ todo[t][1].op = "put"
  BY Advancing DEF Write
<1>2. 1 \in 1 .. Len(todo[t])
  BY <1>1, Tails
<1> QED
  BY <1>1, <1>2 DEF WebInv, Serving, Reading, Threads

LEMMA OnlyWebReads ==
  ASSUME TypeOK, LoadInv, NEW t \in Threads, Read(t)
  PROVE  t \in Web
<1>1. todo[t] \in Seq(Steps) /\ todo[t] # <<>> /\ todo[t][1].op = "get"
  BY Advancing DEF Read
<1>2. 1 \in 1 .. Len(todo[t])
  BY <1>1, Tails
<1> QED
  BY <1>1, <1>2 DEF LoadInv, SetsInTurn, Threads

LEMMA OnlyHoldersRelease ==
  ASSUME TypeOK, LockInv, NEW t \in Threads, Release(t)
  PROVE  LET l == Head(todo[t]).on IN l \in Locks /\ holder[l] = t /\ depth[l] \in Nat \ {0}
<1> DEFINE l == Head(todo[t]).on
<1>1. Head(todo[t]) \in Steps /\ Head(todo[t]).op = "unlock"
  BY Advancing DEF Release
<1>2. l \in Locks
  BY <1>1 DEF Steps
<1>3. Change(Head(todo[t]), l) = -1
  BY <1>1 DEF Change
<1>4. Own(t, l) + Change(Head(todo[t]), l) \in Nat
  BY <1>2, Advancing, TailIsAnnotated DEF Release, LockInv
<1>5. depth[l] \in Nat
  BY <1>2 DEF TypeOK
<1> HIDE DEF l
<1>6. holder[l] = t /\ depth[l] \in Nat \ {0}
  BY <1>3, <1>4, <1>5 DEF Own
<1> QED
  BY <1>2, <1>6 DEF l

(* A thread begins a list of steps.                                        *)
LEMMA Beginning ==
  ASSUME TypeOK, NEW t \in Threads, NEW steps \in Seq(Steps),
         todo' = [todo EXCEPT ![t] = steps]
  PROVE  /\ todo' \in [Threads -> Seq(Steps)] /\ todo'[t] = steps
         /\ \A u \in Threads \ {t} : todo'[u] = todo[u]
<1> DEFINE S == Seq(Steps)
<1>1. todo \in [Threads -> S] /\ steps \in S
  BY DEF TypeOK
<1> HIDE DEF S
<1>2. /\ todo' \in [Threads -> S] /\ todo'[t] = steps
      /\ \A u \in Threads \ {t} : todo'[u] = todo[u]
  BY <1>1
<1> QED
  BY <1>2 DEF S

LEMMA TypeStep ==
  ASSUME TypeOK, LockInv, LoadInv, Next
  PROVE  TypeOK'
<1>1. CASE \E steps \in Handlers : Handle(steps)
  <2>1. PICK steps \in Handlers : Handle(steps)
    BY <1>1
  <2>2. steps \in Seq(Steps)
    BY HandlersAreMainLists DEF MainList, Program
  <2>3. handlers' \in Nat
    BY <2>1 DEF Handle, TypeOK
  <2>4. todo' \in [Threads -> Seq(Steps)]
    BY <2>1, <2>2, Beginning DEF Handle, Threads
  <2> QED
    BY <2>1, <2>3, <2>4 DEF Handle, TypeOK
<1>2. CASE \E w \in Web, steps \in service : Request(w, steps)
  <2>1. PICK w \in Web, steps \in service : Request(w, steps)
    BY <1>2
  <2>2. steps \in Seq(Steps)
    BY PagesArePageLists DEF PageList, Program
  <2>3. Displayed \in Values \X Values
    BY DEF Displayed, TypeOK, Fields
  <2>4. pages' \in Nat
    BY <2>1 DEF Request, TypeOK
  <2>6. todo' \in [Threads -> Seq(Steps)]
    BY <2>1, <2>2, Beginning DEF Request, Threads
  <2>5. shown' \in [Web -> SUBSET (Values \X Values)]
    BY <2>1, <2>3 DEF Request, TypeOK
  <2> QED
    BY <2>1, <2>4, <2>5, <2>6 DEF Request, TypeOK
<1>3. ASSUME NEW t \in Threads, Acquire(t)
      PROVE  TypeOK'
  <2>1. Head(todo[t]).on \in Locks
    BY <1>3, Advancing DEF Acquire, Steps
  <2> QED
    BY <1>3, <2>1, Advancing DEF Acquire, TypeOK
<1>4. ASSUME NEW t \in Threads, Release(t)
      PROVE  TypeOK'
  <2> DEFINE l == Head(todo[t]).on
  <2>1. l \in Locks /\ depth[l] \in Nat \ {0}
    BY <1>4, OnlyHoldersRelease
  <2>2. /\ depth' = [depth EXCEPT ![l] = @ - 1] /\ depth \in [Locks -> Nat]
        /\ holder' = [holder EXCEPT ![l] = IF depth[l] = 1 THEN NoThread ELSE t]
        /\ holder \in [Locks -> Threads \cup {NoThread}]
    BY <1>4 DEF Release, TypeOK
  <2> HIDE DEF l
  <2>3. depth' \in [Locks -> Nat] /\ holder' \in [Locks -> Threads \cup {NoThread}]
    BY <2>1, <2>2
  <2>4. page' \in [Web -> [Fields -> Values]] /\ shown' \in [Web -> SUBSET (Values \X Values)]
          /\ raced' \in [Web -> BOOLEAN]
    <3>1. BlankPage \in [Fields -> Values]
      BY DEF BlankPage, Values
    <3> QED
      BY <1>4, <3>1 DEF Release, TypeOK
  <2> QED
    BY <1>4, <2>3, <2>4, Advancing DEF Release, TypeOK
<1>5. ASSUME NEW t \in Threads, Write(t)
      PROVE  TypeOK'
  <2>1. Head(todo[t]).on \in Fields /\ Head(todo[t]).value \in Values \ {NoValue}
    BY <1>5, Advancing DEF Write, Steps
  <2>2. shared' \in [Fields -> Values \ {NoValue}]
    BY <1>5, <2>1 DEF Write, TypeOK
  <2>3. Displayed' \in Values \X Values
    BY <2>2 DEF Displayed, Fields
  <2>4. shown' \in [Web -> SUBSET (Values \X Values)] /\ raced' \in [Web -> BOOLEAN]
    BY <1>5, <2>3 DEF Write, TypeOK
  <2> QED
    BY <1>5, <2>2, <2>4, Advancing DEF Write, TypeOK
<1>6. ASSUME NEW t \in Threads, Read(t)
      PROVE  TypeOK'
  <2>0. TypeOK /\ LoadInv
    OBVIOUS
  <2>1. t \in Web /\ Head(todo[t]).on \in Fields
    <3>1. t \in Web
      BY ONLY <1>6, <2>0, OnlyWebReads
    <3>2. Head(todo[t]) \in Steps /\ Head(todo[t]).op = "get"
      BY <1>6, Advancing DEF Read
    <3> QED
      BY <3>1, <3>2 DEF Steps
  <2>2. PICK v \in {shared[Head(todo[t]).on], Garbled} :
               page' = [page EXCEPT ![t][Head(todo[t]).on] = v]
    BY <1>6 DEF Read
  <2>3. v \in Values
    BY <2>1, <2>2 DEF TypeOK, Values
  <2>4. page' \in [Web -> [Fields -> Values]]
    BY <2>1, <2>2, <2>3 DEF TypeOK
  <2>5. raced' \in [Web -> BOOLEAN]
    <3>1. raced' = [raced EXCEPT ![t] = @ \/ (BeingPut(Head(todo[t]).on)
                                              /\ Head(todo[Main]).value \in Pictures)]
      BY <1>6 DEF Read
    <3>2. (raced[t] \/ (BeingPut(Head(todo[t]).on) /\ Head(todo[Main]).value \in Pictures))
            \in BOOLEAN
      BY <2>1 DEF TypeOK
    <3> QED
      BY <2>1, <3>1, <3>2 DEF TypeOK
  <2> QED
    BY <1>6, <2>4, <2>5, Advancing DEF Read, TypeOK
<1>7. ASSUME NEW t \in Threads, SendPage(t)
      PROVE  TypeOK'
  BY <1>7, Advancing DEF SendPage, TypeOK
<1> QED
  BY <1>1, <1>2, <1>3, <1>4, <1>5, <1>6, <1>7 DEF Next, Run

(* Locks.                                                                  *)
LEMMA NewListIsAnnotated ==
  ASSUME TypeOK, LockInv, NEW t \in Threads, NEW steps, Program(steps), todo[t] = <<>>,
         todo' = [todo EXCEPT ![t] = steps], UNCHANGED <<holder, depth>>
  PROVE  LockInv'
<1>1. ASSUME NEW l \in Locks, NEW u \in Threads
      PROVE  Annotated(todo'[u], l, Own(u, l)')
  <2>1. Own(u, l)' = Own(u, l) /\ Annotated(todo[u], l, Own(u, l))
    BY DEF Own, LockInv
  <2>2. CASE u = t
    <3>1. Own(u, l) = 0
      BY <2>1, <2>2, NothingLeftNothingHeld
    <3>2. Annotated(steps, l, 0)
      BY DEF Program, Balanced, Annotated
    <3> QED
      BY <2>1, <2>2, <3>1, <3>2 DEF TypeOK
  <2>3. CASE u # t
    BY <2>1, <2>3 DEF TypeOK
  <2> QED
    BY <2>2, <2>3
<1> QED
  BY <1>1 DEF LockInv

LEMMA LockStep ==
  ASSUME TypeOK, LockInv, Next
  PROVE  LockInv'
<1>1. CASE \E steps \in Handlers : Handle(steps)
  BY <1>1, HandlersAreMainLists, NewListIsAnnotated DEF Handle, MainList, Threads
<1>2. CASE \E w \in Web, steps \in service : Request(w, steps)
  BY <1>2, PagesArePageLists, NewListIsAnnotated DEF Request, PageList, Threads
<1>3. ASSUME NEW t \in Threads, NEW op, Advance(t, op), NEW l \in Locks, NEW u \in Threads,
             Own(u, l)' = IF u = t THEN Own(t, l) + Change(Head(todo[t]), l) ELSE Own(u, l)
      PROVE  Annotated(todo'[u], l, Own(u, l)')
  <2>1. Annotated(todo[u], l, Own(u, l))
    BY DEF LockInv
  <2> QED
    BY <1>3, <2>1, Advancing, TailIsAnnotated
<1>4. ASSUME NEW t \in Threads, Acquire(t)
      PROVE  LockInv'
  <2> DEFINE k == Head(todo[t]).on
  <2>1. /\ Head(todo[t]).op = "lock" /\ k \in Locks /\ holder[k] \in {NoThread, t}
        /\ holder' = [holder EXCEPT ![k] = t] /\ depth' = [depth EXCEPT ![k] = @ + 1]
    BY <1>4, Advancing DEF Acquire, Steps
  <2>2. ASSUME NEW l \in Locks
        PROVE  Change(Head(todo[t]), l) = IF k = l THEN 1 ELSE 0
    BY <2>1 DEF Change
  <2>3. ASSUME NEW l \in Locks
        PROVE  /\ holder'[l] = NoThread <=> depth'[l] = 0
               /\ \A u \in Threads :
                    Own(u, l)' = IF u = t THEN Own(t, l) + Change(Head(todo[t]), l) ELSE Own(u, l)
    <3>1. (holder[l] = NoThread <=> depth[l] = 0) /\ depth[l] \in Nat /\ l \in Locks
            /\ NoThread \notin Threads
      BY ConstantsAssumption DEF LockInv, TypeOK, Locks
    <3> HIDE DEF k
    <3>2. CASE k = l
      BY <2>1, <2>2, <3>1, <3>2 DEF Own, TypeOK
    <3>3. CASE k # l
      <4>1. holder'[l] = holder[l] /\ depth'[l] = depth[l]
        BY <2>1, <3>1, <3>3 DEF TypeOK
      <4> QED
        BY <2>2, <3>1, <3>3, <4>1 DEF Own
    <3> QED
      BY <3>2, <3>3
  <2> QED
    BY <1>3, <1>4, <2>3 DEF LockInv, Acquire
<1>5. ASSUME NEW t \in Threads, Release(t)
      PROVE  LockInv'
  <2> DEFINE k == Head(todo[t]).on
  <2>1. /\ Head(todo[t]).op = "unlock" /\ k \in Locks
        /\ holder' = [holder EXCEPT ![k] = IF depth[k] = 1 THEN NoThread ELSE t]
        /\ depth' = [depth EXCEPT ![k] = @ - 1]
    BY <1>5, Advancing DEF Release, Steps
  <2>2. ASSUME NEW l \in Locks
        PROVE  Change(Head(todo[t]), l) = IF k = l THEN -1 ELSE 0
    BY <2>1 DEF Change
  <2>3. ASSUME NEW l \in Locks
        PROVE  /\ holder'[l] = NoThread <=> depth'[l] = 0
               /\ \A u \in Threads :
                    Own(u, l)' = IF u = t THEN Own(t, l) + Change(Head(todo[t]), l) ELSE Own(u, l)
    <3>1. (holder[l] = NoThread <=> depth[l] = 0) /\ depth[l] \in Nat /\ l \in Locks
            /\ NoThread \notin Threads
      BY ConstantsAssumption DEF LockInv, TypeOK, Locks
    <3>2. Own(t, l) + Change(Head(todo[t]), l) \in Nat
      BY <1>5, Advancing, TailIsAnnotated DEF Release, LockInv
    <3> HIDE DEF k
    <3>3. CASE k = l
      <4>1. holder[l] = t /\ depth[l] >= 1
        BY <2>2, <3>1, <3>2, <3>3 DEF Own
      <4> QED
        BY <2>1, <2>2, <3>1, <3>3, <4>1 DEF Own, TypeOK
    <3>4. CASE k # l
      <4>1. holder'[l] = holder[l] /\ depth'[l] = depth[l]
        BY <2>1, <3>1, <3>4 DEF TypeOK
      <4> QED
        BY <2>2, <3>1, <3>4, <4>1 DEF Own
    <3> QED
      BY <3>3, <3>4
  <2> QED
    BY <1>3, <1>5, <2>3 DEF LockInv, Release
<1>6. ASSUME NEW t \in Threads, NEW op \in {"put", "get", "send"}, Advance(t, op),
             UNCHANGED <<holder, depth>>
      PROVE  LockInv'
  <2>1. ASSUME NEW l \in Locks, NEW u \in Threads
        PROVE  Own(u, l)' = IF u = t THEN Own(t, l) + Change(Head(todo[t]), l) ELSE Own(u, l)
    <3>1. Change(Head(todo[t]), l) = 0
      BY <1>6, Advancing DEF Change
    <3>2. Own(u, l)' = Own(u, l) /\ Own(u, l) \in Nat
      BY <1>6 DEF Own, TypeOK, Locks
    <3> QED
      BY <3>1, <3>2
  <2> QED
    BY <1>3, <1>6, <2>1 DEF LockInv
<1> QED
  BY <1>1, <1>2, <1>4, <1>5, <1>6 DEF Next, Run, Write, Read, SendPage

-----------------------------------------------------------------------------
(* The two halves of the schedule.                                         *)
LEMMA MainAdvances ==
  ASSUME TypeOK, LoadInv, NEW op, Advance(Main, op),
         LET s == Head(todo[Main]) IN
         \A f \in {"top", "bottom"} :
           shared'[f] = IF s.op = "put" /\ s.on = f THEN s.value ELSE shared[f]
  PROVE  LoadInv'
<1>1. /\ todo[Main] \in Seq(Steps) /\ todo[Main] # <<>> /\ Head(todo[Main]) = todo[Main][1]
      /\ todo'[Main] = Tail(todo[Main])
  BY Advancing DEF Threads
<1> DEFINE s == todo[Main]
<1>2. /\ shared'["top"] = AfterFirst(s, "top", shared["top"])
      /\ shared'["bottom"] = AfterFirst(s, "bottom", shared["bottom"])
  BY <1>1 DEF AfterFirst
<1>3. SetsInTurn(s, shared["top"]) /\ (shared["top"] # shared["bottom"] => Midway(s, shared["top"]))
  BY DEF LoadInv
<1> HIDE DEF s
<1>4. SetsInTurn(Tail(s), shared'["top"])
  BY <1>1, <1>2, <1>3, SetsInTurnTail DEF s
<1>5. shared'["top"] # shared'["bottom"] => Midway(Tail(s), shared'["top"])
  BY <1>1, <1>2, <1>3, MidwayTail DEF s
<1> QED
  BY <1>1, <1>4, <1>5 DEF LoadInv, s

LEMMA LoadStep ==
  ASSUME TypeOK, LoadInv, WebInv, Next
  PROVE  LoadInv'
<1>1. CASE \E steps \in Handlers : Handle(steps)
  <2>1. PICK steps \in Handlers : Handle(steps)
    BY <1>1
  <2>2. steps \in Seq(Steps) /\ TopsFirst(steps)
    BY HandlersAreMainLists DEF MainList, Program
  <2>3. SetsInTurn(steps, shared["top"])
    BY <2>2 DEF TopsFirst, SetsInTurn
  <2>4. todo'[Main] = steps /\ shared' = shared /\ todo[Main] = <<>>
    BY <2>1, <2>2, Beginning DEF Handle, Threads
  <2>5. shared["top"] = shared["bottom"]
    BY <2>4 DEF LoadInv, Midway
  <2> QED
    BY <2>3, <2>4, <2>5 DEF LoadInv
<1>2. ASSUME todo'[Main] = todo[Main], shared' = shared
      PROVE  LoadInv'
  BY <1>2 DEF LoadInv
<1>3. CASE \E w \in Web, steps \in service : Request(w, steps)
  <2>1. PICK w \in Web, steps \in service : Request(w, steps)
    BY <1>3
  <2>2. steps \in Seq(Steps) /\ w # Main
    BY PagesArePageLists, ConstantsAssumption DEF PageList, Program
  <2>3. todo'[Main] = todo[Main] /\ shared' = shared
    BY <2>1, <2>2, Beginning DEF Request, Threads
  <2> QED
    BY <1>2, <2>3
<1>4. ASSUME NEW t \in Threads, NEW op \in {"lock", "unlock", "get", "send"}, Advance(t, op),
             shared' = shared
      PROVE  LoadInv'
  <2>1. CASE t = Main
    <3>1. Head(todo[Main]).op # "put"
      BY <1>4, <2>1 DEF Advance
    <3> QED
      BY <1>4, <2>1, <3>1, MainAdvances
  <2>2. CASE t # Main
    BY <1>2, <1>4, <2>2, Advancing DEF Threads
  <2> QED
    BY <2>1, <2>2
<1>5. ASSUME NEW t \in Threads, Write(t)
      PROVE  LoadInv'
  <2>1. t = Main
    BY <1>5, OnlyMainWrites
  <2>2. /\ Advance(Main, "put") /\ Head(todo[Main]).op = "put"
        /\ shared' = [shared EXCEPT ![Head(todo[Main]).on] = Head(todo[Main]).value]
        /\ shared \in [Fields -> Values \ {NoValue}]
    BY <1>5, <2>1 DEF Write, Advance, TypeOK
  <2>3. ASSUME NEW f \in {"top", "bottom"}
        PROVE  shared'[f] = IF Head(todo[Main]).on = f THEN Head(todo[Main]).value ELSE shared[f]
    BY <2>2 DEF Fields
  <2> QED
    BY <2>2, <2>3, MainAdvances
<1> QED
  BY <1>1, <1>3, <1>4, <1>5 DEF Next, Run, Acquire, Release, Read, SendPage

-----------------------------------------------------------------------------
(* The lists of the web threads.                                           *)
LEMMA BeginsServing ==
  ASSUME NEW s, PageList(s)
  PROVE  Serving(s, BlankPage)
<1>1. \A f \in {"heading", "message", "top", "bottom"} : BlankPage[f] = NoValue
  BY DEF BlankPage, Fields
<1>2. ReadsInTurn(s, BlankPage, "heading", "message") /\ ReadsInTurn(s, BlankPage, "top", "bottom")
  BY <1>1 DEF PageList, ReadsBoth, ReadsInTurn
<1> QED
  BY <1>2 DEF PageList, Serving, Reading

LEMMA ServingTail ==
  ASSUME NEW s \in Seq(Steps), s # <<>>, NEW p \in [Fields -> Values], Serving(s, p),
         s[1].op # "unlock", NEW v \in Values \ {NoValue}, NEW q,
         q = IF s[1].op = "get" THEN [p EXCEPT ![s[1].on] = v] ELSE p
  PROVE  Serving(Tail(s), q)
<1>1. Len(s) # 1 /\ Tail(s) # <<>>
  BY Tails DEF Serving, Reading, Ended
<1>2. Reading(Tail(s)) /\ ReadsOnce(s)
  BY ReadingTail DEF Serving, Reading
<1>3. ASSUME NEW a \in Fields, NEW b \in Fields, a # b, ReadsInTurn(s, p, a, b)
      PROVE  ReadsInTurn(Tail(s), q, a, b)
  <2>1. IF IsGet(s[1], a) THEN q[a] # NoValue /\ q[b] = p[b]
        ELSE IF IsGet(s[1], b) THEN q[b] # NoValue /\ q[a] = p[a]
        ELSE q[a] = p[a] /\ q[b] = p[b]
    BY <1>3 DEF IsGet
  <2> QED
    BY <1>2, <1>3, <2>1, ReadsInTurnTail
<1>4. ReadsInTurn(Tail(s), q, "heading", "message") /\ ReadsInTurn(Tail(s), q, "top", "bottom")
  BY <1>3 DEF Serving, Fields
<1> QED
  BY <1>1, <1>2, <1>4 DEF Serving

LEMMA ServingEnd ==
  ASSUME NEW s \in Seq(Steps), s # <<>>, NEW p, Serving(s, p), s[1].op = "unlock", NEW q,
         q = IF Tail(s) = <<>> THEN BlankPage ELSE p
  PROVE  Serving(Tail(s), q)
<1>1. Reading(Tail(s)) /\ ReadsOnce(s)
  BY ReadingTail DEF Serving, Reading
<1>2. CASE Tail(s) = <<>>
  <2>1. \A f \in {"heading", "message", "top", "bottom"} : BlankPage[f] = NoValue
    BY DEF BlankPage, Fields
  <2>2. Len(<<>>) = 0
    OBVIOUS
  <2>3. /\ ReadsInTurn(<<>>, BlankPage, "heading", "message")
        /\ ReadsInTurn(<<>>, BlankPage, "top", "bottom")
    BY <2>1, <2>2 DEF ReadsInTurn
  <2> QED
    BY <1>1, <1>2, <2>3 DEF Serving
<1>3. CASE Tail(s) # <<>>
  <2>1. /\ ReadsInTurn(Tail(s), q, "heading", "message")
        /\ ReadsInTurn(Tail(s), q, "top", "bottom")
    BY <1>1, <1>3, ReadsInTurnTail DEF Serving, IsGet
  <2> QED
    BY <1>1, <1>3, <2>1 DEF Serving
<1> QED
  BY <1>2, <1>3

LEMMA WebStep ==
  ASSUME TypeOK, LoadInv, WebInv, Next, NEW w \in Web
  PROVE  Serving(todo[w], page[w])'
<1>1. w \in Threads /\ w # Main /\ Serving(todo[w], page[w]) /\ page[w] \in [Fields -> Values]
  BY ConstantsAssumption DEF Threads, WebInv, TypeOK
<1>2. ASSUME todo'[w] = todo[w], page'[w] = page[w]
      PROVE  Serving(todo[w], page[w])'
  BY <1>1, <1>2
<1>3. CASE \E steps \in Handlers : Handle(steps)
  <2>1. PICK steps \in Handlers : Handle(steps)
    BY <1>3
  <2>2. steps \in Seq(Steps)
    BY HandlersAreMainLists DEF MainList, Program
  <2> QED
    BY <1>1, <1>2, <2>1, <2>2, Beginning DEF Handle, Threads
<1>4. CASE \E u \in Web, steps \in service : Request(u, steps)
  <2>1. PICK u \in Web, steps \in service : Request(u, steps)
    BY <1>4
  <2>2. steps \in Seq(Steps) /\ PageList(steps)
    BY PagesArePageLists DEF PageList, Program
  <2>3. /\ todo'[u] = steps /\ \A x \in Threads \ {u} : todo'[x] = todo[x]
        /\ page' = page /\ todo[u] = <<>>
    BY <2>1, <2>2, Beginning DEF Request, Threads
  <2>4. CASE u = w
    <3>1. page[w] = BlankPage
      BY <1>1, <2>3, <2>4 DEF Serving
    <3> QED
      BY <2>2, <2>3, <2>4, <3>1, BeginsServing
  <2>5. CASE u # w
    BY <1>1, <1>2, <2>3, <2>5
  <2> QED
    BY <2>4, <2>5
<1>5. ASSUME NEW t \in Threads, NEW op \in {"lock", "put", "send"}, Advance(t, op), page' = page
      PROVE  Serving(todo[w], page[w])'
  <2>1. CASE t = w
    <3>1. /\ todo[w] \in Seq(Steps) /\ todo[w] # <<>> /\ todo'[w] = Tail(todo[w])
          /\ todo[w][1].op \in {"lock", "put", "send"}
      BY <1>5, <2>1, Advancing
    <3>2. Garbled \in Values \ {NoValue}
      BY DEF Values, Garbled, NoValue
    <3>3. Serving(Tail(todo[w]), page[w])
      BY <1>1, <3>1, <3>2, ServingTail
    <3> QED
      BY <1>5, <3>1, <3>3
  <2>2. CASE t # w
    BY <1>1, <1>2, <1>5, <2>2, Advancing
  <2> QED
    BY <2>1, <2>2
<1>6. ASSUME NEW t \in Threads, Release(t)
      PROVE  Serving(todo[w], page[w])'
  <2>1. CASE t = w
    <3>1. /\ todo[w] \in Seq(Steps) /\ todo[w] # <<>> /\ todo'[w] = Tail(todo[w])
          /\ todo[w][1].op = "unlock"
      BY <1>6, <2>1, Advancing DEF Release
    <3>2. page'[w] = IF Tail(todo[w]) = <<>> THEN BlankPage ELSE page[w]
      BY <1>6, <2>1 DEF Release, TypeOK
    <3> QED
      BY <1>1, <3>1, <3>2, ServingEnd
  <2>2. CASE t # w
    <3>1. page'[w] = page[w]
      BY <1>6, <2>2 DEF Release, TypeOK
    <3> QED
      BY <1>1, <1>2, <1>6, <2>2, <3>1, Advancing DEF Release
  <2> QED
    BY <2>1, <2>2
<1>7. ASSUME NEW t \in Threads, Read(t)
      PROVE  Serving(todo[w], page[w])'
  <2>1. PICK v \in {shared[Head(todo[t]).on], Garbled} :
               page' = [page EXCEPT ![t][Head(todo[t]).on] = v]
    BY <1>7 DEF Read
  <2>2. CASE t = w
    <3>1. /\ todo[w] \in Seq(Steps) /\ todo[w] # <<>> /\ todo'[w] = Tail(todo[w])
          /\ todo[w][1].op = "get" /\ Head(todo[w]) = todo[w][1] /\ todo[w][1] \in Steps
      BY <1>7, <2>2, Advancing DEF Read
    <3>2. todo[w][1].on \in Fields
      BY <3>1 DEF Steps
    <3>3. v \in Values \ {NoValue}
      BY <2>1, <2>2, <3>1, <3>2 DEF TypeOK, Values, Garbled, NoValue
    <3>4. page'[w] = [page[w] EXCEPT ![todo[w][1].on] = v]
      BY <2>1, <2>2, <3>1 DEF TypeOK
    <3> QED
      BY <1>1, <3>1, <3>3, <3>4, ServingTail
  <2>3. CASE t # w
    <3>1. page'[w] = page[w]
      BY <2>1, <2>3 DEF TypeOK
    <3> QED
      BY <1>1, <1>2, <1>7, <2>3, <3>1, Advancing DEF Read
  <2> QED
    BY <2>2, <2>3
<1> QED
  BY <1>3, <1>4, <1>5, <1>6, <1>7 DEF Next, Run, Acquire, Write, SendPage

-----------------------------------------------------------------------------
(* What the pages show.                                                    *)
Shows(w) ==
  /\ todo[w] # <<>> => Displayed \in shown[w]
  /\ page[w]["heading"] # NoValue /\ page[w]["message"] = NoValue /\ ~raced[w] =>
       page[w]["heading"] = shared["heading"]
  /\ page[w]["top"] # NoValue /\ page[w]["bottom"] = NoValue =>
       page[w]["top"] = shared["top"] /\ page[w]["top"] = shared["bottom"]
  /\ page[w]["message"] # NoValue /\ ~raced[w] =>
       <<page[w]["heading"], page[w]["message"]>> \in shown[w]
  /\ page[w]["bottom"] # NoValue => page[w]["top"] = page[w]["bottom"]

LEMMA AllShow ==
  (\A w \in Web : Shows(w)) <=> ShowInv /\ PageIsASnapshot /\ TableIsOfOneFile
BY DEF Shows, ShowInv, PageIsASnapshot, TableIsOfOneFile

LEMMA BlankPageShows ==
  ASSUME NEW w \in Web, page'[w] = BlankPage, todo'[w] # <<>> => Displayed' \in shown'[w]
  PROVE  Shows(w)'
<1>1. \A f \in {"heading", "message", "top", "bottom"} : BlankPage[f] = NoValue
  BY DEF BlankPage, Fields
<1> QED
  BY <1>1 DEF Shows

(* A thread that is about to read a text has mainMutex, and the main       *)
(* thread is not about to set it, unless to a text of the program's own;   *)
(* one that is about to read the schedule has schedMutex.                  *)
LEMMA ReaderHolds ==
  ASSUME TypeOK, LockInv, NEW w \in Web, todo[w] # <<>>, todo[w][1].op = "get"
  PROVE  /\ todo[w][1].on \in {"heading", "message"} => holder[MainLock] = w
         /\ todo[w][1].on \in {"top", "bottom"} => holder[SchedLock] = w
<1>1. /\ w \in Threads /\ Head(todo[w]) = todo[w][1] /\ todo[w][1] \in Steps
      /\ MainLock \in Locks /\ SchedLock \in Locks
  BY Tails DEF Threads, TypeOK, Locks
<1>2. todo[w][1].value = NoValue /\ NoValue \notin Pictures
  BY <1>1 DEF Steps, NoValue, Pictures
<1>3. /\ todo[w][1].on \in {"heading", "message"} => Needed(todo[w][1], MainLock) = 1
      /\ todo[w][1].on \in {"top", "bottom"} => Needed(todo[w][1], SchedLock) = 1
  BY <1>2 DEF Needed, MainLock, SchedLock
<1> QED
  BY <1>1, <1>3, WhoNeedsHolds

LEMMA SetterHolds ==
  ASSUME TypeOK, LockInv, todo[Main] # <<>>, Head(todo[Main]).op = "put"
  PROVE  LET s == Head(todo[Main]) IN
         /\ s.on \in {"heading", "message"} /\ s.value \notin Pictures => holder[MainLock] = Main
         /\ s.on \in {"top", "bottom"} => holder[SchedLock] = Main
<1> DEFINE s == Head(todo[Main])
<1>1. Main \in Threads /\ MainLock \in Locks /\ SchedLock \in Locks
  BY DEF Threads, Locks
<1>2. /\ s.on \in {"heading", "message"} /\ s.value \notin Pictures => Needed(s, MainLock) = 1
      /\ s.on \in {"top", "bottom"} => Needed(s, SchedLock) = 2
  BY DEF Needed, MainLock, SchedLock
<1> QED
  BY <1>1, <1>2, WhoNeedsHolds

LEMMA SetWhileReading ==
  ASSUME IInv, Write(Main), NEW w \in Web
  PROVE  Shows(w)'
<1> DEFINE s == Head(todo[Main])
<1>1. /\ TypeOK /\ LockInv /\ Serving(todo[w], page[w]) /\ Shows(w) /\ w # Main
      /\ w \in Threads /\ Main \in Threads
  BY ConstantsAssumption, AllShow DEF IInv, WebInv, Threads
<1>2. /\ todo[Main] # <<>> /\ s.op = "put" /\ todo'[w] = todo[w] /\ page' = page
      /\ s \in Steps
  BY <1>1, Advancing DEF Write
<1>3. /\ s.on \in Fields /\ shared' = [shared EXCEPT ![s.on] = s.value]
      /\ shared \in [Fields -> Values \ {NoValue}]
  <2>1. s.on \in Fields
    BY <1>2 DEF Steps
  <2> QED
    BY <1>1, <2>1 DEF Write, TypeOK
<1>4. /\ shown'[w] = IF todo[w] = <<>> THEN {} ELSE shown[w] \cup {Displayed'}
      /\ raced'[w] = (todo[w] # <<>> /\ (raced[w] \/ s.value \in Pictures))
  BY DEF Write
<1> HIDE DEF s
<1>5. page[w]["heading"] # NoValue \/ page[w]["message"] # NoValue => todo[w] # <<>>
  BY <1>1 DEF Serving, BlankPage, Fields
<1>6. ASSUME page[w]["heading"] # NoValue, page[w]["message"] = NoValue, ~raced'[w]
      PROVE  page[w]["heading"] = shared'["heading"]
  <2>1. todo[w] # <<>> /\ IsGet(todo[w][1], "message")
    BY <1>1, <1>6 DEF Serving, ReadsInTurn
  <2>2. ~raced[w] /\ s.value \notin Pictures
    BY <1>4, <1>6, <2>1
  <2>3. holder[MainLock] = w
    BY <1>1, <2>1, ReaderHolds DEF IsGet
  <2>4. s.on # "heading"
    BY <1>1, <1>2, <2>2, <2>3, SetterHolds DEF s
  <2> QED
    BY <1>1, <1>3, <1>6, <2>2, <2>4 DEF Shows, Fields
<1>7. ASSUME page[w]["top"] # NoValue, page[w]["bottom"] = NoValue
      PROVE  page[w]["top"] = shared'["top"] /\ page[w]["top"] = shared'["bottom"]
  <2>1. todo[w] # <<>> /\ IsGet(todo[w][1], "bottom")
    BY <1>1, <1>7 DEF Serving, ReadsInTurn
  <2>2. holder[SchedLock] = w
    BY <1>1, <2>1, ReaderHolds DEF IsGet
  <2>3. s.on \notin {"top", "bottom"}
    BY <1>1, <1>2, <2>2, SetterHolds DEF s
  <2> QED
    BY <1>1, <1>3, <1>7, <2>3 DEF Shows, Fields
<1>8. page[w]["message"] # NoValue /\ ~raced'[w] =>
        <<page[w]["heading"], page[w]["message"]>> \in shown'[w]
  BY <1>1, <1>4, <1>5 DEF Shows
<1>9. todo[w] # <<>> => Displayed' \in shown'[w]
  BY <1>4
<1> QED
  BY <1>1, <1>2, <1>6, <1>7, <1>8, <1>9 DEF Shows

LEMMA ReadShows ==
  ASSUME IInv, NEW w \in Web, Read(w)
  PROVE  Shows(w)'
<1> DEFINE f == todo[w][1].on
<1>1. /\ TypeOK /\ LockInv /\ LoadInv /\ Serving(todo[w], page[w]) /\ Shows(w) /\ w \in Threads
  BY AllShow DEF IInv, WebInv, Threads
<1>2. /\ todo[w] \in Seq(Steps) /\ todo[w] # <<>> /\ todo[w][1].op = "get"
      /\ Head(todo[w]) = todo[w][1] /\ 1 \in 1 .. Len(todo[w])
  BY <1>1, Advancing, Tails DEF Read
<1>3. f \in {"heading", "message", "top", "bottom"} /\ f \in Fields
  BY <1>1, <1>2 DEF Serving, Reading, Fields
<1>4. /\ f \in {"heading", "message"} => holder[MainLock] = w
      /\ f \in {"top", "bottom"} => holder[SchedLock] = w
  BY <1>1, <1>2, ReaderHolds
<1>5. PICK v \in {shared[f]} \cup (IF BeingPut(f) THEN {Garbled} ELSE {}) :
             page' = [page EXCEPT ![w][f] = v]
  BY <1>2 DEF Read
<1>6. /\ raced' = [raced EXCEPT ![w] =
                     @ \/ (BeingPut(f) /\ Head(todo[Main]).value \in Pictures)]
      /\ shared' = shared /\ shown' = shown
  BY <1>2 DEF Read
<1>7. raced'[w] = (raced[w] \/ (BeingPut(f) /\ Head(todo[Main]).value \in Pictures))
  BY <1>1, <1>6 DEF TypeOK
<1>8. v = shared[f] \/ raced'[w]
  <2>1. CASE BeingPut(f)
    <3>1. /\ todo[Main] # <<>> /\ Head(todo[Main]).op = "put" /\ Head(todo[Main]).on = f
          /\ f \in {"heading", "message"}
      BY <2>1 DEF BeingPut
    <3>2. w # Main
      BY ConstantsAssumption
    <3>3. Head(todo[Main]).value \in Pictures
      BY <1>1, <1>4, <3>1, <3>2, SetterHolds
    <3> QED
      BY <1>7, <2>1, <3>3
  <2>2. CASE ~BeingPut(f)
    BY <1>5, <2>2
  <2> QED
    BY <2>1, <2>2
<1>9. f \in {"top", "bottom"} => v = shared[f] /\ shared["top"] = shared["bottom"]
  <2>1. f \in {"top", "bottom"} => v = shared[f]
    BY <1>5 DEF BeingPut
  <2>2. shared["top"] # shared["bottom"] => holder[SchedLock] = Main
    BY <1>1, MidwayHolds DEF LoadInv
  <2> QED
    BY <1>4, <2>1, <2>2, ConstantsAssumption
<1>10. /\ page'[w] = [page[w] EXCEPT ![f] = v] /\ page[w] \in [Fields -> Values]
       /\ v # NoValue
  BY <1>1, <1>3, <1>5 DEF TypeOK, Garbled, NoValue
<1>11. /\ f = "heading" => page[w]["message"] = NoValue
       /\ f = "message" => page[w]["heading"] # NoValue /\ page[w]["message"] = NoValue
       /\ f = "top" => page[w]["bottom"] = NoValue
       /\ f = "bottom" => page[w]["top"] # NoValue /\ page[w]["bottom"] = NoValue
  BY <1>1, <1>2 DEF Serving, ReadsInTurn, IsGet
<1> HIDE DEF f
<1>12. /\ page'[w][f] = v
       /\ \A g \in Fields \ {f} : page'[w][g] = page[w][g]
       /\ {"heading", "message", "top", "bottom"} \subseteq Fields
  BY <1>3, <1>10 DEF Fields
<1>13. Displayed' = Displayed /\ Displayed \in shown[w] /\ shown'[w] = shown[w]
  BY <1>1, <1>2, <1>6 DEF Displayed, Shows
<1>14. page'[w]["heading"] # NoValue /\ page'[w]["message"] = NoValue /\ ~raced'[w] =>
         page'[w]["heading"] = shared'["heading"]
  BY <1>1, <1>6, <1>7, <1>8, <1>10, <1>11, <1>12 DEF Shows
<1>15. page'[w]["top"] # NoValue /\ page'[w]["bottom"] = NoValue =>
         page'[w]["top"] = shared'["top"] /\ page'[w]["top"] = shared'["bottom"]
  BY <1>1, <1>6, <1>9, <1>10, <1>11, <1>12 DEF Shows
<1>16. page'[w]["message"] # NoValue /\ ~raced'[w] =>
         <<page'[w]["heading"], page'[w]["message"]>> \in shown'[w]
  <2>1. CASE f = "message"
    BY <1>1, <1>7, <1>8, <1>11, <1>12, <1>13, <2>1 DEF Shows, Displayed
  <2>2. CASE f # "message"
    BY <1>1, <1>7, <1>11, <1>12, <1>13, <2>2 DEF Shows
  <2> QED
    BY <2>1, <2>2
<1>17. page'[w]["bottom"] # NoValue => page'[w]["top"] = page'[w]["bottom"]
  BY <1>1, <1>9, <1>11, <1>12 DEF Shows
<1> QED
  BY <1>13, <1>14, <1>15, <1>16, <1>17 DEF Shows

LEMMA ShowStep ==
  ASSUME IInv, Next, NEW w \in Web
  PROVE  Shows(w)'
<1>1. /\ TypeOK /\ LockInv /\ WebInv /\ Serving(todo[w], page[w]) /\ Shows(w) /\ w # Main
      /\ w \in Threads
  BY ConstantsAssumption, AllShow DEF IInv, WebInv, Threads
<1>2. ASSUME shared' = shared, shown'[w] = shown[w], raced'[w] = raced[w], page'[w] = page[w],
             todo'[w] # <<>> => todo[w] # <<>>
      PROVE  Shows(w)'
  BY <1>1, <1>2 DEF Shows, Displayed
<1>3. CASE \E steps \in Handlers : Handle(steps)
  <2>1. PICK steps \in Handlers : Handle(steps)
    BY <1>3
  <2>2. steps \in Seq(Steps)
    BY HandlersAreMainLists DEF MainList, Program
  <2> QED
    BY <1>1, <1>2, <2>1, <2>2, Beginning DEF Handle, Threads
<1>4. CASE \E u \in Web, steps \in service : Request(u, steps)
  <2>1. PICK u \in Web, steps \in service : Request(u, steps)
    BY <1>4
  <2>2. steps \in Seq(Steps)
    BY PagesArePageLists DEF PageList, Program
  <2>3. /\ \A x \in Threads \ {u} : todo'[x] = todo[x]
        /\ page' = page /\ todo[u] = <<>> /\ shared' = shared /\ raced' = raced
        /\ shown' = [shown EXCEPT ![u] = {Displayed}]
    BY <1>1, <2>1, <2>2, Beginning DEF Request, Threads
  <2>4. CASE u = w
    <3>1. page'[w] = BlankPage /\ Displayed' \in shown'[w]
      BY <1>1, <2>3, <2>4 DEF Serving, TypeOK, Displayed
    <3> QED
      BY <3>1, BlankPageShows
  <2>5. CASE u # w
    <3>1. shown'[w] = shown[w]
      BY <1>1, <2>3, <2>5 DEF TypeOK
    <3> QED
      BY <1>1, <1>2, <2>3, <2>5, <3>1
  <2> QED
    BY <2>4, <2>5
<1>5. ASSUME NEW t \in Threads, Acquire(t) \/ SendPage(t)
      PROVE  Shows(w)'
  <2>1. /\ shared' = shared /\ shown' = shown /\ raced' = raced /\ page' = page
        /\ todo'[w] # <<>> => todo[w] # <<>>
    BY <1>1, <1>5, Advancing DEF Acquire, SendPage
  <2> QED
    BY <1>2, <2>1
<1>6. ASSUME NEW t \in Threads, Release(t)
      PROVE  Shows(w)'
  <2>1. todo'[w] # <<>> => todo[w] # <<>>
    BY <1>1, <1>6, Advancing DEF Release
  <2>2. CASE t = w /\ Tail(todo[w]) = <<>>
    <3>1. todo'[w] = <<>> /\ page'[w] = BlankPage
      BY <1>1, <1>6, <2>2, Advancing DEF Release, TypeOK
    <3> QED
      BY <3>1, BlankPageShows
  <2>3. CASE ~(t = w /\ Tail(todo[w]) = <<>>)
    <3>1. shared' = shared /\ shown'[w] = shown[w] /\ raced'[w] = raced[w] /\ page'[w] = page[w]
      BY <1>1, <1>6, <2>3 DEF Release, TypeOK
    <3> QED
      BY <1>2, <2>1, <3>1
  <2> QED
    BY <2>2, <2>3
<1>7. ASSUME NEW t \in Threads, Write(t)
      PROVE  Shows(w)'
  BY <1>1, <1>7, OnlyMainWrites, SetWhileReading
<1>8. ASSUME NEW t \in Threads, Read(t)
      PROVE  Shows(w)'
  <2>1. CASE t = w
    BY <1>8, <2>1, ReadShows
  <2>2. CASE t # w
    <3>1. /\ shared' = shared /\ shown' = shown /\ page'[w] = page[w] /\ raced'[w] = raced[w]
          /\ todo'[w] = todo[w]
      BY <1>1, <1>8, <2>2, Advancing DEF Read, TypeOK
    <3> QED
      BY <1>2, <3>1
  <2> QED
    BY <2>1, <2>2
<1> QED
  BY <1>3, <1>4, <1>5, <1>6, <1>7, <1>8 DEF Next, Run

-----------------------------------------------------------------------------
LEMMA IInvInit ==
  ASSUME Init
  PROVE  IInv
<1>1. Main \in Threads /\ \A w \in Web : w \in Threads
  BY DEF Threads
<1>2. TypeOK
  <2>1. BlankPage \in [Fields -> Values]
    BY DEF BlankPage, Values
  <2>2. shared \in [Fields -> Values \ {NoValue}]
    BY DEF Init, Values, Pictures, NoValue
  <2> QED
    BY <2>1, <2>2 DEF Init, TypeOK
<1>3. LockInv
  <2>1. \A l \in Locks : Annotated(<<>>, l, 0)
    BY EmptyIsBalanced DEF Balanced, Annotated
  <2>2. \A t \in Threads, l \in Locks : Own(t, l) = 0 /\ todo[t] = <<>>
    BY DEF Init, Own
  <2> QED
    BY <2>1, <2>2 DEF LockInv, Init
<1>4. todo[Main] = <<>> /\ shared["top"] = shared["bottom"] /\ Len(<<>>) = 0
  BY <1>1 DEF Init, Fields
<1>5. LoadInv
  BY <1>4 DEF LoadInv, SetsInTurn
<1>6. \A f \in {"heading", "message", "top", "bottom"} : BlankPage[f] = NoValue
  BY DEF BlankPage, Fields
<1>7. Serving(<<>>, BlankPage)
  BY <1>4, <1>6 DEF Serving, Reading, Ended, ReadsOnce, ReadsInTurn
<1>8. WebInv
  BY <1>1, <1>7 DEF WebInv, Init
<1>9. \A w \in Web : Shows(w)
  BY <1>1, <1>6 DEF Shows, Init
<1> QED
  BY <1>2, <1>3, <1>5, <1>8, <1>9, AllShow DEF IInv

LEMMA IInvStep ==
  ASSUME IInv, [Next]_vars
  PROVE  IInv'
<1>1. CASE Next
  <2>1. TypeOK' /\ LockInv' /\ LoadInv'
    BY <1>1, TypeStep, LockStep, LoadStep DEF IInv
  <2>2. WebInv'
    BY <1>1, WebStep DEF IInv, WebInv
  <2>3. \A w \in Web : Shows(w)'
    BY <1>1, ShowStep
  <2>4. ShowInv' /\ PageIsASnapshot' /\ TableIsOfOneFile'
    BY <2>3 DEF Shows, ShowInv, PageIsASnapshot, TableIsOfOneFile
  <2> QED
    BY <2>1, <2>2, <2>4 DEF IInv
<1>2. CASE UNCHANGED vars
  BY <1>2 DEF vars, IInv, TypeOK, LockInv, Own, LoadInv, WebInv, ShowInv, Displayed,
              PageIsASnapshot, TableIsOfOneFile
<1> QED
  BY <1>1, <1>2

LEMMA Invariance == Spec => []IInv
<1>1. Init => IInv
  BY IInvInit
<1>2. IInv /\ [Next]_vars => IInv'
  BY IInvStep
<1> QED
  BY <1>1, <1>2, PTL DEF Spec

(* Every variable has its type, whatever threads, texts and schedules there *)
(* are.                                                                     *)
THEOREM TypeCorrectness == Spec => []TypeOK
<1>1. IInv => TypeOK
  BY DEF IInv
<1> QED
  BY <1>1, Invariance, PTL

(* handleStatusPage reads heading and message under mainMutex, as setHeading *)
(* and setMessage set them: for any number of clients, a page shows a pair   *)
(* that was on display, unless the program put a message of its own there.   *)
THEOREM PagesAreSnapshots == Spec => []PageIsASnapshot
<1>1. IInv => PageIsASnapshot
  BY DEF IInv
<1> QED
  BY <1>1, Invariance, PTL

(* loadSchedule keeps schedMutex from the first event to the last and html   *)
(* writes its table under it: no client gets a table of two files.           *)
THEOREM TablesAreOfOneFile == Spec => []TableIsOfOneFile
<1>1. IInv => TableIsOfOneFile
  BY DEF IInv
<1> QED
  BY <1>1, Invariance, PTL
=============================================================================
