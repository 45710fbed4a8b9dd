----------------------------- MODULE WebAppProofs -----------------------------
(***************************************************************************)
(* What WebApp.tla claims of the parts of QtWebApp that threads share, of  *)
(* responses and of styles, proved for any threads, settings, words, files *)
(* and bounds: one inductive invariant for each scene (SessionsScene and   *)
(* TimesScene, FilesScene, TemplatesScene, LoggingScene, ResponseInv,      *)
(* StyleScene), with a lemma for each of its steps.                        *)
(* ResponsesAreFramed rests on ResponseInv: the wire carries the head as   *)
(* it was when the first part was written, and items of the one kind that  *)
(* head announces, which read back as what was written; and on             *)
(* CookieIsReadBack, which takes the text of a cookie apart attribute by   *)
(* attribute.  StylesShownAsWritten rests on StyleInv: what the parser     *)
(* makes of the events still to come are the styles of the file.           *)
(***************************************************************************)
EXTENDS WebApp, FiniteSetTheorems, WellFoundedInduction, SequenceTheorems, TLAPS

(***************************************************************************)
(* Sessions.  The handles to a session are counted one by one, whoever     *)
(* holds them; with the count, the data of a session lives as long as its  *)
(* handles.                                                                *)
(***************************************************************************)
Optional == Ids \cup {NoSession}
Holding == {"assign", "assigned", "temporary"}
Stages == {"idle", "id", "get", "renew", "use", "byid", "remove"} \cup Holding

Data == [Ids -> [live : BOOLEAN, refCount : Int, lastAccess : Int, keys : SUBSET Keys]]

Call == [at : Stages, cookie : Optional, reply : Optional, id : Optional,
         session : Optional, param : Optional, old : Optional]
Calls == [Threads -> Call]
Timers == [at : {"idle", "next", "erase", "drop"}, now : Nat, left : SUBSET Ids,
           copy : Optional, renewed : SUBSET Ids]

SessionShape ==
  /\ now \in Nat
  /\ data \in Data
  /\ sessions \in SUBSET Ids
  /\ web \in Calls
  /\ timer \in Timers
  /\ touched \in [Ids -> Int]

(* Where a thread, or the timer, has a handle.                             *)
CallIsPlaced(c) ==
  /\ c.session # NoSession => c.at \in {"renew", "use", "byid", "remove"} \cup Holding
  /\ c.at \in {"renew", "byid"} \cup Holding => c.session # NoSession
  /\ c.param # NoSession => c.at \in {"byid", "remove"} \cup Holding
  /\ c.at \in {"remove"} \cup Holding => c.param # NoSession
  /\ c.old # NoSession <=> c.at = "assigned"

TimerIsPlaced ==
  /\ timer.copy # NoSession <=> timer.at \in {"erase", "drop"}
  /\ timer.left \subseteq sessions /\ (timer.at = "idle" => timer.left = {})
  /\ timer.copy \notin timer.left
  /\ timer.at = "erase" => timer.copy \in sessions

UnbornAreUncounted == \A i \in Ids : data[i].lastAccess < 0 => data[i].refCount = 0

StoreInv ==
  /\ SessionShape
  /\ \A t \in Threads : CallIsPlaced(web[t])
  /\ TimerIsPlaced /\ UnbornAreUncounted
  /\ Sessions!SessionsAreCounted

(* The handles to a session: of the map, of each thread, of the timer.     *)
InMap(i) == IF i \in sessions THEN 1 ELSE 0
InTimer(i) == IF timer.copy = i THEN 1 ELSE 0
InVariables(i) == {t \in Threads : web[t].session = i}
InCalls(i) == {t \in Threads : web[t].param = i}
InOld(i) == {t \in Threads : web[t].old = i}
Holds(c, i) == (IF c.session = i THEN 1 ELSE 0) + (IF c.param = i THEN 1 ELSE 0)
                 + (IF c.old = i THEN 1 ELSE 0)

LEMMA SessionsCardinality ==
  ASSUME NEW S
  PROVE  Sessions!Cardinality(S) = Cardinality(S)
BY DEF Sessions!Cardinality, Cardinality

LEMMA HandlesAre ==
  ASSUME NEW i
  PROVE  Sessions!Handles(i) = InMap(i) + Cardinality(InVariables(i))
           + Cardinality(InCalls(i)) + Cardinality(InOld(i)) + InTimer(i)
BY SessionsCardinality DEF Sessions!Handles, InMap, InVariables, InCalls, InOld, InTimer

LEMMA HandlesAreThen ==
  ASSUME NEW i
  PROVE  Sessions!Handles(i)' = InMap(i)' + Cardinality(InVariables(i)')
           + Cardinality(InCalls(i)') + Cardinality(InOld(i)') + InTimer(i)'
BY SessionsCardinality DEF Sessions!Handles, InMap, InVariables, InCalls, InOld, InTimer

(* Sets of threads: their sizes are numbers, and change by the threads     *)
(* that come and go.                                                       *)
LEMMA Sizes ==
  ASSUME NEW S \in SUBSET Threads
  PROVE  Cardinality(S) \in Nat /\ IsFiniteSet(S)
BY ThreadsAssumption, FS_Subset, FS_CardinalityType DEF ThreadsAssumption

LEMMA OneThreadMore ==
  ASSUME NEW S \in SUBSET Threads, NEW t \in Threads, t \notin S
  PROVE  Cardinality(S \cup {t}) = Cardinality(S) + 1
BY Sizes, FS_AddElement

LEMMA OneThreadMoves ==
  ASSUME NEW S \in SUBSET Threads, NEW Q \in SUBSET Threads, NEW t \in Threads,
         \A s \in Threads \ {t} : s \in Q <=> s \in S
  PROVE  Cardinality(Q) = Cardinality(S) + (IF t \in Q THEN 1 ELSE 0)
                                         - (IF t \in S THEN 1 ELSE 0)
<1>1. Cardinality(S) \in Nat /\ Cardinality(Q) \in Nat
  BY Sizes
<1>2. CASE t \in Q /\ t \notin S
  <2>1. Q = S \cup {t}
    BY <1>2
  <2> QED
    BY <1>1, <1>2, <2>1, OneThreadMore
<1>3. CASE t \notin Q /\ t \in S
  <2>1. S = Q \cup {t}
    BY <1>3
  <2> QED
    BY <1>1, <1>3, <2>1, OneThreadMore
<1>4. CASE t \in Q <=> t \in S
  <2>1. Q = S
    BY <1>4
  <2> QED
    BY <1>1, <2>1, <1>4
<1> QED
  BY <1>2, <1>3, <1>4

(* The count when one thread changes what it holds.                        *)
LEMMA ThreadMoves ==
  ASSUME web \in Calls, NEW t \in Threads, NEW c \in Call, web' = [web EXCEPT ![t] = c],
         timer'.copy = timer.copy, NEW j \in Ids
  PROVE  Sessions!Handles(j)' = Sessions!Handles(j) + (InMap(j)' - InMap(j))
                                  + (Holds(c, j) - Holds(web[t], j))
<1>1. web'[t] = c /\ \A s \in Threads \ {t} : web'[s] = web[s]
  BY DEF Calls
<1>2. /\ Cardinality(InVariables(j)') = Cardinality(InVariables(j))
            + (IF c.session = j THEN 1 ELSE 0) - (IF web[t].session = j THEN 1 ELSE 0)
      /\ Cardinality(InCalls(j)') = Cardinality(InCalls(j))
            + (IF c.param = j THEN 1 ELSE 0) - (IF web[t].param = j THEN 1 ELSE 0)
      /\ Cardinality(InOld(j)') = Cardinality(InOld(j))
            + (IF c.old = j THEN 1 ELSE 0) - (IF web[t].old = j THEN 1 ELSE 0)
  <2> DEFINE V == InVariables(j)
             W == InVariables(j)'
             X == InCalls(j)
             Y == InCalls(j)'
             Z == InOld(j)
             O == InOld(j)'
  <2>1. /\ V \in SUBSET Threads /\ W \in SUBSET Threads
        /\ \A s \in Threads \ {t} : s \in W <=> s \in V
        /\ t \in W <=> c.session = j
        /\ t \in V <=> web[t].session = j
    BY <1>1 DEF InVariables
  <2>2. /\ X \in SUBSET Threads /\ Y \in SUBSET Threads
        /\ \A s \in Threads \ {t} : s \in Y <=> s \in X
        /\ t \in Y <=> c.param = j
        /\ t \in X <=> web[t].param = j
    BY <1>1 DEF InCalls
  <2>3. /\ Z \in SUBSET Threads /\ O \in SUBSET Threads
        /\ \A s \in Threads \ {t} : s \in O <=> s \in Z
        /\ t \in O <=> c.old = j
        /\ t \in Z <=> web[t].old = j
    BY <1>1 DEF InOld
  <2> HIDE DEF V, W, X, Y, Z, O
  <2>4. Cardinality(W) = Cardinality(V) + (IF c.session = j THEN 1 ELSE 0)
                                        - (IF web[t].session = j THEN 1 ELSE 0)
    BY <2>1, OneThreadMoves
  <2>5. Cardinality(Y) = Cardinality(X) + (IF c.param = j THEN 1 ELSE 0)
                                        - (IF web[t].param = j THEN 1 ELSE 0)
    BY <2>2, OneThreadMoves
  <2>6. Cardinality(O) = Cardinality(Z) + (IF c.old = j THEN 1 ELSE 0)
                                        - (IF web[t].old = j THEN 1 ELSE 0)
    BY <2>3, OneThreadMoves
  <2> QED
    BY <2>4, <2>5, <2>6 DEF V, W, X, Y, Z, O
<1>3. /\ Cardinality(InVariables(j)) \in Nat /\ Cardinality(InCalls(j)) \in Nat
      /\ Cardinality(InOld(j)) \in Nat
      /\ InMap(j) \in Nat /\ InMap(j)' \in Nat
      /\ InTimer(j)' = InTimer(j) /\ InTimer(j) \in Nat
  BY Sizes DEF InVariables, InCalls, InOld, InMap, InTimer
<1>4. /\ Holds(c, j) = (IF c.session = j THEN 1 ELSE 0) + (IF c.param = j THEN 1 ELSE 0)
                         + (IF c.old = j THEN 1 ELSE 0)
      /\ Holds(web[t], j) = (IF web[t].session = j THEN 1 ELSE 0)
                              + (IF web[t].param = j THEN 1 ELSE 0)
                              + (IF web[t].old = j THEN 1 ELSE 0)
  BY DEF Holds
<1> QED
  BY <1>2, <1>3, <1>4, HandlesAre, HandlesAreThen

(* The count when the timer or the map changes what it holds.              *)
LEMMA TimerMoves ==
  ASSUME UNCHANGED web, NEW j \in Ids
  PROVE  Sessions!Handles(j)' = Sessions!Handles(j) + (InMap(j)' - InMap(j))
                                  + (InTimer(j)' - InTimer(j))
<1>1. /\ InVariables(j)' = InVariables(j) /\ InCalls(j)' = InCalls(j) /\ InOld(j)' = InOld(j)
      /\ InMap(j) \in Nat /\ InTimer(j) \in Nat /\ InMap(j)' \in Nat /\ InTimer(j)' \in Nat
  BY DEF InVariables, InCalls, InOld, InMap, InTimer
<1>2. /\ Cardinality(InVariables(j)) \in Nat /\ Cardinality(InCalls(j)) \in Nat
      /\ Cardinality(InOld(j)) \in Nat
  BY Sizes DEF InVariables, InCalls, InOld
<1> QED
  BY <1>1, <1>2, HandlesAre, HandlesAreThen

LEMMA HandlesAreNumbers ==
  ASSUME NEW i \in Ids
  PROVE  Sessions!Handles(i) \in Nat
<1>1. /\ Cardinality(InVariables(i)) \in Nat /\ Cardinality(InCalls(i)) \in Nat
      /\ Cardinality(InOld(i)) \in Nat /\ InMap(i) \in Nat /\ InTimer(i) \in Nat
  BY Sizes DEF InVariables, InCalls, InOld, InMap, InTimer
<1> QED
  BY <1>1, HandlesAre

(* Who has a handle to a session knows it is counted.                      *)
LEMMA HoldersAreHandles ==
  ASSUME NEW i \in Ids,
         \/ i \in sessions
         \/ timer.copy = i
         \/ \E t \in Threads : web[t].session = i \/ web[t].param = i \/ web[t].old = i
  PROVE  Sessions!Handles(i) > 0
<1>1. /\ Cardinality(InVariables(i)) \in Nat /\ Cardinality(InCalls(i)) \in Nat
      /\ Cardinality(InOld(i)) \in Nat
      /\ InVariables(i) # {} => Cardinality(InVariables(i)) # 0
      /\ InCalls(i) # {} => Cardinality(InCalls(i)) # 0
      /\ InOld(i) # {} => Cardinality(InOld(i)) # 0
  BY Sizes, FS_EmptySet DEF InVariables, InCalls, InOld
<1>2. \/ InMap(i) = 1 \/ InTimer(i) = 1
      \/ InVariables(i) # {} \/ InCalls(i) # {} \/ InOld(i) # {}
  BY DEF InMap, InTimer, InVariables, InCalls, InOld
<1>3. InMap(i) \in Nat /\ InTimer(i) \in Nat
  BY DEF InMap, InTimer
<1> QED
  BY <1>1, <1>2, <1>3, HandlesAre
-------------------------------------------------------------------------------
(* What the operations of a handle do to the data.                         *)
OthersAre(d, e, i) == \A j \in Ids \ {i} : e[j] = d[j]

LEMMA WhatTakeDoes ==
  ASSUME NEW d \in Data, NEW i \in Ids
  PROVE  /\ Sessions!Take(d, i) \in Data /\ OthersAre(d, Sessions!Take(d, i), i)
         /\ Sessions!Take(d, i)[i].refCount = d[i].refCount + 1
         /\ Sessions!Take(d, i)[i].live = d[i].live
         /\ Sessions!Take(d, i)[i].lastAccess = d[i].lastAccess
<1>1. Sessions!Take(d, i) = [d EXCEPT ![i].refCount = @ + 1]
  BY SessionsAssumption DEF Sessions!Take, SessionsAssumption
<1> QED
  BY <1>1 DEF Data, OthersAre

LEMMA WhatAccessDoes ==
  ASSUME NEW d \in Data, NEW i \in Ids, now \in Nat
  PROVE  /\ Sessions!AccessedNow(d, i) \in Data /\ OthersAre(d, Sessions!AccessedNow(d, i), i)
         /\ Sessions!AccessedNow(d, i)[i].refCount = d[i].refCount
         /\ Sessions!AccessedNow(d, i)[i].live = d[i].live
         /\ Sessions!AccessedNow(d, i)[i].lastAccess = now
<1>1. Sessions!AccessedNow(d, i) = [d EXCEPT ![i].lastAccess = now]
  BY SessionsAssumption DEF Sessions!AccessedNow, SessionsAssumption
<1> QED
  BY <1>1 DEF Data, OthersAre

LEMMA WhatDropDoes ==
  ASSUME NEW d \in Data, NEW i \in Ids
  PROVE  /\ Sessions!Drop(d, i) \in Data /\ OthersAre(d, Sessions!Drop(d, i), i)
         /\ Sessions!Drop(d, i)[i].refCount = d[i].refCount - 1
         /\ Sessions!Drop(d, i)[i].live <=> d[i].refCount > 1
         /\ Sessions!Drop(d, i)[i].lastAccess = d[i].lastAccess
<1> DEFINE more == d[i].refCount > 1
           a == [d EXCEPT ![i].refCount = @ - 1]
           b == [a EXCEPT ![i].live = more]
           c == [b EXCEPT ![i].keys = IF more THEN @ ELSE {}]
<1>2. more \in BOOLEAN
  OBVIOUS
<1>3. a \in Data
  BY DEF Data
<1>4. b \in Data
  <2> HIDE DEF a, more
  <2> QED BY <1>2, <1>3 DEF Data
<1>5. c \in Data
  <2> HIDE DEF b, more
  <2> QED BY <1>2, <1>4 DEF Data
<1>6. Sessions!Drop(d, i) = c
  BY SessionsAssumption DEF Sessions!Drop, Data, SessionsAssumption
<1>7. /\ a[i].refCount = d[i].refCount - 1 /\ a[i].lastAccess = d[i].lastAccess
      /\ \A j \in Ids \ {i} : a[j] = d[j]
  BY DEF Data
<1>8. /\ b[i].refCount = a[i].refCount /\ b[i].lastAccess = a[i].lastAccess
      /\ b[i].live = more /\ \A j \in Ids \ {i} : b[j] = a[j]
  <2> HIDE DEF a, more
  <2> QED BY <1>3 DEF Data
<1>9. /\ c[i].refCount = b[i].refCount /\ c[i].lastAccess = b[i].lastAccess
      /\ c[i].live = b[i].live /\ \A j \in Ids \ {i} : c[j] = b[j]
  <2> HIDE DEF b, more
  <2> QED BY <1>4 DEF Data
<1>10. /\ c[i].refCount = d[i].refCount - 1 /\ c[i].lastAccess = d[i].lastAccess
       /\ c[i].live <=> more
       /\ \A j \in Ids \ {i} : c[j] = d[j]
  <2> HIDE DEF a, b, c, more
  <2> QED BY <1>7, <1>8, <1>9
<1> HIDE DEF c
<1> QED
  BY <1>5, <1>6, <1>10 DEF OthersAre

(* What the invariant says of a session somebody has a handle to.          *)
LEMMA HeldIsAlive ==
  ASSUME StoreInv, NEW i \in Ids,
         \/ i \in sessions
         \/ timer.copy = i
         \/ \E t \in Threads : web[t].session = i \/ web[t].param = i \/ web[t].old = i
  PROVE  data[i].refCount > 0 /\ data[i].live /\ data[i].lastAccess >= 0
<1>1. Sessions!Handles(i) > 0
  BY HoldersAreHandles
<1> QED
  BY <1>1 DEF StoreInv, SessionShape, Data, UnbornAreUncounted, Sessions!SessionsAreCounted

LEMMA CountsAreNumbers ==
  ASSUME StoreInv, NEW i \in Ids
  PROVE  data[i].refCount \in Nat /\ (data[i].live <=> data[i].refCount > 0)
BY HandlesAreNumbers DEF StoreInv, Sessions!SessionsAreCounted

(* A step of a thread keeps the invariant if the counts go with the        *)
(* handles.                                                                *)
LEMMA ThreadStep ==
  ASSUME StoreInv, NEW t \in Threads, NEW c \in Call, web' = [web EXCEPT ![t] = c],
         CallIsPlaced(c), UNCHANGED <<now, timer>>,
         sessions' \in SUBSET Ids, timer.at = "idle" \/ UNCHANGED sessions,
         data' \in Data, touched' \in [Ids -> Int],
         \A j \in Ids : /\ data'[j].refCount = data[j].refCount + (InMap(j)' - InMap(j))
                                                 + (Holds(c, j) - Holds(web[t], j))
                        /\ data'[j].live <=> data'[j].refCount > 0
                        /\ data'[j].lastAccess >= 0 \/ data'[j].refCount = 0
  PROVE  StoreInv'
<1>1. SessionShape'
  <2>1. web' \in Calls
    BY DEF StoreInv, SessionShape, Calls
  <2> QED
    BY <2>1 DEF StoreInv, SessionShape
<1>2. \A s \in Threads : CallIsPlaced(web'[s])
  BY DEF StoreInv, SessionShape, Calls
<1>3. TimerIsPlaced'
  BY DEF StoreInv, SessionShape, TimerIsPlaced
<1>4. UnbornAreUncounted'
  BY DEF UnbornAreUncounted, Data
<1>5. Sessions!SessionsAreCounted'
  <2> SUFFICES ASSUME NEW j \in Ids
               PROVE  /\ data'[j].refCount = Sessions!Handles(j)'
                      /\ data'[j].live <=> Sessions!Handles(j)' > 0
    BY DEF Sessions!SessionsAreCounted
  <2>1. Sessions!Handles(j)' = Sessions!Handles(j) + (InMap(j)' - InMap(j))
                                 + (Holds(c, j) - Holds(web[t], j))
    BY ThreadMoves DEF StoreInv, SessionShape
  <2>2. data[j].refCount = Sessions!Handles(j)
    BY DEF StoreInv, Sessions!SessionsAreCounted
  <2> QED
    BY <2>1, <2>2
<1> QED
  BY <1>1, <1>2, <1>3, <1>4, <1>5 DEF StoreInv

(* A call with one field changed is a call.                                *)
LEMMA CallsStay ==
  ASSUME NEW w \in Calls, NEW t \in Threads, NEW i \in Optional, NEW at \in Stages
  PROVE  /\ [w EXCEPT ![t].at = at] \in Calls
         /\ [w EXCEPT ![t].cookie = i] \in Calls
         /\ [w EXCEPT ![t].reply = i] \in Calls
         /\ [w EXCEPT ![t].id = i] \in Calls
         /\ [w EXCEPT ![t].session = i] \in Calls
         /\ [w EXCEPT ![t].param = i] \in Calls
         /\ [w EXCEPT ![t].old = i] \in Calls
BY DEF Calls, Call

LEMMA OneCall ==
  ASSUME web \in Calls, web' \in Calls, NEW t \in Threads,
         \A s \in Threads \ {t} : web'[s] = web[s]
  PROVE  web' = [web EXCEPT ![t] = web'[t]] /\ web'[t] \in Call
BY DEF Calls
-------------------------------------------------------------------------------
(* The steps of a thread.                                                  *)
Same(t, e, f) == \A s \in Threads \ {t} : f[s] = e[s]

LEMMA BeforeAStep ==
  ASSUME StoreInv, NEW t \in Threads
  PROVE  /\ now \in Nat /\ data \in Data /\ sessions \in SUBSET Ids /\ web \in Calls
         /\ timer \in Timers /\ touched \in [Ids -> Int]
         /\ web[t] \in Call /\ CallIsPlaced(web[t]) /\ TimerIsPlaced
         /\ NoSession \notin Ids
         /\ \A i \in Ids : /\ data[i].refCount \in Nat
                           /\ data[i].live <=> data[i].refCount > 0
                           /\ data[i].lastAccess >= 0 \/ data[i].refCount = 0
                           /\ Holds(web[t], i) \in Nat /\ InMap(i) \in Nat
<1>1. \A i \in Ids : data[i].lastAccess >= 0 \/ data[i].refCount = 0
  BY DEF StoreInv, SessionShape, UnbornAreUncounted, Data
<1>2. web[t] \in Call
  BY DEF StoreInv, SessionShape, Calls
<1> QED
  BY <1>1, <1>2, CountsAreNumbers, SessionsAssumption
     DEF StoreInv, SessionShape, SessionsAssumption, Holds, InMap

(* No handle moves, and data and map stay.                                 *)
LEMMA QuietStep ==
  ASSUME StoreInv, NEW t \in Threads,
         \/ \E c \in Sessions!Used \cup {NoSession} : Sessions!Request(t, c)
         \/ Sessions!AskAgain(t) \/ Sessions!GetSessionId(t)
         \/ Sessions!NullSession(t) \/ Sessions!Answered(t)
  PROVE  StoreInv'
<1>1. /\ UNCHANGED <<now, data, sessions, timer, touched>>
      /\ web \in Calls /\ web[t] \in Call /\ CallIsPlaced(web[t])
      /\ sessions \in SUBSET Ids /\ data \in Data /\ touched \in [Ids -> Int]
  BY BeforeAStep DEF Sessions!Request, Sessions!AskAgain, Sessions!GetSessionId,
                     Sessions!NullSession, Sessions!Answered
<1>2. /\ web' \in Calls /\ Same(t, web, web')
      /\ web'[t].session = web[t].session /\ web'[t].param = web[t].param
      /\ web'[t].old = web[t].old
      /\ web[t].at \in {"idle", "id", "get", "use"}
      /\ web'[t].at \in {"idle", "id", "get", "use"}
      /\ web[t].session = NoSession \/ web'[t].at = web[t].at
  <2>1. CASE \E c \in Sessions!Used \cup {NoSession} : Sessions!Request(t, c)
    <3>1. PICK c \in Optional : Sessions!Request(t, c)
      BY <2>1 DEF Sessions!Used, Optional
    <3>2. web' \in Calls
      BY <1>1, <3>1, CallsStay DEF Sessions!Request, Stages
    <3> QED
      BY <1>1, <3>1, <3>2 DEF Sessions!Request, Calls, Call, CallIsPlaced, Same, Holding
  <2>2. CASE Sessions!GetSessionId(t)
    <3>1. web' \in Calls
      BY <1>1, <2>2, CallsStay DEF Sessions!GetSessionId, Stages, Optional
    <3> QED
      BY <1>1, <2>2, <3>1 DEF Sessions!GetSessionId, Calls, Call, CallIsPlaced, Same, Holding
  <2>3. CASE Sessions!AskAgain(t) \/ Sessions!NullSession(t)
    <3>1. web' \in Calls
      <4>1. CASE Sessions!AskAgain(t)
        BY <1>1, <4>1, CallsStay DEF Sessions!AskAgain, Stages, Optional
      <4>2. CASE Sessions!NullSession(t)
        BY <1>1, <4>2, CallsStay DEF Sessions!NullSession, Stages, Optional
      <4> QED
        BY <2>3, <4>1, <4>2
    <3> QED
      BY <1>1, <2>3, <3>1 DEF Sessions!AskAgain, Sessions!NullSession, Calls, Call,
                              CallIsPlaced, Same, Holding
  <2>4. CASE Sessions!Answered(t)
    <3>1. Sessions!Resting \in Call /\ Sessions!Resting.at = "idle"
          /\ Sessions!Resting.session = NoSession /\ Sessions!Resting.param = NoSession
          /\ Sessions!Resting.old = NoSession
      BY DEF Sessions!Resting, Call, Stages, Optional
    <3>2. /\ web' = [web EXCEPT ![t] = Sessions!Resting]
          /\ web[t].at = "use" /\ web[t].session = NoSession
      BY <2>4 DEF Sessions!Answered
    <3> QED
      BY <1>1, <3>1, <3>2 DEF Calls, CallIsPlaced, Same, Holding
  <2> QED
    BY <2>1, <2>2, <2>3, <2>4
<1>3. web' = [web EXCEPT ![t] = web'[t]] /\ web'[t] \in Call
  BY <1>1, <1>2, OneCall DEF Same
<1>4. CallIsPlaced(web'[t])
  BY <1>1, <1>2 DEF CallIsPlaced, Holding
<1>5. \A j \in Ids : /\ data'[j].refCount = data[j].refCount + (InMap(j)' - InMap(j))
                                                + (Holds(web'[t], j) - Holds(web[t], j))
                     /\ data'[j].live <=> data'[j].refCount > 0
                     /\ data'[j].lastAccess >= 0 \/ data'[j].refCount = 0
  <2> TAKE j \in Ids
  <2>1. Holds(web'[t], j) = Holds(web[t], j) /\ InMap(j)' = InMap(j)
    BY <1>1, <1>2 DEF Holds, InMap
  <2>2. /\ data[j].refCount \in Nat /\ (data[j].live <=> data[j].refCount > 0)
        /\ data[j].lastAccess >= 0 \/ data[j].refCount = 0
        /\ Holds(web[t], j) \in Nat /\ InMap(j) \in Nat
    BY BeforeAStep
  <2> QED
    BY <1>1, <2>1, <2>2
<1> QED
  BY <1>1, <1>3, <1>4, <1>5, ThreadStep

(* The data of one session changes, and one handle to it comes, goes or    *)
(* stays.                                                                  *)
LEMMA HandleStep ==
  ASSUME StoreInv, NEW t \in Threads, NEW i \in Ids, web' \in Calls, Same(t, web, web'),
         CallIsPlaced(web'[t]), UNCHANGED <<now, timer, sessions>>,
         data' \in Data, OthersAre(data, data', i), touched' \in [Ids -> Int],
         \A j \in Ids \ {i} : Holds(web'[t], j) = Holds(web[t], j),
         data'[i].refCount = data[i].refCount + (Holds(web'[t], i) - Holds(web[t], i)),
         data'[i].live <=> data'[i].refCount > 0,
         data'[i].lastAccess >= 0
  PROVE  StoreInv'
<1>1. web' = [web EXCEPT ![t] = web'[t]] /\ web'[t] \in Call
  BY OneCall, BeforeAStep DEF Same
<1>2. \A j \in Ids : /\ data'[j].refCount = data[j].refCount + (InMap(j)' - InMap(j))
                                                + (Holds(web'[t], j) - Holds(web[t], j))
                     /\ data'[j].live <=> data'[j].refCount > 0
                     /\ data'[j].lastAccess >= 0 \/ data'[j].refCount = 0
  <2> TAKE j \in Ids
  <2>1. InMap(j)' = InMap(j) /\ InMap(j) \in Nat
    BY DEF InMap
  <2>2. Holds(web[t], j) \in Nat /\ Holds(web'[t], j) \in Nat
    BY DEF Holds
  <2>3. CASE j = i
    BY <2>1, <2>2, <2>3, BeforeAStep
  <2>4. CASE j # i
    <3>1. data'[j] = data[j] /\ Holds(web'[t], j) = Holds(web[t], j)
      BY <2>4 DEF OthersAre
    <3> QED
      BY <2>1, <2>2, <3>1, BeforeAStep
  <2> QED
    BY <2>3, <2>4
<1>3. sessions' \in SUBSET Ids
  BY BeforeAStep
<1> QED
  BY <1>1, <1>2, <1>3, ThreadStep
-------------------------------------------------------------------------------
(* The accesses: no handle moves.                                          *)
LEMMA RenewStep ==
  ASSUME StoreInv, NEW t \in Threads, Sessions!Renew(t) \/ Sessions!RenewById(t)
  PROVE  StoreInv'
<1>1. /\ web \in Calls /\ web[t] \in Call /\ CallIsPlaced(web[t]) /\ now \in Nat
      /\ data \in Data /\ touched \in [Ids -> Int] /\ NoSession \notin Ids
  BY BeforeAStep
<1>2. PICK i \in Ids : /\ web[t].session = i \/ web[t].param = i
                       /\ data' = Sessions!AccessedNow(data, i)
                       /\ touched' = Sessions!TouchedNow(i)
  BY <1>1 DEF Sessions!Renew, Sessions!RenewById, CallIsPlaced, Call, Optional
<1>3. /\ web' \in Calls /\ Same(t, web, web') /\ CallIsPlaced(web'[t])
      /\ web'[t].session = web[t].session /\ web'[t].param = web[t].param
      /\ web'[t].old = web[t].old
      /\ UNCHANGED <<now, timer, sessions>>
  <2>1. CASE Sessions!Renew(t)
    <3>1. web' \in Calls
      BY <1>1, <2>1, CallsStay DEF Sessions!Renew, Stages, Optional, Call
    <3> QED
      BY <1>1, <2>1, <3>1 DEF Sessions!Renew, Calls, Call, CallIsPlaced, Same, Holding
  <2>2. CASE Sessions!RenewById(t)
    <3> DEFINE at == IF web[t].param # NoSession THEN "assign" ELSE "use"
    <3>0. at \in Stages /\ web' = [web EXCEPT ![t].at = at]
      BY <2>2 DEF Sessions!RenewById, Stages, Holding
    <3> HIDE DEF at
    <3>1. web' \in Calls
      BY <1>1, <3>0, CallsStay DEF Optional
    <3> QED
      BY <1>1, <2>2, <3>1 DEF Sessions!RenewById, Calls, Call, CallIsPlaced, Same, Holding
  <2> QED
    BY <2>1, <2>2
<1>4. /\ data' \in Data /\ OthersAre(data, data', i)
      /\ data'[i].refCount = data[i].refCount /\ data'[i].live = data[i].live
      /\ data'[i].lastAccess = now
  BY <1>1, <1>2, WhatAccessDoes
<1>5. touched' \in [Ids -> Int]
  BY <1>1, <1>2 DEF Sessions!TouchedNow
<1>6. \A j \in Ids : Holds(web'[t], j) = Holds(web[t], j) /\ Holds(web[t], j) \in Nat
  BY <1>3 DEF Holds
<1>7. data[i].refCount \in Nat /\ (data[i].live <=> data[i].refCount > 0)
  BY CountsAreNumbers
<1>8. data'[i].live <=> data'[i].refCount > 0
  BY <1>4, <1>7
<1>9. data'[i].refCount = data[i].refCount + (Holds(web'[t], i) - Holds(web[t], i))
  BY <1>4, <1>6, <1>7
<1> QED
  BY <1>1, <1>3, <1>4, <1>5, <1>6, <1>8, <1>9, HandleStep

LEMMA ValuesStep ==
  ASSUME StoreInv, NEW t \in Threads, NEW k \in Keys,
         Sessions!Set(t, k) \/ Sessions!Remove(t, k)
  PROVE  StoreInv'
<1> DEFINE i == web[t].session
<1>1. /\ web \in Calls /\ web[t] \in Call /\ CallIsPlaced(web[t]) /\ now \in Nat
      /\ data \in Data /\ touched \in [Ids -> Int] /\ i \in Ids
      /\ UNCHANGED <<now, timer, sessions, web, touched>>
  BY BeforeAStep DEF Sessions!Set, Sessions!Remove, Call, Optional
<1>2. data[i].refCount > 0 /\ data[i].live /\ data[i].lastAccess >= 0
  BY <1>1, HeldIsAlive
<1>3. PICK K \in SUBSET Keys : data' = [data EXCEPT ![i].keys = K]
  <2>1. \/ data' = [data EXCEPT ![i].keys = data[i].keys \cup {k}]
        \/ data' = [data EXCEPT ![i].keys = data[i].keys \ {k}]
    BY DEF Sessions!Set, Sessions!Remove
  <2>2. data[i].keys \cup {k} \in SUBSET Keys /\ data[i].keys \ {k} \in SUBSET Keys
    BY <1>1 DEF Data
  <2> QED
    BY <2>1, <2>2
<1> HIDE DEF i
<1>4. /\ data' \in Data /\ OthersAre(data, data', i)
      /\ data'[i].refCount = data[i].refCount /\ data'[i].live = data[i].live
      /\ data'[i].lastAccess = data[i].lastAccess
  BY <1>1, <1>3 DEF Data, OthersAre
<1>5. \A j \in Ids : Holds(web'[t], j) = Holds(web[t], j) /\ Holds(web[t], j) \in Nat
  BY <1>1 DEF Holds
<1>6. web' \in Calls /\ Same(t, web, web') /\ touched' \in [Ids -> Int]
  BY <1>1 DEF Same
<1>7. data[i].refCount \in Nat /\ (data[i].live <=> data[i].refCount > 0)
  BY <1>1, CountsAreNumbers
<1>8. /\ data'[i].live <=> data'[i].refCount > 0
      /\ data'[i].refCount = data[i].refCount + (Holds(web'[t], i) - Holds(web[t], i))
      /\ CallIsPlaced(web'[t])
  BY <1>1, <1>4, <1>5, <1>7
<1> QED
  BY <1>1, <1>2, <1>4, <1>5, <1>6, <1>8, HandleStep

(* The handles that come.                                                  *)
LEMMA TakeStep ==
  ASSUME StoreInv, NEW t \in Threads, NEW i \in Ids,
         i \in sessions \/ web[t].session = i,
         data' = Sessions!Take(data, i),
         web' \in Calls, Same(t, web, web'), CallIsPlaced(web'[t]),
         UNCHANGED <<now, timer, sessions, touched>>, web'[t].old = web[t].old,
         \/ /\ web[t].session = NoSession /\ web'[t].session = i
            /\ web'[t].param = web[t].param
         \/ /\ web[t].param = NoSession /\ web'[t].param = i
            /\ web'[t].session = web[t].session
  PROVE  StoreInv'
<1>1. /\ data \in Data /\ touched \in [Ids -> Int] /\ NoSession \notin Ids
      /\ data[i].refCount > 0 /\ data[i].live /\ data[i].lastAccess >= 0
      /\ data[i].refCount \in Nat
  BY BeforeAStep, HeldIsAlive
<1>2. /\ data' \in Data /\ OthersAre(data, data', i)
      /\ data'[i].refCount = data[i].refCount + 1
      /\ data'[i].live = data[i].live /\ data'[i].lastAccess = data[i].lastAccess
  BY <1>1, WhatTakeDoes
<1>3. /\ Holds(web'[t], i) = Holds(web[t], i) + 1 /\ Holds(web[t], i) \in Nat
      /\ \A j \in Ids \ {i} : Holds(web'[t], j) = Holds(web[t], j)
  BY <1>1 DEF Holds
<1>4. /\ data'[i].live <=> data'[i].refCount > 0
      /\ data'[i].refCount = data[i].refCount + (Holds(web'[t], i) - Holds(web[t], i))
      /\ data'[i].lastAccess >= 0 /\ data' \in Data /\ OthersAre(data, data', i)
      /\ touched' \in [Ids -> Int]
  BY <1>1, <1>2, <1>3
<1> QED
  BY <1>3, <1>4, HandleStep

LEMMA FindStep ==
  ASSUME StoreInv, NEW t \in Threads, Sessions!Find(t)
  PROVE  StoreInv'
<1> DEFINE i == web[t].id
<1>1. /\ web \in Calls /\ web[t] \in Call /\ CallIsPlaced(web[t]) /\ sessions \in SUBSET Ids
      /\ i \in sessions /\ data' = Sessions!Take(data, i)
      /\ UNCHANGED <<now, timer, sessions, touched>>
  BY BeforeAStep DEF Sessions!Find
<1>2. web' \in Calls
  BY <1>1, CallsStay DEF Sessions!Find, Stages, Optional, Call
<1>3. /\ Same(t, web, web') /\ CallIsPlaced(web'[t])
      /\ web[t].session = NoSession /\ web'[t].session = i
      /\ web'[t].param = web[t].param /\ web'[t].old = web[t].old
  BY <1>1, <1>2, SessionsAssumption
     DEF Sessions!Find, Calls, Call, CallIsPlaced, Same, Holding, SessionsAssumption
<1> QED
  BY <1>1, <1>2, <1>3, TakeStep

LEMMA GetByIdStep ==
  ASSUME StoreInv, NEW t \in Threads, NEW i \in Ids, Sessions!GetById(t, i)
  PROVE  StoreInv'
<1>1. /\ web \in Calls /\ web[t] \in Call /\ CallIsPlaced(web[t])
      /\ i \in sessions /\ data' = Sessions!Take(data, i) /\ web[t].at = "use"
      /\ UNCHANGED <<now, timer, sessions, touched>> /\ NoSession \notin Ids
  BY BeforeAStep DEF Sessions!GetById
<1>2. CASE web[t].session = NoSession
  <2>1. web' = [web EXCEPT ![t].at = "byid", ![t].session = i]
    BY <1>2 DEF Sessions!GetById
  <2>2. web' \in Calls
    BY <1>1, <2>1, CallsStay DEF Stages, Optional
  <2>3. /\ Same(t, web, web') /\ CallIsPlaced(web'[t]) /\ web'[t].session = i
        /\ web'[t].param = web[t].param /\ web'[t].old = web[t].old
    BY <1>1, <1>2, <2>1, <2>2 DEF Calls, Call, CallIsPlaced, Same, Holding
  <2> QED
    BY <1>1, <1>2, <2>2, <2>3, TakeStep
<1>3. CASE web[t].session # NoSession
  <2>1. web' = [web EXCEPT ![t].at = "byid", ![t].param = i]
    BY <1>3 DEF Sessions!GetById
  <2>2. web' \in Calls
    BY <1>1, <2>1, CallsStay DEF Stages, Optional
  <2>3. /\ Same(t, web, web') /\ CallIsPlaced(web'[t]) /\ web'[t].param = i
        /\ web'[t].session = web[t].session /\ web'[t].old = web[t].old
        /\ web[t].param = NoSession
    BY <1>1, <1>3, <2>1, <2>2 DEF Calls, Call, CallIsPlaced, Same, Holding
  <2> QED
    BY <1>1, <2>2, <2>3, TakeStep
<1> QED
  BY <1>2, <1>3

LEMMA CallRemoveStep ==
  ASSUME StoreInv, NEW t \in Threads, Sessions!CallRemove(t)
  PROVE  StoreInv'
<1> DEFINE i == web[t].session
<1>1. /\ web \in Calls /\ web[t] \in Call /\ CallIsPlaced(web[t])
      /\ i \in Ids /\ data' = Sessions!Take(data, i) /\ web[t].at = "use"
      /\ web' = [web EXCEPT ![t].at = "remove", ![t].param = i]
      /\ UNCHANGED <<now, timer, sessions, touched>> /\ NoSession \notin Ids
  BY BeforeAStep DEF Sessions!CallRemove, Call, Optional
<1>2. web' \in Calls
  BY <1>1, CallsStay DEF Stages, Optional
<1>3. /\ Same(t, web, web') /\ CallIsPlaced(web'[t]) /\ web'[t].param = i
      /\ web'[t].session = web[t].session /\ web'[t].old = web[t].old
      /\ web[t].param = NoSession
  BY <1>1, <1>2 DEF Calls, Call, CallIsPlaced, Same, Holding
<1> QED
  BY <1>1, <1>2, <1>3, TakeStep

(* operator= counts the new session; the handle to the old one moves from  *)
(* the variable to the operator.                                           *)
LEMMA AssignStep ==
  ASSUME StoreInv, NEW t \in Threads, Sessions!Assign(t)
  PROVE  StoreInv'
<1> DEFINE i == web[t].param
           d == Sessions!Take(data, i)
<1>1. /\ web \in Calls /\ web[t] \in Call /\ CallIsPlaced(web[t]) /\ data \in Data /\ now \in Nat
      /\ touched \in [Ids -> Int] /\ NoSession \notin Ids
      /\ i \in Ids /\ data' = Sessions!AccessedNow(d, i)
      /\ web[t].at = "assign"
      /\ web' = [web EXCEPT ![t].at = "assigned", ![t].session = i, ![t].old = web[t].session]
      /\ UNCHANGED <<now, timer, sessions, touched>>
  BY BeforeAStep DEF Sessions!Assign, CallIsPlaced, Call, Optional, Holding
<1>2. web' \in Calls
  BY <1>1, CallsStay DEF Stages, Holding, Optional, Call
<1>3. /\ Same(t, web, web') /\ CallIsPlaced(web'[t]) /\ web'[t].param = i
      /\ web'[t].session = i /\ web'[t].old = web[t].session /\ web[t].old = NoSession
  BY <1>1, <1>2 DEF Calls, Call, CallIsPlaced, Same, Holding
<1>4. /\ data[i].refCount > 0 /\ data[i].live /\ data[i].refCount \in Nat
  BY <1>1, HeldIsAlive, BeforeAStep
<1>5. /\ d \in Data /\ OthersAre(data, d, i) /\ d[i].refCount = data[i].refCount + 1
      /\ d[i].live = data[i].live
  BY <1>1, WhatTakeDoes
<1> HIDE DEF d
<1>6. /\ data' \in Data /\ OthersAre(data, data', i)
      /\ data'[i].refCount = data[i].refCount + 1 /\ data'[i].live = data[i].live
      /\ data'[i].lastAccess >= 0
  BY <1>1, <1>5, WhatAccessDoes DEF OthersAre
<1>7. /\ Holds(web'[t], i) = Holds(web[t], i) + 1 /\ Holds(web[t], i) \in Nat
      /\ \A j \in Ids \ {i} : Holds(web'[t], j) = Holds(web[t], j)
  <2> DEFINE b == web[t]
             c == web'[t]
  <2>1. /\ c.param = b.param /\ c.session = b.param /\ c.old = b.session
        /\ b.old = NoSession /\ b.param = i /\ i # NoSession
    BY <1>1, <1>3
  <2> HIDE DEF b, c, i
  <2>2. \A j \in Ids : Holds(c, j) = Holds(b, j) + (IF j = i THEN 1 ELSE 0)
    BY <1>1, <2>1 DEF Holds
  <2>3. Holds(b, i) \in Nat
    BY DEF Holds
  <2>4. \A j \in Ids : Holds(b, j) \in Nat
    BY DEF Holds
  <2>5. Holds(c, i) = Holds(b, i) + 1
    BY <1>1, <2>2, <2>3
  <2>6. \A j \in Ids \ {i} : Holds(c, j) = Holds(b, j)
    BY <2>2, <2>4
  <2> QED
    BY <2>3, <2>5, <2>6 DEF b, c
<1> HIDE DEF i
<1>8. /\ data'[i].live <=> data'[i].refCount > 0
      /\ data'[i].refCount = data[i].refCount + (Holds(web'[t], i) - Holds(web[t], i))
      /\ data'[i].lastAccess >= 0 /\ data' \in Data /\ OthersAre(data, data', i)
      /\ touched' \in [Ids -> Int] /\ i \in Ids /\ UNCHANGED <<now, timer, sessions>>
  <2>1. data'[i].live <=> data'[i].refCount > 0
    BY <1>4, <1>6
  <2>2. data'[i].refCount = data[i].refCount + (Holds(web'[t], i) - Holds(web[t], i))
    BY <1>4, <1>6, <1>7
  <2> QED
    BY <1>1, <1>6, <2>1, <2>2
<1> QED
  BY <1>2, <1>3, <1>7, <1>8, HandleStep

(* The handles that go: of the variable, of the operator, of the temporary.*)
LEMMA DropStep ==
  ASSUME StoreInv, NEW t \in Threads, NEW i \in Ids,
         data' = Sessions!Drop(data, i),
         web' \in Calls, Same(t, web, web'), CallIsPlaced(web'[t]),
         UNCHANGED <<now, timer, sessions, touched>>,
         \/ /\ web[t].session = i /\ web'[t].session = NoSession
            /\ web'[t].param = web[t].param /\ web'[t].old = web[t].old
         \/ /\ web[t].param = i /\ web'[t].param = NoSession
            /\ web'[t].session = web[t].session /\ web'[t].old = web[t].old
         \/ /\ web[t].old = i /\ web'[t].old = NoSession
            /\ web'[t].session = web[t].session /\ web'[t].param = web[t].param
  PROVE  StoreInv'
<1>1. /\ data \in Data /\ touched \in [Ids -> Int] /\ NoSession \notin Ids
      /\ data[i].refCount > 0 /\ data[i].live /\ data[i].lastAccess >= 0
      /\ data[i].refCount \in Nat
  BY BeforeAStep, HeldIsAlive
<1>2. /\ data' \in Data /\ OthersAre(data, data', i)
      /\ data'[i].refCount = data[i].refCount - 1
      /\ data'[i].live <=> data[i].refCount > 1
      /\ data'[i].lastAccess = data[i].lastAccess
  BY <1>1, WhatDropDoes
<1>3. /\ Holds(web'[t], i) = Holds(web[t], i) - 1 /\ Holds(web[t], i) \in Nat
      /\ \A j \in Ids \ {i} : Holds(web'[t], j) = Holds(web[t], j)
  BY <1>1 DEF Holds
<1>4. data'[i].live <=> data'[i].refCount > 0
  BY <1>1, <1>2
<1> QED
  BY <1>1, <1>2, <1>3, <1>4, HandleStep

LEMMA LetGoStep ==
  ASSUME StoreInv, NEW t \in Threads,
         Sessions!LetGo(t) \/ Sessions!DropOld(t) \/ Sessions!DropTemporary(t)
  PROVE  StoreInv'
<1>1. /\ web \in Calls /\ web[t] \in Call /\ CallIsPlaced(web[t]) /\ NoSession \notin Ids
      /\ UNCHANGED <<now, timer, sessions, touched>>
  BY BeforeAStep DEF Sessions!LetGo, Sessions!DropOld, Sessions!DropTemporary
<1>2. CASE Sessions!LetGo(t)
  <2>1. /\ web[t].session \in Ids /\ data' = Sessions!Drop(data, web[t].session)
        /\ web' = [web EXCEPT ![t].session = NoSession] /\ web[t].at = "use"
    BY <1>1, <1>2 DEF Sessions!LetGo, Call, Optional
  <2>2. web' \in Calls
    BY <1>1, <2>1, CallsStay DEF Optional, Stages
  <2>3. /\ Same(t, web, web') /\ CallIsPlaced(web'[t]) /\ web'[t].session = NoSession
        /\ web'[t].param = web[t].param /\ web'[t].old = web[t].old
    BY <1>1, <2>1, <2>2 DEF Calls, Call, CallIsPlaced, Same, Holding
  <2> QED
    BY <1>1, <2>1, <2>2, <2>3, DropStep
<1>3. CASE Sessions!DropOld(t)
  <2>1. /\ web[t].old \in Ids /\ data' = Sessions!Drop(data, web[t].old)
        /\ web' = [web EXCEPT ![t].at = "temporary", ![t].old = NoSession]
        /\ web[t].at = "assigned"
    BY <1>1, <1>3 DEF Sessions!DropOld, Call, Optional, CallIsPlaced
  <2>2. web' \in Calls
    BY <1>1, <2>1, CallsStay DEF Optional, Stages, Holding
  <2>3. /\ Same(t, web, web') /\ CallIsPlaced(web'[t]) /\ web'[t].old = NoSession
        /\ web'[t].param = web[t].param /\ web'[t].session = web[t].session
    BY <1>1, <2>1, <2>2 DEF Calls, Call, CallIsPlaced, Same, Holding
  <2> QED
    BY <1>1, <2>1, <2>2, <2>3, DropStep
<1>4. CASE Sessions!DropTemporary(t)
  <2>1. /\ web[t].param \in Ids /\ data' = Sessions!Drop(data, web[t].param)
        /\ web' = [web EXCEPT ![t].at = "use", ![t].param = NoSession]
        /\ web[t].at = "temporary"
    BY <1>1, <1>4 DEF Sessions!DropTemporary, Call, Optional, CallIsPlaced, Holding
  <2>2. web' \in Calls
    BY <1>1, <2>1, CallsStay DEF Optional, Stages, Holding
  <2>3. /\ Same(t, web, web') /\ CallIsPlaced(web'[t]) /\ web'[t].param = NoSession
        /\ web'[t].old = web[t].old /\ web'[t].session = web[t].session
    BY <1>1, <2>1, <2>2 DEF Calls, Call, CallIsPlaced, Same, Holding
  <2> QED
    BY <1>1, <2>1, <2>2, <2>3, DropStep
<1> QED
  BY <1>2, <1>3, <1>4
-------------------------------------------------------------------------------
(* A new session, and the removal of one.                                  *)
LEMMA CreateStep ==
  ASSUME StoreInv, NEW t \in Threads, NEW i \in Ids, Sessions!Create(t, i)
  PROVE  StoreInv'
<1>1. /\ web \in Calls /\ web[t] \in Call /\ CallIsPlaced(web[t]) /\ now \in Nat
      /\ data \in Data /\ touched \in [Ids -> Int] /\ NoSession \notin Ids
      /\ sessions \in SUBSET Ids /\ timer.at = "idle"
      /\ UNCHANGED <<now, timer>> /\ sessions' = sessions \cup {i}
  BY BeforeAStep DEF Sessions!Create, Sessions!MutexFree
<1>2. web' \in Calls
  BY <1>1, CallsStay DEF Sessions!Create, Stages, Optional
<1>3. /\ web'[t].at = "use" /\ web'[t].session = i /\ web'[t].param = NoSession
      /\ web'[t].old = NoSession /\ web[t].session = NoSession
      /\ web[t].param = NoSession /\ web[t].old = NoSession
      /\ Same(t, web, web')
  BY <1>1, <1>2 DEF Sessions!Create, Calls, Call, CallIsPlaced, Same, Holding
<1>4. web' = [web EXCEPT ![t] = web'[t]] /\ web'[t] \in Call
  BY <1>1, <1>2, <1>3, OneCall DEF Same
<1>5. CallIsPlaced(web'[t])
  BY <1>3 DEF CallIsPlaced, Holding
<1>6. /\ data' \in Data /\ data'[i].refCount = 2 /\ data'[i].live = TRUE
      /\ data'[i].lastAccess = now /\ OthersAre(data, data', i)
  BY <1>1 DEF Sessions!Create, Data, OthersAre
<1>7. touched' \in [Ids -> Int]
  BY <1>1 DEF Sessions!Create, Sessions!TouchedNow
<1>8. data[i].refCount = 0
  <2>1. data[i].lastAccess < 0
    BY <1>1 DEF Sessions!Create, Sessions!Used, Data
  <2> QED
    BY <2>1 DEF StoreInv, UnbornAreUncounted
<1>9. i \notin sessions
  BY <1>8, HeldIsAlive
<1>10. \A j \in Ids : /\ data'[j].refCount = data[j].refCount + (InMap(j)' - InMap(j))
                                                 + (Holds(web'[t], j) - Holds(web[t], j))
                      /\ data'[j].live <=> data'[j].refCount > 0
                      /\ data'[j].lastAccess >= 0 \/ data'[j].refCount = 0
  <2> TAKE j \in Ids
  <2>1. /\ Holds(web[t], j) = 0 /\ Holds(web'[t], j) = IF j = i THEN 1 ELSE 0
        /\ j # i => InMap(j)' = InMap(j)
        /\ InMap(i)' = 1 /\ InMap(i) = 0
    BY <1>1, <1>3, <1>9 DEF Holds, InMap
  <2>2. InMap(j) \in Nat
    BY DEF InMap
  <2>3. CASE j = i
    BY <1>1, <1>6, <1>8, <2>1, <2>3
  <2>4. CASE j # i
    <3>1. data'[j] = data[j]
      BY <1>6, <2>4 DEF OthersAre
    <3> QED
      BY <2>1, <2>2, <2>4, <3>1, BeforeAStep
  <2> QED
    BY <2>3, <2>4
<1> QED
  BY <1>1, <1>4, <1>5, <1>6, <1>7, <1>10, ThreadStep

(* removeSession takes the session out of the map, and its copy goes.      *)
LEMMA RemoveStep ==
  ASSUME StoreInv, NEW t \in Threads, Sessions!RemoveSession(t)
  PROVE  StoreInv'
<1>0. PICK i \in Ids : i = web[t].param
  BY BeforeAStep DEF Sessions!RemoveSession, Call, CallIsPlaced, Optional
<1> DEFINE inMap == i \in sessions
           d == IF inMap THEN Sessions!Drop(data, i) ELSE data
<1>1. /\ web \in Calls /\ web[t] \in Call /\ CallIsPlaced(web[t])
      /\ data \in Data /\ touched \in [Ids -> Int] /\ NoSession \notin Ids
      /\ sessions \in SUBSET Ids /\ timer.at = "idle"
      /\ UNCHANGED <<now, timer, touched>> /\ sessions' = sessions \ {i}
      /\ web[t].at = "remove"
      /\ web' = [web EXCEPT ![t].at = "use", ![t].param = NoSession]
      /\ data' = Sessions!Drop(d, i)
  BY <1>0, BeforeAStep DEF Sessions!RemoveSession, Sessions!MutexFree
<1>2. web' \in Calls
  BY <1>1, CallsStay DEF Stages, Optional
<1>3. /\ web'[t].at = "use" /\ web'[t].param = NoSession
      /\ web'[t].session = web[t].session /\ web'[t].old = web[t].old
      /\ Same(t, web, web') /\ CallIsPlaced(web'[t])
  BY <1>1, <1>2 DEF Calls, Call, CallIsPlaced, Same, Holding
<1>4. web' = [web EXCEPT ![t] = web'[t]] /\ web'[t] \in Call
  BY <1>1, <1>2, <1>3, OneCall DEF Same
<1>5. /\ d \in Data /\ d[i].refCount = data[i].refCount - IF inMap THEN 1 ELSE 0
      /\ d[i].lastAccess = data[i].lastAccess /\ OthersAre(data, d, i)
  <2>1. CASE inMap
    BY <1>1, <2>1, WhatDropDoes
  <2>2. CASE ~inMap
    BY <1>1, <2>2 DEF Data, OthersAre
  <2> QED
    BY <2>1, <2>2
<1> HIDE DEF d
<1>6. /\ data' \in Data /\ data'[i].refCount = d[i].refCount - 1
      /\ data'[i].live <=> d[i].refCount > 1
      /\ data'[i].lastAccess = data[i].lastAccess /\ OthersAre(data, data', i)
  BY <1>1, <1>5, WhatDropDoes DEF OthersAre
<1>7. data[i].refCount \in Nat /\ data[i].lastAccess >= 0
  BY <1>0, BeforeAStep, HeldIsAlive
<1>8. data'[i].live <=> data'[i].refCount > 0
  BY <1>5, <1>6, <1>7
<1>9. \A j \in Ids : /\ data'[j].refCount = data[j].refCount + (InMap(j)' - InMap(j))
                                                + (Holds(web'[t], j) - Holds(web[t], j))
                     /\ data'[j].live <=> data'[j].refCount > 0
                     /\ data'[j].lastAccess >= 0 \/ data'[j].refCount = 0
  <2> TAKE j \in Ids
  <2>1. /\ Holds(web'[t], j) = Holds(web[t], j) - (IF j = i THEN 1 ELSE 0)
        /\ Holds(web[t], j) \in Nat
    BY <1>0, <1>1, <1>3 DEF Holds
  <2>2. /\ InMap(j) \in Nat /\ j # i => InMap(j)' = InMap(j)
        /\ InMap(i)' = 0 /\ InMap(i) = IF inMap THEN 1 ELSE 0
    BY <1>1 DEF InMap
  <2>3. CASE j = i
    <3> HIDE DEF inMap
    <3>1. data'[j].refCount = data[j].refCount + (InMap(j)' - InMap(j))
                                               + (Holds(web'[t], j) - Holds(web[t], j))
      BY <1>5, <1>6, <1>7, <2>1, <2>2, <2>3
    <3> QED
      BY <1>6, <1>7, <1>8, <2>3, <3>1
  <2>4. CASE j # i
    <3>1. data'[j] = data[j]
      BY <1>6, <2>4 DEF OthersAre
    <3> QED
      BY <2>1, <2>2, <2>4, <3>1, BeforeAStep
  <2> QED
    BY <2>3, <2>4
<1>10. sessions' \in SUBSET Ids
  BY <1>1
<1> QED
  BY <1>1, <1>3, <1>4, <1>6, <1>9, <1>10, ThreadStep
-------------------------------------------------------------------------------
(* The timer, whose steps leave the handles of the threads alone.          *)
LEMMA TimerStep ==
  ASSUME StoreInv, UNCHANGED web, now' \in Nat, timer' \in Timers, TimerIsPlaced',
         sessions' \in SUBSET Ids, data' \in Data, UNCHANGED touched,
         \A j \in Ids : /\ data'[j].refCount = data[j].refCount + (InMap(j)' - InMap(j))
                                                 + (InTimer(j)' - InTimer(j))
                        /\ data'[j].live <=> data'[j].refCount > 0
                        /\ data'[j].lastAccess >= 0 \/ data'[j].refCount = 0
  PROVE  StoreInv'
<1>1. SessionShape'
  BY DEF StoreInv, SessionShape
<1>2. \A s \in Threads : CallIsPlaced(web'[s])
  BY DEF StoreInv
<1>3. UnbornAreUncounted'
  BY DEF UnbornAreUncounted, Data
<1>4. Sessions!SessionsAreCounted'
  <2> SUFFICES ASSUME NEW j \in Ids
               PROVE  /\ data'[j].refCount = Sessions!Handles(j)'
                      /\ data'[j].live <=> Sessions!Handles(j)' > 0
    BY DEF Sessions!SessionsAreCounted
  <2>1. Sessions!Handles(j)' = Sessions!Handles(j) + (InMap(j)' - InMap(j))
                                 + (InTimer(j)' - InTimer(j))
    BY TimerMoves
  <2>2. data[j].refCount = Sessions!Handles(j)
    BY DEF StoreInv, Sessions!SessionsAreCounted
  <2> QED
    BY <2>1, <2>2
<1> QED
  BY <1>1, <1>2, <1>3, <1>4 DEF StoreInv

LEMMA BeforeTimer ==
  ASSUME StoreInv
  PROVE  /\ now \in Nat /\ data \in Data /\ sessions \in SUBSET Ids
         /\ timer \in Timers /\ TimerIsPlaced /\ NoSession \notin Ids
         /\ \A i \in Ids : /\ data[i].refCount \in Nat
                           /\ data[i].live <=> data[i].refCount > 0
                           /\ data[i].lastAccess >= 0 \/ data[i].refCount = 0
<1>1. \A i \in Ids : data[i].lastAccess >= 0 \/ data[i].refCount = 0
  BY DEF StoreInv, SessionShape, UnbornAreUncounted, Data
<1> QED
  BY <1>1, CountsAreNumbers, SessionsAssumption
     DEF StoreInv, SessionShape, SessionsAssumption

LEMMA LookStep ==
  ASSUME StoreInv, NEW i \in Ids, Sessions!TimerLook(i)
  PROVE  StoreInv'
<1>1. /\ data \in Data /\ now \in Nat /\ data' = Sessions!Take(data, i)
      /\ UNCHANGED <<now, sessions, web, touched>> /\ sessions \in SUBSET Ids
      /\ timer \in Timers /\ timer.at = "next" /\ timer.copy = NoSession
      /\ NoSession \notin Ids /\ i \in timer.left /\ i \in sessions
  BY BeforeTimer DEF Sessions!TimerLook, TimerIsPlaced
<1>2. /\ timer'.copy = i /\ timer'.at \in {"erase", "drop"}
      /\ timer'.left = timer.left \ {i} /\ timer' \in Timers
  BY <1>1 DEF Sessions!TimerLook, Timers, Optional
<1>3. TimerIsPlaced'
  BY <1>1, <1>2, BeforeTimer DEF TimerIsPlaced
<1>4. data[i].refCount > 0 /\ data[i].live /\ data[i].lastAccess >= 0
  BY <1>1, HeldIsAlive
<1>5. /\ data' \in Data /\ OthersAre(data, data', i)
      /\ data'[i].refCount = data[i].refCount + 1
      /\ data'[i].live = data[i].live /\ data'[i].lastAccess = data[i].lastAccess
  BY <1>1, WhatTakeDoes
<1>6. \A j \in Ids : /\ data'[j].refCount = data[j].refCount + (InMap(j)' - InMap(j))
                                                + (InTimer(j)' - InTimer(j))
                     /\ data'[j].live <=> data'[j].refCount > 0
                     /\ data'[j].lastAccess >= 0 \/ data'[j].refCount = 0
  <2> TAKE j \in Ids
  <2>1. /\ InMap(j)' = InMap(j) /\ InMap(j) \in Nat
        /\ InTimer(j) = 0 /\ InTimer(j)' = IF j = i THEN 1 ELSE 0
    BY <1>1, <1>2 DEF InMap, InTimer
  <2>2. /\ data[j].refCount \in Nat /\ (data[j].live <=> data[j].refCount > 0)
        /\ data[j].lastAccess >= 0 \/ data[j].refCount = 0
    BY BeforeTimer
  <2>3. CASE j = i
    <3>1. data'[j].live <=> data'[j].refCount > 0
      <4>1. data'[i].live
        BY <1>4, <1>5
      <4>2. data'[i].refCount > 0
        BY <1>4, <1>5, <2>2, <2>3
      <4> QED
        BY <2>3, <4>1, <4>2
    <3> QED
      BY <1>4, <1>5, <2>1, <2>2, <2>3, <3>1
  <2>4. CASE j # i
    <3>1. data'[j] = data[j]
      BY <1>5, <2>4 DEF OthersAre
    <3> QED
      BY <2>1, <2>2, <2>4, <3>1
  <2> QED
    BY <2>3, <2>4
<1>7. now' \in Nat /\ sessions' \in SUBSET Ids
  BY <1>1
<1> QED
  BY <1>1, <1>2, <1>3, <1>5, <1>6, <1>7, TimerStep

LEMMA EraseAndDrop ==
  ASSUME StoreInv, Sessions!TimerErase \/ Sessions!TimerDrop
  PROVE  StoreInv'
<1>0. PICK i \in Ids : i = timer.copy
  BY BeforeTimer DEF Sessions!TimerErase, Sessions!TimerDrop, TimerIsPlaced, Timers, Optional
<1>1. /\ data \in Data /\ now \in Nat /\ data' = Sessions!Drop(data, i)
      /\ UNCHANGED <<now, web, touched>> /\ sessions \in SUBSET Ids
      /\ timer \in Timers /\ NoSession \notin Ids /\ TimerIsPlaced
      /\ \/ /\ timer.at = "erase" /\ timer' = [timer EXCEPT !.at = "drop"]
            /\ sessions' = sessions \ {i} /\ i \in sessions
         \/ /\ timer.at = "drop" /\ timer' = [timer EXCEPT !.at = "next", !.copy = NoSession]
            /\ sessions' = sessions
  BY <1>0, BeforeTimer DEF Sessions!TimerErase, Sessions!TimerDrop, TimerIsPlaced
<1>2. /\ timer' \in Timers /\ timer'.left = timer.left
      /\ \/ /\ timer.at = "erase" /\ timer'.at = "drop" /\ timer'.copy = i
            /\ sessions' = sessions \ {i} /\ i \in sessions
         \/ /\ timer.at = "drop" /\ timer'.at = "next" /\ timer'.copy = NoSession
            /\ sessions' = sessions
  BY <1>0, <1>1 DEF Timers, Optional
<1>3. TimerIsPlaced' /\ sessions' \in SUBSET Ids
  BY <1>0, <1>1, <1>2 DEF TimerIsPlaced, Timers
<1>4. data[i].refCount > 0 /\ data[i].lastAccess >= 0 /\ data[i].refCount \in Nat
  BY <1>0, HeldIsAlive, BeforeTimer
<1>5. /\ data' \in Data /\ OthersAre(data, data', i)
      /\ data'[i].refCount = data[i].refCount - 1
      /\ data'[i].live <=> data[i].refCount > 1
      /\ data'[i].lastAccess = data[i].lastAccess
  BY <1>1, WhatDropDoes
<1>6. \A j \in Ids : /\ data'[j].refCount = data[j].refCount + (InMap(j)' - InMap(j))
                                                + (InTimer(j)' - InTimer(j))
                     /\ data'[j].live <=> data'[j].refCount > 0
                     /\ data'[j].lastAccess >= 0 \/ data'[j].refCount = 0
  <2> TAKE j \in Ids
  <2>1. /\ (InMap(j)' - InMap(j)) + (InTimer(j)' - InTimer(j)) = IF j = i THEN -1 ELSE 0
        /\ InMap(j) \in Int /\ InMap(j)' \in Int /\ InTimer(j) \in Int /\ InTimer(j)' \in Int
    BY <1>0, <1>1, <1>2 DEF InMap, InTimer
  <2>2. /\ data[j].refCount \in Nat /\ (data[j].live <=> data[j].refCount > 0)
        /\ data[j].lastAccess >= 0 \/ data[j].refCount = 0
    BY BeforeTimer
  <2>3. CASE j = i
    <3>1. data'[j].live <=> data'[j].refCount > 0
      BY <1>4, <1>5, <2>3
    <3> QED
      BY <1>4, <1>5, <2>1, <2>2, <2>3, <3>1
  <2>4. CASE j # i
    <3>1. data'[j] = data[j]
      BY <1>5, <2>4 DEF OthersAre
    <3> QED
      BY <2>1, <2>2, <2>4, <3>1
  <2> QED
    BY <2>3, <2>4
<1>7. now' \in Nat
  BY <1>1
<1> QED
  BY <1>1, <1>2, <1>3, <1>5, <1>6, <1>7, TimerStep

LEMMA ClockAndTimer ==
  ASSUME StoreInv,
         Sessions!TimerBegin \/ Sessions!TimerEnd \/ Sessions!Tick \/ UNCHANGED Sessions!vars
  PROVE  StoreInv'
<1>1. /\ UNCHANGED <<data, sessions, web, touched>> /\ now' \in Nat
      /\ timer' \in Timers /\ timer'.copy = timer.copy /\ TimerIsPlaced'
      /\ data \in Data /\ sessions \in SUBSET Ids
  BY BeforeTimer DEF Sessions!TimerBegin, Sessions!TimerEnd, Sessions!Tick, Sessions!vars,
       Sessions!NoTimer, TimerIsPlaced, Timers, Optional
<1>2. \A j \in Ids : /\ data'[j].refCount = data[j].refCount + (InMap(j)' - InMap(j))
                                                + (InTimer(j)' - InTimer(j))
                     /\ data'[j].live <=> data'[j].refCount > 0
                     /\ data'[j].lastAccess >= 0 \/ data'[j].refCount = 0
  <2> TAKE j \in Ids
  <2>1. /\ InMap(j)' = InMap(j) /\ InTimer(j)' = InTimer(j)
        /\ InMap(j) \in Nat /\ InTimer(j) \in Nat
    BY <1>1 DEF InMap, InTimer
  <2>2. /\ data[j].refCount \in Nat /\ (data[j].live <=> data[j].refCount > 0)
        /\ data[j].lastAccess >= 0 \/ data[j].refCount = 0
    BY BeforeTimer
  <2> QED
    BY <1>1, <2>1, <2>2
<1>3. sessions' \in SUBSET Ids /\ data' \in Data
  BY <1>1
<1> QED
  BY <1>1, <1>2, <1>3, TimerStep
-------------------------------------------------------------------------------
(* Every step of the store, and the state it begins in.                    *)
LEMMA StoreStep ==
  ASSUME StoreInv, [Sessions!Next]_(Sessions!vars)
  PROVE  StoreInv'
<1>1. ASSUME NEW t \in Threads, Sessions!Thread(t) PROVE StoreInv'
  <2>1. CASE \/ \E c \in Sessions!Used \cup {NoSession} : Sessions!Request(t, c)
             \/ Sessions!AskAgain(t) \/ Sessions!GetSessionId(t)
             \/ Sessions!NullSession(t) \/ Sessions!Answered(t)
    BY <2>1, QuietStep
  <2>2. CASE Sessions!Renew(t) \/ Sessions!RenewById(t)
    BY <2>2, RenewStep
  <2>3. CASE \E k \in Keys : Sessions!Set(t, k) \/ Sessions!Remove(t, k)
    BY <2>3, ValuesStep
  <2>4. CASE Sessions!Find(t) \/ Sessions!CallRemove(t) \/ Sessions!Assign(t)
    BY <2>4, FindStep, CallRemoveStep, AssignStep
  <2>5. CASE \E i \in Ids : Sessions!Create(t, i) \/ Sessions!GetById(t, i)
    BY <2>5, CreateStep, GetByIdStep
  <2>6. CASE Sessions!LetGo(t) \/ Sessions!DropOld(t) \/ Sessions!DropTemporary(t)
    BY <2>6, LetGoStep
  <2>7. CASE Sessions!RemoveSession(t)
    BY <2>7, RemoveStep
  <2> QED
    BY <1>1, <2>1, <2>2, <2>3, <2>4, <2>5, <2>6, <2>7 DEF Sessions!Thread
<1>2. CASE Sessions!Timer
  BY <1>2, LookStep, EraseAndDrop, ClockAndTimer DEF Sessions!Timer
<1>3. CASE Sessions!Tick \/ UNCHANGED Sessions!vars
  BY <1>3, ClockAndTimer
<1> QED
  BY <1>1, <1>2, <1>3 DEF Sessions!Next

LEMMA StoreBegins ==
  ASSUME Sessions!Init
  PROVE  StoreInv
<1>1. /\ SessionShape /\ TimerIsPlaced /\ UnbornAreUncounted
      /\ \A t \in Threads : CallIsPlaced(web[t])
  BY SessionsAssumption
     DEF Sessions!Init, SessionShape, TimerIsPlaced, UnbornAreUncounted, CallIsPlaced, Data,
         Calls, Call, Stages, Holding, Timers, Optional, Sessions!Unborn, Sessions!Resting,
         Sessions!NoTimer, SessionsAssumption
<1>2. ASSUME NEW i \in Ids
      PROVE  data[i].refCount = Sessions!Handles(i) /\ (data[i].live <=> Sessions!Handles(i) > 0)
  <2>1. /\ InVariables(i) = {} /\ InCalls(i) = {} /\ InOld(i) = {}
        /\ InMap(i) = 0 /\ InTimer(i) = 0
    BY SessionsAssumption
       DEF Sessions!Init, InVariables, InCalls, InOld, InMap, InTimer, Sessions!Resting,
           Sessions!NoTimer, SessionsAssumption
  <2>2. Sessions!Handles(i) = 0
    BY <2>1, HandlesAre, FS_EmptySet
  <2>3. data[i].refCount = 0 /\ data[i].live = FALSE
    BY DEF Sessions!Init, Sessions!Unborn
  <2> QED
    BY <2>2, <2>3
<1> QED
  BY <1>1, <1>2 DEF StoreInv, Sessions!SessionsAreCounted

(* A step of the program is a step of the store while the store is what    *)
(* the behaviour is about.                                                 *)
SessionsScene == scene = "sessions" => StoreInv

LEMMA SessionsSceneStep ==
  ASSUME [Next]_vars, scene = "sessions"
  PROVE  scene' = "sessions" /\ [Sessions!Next]_(Sessions!vars)
<1>1. CASE Next
  BY <1>1 DEF Next
<1>2. CASE UNCHANGED vars
  BY <1>2 DEF vars, sharedVars, sessionVars, Sessions!vars
<1> QED
  BY <1>1, <1>2

LEMMA SceneStays ==
  ASSUME [Next]_vars
  PROVE  scene' = scene
BY DEF Next, vars

(* For any number of threads and sessions: the data of a session lives     *)
(* exactly as long as there is a handle to it, in the map of the store, in *)
(* a thread or with the timer.                                             *)
THEOREM SessionsLiveWithHandles == Spec => []SessionsAreCounted
<1>1. Init => SessionsScene
  BY StoreBegins DEF Init, SessionsScene
<1>2. SessionsScene /\ [Next]_vars => SessionsScene'
  BY StoreStep, SessionsSceneStep, SceneStays DEF SessionsScene
<1>3. SessionsScene => SessionsAreCounted
  BY DEF SessionsScene, StoreInv, SessionsAreCounted
<1> QED
  BY <1>1, <1>2, <1>3, PTL DEF Spec
-------------------------------------------------------------------------------
(* Times.  A thread moves the time of an access to the present or leaves   *)
(* it, and the time of getSession with it; an assignment is an access that *)
(* getSession knows nothing of.  The map changes only while the timer does *)
(* not keep the mutex.                                                     *)
TimesGrow ==
  \A i \in Ids : \/ /\ data'[i].lastAccess = data[i].lastAccess
                    /\ touched'[i] = touched[i]
                 \/ data'[i].lastAccess = now /\ touched'[i] \in {now, touched[i]}

TimesStay == \A i \in Ids : data'[i].lastAccess = data[i].lastAccess

ClockInv ==
  /\ timer.now <= now
  /\ \A i \in Ids : /\ data[i].lastAccess <= now /\ touched[i] <= now
                    /\ data[i].lastAccess >= 0 => touched[i] <= data[i].lastAccess

InTime(i) == timer.now - data[i].lastAccess <= expirationTime

(* The session about to be erased may be used again before it is: what     *)
(* counts is that it was not in time when the timer looked.                *)
TimerInv ==
  timer.at # "idle" =>
    /\ timer.renewed \subseteq sessions /\ \A i \in timer.renewed : InTime(i)
    /\ timer.at = "erase" => timer.copy \notin timer.renewed
    /\ \A i \in sessions \ timer.left : InTime(i) \/ (timer.at = "erase" /\ i = timer.copy)

LEMMA TakeKeepsTimes ==
  ASSUME data \in Data, NEW i \in Ids, data' = Sessions!Take(data, i)
  PROVE  TimesStay
BY WhatTakeDoes DEF TimesStay, OthersAre

LEMMA DropKeepsTimes ==
  ASSUME data \in Data, NEW i \in Ids, data' = Sessions!Drop(data, i)
  PROVE  TimesStay
BY WhatDropDoes DEF TimesStay, OthersAre

LEMMA ThreadsMoveTimesOn ==
  ASSUME StoreInv, NEW t \in Threads, Sessions!Thread(t)
  PROVE  /\ TimesGrow /\ UNCHANGED <<now, timer>>
         /\ timer.at # "idle" => UNCHANGED sessions
<1>1. /\ data \in Data /\ now \in Nat /\ touched \in [Ids -> Int]
      /\ web[t] \in Call /\ CallIsPlaced(web[t]) /\ NoSession \notin Ids
  BY BeforeAStep
<1>2. CASE \/ \E c \in Sessions!Used \cup {NoSession} : Sessions!Request(t, c)
           \/ Sessions!AskAgain(t) \/ Sessions!GetSessionId(t)
           \/ Sessions!NullSession(t) \/ Sessions!Answered(t)
  BY <1>2 DEF Sessions!Request, Sessions!AskAgain, Sessions!GetSessionId,
              Sessions!NullSession, Sessions!Answered, TimesGrow
<1>3. CASE Sessions!Renew(t) \/ Sessions!RenewById(t)
  <2>1. PICK i \in Ids : /\ data' = [data EXCEPT ![i].lastAccess = now]
                         /\ touched' = [touched EXCEPT ![i] = now]
    BY <1>1, <1>3 DEF Sessions!Renew, Sessions!RenewById, Sessions!AccessedNow,
                      Sessions!TouchedNow, CallIsPlaced, Call, Optional
  <2> QED
    BY <1>1, <1>3, <2>1 DEF TimesGrow, Data, Sessions!Renew, Sessions!RenewById
<1>4. ASSUME NEW k \in Keys, Sessions!Set(t, k) \/ Sessions!Remove(t, k)
      PROVE  TimesGrow /\ UNCHANGED <<now, timer, sessions>>
  <2> DEFINE i == web[t].session
  <2>1. i \in Ids /\ UNCHANGED <<now, timer, sessions, touched>>
    BY <1>1, <1>4 DEF Sessions!Set, Sessions!Remove, Call, Optional
  <2>2. \/ data' = [data EXCEPT ![i].keys = @ \cup {k}]
        \/ data' = [data EXCEPT ![i].keys = @ \ {k}]
    BY <1>4 DEF Sessions!Set, Sessions!Remove
  <2> HIDE DEF i
  <2> QED
    BY <1>1, <2>1, <2>2 DEF TimesGrow, Data
<1>5. ASSUME NEW i \in Ids, Sessions!Create(t, i)
      PROVE  TimesGrow /\ UNCHANGED <<now, timer>> /\ timer.at = "idle"
  BY <1>1, <1>5 DEF Sessions!Create, Sessions!TouchedNow, Sessions!MutexFree, TimesGrow, Data
<1>6. ASSUME Sessions!Find(t) \/ (\E i \in Ids : Sessions!GetById(t, i)) \/ Sessions!CallRemove(t)
      PROVE  TimesGrow /\ UNCHANGED <<now, timer, sessions>>
  <2>1. \E i \in Ids : data' = Sessions!Take(data, i)
    BY <1>1, <1>6, BeforeAStep
       DEF Sessions!Find, Sessions!GetById, Sessions!CallRemove, Call, Optional
  <2>2. UNCHANGED <<now, timer, sessions, touched>>
    BY <1>6 DEF Sessions!Find, Sessions!GetById, Sessions!CallRemove
  <2> QED
    BY <1>1, <2>1, <2>2, TakeKeepsTimes DEF TimesGrow, TimesStay
<1>7. ASSUME Sessions!LetGo(t) \/ Sessions!DropOld(t) \/ Sessions!DropTemporary(t)
      PROVE  TimesGrow /\ UNCHANGED <<now, timer, sessions>>
  <2>1. \E i \in Ids : data' = Sessions!Drop(data, i)
    BY <1>1, <1>7 DEF Sessions!LetGo, Sessions!DropOld, Sessions!DropTemporary, Call,
                      CallIsPlaced, Optional, Holding
  <2>2. UNCHANGED <<now, timer, sessions, touched>>
    BY <1>7 DEF Sessions!LetGo, Sessions!DropOld, Sessions!DropTemporary
  <2> QED
    BY <1>1, <2>1, <2>2, DropKeepsTimes DEF TimesGrow, TimesStay
<1>8. ASSUME Sessions!RemoveSession(t)
      PROVE  TimesGrow /\ UNCHANGED <<now, timer>> /\ timer.at = "idle"
  <2>1. PICK i \in Ids : data' = Sessions!Drop(IF i \in sessions THEN Sessions!Drop(data, i)
                                               ELSE data, i)
    BY <1>1, <1>8 DEF Sessions!RemoveSession, Call, CallIsPlaced, Optional
  <2> DEFINE d == IF i \in sessions THEN Sessions!Drop(data, i) ELSE data
  <2>2. d \in Data /\ \A j \in Ids : d[j].lastAccess = data[j].lastAccess
    <3>1. CASE i \in sessions
      BY <1>1, <3>1, WhatDropDoes DEF OthersAre
    <3>2. CASE i \notin sessions
      BY <1>1, <3>2
    <3> QED
      BY <3>1, <3>2
  <2>3. data' = Sessions!Drop(d, i)
    BY <2>1
  <2> HIDE DEF d
  <2>4. \A j \in Ids : Sessions!Drop(d, i)[j].lastAccess = d[j].lastAccess
    BY <1>1, <2>2, WhatDropDoes DEF OthersAre
  <2> QED
    BY <1>8, <2>2, <2>3, <2>4 DEF Sessions!RemoveSession, Sessions!MutexFree, TimesGrow
<1>9. ASSUME Sessions!Assign(t)
      PROVE  TimesGrow /\ UNCHANGED <<now, timer, sessions>>
  <2>1. PICK i \in Ids : data' = Sessions!AccessedNow(Sessions!Take(data, i), i)
    BY <1>1, <1>9 DEF Sessions!Assign, Call, CallIsPlaced, Holding, Optional
  <2> DEFINE d == Sessions!Take(data, i)
  <2>2. d \in Data /\ \A j \in Ids : d[j].lastAccess = data[j].lastAccess
    BY <1>1, WhatTakeDoes DEF OthersAre
  <2> HIDE DEF d
  <2>3. /\ data'[i].lastAccess = now
        /\ \A j \in Ids \ {i} : data'[j].lastAccess = d[j].lastAccess
    BY <1>1, <2>1, <2>2, WhatAccessDoes DEF OthersAre, d
  <2> QED
    BY <1>9, <2>2, <2>3 DEF Sessions!Assign, TimesGrow
<1> QED
  BY <1>2, <1>3, <1>4, <1>5, <1>6, <1>7, <1>8, <1>9 DEF Sessions!Thread

LEMMA TimesStep ==
  ASSUME StoreInv, ClockInv, TimerInv, [Sessions!Next]_(Sessions!vars)
  PROVE  ClockInv' /\ TimerInv'
<1>1. /\ data \in Data /\ now \in Nat /\ touched \in [Ids -> Int] /\ sessions \subseteq Ids
      /\ timer \in Timers /\ timer.now \in Nat /\ timer.renewed \subseteq Ids
      /\ timer.left \subseteq sessions /\ expirationTime \in Nat /\ TimerIsPlaced
  BY SessionsAssumption DEF StoreInv, SessionShape, TimerIsPlaced, Timers, SessionsAssumption
<1>2. ASSUME NEW t \in Threads, Sessions!Thread(t) PROVE ClockInv' /\ TimerInv'
  <2>1. /\ TimesGrow /\ UNCHANGED <<now, timer>>
        /\ timer.at # "idle" => UNCHANGED sessions
    BY <1>2, ThreadsMoveTimesOn
  <2>2. ClockInv'
    BY <1>1, <2>1 DEF TimesGrow, ClockInv, Data
  <2>3. \A i \in Ids : InTime(i) => InTime(i)'
    BY <1>1, <2>1 DEF TimesGrow, ClockInv, InTime, Data
  <2> QED
    BY <1>1, <2>1, <2>2, <2>3 DEF TimerInv
<1>3. CASE Sessions!Tick \/ UNCHANGED Sessions!vars
  BY <1>1, <1>3 DEF Sessions!Tick, Sessions!vars, ClockInv, TimerInv, InTime, Data
<1>4. CASE Sessions!TimerBegin
  <2>1. /\ UNCHANGED <<now, data, sessions, touched>> /\ timer'.now = now
        /\ timer'.at = "next" /\ timer'.left = sessions
        /\ timer'.renewed = {i \in sessions : now - touched[i] <= expirationTime}
    BY <1>4 DEF Sessions!TimerBegin
  <2>2. \A i \in sessions : data[i].lastAccess >= 0
    BY <1>1, HeldIsAlive
  <2> QED
    BY <1>1, <2>1, <2>2 DEF ClockInv, TimerInv, InTime, Data
<1>5. ASSUME NEW i \in Ids, Sessions!TimerLook(i) PROVE ClockInv' /\ TimerInv'
  <2>1. /\ UNCHANGED <<now, sessions, touched>> /\ timer'.now = timer.now
        /\ timer.at = "next" /\ timer'.copy = i /\ timer'.left = timer.left \ {i}
        /\ timer'.renewed = timer.renewed
        /\ timer'.at = IF InTime(i) THEN "drop" ELSE "erase"
    BY <1>1, <1>5 DEF Sessions!TimerLook, InTime, Timers, Data
  <2>2. \A j \in Ids : data'[j].lastAccess = data[j].lastAccess
    BY <1>1, <1>5, TakeKeepsTimes DEF Sessions!TimerLook, TimesStay
  <2> QED
    BY <1>1, <2>1, <2>2 DEF ClockInv, TimerInv, InTime
<1>6. CASE Sessions!TimerErase \/ Sessions!TimerDrop
  <2>1. PICK i \in Ids : i = timer.copy /\ data' = Sessions!Drop(data, i)
    BY <1>1, <1>6 DEF Sessions!TimerErase, Sessions!TimerDrop, TimerIsPlaced, Timers, Optional
  <2>2. \A j \in Ids : data'[j].lastAccess = data[j].lastAccess
    BY <1>1, <2>1, DropKeepsTimes DEF TimesStay
  <2>3. /\ UNCHANGED <<now, touched>> /\ timer'.now = timer.now
        /\ timer'.left = timer.left /\ timer'.renewed = timer.renewed
        /\ timer'.at \in {"drop", "next"}
        /\ \/ timer.at = "erase" /\ sessions' = sessions \ {i}
           \/ timer.at = "drop" /\ sessions' = sessions
    BY <1>1, <1>6, <2>1 DEF Sessions!TimerErase, Sessions!TimerDrop, Timers
  <2> QED
    BY <1>1, <2>1, <2>2, <2>3 DEF ClockInv, TimerInv, InTime
<1>7. CASE Sessions!TimerEnd
  BY <1>1, <1>7 DEF Sessions!TimerEnd, Sessions!NoTimer, ClockInv, TimerInv
<1> QED
  BY <1>2, <1>3, <1>4, <1>5, <1>6, <1>7 DEF Sessions!Next, Sessions!Timer

(* However the threads use their handles while the timer runs, it keeps    *)
(* every session getSession returned in time, and leaves none that is out  *)
(* of time.                                                                *)
TimesScene == scene = "sessions" => StoreInv /\ ClockInv /\ TimerInv

THEOREM UsedSessionsAreKept == Spec => []RenewedInTimeIsKept
<1>1. Init => TimesScene
  <2>1. Sessions!Init => ClockInv /\ TimerInv
    BY DEF Sessions!Init, ClockInv, TimerInv, Sessions!Unborn, Sessions!NoTimer
  <2> QED
    BY <2>1, StoreBegins DEF Init, TimesScene
<1>2. TimesScene /\ [Next]_vars => TimesScene'
  BY StoreStep, TimesStep, SessionsSceneStep, SceneStays DEF TimesScene
<1>3. TimesScene => RenewedInTimeIsKept
  BY DEF TimesScene, TimerInv, InTime, RenewedInTimeIsKept, Sessions!RenewedInTimeIsKept
<1> QED
  BY <1>1, <1>2, <1>3, PTL DEF Spec
-------------------------------------------------------------------------------
(* Static files.  No answer is older than the cache may make it, although  *)
(* files are read and stored without the mutex in between.                 *)
ContentTypes == {Static!setContentType(f) : f \in Files} \cup {"unset"}

FileRequests ==
  {Static!Resting}
  \cup [at : {"look", "open"}, path : Paths, now : Nat]
  \cup [at : {"store"}, path : Paths, now : Nat, file : Files, version : Nat]
  \cup [at : {"answered"}, path : Paths, now : Nat, status : {200, 403, 404},
        file : Files, version : Nat, type : ContentTypes]

FileEntries == [filename : Files, version : Nat, created : Nat]

FileShape ==
  /\ now \in Nat
  /\ replaced \in [Files -> Seq(Nat)]
  /\ DOMAIN cache \subseteq Paths /\ \A p \in DOMAIN cache : cache[p] \in FileEntries
  /\ recent \in Seq(DOMAIN cache)
  /\ web \in [Threads -> FileRequests]

(* Version v of a file was its content at some time from `time' on, by the *)
(* list of its replacements.                                               *)
Fresh(list, v, time) ==
  v \in 1 .. Len(list) + 1 /\ (v = Len(list) + 1 \/ list[v] >= time)

(* What the cache holds was read after the time its entry has, and what a  *)
(* thread is about to store or has answered was read after the time it is  *)
(* judged by.                                                              *)
CopiesAreFresh ==
  \A p \in DOMAIN cache :
    /\ cache[p].filename = FileOf[p] /\ p \notin Outside
    /\ cache[p].created <= now
    /\ Fresh(replaced[FileOf[p]], cache[p].version, cache[p].created)

RequestIsFresh(r) ==
  /\ r \in FileRequests
  /\ r.at # "idle" => r.now <= now
  /\ r.at = "store" => /\ r.file = FileOf[r.path] /\ r.path \notin Outside
                       /\ Fresh(replaced[r.file], r.version, r.now)
  /\ r.at = "answered" /\ r.status = 200 =>
       /\ r.file = FileOf[r.path] /\ r.path \notin Outside
       /\ r.type = Static!setContentType(r.file)
       /\ cacheTimeout > 0 => Fresh(replaced[r.file], r.version, r.now - cacheTimeout)

RequestsAreFresh == \A t \in Threads : RequestIsFresh(web[t])

FilesInv == FileShape /\ CopiesAreFresh /\ RequestsAreFresh

(* What was fresh stays so when the file is replaced at a later time.      *)
LEMMA FreshStays ==
  ASSUME NEW list \in Seq(Nat), NEW v \in Nat, NEW time \in Int, NEW later \in Nat,
         time <= later, Fresh(list, v, time)
  PROVE  Fresh(Append(list, later), v, time)
<1>1. PICK n \in Nat : n = Len(list)
  OBVIOUS
<1>2. /\ Len(Append(list, later)) = n + 1
      /\ Append(list, later)[n + 1] = later
      /\ \A i \in 1 .. n : Append(list, later)[i] = list[i]
  BY <1>1
<1>3. v \in 1 .. n + 1 /\ (v = n + 1 \/ list[v] >= time)
  BY <1>1 DEF Fresh
<1>4. CASE v = n + 1
  BY <1>2, <1>4 DEF Fresh
<1>5. CASE v \in 1 .. n /\ list[v] >= time
  BY <1>2, <1>5 DEF Fresh
<1> QED
  BY <1>3, <1>4, <1>5

LEMMA FreshForEarlier ==
  ASSUME NEW list \in Seq(Nat), NEW v \in Nat, NEW time \in Int, NEW sooner \in Int,
         sooner <= time, Fresh(list, v, time)
  PROVE  Fresh(list, v, sooner)
<1>1. PICK n \in Nat : n = Len(list)
  OBVIOUS
<1>2. v \in 1 .. n + 1 /\ (v = n + 1 \/ list[v] >= time)
  BY <1>1 DEF Fresh
<1>3. v \in 1 .. n => list[v] \in Nat
  BY <1>1
<1> QED
  BY <1>1, <1>2, <1>3 DEF Fresh

LEMMA NewestIsFresh ==
  ASSUME NEW list \in Seq(Nat), NEW time
  PROVE  Fresh(list, Len(list) + 1, time) /\ Len(list) + 1 \in Nat
BY DEF Fresh

(* A set of numbers with a bound has a largest one.                        *)
LEMMA LargestExists ==
  ASSUME NEW n \in Nat, NEW S \in SUBSET (0 .. n), 0 \in S
  PROVE  \E x \in S : \A y \in S : x >= y
<1> DEFINE R == {n - k : k \in S}
<1>1. R \subseteq Nat /\ R # {}
  OBVIOUS
<1>2. PICK r \in R : \A q \in R : ~(<<q, r>> \in OpToRel(<, Nat))
  BY <1>1, NatLessThanWellFounded, WFMin
<1>3. \A q \in R : q < r <=> <<q, r>> \in OpToRel(<, Nat)
  BY <1>1 DEF OpToRel
<1>4. PICK x \in S : r = n - x
  OBVIOUS
<1>5. \A y \in S : x >= y
  <2>1. SUFFICES ASSUME NEW y \in S PROVE x >= y
    OBVIOUS
  <2>2. n - y \in R
    OBVIOUS
  <2>3. ~(n - y < r)
    BY <1>2, <1>3, <2>2
  <2>4. x \in 0 .. n /\ y \in 0 .. n
    BY <1>4
  <2> QED
    BY <1>4, <2>3, <2>4
<1> QED
  BY <1>5

(* What is left of the keys of a cache, whatever goes.                     *)
LEMMA FilesKept ==
  ASSUME NEW S, NEW s \in Seq(S), NEW size, NEW room
  PROVE  Static!Kept(s, size, room) \in Seq(S)
<1> DEFINE K == {k \in 0 .. Len(s) : k = 0 \/ Static!Cost(SubSeq(s, 1, k), size) <= room}
<1>1. Len(s) \in Nat /\ K \in SUBSET (0 .. Len(s)) /\ 0 \in K
  OBVIOUS
<1>2. Static!Kept(s, size, room) = SubSeq(s, 1, Static!Max(K))
  BY DEF Static!Kept
<1> HIDE DEF K
<1>3. PICK m \in 0 .. Len(s) : m = Static!Max(K)
  BY <1>1, LargestExists DEF Static!Max
<1>4. SubSeq(s, 1, m) \in Seq(S)
  OBVIOUS
<1> QED
  BY <1>2, <1>3, <1>4

LEMMA WithoutIsOld ==
  ASSUME NEW S, NEW s \in Seq(S), NEW p
  PROVE  Static!Without(s, p) \in Seq(S) /\ Templates!Without(s, p) \in Seq(S)
<1>1. CASE \E k \in DOMAIN s : s[k] = p
  <2>1. PICK k \in DOMAIN s : k = CHOOSE i \in DOMAIN s : s[i] = p
    BY <1>1
  <2>2. SubSeq(s, 1, k - 1) \in Seq(S) /\ SubSeq(s, k + 1, Len(s)) \in Seq(S)
    OBVIOUS
  <2> QED
    BY <1>1, <2>1, <2>2 DEF Static!Without, Templates!Without
<1>2. CASE ~\E k \in DOMAIN s : s[k] = p
  BY <1>2 DEF Static!Without, Templates!Without
<1> QED
  BY <1>1, <1>2

LEMMA LookedIsOld ==
  ASSUME NEW S, NEW s \in Seq(S), NEW p
  PROVE  Static!Looked(s, p) \in Seq(S) /\ Templates!Looked(s, p) \in Seq(S)
<1>1. Static!Without(s, p) \in Seq(S) /\ Templates!Without(s, p) \in Seq(S)
  BY WithoutIsOld
<1>2. CASE \E k \in DOMAIN s : s[k] = p
  <2>1. <<p>> \in Seq(S)
    BY <1>2
  <2> QED
    BY <1>1, <1>2, <2>1 DEF Static!Looked, Templates!Looked
<1>3. CASE ~\E k \in DOMAIN s : s[k] = p
  BY <1>3 DEF Static!Looked, Templates!Looked
<1> QED
  BY <1>2, <1>3

(* The keys after an insertion.                                            *)
LEMMA PutInFront ==
  ASSUME NEW S, NEW p, NEW s \in Seq(S)
  PROVE  <<p>> \o s \in Seq(S \cup {p}) /\ s \in Seq(S \cup {p})
<1>1. <<p>> \in Seq(S \cup {p}) /\ s \in Seq(S \cup {p})
  OBVIOUS
<1> QED
  BY <1>1

LEMMA SeqOfItsOwn ==
  ASSUME NEW S, NEW s \in Seq(S)
  PROVE  s \in Seq({s[k] : k \in DOMAIN s}) /\ {s[k] : k \in DOMAIN s} \subseteq S
OBVIOUS

LEMMA FileInserted ==
  ASSUME recent \in Seq(DOMAIN cache), NEW p, NEW e, Static!Insert(p, e)
  PROVE  /\ DOMAIN cache' \subseteq DOMAIN cache \cup {p}
         /\ \A q \in DOMAIN cache' : cache'[q] = IF q = p THEN e ELSE cache[q]
         /\ recent' \in Seq(DOMAIN cache')
<1> DEFINE D == DOMAIN cache
           after == [q \in D \cup {p} |-> IF q = p THEN e ELSE cache[q]]
           size == [q \in DOMAIN after |-> Size[after[q].filename]]
           old == Static!Without(recent, p)
           held == Static!Kept(old, size, maxFileCost - size[p])
<1>1. /\ recent' = IF size[p] <= maxFileCost THEN <<p>> \o held ELSE old
      /\ cache' = [q \in {recent'[k] : k \in DOMAIN recent'} |-> after[q]]
  BY DEF Static!Insert, Static!Inserted, Static!Range
<1>2. old \in Seq(D) /\ held \in Seq(D)
  BY WithoutIsOld, FilesKept
<1> HIDE DEF old, held, size
<1>3. recent' \in Seq(D \cup {p})
  BY <1>1, <1>2, PutInFront
<1>4. DOMAIN cache' = {recent'[k] : k \in DOMAIN recent'}
  BY <1>1
<1>5. recent' \in Seq(DOMAIN cache') /\ DOMAIN cache' \subseteq D \cup {p}
  BY <1>3, <1>4, SeqOfItsOwn
<1> QED
  BY <1>1, <1>4, <1>5

-------------------------------------------------------------------------------
(* The steps.  A request in the hands of one thread does not touch the     *)
(* others; the clock and a replacement leave fresh what was fresh.         *)
LEMMA OneFileRequest ==
  ASSUME FileShape, RequestsAreFresh, NEW t \in Threads, web' = [web EXCEPT ![t] = web'[t]],
         UNCHANGED <<now, replaced>>, RequestIsFresh(web[t])'
  PROVE  web' \in [Threads -> FileRequests] /\ RequestsAreFresh'
<1>1. web' \in [Threads -> FileRequests]
  <2>1. web'[t] \in FileRequests
    BY DEF RequestIsFresh
  <2> QED
    BY <2>1 DEF FileShape
<1>2. ASSUME NEW u \in Threads PROVE RequestIsFresh(web[u])'
  <2>1. CASE u = t
    BY <2>1
  <2>2. CASE u # t
    <3>1. web'[u] = web[u]
      BY <2>2 DEF FileShape
    <3>2. RequestIsFresh(web[u])
      BY DEF RequestsAreFresh
    <3> QED
      BY <3>1, <3>2 DEF RequestIsFresh
  <2> QED
    BY <2>1, <2>2
<1> QED
  BY <1>1, <1>2 DEF RequestsAreFresh

(* A step that leaves clock, files and entries alone.                      *)
LEMMA SameCopies ==
  ASSUME FileShape, CopiesAreFresh, UNCHANGED <<now, replaced, cache>>,
         recent' \in Seq(DOMAIN cache), web' \in [Threads -> FileRequests]
  PROVE  FileShape' /\ CopiesAreFresh'
BY DEF FileShape, CopiesAreFresh

LEMMA ServiceStep ==
  ASSUME FilesInv, NEW t \in Threads, NEW p \in Paths, Static!Service(t, p)
  PROVE  FilesInv'
<1>1. /\ web' = [web EXCEPT ![t] = web'[t]]
      /\ web'[t] = [at |-> "look", path |-> p, now |-> now]
      /\ UNCHANGED <<now, disk, replaced, cache, recent>>
  BY DEF FilesInv, FileShape, Static!Service
<1>2. RequestIsFresh(web[t])'
  BY <1>1 DEF FilesInv, FileShape, RequestIsFresh, FileRequests
<1> QED
  BY <1>1, <1>2, OneFileRequest, SameCopies DEF FilesInv, FileShape

LEMMA FinishedStep ==
  ASSUME FilesInv, NEW t \in Threads, Static!Finished(t)
  PROVE  FilesInv'
<1>1. /\ web' = [web EXCEPT ![t] = web'[t]] /\ web'[t] = Static!Resting
      /\ UNCHANGED <<now, disk, replaced, cache, recent>>
  BY DEF FilesInv, FileShape, Static!Finished
<1>2. RequestIsFresh(web[t])'
  BY <1>1 DEF RequestIsFresh, FileRequests, Static!Resting
<1> QED
  BY <1>1, <1>2, OneFileRequest, SameCopies DEF FilesInv, FileShape

LEMMA MissStep ==
  ASSUME FilesInv, NEW t \in Threads, Static!Miss(t)
  PROVE  FilesInv'
<1>1. web[t] \in FileRequests /\ web[t].at = "look" /\ RequestIsFresh(web[t])
  BY DEF FilesInv, FileShape, RequestsAreFresh, Static!Miss
<1>2. web[t] \in [at : {"look", "open"}, path : Paths, now : Nat]
  BY <1>1 DEF FileRequests, Static!Resting
<1>3. /\ web' = [web EXCEPT ![t] = web'[t]] /\ web'[t] = [web[t] EXCEPT !.at = "open"]
      /\ UNCHANGED <<now, disk, replaced, cache>> /\ recent' = Static!Looked(recent, web[t].path)
  BY DEF FilesInv, FileShape, Static!Miss
<1>4. /\ web'[t] \in [at : {"look", "open"}, path : Paths, now : Nat]
      /\ web'[t].at = "open" /\ web'[t].now = web[t].now
  BY <1>2, <1>3
<1>5. RequestIsFresh(web[t])'
  BY <1>1, <1>3, <1>4 DEF RequestIsFresh, FileRequests
<1>6. recent' \in Seq(DOMAIN cache)
  BY <1>3, LookedIsOld DEF FilesInv, FileShape
<1> QED
  BY <1>3, <1>5, <1>6, OneFileRequest, SameCopies DEF FilesInv

LEMMA HitStep ==
  ASSUME FilesInv, NEW t \in Threads, Static!Hit(t)
  PROVE  FilesInv'
<1> DEFINE r == web[t]
           e == cache[r.path]
<1>1. r \in [at : {"look", "open"}, path : Paths, now : Nat] /\ r.now <= now
  BY DEF FilesInv, FileShape, RequestsAreFresh, RequestIsFresh, Static!Hit, FileRequests,
     Static!Resting
<1>2. /\ web' = [web EXCEPT ![t] = web'[t]]
      /\ web'[t] = [at |-> "answered", path |-> r.path, now |-> r.now, status |-> 200,
                    file |-> e.filename, version |-> e.version,
                    type |-> Static!setContentType(e.filename)]
      /\ UNCHANGED <<now, disk, replaced, cache>> /\ recent' = Static!Looked(recent, r.path)
      /\ Static!InCache(t)
  BY DEF FilesInv, FileShape, Static!Hit, Static!Answer
<1>3. /\ r.path \in DOMAIN cache /\ e \in FileEntries
      /\ cacheTimeout > 0 => e.created > r.now - cacheTimeout
  BY <1>2 DEF Static!InCache, FilesInv, FileShape
<1>4. /\ e.filename = FileOf[r.path] /\ r.path \notin Outside
      /\ Fresh(replaced[e.filename], e.version, e.created)
  BY <1>3 DEF FilesInv, CopiesAreFresh
<1>5. /\ e.filename \in Files /\ e.version \in Nat /\ e.created \in Nat
      /\ replaced[e.filename] \in Seq(Nat)
      /\ r.now \in Nat /\ cacheTimeout \in Nat
  BY <1>1, <1>3, FilesAssumption DEF FileEntries, FilesInv, FileShape, FilesAssumption
<1> HIDE DEF r, e
<1>6. cacheTimeout > 0 => Fresh(replaced[e.filename], e.version, r.now - cacheTimeout)
  <2> SUFFICES ASSUME cacheTimeout > 0
               PROVE  Fresh(replaced[e.filename], e.version, r.now - cacheTimeout)
    OBVIOUS
  <2>1. r.now - cacheTimeout \in Int /\ e.created \in Int /\ r.now - cacheTimeout <= e.created
    BY <1>3, <1>5
  <2> QED
    BY <1>4, <1>5, <2>1, FreshForEarlier
<1>7. RequestIsFresh(web[t])'
  <2>1. web'[t] \in FileRequests
    <3>1. Static!setContentType(e.filename) \in ContentTypes /\ r.path \in Paths
      BY <1>1, <1>5 DEF ContentTypes
    <3> QED
      BY <1>2, <1>5, <3>1 DEF FileRequests
  <2> QED
    BY <1>1, <1>2, <1>4, <1>6, <2>1 DEF RequestIsFresh
<1>8. recent' \in Seq(DOMAIN cache)
  BY <1>2, LookedIsOld DEF FilesInv, FileShape
<1> QED
  BY <1>2, <1>7, <1>8, OneFileRequest, SameCopies DEF FilesInv

LEMMA OpenFileStep ==
  ASSUME FilesInv, NEW t \in Threads, Static!OpenFile(t)
  PROVE  FilesInv'
<1> DEFINE r == web[t]
           f == FileOf[r.path]
<1>1. r \in [at : {"look", "open"}, path : Paths, now : Nat] /\ r.now <= now
  BY DEF FilesInv, FileShape, RequestsAreFresh, RequestIsFresh, Static!OpenFile,
     FileRequests, Static!Resting
<1>2. f \in Files /\ replaced[f] \in Seq(Nat) /\ r.path \in Paths /\ r.now \in Nat
  BY <1>1, FilesAssumption DEF FilesAssumption, FilesInv, FileShape
<1>3. /\ web' = [web EXCEPT ![t] = web'[t]]
      /\ UNCHANGED <<now, disk, replaced, cache, recent>>
      /\ \/ /\ \E status \in {403, 404} :
                web'[t] = [at |-> "answered", path |-> r.path, now |-> r.now, status |-> status,
                           file |-> f, version |-> 0, type |-> "unset"]
         \/ /\ r.path \notin Outside
            /\ \/ web'[t] = [at |-> "store", path |-> r.path, now |-> r.now,
                              file |-> f, version |-> Static!Version(f)]
               \/ web'[t] = [at |-> "answered", path |-> r.path, now |-> r.now, status |-> 200,
                             file |-> f, version |-> Static!Version(f), type |-> Static!setContentType(f)]
  BY DEF FilesInv, FileShape, Static!OpenFile, Static!Answer, Static!Refuse
<1>4. \A time : Fresh(replaced[f], Static!Version(f), time) /\ Static!Version(f) \in Nat
  BY <1>2, NewestIsFresh DEF Static!Version
<1>5. Static!setContentType(f) \in ContentTypes /\ "unset" \in ContentTypes
  BY <1>2 DEF ContentTypes
<1> HIDE DEF r, f
<1>6. RequestIsFresh(web[t])'
  <2>1. ASSUME NEW status \in {403, 404},
               web'[t] = [at |-> "answered", path |-> r.path, now |-> r.now, status |-> status,
                          file |-> f, version |-> 0, type |-> "unset"]
        PROVE  RequestIsFresh(web[t])'
    BY <1>1, <1>2, <1>3, <1>5, <2>1 DEF RequestIsFresh, FileRequests
  <2>2. ASSUME r.path \notin Outside, f = FileOf[r.path],
               web'[t] = [at |-> "store", path |-> r.path, now |-> r.now,
                          file |-> f, version |-> Static!Version(f)]
        PROVE  RequestIsFresh(web[t])'
    BY <1>1, <1>2, <1>3, <1>4, <2>2 DEF RequestIsFresh, FileRequests
  <2>3. ASSUME r.path \notin Outside, f = FileOf[r.path],
               web'[t] = [at |-> "answered", path |-> r.path, now |-> r.now, status |-> 200,
                          file |-> f, version |-> Static!Version(f), type |-> Static!setContentType(f)]
        PROVE  RequestIsFresh(web[t])'
    BY <1>1, <1>2, <1>3, <1>4, <1>5, <2>3 DEF RequestIsFresh, FileRequests
  <2> QED
    BY <1>3, <2>1, <2>2, <2>3 DEF f
<1> QED
  BY <1>3, <1>6, OneFileRequest, SameCopies DEF FilesInv, FileShape

LEMMA StoreFileStep ==
  ASSUME FilesInv, NEW t \in Threads, Static!Store(t)
  PROVE  FilesInv'
<1> DEFINE r == web[t]
           e == [filename |-> r.file, version |-> r.version, created |-> r.now]
<1>1. /\ r \in [at : {"store"}, path : Paths, now : Nat, file : Files, version : Nat]
      /\ r.now <= now /\ r.file = FileOf[r.path] /\ r.path \notin Outside
      /\ Fresh(replaced[r.file], r.version, r.now)
  <2>1. r.at = "store" /\ r \in FileRequests /\ RequestIsFresh(r)
    BY DEF FilesInv, FileShape, RequestsAreFresh, Static!Store
  <2>2. r \in [at : {"store"}, path : Paths, now : Nat, file : Files, version : Nat]
    BY <2>1 DEF FileRequests, Static!Resting
  <2> QED
    BY <2>1, <2>2 DEF RequestIsFresh
<1>2. /\ web' = [web EXCEPT ![t] = web'[t]]
      /\ web'[t] = [at |-> "answered", path |-> r.path, now |-> r.now, status |-> 200,
                    file |-> r.file, version |-> r.version, type |-> Static!setContentType(r.file)]
      /\ UNCHANGED <<now, disk, replaced>> /\ Static!Insert(r.path, e)
  BY DEF FilesInv, FileShape, Static!Store, Static!Answer
<1>3. r.path \in Paths /\ r.file \in Files /\ r.version \in Nat /\ r.now \in Nat
      /\ replaced[r.file] \in Seq(Nat)
  BY <1>1 DEF FilesInv, FileShape
<1>4. /\ e \in FileEntries /\ e.filename = r.file /\ e.version = r.version /\ e.created = r.now
  BY <1>3 DEF FileEntries
<1>5. /\ DOMAIN cache' \subseteq DOMAIN cache \cup {r.path}
      /\ \A q \in DOMAIN cache' : cache'[q] = IF q = r.path THEN e ELSE cache[q]
      /\ recent' \in Seq(DOMAIN cache')
  BY <1>2, FileInserted DEF FilesInv, FileShape
<1> HIDE DEF r, e
<1>6. CopiesAreFresh'
  <2> SUFFICES ASSUME NEW p \in DOMAIN cache'
               PROVE  /\ cache'[p].filename = FileOf[p] /\ p \notin Outside
                      /\ cache'[p].created <= now
                      /\ Fresh(replaced[FileOf[p]], cache'[p].version, cache'[p].created)
    BY <1>2 DEF CopiesAreFresh
  <2>1. CASE p = r.path
    BY <1>1, <1>4, <1>5, <2>1
  <2>2. CASE p # r.path
    <3>1. p \in DOMAIN cache /\ cache'[p] = cache[p]
      BY <1>5, <2>2
    <3> QED
      BY <3>1 DEF FilesInv, CopiesAreFresh
  <2> QED
    BY <2>1, <2>2
<1>7. RequestIsFresh(web[t])'
  <2>1. web'[t] \in FileRequests
    <3>1. Static!setContentType(r.file) \in ContentTypes
      BY <1>3 DEF ContentTypes
    <3> QED
      BY <1>2, <1>3, <3>1 DEF FileRequests
  <2>2. Fresh(replaced[r.file], r.version, r.now - cacheTimeout)
    BY <1>1, <1>3, FreshForEarlier, FilesAssumption DEF FilesAssumption
  <2> QED
    BY <1>1, <1>2, <1>3, <2>1, <2>2 DEF RequestIsFresh
<1>8. FileShape'
  <2>1. DOMAIN cache' \subseteq Paths /\ \A p \in DOMAIN cache' : cache'[p] \in FileEntries
    BY <1>3, <1>4, <1>5 DEF FilesInv, FileShape
  <2>2. web' \in [Threads -> FileRequests]
    BY <1>2, <1>7, OneFileRequest DEF FilesInv
  <2> QED
    BY <1>2, <1>5, <2>1, <2>2 DEF FilesInv, FileShape
<1> QED
  BY <1>2, <1>6, <1>7, <1>8, OneFileRequest DEF FilesInv

LEMMA ReplaceFileStep ==
  ASSUME FilesInv, NEW g \in Files, NEW state, Static!Replace(g, state)
  PROVE  FilesInv'
<1>1. /\ replaced' = [replaced EXCEPT ![g] = Append(replaced[g], now)]
      /\ UNCHANGED <<now, cache, recent, web>>
      /\ now \in Nat /\ replaced \in [Files -> Seq(Nat)]
  BY DEF Static!Replace, FilesInv, FileShape
<1>2. /\ replaced' \in [Files -> Seq(Nat)]
      /\ \A f \in Files : replaced'[f] = IF f = g THEN Append(replaced[f], now)
                                                   ELSE replaced[f]
  BY <1>1
<1>3. ASSUME NEW f \in Files, NEW v \in Nat, NEW time \in Int, time <= now,
             Fresh(replaced[f], v, time)
      PROVE  Fresh(replaced'[f], v, time)
  <2>1. CASE f = g
    <3>1. Fresh(Append(replaced[f], now), v, time)
      BY <1>1, <1>3, FreshStays
    <3> QED
      BY <1>2, <2>1, <3>1
  <2>2. CASE f # g
    BY <1>2, <1>3, <2>2
  <2> QED
    BY <2>1, <2>2
<1>4. FileShape'
  BY <1>1, <1>2 DEF FilesInv, FileShape
<1>5. CopiesAreFresh'
  <2> SUFFICES ASSUME NEW p \in DOMAIN cache
               PROVE  /\ cache[p].filename = FileOf[p] /\ p \notin Outside
                      /\ cache[p].created <= now
                      /\ Fresh(replaced'[FileOf[p]], cache[p].version, cache[p].created)
    BY <1>1 DEF CopiesAreFresh
  <2>1. /\ cache[p].filename = FileOf[p] /\ p \notin Outside
        /\ cache[p].created <= now
        /\ Fresh(replaced[FileOf[p]], cache[p].version, cache[p].created)
    BY DEF FilesInv, CopiesAreFresh
  <2>2. FileOf[p] \in Files /\ cache[p].version \in Nat /\ cache[p].created \in Int
    BY FilesAssumption DEF FilesInv, FileShape, FileEntries, FilesAssumption
  <2> QED
    BY <1>3, <2>1, <2>2
<1>6. RequestsAreFresh'
  <2> SUFFICES ASSUME NEW t \in Threads PROVE RequestIsFresh(web[t])'
    BY DEF RequestsAreFresh
  <2> DEFINE r == web[t]
  <2>1. RequestIsFresh(r) /\ r \in FileRequests
    BY DEF FilesInv, RequestsAreFresh, RequestIsFresh
  <2>2. CASE r.at = "store"
    <3>1. r.file \in Files /\ r.version \in Nat /\ r.now \in Int
      BY <2>1, <2>2 DEF FileRequests, Static!Resting
    <3>2. Fresh(replaced'[r.file], r.version, r.now)
      BY <1>3, <2>1, <2>2, <3>1 DEF RequestIsFresh
    <3> QED
      BY <1>1, <2>1, <2>2, <3>2 DEF RequestIsFresh
  <2>3. CASE r.at = "answered"
    <3>1. r.file \in Files /\ r.version \in Nat /\ r.now \in Nat /\ cacheTimeout \in Nat
      BY <2>1, <2>3, FilesAssumption DEF FileRequests, Static!Resting, FilesAssumption
    <3>2. r.now - cacheTimeout \in Int /\ r.now - cacheTimeout <= now
      BY <1>1, <2>1, <2>3, <3>1 DEF RequestIsFresh
    <3>3. r.status = 200 /\ cacheTimeout > 0 =>
            Fresh(replaced'[r.file], r.version, r.now - cacheTimeout)
      BY <1>3, <2>1, <2>3, <3>1, <3>2 DEF RequestIsFresh
    <3> QED
      BY <1>1, <2>1, <2>3, <3>3 DEF RequestIsFresh
  <2>4. CASE r.at \notin {"store", "answered"}
    BY <1>1, <2>1, <2>4 DEF RequestIsFresh
  <2> QED
    BY <2>2, <2>3, <2>4
<1> QED
  BY <1>4, <1>5, <1>6 DEF FilesInv

LEMMA FileTickStep ==
  ASSUME FilesInv, Static!Tick
  PROVE  FilesInv'
<1>1. /\ now' = now + 1 /\ UNCHANGED <<disk, replaced, cache, recent, web>> /\ now \in Nat
  BY DEF Static!Tick, FilesInv, FileShape
<1>2. FileShape'
  BY <1>1 DEF FilesInv, FileShape
<1>3. CopiesAreFresh'
  <2>1. \A p \in DOMAIN cache : cache[p].created \in Nat
    BY DEF FilesInv, FileShape, FileEntries
  <2> QED
    BY <1>1, <2>1 DEF FilesInv, CopiesAreFresh
<1>4. RequestsAreFresh'
  <2> SUFFICES ASSUME NEW t \in Threads PROVE RequestIsFresh(web[t])'
    BY DEF RequestsAreFresh
  <2>1. RequestIsFresh(web[t]) /\ web[t] \in FileRequests
    BY DEF FilesInv, RequestsAreFresh, RequestIsFresh
  <2>2. web[t].at # "idle" => web[t].now \in Nat
    BY <2>1 DEF FileRequests, Static!Resting
  <2> QED
    BY <1>1, <2>1, <2>2 DEF RequestIsFresh
<1> QED
  BY <1>2, <1>3, <1>4 DEF FilesInv

(* A step of the controller keeps the invariant.                           *)
LEMMA FilesStep ==
  ASSUME FilesInv, [Static!Next]_(Static!vars)
  PROVE  FilesInv'
<1>1. ASSUME NEW t \in Threads, NEW p \in Paths, Static!Service(t, p) PROVE FilesInv'
  BY <1>1, ServiceStep
<1>2. ASSUME NEW t \in Threads,
             \/ Static!Hit(t) \/ Static!Miss(t) \/ Static!OpenFile(t)
             \/ Static!Store(t) \/ Static!Finished(t)
      PROVE  FilesInv'
  BY <1>2, HitStep, MissStep, OpenFileStep, StoreFileStep, FinishedStep
<1>3. ASSUME NEW f \in Files, Static!Replace(f, "readable") \/ Static!Replace(f, "missing")
      PROVE  FilesInv'
  BY <1>3, ReplaceFileStep
<1>4. CASE Static!Tick
  BY <1>4, FileTickStep
<1>5. CASE UNCHANGED Static!vars
  BY <1>5 DEF Static!vars, FilesInv, FileShape, CopiesAreFresh, RequestsAreFresh, RequestIsFresh
<1> QED
  BY <1>1, <1>2, <1>3, <1>4, <1>5 DEF Static!Next

LEMMA FilesBegin ==
  ASSUME Static!Init
  PROVE  FilesInv
<1>1. replaced \in [Files -> Seq(Nat)]
  BY DEF Static!Init
<1>2. DOMAIN cache = {} /\ recent \in Seq(DOMAIN cache)
  BY DEF Static!Init
<1>3. FileShape
  BY <1>1, <1>2 DEF Static!Init, FileShape, FileRequests
<1>4. RequestsAreFresh
  BY DEF Static!Init, RequestsAreFresh, RequestIsFresh, FileRequests, Static!Resting
<1> QED
  BY <1>2, <1>3, <1>4 DEF FilesInv, CopiesAreFresh

FilesScene == scene = "files" => FilesInv

LEMMA FilesSceneStep ==
  ASSUME [Next]_vars, scene = "files"
  PROVE  scene' = "files" /\ [Static!Next]_(Static!vars)
<1>1. CASE Next
  BY <1>1 DEF Next
<1>2. CASE UNCHANGED vars
  BY <1>2 DEF vars, sharedVars, Static!vars
<1> QED
  BY <1>1, <1>2

(* staticfilecontroller.cpp: however threads look up, read and store in    *)
(* parallel, whatever the cache drops and whoever replaces the files, an   *)
(* answer is the content its file had at some time since cacheTimeout      *)
(* before the request.                                                     *)
THEOREM ServedFilesAreFresh == Spec => []ServedIsFresh
<1>1. Init => FilesScene
  BY FilesBegin DEF Init, FilesScene
<1>2. FilesScene /\ [Next]_vars => FilesScene'
  BY FilesStep, FilesSceneStep, SceneStays DEF FilesScene
<1>3. FilesScene => ServedIsFresh
  BY DEF FilesScene, FilesInv, RequestsAreFresh, RequestIsFresh, ServedIsFresh,
         Static!ServedIsFresh, Fresh, Static!CurrentSince, Static!Version
<1> QED
  BY <1>1, <1>2, <1>3, PTL DEF Spec
-------------------------------------------------------------------------------
(* Templates.  Of the names a request tries, those it passed had no        *)
(* document lately, and the one it is given had the one it is given.       *)
Documents == [document : Nat, created : Nat]

TemplateRequests ==
  {Templates!Resting}
  \cup [at : {"next", "try", "copy", "dangling", "answered"}, asked : Nat,
        names : Seq(Templates!FileNames), k : Nat, now : Nat, document : Nat \cup {Freed}]

TemplateShape ==
  /\ now \in Nat
  /\ disk \in [Templates!FileNames -> Seq(Nat)] /\ replaced \in [Templates!FileNames -> Seq(Nat)]
  /\ \A f \in Templates!FileNames : Len(disk[f]) = Len(replaced[f]) + 1
  /\ DOMAIN cache \subseteq Templates!FileNames /\ \A f \in DOMAIN cache : cache[f] \in Documents
  /\ recent \in Seq(DOMAIN cache)
  /\ web \in [Threads -> TemplateRequests]

(* Document d was on the disk for the name at some time from `since' on.   *)
OnDisk(f, d, since) ==
  \E v \in Nat : Fresh(replaced[f], v, since) /\ disk[f][v] = d

DocumentsAreFresh ==
  \A f \in DOMAIN cache :
    cache[f].created <= now /\ OnDisk(f, cache[f].document, cache[f].created)

RequestIsBest(r) ==
  /\ r \in TemplateRequests
  /\ r.at # "idle" =>
       /\ r.k \in 1 .. Len(r.names) /\ r.asked <= r.now /\ r.now <= now
       /\ cacheTimeout > 0 =>
            \A j \in 1 .. r.k - 1 : OnDisk(r.names[j], 0, r.asked - cacheTimeout)
  /\ r.at = "copy" =>
       /\ r.names[r.k] \in DOMAIN cache
       /\ cacheTimeout > 0 => cache[r.names[r.k]].created >= r.asked - cacheTimeout
  /\ r.at = "answered" /\ r.document # Freed /\ cacheTimeout > 0 =>
       OnDisk(r.names[r.k], r.document, r.asked - cacheTimeout)

RequestsAreBest == \A t \in Threads : RequestIsBest(web[t])

TemplatesInv == TemplateShape /\ DocumentsAreFresh /\ RequestsAreBest

LEMMA OnDiskForEarlier ==
  ASSUME TemplateShape, NEW f \in Templates!FileNames, NEW d, NEW since \in Int, NEW sooner \in Int,
         sooner <= since, OnDisk(f, d, since)
  PROVE  OnDisk(f, d, sooner)
<1>1. PICK v \in Nat : Fresh(replaced[f], v, since) /\ disk[f][v] = d
  BY DEF OnDisk
<1>2. replaced[f] \in Seq(Nat)
  BY DEF TemplateShape
<1>3. Fresh(replaced[f], v, sooner)
  BY <1>1, <1>2, FreshForEarlier
<1> QED
  BY <1>1, <1>3 DEF OnDisk

LEMMA LastIsOnDisk ==
  ASSUME TemplateShape, NEW f \in Templates!FileNames, NEW since
  PROVE  OnDisk(f, Templates!Last(disk[f]), since) /\ Templates!Last(disk[f]) \in Nat
<1>1. /\ replaced[f] \in Seq(Nat) /\ disk[f] \in Seq(Nat) /\ Len(disk[f]) = Len(replaced[f]) + 1
  BY DEF TemplateShape
<1>2. Fresh(replaced[f], Len(disk[f]), since) /\ Len(disk[f]) \in Nat /\ Len(disk[f]) >= 1
  BY <1>1, NewestIsFresh
<1>3. Templates!Last(disk[f]) = disk[f][Len(disk[f])]
  BY DEF Templates!Last
<1> QED
  BY <1>1, <1>2, <1>3 DEF OnDisk

(* The names of a list are names, and there is one at least.               *)
LEMMA TriesAreNames ==
  ASSUME NEW l \in Languages
  PROVE  /\ Templates!Tries(Locales[l]) \in Seq(Templates!FileNames)
         /\ Len(Templates!Tries(Locales[l])) >= 1
<1> DEFINE locs == Locales[l]
           S == {locs[k] : k \in DOMAIN locs}
           langs == [k \in DOMAIN locs |-> <<locs[k][1], Default>>]
<1>1. locs \in Seq(S)
  BY TemplatesAssumption DEF TemplatesAssumption
<1>2. \A k \in DOMAIN locs : locs[k] \in Templates!FileNames /\ <<locs[k][1], Default>> \in Templates!FileNames
  <2> TAKE k \in DOMAIN locs
  <2>1. locs[k] \in UNION {Templates!Range(Locales[m]) : m \in Languages}
    BY DEF Templates!Range
  <2> HIDE DEF locs
  <2> QED
    BY <2>1 DEF Templates!FileNames
<1>3. <<Default, Default>> \in Templates!FileNames
  BY DEF Templates!FileNames
<1> HIDE DEF locs
<1>4. locs \in Seq(Templates!FileNames)
  <2>1. DOMAIN locs = 1 .. Len(locs) /\ Len(locs) \in Nat
        /\ locs = [k \in 1 .. Len(locs) |-> locs[k]]
    BY <1>1
  <2>2. locs \in [1 .. Len(locs) -> Templates!FileNames]
    BY <1>2, <2>1
  <2> QED
    BY <2>1, <2>2
<1>5. langs \in Seq(Templates!FileNames)
  <2>1. DOMAIN locs = 1 .. Len(locs) /\ Len(locs) \in Nat
    BY <1>4
  <2>2. langs \in [1 .. Len(locs) -> Templates!FileNames]
    BY <1>2, <2>1
  <2> QED
    BY <2>1, <2>2
<1> HIDE DEF langs
<1>6. locs \o langs \in Seq(Templates!FileNames)
  BY <1>4, <1>5
<1>7. Templates!Tries(locs) = Append(locs \o langs, <<Default, Default>>)
  BY DEF Templates!Tries, langs
<1> QED
  BY <1>3, <1>6, <1>7 DEF locs

LEMMA TemplatesKept ==
  ASSUME NEW S, NEW s \in Seq(S), NEW size, NEW room
  PROVE  Templates!Kept(s, size, room) \in Seq(S)
<1> DEFINE K == {k \in 0 .. Len(s) : k = 0 \/ Templates!Cost(SubSeq(s, 1, k), size) <= room}
<1>1. Len(s) \in Nat /\ K \in SUBSET (0 .. Len(s)) /\ 0 \in K
  OBVIOUS
<1>2. Templates!Kept(s, size, room) = SubSeq(s, 1, Templates!Max(K))
  BY DEF Templates!Kept
<1> HIDE DEF K
<1>3. PICK m \in 0 .. Len(s) : m = Templates!Max(K)
  BY <1>1, LargestExists DEF Templates!Max
<1>4. SubSeq(s, 1, m) \in Seq(S)
  OBVIOUS
<1> QED
  BY <1>2, <1>3, <1>4
-------------------------------------------------------------------------------
(* A request in the hands of one thread does not touch the others.         *)
LEMMA OneTemplateRequest ==
  ASSUME TemplatesInv, NEW t \in Threads, web' = [web EXCEPT ![t] = web'[t]],
         UNCHANGED <<now, disk, replaced, cache>>, recent' \in Seq(DOMAIN cache),
         RequestIsBest(web[t])'
  PROVE  TemplatesInv'
<1>1. web' \in [Threads -> TemplateRequests]
  <2>1. web'[t] \in TemplateRequests
    BY DEF RequestIsBest
  <2> QED
    BY <2>1 DEF TemplatesInv, TemplateShape
<1>2. ASSUME NEW u \in Threads PROVE RequestIsBest(web[u])'
  <2>1. CASE u = t
    BY <2>1
  <2>2. CASE u # t
    <3>1. web'[u] = web[u]
      BY <2>2 DEF TemplatesInv, TemplateShape
    <3>2. RequestIsBest(web[u])
      BY DEF TemplatesInv, RequestsAreBest
    <3> QED
      BY <3>1, <3>2 DEF RequestIsBest, OnDisk
  <2> QED
    BY <2>1, <2>2
<1>3. TemplateShape'
  BY <1>1 DEF TemplatesInv, TemplateShape
<1>4. DocumentsAreFresh'
  BY DEF TemplatesInv, DocumentsAreFresh, OnDisk
<1> QED
  BY <1>2, <1>3, <1>4 DEF TemplatesInv, RequestsAreBest

LEMMA GetTemplateStep ==
  ASSUME TemplatesInv, NEW t \in Threads, NEW l \in Languages, Templates!GetTemplate(t, l)
  PROVE  TemplatesInv'
<1> DEFINE names == Templates!Tries(Locales[l])
<1>1. names \in Seq(Templates!FileNames) /\ Len(names) >= 1 /\ Len(names) \in Nat
  BY TriesAreNames
<1> HIDE DEF names
<1>2. /\ web' = [web EXCEPT ![t] = web'[t]]
      /\ web'[t] = [at |-> "next", asked |-> now, names |-> names, k |-> 1, now |-> now,
                    document |-> 0]
      /\ UNCHANGED <<now, disk, replaced, cache, recent>> /\ now \in Nat
      /\ recent \in Seq(DOMAIN cache)
  BY DEF Templates!GetTemplate, TemplatesInv, TemplateShape, names
<1>3. web'[t] \in TemplateRequests
  BY <1>1, <1>2 DEF TemplateRequests
<1>4. RequestIsBest(web[t])'
  BY <1>1, <1>2, <1>3 DEF RequestIsBest
<1> QED
  BY <1>2, <1>4, OneTemplateRequest

(* What the invariant says of a request under way.                         *)
LEMMA UnderWay ==
  ASSUME TemplatesInv, NEW t \in Threads, web[t].at # "idle"
  PROVE  /\ web[t] \in [at : {"next", "try", "copy", "dangling", "answered"}, asked : Nat,
                        names : Seq(Templates!FileNames), k : Nat, now : Nat,
                        document : Nat \cup {Freed}]
         /\ web[t].k \in 1 .. Len(web[t].names) /\ web[t].asked <= web[t].now
         /\ web[t].now <= now /\ now \in Nat /\ Len(web[t].names) \in Nat
         /\ Templates!Name(t) = web[t].names[web[t].k] /\ Templates!Name(t) \in Templates!FileNames
         /\ cacheTimeout \in Nat /\ recent \in Seq(DOMAIN cache)
         /\ RequestIsBest(web[t])
<1>1. RequestIsBest(web[t])
  BY DEF TemplatesInv, RequestsAreBest
<1>2. web[t] \in [at : {"next", "try", "copy", "dangling", "answered"}, asked : Nat,
                  names : Seq(Templates!FileNames), k : Nat, now : Nat, document : Nat \cup {Freed}]
  BY <1>1 DEF RequestIsBest, TemplateRequests, Templates!Resting
<1>3. web[t].k \in 1 .. Len(web[t].names) /\ Len(web[t].names) \in Nat
  BY <1>1, <1>2 DEF RequestIsBest
<1>4. web[t].names[web[t].k] \in Templates!FileNames
  BY <1>2, <1>3
<1> QED
  BY <1>1, <1>2, <1>3, <1>4, FilesAssumption
     DEF RequestIsBest, Templates!Name, TemplatesInv, TemplateShape, FilesAssumption

LEMMA SkipStep ==
  ASSUME TemplatesInv, NEW t \in Threads, Templates!Skip(t)
  PROVE  TemplatesInv'
<1> DEFINE r == web[t]
<1>1. /\ r.at = "next" /\ web' = [web EXCEPT ![t] = web'[t]]
      /\ web'[t] = [r EXCEPT !.k = r.k + 1]
      /\ UNCHANGED <<now, disk, replaced, cache, recent>>
      /\ r.k < Len(r.names) /\ \E j \in 1 .. r.k - 1 : r.names[j] = r.names[r.k]
  BY UnderWay DEF Templates!Skip, Templates!Tried, TemplatesInv, TemplateShape
<1>2. /\ r \in [at : {"next", "try", "copy", "dangling", "answered"}, asked : Nat,
                names : Seq(Templates!FileNames), k : Nat, now : Nat, document : Nat \cup {Freed}]
      /\ r.k \in 1 .. Len(r.names) /\ Len(r.names) \in Nat /\ RequestIsBest(r)
      /\ recent \in Seq(DOMAIN cache)
  BY <1>1, UnderWay
<1> HIDE DEF r
<1>3. /\ web'[t] \in TemplateRequests /\ web'[t].k = r.k + 1 /\ web'[t].names = r.names
      /\ web'[t].asked = r.asked /\ web'[t].now = r.now /\ web'[t].at = "next"
  <2>1. PICK k \in Nat : k = r.k + 1
    BY <1>2
  <2>2. web'[t] = [r EXCEPT !.k = k]
    BY <1>1, <2>1
  <2> QED
    BY <1>1, <1>2, <2>1, <2>2 DEF TemplateRequests
<1>4. cacheTimeout > 0 => \A j \in 1 .. (r.k + 1) - 1 : OnDisk(r.names[j], 0, r.asked - cacheTimeout)
  BY <1>1, <1>2 DEF RequestIsBest
<1>5. RequestIsBest(web[t])'
  BY <1>1, <1>2, <1>3, <1>4 DEF RequestIsBest, OnDisk
<1> QED
  BY <1>1, <1>2, <1>5, OneTemplateRequest

LEMMA TryFileStep ==
  ASSUME TemplatesInv, NEW t \in Threads, Templates!TryFile(t)
  PROVE  TemplatesInv'
<1> DEFINE r == web[t]
<1>1. /\ r.at = "next" /\ web' = [web EXCEPT ![t] = web'[t]]
      /\ web'[t] = [r EXCEPT !.at = "try", !.now = now]
      /\ UNCHANGED <<now, disk, replaced, cache, recent>>
  BY DEF Templates!TryFile, TemplatesInv, TemplateShape
<1>2. /\ r \in [at : {"next", "try", "copy", "dangling", "answered"}, asked : Nat,
                names : Seq(Templates!FileNames), k : Nat, now : Nat, document : Nat \cup {Freed}]
      /\ r.k \in 1 .. Len(r.names) /\ RequestIsBest(r) /\ now \in Nat /\ r.asked <= r.now
      /\ r.now <= now /\ recent \in Seq(DOMAIN cache)
  BY <1>1, UnderWay
<1> HIDE DEF r
<1>3. /\ web'[t] \in TemplateRequests /\ web'[t].k = r.k /\ web'[t].names = r.names
      /\ web'[t].asked = r.asked /\ web'[t].now = now /\ web'[t].at = "try"
  BY <1>1, <1>2 DEF TemplateRequests
<1>4. RequestIsBest(web[t])'
  BY <1>1, <1>2, <1>3 DEF RequestIsBest, OnDisk
<1> QED
  BY <1>1, <1>2, <1>4, OneTemplateRequest

LEMMA CachedStep ==
  ASSUME TemplatesInv, NEW t \in Threads, Templates!Cached(t)
  PROVE  TemplatesInv'
<1> DEFINE r == web[t]
           f == r.names[r.k]
<1>1. /\ r.at = "try" /\ web' = [web EXCEPT ![t] = web'[t]]
      /\ web'[t] = [r EXCEPT !.at = "copy"]
      /\ UNCHANGED <<now, disk, replaced, cache>>
      /\ recent' = Templates!Looked(recent, Templates!Name(t))
      /\ f \in DOMAIN cache
      /\ cacheTimeout = 0 \/ cache[f].created > r.now - cacheTimeout
  BY UnderWay DEF Templates!Cached, Templates!Young, TemplatesInv, TemplateShape
<1>2. /\ r \in [at : {"next", "try", "copy", "dangling", "answered"}, asked : Nat,
                names : Seq(Templates!FileNames), k : Nat, now : Nat, document : Nat \cup {Freed}]
      /\ r.k \in 1 .. Len(r.names) /\ RequestIsBest(r) /\ now \in Nat /\ r.asked <= r.now
      /\ r.now <= now /\ recent \in Seq(DOMAIN cache) /\ cacheTimeout \in Nat
  BY <1>1, UnderWay
<1>3. cache[f].created \in Nat
  BY <1>1 DEF TemplatesInv, TemplateShape, Documents
<1> HIDE DEF r
<1>4. /\ web'[t] \in TemplateRequests /\ web'[t].k = r.k /\ web'[t].names = r.names
      /\ web'[t].asked = r.asked /\ web'[t].now = r.now /\ web'[t].at = "copy"
  BY <1>1, <1>2 DEF TemplateRequests
<1>5. cacheTimeout > 0 => cache[f].created >= r.asked - cacheTimeout
  BY <1>1, <1>2, <1>3
<1>6. RequestIsBest(web[t])'
  BY <1>1, <1>2, <1>4, <1>5 DEF RequestIsBest, OnDisk
<1>7. recent' \in Seq(DOMAIN cache)
  BY <1>1, <1>2, LookedIsOld
<1> QED
  BY <1>1, <1>6, <1>7, OneTemplateRequest

LEMMA CopyStep ==
  ASSUME TemplatesInv, NEW t \in Threads, Templates!CopyDocument(t)
  PROVE  TemplatesInv'
<1> DEFINE r == web[t]
           f == r.names[r.k]
           document == IF r.at = "copy" THEN cache[f].document ELSE Freed
<1>1. /\ r.at \in {"copy", "dangling"} /\ web' = [web EXCEPT ![t] = web'[t]]
      /\ UNCHANGED <<now, disk, replaced, cache, recent>>
      /\ web'[t] = IF document = 0 /\ r.k < Len(r.names)
                   THEN [r EXCEPT !.at = "next", !.k = r.k + 1]
                   ELSE [r EXCEPT !.at = "answered", !.document = document]
  <2>1. r.at \in {"copy", "dangling"} /\ Templates!Name(t) = f /\ web \in [Threads -> TemplateRequests]
    BY UnderWay DEF Templates!CopyDocument, TemplatesInv, TemplateShape
  <2> QED
    BY <2>1 DEF Templates!CopyDocument
<1>2. /\ r \in [at : {"next", "try", "copy", "dangling", "answered"}, asked : Nat,
                names : Seq(Templates!FileNames), k : Nat, now : Nat, document : Nat \cup {Freed}]
      /\ r.k \in 1 .. Len(r.names) /\ RequestIsBest(r) /\ now \in Nat /\ r.asked <= r.now
      /\ r.now <= now /\ recent \in Seq(DOMAIN cache) /\ cacheTimeout \in Nat
      /\ Len(r.names) \in Nat /\ f \in Templates!FileNames
  BY <1>1, UnderWay
<1>3. r.at = "copy" => /\ f \in DOMAIN cache
                       /\ cacheTimeout > 0 => cache[f].created >= r.asked - cacheTimeout
  BY <1>2 DEF RequestIsBest
<1> HIDE DEF r, f
<1>4. /\ document \in Nat \cup {Freed}
      /\ document # Freed => r.at = "copy"
  BY <1>3 DEF TemplatesInv, TemplateShape, Documents
<1>5. document # Freed /\ cacheTimeout > 0 => OnDisk(f, document, r.asked - cacheTimeout)
  <2> SUFFICES ASSUME document # Freed, cacheTimeout > 0
               PROVE  OnDisk(f, document, r.asked - cacheTimeout)
    OBVIOUS
  <2>1. r.at = "copy" /\ document = cache[f].document /\ f \in DOMAIN cache
    BY <1>3, <1>4
  <2>2. cache[f].created \in Nat /\ OnDisk(f, document, cache[f].created)
    BY <2>1 DEF TemplatesInv, TemplateShape, Documents, DocumentsAreFresh
  <2>3. r.asked - cacheTimeout \in Int /\ r.asked - cacheTimeout <= cache[f].created
    BY <1>2, <1>3, <2>1
  <2> HIDE DEF document
  <2> QED
    BY <1>2, <2>2, <2>3, OnDiskForEarlier DEF TemplatesInv
<1>6. 0 # Freed
  BY TemplatesAssumption DEF TemplatesAssumption
<1> HIDE DEF document
<1>7. CASE document = 0 /\ r.k < Len(r.names)
  <2>1. /\ web'[t] \in TemplateRequests /\ web'[t].k = r.k + 1 /\ web'[t].names = r.names
        /\ web'[t].asked = r.asked /\ web'[t].now = r.now /\ web'[t].at = "next"
    <3>1. PICK k \in Nat : k = r.k + 1
      BY <1>2
    <3>2. web'[t] = [r EXCEPT !.at = "next", !.k = k]
      BY <1>1, <1>7, <3>1
    <3> QED
      BY <1>2, <3>1, <3>2 DEF TemplateRequests
  <2>2. cacheTimeout > 0 => \A j \in 1 .. (r.k + 1) - 1 : OnDisk(r.names[j], 0, r.asked - cacheTimeout)
    <3> SUFFICES ASSUME cacheTimeout > 0, NEW j \in 1 .. (r.k + 1) - 1
                 PROVE  OnDisk(r.names[j], 0, r.asked - cacheTimeout)
      OBVIOUS
    <3>1. r.k \in Nat /\ (j \in 1 .. r.k - 1 \/ j = r.k)
      BY <1>2
    <3>2. CASE j \in 1 .. r.k - 1
      BY <1>2, <3>2 DEF RequestIsBest
    <3>3. CASE j = r.k
      BY <1>5, <1>6, <1>7, <3>3 DEF f
    <3> QED
      BY <3>1, <3>2, <3>3
  <2>3. RequestIsBest(web[t])'
    BY <1>1, <1>2, <1>7, <2>1, <2>2 DEF RequestIsBest, OnDisk
  <2> QED
    BY <1>1, <1>2, <2>3, OneTemplateRequest
<1>8. CASE ~(document = 0 /\ r.k < Len(r.names))
  <2>1. /\ web'[t] \in TemplateRequests /\ web'[t].k = r.k /\ web'[t].names = r.names
        /\ web'[t].asked = r.asked /\ web'[t].now = r.now /\ web'[t].at = "answered"
        /\ web'[t].document = document
    <3>1. web'[t] = [r EXCEPT !.at = "answered", !.document = document]
      BY <1>1, <1>8
    <3>2. document \in Nat \cup {Freed}
      BY <1>4
    <3> QED
      BY <1>2, <3>1, <3>2 DEF TemplateRequests
  <2>2. RequestIsBest(web[t])'
    BY <1>1, <1>2, <1>5, <2>1 DEF RequestIsBest, OnDisk, f
  <2> QED
    BY <1>1, <1>2, <2>2, OneTemplateRequest
<1> QED
  BY <1>7, <1>8

LEMMA RenderedStep ==
  ASSUME TemplatesInv, NEW t \in Threads, Templates!Rendered(t)
  PROVE  TemplatesInv'
<1>1. /\ web' = [web EXCEPT ![t] = web'[t]] /\ web'[t] = Templates!Resting
      /\ UNCHANGED <<now, disk, replaced, cache, recent>> /\ recent \in Seq(DOMAIN cache)
  BY DEF TemplatesInv, TemplateShape, Templates!Rendered
<1>2. RequestIsBest(web[t])'
  BY <1>1 DEF RequestIsBest, TemplateRequests, Templates!Resting
<1> QED
  BY <1>1, <1>2, OneTemplateRequest

LEMMA TemplateInserted ==
  ASSUME recent \in Seq(DOMAIN cache), NEW f, NEW size,
         recent' = Templates!Inserted(recent, f, size, maxTemplateCost),
         DOMAIN cache' = Templates!Range(recent')
  PROVE  /\ DOMAIN cache' \subseteq DOMAIN cache \cup {f}
         /\ recent' \in Seq(DOMAIN cache')
<1> DEFINE D == DOMAIN cache
           old == Templates!Without(recent, f)
           held == Templates!Kept(old, size, maxTemplateCost - size[f])
<1>1. /\ recent' = IF size[f] <= maxTemplateCost THEN <<f>> \o held ELSE old
      /\ DOMAIN cache' = {recent'[k] : k \in DOMAIN recent'}
  BY DEF Templates!Inserted, Templates!Range
<1>2. old \in Seq(D) /\ held \in Seq(D)
  BY WithoutIsOld, TemplatesKept
<1> HIDE DEF old, held
<1>3. recent' \in Seq(D \cup {f})
  BY <1>1, <1>2, PutInFront
<1>4. DOMAIN cache' = {recent'[k] : k \in DOMAIN recent'}
  BY <1>1
<1> HIDE DEF D
<1>5. /\ recent' \in Seq({recent'[k] : k \in DOMAIN recent'})
      /\ {recent'[k] : k \in DOMAIN recent'} \subseteq D \cup {f}
  BY <1>3, SeqOfItsOwn
<1> QED
  BY <1>4, <1>5 DEF D

(* Load is the one step that touches other requests: a copy that was about *)
(* to be made of an entry that goes is dangling from then on.              *)
LEMMA LoadStep ==
  ASSUME TemplatesInv, NEW t \in Threads, Templates!Load(t)
  PROVE  TemplatesInv'
<1> DEFINE r == web[t]
           f == Templates!Name(t)
           e == [document |-> Templates!Last(disk[f]), created |-> r.now]
<1>1. /\ r.at = "try" /\ r.names[r.k] = f
      /\ r \in [at : {"next", "try", "copy", "dangling", "answered"}, asked : Nat,
                names : Seq(Templates!FileNames), k : Nat, now : Nat, document : Nat \cup {Freed}]
      /\ r.k \in 1 .. Len(r.names) /\ RequestIsBest(r) /\ now \in Nat /\ r.asked <= r.now
      /\ r.now <= now /\ recent \in Seq(DOMAIN cache) /\ cacheTimeout \in Nat
      /\ Len(r.names) \in Nat /\ f \in Templates!FileNames
  <2>1. r.at = "try"
    BY DEF Templates!Load
  <2> QED
    BY <2>1, UnderWay
<1>2. /\ OnDisk(f, e.document, e.created) /\ e.document \in Nat /\ e.created = r.now
      /\ e \in Documents
  BY <1>1, LastIsOnDisk DEF TemplatesInv, Documents
<1>3. /\ DOMAIN cache' \subseteq DOMAIN cache \cup {f}
      /\ \A g \in DOMAIN cache' : cache'[g] = IF g = f THEN e ELSE cache[g]
      /\ recent' \in Seq(DOMAIN cache')
  <2> DEFINE after == [g \in DOMAIN cache \cup {f} |-> IF g = f THEN e ELSE cache[g]]
             size == [g \in DOMAIN after |-> after[g].document]
  <2>1. /\ recent' = Templates!Inserted(recent, f, size, maxTemplateCost)
        /\ cache' = [g \in Templates!Range(recent') |-> after[g]]
    BY DEF Templates!Load
  <2>2. /\ DOMAIN cache' = Templates!Range(recent')
        /\ \A g \in DOMAIN cache' : cache'[g] = after[g]
    BY <2>1
  <2>3. \A g \in DOMAIN cache \cup {f} : after[g] = IF g = f THEN e ELSE cache[g]
    OBVIOUS
  <2> HIDE DEF after, size, e, f
  <2>4. DOMAIN cache' \subseteq DOMAIN cache \cup {f} /\ recent' \in Seq(DOMAIN cache')
    BY <1>1, <2>1, <2>2, TemplateInserted
  <2> QED
    BY <2>2, <2>3, <2>4
<1>4. /\ UNCHANGED <<now, disk, replaced>>
      /\ web' = [u \in Threads |->
                   IF u = t
                   THEN [r EXCEPT !.at = IF f \in DOMAIN cache' THEN "copy" ELSE "dangling"]
                   ELSE IF web[u].at = "copy"
                           /\ (Templates!Name(u) = f \/ Templates!Name(u) \notin DOMAIN cache')
                        THEN [web[u] EXCEPT !.at = "dangling"] ELSE web[u]]
  BY <1>1 DEF Templates!Load
<1> HIDE DEF r, f, e
<1>5. RequestIsBest(web[t])'
  <2>1. PICK at \in {"copy", "dangling"} : /\ web'[t] = [r EXCEPT !.at = at]
                                           /\ at = "copy" => f \in DOMAIN cache'
    BY <1>4
  <2>2. /\ web'[t] \in TemplateRequests /\ web'[t].at = at /\ web'[t].k = r.k
        /\ web'[t].names = r.names /\ web'[t].asked = r.asked /\ web'[t].now = r.now
    BY <1>1, <2>1 DEF TemplateRequests
  <2>3. at = "copy" => f \in DOMAIN cache' /\ cache'[f].created >= r.asked - cacheTimeout
    <3>1. r.now >= r.asked - cacheTimeout
      BY <1>1
    <3> QED
      BY <1>2, <1>3, <2>1, <3>1
  <2> QED
    BY <1>1, <1>4, <2>2, <2>3 DEF RequestIsBest, OnDisk
<1>6. ASSUME NEW u \in Threads \ {t} PROVE RequestIsBest(web[u])'
  <2> DEFINE q == web[u]
  <2>1. RequestIsBest(q) /\ q \in TemplateRequests
    BY DEF TemplatesInv, RequestsAreBest, RequestIsBest
  <2>2. CASE q.at = "copy" /\ (q.names[q.k] = f \/ q.names[q.k] \notin DOMAIN cache')
    <3>1. /\ q \in [at : {"next", "try", "copy", "dangling", "answered"}, asked : Nat,
                    names : Seq(Templates!FileNames), k : Nat, now : Nat,
                    document : Nat \cup {Freed}]
          /\ web'[u] = [q EXCEPT !.at = "dangling"]
      BY <1>4, <2>2, UnderWay DEF Templates!Name
    <3> HIDE DEF q
    <3>2. /\ web'[u] \in TemplateRequests /\ web'[u].k = q.k /\ web'[u].at = "dangling"
          /\ web'[u].names = q.names /\ web'[u].asked = q.asked /\ web'[u].now = q.now
      BY <3>1 DEF TemplateRequests
    <3> QED
      BY <1>4, <2>1, <2>2, <3>2 DEF RequestIsBest, OnDisk
  <2>3. CASE ~(q.at = "copy" /\ (q.names[q.k] = f \/ q.names[q.k] \notin DOMAIN cache'))
    <3>1. web'[u] = q
      BY <1>4, <2>3 DEF Templates!Name
    <3>2. q.at = "copy" => /\ q.names[q.k] \in DOMAIN cache'
                           /\ cache'[q.names[q.k]] = cache[q.names[q.k]]
      BY <1>3, <2>3
    <3> HIDE DEF q
    <3> QED
      BY <1>4, <2>1, <3>1, <3>2, ZenonT(40) DEF RequestIsBest, OnDisk
  <2> QED
    BY <2>2, <2>3
<1>7. RequestsAreBest'
  BY <1>5, <1>6 DEF RequestsAreBest
<1>8. TemplateShape'
  <2>1. \A u \in Threads : web'[u] \in TemplateRequests
    BY <1>7 DEF RequestsAreBest, RequestIsBest
  <2>2. web' \in [Threads -> TemplateRequests]
    BY <1>4, <2>1
  <2>3. /\ DOMAIN cache' \subseteq Templates!FileNames
        /\ \A g \in DOMAIN cache' : cache'[g] \in Documents
    BY <1>1, <1>2, <1>3 DEF TemplatesInv, TemplateShape
  <2> QED
    BY <1>3, <1>4, <2>2, <2>3 DEF TemplatesInv, TemplateShape
<1>9. DocumentsAreFresh'
  <2> SUFFICES ASSUME NEW g \in DOMAIN cache'
               PROVE  cache'[g].created <= now /\ OnDisk(g, cache'[g].document, cache'[g].created)
    BY <1>4 DEF DocumentsAreFresh, OnDisk
  <2>1. CASE g = f
    BY <1>1, <1>2, <1>3, <2>1
  <2>2. CASE g # f
    <3>1. g \in DOMAIN cache /\ cache'[g] = cache[g]
      BY <1>3, <2>2
    <3> QED
      BY <3>1 DEF TemplatesInv, DocumentsAreFresh
  <2> QED
    BY <2>1, <2>2
<1> QED
  BY <1>7, <1>8, <1>9 DEF TemplatesInv

(* The files and the clock.                                                *)
LEMMA ReplaceTemplateStep ==
  ASSUME TemplatesInv, NEW f \in Templates!FileNames, NEW document \in Nat,
         Templates!Replace(f, document)
  PROVE  TemplatesInv'
<1>1. /\ disk' = [disk EXCEPT ![f] = Append(disk[f], document)]
      /\ replaced' = [replaced EXCEPT ![f] = Append(replaced[f], now)]
      /\ UNCHANGED <<now, cache, recent, web>> /\ now \in Nat
      /\ disk \in [Templates!FileNames -> Seq(Nat)] /\ replaced \in [Templates!FileNames -> Seq(Nat)]
  BY DEF Templates!Replace, TemplatesInv, TemplateShape
<1>2. /\ disk' \in [Templates!FileNames -> Seq(Nat)] /\ replaced' \in [Templates!FileNames -> Seq(Nat)]
      /\ \A g \in Templates!FileNames \ {f} : disk'[g] = disk[g] /\ replaced'[g] = replaced[g]
      /\ disk'[f] = Append(disk[f], document) /\ replaced'[f] = Append(replaced[f], now)
      /\ Len(disk[f]) = Len(replaced[f]) + 1
  BY <1>1 DEF TemplatesInv, TemplateShape
<1>3. \A g \in Templates!FileNames : Len(disk'[g]) = Len(replaced'[g]) + 1
  <2> SUFFICES ASSUME NEW g \in Templates!FileNames PROVE Len(disk'[g]) = Len(replaced'[g]) + 1
    OBVIOUS
  <2>1. CASE g = f
    BY <1>1, <1>2, <2>1
  <2>2. CASE g # f
    BY <1>2, <2>2 DEF TemplatesInv, TemplateShape
  <2> QED
    BY <2>1, <2>2
<1>4. TemplateShape'
  BY <1>1, <1>2, <1>3 DEF TemplatesInv, TemplateShape
<1>5. ASSUME NEW g \in Templates!FileNames, NEW d, NEW since \in Int, since <= now, OnDisk(g, d, since)
      PROVE  OnDisk(g, d, since)'
  <2>1. PICK v \in Nat : Fresh(replaced[g], v, since) /\ disk[g][v] = d
    BY <1>5 DEF OnDisk
  <2>2. CASE g = f
    <3>1. Fresh(replaced'[f], v, since)
      BY <1>1, <1>2, <1>5, <2>1, <2>2, FreshStays
    <3>2. v \in 1 .. Len(disk[f])
      BY <1>2, <2>1, <2>2 DEF Fresh
    <3>3. disk'[f][v] = d
      BY <1>1, <1>2, <2>1, <2>2, <3>2
    <3> QED
      BY <2>2, <3>1, <3>3 DEF OnDisk
  <2>3. CASE g # f
    BY <1>2, <2>1, <2>3 DEF OnDisk
  <2> QED
    BY <2>2, <2>3
<1>6. DocumentsAreFresh'
  <2> SUFFICES ASSUME NEW g \in DOMAIN cache
               PROVE  cache[g].created <= now /\ OnDisk(g, cache[g].document, cache[g].created)'
    BY <1>1 DEF DocumentsAreFresh, OnDisk
  <2>1. /\ cache[g].created <= now /\ OnDisk(g, cache[g].document, cache[g].created)
        /\ g \in Templates!FileNames /\ cache[g].created \in Int
    BY DEF TemplatesInv, TemplateShape, DocumentsAreFresh, Documents
  <2>2. OnDisk(g, cache[g].document, cache[g].created)'
    <3>1. PICK d, since : d = cache[g].document /\ since = cache[g].created
      OBVIOUS
    <3>2. OnDisk(g, d, since)'
      BY <1>5, <2>1, <3>1
    <3> QED
      BY <1>1, <3>1, <3>2
  <2> QED
    BY <2>1, <2>2
<1>7. ASSUME NEW t \in Threads PROVE RequestIsBest(web[t])'
  <2> DEFINE r == web[t]
  <2>1. CASE r.at = "idle"
    <3>1. RequestIsBest(r)
      BY DEF TemplatesInv, RequestsAreBest
    <3> QED
      BY <1>1, <2>1, <3>1 DEF RequestIsBest
  <2>2. CASE r.at # "idle"
    <3>1. /\ r \in [at : {"next", "try", "copy", "dangling", "answered"}, asked : Nat,
                    names : Seq(Templates!FileNames), k : Nat, now : Nat,
                    document : Nat \cup {Freed}]
          /\ r.k \in 1 .. Len(r.names) /\ Len(r.names) \in Nat /\ RequestIsBest(r)
          /\ r.asked <= r.now /\ r.now <= now /\ cacheTimeout \in Nat
      BY <2>2, UnderWay
    <3> HIDE DEF r
    <3>2. r.asked - cacheTimeout \in Int /\ r.asked - cacheTimeout <= now
      BY <1>1, <3>1, SMTT(30)
    <3>3. \A j \in 1 .. r.k : r.names[j] \in Templates!FileNames
      BY <3>1
    <3>4. \A j \in 1 .. r.k - 1 :
            OnDisk(r.names[j], 0, r.asked - cacheTimeout)
              => OnDisk(r.names[j], 0, r.asked - cacheTimeout)'
      <4> TAKE j \in 1 .. r.k - 1
      <4>1. r.names[j] \in Templates!FileNames
        BY <3>1, <3>3
      <4> QED
        BY <1>1, <1>5, <3>2, <4>1 DEF r
    <3>5. OnDisk(r.names[r.k], r.document, r.asked - cacheTimeout)
            => OnDisk(r.names[r.k], r.document, r.asked - cacheTimeout)'
      <4>1. r.names[r.k] \in Templates!FileNames
        BY <3>1, <3>3
      <4> QED
        BY <1>1, <1>5, <3>2, <4>1 DEF r
    <3> QED
      BY <1>1, <3>1, <3>4, <3>5 DEF RequestIsBest, r
  <2> QED
    BY <2>1, <2>2
<1> QED
  BY <1>4, <1>6, <1>7 DEF TemplatesInv, RequestsAreBest

LEMMA TemplateTickStep ==
  ASSUME TemplatesInv, Templates!Tick
  PROVE  TemplatesInv'
<1>1. /\ now' = now + 1 /\ UNCHANGED <<disk, replaced, cache, recent, web>> /\ now \in Nat
  BY DEF Templates!Tick, TemplatesInv, TemplateShape
<1>2. TemplateShape'
  BY <1>1 DEF TemplatesInv, TemplateShape
<1>3. DocumentsAreFresh'
  <2>1. \A f \in DOMAIN cache : cache[f].created \in Nat
    BY DEF TemplatesInv, TemplateShape, Documents
  <2> QED
    BY <1>1, <2>1 DEF TemplatesInv, DocumentsAreFresh, OnDisk
<1>4. ASSUME NEW t \in Threads PROVE RequestIsBest(web[t])'
  <2>1. RequestIsBest(web[t])
    BY DEF TemplatesInv, RequestsAreBest
  <2>2. web[t].at # "idle" => web[t].now \in Nat
    BY UnderWay
  <2> QED
    BY <1>1, <2>1, <2>2 DEF RequestIsBest, OnDisk
<1> QED
  BY <1>2, <1>3, <1>4 DEF TemplatesInv, RequestsAreBest
-------------------------------------------------------------------------------
LEMMA TemplatesStep ==
  ASSUME TemplatesInv, [Templates!Next]_(Templates!vars)
  PROVE  TemplatesInv'
<1>1. ASSUME NEW t \in Threads, NEW l \in Languages, Templates!GetTemplate(t, l)
      PROVE  TemplatesInv'
  BY <1>1, GetTemplateStep
<1>2. ASSUME NEW t \in Threads,
             \/ Templates!Skip(t) \/ Templates!TryFile(t) \/ Templates!Cached(t)
             \/ Templates!Load(t) \/ Templates!CopyDocument(t) \/ Templates!Rendered(t)
      PROVE  TemplatesInv'
  BY <1>2, SkipStep, TryFileStep, CachedStep, LoadStep, CopyStep, RenderedStep
<1>3. ASSUME NEW f \in Templates!FileNames, NEW document \in 0 .. (maxTemplateCost + 1),
             Templates!Replace(f, document)
      PROVE  TemplatesInv'
  <2>1. document \in Nat
    OBVIOUS
  <2> QED
    BY <1>3, <2>1, ReplaceTemplateStep
<1>4. CASE Templates!Tick
  BY <1>4, TemplateTickStep
<1>5. CASE UNCHANGED Templates!vars
  BY <1>5 DEF Templates!vars, TemplatesInv, TemplateShape, DocumentsAreFresh, RequestsAreBest,
              RequestIsBest, OnDisk
<1> QED
  BY <1>1, <1>2, <1>3, <1>4, <1>5 DEF Templates!Next

LEMMA TemplatesBegin ==
  ASSUME Templates!Init
  PROVE  TemplatesInv
<1>1. /\ disk \in [Templates!FileNames -> Seq(Nat)] /\ replaced \in [Templates!FileNames -> Seq(Nat)]
      /\ \A f \in Templates!FileNames : Len(disk[f]) = Len(replaced[f]) + 1
  <2>1. /\ disk \in [Templates!FileNames -> {<<0>>, <<1>>}]
        /\ replaced = [f \in Templates!FileNames |-> <<>>]
    BY DEF Templates!Init
  <2>2. <<0>> \in Seq(Nat) /\ <<1>> \in Seq(Nat) /\ Len(<<0>>) = 1 /\ Len(<<1>>) = 1
    OBVIOUS
  <2>3. replaced \in [Templates!FileNames -> Seq(Nat)]
        /\ \A f \in Templates!FileNames : replaced[f] = <<>> /\ disk[f] \in {<<0>>, <<1>>}
    BY <2>1
  <2>4. disk \in [Templates!FileNames -> Seq(Nat)]
    BY <2>1, <2>2
  <2>5. \A f \in Templates!FileNames : Len(replaced[f]) = 0 /\ Len(disk[f]) = 1
    BY <2>2, <2>3
  <2>6. \A f \in Templates!FileNames : Len(disk[f]) = Len(replaced[f]) + 1
    <3> TAKE f \in Templates!FileNames
    <3>1. Len(replaced[f]) = 0 /\ Len(disk[f]) = 1
      BY <2>5
    <3> QED
      BY <3>1
  <2> QED
    BY <2>3, <2>4, <2>6, Zenon
<1>2. DOMAIN cache = {} /\ recent \in Seq(DOMAIN cache)
  BY DEF Templates!Init
<1>3. TemplateShape
  BY <1>1, <1>2 DEF Templates!Init, TemplateShape, TemplateRequests
<1>4. RequestsAreBest
  BY DEF Templates!Init, RequestsAreBest, RequestIsBest, TemplateRequests, Templates!Resting
<1> QED
  BY <1>2, <1>3, <1>4 DEF TemplatesInv, DocumentsAreFresh

TemplatesScene == scene = "templates" => TemplatesInv

LEMMA TemplatesSceneStep ==
  ASSUME [Next]_vars, scene = "templates"
  PROVE  scene' = "templates" /\ [Templates!Next]_(Templates!vars)
<1>1. CASE Next
  BY <1>1 DEF Next
<1>2. CASE UNCHANGED vars
  BY <1>2 DEF vars, sharedVars, Templates!vars
<1> QED
  BY <1>1, <1>2

(* A document the invariant says was on the disk is one the property does. *)
LEMMA OnDiskMeans ==
  ASSUME TemplateShape, NEW f \in Templates!FileNames, NEW d, NEW since, OnDisk(f, d, since)
  PROVE  Templates!WasOnDisk(f, d, since)
<1>1. PICK v \in Nat : Fresh(replaced[f], v, since) /\ disk[f][v] = d
  BY DEF OnDisk
<1>2. disk[f] \in Seq(Nat) /\ replaced[f] \in Seq(Nat) /\ Len(disk[f]) = Len(replaced[f]) + 1
  BY DEF TemplateShape
<1>3. v \in DOMAIN disk[f] /\ (v = Len(disk[f]) \/ replaced[f][v] >= since)
  BY <1>1, <1>2 DEF Fresh
<1> QED
  BY <1>1, <1>3 DEF Templates!WasOnDisk

(* templatecache.cpp, templateloader.cpp: for any languages, names and     *)
(* threads, a browser gets the first template of its list that there was   *)
(* within cacheTimeout before it asked, however the entries other requests *)
(* left go and come in between.                                            *)
THEOREM BestTemplatesAreGiven == Spec => []BestTemplateIsGiven
<1>1. Init => TemplatesScene
  BY TemplatesBegin DEF Init, TemplatesScene
<1>2. TemplatesScene /\ [Next]_vars => TemplatesScene'
  BY TemplatesStep, TemplatesSceneStep, SceneStays DEF TemplatesScene
<1>3. TemplatesScene => BestTemplateIsGiven
  <2> SUFFICES ASSUME TemplatesInv, NEW t \in Threads, web[t].at = "answered",
                      web[t].document # Freed, cacheTimeout > 0, NEW k \in 1 .. web[t].k
               PROVE  Templates!WasOnDisk(web[t].names[k],
                                          IF k < web[t].k THEN 0 ELSE web[t].document,
                                          web[t].asked - cacheTimeout)
    BY DEF TemplatesScene, BestTemplateIsGiven, Templates!BestTemplateIsGiven
  <2> DEFINE r == web[t]
             d == IF k < r.k THEN 0 ELSE r.document
  <2>1. /\ r \in [at : {"next", "try", "copy", "dangling", "answered"}, asked : Nat,
                  names : Seq(Templates!FileNames), k : Nat, now : Nat, document : Nat \cup {Freed}]
        /\ r.k \in 1 .. Len(r.names) /\ Len(r.names) \in Nat /\ RequestIsBest(r)
    BY UnderWay
  <2>2. r.names[k] \in Templates!FileNames
    BY <2>1
  <2>3. OnDisk(r.names[k], d, r.asked - cacheTimeout)
    <3>1. CASE k < r.k
      BY <2>1, <3>1 DEF RequestIsBest
    <3>2. CASE ~(k < r.k)
      <4>1. k = r.k
        BY <2>1, <3>2
      <4> QED
        BY <2>1, <4>1 DEF RequestIsBest
    <3> QED
      BY <3>1, <3>2
  <2> QED
    BY <2>2, <2>3, OnDiskMeans DEF TemplatesInv
<1> QED
  BY <1>1, <1>2, <1>3, PTL DEF Spec
-------------------------------------------------------------------------------
(* The log.  The files of a name are consecutive pieces of what was        *)
(* written to them: the k-th ends at cut[k] and begins behind cut[k + 1].  *)
Ends == 0 .. MaxFiles + 1

IsCutAt(content, log, cut) ==
  /\ cut \in [Ends -> Nat]
  /\ cut[0] = Len(log)
  /\ \A j, k \in Ends : j <= k => cut[k] <= cut[j]
  /\ \A k \in Logging!Numbers : content[k] = SubSeq(log, cut[k + 1] + 1, cut[k])

IsCut(content, log) == \E cut \in [Ends -> Nat] : IsCutAt(content, log, cut)

LEMMA Induction ==
  ASSUME NEW S \in SUBSET Nat, 0 \in S, \A k \in S : k + 1 \in S
  PROVE  S = Nat
<1> SUFFICES ASSUME Nat \ S # {} PROVE FALSE
  OBVIOUS
<1>1. PICK n \in Nat \ S : \A m \in Nat \ S : ~(<<m, n>> \in OpToRel(<, Nat))
  BY NatLessThanWellFounded, WFMin
<1>2. PICK m \in Nat : n = m + 1
  <2>1. n \in Nat /\ n # 0
    BY <1>1
  <2> QED
    BY <2>1
<1>3. <<m, n>> \in OpToRel(<, Nat)
  BY <1>1, <1>2 DEF OpToRel
<1> QED
  BY <1>1, <1>2, <1>3

(* The pieces put together from the oldest on.                             *)
Joined(seqs, f) ==
  f = [i \in 1 .. Len(seqs) |-> IF i = 1 THEN seqs[i] ELSE f[i - 1] \o seqs[i]]

LEMMA JoinedOnce ==
  ASSUME NEW seqs, Len(seqs) \in Nat, NEW f, NEW g, Joined(seqs, f), Joined(seqs, g)
  PROVE  f = g
<1> DEFINE S == {i \in Nat : i \in 1 .. Len(seqs) => f[i] = g[i]}
<1>1. \A i \in 1 .. Len(seqs) : f[i] = IF i = 1 THEN seqs[i] ELSE f[i - 1] \o seqs[i]
  BY Zenon DEF Joined
<1>2. \A i \in 1 .. Len(seqs) : g[i] = IF i = 1 THEN seqs[i] ELSE g[i - 1] \o seqs[i]
  BY Zenon DEF Joined
<1>3. 0 \in S
  OBVIOUS
<1>4. \A i \in S : i + 1 \in S
  <2> SUFFICES ASSUME NEW i \in S, i + 1 \in 1 .. Len(seqs)
               PROVE  f[i + 1] = g[i + 1]
    OBVIOUS
  <2>1. CASE i = 0
    BY <1>1, <1>2, <2>1
  <2>2. CASE i # 0
    <3>1. f[i] = g[i] /\ (i + 1) - 1 = i /\ i + 1 # 1
      BY <2>2
    <3> QED
      BY <1>1, <1>2, <3>1
  <2> QED
    BY <2>1, <2>2
<1> HIDE DEF S
<1>5. S = Nat
  BY <1>3, <1>4, Induction DEF S
<1>6. \A i \in 1 .. Len(seqs) : f[i] = g[i]
  BY <1>5 DEF S
<1>7. f = [i \in 1 .. Len(seqs) |-> f[i]] /\ g = [i \in 1 .. Len(seqs) |-> g[i]]
  <2>1. f = [i \in 1 .. Len(seqs) |-> f[i]]
    BY Zenon DEF Joined
  <2>2. g = [i \in 1 .. Len(seqs) |-> g[i]]
    BY Zenon DEF Joined
  <2> QED
    BY <2>1, <2>2
<1> QED
  BY <1>6, <1>7

LEMMA JoinedIsFlattened ==
  ASSUME NEW seqs, Len(seqs) \in Nat, Len(seqs) # 0, NEW f, Joined(seqs, f)
  PROVE  Logging!FlattenSeq(seqs) = f[Len(seqs)]
<1> DEFINE flat == CHOOSE g : Joined(seqs, g)
<1>1. Joined(seqs, flat)
  BY Zenon
<1>2. flat = f
  BY <1>1, JoinedOnce
<1>3. Logging!FlattenSeq(seqs) = flat[Len(seqs)]
  BY DEF Logging!FlattenSeq, Joined
<1> QED
  BY <1>2, <1>3

LEMMA EndIsSuffix ==
  ASSUME NEW log \in Seq(Nat), NEW n \in Nat, n <= Len(log)
  PROVE  Logging!IsSuffix(SubSeq(log, n + 1, Len(log)), log)
<1> DEFINE s == SubSeq(log, n + 1, Len(log))
           r == Logging!Reverse(s)
           q == Logging!Reverse(log)
<1>1. /\ s \in Seq(Nat) /\ Len(s) = Len(log) - n
      /\ \A i \in 1 .. Len(log) - n : s[i] = log[n + i]
  BY SubSeqProperties
<1> HIDE DEF s
<1>2. Len(r) = Len(s) /\ Len(q) = Len(log)
  BY <1>1 DEF Logging!Reverse
<1>3. \A i \in 1 .. Len(s) : r[i] = s[Len(s) - i + 1] /\ r[i] \in Nat
  BY <1>1 DEF Logging!Reverse
<1>4. \A i \in 1 .. Len(log) : q[i] = log[Len(log) - i + 1] /\ q[i] \in Nat
  BY DEF Logging!Reverse
<1> HIDE DEF r, q
<1>5. \A i \in 1 .. Len(s) : r[i] = q[i]
  <2> TAKE i \in 1 .. Len(s)
  <2>0. /\ i \in 1 .. Len(log) /\ Len(s) - i + 1 \in 1 .. Len(log) - n
        /\ Len(s) \in Nat /\ Len(log) \in Nat
    BY <1>1
  <2>1. r[i] = s[Len(s) - i + 1] /\ q[i] = log[Len(log) - i + 1]
    BY <2>0, <1>3, <1>4
  <2>2. s[Len(s) - i + 1] = log[n + (Len(s) - i + 1)]
    BY <1>1, <2>0
  <2>3. n + (Len(s) - i + 1) = Len(log) - i + 1
    BY <1>1
  <2> QED
    BY <2>1, <2>2, <2>3
<1>6. SubSeq(r, 1, Len(s)) = SubSeq(q, 1, Len(s))
  <2> DEFINE a == SubSeq(r, 1, Len(s))
             b == SubSeq(q, 1, Len(s))
  <2>1. /\ a \in Seq(Nat) /\ Len(a) = Len(s)
        /\ \A i \in 1 .. Len(s) : a[i] = r[i]
    BY <1>1, <1>3, SubSeqProperties
  <2>2. /\ b \in Seq(Nat) /\ Len(b) = Len(s)
        /\ \A i \in 1 .. Len(s) : b[i] = q[i]
    <3>1. Len(s) \in Nat /\ \A i \in 1 .. Len(s) : q[i] \in Nat
      BY <1>1, <1>4
    <3> QED
      BY <3>1, SubSeqProperties
  <2> HIDE DEF a, b
  <2>3. a = b
    BY <1>5, <2>1, <2>2, SeqEqual
  <2> QED
    BY <2>3 DEF a, b
<1>7. Logging!IsPrefix(r, q)
  BY <1>1, <1>2, <1>6 DEF Logging!IsPrefix
<1> QED
  BY <1>7 DEF Logging!IsSuffix, r, q, s

(* What OldestFirst puts together from consecutive pieces is the end of    *)
(* what they are pieces of.                                                *)
LEMMA CutIsSuffix ==
  ASSUME NEW log \in Seq(Nat), NEW content \in [Logging!Numbers -> Seq(Nat)], IsCut(content, log),
         NEW seqs \in Seq(Seq(Nat)), Len(seqs) = MaxFiles + 1,
         \A i \in 1 .. MaxFiles + 1 : seqs[i] = content[MaxFiles + 1 - i]
  PROVE  Logging!IsSuffix(Logging!FlattenSeq(seqs), log)
<1> USE LogAssumption DEF LogAssumption
<1>1. PICK cut \in [Ends -> Nat] : IsCutAt(content, log, cut)
  BY DEF IsCut
<1> DEFINE last == cut[MaxFiles + 1]
           f == [i \in 1 .. MaxFiles + 1 |-> SubSeq(log, last + 1, cut[MaxFiles + 1 - i])]
<1>2. \A k \in Ends : cut[k] \in Nat /\ last <= cut[k] /\ cut[k] <= Len(log)
  BY <1>1 DEF IsCutAt, Ends
<1>3. \A i \in 1 .. MaxFiles + 1 :
         f[i] = IF i = 1 THEN seqs[i] ELSE f[i - 1] \o seqs[i]
  <2> TAKE i \in 1 .. MaxFiles + 1
  <2> DEFINE k == MaxFiles + 1 - i
  <2>1. k \in Logging!Numbers /\ k \in Ends /\ k + 1 \in Ends /\ k + 1 = MaxFiles + 2 - i
    BY DEF Logging!Numbers, Ends
  <2>2. seqs[i] = SubSeq(log, cut[k + 1] + 1, cut[k])
    BY <1>1, <2>1 DEF IsCutAt
  <2>3. CASE i = 1
    <3>1. MaxFiles + 1 - i = MaxFiles /\ k + 1 = MaxFiles + 1
      BY <2>3
    <3>2. f[i] = SubSeq(log, last + 1, cut[k])
      OBVIOUS
    <3> HIDE DEF f, k
    <3> QED
      BY <2>2, <2>3, <3>1, <3>2
  <2>4. CASE i # 1
    <3>1. f[i - 1] = SubSeq(log, last + 1, cut[k + 1])
      <4>1. i - 1 \in 1 .. MaxFiles + 1 /\ MaxFiles + 1 - (i - 1) = k + 1
        BY <2>4
      <4> QED
        BY <4>1
    <3>2. /\ last + 1 \in 1 .. Len(log) + 1
          /\ cut[k + 1] \in (last + 1) - 1 .. Len(log)
          /\ cut[k] \in cut[k + 1] .. Len(log)
      <4>1. last \in Nat /\ cut[k] \in Nat /\ cut[k + 1] \in Nat /\ Len(log) \in Nat
        BY <1>2, <2>1 DEF Ends
      <4>2. last <= cut[k + 1] /\ cut[k + 1] <= Len(log) /\ cut[k] <= Len(log)
        BY <1>2, <2>1
      <4>3. k <= k + 1
        BY <2>1
      <4>4. cut[k + 1] <= cut[k]
        BY <1>1, <2>1, <4>3 DEF IsCutAt
      <4> HIDE DEF k, last
      <4> QED
        BY <4>1, <4>2, <4>4
    <3>3. SubSeq(log, last + 1, cut[k + 1]) \o SubSeq(log, cut[k + 1] + 1, cut[k])
            = SubSeq(log, last + 1, cut[k])
      <4> HIDE DEF k, last
      <4> QED
        BY <3>2, ConcatAdjacentSubSeq
    <3>4. f[i] = SubSeq(log, last + 1, cut[k])
      OBVIOUS
    <3> HIDE DEF f, k
    <3> QED
      BY <2>2, <2>4, <3>1, <3>3, <3>4
  <2> QED
    BY <2>3, <2>4
<1>4. Joined(seqs, f)
  <2>1. f = [i \in 1 .. MaxFiles + 1 |-> f[i]]
    OBVIOUS
  <2> HIDE DEF f
  <2>2. [i \in 1 .. MaxFiles + 1 |-> f[i]]
          = [i \in 1 .. MaxFiles + 1 |-> IF i = 1 THEN seqs[i] ELSE f[i - 1] \o seqs[i]]
    BY <1>3
  <2> QED
    BY <2>1, <2>2 DEF Joined
<1>5. Logging!FlattenSeq(seqs) = f[MaxFiles + 1]
  <2> HIDE DEF f
  <2>1. Len(seqs) \in Nat /\ Len(seqs) # 0
    OBVIOUS
  <2> QED
    BY <1>4, <2>1, JoinedIsFlattened
<1>6. f[MaxFiles + 1] = SubSeq(log, last + 1, Len(log))
  <2>1. MaxFiles + 1 - (MaxFiles + 1) = 0 /\ MaxFiles + 1 \in 1 .. MaxFiles + 1
    OBVIOUS
  <2> QED
    BY <1>1, <2>1 DEF IsCutAt
<1>7. last \in Nat /\ last <= Len(log)
  BY <1>2 DEF Ends
<1> HIDE DEF last, f
<1> QED
  BY <1>5, <1>6, <1>7, EndIsSuffix

(* What the steps do to the pieces of one name.                            *)
LEMMA MoreIsCut ==
  ASSUME NEW log \in Seq(Nat), NEW content \in [Logging!Numbers -> Seq(Nat)], IsCut(content, log),
         NEW ms \in Seq(Nat)
  PROVE  IsCut([content EXCEPT ![0] = content[0] \o ms], log \o ms)
<1> USE LogAssumption DEF LogAssumption
<1>1. PICK cut \in [Ends -> Nat] : IsCutAt(content, log, cut)
  BY DEF IsCut
<1> DEFINE all == log \o ms
           more == [content EXCEPT ![0] = content[0] \o ms]
           end == Len(log) + Len(ms)
           ends == [cut EXCEPT ![0] = end]
<1>2. all \in Seq(Nat) /\ Len(all) = end /\ end \in Nat
  BY ConcatProperties
<1>3. \A k \in Ends : cut[k] \in Nat /\ cut[k] <= Len(log) /\ cut[k] <= end
  BY <1>1 DEF IsCutAt, Ends
<1>4. 0 \in Ends /\ 1 \in Ends /\ 0 \in Logging!Numbers
  BY DEF Ends, Logging!Numbers
<1>5. /\ ends \in [Ends -> Nat] /\ ends[0] = end
      /\ \A k \in Ends : k # 0 => ends[k] = cut[k]
  BY <1>2, <1>4
<1>6. more[0] = SubSeq(all, ends[1] + 1, ends[0])
  <2> DEFINE c == cut[1]
             a == content[0] \o ms
             b == SubSeq(all, c + 1, end)
  <2>1. c \in Nat /\ c <= Len(log) /\ c <= end /\ end - c + 1 \in Nat
    BY <1>2, <1>3, <1>4
  <2>2. content[0] = SubSeq(log, c + 1, Len(log))
    <3>1. 0 + 1 = 1 /\ cut[0] = Len(log)
      BY <1>1 DEF IsCutAt
    <3>2. content[0] = SubSeq(log, cut[0 + 1] + 1, cut[0])
      BY <1>1, <1>4 DEF IsCutAt
    <3> QED
      BY <3>1, <3>2
  <2> HIDE DEF c
  <2>3. /\ content[0] \in Seq(Nat) /\ Len(content[0]) = Len(log) - c
        /\ \A i \in 1 .. Len(log) - c : content[0][i] = log[c + i]
    <3>1. \A i \in c + 1 .. Len(log) : log[i] \in Nat
      BY <2>1
    <3>2. /\ Len(SubSeq(log, c + 1, Len(log))) = Len(log) - c
          /\ \A i \in 1 .. Len(log) - (c + 1) + 1 :
                SubSeq(log, c + 1, Len(log))[i] = log[c + 1 + i - 1]
      BY <2>1, <3>1, SubSeqProperties
    <3>3. content[0] \in Seq(Nat)
      BY <1>4
    <3>4. Len(log) - (c + 1) + 1 = Len(log) - c /\ \A i \in 1 .. Len(log) - c : c + 1 + i - 1 = c + i
      BY <2>1
    <3> QED
      BY <2>2, <3>2, <3>3, <3>4
  <2>4. /\ a \in Seq(Nat) /\ Len(a) = end - c
        /\ \A i \in 1 .. end - c : a[i] = IF i <= Len(log) - c THEN content[0][i]
                                          ELSE ms[i - (Len(log) - c)]
    <3>1. /\ a \in Seq(Nat) /\ Len(a) = Len(content[0]) + Len(ms)
          /\ \A i \in 1 .. Len(content[0]) + Len(ms) :
                a[i] = IF i <= Len(content[0]) THEN content[0][i] ELSE ms[i - Len(content[0])]
      BY <2>3, ConcatProperties
    <3>2. Len(content[0]) + Len(ms) = end - c
      BY <2>1, <2>3
    <3> HIDE DEF a, end
    <3> QED
      BY <2>3, <3>1, <3>2
  <2>5. /\ b \in Seq(Nat) /\ Len(b) = end - c
        /\ \A i \in 1 .. end - c : b[i] = all[c + i]
    <3>1. \A i \in c + 1 .. end : all[i] \in Nat
      BY <1>2, <2>1
    <3> HIDE DEF all, end
    <3>2. /\ b \in Seq(Nat) /\ Len(b) = IF c + 1 <= end THEN end - (c + 1) + 1 ELSE 0
          /\ \A i \in 1 .. end - (c + 1) + 1 : b[i] = all[(c + 1) + i - 1]
      BY <1>2, <2>1, <3>1, SubSeqProperties
    <3>3. end - (c + 1) + 1 = end - c /\ \A i \in 1 .. end - c : (c + 1) + i - 1 = c + i
      BY <1>2, <2>1
    <3> HIDE DEF b
    <3> QED
      BY <1>2, <2>1, <3>2, <3>3
  <2>6. \A i \in 1 .. end - c : a[i] = b[i]
    <3> HIDE DEF a, b, end
    <3> TAKE i \in 1 .. end - c
    <3>1. c + i \in 1 .. end
      BY <1>2, <2>1
    <3>2. all[c + i] = IF c + i <= Len(log) THEN log[c + i] ELSE ms[(c + i) - Len(log)]
      <4>1. c + i \in 1 .. Len(log) + Len(ms)
        BY <3>1 DEF end
      <4>2. \A j \in 1 .. Len(log) + Len(ms) : all[j] = IF j <= Len(log) THEN log[j]
                                                     ELSE ms[j - Len(log)]
        BY ConcatProperties, Zenon
      <4> HIDE DEF all
      <4> QED
        BY <4>1, <4>2
    <3>3. CASE i <= Len(log) - c
      <4>1. c + i <= Len(log) /\ i \in 1 .. Len(log) - c
        BY <2>1, <3>3
      <4> QED
        BY <2>3, <2>4, <2>5, <3>2, <3>3, <4>1
    <3>4. CASE ~(i <= Len(log) - c)
      <4>1. ~(c + i <= Len(log)) /\ i - (Len(log) - c) = (c + i) - Len(log)
        BY <2>1, <3>4
      <4> QED
        BY <2>4, <2>5, <3>2, <3>4, <4>1
    <3> QED
      BY <3>3, <3>4
  <2>7. a = b
    <3> HIDE DEF a, b, end
    <3> QED
      BY <2>4, <2>5, <2>6, SeqEqual
  <2>8. more[0] = a /\ ends[1] = c
    BY <1>4, <1>5, SMTT(30) DEF c
  <2> HIDE DEF a, more, ends, all
  <2> QED
    BY <1>5, <2>7, <2>8
<1>7. \A k \in Logging!Numbers : more[k] = SubSeq(all, ends[k + 1] + 1, ends[k])
  <2> TAKE k \in Logging!Numbers
  <2>1. k \in Ends /\ k + 1 \in Ends /\ k + 1 # 0
    BY DEF Logging!Numbers, Ends
  <2>2. CASE k = 0
    <3>1. k + 1 = 1
      BY <2>2
    <3> HIDE DEF more, all, ends
    <3> QED
      BY <1>6, <2>2, <3>1
  <2>3. CASE k # 0
    <3> DEFINE m == cut[k + 1] + 1
               n == cut[k]
               a == SubSeq(all, m, n)
               b == SubSeq(log, m, n)
    <3>1. m \in Nat /\ n \in Nat /\ m >= 1 /\ n <= Len(log)
      BY <1>3, <2>1
    <3>2. more[k] = content[k] /\ content[k] = b
      BY <1>1, <2>3 DEF IsCutAt
    <3>3. ends[k + 1] = cut[k + 1] /\ ends[k] = cut[k]
      BY <1>5, <2>1, <2>3
    <3> HIDE DEF m, n
    <3>4. \A i \in 1 .. Len(log) : all[i] = log[i] /\ log[i] \in Nat
      BY ConcatProperties
    <3>5. \A i \in m .. n : all[i] = log[i] /\ log[i] \in Nat
      BY <3>1, <3>4
    <3> HIDE DEF all
    <3>6. /\ a \in Seq(Nat) /\ Len(a) = IF m <= n THEN n - m + 1 ELSE 0
          /\ \A i \in 1 .. n - m + 1 : a[i] = all[m + i - 1]
      <4>1. \A i \in m .. n : all[i] \in Nat
        BY <3>5
      <4> QED
        BY <3>1, <4>1, SubSeqProperties
    <3>7. /\ b \in Seq(Nat) /\ Len(b) = IF m <= n THEN n - m + 1 ELSE 0
          /\ \A i \in 1 .. n - m + 1 : b[i] = log[m + i - 1]
      BY <3>1, <3>5, SubSeqProperties
    <3> HIDE DEF a, b
    <3>8. \A i \in 1 .. Len(a) : a[i] = b[i]
      <4> TAKE i \in 1 .. Len(a)
      <4>1. i \in 1 .. n - m + 1 /\ m + i - 1 \in m .. n
        <5>1. CASE m <= n
          BY <3>1, <3>6, <5>1
        <5>2. CASE ~(m <= n)
          BY <3>6, <5>2
        <5> QED
          BY <5>1, <5>2
      <4> QED
        BY <3>5, <3>6, <3>7, <4>1
    <3>9. a = b
      BY <3>6, <3>7, <3>8, SeqEqual
    <3> HIDE DEF more, ends
    <3> QED
      BY <3>2, <3>3, <3>9 DEF a, b, m, n
  <2> QED
    BY <2>2, <2>3
<1>8. \A j, k \in Ends : j <= k => ends[k] <= ends[j]
  <2> SUFFICES ASSUME NEW j \in Ends, NEW k \in Ends, j <= k PROVE ends[k] <= ends[j]
    OBVIOUS
  <2> HIDE DEF ends, end
  <2>1. CASE k = 0
    <3>1. j = 0
      BY <2>1 DEF Ends
    <3> QED
      BY <1>2, <1>5, <2>1, <3>1
  <2>2. CASE k # 0 /\ j = 0
    BY <1>3, <1>5, <2>2
  <2>3. CASE k # 0 /\ j # 0
    BY <1>1, <1>5, <2>3 DEF IsCutAt
  <2> QED
    BY <2>1, <2>2, <2>3
<1> HIDE DEF all, more, end, ends
<1>9. IsCutAt(more, all, ends)
  BY <1>2, <1>5, <1>7, <1>8 DEF IsCutAt
<1> QED
  BY <1>5, <1>9 DEF IsCut, all, more

LEMMA LessIsCut ==
  ASSUME NEW log \in Seq(Nat), NEW content \in [Logging!Numbers -> Seq(Nat)], IsCut(content, log),
         NEW i \in Logging!Numbers, \A k \in Logging!Numbers : k > i => content[k] = <<>>
  PROVE  IsCut([content EXCEPT ![i] = <<>>], log)
<1> USE LogAssumption DEF LogAssumption
<1>1. PICK cut \in [Ends -> Nat] : IsCutAt(content, log, cut)
  BY DEF IsCut
<1> DEFINE less == [content EXCEPT ![i] = <<>>]
           ends == [k \in Ends |-> IF k > i THEN cut[i] ELSE cut[k]]
<1>2. i \in Nat /\ i \in Ends /\ \A k \in Ends : k \in Nat /\ cut[k] \in Nat
  BY DEF Ends, Logging!Numbers
<1>3. /\ ends \in [Ends -> Nat]
      /\ \A k \in Ends : ends[k] = IF k > i THEN cut[i] ELSE cut[k]
  BY <1>2
<1>4. ends[0] = Len(log)
  BY <1>1, <1>2 DEF IsCutAt, Ends
<1>5. \A j, k \in Ends : j <= k => ends[k] <= ends[j]
  <2> SUFFICES ASSUME NEW j \in Ends, NEW k \in Ends, j <= k PROVE ends[k] <= ends[j]
    OBVIOUS
  <2> HIDE DEF ends
  <2>1. \A a, b \in Ends : a <= b => cut[b] <= cut[a]
    BY <1>1 DEF IsCutAt
  <2>2. CASE j > i
    <3>1. k > i
      BY <1>2, <2>2
    <3> QED
      BY <1>2, <1>3, <2>2, <3>1
  <2>3. CASE ~(j > i) /\ k > i
    <3>1. j <= i /\ ends[j] = cut[j] /\ ends[k] = cut[i]
      BY <1>2, <1>3, <2>3
    <3> QED
      BY <1>2, <2>1, <3>1
  <2>4. CASE ~(j > i) /\ ~(k > i)
    BY <1>3, <2>1, <2>4
  <2> QED
    BY <2>2, <2>3, <2>4
<1>6. \A k \in Logging!Numbers : less[k] = SubSeq(log, ends[k + 1] + 1, ends[k])
  <2> TAKE k \in Logging!Numbers
  <2>1. k \in Ends /\ k + 1 \in Ends /\ k \in Nat
    BY DEF Ends, Logging!Numbers
  <2>2. CASE k < i
    <3>1. ~(k > i) /\ ~(k + 1 > i) /\ less[k] = content[k]
      BY <1>2, <2>1, <2>2
    <3>2. ends[k] = cut[k] /\ ends[k + 1] = cut[k + 1]
      BY <1>3, <2>1, <3>1
    <3> HIDE DEF less, ends
    <3> QED
      BY <1>1, <3>1, <3>2 DEF IsCutAt
  <2>3. CASE ~(k < i)
    <3>1. less[k] = <<>>
      BY <1>2, <2>1, <2>3
    <3>2. ends[k + 1] = cut[i] /\ ends[k] = cut[i]
      BY <1>2, <1>3, <2>1, <2>3
    <3> HIDE DEF less, ends
    <3>3. SubSeq(log, cut[i] + 1, cut[i]) = <<>>
      BY <1>2, SubSeqEmpty
    <3> QED
      BY <3>1, <3>2, <3>3
  <2> QED
    BY <2>2, <2>3
<1> HIDE DEF less, ends
<1>7. IsCutAt(less, log, ends)
  BY <1>3, <1>4, <1>5, <1>6 DEF IsCutAt
<1> QED
  BY <1>3, <1>7 DEF IsCut, less

LEMMA RenamedIsCut ==
  ASSUME NEW log \in Seq(Nat), NEW content \in [Logging!Numbers -> Seq(Nat)], IsCut(content, log),
         NEW i \in Logging!Numbers, i + 1 \in Logging!Numbers, content[i + 1] = <<>>
  PROVE  IsCut([content EXCEPT ![i + 1] = content[i], ![i] = <<>>], log)
<1> USE LogAssumption DEF LogAssumption
<1>1. PICK cut \in [Ends -> Nat] : IsCutAt(content, log, cut)
  BY DEF IsCut
<1> DEFINE moved == [content EXCEPT ![i + 1] = content[i], ![i] = <<>>]
           ends == [cut EXCEPT ![i + 1] = cut[i]]
<1>2. /\ i \in Nat /\ i \in Ends /\ i + 1 \in Ends /\ i + 2 \in Ends /\ i + 1 # i /\ i + 2 # i + 1
      /\ i + 1 + 1 = i + 2 /\ i <= i + 1 /\ i + 1 <= i + 2
      /\ \A k \in Ends : k \in Nat /\ cut[k] \in Nat
  <2>1. i \in 0 .. MaxFiles /\ i + 1 \in 0 .. MaxFiles
    BY DEF Logging!Numbers
  <2>2. \A k \in Ends : k \in Nat /\ cut[k] \in Nat
    BY DEF Ends
  <2>3. /\ i \in Nat /\ i \in Ends /\ i + 1 \in Ends /\ i + 2 \in Ends
    BY <2>1 DEF Ends
  <2> QED
    BY <2>2, <2>3
<1>3. /\ ends \in [Ends -> Nat] /\ ends[i + 1] = cut[i]
      /\ \A k \in Ends : k # i + 1 => ends[k] = cut[k]
  BY <1>2
<1>4. ends[0] = Len(log)
  BY <1>1, <1>2 DEF IsCutAt, Ends
<1>5. cut[i + 1] <= cut[i] /\ cut[i + 2] <= cut[i + 1]
  BY <1>1, <1>2 DEF IsCutAt
<1>6. cut[i + 2] = cut[i + 1]
  <2> SUFFICES ASSUME cut[i + 2] < cut[i + 1] PROVE FALSE
    BY <1>2, <1>5
  <2>1. SubSeq(log, cut[i + 2] + 1, cut[i + 1]) = <<>>
    BY <1>1, <1>2 DEF IsCutAt
  <2>2. cut[i + 1] <= Len(log)
    BY <1>1, <1>2 DEF IsCutAt, Ends
  <2>3. \A k \in cut[i + 2] + 1 .. cut[i + 1] : log[k] \in Nat
    <3>1. cut[i + 2] \in Nat /\ cut[i + 1] \in Nat
      BY <1>2
    <3> QED
      BY <2>2, <3>1, SMTT(30)
  <2>4. Len(SubSeq(log, cut[i + 2] + 1, cut[i + 1])) = cut[i + 1] - (cut[i + 2] + 1) + 1
    BY <1>2, <2>3, SubSeqProperties
  <2>5. cut[i + 1] - (cut[i + 2] + 1) + 1 # 0
    BY <1>2
  <2> QED
    BY <2>1, <2>4, <2>5
<1>7. \A j, k \in Ends : j <= k => ends[k] <= ends[j]
  <2> SUFFICES ASSUME NEW j \in Ends, NEW k \in Ends, j <= k PROVE ends[k] <= ends[j]
    OBVIOUS
  <2> HIDE DEF ends
  <2>1. \A a, b \in Ends : a <= b => cut[b] <= cut[a]
    BY <1>1 DEF IsCutAt
  <2>2. CASE j = i + 1 /\ k = i + 1
    BY <1>2, <1>3, <2>2
  <2>3. CASE j = i + 1 /\ k # i + 1
    <3>1. i <= k /\ ends[j] = cut[i] /\ ends[k] = cut[k]
      BY <1>2, <1>3, <2>3
    <3> QED
      BY <1>2, <2>1, <3>1
  <2>4. CASE j # i + 1 /\ k = i + 1
    <3>1. j <= i /\ ends[j] = cut[j] /\ ends[k] = cut[i]
      BY <1>2, <1>3, <2>4
    <3> QED
      BY <1>2, <2>1, <3>1
  <2>5. CASE j # i + 1 /\ k # i + 1
    BY <1>3, <2>1, <2>5
  <2> QED
    BY <2>2, <2>3, <2>4, <2>5
<1>8. \A k \in Logging!Numbers : moved[k] = SubSeq(log, ends[k + 1] + 1, ends[k])
  <2> TAKE k \in Logging!Numbers
  <2>1. k \in Ends /\ k + 1 \in Ends /\ k \in Nat
    BY DEF Ends, Logging!Numbers
  <2>2. content[k] = SubSeq(log, cut[k + 1] + 1, cut[k])
    BY <1>1 DEF IsCutAt
  <2>3. CASE k = i
    <3>1. moved[k] = <<>> /\ ends[k + 1] = cut[i] /\ ends[k] = cut[i]
      BY <1>2, <1>3, <2>3
    <3> HIDE DEF moved, ends
    <3>2. SubSeq(log, cut[i] + 1, cut[i]) = <<>>
      BY <1>2, SubSeqEmpty
    <3> QED
      BY <3>1, <3>2
  <2>4. CASE k = i + 1
    <3>1. moved[k] = content[i] /\ ends[k + 1] = cut[i + 2] /\ ends[k] = cut[i]
      BY <1>2, <1>3, <2>4
    <3>2. content[i] = SubSeq(log, cut[i + 1] + 1, cut[i])
      BY <1>1 DEF IsCutAt
    <3> HIDE DEF moved, ends
    <3> QED
      BY <1>6, <3>1, <3>2
  <2>5. CASE k # i /\ k # i + 1
    <3>1. moved[k] = content[k] /\ k + 1 # i + 1
      BY <1>2, <2>1, <2>5
    <3>2. ends[k + 1] = cut[k + 1] /\ ends[k] = cut[k]
      BY <1>3, <2>1, <2>5, <3>1
    <3> HIDE DEF moved, ends
    <3> QED
      BY <2>2, <3>1, <3>2
  <2> QED
    BY <2>3, <2>4, <2>5
<1> HIDE DEF moved, ends
<1>9. IsCutAt(moved, log, ends)
  BY <1>3, <1>4, <1>7, <1>8 DEF IsCutAt
<1> QED
  BY <1>3, <1>9 DEF IsCut, moved

(* The files, and how far rotation has come in them.                       *)
FilesAreCut ==
  /\ disk \in [Names -> [Logging!Numbers -> Seq(Nat)]]
  /\ written \in [Names -> Seq(Nat)]
  /\ \A n \in Names : IsCut(disk[n], written[n])
  /\ maxBackups > 0 =>
       \A n \in Names : \A k \in Logging!Numbers : k > maxBackups => disk[n][k] = <<>>

Rotation ==
  /\ timer \in [at : {"idle", "test", "remove", "shift", "open", "stuck"}, i : Logging!Numbers]
  /\ timer.at \in {"remove", "shift"} =>
       /\ timer.i + 1 \in Logging!Numbers
       /\ maxBackups > 0 => timer.i <= maxBackups
  /\ timer.at = "shift" /\ maxBackups > 0 => timer.i < maxBackups

Messages == [n : Nat, type : Types]

LoggerShape ==
  /\ buffers \in [Threads -> Seq(Messages)]
  /\ fileName \in Names
  /\ unflushed \in Seq(Nat)
  /\ count \in Nat

LoggingInv == FilesAreCut /\ Rotation /\ LoggerShape

(* Flushing some messages, or no file touched.                             *)
FlushOrNot ==
  \/ \E ms \in Seq(Nat) : Logging!Flush(ms)
  \/ UNCHANGED <<disk, written>>

LEMMA ContentSize ==
  ASSUME LoggingInv, NEW n \in Names
  PROVE  /\ disk[n] \in [Logging!Numbers -> Seq(Nat)] /\ written[n] \in Seq(Nat)
         /\ IsCut(disk[n], written[n])
         /\ 0 \in Logging!Numbers
BY LogAssumption DEF LoggingInv, FilesAreCut, Logging!Numbers, LogAssumption

LEMMA FlushOrNotStep ==
  ASSUME LoggingInv, FlushOrNot
  PROVE  FilesAreCut'
<1>1. CASE UNCHANGED <<disk, written>>
  BY <1>1 DEF LoggingInv, FilesAreCut
<1>2. ASSUME NEW ms \in Seq(Nat), Logging!Flush(ms)
      PROVE  FilesAreCut'
  <2> DEFINE content == disk[fileName]
             log == written[fileName]
             more == [content EXCEPT ![0] = content[0] \o ms]
             all == log \o ms
  <2>1. /\ fileName \in Names /\ 0 \in Logging!Numbers
        /\ content \in [Logging!Numbers -> Seq(Nat)] /\ log \in Seq(Nat)
        /\ IsCut(content, log)
    BY ContentSize DEF LoggingInv, LoggerShape
  <2>2. disk' = [disk EXCEPT ![fileName] = more] /\ written' = [written EXCEPT ![fileName] = all]
    BY <1>2 DEF Logging!Flush
  <2>3. IsCut(more, all)
    <3> HIDE DEF content, log
    <3> QED
      BY <2>1, MoreIsCut
  <2>4. more \in [Logging!Numbers -> Seq(Nat)] /\ all \in Seq(Nat)
    <3> HIDE DEF content, log
    <3>1. content[0] \in Seq(Nat)
      BY <2>1
    <3> QED
      BY <2>1, <3>1, ConcatProperties
  <2>5. \A k \in Logging!Numbers : k # 0 => more[k] = disk[fileName][k]
    BY <2>1
  <2> HIDE DEF content, log, more, all
  <2>6. /\ disk' \in [Names -> [Logging!Numbers -> Seq(Nat)]] /\ written' \in [Names -> Seq(Nat)]
        /\ disk'[fileName] = more /\ written'[fileName] = all
        /\ \A n \in Names : n # fileName => disk'[n] = disk[n] /\ written'[n] = written[n]
    BY <2>1, <2>2, <2>4 DEF LoggingInv, FilesAreCut
  <2>7. \A n \in Names : IsCut(disk'[n], written'[n])
    BY <2>3, <2>6 DEF LoggingInv, FilesAreCut
  <2>8. ASSUME maxBackups > 0, NEW n \in Names, NEW k \in Logging!Numbers, k > maxBackups
        PROVE  disk'[n][k] = <<>>
    <3>1. disk[n][k] = <<>>
      BY <2>8 DEF LoggingInv, FilesAreCut
    <3>2. k # 0
      BY <2>8, LogAssumption DEF LogAssumption
    <3> QED
      BY <2>5, <2>6, <3>1, <3>2
  <2> QED
    BY <2>6, <2>7, <2>8 DEF FilesAreCut, IsCut, IsCutAt, Ends, Logging!Numbers
<1> QED
  BY <1>1, <1>2 DEF FlushOrNot

(* One name has other content, and all of it was written to it before.     *)
LEMMA ContentStep ==
  ASSUME LoggingInv, NEW content \in [Logging!Numbers -> Seq(Nat)],
         disk' = [disk EXCEPT ![fileName] = content], written' = written,
         IsCut(content, written[fileName]),
         maxBackups > 0 =>
           \A k \in Logging!Numbers : k > maxBackups => content[k] = <<>>
  PROVE  FilesAreCut'
<1>1. fileName \in Names
  BY DEF LoggingInv, LoggerShape
<1>2. /\ disk' \in [Names -> [Logging!Numbers -> Seq(Nat)]] /\ written' \in [Names -> Seq(Nat)]
      /\ disk'[fileName] = content
      /\ \A n \in Names : n # fileName => disk'[n] = disk[n]
  BY <1>1 DEF LoggingInv, FilesAreCut
<1>3. \A n \in Names : IsCut(disk'[n], written'[n])
  BY <1>2 DEF LoggingInv, FilesAreCut
<1>4. ASSUME maxBackups > 0, NEW n \in Names, NEW k \in Logging!Numbers, k > maxBackups
      PROVE  disk'[n][k] = <<>>
  BY <1>2, <1>4 DEF LoggingInv, FilesAreCut
<1> QED
  BY <1>2, <1>3, <1>4 DEF FilesAreCut, IsCut, IsCutAt, Ends, Logging!Numbers

LEMMA RemoveBackupStep ==
  ASSUME LoggingInv, Logging!RemoveBackup
  PROVE  LoggingInv'
<1> USE LogAssumption DEF LogAssumption
<1> DEFINE i == timer.i
           content == disk[fileName]
           less == [content EXCEPT ![i] = <<>>]
<1>1. /\ timer.at = "remove" /\ maxBackups > 0 /\ i >= maxBackups
      /\ disk' = [disk EXCEPT ![fileName] = less] /\ timer' = [timer EXCEPT !.i = i - 1]
      /\ buffers' = buffers /\ count' = count /\ fileName' = fileName
      /\ unflushed' = unflushed /\ written' = written
  BY DEF Logging!RemoveBackup, Logging!process
<1>2. /\ i \in Logging!Numbers /\ i \in Int /\ i <= maxBackups /\ i + 1 \in Logging!Numbers
      /\ timer \in [at : {"idle", "test", "remove", "shift", "open", "stuck"}, i : Logging!Numbers]
  BY <1>1 DEF LoggingInv, Rotation, Logging!Numbers
<1>3. /\ fileName \in Names /\ content \in [Logging!Numbers -> Seq(Nat)]
      /\ written[fileName] \in Seq(Nat) /\ IsCut(content, written[fileName])
  BY ContentSize DEF LoggingInv, LoggerShape
<1>4. \A k \in Logging!Numbers : k > maxBackups => content[k] = <<>>
  BY <1>1, <1>3 DEF LoggingInv, FilesAreCut
<1>5. i = maxBackups
  BY <1>1, <1>2
<1> HIDE DEF content, i
<1>6. IsCut(less, written[fileName])
  BY <1>2, <1>3, <1>4, <1>5, LessIsCut
<1>7. /\ less \in [Logging!Numbers -> Seq(Nat)]
      /\ \A k \in Logging!Numbers : k > maxBackups => less[k] = <<>>
  BY <1>2, <1>3, <1>4
<1> HIDE DEF less
<1>8. FilesAreCut'
  BY <1>1, <1>6, <1>7, ContentStep
<1>9. Rotation'
  <2>1. i - 1 \in Logging!Numbers /\ (i - 1) + 1 \in Logging!Numbers /\ i - 1 <= maxBackups
    BY <1>1, <1>2, <1>5 DEF Logging!Numbers
  <2>2. timer' = [at |-> "remove", i |-> i - 1]
    BY <1>1, <1>2
  <2>3. timer'.at = "remove" /\ timer'.i = i - 1
    BY <2>2
  <2> QED
    BY <2>1, <2>2, <2>3 DEF Rotation, Logging!Numbers
<1>10. LoggerShape'
  BY <1>1 DEF LoggingInv, LoggerShape, Messages
<1> QED
  BY <1>8, <1>9, <1>10 DEF LoggingInv

LEMMA ShiftBackupStep ==
  ASSUME LoggingInv, Logging!ShiftBackup
  PROVE  LoggingInv'
<1> USE LogAssumption DEF LogAssumption
<1> DEFINE i == timer.i
           content == disk[fileName]
           moved == [content EXCEPT ![i + 1] = content[i], ![i] = <<>>]
<1>1. /\ timer.at = "shift"
      /\ timer' = IF i > 0 THEN [timer EXCEPT !.i = i - 1] ELSE [timer EXCEPT !.at = "open"]
      /\ buffers' = buffers /\ count' = count /\ fileName' = fileName
      /\ unflushed' = unflushed /\ written' = written
  BY DEF Logging!ShiftBackup, Logging!process
<1>2. /\ i \in Logging!Numbers /\ i \in Nat /\ i + 1 \in Logging!Numbers
      /\ maxBackups > 0 => i < maxBackups
      /\ timer \in [at : {"idle", "test", "remove", "shift", "open", "stuck"}, i : Logging!Numbers]
  BY <1>1 DEF LoggingInv, Rotation, Logging!Numbers
<1>3. /\ fileName \in Names /\ content \in [Logging!Numbers -> Seq(Nat)]
      /\ written[fileName] \in Seq(Nat) /\ IsCut(content, written[fileName])
  BY ContentSize DEF LoggingInv, LoggerShape
<1>4. FilesAreCut'
  <2>1. CASE content[i + 1] # <<>>
    <3>1. disk' = disk
      BY <2>1 DEF Logging!ShiftBackup, Logging!Rename
    <3> QED
      BY <1>1, <3>1 DEF LoggingInv, FilesAreCut
  <2>2. CASE content[i + 1] = <<>>
    <3>1. disk' = [disk EXCEPT ![fileName] = moved]
      <4>1. disk' = [disk EXCEPT ![fileName][i + 1] = content[i], ![fileName][i] = <<>>]
        BY <2>2 DEF Logging!ShiftBackup, Logging!Rename
      <4>2. disk \in [Names -> [Logging!Numbers -> Seq(Nat)]]
        BY DEF LoggingInv, FilesAreCut
      <4> HIDE DEF i
      <4> QED
        BY <1>2, <1>3, <4>1, <4>2
    <3>2. maxBackups > 0 => \A k \in Logging!Numbers : k > maxBackups => content[k] = <<>>
      BY <1>3 DEF LoggingInv, FilesAreCut
    <3> HIDE DEF content, i
    <3>3. IsCut(moved, written[fileName])
      BY <1>2, <1>3, <2>2, RenamedIsCut
    <3>4. moved \in [Logging!Numbers -> Seq(Nat)]
      <4> DEFINE e == <<>>
                 m == content[i]
      <4>1. m \in Seq(Nat) /\ e \in Seq(Nat)
        BY <1>2, <1>3
      <4>2. moved = [content EXCEPT ![i + 1] = m, ![i] = e]
        OBVIOUS
      <4> HIDE DEF e, m, moved
      <4> QED
        BY <1>2, <1>3, <4>1, <4>2
    <3>5. maxBackups > 0 => \A k \in Logging!Numbers : k > maxBackups => moved[k] = <<>>
      <4> SUFFICES ASSUME maxBackups > 0, NEW k \in Logging!Numbers, k > maxBackups
                   PROVE  moved[k] = <<>>
        OBVIOUS
      <4>1. k # i + 1 /\ k # i /\ content[k] = <<>>
        BY <1>2, <3>2 DEF Logging!Numbers
      <4> QED
        BY <1>3, <4>1
    <3> HIDE DEF moved
    <3> QED
      BY <1>1, <3>1, <3>3, <3>4, <3>5, ContentStep
  <2> QED
    BY <2>1, <2>2
<1>5. Rotation'
  <2> HIDE DEF i
  <2>1. CASE i > 0
    <3>1. /\ i - 1 \in Logging!Numbers /\ (i - 1) + 1 \in Logging!Numbers
          /\ maxBackups > 0 => i - 1 <= maxBackups /\ i - 1 < maxBackups
      BY <1>2, <2>1 DEF Logging!Numbers
    <3>2. timer' = [at |-> "shift", i |-> i - 1]
      BY <1>1, <1>2, <2>1
    <3>3. timer'.at = "shift" /\ timer'.i = i - 1
      BY <3>2
    <3> QED
      BY <3>1, <3>2, <3>3 DEF Rotation, Logging!Numbers
  <2>2. CASE ~(i > 0)
    <3>1. timer' = [timer EXCEPT !.at = "open"]
      BY <1>1, <2>2
    <3> QED
      BY <1>2, <3>1 DEF Rotation, Logging!Numbers
  <2> QED
    BY <2>1, <2>2
<1>6. LoggerShape'
  BY <1>1 DEF LoggingInv, LoggerShape, Messages
<1> QED
  BY <1>4, <1>5, <1>6 DEF LoggingInv

LEMMA BackupsExist ==
  ASSUME LoggingInv, \E k \in 1 .. MaxFiles : disk[fileName][k] = <<>>
  PROVE  /\ Logging!Backups(fileName) \in Logging!Numbers
         /\ Logging!Backups(fileName) + 1 \in Logging!Numbers
         /\ maxBackups > 0 => Logging!Backups(fileName) <= maxBackups
<1> USE LogAssumption DEF LogAssumption
<1> DEFINE Full(k) == k \in 1 .. MaxFiles /\ disk[fileName][k] # <<>>
           Counted(k) == /\ \A j \in 1 .. k : disk[fileName][j] # <<>>
                         /\ k + 1 \in Logging!Numbers => disk[fileName][k + 1] = <<>>
           S == {k \in Nat : \A j \in 1 .. k : Full(j)}
<1>1. PICK empty \in 1 .. MaxFiles : disk[fileName][empty] = <<>>
  OBVIOUS
<1>2. \E k \in Logging!Numbers : Counted(k)
  <2> SUFFICES ASSUME \A k \in Logging!Numbers : ~Counted(k)
               PROVE  FALSE
    OBVIOUS
  <2>1. 0 \in S
    OBVIOUS
  <2>2. \A k \in S : k + 1 \in S
    <3> SUFFICES ASSUME NEW k \in S PROVE k + 1 \in S
      OBVIOUS
    <3>1. \A j \in 1 .. k : Full(j)
      OBVIOUS
    <3>2. k < empty
      BY <1>1, <3>1
    <3>3. k \in Logging!Numbers /\ k + 1 \in 1 .. MaxFiles
      BY <1>1, <3>2 DEF Logging!Numbers
    <3>4. ~Counted(k)
      BY <3>3
    <3>5. disk[fileName][k + 1] # <<>>
      BY <3>1, <3>4
    <3>6. Full(k + 1)
      BY <3>3, <3>5
    <3> HIDE DEF Full
    <3>7. \A j \in 1 .. k + 1 : j \in 1 .. k \/ j = k + 1
      OBVIOUS
    <3>8. \A j \in 1 .. k + 1 : Full(j)
      BY <3>1, <3>6, <3>7
    <3> QED
      BY <3>8
  <2>3. S = Nat
    <3> HIDE DEF S
    <3>1. S \in SUBSET Nat
      BY DEF S
    <3> QED
      BY <2>1, <2>2, <3>1, Induction
  <2>4. empty \in S
    BY <2>3
  <2> QED
    BY <1>1, <2>4
<1> DEFINE b == Logging!Backups(fileName)
<1>3. b \in Logging!Numbers /\ Counted(b)
  BY <1>2 DEF Logging!Backups
<1> HIDE DEF b
<1>4. b \in Nat /\ b <= MaxFiles
  BY <1>3 DEF Logging!Numbers
<1>5. b < empty
  BY <1>1, <1>3, <1>4
<1>6. b + 1 \in Logging!Numbers
  BY <1>1, <1>4, <1>5 DEF Logging!Numbers
<1>7. maxBackups > 0 => b <= maxBackups
  <2> SUFFICES ASSUME maxBackups > 0, b > maxBackups PROVE FALSE
    BY <1>4
  <2>1. b \in 1 .. b /\ b \in Logging!Numbers
    BY <1>3, <1>4
  <2>2. disk[fileName][b] # <<>>
    BY <1>3, <2>1
  <2>3. disk[fileName][b] = <<>>
    BY <2>1 DEF LoggingInv, FilesAreCut, LoggerShape
  <2> QED
    BY <2>2, <2>3
<1> QED
  BY <1>3, <1>6, <1>7 DEF b

LEMMA TimerFlushesStep ==
  ASSUME LoggingInv, Logging!TimerFlushes
  PROVE  LoggingInv'
<1>1. Logging!Flush(unflushed) /\ unflushed \in Seq(Nat) /\ unflushed' = <<>>
  BY DEF Logging!TimerFlushes, LoggingInv, LoggerShape
<1>2. FilesAreCut'
  BY <1>1, FlushOrNotStep DEF FlushOrNot
<1>3. LoggerShape'
  <2>1. buffers' = buffers /\ count' = count /\ fileName' = fileName
    BY DEF Logging!TimerFlushes, Logging!process
  <2>2. <<>> \in Seq(Nat)
    OBVIOUS
  <2> QED
    BY <1>1, <2>1, <2>2 DEF LoggingInv, LoggerShape, Messages
<1>4. Rotation'
  <2>1. CASE timer' = Logging!Idle
    BY <2>1, LogAssumption DEF Rotation, Logging!Idle, Logging!Numbers, LogAssumption
  <2>2. CASE /\ \E k \in 1 .. MaxFiles : disk[fileName][k] = <<>>
             /\ timer' = [at |-> "remove", i |-> Logging!Backups(fileName)]
    <3> DEFINE b == Logging!Backups(fileName)
    <3>1. /\ b \in Logging!Numbers /\ b + 1 \in Logging!Numbers
          /\ maxBackups > 0 => b <= maxBackups
      BY <2>2, BackupsExist
    <3>2. timer' = [at |-> "remove", i |-> b]
      BY <2>2
    <3> HIDE DEF b
    <3>3. timer'.at = "remove" /\ timer'.i = b
      BY <3>2
    <3> QED
      BY <3>1, <3>2, <3>3 DEF Rotation, Logging!Numbers
  <2> QED
    BY <2>1, <2>2 DEF Logging!TimerFlushes
<1> QED
  BY <1>2, <1>3, <1>4 DEF LoggingInv

(* A step of which only the files and the messages matter.                 *)
LEMMA LoggerStep ==
  ASSUME LoggingInv, FlushOrNot, LoggerShape', Rotation'
  PROVE  LoggingInv'
BY FlushOrNotStep DEF LoggingInv

LEMMA NumberedAre ==
  ASSUME NEW ms \in Seq(Messages)
  PROVE  Logging!Numbered(ms) \in Seq(Nat)
<1>1. DOMAIN ms = 1 .. Len(ms) /\ Len(ms) \in Nat
  OBVIOUS
<1>2. \A k \in 1 .. Len(ms) : ms[k].n \in Nat
  <2> TAKE k \in 1 .. Len(ms)
  <2>1. ms[k] \in Messages
    BY ElementOfSeq
  <2> QED
    BY <2>1 DEF Messages
<1> QED
  BY <1>1, <1>2 DEF Logging!Numbered

LEMMA WriteStep ==
  ASSUME LoggingInv, NEW ms \in Seq(Messages), Logging!Write(ms)
  PROVE  FlushOrNot /\ unflushed' \in Seq(Nat)
<1>1. unflushed \in Seq(Nat)
  BY DEF LoggingInv, LoggerShape
<1>2. \A k \in 1 .. Len(ms) : SubSeq(ms, 1, k - 1) \in Seq(Messages)
  <2> TAKE k \in 1 .. Len(ms)
  <2>1. k - 1 \in Int /\ \A i \in 1 .. k - 1 : ms[i] \in Messages
    BY ElementOfSeq
  <2> QED
    BY <2>1, SubSeqProperties
<1>3. \A ns \in Seq(Messages) : unflushed \o Logging!Numbered(ns) \in Seq(Nat)
  <2> TAKE ns \in Seq(Messages)
  <2>1. Logging!Numbered(ns) \in Seq(Nat)
    BY NumberedAre
  <2> QED
    BY <1>1, <2>1, ConcatProperties
<1>4. <<>> \in Seq(Nat)
  OBVIOUS
<1>5. CASE /\ \E k \in DOMAIN ms : ms[k].type >= 2
           /\ Logging!Flush(unflushed \o Logging!Numbered(ms)) /\ unflushed' = <<>>
  BY <1>3, <1>4, <1>5 DEF FlushOrNot
<1>6. CASE unflushed' = unflushed \o Logging!Numbered(ms) /\ UNCHANGED Logging!files
  <2>1. unflushed' \in Seq(Nat)
    BY <1>3, <1>6
  <2> QED
    BY <1>6, <2>1 DEF FlushOrNot, Logging!files
<1>7. CASE /\ \E k \in 1 .. Len(ms) :
                Logging!Flush(unflushed \o Logging!Numbered(SubSeq(ms, 1, k - 1)))
           /\ unflushed' = <<>>
  BY <1>2, <1>3, <1>4, <1>7 DEF FlushOrNot
<1>8. CASE UNCHANGED <<open, unflushed, Logging!files>>
  BY <1>1, <1>8 DEF FlushOrNot, Logging!files
<1> QED
  BY <1>5, <1>6, <1>7, <1>8 DEF Logging!Write

LEMMA LogStep ==
  ASSUME LoggingInv, NEW t \in Threads, NEW type \in Types,
         Logging!msgHandler(t, type)
  PROVE  LoggingInv'
<1> DEFINE m == [n |-> count + 1, type |-> type]
           held == IF Len(buffers[t]) < bufferSize THEN Append(buffers[t], m)
                   ELSE Tail(Append(buffers[t], m))
<1>1. buffers[t] \in Seq(Messages) /\ m \in Messages
  <2>1. buffers[t] \in Seq(Messages) /\ count + 1 \in Nat
    BY DEF LoggingInv, LoggerShape
  <2> QED
    BY <2>1 DEF Messages
<1>2. held \in Seq(Messages)
  <2> HIDE DEF m
  <2>1. Append(buffers[t], m) \in Seq(Messages) /\ Append(buffers[t], m) # <<>>
    BY <1>1, AppendProperties
  <2>2. Tail(Append(buffers[t], m)) \in Seq(Messages)
    BY <2>1, HeadTailProperties
  <2> QED
    BY <2>1, <2>2
<1>3. /\ count' = count + 1 /\ fileName' = fileName /\ timer' = timer
      /\ \/ Logging!Write(held) /\ buffers' = [buffers EXCEPT ![t] = <<>>]
         \/ /\ buffers' = [buffers EXCEPT ![t] = held]
            /\ UNCHANGED <<open, unflushed, Logging!files>>
         \/ Logging!Write(<<m>>) /\ UNCHANGED buffers
         \/ UNCHANGED <<buffers, open, unflushed, Logging!files>>
  BY DEF Logging!msgHandler, Logging!Log
<1>4. <<m>> \in Seq(Messages)
  <2> HIDE DEF m
  <2> QED
    BY <1>1
<1> HIDE DEF held, m
<1>5. Rotation'
  BY <1>3 DEF LoggingInv, Rotation, Logging!Numbers
<1>6. \A b \in Seq(Messages) : [buffers EXCEPT ![t] = b] \in [Threads -> Seq(Messages)]
  BY DEF LoggingInv, LoggerShape
<1>7. <<>> \in Seq(Messages) /\ count' \in Nat /\ fileName' \in Names
      /\ buffers \in [Threads -> Seq(Messages)] /\ unflushed \in Seq(Nat)
  BY <1>3 DEF LoggingInv, LoggerShape
<1>8. CASE Logging!Write(held) /\ buffers' = [buffers EXCEPT ![t] = <<>>]
  <2>1. FlushOrNot /\ unflushed' \in Seq(Nat)
    BY <1>2, <1>8, WriteStep
  <2>2. buffers' \in [Threads -> Seq(Messages)]
    BY <1>6, <1>7, <1>8
  <2> QED
    BY <1>5, <1>7, <2>1, <2>2, LoggerStep DEF LoggerShape, Messages
<1>9. CASE /\ buffers' = [buffers EXCEPT ![t] = held]
           /\ UNCHANGED <<open, unflushed, Logging!files>>
  <2>1. FlushOrNot /\ unflushed' \in Seq(Nat)
    BY <1>7, <1>9 DEF FlushOrNot, Logging!files
  <2>2. buffers' \in [Threads -> Seq(Messages)]
    BY <1>2, <1>6, <1>9
  <2> QED
    BY <1>5, <1>7, <2>1, <2>2, LoggerStep DEF LoggerShape, Messages
<1>10. CASE Logging!Write(<<m>>) /\ UNCHANGED buffers
  <2>1. FlushOrNot /\ unflushed' \in Seq(Nat)
    BY <1>4, <1>10, WriteStep
  <2> QED
    BY <1>5, <1>7, <1>10, <2>1, LoggerStep DEF LoggerShape, Messages
<1>11. CASE UNCHANGED <<buffers, open, unflushed, Logging!files>>
  <2>1. FlushOrNot /\ unflushed' \in Seq(Nat)
    BY <1>7, <1>11 DEF FlushOrNot, Logging!files
  <2> QED
    BY <1>5, <1>7, <1>11, <2>1, LoggerStep DEF LoggerShape, Messages
<1> QED
  BY <1>3, <1>8, <1>9, <1>10, <1>11

LEMMA TimerStandsStep ==
  ASSUME LoggingInv,
         \/ Logging!TimerTests \/ Logging!RemovedEnough \/ Logging!Reopen
  PROVE  LoggingInv'
<1> USE LogAssumption DEF LogAssumption
<1>1. /\ timer \in [at : {"idle", "test", "remove", "shift", "open", "stuck"}, i : Logging!Numbers]
      /\ unflushed \in Seq(Nat) /\ fileName \in Names /\ count \in Nat
      /\ buffers \in [Threads -> Seq(Messages)]
  BY DEF LoggingInv, Rotation, LoggerShape
<1>2. /\ buffers' = buffers /\ count' = count /\ fileName' = fileName /\ unflushed' = unflushed
      /\ UNCHANGED <<disk, written>>
  BY DEF Logging!TimerTests, Logging!RemovedEnough, Logging!Reopen, Logging!process,
     Logging!files
<1>3. LoggerShape'
  BY <1>1, <1>2 DEF LoggerShape, Messages
<1>4. Rotation'
  <2>1. CASE Logging!TimerTests
    BY <1>1, <2>1 DEF Logging!TimerTests, Rotation, Logging!Numbers
  <2>2. CASE Logging!RemovedEnough
    <3>1. /\ timer.at = "remove" /\ timer' = [timer EXCEPT !.at = "shift"]
          /\ ~(maxBackups > 0 /\ timer.i >= maxBackups)
      BY <2>2 DEF Logging!RemovedEnough
    <3>2. /\ timer.i \in Logging!Numbers /\ timer.i + 1 \in Logging!Numbers /\ timer.i \in Int
          /\ maxBackups > 0 => timer.i <= maxBackups
      BY <1>1, <3>1 DEF LoggingInv, Rotation, Logging!Numbers
    <3>3. timer' = [at |-> "shift", i |-> timer.i]
      BY <1>1, <3>1
    <3>4. timer'.i = timer.i /\ timer'.at = "shift"
      BY <3>3
    <3>5. maxBackups > 0 => timer.i <= maxBackups /\ timer.i < maxBackups
      BY <3>1, <3>2
    <3> QED
      BY <3>2, <3>3, <3>4, <3>5 DEF Rotation, Logging!Numbers
  <2>3. CASE Logging!Reopen
    <3>1. timer' \in {Logging!Idle, [timer EXCEPT !.at = "stuck"]}
      BY <2>3 DEF Logging!Reopen
    <3>2. CASE timer' = Logging!Idle
      BY <3>2 DEF Rotation, Logging!Idle, Logging!Numbers
    <3>3. CASE timer' = [timer EXCEPT !.at = "stuck"]
      BY <1>1, <3>3 DEF Rotation, Logging!Numbers
    <3> QED
      BY <3>1, <3>2, <3>3
  <2> QED
    BY <2>1, <2>2, <2>3
<1> QED
  BY <1>2, <1>3, <1>4, LoggerStep DEF FlushOrNot

LEMMA ClearStep ==
  ASSUME LoggingInv, NEW t \in Threads, Logging!Clear(t)
  PROVE  LoggingInv'
<1>1. /\ buffers' = [buffers EXCEPT ![t] = <<>>] /\ count' = count /\ fileName' = fileName
      /\ unflushed' = unflushed /\ timer' = timer /\ UNCHANGED <<disk, written>>
  BY DEF Logging!Clear, Logging!files
<1>2. <<>> \in Seq(Messages)
  OBVIOUS
<1>3. buffers' \in [Threads -> Seq(Messages)]
  BY <1>1, <1>2 DEF LoggingInv, LoggerShape
<1>4. LoggerShape'
  BY <1>1, <1>3 DEF LoggingInv, LoggerShape, Messages
<1>5. Rotation'
  BY <1>1 DEF LoggingInv, Rotation, Logging!Numbers
<1> QED
  BY <1>1, <1>4, <1>5, LoggerStep DEF FlushOrNot

LEMMA CloseFlushes ==
  ASSUME LoggingInv, Logging!close
  PROVE  FlushOrNot /\ unflushed' = <<>>
<1>1. unflushed \in Seq(Nat)
  BY DEF LoggingInv, LoggerShape
<1> QED
  BY <1>1 DEF Logging!close, FlushOrNot, Logging!files

LEMMA RefreshStep ==
  ASSUME LoggingInv, NEW n \in Names, Logging!RefreshSettings(n)
  PROVE  LoggingInv'
<1> USE LogAssumption DEF LogAssumption
<1>1. /\ fileName' = n /\ timer' = [timer EXCEPT !.at = "open"] /\ buffers' = buffers
      /\ count' = count /\ Logging!close
  BY DEF Logging!RefreshSettings, Logging!process
<1>2. FlushOrNot /\ unflushed' = <<>>
  BY <1>1, CloseFlushes
<1>3. <<>> \in Seq(Nat)
  OBVIOUS
<1>4. LoggerShape'
  BY <1>1, <1>2, <1>3 DEF LoggingInv, LoggerShape, Messages
<1>5. Rotation'
  <2>1. timer \in [at : {"idle", "test", "remove", "shift", "open", "stuck"}, i : Logging!Numbers]
    BY DEF LoggingInv, Rotation
  <2> QED
    BY <1>1, <2>1 DEF Rotation, Logging!Numbers
<1> QED
  BY <1>2, <1>4, <1>5, LoggerStep

LEMMA RestartStep ==
  ASSUME LoggingInv, Logging!Crash \/ Logging!Quit
  PROVE  LoggingInv'
<1>1. /\ buffers' = [t \in Threads |-> <<>>] /\ unflushed' = <<>> /\ timer' = Logging!Idle
      /\ fileName' = fileName /\ count' = count
  BY DEF Logging!Crash, Logging!Quit, Logging!Restarted
<1>2. FlushOrNot
  <2>1. CASE Logging!Crash
    BY <2>1 DEF Logging!Crash, Logging!files, FlushOrNot
  <2>2. CASE Logging!Quit
    BY <2>2, CloseFlushes DEF Logging!Quit
  <2> QED
    BY <2>1, <2>2
<1>3. <<>> \in Seq(Nat) /\ <<>> \in Seq(Messages)
  OBVIOUS
<1>4. buffers' \in [Threads -> Seq(Messages)]
  BY <1>1, <1>3
<1>5. LoggerShape'
  BY <1>1, <1>3, <1>4 DEF LoggingInv, LoggerShape, Messages
<1>6. Rotation'
  BY <1>1, LogAssumption DEF Rotation, Logging!Idle, Logging!Numbers, LogAssumption
<1> QED
  BY <1>2, <1>5, <1>6, LoggerStep

LEMMA LoggingStep ==
  ASSUME LoggingInv, [Logging!Next]_(Logging!vars)
  PROVE  LoggingInv'
<1>1. CASE UNCHANGED Logging!vars
  <2>1. /\ buffers' = buffers /\ count' = count /\ fileName' = fileName /\ timer' = timer
        /\ unflushed' = unflushed /\ UNCHANGED <<disk, written>>
    BY <1>1 DEF Logging!vars, Logging!process, Logging!files
  <2>2. LoggerShape'
    BY <2>1 DEF LoggingInv, LoggerShape, Messages
  <2>3. Rotation'
    BY <2>1 DEF LoggingInv, Rotation, Logging!Numbers
  <2> QED
    BY <2>1, <2>2, <2>3, LoggerStep DEF FlushOrNot
<1> QED
  BY <1>1, ClearStep, LogStep, TimerFlushesStep, RemoveBackupStep, ShiftBackupStep,
     TimerStandsStep,
     RefreshStep, RestartStep DEF Logging!Next

LEMMA EmptyIsCut ==
  ASSUME NEW content \in [Logging!Numbers -> Seq(Nat)], NEW log,
         log = <<>>, \A k \in Logging!Numbers : content[k] = <<>>
  PROVE  IsCut(content, log)
<1> DEFINE ends == [k \in Ends |-> 0]
<1>1. ends \in [Ends -> Nat] /\ \A k \in Ends : ends[k] = 0
  OBVIOUS
<1>2. Len(log) = 0 /\ 0 \in Ends
  BY LogAssumption DEF LogAssumption, Ends
<1>3. SubSeq(log, 0 + 1, 0) = <<>>
  BY SubSeqEmpty
<1>4. \A k \in Logging!Numbers : k \in Ends /\ k + 1 \in Ends
  BY LogAssumption DEF LogAssumption, Ends, Logging!Numbers
<1> HIDE DEF ends
<1>5. \A k \in Logging!Numbers : content[k] = SubSeq(log, ends[k + 1] + 1, ends[k])
  BY <1>1, <1>3, <1>4
<1>6. IsCutAt(content, log, ends)
  BY <1>1, <1>2, <1>5 DEF IsCutAt
<1> QED
  BY <1>1, <1>6 DEF IsCut

LEMMA LoggingBegins ==
  ASSUME Logging!Init
  PROVE  LoggingInv
<1>1. <<>> \in Seq(Nat) /\ <<>> \in Seq(Messages)
  OBVIOUS
<1>2. /\ disk = [n \in Names |-> [k \in Logging!Numbers |-> <<>>]]
      /\ written = [n \in Names |-> <<>>]
      /\ buffers = [t \in Threads |-> <<>>] /\ fileName \in Names /\ unflushed = <<>>
      /\ timer = Logging!Idle /\ count = 0
  BY DEF Logging!Init
<1>3. /\ disk \in [Names -> [Logging!Numbers -> Seq(Nat)]] /\ written \in [Names -> Seq(Nat)]
      /\ \A n \in Names : written[n] = <<>> /\ \A k \in Logging!Numbers : disk[n][k] = <<>>
  <2> DEFINE none == [k \in Logging!Numbers |-> <<>>]
             e == <<>>
  <2>1. none \in [Logging!Numbers -> Seq(Nat)] /\ \A k \in Logging!Numbers : none[k] = <<>>
    BY <1>1
  <2>2. disk = [n \in Names |-> none] /\ written = [n \in Names |-> e] /\ e \in Seq(Nat) /\ e = <<>>
    BY <1>1, <1>2
  <2> HIDE DEF none, e
  <2> QED
    BY <2>1, <2>2
<1>4. \A n \in Names : IsCut(disk[n], written[n])
  BY <1>3, EmptyIsCut
<1>5. FilesAreCut
  BY <1>3, <1>4 DEF FilesAreCut
<1>6. LoggerShape
  BY <1>1, <1>2 DEF LoggerShape
<1>7. Rotation
  BY <1>2, LogAssumption DEF Rotation, Logging!Idle, Logging!Numbers, LogAssumption
<1> QED
  BY <1>5, <1>6, <1>7 DEF LoggingInv

LoggingScene == scene = "log" => LoggingInv

LEMMA LoggingSceneStep ==
  ASSUME [Next]_vars, scene = "log"
  PROVE  scene' = "log" /\ [Logging!Next]_(Logging!vars)
<1>1. CASE Next
  BY <1>1 DEF Next
<1>2. CASE UNCHANGED vars
  BY <1>2 DEF vars, sharedVars, logVars, Logging!vars, Logging!process, Logging!files, Logging!bounds
<1> QED
  BY <1>1, <1>2

(* logger.cpp, filelogger.cpp: for any threads, names and settings, what   *)
(* the log and its backups keep is the end of all that reached them, at    *)
(* every point of a rotation, after a crash in the middle of one, and when *)
(* a later life of the program goes on with what it finds.                 *)
THEOREM LogsKeepTheirEnd == Spec => []LogKeepsItsEnd
<1>1. Init => LoggingScene
  BY LoggingBegins DEF Init, LoggingScene
<1>2. LoggingScene /\ [Next]_vars => LoggingScene'
  BY LoggingStep, LoggingSceneStep, SceneStays DEF LoggingScene
<1>3. LoggingScene => LogKeepsItsEnd
  <2> SUFFICES ASSUME LoggingInv, NEW n \in Names
               PROVE  Logging!IsSuffix(Logging!OldestFirst(n), written[n])
    BY DEF LoggingScene, LogKeepsItsEnd, Logging!LogKeepsItsEnd
  <2> DEFINE content == disk[n]
             seqs == [k \in 1 .. (MaxFiles + 1) |-> content[MaxFiles + 1 - k]]
  <2>1. /\ content \in [Logging!Numbers -> Seq(Nat)] /\ written[n] \in Seq(Nat)
        /\ IsCut(content, written[n])
    BY ContentSize
  <2>2. MaxFiles + 1 \in Nat /\ \A k \in 1 .. MaxFiles + 1 : MaxFiles + 1 - k \in Logging!Numbers
    BY LogAssumption DEF LogAssumption, Logging!Numbers
  <2>3. Logging!OldestFirst(n) = Logging!FlattenSeq(seqs)
    BY DEF Logging!OldestFirst
  <2> HIDE DEF content
  <2>4. \A k \in 1 .. MaxFiles + 1 : content[MaxFiles + 1 - k] \in Seq(Nat)
    BY <2>1, <2>2
  <2>5. /\ seqs \in Seq(Seq(Nat)) /\ Len(seqs) = MaxFiles + 1
        /\ \A i \in 1 .. MaxFiles + 1 : seqs[i] = content[MaxFiles + 1 - i]
    BY <2>2, <2>4
  <2> HIDE DEF seqs
  <2> QED
    BY <2>1, <2>3, <2>5, CutIsSuffix
<1> QED
  BY <1>1, <1>2, <1>3, PTL DEF Spec

-----------------------------------------------------------------------------
(***************************************************************************)
(* Cookies.  A text is taken apart word by word, and what it tells part by *)
(* part; each attribute a cookie writes is one more part that sets its     *)
(* field.                                                                  *)
(***************************************************************************)
(* What is computed step by step is determined by its first step.          *)
SameSteps(f, g, N) ==
  f[0] = g[0] /\ \A i \in 1 .. N : f[i - 1] = g[i - 1] => f[i] = g[i]

LEMMA SameResults ==
  ASSUME NEW N \in Nat, NEW f, NEW g, SameSteps(f, g, N)
  PROVE  f[N] = g[N]
<1> DEFINE S == {i \in Nat : i <= N => f[i] = g[i]}
<1>1. 0 \in S
  BY DEF SameSteps
<1>2. \A i \in S : i + 1 \in S
  <2> SUFFICES ASSUME NEW i \in S, i + 1 <= N PROVE f[i + 1] = g[i + 1]
    OBVIOUS
  <2>1. i + 1 \in 1 .. N /\ (i + 1) - 1 = i /\ f[i] = g[i]
    OBVIOUS
  <2> QED
    BY <2>1 DEF SameSteps
<1> HIDE DEF S
<1>3. S = Nat
  BY <1>1, <1>2, Induction DEF S
<1> QED
  BY <1>3 DEF S

NothingRead == [inString |-> FALSE, part |-> <<>>, list |-> <<>>]

SplitRead(s, f) ==
  f = [n \in 0 .. Len(s) |-> IF n = 0 THEN NothingRead
                             ELSE Response!Splits(f[n - 1], s[n])]

Splitting(s, f) ==
  /\ f[0] = NothingRead
  /\ \A n \in 1 .. Len(s) : f[n] = Response!Splits(f[n - 1], s[n])

LEMMA SplitOnce ==
  ASSUME NEW s, Len(s) \in Nat, NEW f, Splitting(s, f)
  PROVE  Response!splitCSV(s) = Response!Closed(f[Len(s)])
<1> DEFINE h == [n \in 0 .. Len(s) |-> f[n]]
           g == CHOOSE r : SplitRead(s, r)
<1>1. SplitRead(s, h)
  <2>1. \A n \in 0 .. Len(s) :
          h[n] = IF n = 0 THEN NothingRead ELSE Response!Splits(h[n - 1], s[n])
    BY DEF Splitting
  <2> QED
    BY <2>1 DEF SplitRead
<1> HIDE DEF h
<1>2. SplitRead(s, g)
  BY <1>1, Zenon
<1> HIDE DEF g
<1>3. \A n \in 0 .. Len(s) :
        g[n] = IF n = 0 THEN NothingRead ELSE Response!Splits(g[n - 1], s[n])
  BY <1>2, Zenon DEF SplitRead
<1>4. /\ g[0] = f[0]
      /\ \A n \in 1 .. Len(s) : g[n] = Response!Splits(g[n - 1], s[n])
  <2>1. 0 \in 0 .. Len(s) /\ \A n \in 1 .. Len(s) : n \in 0 .. Len(s) /\ n # 0
    OBVIOUS
  <2> QED
    BY <1>3, <2>1, Zenon DEF Splitting
<1>5. \A n \in 1 .. Len(s) : g[n - 1] = f[n - 1] => g[n] = f[n]
  BY <1>4, Zenon DEF Splitting
<1>6. SameSteps(g, f, Len(s))
  BY <1>4, <1>5, Zenon DEF SameSteps
<1>7. g[Len(s)] = f[Len(s)]
  BY <1>6, SameResults, Zenon
<1>8. Response!splitCSV(s) = Response!Closed(g[Len(s)])
  BY Zenon DEF Response!splitCSV, SplitRead, NothingRead, g
<1> QED
  BY <1>7, <1>8

Token == Word \cup Response!Attributes \cup {Response!Semi, Response!Eq}
Apart == [inString : {FALSE}, part : Seq(Token), list : Seq(Seq(Token))]

(* Half way through a text: the parts closed, and the one that is not.     *)
Halfway(s, part, list) ==
  \E f : Splitting(s, f) /\ f[Len(s)] = [inString |-> FALSE, part |-> part, list |-> list]

LEMMA OneWord ==
  ASSUME NEW s \in Seq(Token), NEW part \in Seq(Token), NEW list \in Seq(Seq(Token)),
         NEW w \in Token, Halfway(s, part, list)
  PROVE  IF w = Response!Semi
         THEN part # <<>> => Halfway(Append(s, w), <<>>, Append(list, part))
         ELSE Halfway(Append(s, w), Append(part, w), list)
<1>1. PICK f : Splitting(s, f)
               /\ f[Len(s)] = [inString |-> FALSE, part |-> part, list |-> list]
  BY DEF Halfway
<1> DEFINE N == Len(s)
           t == Append(s, w)
           a == [inString |-> FALSE, part |-> part, list |-> list]
           g == [n \in 0 .. N + 1 |-> IF n = N + 1 THEN Response!Splits(f[N], w) ELSE f[n]]
<1>2. N \in Nat /\ Len(t) = N + 1 /\ t[N + 1] = w /\ \A n \in 1 .. N : t[n] = s[n]
  OBVIOUS
<1> HIDE DEF N, t
<1>3. g[N + 1] = Response!Splits(f[N], w) /\ \A n \in 0 .. N : g[n] = f[n]
  BY <1>2
<1> HIDE DEF g
<1>4. Splitting(t, g)
  <2>1. g[0] = NothingRead
    BY <1>1, <1>2, <1>3 DEF Splitting
  <2>2. ASSUME NEW n \in 1 .. N + 1 PROVE g[n] = Response!Splits(g[n - 1], t[n])
    <3>1. CASE n = N + 1
      <4>1. g[n - 1] = f[N]
        BY <1>2, <1>3, <3>1
      <4> QED
        BY <1>2, <1>3, <3>1, <4>1
    <3>2. CASE n # N + 1
      <4>1. n \in 1 .. N /\ n - 1 \in 0 .. N /\ n \in 0 .. N
        BY <1>2, <3>2
      <4>2. f[n] = Response!Splits(f[n - 1], s[n])
        BY <1>1, <4>1 DEF Splitting, N
      <4> QED
        BY <1>2, <1>3, <4>1, <4>2
    <3> QED
      BY <3>1, <3>2
  <2> QED
    BY <1>2, <2>1, <2>2 DEF Splitting
<1>5. g[Len(t)] = Response!Splits(a, w)
  BY <1>1, <1>2, <1>3 DEF N
<1>6. w # Response!Quote
  BY CookiesAssumption DEF Token, Response!Attributes, Response!Semi, Response!Eq, Response!Quote
<1>7. CASE w = Response!Semi
  <2>1. part # <<>> => Response!Splits(a, w) = [inString |-> FALSE, part |-> <<>>,
                                                 list |-> Append(list, part)]
    BY <1>6, <1>7 DEF Response!Splits, Response!Closed
  <2> QED
    BY <1>4, <1>5, <1>7, <2>1 DEF Halfway, t
<1>8. CASE w # Response!Semi
  <2>1. Response!Splits(a, w) = [inString |-> FALSE, part |-> Append(part, w), list |-> list]
    BY <1>6, <1>8 DEF Response!Splits
  <2> QED
    BY <1>4, <1>5, <1>8, <2>1 DEF Halfway, t
<1> QED
  BY <1>7, <1>8

LEMMA SplitParts ==
  ASSUME NEW s \in Seq(Token), NEW part \in Seq(Token), part # <<>>,
         NEW list \in Seq(Seq(Token)), Halfway(s, part, list)
  PROVE  Response!splitCSV(s) = Append(list, part)
  BY SplitOnce DEF Halfway, Response!Closed

LEMMA OneFlag ==
  ASSUME NEW s \in Seq(Token), NEW part \in Seq(Token), part # <<>>,
         NEW list \in Seq(Seq(Token)), Halfway(s, part, list), NEW key \in Response!Attributes
  PROVE  /\ s \o <<Response!Semi, key>> \in Seq(Token)
         /\ Halfway(s \o <<Response!Semi, key>>, <<key>>, Append(list, part))
<1> DEFINE t == Append(s, Response!Semi)
<1>1. Response!Semi \in Token /\ key \in Token /\ key # Response!Semi
  BY DEF Token, Response!Attributes, Response!Semi
<1>2. t \in Seq(Token) /\ s \o <<Response!Semi, key>> = Append(t, key)
  BY <1>1
<1> HIDE DEF t
<1>3. Halfway(t, <<>>, Append(list, part))
  BY <1>1, OneWord DEF t
<1>4. <<>> \in Seq(Token) /\ Append(list, part) \in Seq(Seq(Token)) /\ Append(<<>>, key) = <<key>>
  BY <1>1
<1>5. Halfway(Append(t, key), <<key>>, Append(list, part))
  <2>1. Halfway(Append(t, key), Append(<<>>, key), Append(list, part))
    BY <1>1, <1>2, <1>3, <1>4, OneWord
  <2> QED
    BY <1>4, <2>1
<1>6. Append(t, key) \in Seq(Token)
  BY <1>1, <1>2
<1> QED
  BY <1>2, <1>5, <1>6, Zenon

LEMMA FourWords ==
  ASSUME NEW T, NEW s \in Seq(T), NEW a \in T, NEW b \in T, NEW c \in T, NEW d \in T
  PROVE  s \o <<a, b, c, d>> = Append(Append(s \o <<a, b>>, c), d)
<1> DEFINE p == s \o <<a, b, c, d>>
           t == s \o <<a, b>>
           u == Append(t, c)
           q == Append(u, d)
           N == Len(s)
<1>1. /\ p \in Seq(T) /\ Len(p) = N + 4 /\ N \in Nat
      /\ p[N + 1] = a /\ p[N + 2] = b /\ p[N + 3] = c /\ p[N + 4] = d
      /\ \A k \in 1 .. N : p[k] = s[k]
  OBVIOUS
<1>2. /\ t \in Seq(T) /\ Len(t) = N + 2 /\ t[N + 1] = a /\ t[N + 2] = b
      /\ \A k \in 1 .. N : t[k] = s[k]
  OBVIOUS
<1> HIDE DEF p, t, N
<1>3. /\ u \in Seq(T) /\ Len(u) = N + 3 /\ u[N + 3] = c
      /\ \A k \in 1 .. N + 2 : u[k] = t[k]
  BY <1>1, <1>2
<1> HIDE DEF u
<1>4. /\ q \in Seq(T) /\ Len(q) = N + 4 /\ q[N + 4] = d
      /\ \A k \in 1 .. N + 3 : q[k] = u[k]
  BY <1>1, <1>3
<1> HIDE DEF q
<1>5. ASSUME NEW k \in 1 .. N + 4 PROVE p[k] = q[k]
  <2>1. k \in 1 .. N \/ k = N + 1 \/ k = N + 2 \/ k = N + 3 \/ k = N + 4
    BY <1>1
  <2> QED
    BY <1>1, <1>2, <1>3, <1>4, <2>1
<1>6. p = q
  BY <1>1, <1>4, <1>5
<1> QED
  BY <1>6 DEF p, q, u, t

LEMMA OneNamed ==
  ASSUME NEW s \in Seq(Token), NEW part \in Seq(Token), part # <<>>,
         NEW list \in Seq(Seq(Token)), Halfway(s, part, list), NEW key \in Response!Attributes,
         NEW v \in Word
  PROVE  /\ s \o <<Response!Semi, key, Response!Eq, v>> \in Seq(Token)
         /\ Halfway(s \o <<Response!Semi, key, Response!Eq, v>>, <<key, Response!Eq, v>>,
                    Append(list, part))
<1> DEFINE t == s \o <<Response!Semi, key>>
           u == Append(t, Response!Eq)
           L == Append(list, part)
<1>1. /\ {key, Response!Eq, v} \subseteq Token
      /\ Response!Eq # Response!Semi /\ v # Response!Semi
  BY CookiesAssumption DEF Token, Response!Attributes, Response!Semi, Response!Eq
<1>2. t \in Seq(Token) /\ Halfway(t, <<key>>, L) /\ L \in Seq(Seq(Token))
  BY OneFlag
<1>3. s \o <<Response!Semi, key, Response!Eq, v>> = Append(u, v)
  BY <1>1, FourWords
<1> HIDE DEF t, L
<1>4. u \in Seq(Token) /\ <<key>> \in Seq(Token) /\ <<key, Response!Eq>> \in Seq(Token)
      /\ <<key, Response!Eq>> = Append(<<key>>, Response!Eq)
      /\ <<key, Response!Eq, v>> = Append(<<key, Response!Eq>>, v)
  BY <1>1, <1>2
<1>5. Halfway(u, <<key, Response!Eq>>, L)
  BY <1>1, <1>2, <1>4, OneWord
<1> HIDE DEF u
<1>6. Halfway(Append(u, v), <<key, Response!Eq, v>>, L)
  BY <1>1, <1>2, <1>4, <1>5, OneWord
<1>7. Append(u, v) \in Seq(Token)
  BY <1>1, <1>4
<1>8. Halfway(s \o <<Response!Semi, key, Response!Eq, v>>, <<key, Response!Eq, v>>, L)
  BY <1>3, <1>6, Zenon
<1> QED
  BY <1>3, <1>7, <1>8, Zenon DEF L

(* What a sequence of parts tells.                                         *)
Yes == TRUE
No == FALSE
Zero == 0
One == 1

Untold(memory) ==
  [name |-> None, value |-> None, comment |-> None, domain |-> None, path |-> None,
   maxAge |-> Zero, secure |-> No, httpOnly |-> memory, version |-> One]

ToldRead(parts, memory, f) ==
  f = [n \in 0 .. Len(parts) |-> IF n = 0 THEN Untold(memory)
                                 ELSE Response!Told(f[n - 1], parts[n])]

Telling(parts, memory, f) ==
  /\ f[0] = Untold(memory)
  /\ \A n \in 1 .. Len(parts) : f[n] = Response!Told(f[n - 1], parts[n])

LEMMA ToldOnce ==
  ASSUME NEW s, NEW parts \in Seq(Seq(Token)), Response!splitCSV(s) = parts,
         NEW memory, NEW f, Telling(parts, memory, f)
  PROVE  Response!ParseCookie(s, memory) = f[Len(parts)]
<1> DEFINE h == [n \in 0 .. Len(parts) |-> f[n]]
           g == CHOOSE r : ToldRead(parts, memory, r)
<1>0. Len(parts) \in Nat
  OBVIOUS
<1>1. ToldRead(parts, memory, h)
  <2>1. \A n \in 0 .. Len(parts) :
          h[n] = IF n = 0 THEN Untold(memory) ELSE Response!Told(h[n - 1], parts[n])
    BY <1>0 DEF Telling
  <2> QED
    BY <2>1 DEF ToldRead
<1> HIDE DEF h
<1>2. ToldRead(parts, memory, g)
  BY <1>1, Zenon
<1> HIDE DEF g
<1>3. \A n \in 0 .. Len(parts) :
        g[n] = IF n = 0 THEN Untold(memory) ELSE Response!Told(g[n - 1], parts[n])
  BY <1>2, Zenon DEF ToldRead
<1>4. /\ g[0] = f[0]
      /\ \A n \in 1 .. Len(parts) : g[n] = Response!Told(g[n - 1], parts[n])
  <2>1. 0 \in 0 .. Len(parts) /\ \A n \in 1 .. Len(parts) : n \in 0 .. Len(parts) /\ n # 0
    BY <1>0
  <2> QED
    BY <1>3, <2>1, Zenon DEF Telling
<1>5. \A n \in 1 .. Len(parts) : g[n - 1] = f[n - 1] => g[n] = f[n]
  BY <1>4, Zenon DEF Telling
<1>6. SameSteps(g, f, Len(parts))
  BY <1>4, <1>5, Zenon DEF SameSteps
<1>7. g[Len(parts)] = f[Len(parts)]
  BY <1>0, <1>6, SameResults, Zenon
<1>8. Response!ParseCookie(s, memory) = g[Len(parts)]
  BY Zenon DEF Response!ParseCookie, ToldRead, Untold, No, Zero, One, g
<1> QED
  BY <1>7, <1>8

Tells(parts, memory, d) == \E f : Telling(parts, memory, f) /\ f[Len(parts)] = d

LEMMA OnePart ==
  ASSUME NEW parts \in Seq(Seq(Token)), NEW memory, NEW d, Tells(parts, memory, d),
         NEW part \in Seq(Token)
  PROVE  Tells(Append(parts, part), memory, Response!Told(d, part))
<1>1. PICK f : Telling(parts, memory, f) /\ f[Len(parts)] = d
  BY DEF Tells
<1> DEFINE N == Len(parts)
           t == Append(parts, part)
           g == [n \in 0 .. N + 1 |-> IF n = N + 1 THEN Response!Told(f[N], part) ELSE f[n]]
<1>2. N \in Nat /\ Len(t) = N + 1 /\ t[N + 1] = part /\ \A n \in 1 .. N : t[n] = parts[n]
  OBVIOUS
<1> HIDE DEF N, t
<1>3. g[N + 1] = Response!Told(f[N], part) /\ \A n \in 0 .. N : g[n] = f[n]
  BY <1>2
<1> HIDE DEF g
<1>4. Telling(t, memory, g)
  <2>1. g[0] = Untold(memory)
    BY <1>1, <1>2, <1>3 DEF Telling
  <2>2. ASSUME NEW n \in 1 .. N + 1 PROVE g[n] = Response!Told(g[n - 1], t[n])
    <3>1. CASE n = N + 1
      <4>1. g[n - 1] = f[N]
        BY <1>2, <1>3, <3>1
      <4> QED
        BY <1>2, <1>3, <3>1, <4>1
    <3>2. CASE n # N + 1
      <4>1. n \in 1 .. N /\ n - 1 \in 0 .. N /\ n \in 0 .. N
        BY <1>2, <3>2
      <4>2. f[n] = Response!Told(f[n - 1], parts[n])
        BY <1>1, <4>1 DEF Telling, N
      <4> QED
        BY <1>2, <1>3, <4>1, <4>2
    <3> QED
      BY <3>1, <3>2
  <2> QED
    BY <1>2, <2>1, <2>2 DEF Telling
<1>5. g[Len(t)] = Response!Told(d, part)
  BY <1>1, <1>2, <1>3 DEF N
<1> QED
  BY <1>4, <1>5 DEF Tells, t

(* A text that has told d so far.                                          *)
Says(s, memory, d) ==
  /\ s \in Seq(Token)
  /\ \E part \in Seq(Token) : \E list \in Seq(Seq(Token)) :
       part # <<>> /\ Halfway(s, part, list) /\ Tells(Append(list, part), memory, d)

LEMMA SaidIsParsed ==
  ASSUME NEW s, NEW memory, NEW d, Says(s, memory, d)
  PROVE  Response!ParseCookie(s, memory) = d
<1>1. PICK part \in Seq(Token), list \in Seq(Seq(Token)) :
        part # <<>> /\ Halfway(s, part, list) /\ Tells(Append(list, part), memory, d)
  BY DEF Says
<1>2. Response!splitCSV(s) = Append(list, part)
  BY <1>1, SplitParts DEF Says
<1>3. PICK f : /\ Telling(Append(list, part), memory, f)
               /\ f[Len(Append(list, part))] = d
  BY <1>1 DEF Tells
<1>4. Append(list, part) \in Seq(Seq(Token))
  OBVIOUS
<1> QED
  BY <1>2, <1>3, <1>4, ToldOnce

LEMMA SaysFlag ==
  ASSUME NEW s, NEW memory, NEW d, Says(s, memory, d), NEW key \in Response!Attributes
  PROVE  Says(s \o <<Response!Semi, key>>, memory, Response!Told(d, <<key>>))
<1>1. PICK part \in Seq(Token), list \in Seq(Seq(Token)) :
        part # <<>> /\ Halfway(s, part, list) /\ Tells(Append(list, part), memory, d)
  BY DEF Says
<1> DEFINE t == s \o <<Response!Semi, key>>
           L == Append(list, part)
<1>2. t \in Seq(Token) /\ Halfway(t, <<key>>, L)
  BY <1>1, OneFlag DEF Says
<1>3. <<key>> \in Seq(Token) /\ <<key>> # <<>> /\ L \in Seq(Seq(Token))
  BY DEF Token
<1> HIDE DEF t, L
<1>4. Tells(Append(L, <<key>>), memory, Response!Told(d, <<key>>))
  BY <1>1, <1>3, OnePart DEF L
<1>5. Says(t, memory, Response!Told(d, <<key>>))
  BY <1>2, <1>3, <1>4, Zenon DEF Says
<1> QED
  BY <1>5 DEF t

LEMMA SaysNamed ==
  ASSUME NEW s, NEW memory, NEW d, Says(s, memory, d), NEW key \in Response!Attributes, NEW v \in Word
  PROVE  Says(s \o <<Response!Semi, key, Response!Eq, v>>, memory,
              Response!Told(d, <<key, Response!Eq, v>>))
<1>1. PICK part \in Seq(Token), list \in Seq(Seq(Token)) :
        part # <<>> /\ Halfway(s, part, list) /\ Tells(Append(list, part), memory, d)
  BY DEF Says
<1> DEFINE t == s \o <<Response!Semi, key, Response!Eq, v>>
           L == Append(list, part)
           p == <<key, Response!Eq, v>>
<1>2. t \in Seq(Token) /\ Halfway(t, p, L)
  BY <1>1, OneNamed DEF Says
<1>3. p \in Seq(Token) /\ p # <<>> /\ L \in Seq(Seq(Token))
  BY DEF Token
<1> HIDE DEF t, L, p
<1>4. Tells(Append(L, p), memory, Response!Told(d, p))
  BY <1>1, <1>3, OnePart DEF L
<1>5. Says(t, memory, Response!Told(d, p))
  BY <1>2, <1>3, <1>4, Zenon DEF Says
<1> QED
  BY <1>5 DEF t, p

LEMMA NamedPart ==
  ASSUME NEW key \in Word \cup Response!Attributes, NEW v \in Word
  PROVE  Response!NameAndValue(<<key, Response!Eq, v>>) = [name |-> <<key>>, value |-> <<v>>]
<1> DEFINE p == <<key, Response!Eq, v>>
           places == {k \in DOMAIN p : p[k] = Response!Eq}
           place == CHOOSE k \in places : \A j \in places : k <= j
<1>1. key # Response!Eq /\ v # Response!Eq
  BY CookiesAssumption DEF Response!Attributes, Response!Eq
<1>2. places = {2}
  BY <1>1
<1>3. place = 2
  BY <1>2
<1>4. SubSeq(p, 1, 2 - 1) = <<key>> /\ SubSeq(p, 2 + 1, Len(p)) = <<v>>
  <2> DEFINE T == {key, Response!Eq, v}
             a == SubSeq(p, 1, 1)
             b == SubSeq(p, 3, 3)
  <2>1. p \in Seq(T) /\ Len(p) = 3 /\ p[1] = key /\ p[3] = v
    OBVIOUS
  <2>2. \A k \in 1 .. 3 : p[k] \in T
    BY <2>1
  <2> HIDE DEF p, T
  <2>3. a \in Seq(T) /\ Len(a) = 1 /\ a[1] = key
    BY <2>1, <2>2, SubSeqProperties
  <2>4. b \in Seq(T) /\ Len(b) = 1 /\ b[1] = v
    BY <2>1, <2>2, SubSeqProperties
  <2> HIDE DEF a, b
  <2>5. a = <<key>> /\ b = <<v>>
    BY <2>3, <2>4
  <2> QED
    BY <2>1, <2>5 DEF a, b
<1>5. Response!NameAndValue(p) =
        IF places = {} THEN [name |-> p, value |-> p]
        ELSE IF place = 1 THEN [name |-> p, value |-> <<>>]
        ELSE [name |-> SubSeq(p, 1, place - 1), value |-> SubSeq(p, place + 1, Len(p))]
  BY Zenon DEF Response!NameAndValue
<1> HIDE DEF p, places, place
<1>6. Response!NameAndValue(p) =
        [name |-> SubSeq(p, 1, 2 - 1), value |-> SubSeq(p, 2 + 1, Len(p))]
  BY <1>2, <1>3, <1>5
<1>7. Response!NameAndValue(p) = [name |-> <<key>>, value |-> <<v>>]
  BY <1>4, <1>6, Zenon
<1> QED
  BY <1>7 DEF p

LEMMA FlagPart ==
  ASSUME NEW key \in Response!Attributes
  PROVE  Response!NameAndValue(<<key>>) = [name |-> <<key>>, value |-> <<key>>]
  BY DEF Response!NameAndValue, Response!Attributes, Response!Eq

LEMMA PlainValue == ASSUME NEW v PROVE Response!FirstWord(<<v>>) = v
  BY DEF Response!FirstWord

LEMMA NumberIsRead ==
  ASSUME NEW n \in DOMAIN Number
  PROVE  Response!ToInt(Number[n]) = n
  BY CookiesAssumption DEF Response!ToInt

(* A cookie of which some attributes have been told.                       *)
Sofar(c, comment, domain, path, maxAge, secure, version) ==
  [name |-> c.name, value |-> c.value, comment |-> comment, domain |-> domain,
   path |-> path, maxAge |-> maxAge, secure |-> secure, httpOnly |-> c.httpOnly,
   version |-> version]

LEMMA NamedPartIsRead ==
  ASSUME NEW name \in Word \cup Response!Attributes, NEW v \in Word
  PROVE  LET p == Response!NameAndValue(<<name, Response!Eq, v>>)
         IN p.name = <<name>> /\ Response!FirstWord(p.name) = name /\ Response!FirstWord(p.value) = v
<1>1. Response!NameAndValue(<<name, Response!Eq, v>>) = [name |-> <<name>>, value |-> <<v>>]
  BY NamedPart
<1>2. Response!FirstWord(<<v>>) = v /\ Response!FirstWord(<<name>>) = name
  BY PlainValue
<1>3. /\ [name |-> <<name>>, value |-> <<v>>].name = <<name>>
      /\ [name |-> <<name>>, value |-> <<v>>].value = <<v>>
  OBVIOUS
<1> QED
  BY <1>1, <1>2, <1>3, Zenon

(* What each attribute sets.                                               *)
LEMMA NamedTells ==
  ASSUME NEW d, NEW v \in Word
  PROVE  /\ Response!Told(d, <<"Comment", Response!Eq, v>>) = [d EXCEPT !.comment = v]
         /\ Response!Told(d, <<"Domain", Response!Eq, v>>) = [d EXCEPT !.domain = v]
         /\ Response!Told(d, <<"Path", Response!Eq, v>>) = [d EXCEPT !.path = v]
         /\ Response!Told(d, <<"Max-Age", Response!Eq, v>>)
              = [d EXCEPT !.maxAge = Response!ToInt(v)]
         /\ Response!Told(d, <<"Version", Response!Eq, v>>)
              = [d EXCEPT !.version = Response!ToInt(v)]
<1>1. ASSUME NEW key \in Response!Attributes
      PROVE  /\ Response!NameAndValue(<<key, Response!Eq, v>>).name = <<key>>
             /\ Response!FirstWord(Response!NameAndValue(<<key, Response!Eq, v>>).value) = v
  BY NamedPartIsRead
<1>2. \A other : \A key \in Response!Attributes : <<key>> = <<other>> <=> key = other
  OBVIOUS
<1>3. Response!Told(d, <<"Comment", Response!Eq, v>>) = [d EXCEPT !.comment = v]
  BY <1>1, <1>2 DEF Response!Told, Response!Attributes
<1>4. Response!Told(d, <<"Domain", Response!Eq, v>>) = [d EXCEPT !.domain = v]
  BY <1>1, <1>2 DEF Response!Told, Response!Attributes
<1>5. Response!Told(d, <<"Path", Response!Eq, v>>) = [d EXCEPT !.path = v]
  BY <1>1, <1>2 DEF Response!Told, Response!Attributes
<1>6. Response!Told(d, <<"Max-Age", Response!Eq, v>>) = [d EXCEPT !.maxAge = Response!ToInt(v)]
  BY <1>1, <1>2 DEF Response!Told, Response!Attributes
<1>7. Response!Told(d, <<"Version", Response!Eq, v>>) = [d EXCEPT !.version = Response!ToInt(v)]
  BY <1>1, <1>2 DEF Response!Told, Response!Attributes
<1> QED
  BY <1>3, <1>4, <1>5, <1>6, <1>7

LEMMA FlagTells ==
  ASSUME NEW d
  PROVE  /\ Response!Told(d, <<"Secure">>) = [d EXCEPT !.secure = TRUE]
         /\ Response!Told(d, <<"HttpOnly">>) = [d EXCEPT !.httpOnly = TRUE]
<1>1. ASSUME NEW key \in Response!Attributes
      PROVE  Response!NameAndValue(<<key>>).name = <<key>>
  <2>1. Response!NameAndValue(<<key>>) = [name |-> <<key>>, value |-> <<key>>]
    BY FlagPart
  <2>2. [name |-> <<key>>, value |-> <<key>>].name = <<key>>
    OBVIOUS
  <2> QED
    BY <2>1, <2>2, Zenon
<1>2. Response!Told(d, <<"Secure">>) = [d EXCEPT !.secure = TRUE]
  BY <1>1 DEF Response!Told, Response!Attributes
<1>3. Response!Told(d, <<"HttpOnly">>) = [d EXCEPT !.httpOnly = TRUE]
  BY <1>1 DEF Response!Told, Response!Attributes
<1> QED
  BY <1>2, <1>3

LEMMA TwoFields ==
  ASSUME NEW d, NEW v, NEW w
  PROVE  [d EXCEPT !.name = v, !.value = w] = [[d EXCEPT !.name = v] EXCEPT !.value = w]
  OBVIOUS

LEMMA NameTells ==
  ASSUME NEW c, c.name \in Word \ Response!Attributes, c.value \in Word
  PROVE  Response!Told(Untold(c.httpOnly), <<c.name, Response!Eq, c.value>>)
           = Sofar(c, None, None, None, Zero, No, One)
<1>1. PICK name, value, memory : name = c.name /\ value = c.value /\ memory = c.httpOnly
  OBVIOUS
<1> DEFINE p == <<name, Response!Eq, value>>
           d == Untold(memory)
           e == [name |-> name, value |-> None, comment |-> None, domain |-> None,
                 path |-> None, maxAge |-> Zero, secure |-> No, httpOnly |-> memory,
                 version |-> One]
           f == [name |-> name, value |-> value, comment |-> None, domain |-> None,
                 path |-> None, maxAge |-> Zero, secure |-> No, httpOnly |-> memory,
                 version |-> One]
<1>2. name \in Word \ Response!Attributes /\ value \in Word
  BY <1>1
<1>3. /\ Response!NameAndValue(p).name = <<name>>
      /\ Response!FirstWord(Response!NameAndValue(p).name) = name
      /\ Response!FirstWord(Response!NameAndValue(p).value) = value
  BY <1>2, NamedPartIsRead
<1>4. \A key \in Response!Attributes : <<name>> # <<key>>
  BY <1>2
<1>5. d.name = None /\ [d EXCEPT !.name = name] = e
  BY DEF Untold
<1>6. [e EXCEPT !.value = value] = f
  OBVIOUS
<1>7. f = Sofar(c, None, None, None, Zero, No, One)
  BY <1>1, Zenon DEF Sofar
<1> HIDE DEF p, d, e, f
<1>8. Response!Told(d, p) = [d EXCEPT !.name = name, !.value = value]
  BY <1>3, <1>4, <1>5 DEF Response!Told, Response!Attributes
<1>9. [d EXCEPT !.name = name, !.value = value] = f
  BY <1>5, <1>6, TwoFields
<1>10. Response!Told(d, p) = Sofar(c, None, None, None, Zero, No, One)
  BY <1>7, <1>8, <1>9
<1> QED
  BY <1>1, <1>10, Zenon DEF p, d

LEMMA NameIsSaid ==
  ASSUME NEW c \in Cookies
  PROVE  Says(<<c.name, Response!Eq, c.value>>, c.httpOnly,
              Sofar(c, None, None, None, Zero, No, One))
<1> DEFINE p == <<c.name, Response!Eq, c.value>>
           f == [n \in {0} |-> NothingRead]
           g == [n \in {0} |-> Untold(c.httpOnly)]
<1>1. c \in Response!Cookie /\ c.name \in Word \ Response!Attributes /\ c.value \in Word
  BY CookiesAssumption DEF Response!Cookie
<1>2. /\ {c.name, c.value, Response!Eq} \subseteq Token
      /\ c.name # Response!Semi /\ c.value # Response!Semi /\ Response!Eq # Response!Semi
  BY <1>1, CookiesAssumption DEF Token, Response!Semi, Response!Eq
<1>3. /\ <<>> \in Seq(Token) /\ <<c.name>> \in Seq(Token)
      /\ <<c.name, Response!Eq>> \in Seq(Token) /\ p \in Seq(Token) /\ p # <<>>
      /\ <<c.name>> = Append(<<>>, c.name)
      /\ <<c.name, Response!Eq>> = Append(<<c.name>>, Response!Eq)
      /\ p = Append(<<c.name, Response!Eq>>, c.value)
      /\ <<>> \in Seq(Seq(Token)) /\ <<p>> = Append(<<>>, p)
  BY <1>2
<1> HIDE DEF p
<1>4. Halfway(<<>>, <<>>, <<>>)
  <2>1. Splitting(<<>>, f) /\ f[Len(<<>>)] = NothingRead
    BY DEF Splitting
  <2> QED
    BY <2>1 DEF Halfway, NothingRead
<1>5. Halfway(<<c.name>>, <<c.name>>, <<>>)
  BY <1>2, <1>3, <1>4, OneWord
<1>6. Halfway(<<c.name, Response!Eq>>, <<c.name, Response!Eq>>, <<>>)
  BY <1>2, <1>3, <1>5, OneWord
<1>7. Halfway(p, p, <<>>)
  BY <1>2, <1>3, <1>6, OneWord
<1>8. Tells(<<>>, c.httpOnly, Untold(c.httpOnly))
  <2>1. Telling(<<>>, c.httpOnly, g) /\ g[Len(<<>>)] = Untold(c.httpOnly)
    BY DEF Telling
  <2> QED
    BY <2>1 DEF Tells
<1>9. Tells(Append(<<>>, p), c.httpOnly, Response!Told(Untold(c.httpOnly), p))
  BY <1>3, <1>8, OnePart
<1>10. Response!Told(Untold(c.httpOnly), p) = Sofar(c, None, None, None, Zero, No, One)
  BY <1>1, NameTells DEF p
<1>11. Tells(Append(<<>>, p), c.httpOnly, Sofar(c, None, None, None, Zero, No, One))
  BY <1>9, <1>10, Zenon
<1>12. Says(p, c.httpOnly, Sofar(c, None, None, None, Zero, No, One))
  BY <1>3, <1>7, <1>11, Zenon DEF Says
<1> QED
  BY <1>12 DEF p

LEMMA NothingMore == ASSUME NEW s \in Seq(Token) PROVE s \o <<>> = s
  OBVIOUS

LEMMA OptionalIsSaid ==
  ASSUME NEW s, NEW memory, NEW d, NEW e, Says(s, memory, d), NEW key \in Response!Attributes,
         NEW v \in Word \cup {None},
         v = None => e = d, v \in Word => e = Response!Told(d, <<key, Response!Eq, v>>)
  PROVE  Says(s \o Response!Named(key, v), memory, e)
<1>1. CASE v = None
  <2>1. s \o Response!Named(key, v) = s
    BY <1>1, NothingMore DEF Response!Named, Says
  <2> QED
    BY <1>1, <2>1, Zenon
<1>2. CASE v # None
  <2>1. Response!Named(key, v) = <<Response!Semi, key, Response!Eq, v>>
    BY <1>2 DEF Response!Named
  <2>2. v \in Word /\ e = Response!Told(d, <<key, Response!Eq, v>>)
    BY <1>2
  <2>3. Says(s \o <<Response!Semi, key, Response!Eq, v>>, memory,
             Response!Told(d, <<key, Response!Eq, v>>))
    BY <2>2, SaysNamed
  <2> QED
    BY <2>1, <2>2, <2>3, Zenon
<1> QED
  BY <1>1, <1>2

LEMMA FlagIsSaid ==
  ASSUME NEW s, NEW memory, NEW d, NEW e, Says(s, memory, d), NEW key \in Response!Attributes,
         NEW b \in BOOLEAN, ~b => e = d, b => e = Response!Told(d, <<key>>)
  PROVE  Says(s \o Response!Flagged(key, b), memory, e)
<1>1. CASE ~b
  <2>1. s \o Response!Flagged(key, b) = s
    BY <1>1, NothingMore DEF Response!Flagged, Says
  <2> QED
    BY <1>1, <2>1, Zenon
<1>2. CASE b
  <2>1. Response!Flagged(key, b) = <<Response!Semi, key>>
    BY <1>2 DEF Response!Flagged
  <2>2. Says(s \o <<Response!Semi, key>>, memory, Response!Told(d, <<key>>))
    BY SaysFlag
  <2> QED
    BY <1>2, <2>1, <2>2, Zenon
<1> QED
  BY <1>1, <1>2

(* toByteArray and the constructor from text are inverse: a cookie is read *)
(* from its text as it was, if it is HttpOnly or finds nothing in memory   *)
(* that makes it so.                                                       *)
THEOREM CookieIsReadBack ==
  ASSUME NEW c \in Cookies
  PROVE  Response!SameCookie(c, Response!toByteArray(c))
<1>0. PICK comment, domain, path, maxAge, secure, httpOnly, version :
        /\ comment = c.comment /\ domain = c.domain /\ path = c.path /\ maxAge = c.maxAge
        /\ secure = c.secure /\ httpOnly = c.httpOnly /\ version = c.version
  OBVIOUS
<1> DEFINE age == IF maxAge = 0 THEN None ELSE Number[maxAge]
           s0 == <<c.name, Response!Eq, c.value>>
           s1 == s0 \o Response!Named("Comment", comment)
           s2 == s1 \o Response!Named("Domain", domain)
           s3 == s2 \o Response!Named("Max-Age", age)
           s4 == s3 \o Response!Named("Path", path)
           s5 == s4 \o Response!Flagged("Secure", secure)
           s6 == s5 \o Response!Flagged("HttpOnly", httpOnly)
           s7 == s6 \o Response!Named("Version", Number[version])
           d0 == Sofar(c, None, None, None, Zero, No, One)
           d1 == Sofar(c, comment, None, None, Zero, No, One)
           d2 == Sofar(c, comment, domain, None, Zero, No, One)
           d3 == Sofar(c, comment, domain, None, maxAge, No, One)
           d4 == Sofar(c, comment, domain, path, maxAge, No, One)
           d5 == Sofar(c, comment, domain, path, maxAge, secure, One)
           d6 == Sofar(c, comment, domain, path, maxAge, secure, version)
<1>1. /\ c \in Response!Cookie
      /\ {maxAge, version} \subseteq DOMAIN Number
      /\ Number[maxAge] \in Word /\ Number[version] \in Word
  BY <1>0, CookiesAssumption
<1>2. /\ {comment, domain, path, age} \subseteq Word \cup {None}
      /\ secure \in BOOLEAN /\ httpOnly \in BOOLEAN
  BY <1>0, <1>1 DEF Response!Cookie
<1>3. Response!toByteArray(c) = s7
  BY <1>0, Zenon DEF Response!toByteArray
<1>4. Says(s0, httpOnly, d0)
  BY <1>0, NameIsSaid
<1>5. None \notin Word
  BY CookiesAssumption
<1>6. {"Comment", "Domain", "Max-Age", "Path", "Secure", "HttpOnly", "Version"}
        \subseteq Response!Attributes
  BY DEF Response!Attributes
<1> HIDE DEF s0
<1>7. Says(s1, httpOnly, d1)
  <2>1. comment = None => d1 = d0
    BY DEF Sofar
  <2>2. comment \in Word =>
          d1 = Response!Told(d0, <<"Comment", Response!Eq, comment>>)
    <3>1. d1 = [d0 EXCEPT !.comment = comment]
      BY DEF Sofar
    <3> QED
      BY <3>1, NamedTells
  <2> QED
    BY <1>2, <1>4, <1>6, <2>1, <2>2, OptionalIsSaid
<1> HIDE DEF s1
<1>8. Says(s2, httpOnly, d2)
  <2>1. domain = None => d2 = d1
    BY DEF Sofar
  <2>2. domain \in Word =>
          d2 = Response!Told(d1, <<"Domain", Response!Eq, domain>>)
    <3>1. d2 = [d1 EXCEPT !.domain = domain]
      BY DEF Sofar
    <3> QED
      BY <3>1, NamedTells
  <2> QED
    BY <1>2, <1>6, <1>7, <2>1, <2>2, OptionalIsSaid
<1> HIDE DEF s2
<1>9. Says(s3, httpOnly, d3)
  <2>1. age = None => d3 = d2
    BY <1>1, <1>5 DEF Zero
  <2>2. age \in Word =>
          d3 = Response!Told(d2, <<"Max-Age", Response!Eq, age>>)
    <3>1. age \in Word => Response!ToInt(age) = maxAge
      BY <1>1, <1>5, NumberIsRead
    <3>2. d3 = [d2 EXCEPT !.maxAge = maxAge]
      BY DEF Sofar
    <3> HIDE DEF age
    <3>3. age \in Word => Response!Told(d2, <<"Max-Age", Response!Eq, age>>)
                             = [d2 EXCEPT !.maxAge = Response!ToInt(age)]
      BY NamedTells
    <3> QED
      BY <3>1, <3>2, <3>3, Zenon
  <2> HIDE DEF age
  <2> QED
    BY <1>2, <1>6, <1>8, <2>1, <2>2, OptionalIsSaid
<1> HIDE DEF s3
<1>10. Says(s4, httpOnly, d4)
  <2>1. path = None => d4 = d3
    BY DEF Sofar
  <2>2. path \in Word =>
          d4 = Response!Told(d3, <<"Path", Response!Eq, path>>)
    <3>1. d4 = [d3 EXCEPT !.path = path]
      BY DEF Sofar
    <3> QED
      BY <3>1, NamedTells
  <2> QED
    BY <1>2, <1>6, <1>9, <2>1, <2>2, OptionalIsSaid
<1> HIDE DEF s4
<1>11. Says(s5, httpOnly, d5)
  <2>1. (secure => secure = Yes) /\ (~secure => secure = No)
    BY <1>2 DEF Yes, No
  <2>2. ~secure => d5 = d4
    BY <2>1
  <2>3. secure => d5 = Response!Told(d4, <<"Secure">>)
    <3>1. d5 = [d4 EXCEPT !.secure = secure]
      BY DEF Sofar
    <3>2. secure => secure = TRUE
      BY <1>2
    <3> QED
      BY <3>1, <3>2, FlagTells, Zenon
  <2> QED
    BY <1>2, <1>6, <1>10, <2>2, <2>3, FlagIsSaid
<1> HIDE DEF s5
<1>12. Says(s6, httpOnly, d5)
  <2>1. httpOnly => d5 = Response!Told(d5, <<"HttpOnly">>)
    <3>1. d5 = [d5 EXCEPT !.httpOnly = httpOnly]
      BY <1>0 DEF Sofar
    <3>2. httpOnly => httpOnly = TRUE
      BY <1>2
    <3> QED
      BY <3>1, <3>2, FlagTells, Zenon
  <2> QED
    BY <1>2, <1>6, <1>11, <2>1, FlagIsSaid
<1> HIDE DEF s6
<1>13. Says(s7, httpOnly, d6)
  <2>1. Response!ToInt(Number[version]) = version
    BY <1>1, NumberIsRead
  <2>2. d6 = Response!Told(d5, <<"Version", Response!Eq, Number[version]>>)
    <3>1. d6 = [d5 EXCEPT !.version = version]
      BY DEF Sofar
    <3>2. Response!Told(d5, <<"Version", Response!Eq, Number[version]>>)
            = [d5 EXCEPT !.version = Response!ToInt(Number[version])]
      BY <1>1, NamedTells
    <3> QED
      BY <2>1, <3>1, <3>2, Zenon
  <2> QED
    BY <1>1, <1>5, <1>6, <1>12, <2>2, OptionalIsSaid
<1>14. d6 = c
  BY <1>0, <1>1 DEF Sofar, Response!Cookie
<1>15. Response!ParseCookie(s7, httpOnly) = c
  BY <1>13, <1>14, SaidIsParsed
<1> QED
  BY <1>2, <1>3, <1>15 DEF Response!SameCookie

-----------------------------------------------------------------------------
(***************************************************************************)
(* Responses.  What is on the wire is a head and a body of one kind, and   *)
(* reading it gives what was written so far.                               *)
(***************************************************************************)
DataRead(kind, s, f) ==
  f = [n \in 0 .. Len(s) |->
         IF n = 0 THEN <<>>
         ELSE IF s[n].kind = kind THEN f[n - 1] \o s[n].data ELSE f[n - 1]]

Reading(kind, s, f) ==
  /\ f[0] = <<>>
  /\ \A n \in 1 .. Len(s) :
       f[n] = IF s[n].kind = kind THEN f[n - 1] \o s[n].data ELSE f[n - 1]

LEMMA DataOnce ==
  ASSUME NEW kind, NEW s, Len(s) \in Nat, NEW f, Reading(kind, s, f)
  PROVE  Response!Data(kind, s) = f[Len(s)]
<1> DEFINE h == [n \in 0 .. Len(s) |-> f[n]]
           g == CHOOSE r : DataRead(kind, s, r)
<1>1. DataRead(kind, s, h)
  <2>1. \A n \in 0 .. Len(s) :
          h[n] = IF n = 0 THEN <<>>
                 ELSE IF s[n].kind = kind THEN h[n - 1] \o s[n].data ELSE h[n - 1]
    BY DEF Reading
  <2> QED
    BY <2>1 DEF DataRead
<1> HIDE DEF h
<1>2. DataRead(kind, s, g)
  BY <1>1, Zenon
<1> HIDE DEF g
<1>3. \A n \in 0 .. Len(s) :
        g[n] = IF n = 0 THEN <<>>
               ELSE IF s[n].kind = kind THEN g[n - 1] \o s[n].data ELSE g[n - 1]
  BY <1>2, Zenon DEF DataRead
<1>4. /\ g[0] = f[0]
      /\ \A n \in 1 .. Len(s) :
           g[n] = IF s[n].kind = kind THEN g[n - 1] \o s[n].data ELSE g[n - 1]
  <2>1. 0 \in 0 .. Len(s) /\ \A n \in 1 .. Len(s) : n \in 0 .. Len(s) /\ n # 0
    OBVIOUS
  <2> QED
    BY <1>3, <2>1, Zenon DEF Reading
<1>5. \A n \in 1 .. Len(s) : g[n - 1] = f[n - 1] => g[n] = f[n]
  BY <1>4, Zenon DEF Reading
<1>6. SameSteps(g, f, Len(s))
  BY <1>4, <1>5, Zenon DEF SameSteps
<1>7. g[Len(s)] = f[Len(s)]
  BY <1>6, SameResults, Zenon
<1>8. Response!Data(kind, s) = g[Len(s)]
  BY Zenon DEF Response!Data, DataRead, g
<1> QED
  BY <1>7, <1>8

(* w is read from the items of a kind in s.                                *)
IsSeq(s) == \E S : s \in Seq(S)
Reads(kind, s, w) == IsSeq(s) /\ \E f : Reading(kind, s, f) /\ f[Len(s)] = w

LEMMA ReadData ==
  ASSUME NEW kind, NEW s, NEW w, Reads(kind, s, w)
  PROVE  Response!Data(kind, s) = w
<1>1. PICK S, f : s \in Seq(S) /\ Reading(kind, s, f) /\ f[Len(s)] = w
  BY DEF Reads, IsSeq
<1>2. Len(s) \in Nat
  BY <1>1
<1> QED
  BY <1>1, <1>2, DataOnce

LEMMA ReadNothing == ASSUME NEW kind PROVE Reads(kind, <<>>, <<>>)
<1> DEFINE f == [n \in {0} |-> <<>>]
<1>1. Reading(kind, <<>>, f) /\ f[Len(<<>>)] = <<>>
  BY DEF Reading
<1>2. <<>> \in Seq({})
  OBVIOUS
<1> QED
  BY <1>1, <1>2, Zenon DEF Reads, IsSeq

LEMMA OneMore ==
  ASSUME NEW s, IsSeq(s), NEW x
  PROVE  /\ IsSeq(Append(s, x)) /\ Len(s) \in Nat
         /\ Len(Append(s, x)) = Len(s) + 1 /\ Append(s, x)[Len(s) + 1] = x
         /\ \A n \in 1 .. Len(s) : Append(s, x)[n] = s[n]
<1>1. PICK S : s \in Seq(S)
  BY DEF IsSeq
<1>2. s \in Seq(S \cup {x})
  BY <1>1
<1>3. Append(s, x) \in Seq(S \cup {x})
  BY <1>2
<1>4. IsSeq(Append(s, x))
  BY <1>3 DEF IsSeq
<1> QED
  BY <1>2, <1>4

LEMMA ReadOne ==
  ASSUME NEW kind, NEW s, NEW w, Reads(kind, s, w), NEW x
  PROVE  Reads(kind, Append(s, x), IF x.kind = kind THEN w \o x.data ELSE w)
<1>1. PICK f : Reading(kind, s, f) /\ f[Len(s)] = w
  BY DEF Reads
<1> DEFINE N == Len(s)
           t == Append(s, x)
           v == IF x.kind = kind THEN f[N] \o x.data ELSE f[N]
           g == [n \in 0 .. N + 1 |-> IF n = N + 1 THEN v ELSE f[n]]
<1>2. N \in Nat /\ Len(t) = N + 1 /\ t[N + 1] = x /\ IsSeq(t) /\ \A n \in 1 .. N : t[n] = s[n]
  BY OneMore DEF Reads
<1> HIDE DEF N, t, v
<1>3. g[N + 1] = v /\ \A n \in 0 .. N : g[n] = f[n]
  BY <1>2
<1> HIDE DEF g
<1>4. Reading(kind, t, g)
  <2>1. g[0] = <<>>
    BY <1>1, <1>2, <1>3 DEF Reading
  <2>2. ASSUME NEW n \in 1 .. N + 1
        PROVE  g[n] = IF t[n].kind = kind THEN g[n - 1] \o t[n].data ELSE g[n - 1]
    <3>1. CASE n = N + 1
      <4>1. g[n - 1] = f[N]
        BY <1>2, <1>3, <3>1
      <4>2. t[n] = x /\ g[n] = v
        BY <1>2, <1>3, <3>1
      <4> QED
        BY <4>1, <4>2, Zenon DEF v
    <3>2. CASE n # N + 1
      <4>1. n \in 1 .. N /\ n - 1 \in 0 .. N /\ n \in 0 .. N
        BY <1>2, <3>2
      <4>2. f[n] = IF s[n].kind = kind THEN f[n - 1] \o s[n].data ELSE f[n - 1]
        BY <1>1, <4>1 DEF Reading, N
      <4>3. t[n] = s[n] /\ g[n] = f[n] /\ g[n - 1] = f[n - 1]
        BY <1>2, <1>3, <4>1
      <4> QED
        BY <4>2, <4>3, Zenon
    <3> QED
      BY <3>1, <3>2
  <2> QED
    BY <1>2, <2>1, <2>2 DEF Reading
<1>5. g[Len(t)] = v
  BY <1>2, <1>3
<1>6. v = IF x.kind = kind THEN w \o x.data ELSE w
  BY <1>1 DEF N, v
<1>7. Reads(kind, t, v)
  BY <1>2, <1>4, <1>5, Zenon DEF Reads
<1> QED
  BY <1>6, <1>7, Zenon DEF t

(* What is on the wire when the head and the body written so far are sent. *)
Kind(chunked) == IF chunked THEN "chunk" ELSE "data"
Framed(s, head, chunked, last, w) ==
  /\ Reads(Kind(chunked), s, w)
  /\ Len(s) >= 1 /\ s[1] = head
  /\ \A i \in 2 .. Len(s) :
       s[i].kind = Kind(chunked) \/ (chunked /\ s[i].kind = "end")
  /\ chunked /\ last => s[Len(s)].kind = "end"

LEMMA HeadIsFramed ==
  ASSUME NEW head, head.kind = "head", NEW chunked \in BOOLEAN
  PROVE  Framed(<<head>>, head, chunked, FALSE, <<>>)
<1>1. Reads(Kind(chunked), Append(<<>>, head), <<>>)
  BY ReadNothing, ReadOne DEF Kind
<1>2. Append(<<>>, head) = <<head>>
  OBVIOUS
<1>3. Len(<<head>>) = 1 /\ <<head>>[1] = head
  OBVIOUS
<1> QED
  BY <1>1, <1>2, <1>3 DEF Framed

LEMMA PartIsFramed ==
  ASSUME NEW s, NEW head, NEW chunked \in BOOLEAN, NEW w, Framed(s, head, chunked, FALSE, w),
         NEW d
  PROVE  Framed(Append(s, [kind |-> Kind(chunked), data |-> d]), head, chunked, FALSE, w \o d)
<1> DEFINE x == [kind |-> Kind(chunked), data |-> d]
           t == Append(s, x)
<1>1. x.kind = Kind(chunked) /\ x.data = d
  OBVIOUS
<1> HIDE DEF x
<1>2. Reads(Kind(chunked), t, w \o d)
  BY <1>1, ReadOne DEF Framed
<1>3. /\ Len(s) \in Nat /\ Len(t) = Len(s) + 1 /\ t[Len(s) + 1] = x
      /\ \A n \in 1 .. Len(s) : t[n] = s[n]
  BY OneMore DEF Framed, Reads
<1> HIDE DEF t
<1>4. t[1] = head
  BY <1>3 DEF Framed
<1>5. \A i \in 2 .. Len(t) : t[i].kind = Kind(chunked) \/ (chunked /\ t[i].kind = "end")
  <2> SUFFICES ASSUME NEW i \in 2 .. Len(t)
               PROVE  t[i].kind = Kind(chunked) \/ (chunked /\ t[i].kind = "end")
    OBVIOUS
  <2>1. CASE i = Len(s) + 1
    BY <1>1, <1>3, <2>1
  <2>2. CASE i # Len(s) + 1
    <3>1. i \in 2 .. Len(s) /\ t[i] = s[i]
      BY <1>3, <2>2
    <3> QED
      BY <3>1 DEF Framed
  <2> QED
    BY <2>1, <2>2
<1>6. Len(t) >= 1
  BY <1>3 DEF Framed
<1>7. Framed(t, head, chunked, FALSE, w \o d)
  BY <1>2, <1>4, <1>5, <1>6 DEF Framed
<1> QED
  BY <1>7, Zenon DEF t, x

LEMMA EndIsFramed ==
  ASSUME NEW s, NEW head, NEW w, Framed(s, head, TRUE, FALSE, w)
  PROVE  Framed(Append(s, [kind |-> "end"]), head, TRUE, TRUE, w)
<1> DEFINE x == [kind |-> "end"]
           t == Append(s, x)
<1>1. x.kind = "end" /\ x.kind # Kind(TRUE)
  BY DEF Kind
<1> HIDE DEF x
<1>2. Reads(Kind(TRUE), t, w)
  <2>1. Reads(Kind(TRUE), t, IF x.kind = Kind(TRUE) THEN w \o x.data ELSE w)
    BY ReadOne DEF Framed
  <2> QED
    BY <1>1, <2>1, Zenon
<1>3. /\ Len(s) \in Nat /\ Len(t) = Len(s) + 1 /\ t[Len(s) + 1] = x
      /\ \A n \in 1 .. Len(s) : t[n] = s[n]
  BY OneMore DEF Framed, Reads
<1> HIDE DEF t
<1>4. t[1] = head
  BY <1>3 DEF Framed
<1>5. \A i \in 2 .. Len(t) : t[i].kind = Kind(TRUE) \/ t[i].kind = "end"
  <2> SUFFICES ASSUME NEW i \in 2 .. Len(t)
               PROVE  t[i].kind = Kind(TRUE) \/ t[i].kind = "end"
    OBVIOUS
  <2>1. CASE i = Len(s) + 1
    BY <1>1, <1>3, <2>1
  <2>2. CASE i # Len(s) + 1
    <3>1. i \in 2 .. Len(s) /\ t[i] = s[i]
      BY <1>3, <2>2
    <3> QED
      BY <3>1 DEF Framed
  <2> QED
    BY <2>1, <2>2
<1>6. Len(t) >= 1 /\ t[Len(t)].kind = "end"
  BY <1>1, <1>3 DEF Framed
<1>7. Framed(t, head, TRUE, TRUE, w)
  BY <1>2, <1>4, <1>5, <1>6 DEF Framed
<1> QED
  BY <1>7, Zenon DEF t, x

LEMMA BodyIsJoined ==
  ASSUME NEW T, NEW s \in Seq(T), NEW x \in T, NEW e \in T
  PROVE  /\ s \o (<<>> \o <<>>) = s
         /\ s \o (<<x>> \o <<>>) = Append(s, x)
         /\ s \o (<<>> \o <<e>>) = Append(s, e)
         /\ s \o (<<x>> \o <<e>>) = Append(Append(s, x), e)
<1>1. /\ <<>> \o <<>> = <<>> /\ <<x>> \o <<>> = <<x>> /\ <<>> \o <<e>> = <<e>>
      /\ <<x>> \o <<e>> = <<x, e>>
  <2>1. <<>> \in Seq(T) /\ <<x>> \in Seq(T) /\ <<e>> \in Seq(T)
    OBVIOUS
  <2>2. \A t \in Seq(T) : t \o <<>> = t /\ <<>> \o t = t
    OBVIOUS
  <2>3. <<x>> \o <<e>> = <<x, e>>
    <3>1. \A t \in Seq(T) : t \o <<e>> = Append(t, e)
      OBVIOUS
    <3>2. /\ <<x, e>> \in Seq(T) /\ Len(<<x, e>>) = 2
          /\ <<x, e>>[1] = x /\ <<x, e>>[2] = e
      OBVIOUS
    <3>3. /\ Append(<<x>>, e) \in Seq(T) /\ Len(Append(<<x>>, e)) = 2
          /\ Append(<<x>>, e)[1] = x /\ Append(<<x>>, e)[2] = e
      BY <2>1
    <3>4. \A t, u \in Seq(T) : Len(t) = 2 /\ Len(u) = 2 /\ t[1] = u[1] /\ t[2] = u[2] => t = u
      OBVIOUS
    <3>5. Append(<<x>>, e) = <<x, e>>
      BY <3>2, <3>3, <3>4, Zenon
    <3> QED
      BY <2>1, <3>1, <3>5, Zenon
  <2> QED
    BY <2>1, <2>2, <2>3, Zenon
<1>2. s \o <<>> = s /\ s \o <<x>> = Append(s, x) /\ s \o <<e>> = Append(s, e)
  OBVIOUS
<1>3. s \o <<x, e>> = Append(Append(s, x), e)
  OBVIOUS
<1> QED
  BY <1>1, <1>2, <1>3, Zenon

(* One write, of a handler's words or those of a redirection.              *)
Bytes == STRING \cup {"Redirect"}

LEMMA BodyIsFramed ==
  ASSUME NEW s, NEW head, NEW chunked \in BOOLEAN, NEW w \in Seq(Bytes),
         Framed(s, head, chunked, FALSE, w), NEW d \in Seq(Bytes), NEW last \in BOOLEAN
  PROVE  /\ Framed(s \o Response!Body(d, last, chunked), head, chunked, last, w \o d)
         /\ IsSeq(Response!Body(d, last, chunked))
<1> DEFINE x == [kind |-> Kind(chunked), data |-> d]
           e == [kind |-> "end"]
           p == IF d = <<>> THEN <<>> ELSE <<x>>
           q == IF last /\ chunked THEN <<e>> ELSE <<>>
           r == IF d = <<>> THEN s ELSE Append(s, x)
<1>1. PICK S : s \in Seq(S)
  BY DEF Framed, Reads, IsSeq
<1>2. Response!Body(d, last, chunked) = p \o q
  BY Zenon DEF Response!Body, Kind
<1>3. Framed(r, head, chunked, FALSE, w \o d)
  <2>1. CASE d = <<>>
    <3>1. w \o d = w
      BY <2>1
    <3> QED
      BY <2>1, <3>1, Zenon
  <2>2. CASE d # <<>>
    BY <2>2, PartIsFramed
  <2> QED
    BY <2>1, <2>2
<1> HIDE DEF x, e
<1>4. s \o (p \o q) = IF last /\ chunked THEN Append(r, e) ELSE r
  <2> DEFINE T == S \cup {x, e}
  <2>1. s \in Seq(T) /\ x \in T /\ e \in T
    BY <1>1
  <2> HIDE DEF T
  <2>2. CASE d = <<>> /\ (last /\ chunked)
    BY <2>1, <2>2, BodyIsJoined
  <2>3. CASE d = <<>> /\ ~(last /\ chunked)
    BY <2>1, <2>3, BodyIsJoined
  <2>4. CASE d # <<>> /\ ~(last /\ chunked)
    <3>1. p = <<x>> /\ q = <<>> /\ r = Append(s, x)
      BY <2>4
    <3> QED
      BY <2>1, <2>4, <3>1, BodyIsJoined
  <2>5. CASE d # <<>> /\ last /\ chunked
    <3>1. p = <<x>> /\ q = <<e>> /\ r = Append(s, x)
      BY <2>5
    <3> QED
      BY <2>1, <2>5, <3>1, BodyIsJoined
  <2> QED
    BY <2>2, <2>3, <2>4, <2>5
<1>5. p \o q \in Seq({x, e})
  <2>1. {<<>>, <<x>>, <<e>>} \subseteq Seq({x, e})
    OBVIOUS
  <2>2. p \in {<<>>, <<x>>, <<e>>} /\ q \in {<<>>, <<x>>, <<e>>}
    BY Zenon
  <2> HIDE DEF p, q
  <2>3. p \in Seq({x, e}) /\ q \in Seq({x, e})
    BY <2>1, <2>2, Zenon
  <2> QED
    BY <2>3
<1> HIDE DEF r, p, q
<1>6. Framed(s \o (p \o q), head, chunked, last, w \o d)
  <2>1. CASE last /\ chunked
    <3>1. last = TRUE /\ chunked = TRUE
      BY <2>1
    <3>2. Framed(Append(r, e), head, TRUE, TRUE, w \o d)
      BY <1>3, <3>1, EndIsFramed DEF e
    <3> QED
      BY <1>4, <2>1, <3>1, <3>2, Zenon
  <2>2. CASE ~(last /\ chunked)
    BY <1>3, <1>4, <2>2 DEF Framed
  <2> QED
    BY <2>1, <2>2
<1> QED
  BY <1>2, <1>5, <1>6, Zenon DEF IsSeq

(* The invariant: what is remembered of the head, the framing and the      *)
(* cookies, and what is on the wire, if the client is there.               *)
KindsAreRight ==
  /\ pc \in {"service", "finish", "done"}
  /\ headers = [Connection |-> headers.Connection, connection |-> headers.connection,
                Length |-> headers.Length, Encoding |-> headers.Encoding]
  /\ sentHeaders \in BOOLEAN /\ sentLastPart \in BOOLEAN /\ chunkedMode \in BOOLEAN
  /\ isOpen \in BOOLEAN /\ wrote \in Seq(Bytes)

FramingIsKept ==
  /\ ~sentHeaders => /\ wrote = <<>> /\ ~sentLastPart /\ ~chunkedMode
                     /\ headers.Encoding = Response!Unset
  /\ chunkedMode <=> headers.Encoding = "chunked"
  /\ pc # "service" => sentHeaders /\ sentLastPart
  /\ pc = "done" => kept = Response!Keeps

OneCookieOfAName ==
  /\ cookies \subseteq Cookies /\ IsFiniteSet(cookies)
  /\ \A c, d \in cookies : c.name = d.name => c = d

WireIsFramed ==
  isOpen => IF sentHeaders
            THEN Framed(sent, Response!Head1(headers), chunkedMode, sentLastPart, wrote)
            ELSE sent = <<>>

ResponseInv == KindsAreRight /\ FramingIsKept /\ OneCookieOfAName /\ WireIsFramed

LEMMA OneIsSeq == ASSUME NEW T, NEW w \in T PROVE <<w>> \in Seq(T)
  OBVIOUS

LEMMA ResponseInit == Response!Init => ResponseInv
<1> SUFFICES ASSUME Response!Init PROVE ResponseInv
  OBVIOUS
<1>1. KindsAreRight
  <2>1. PICK connection : headers = [Connection |-> connection, connection |-> Response!Unset,
                                     Length |-> Response!NoLength, Encoding |-> Response!Unset]
    BY Zenon DEF Response!Init
  <2>2. headers = [Connection |-> headers.Connection, connection |-> headers.connection,
                   Length |-> headers.Length, Encoding |-> headers.Encoding]
    BY <2>1
  <2>3. wrote \in Seq(Bytes)
    BY DEF Response!Init
  <2> QED
    BY <2>2, <2>3 DEF Response!Init, KindsAreRight
<1>3. FramingIsKept /\ WireIsFramed
  BY DEF Response!Init, FramingIsKept, WireIsFramed, Response!Unset
<1>2. OneCookieOfAName
  BY FS_EmptySet DEF Response!Init, OneCookieOfAName
<1> QED
  BY <1>1, <1>2, <1>3 DEF ResponseInv

LEMMA ResponseSetsHeader ==
  ASSUME ResponseInv, NEW name \in {"Connection", "connection", "Length"}, NEW v,
         Response!setHeader(name, v)
  PROVE  ResponseInv'
<1>1. /\ pc = "service" /\ ~sentHeaders /\ headers' = [headers EXCEPT ![name] = v]
      /\ UNCHANGED <<pc, cookies, sentHeaders, sentLastPart, chunkedMode, isOpen, sent,
                     kept, wrote>>
  BY DEF Response!setHeader
<1>2. headers'.Encoding = headers.Encoding
      /\ headers' = [Connection |-> headers'.Connection, connection |-> headers'.connection,
                     Length |-> headers'.Length, Encoding |-> headers'.Encoding]
  <2> DEFINE h == [Connection |-> headers.Connection, connection |-> headers.connection,
                   Length |-> headers.Length, Encoding |-> headers.Encoding]
  <2>1. headers = h
    BY DEF ResponseInv, KindsAreRight
  <2>2. CASE name = "Connection"
    BY <1>1, <2>1, <2>2
  <2>3. CASE name = "connection"
    BY <1>1, <2>1, <2>3
  <2>4. CASE name = "Length"
    BY <1>1, <2>1, <2>4
  <2> QED
    BY <2>2, <2>3, <2>4
<1>3. KindsAreRight'
  BY <1>1, <1>2 DEF ResponseInv, KindsAreRight
<1>4. FramingIsKept'
  BY <1>1, <1>2 DEF ResponseInv, FramingIsKept
<1>5. OneCookieOfAName' /\ WireIsFramed'
  BY <1>1 DEF ResponseInv, OneCookieOfAName, WireIsFramed
<1> QED
  BY <1>3, <1>4, <1>5 DEF ResponseInv

LEMMA ResponseSetsCookie ==
  ASSUME ResponseInv, NEW c \in Cookies, Response!setCookie(c)
  PROVE  ResponseInv'
<1>1. /\ pc = "service" /\ ~sentHeaders
      /\ cookies' = {d \in cookies : d.name # c.name} \cup {c}
      /\ UNCHANGED <<pc, headers, sentHeaders, sentLastPart, chunkedMode, isOpen, sent,
                     kept, wrote>>
  BY DEF Response!setCookie
<1>2. KindsAreRight' /\ WireIsFramed'
  BY <1>1 DEF ResponseInv, KindsAreRight, WireIsFramed
<1>3. FramingIsKept'
  BY <1>1 DEF ResponseInv, FramingIsKept
<1>4. OneCookieOfAName'
  <2>1. IsFiniteSet({d \in cookies : d.name # c.name})
    BY FS_Subset DEF ResponseInv, OneCookieOfAName
  <2>2. IsFiniteSet(cookies')
    BY <1>1, <2>1, FS_AddElement
  <2> QED
    BY <1>1, <2>2 DEF ResponseInv, OneCookieOfAName
<1> QED
  BY <1>2, <1>3, <1>4 DEF ResponseInv

(* What one write does to the head.                                        *)
LEMMA HeadIsFramedOnce ==
  ASSUME KindsAreRight, headers.Encoding = Response!Unset, NEW d, NEW last \in BOOLEAN,
         NEW h, h = Response!Framing(d, last)
  PROVE  /\ h = [Connection |-> h.Connection, connection |-> h.connection,
                 Length |-> h.Length, Encoding |-> h.Encoding]
         /\ h.Encoding \in {Response!Unset, "chunked"}
         /\ last => h.Encoding = Response!Unset
<1> DEFINE a == [Connection |-> headers.Connection, connection |-> headers.connection,
                 Length |-> headers.Length, Encoding |-> headers.Encoding]
<1>1. headers = a
  BY DEF KindsAreRight
<1>2. \/ last /\ h = [headers EXCEPT !.Length = Len(d)]
      \/ ~last /\ h = [headers EXCEPT !.Encoding = "chunked"]
      \/ ~last /\ h = headers
  BY Zenon DEF Response!Framing
<1>3. CASE last /\ h = [headers EXCEPT !.Length = Len(d)]
  BY <1>1, <1>3
<1>4. CASE ~last /\ h = [headers EXCEPT !.Encoding = "chunked"]
  BY <1>1, <1>4
<1>5. CASE ~last /\ h = headers
  BY <1>1, <1>5
<1> QED
  BY <1>2, <1>3, <1>4, <1>5

LEMMA ResponseWrites ==
  ASSUME ResponseInv, NEW d \in Seq(Bytes), NEW last \in BOOLEAN,
         pc = "service", ~sentLastPart, Response!Write(d, last),
         UNCHANGED <<cookies, isOpen, kept>>, pc' \in {"service", "finish"},
         pc' = "finish" => last
  PROVE  ResponseInv'
<1> DEFINE h == IF sentHeaders THEN headers ELSE Response!Framing(d, last)
           chunked == chunkedMode \/ (~sentHeaders /\ ~last /\ h.Encoding = "chunked")
           head == Response!Head1(h)
           body == Response!Body(d, last, chunked)
           start == IF sentHeaders THEN <<>> ELSE <<head>>
<1>1. /\ headers' = h /\ (chunkedMode' = chunked) /\ sentHeaders' = TRUE
      /\ sentLastPart' = last /\ wrote' = wrote \o d
      /\ sent' = IF isOpen THEN sent \o (start \o body) ELSE sent
  BY Zenon DEF Response!Write, Response!writeToSocket
<1>2. /\ h = [Connection |-> h.Connection, connection |-> h.connection,
              Length |-> h.Length, Encoding |-> h.Encoding]
      /\ ~sentHeaders => /\ h.Encoding \in {Response!Unset, "chunked"}
                         /\ last => h.Encoding = Response!Unset
      /\ sentHeaders => h = headers
  <2>1. CASE sentHeaders
    BY <2>1 DEF ResponseInv, KindsAreRight
  <2>2. CASE ~sentHeaders
    <3>1. headers.Encoding = Response!Unset /\ KindsAreRight
      BY <2>2 DEF ResponseInv, FramingIsKept
    <3> QED
      BY <2>2, <3>1, HeadIsFramedOnce
  <2> QED
    BY <2>1, <2>2
<1> HIDE DEF h
<1>3. chunked \in BOOLEAN /\ (chunked <=> h.Encoding = "chunked")
  BY <1>2 DEF ResponseInv, KindsAreRight, FramingIsKept, Response!Unset
<1> HIDE DEF chunked
<1>4. wrote \in Seq(Bytes) /\ wrote' \in Seq(Bytes)
  BY <1>1 DEF ResponseInv, KindsAreRight
<1>5. KindsAreRight'
  BY <1>1, <1>2, <1>3, <1>4 DEF ResponseInv, KindsAreRight
<1>6. FramingIsKept'
  BY <1>1, <1>3 DEF FramingIsKept
<1>7. OneCookieOfAName'
  BY DEF ResponseInv, OneCookieOfAName
<1>8. WireIsFramed'
  <2> SUFFICES ASSUME isOpen
               PROVE  Framed(sent', Response!Head1(headers)', chunked, last, wrote')
    BY <1>1 DEF WireIsFramed
  <2>1. Response!Head1(headers)' = head
    BY <1>1 DEF Response!Head1
  <2>2. CASE sentHeaders
    <3>1. Framed(sent, head, chunked, FALSE, wrote)
      <4>1. Framed(sent, Response!Head1(headers), chunkedMode, sentLastPart, wrote)
        BY <2>2 DEF ResponseInv, WireIsFramed
      <4>2. chunked = chunkedMode /\ h = headers /\ sentLastPart = FALSE
        BY <1>2, <2>2 DEF chunked, ResponseInv, KindsAreRight
      <4> QED
        BY <4>1, <4>2, Zenon
    <3>2. Framed(sent \o body, head, chunked, last, wrote \o d) /\ IsSeq(body)
      BY <1>3, <1>4, <3>1, BodyIsFramed
    <3>3. start \o body = body
      <4> HIDE DEF body
      <4>1. PICK S : body \in Seq(S)
        BY <3>2 DEF IsSeq
      <4> QED
        BY <2>2, <4>1
    <3> QED
      BY <1>1, <2>1, <3>2, <3>3, Zenon
  <2>3. CASE ~sentHeaders
    <3>1. sent = <<>> /\ wrote = <<>>
      BY <2>3 DEF ResponseInv, WireIsFramed, FramingIsKept
    <3>2. head.kind = "head"
      BY DEF Response!Head1
    <3> HIDE DEF head
    <3>3. Framed(<<head>>, head, chunked, FALSE, <<>>)
      BY <1>3, <3>2, HeadIsFramed
    <3>4. Framed(<<head>> \o body, head, chunked, last, wrote \o d) /\ IsSeq(body)
      BY <1>3, <1>4, <3>1, <3>3, BodyIsFramed
    <3>5. sent \o (start \o body) = <<head>> \o body
      <4> HIDE DEF body
      <4>1. PICK S : body \in Seq(S)
        BY <3>4 DEF IsSeq
      <4>2. <<head>> \o body \in Seq(S \cup {head})
        <5>1. <<head>> \in Seq(S \cup {head}) /\ body \in Seq(S \cup {head})
          BY <4>1
        <5> QED
          BY <5>1
      <4>3. \A t \in Seq(S \cup {head}) : <<>> \o t = t
        OBVIOUS
      <4>4. start = <<head>>
        BY <2>3
      <4> QED
        BY <3>1, <4>2, <4>3, <4>4, Zenon
    <3> QED
      BY <1>1, <2>1, <3>4, <3>5, Zenon
  <2> QED
    BY <2>2, <2>3
<1> QED
  BY <1>5, <1>6, <1>7, <1>8 DEF ResponseInv

LEMMA ResponseReturns == ASSUME ResponseInv, Response!Returns PROVE ResponseInv'
<1>1. CASE sentLastPart
  <2>1. /\ pc' = "finish" /\ sentHeaders
        /\ UNCHANGED <<headers, cookies, sentHeaders, sentLastPart, chunkedMode, isOpen,
                       sent, wrote>>
    BY <1>1 DEF Response!Returns, ResponseInv, FramingIsKept
  <2>2. KindsAreRight' /\ FramingIsKept'
    BY <1>1, <2>1 DEF ResponseInv, KindsAreRight, FramingIsKept
  <2>3. OneCookieOfAName'
    BY <2>1 DEF ResponseInv, OneCookieOfAName
  <2>4. WireIsFramed'
    <3>1. Response!Head1(headers)' = Response!Head1(headers)
      BY <2>1 DEF Response!Head1
    <3> QED
      BY <2>1, <3>1 DEF ResponseInv, WireIsFramed
  <2> QED
    BY <2>2, <2>3, <2>4 DEF ResponseInv
<1>2. CASE ~sentLastPart
  <2>1. /\ pc = "service" /\ pc' = "finish" /\ Response!Write(<<>>, TRUE)
        /\ UNCHANGED <<cookies, isOpen, kept>>
    BY <1>2 DEF Response!Returns
  <2>2. <<>> \in Seq(Bytes)
    OBVIOUS
  <2> QED
    BY <1>2, <2>1, <2>2, ResponseWrites
<1> QED
  BY <1>1, <1>2

LEMMA ResponseFinishes ==
  ASSUME ResponseInv, Response!Finish \/ Response!HangUp \/ UNCHANGED Response!vars
  PROVE  ResponseInv'
<1>1. UNCHANGED <<ask, headers, cookies, sentHeaders, sentLastPart, chunkedMode, sent, wrote>>
  BY DEF Response!Finish, Response!HangUp, Response!vars
<1>2. /\ pc' \in {"service", "finish", "done"} /\ isOpen' \in BOOLEAN /\ (isOpen' => isOpen)
      /\ pc' # "service" => pc # "service"
      /\ pc' = "done" => kept' = Response!Keeps
  <2>1. CASE Response!Finish
    BY <2>1 DEF Response!Finish, ResponseInv, KindsAreRight, FramingIsKept
  <2>2. CASE Response!HangUp
    BY <2>2 DEF Response!HangUp, ResponseInv, KindsAreRight, FramingIsKept
  <2>3. CASE UNCHANGED Response!vars
    BY <2>3 DEF Response!vars, ResponseInv, KindsAreRight, FramingIsKept
  <2> QED
    BY <2>1, <2>2, <2>3
<1>3. Response!Head1(headers)' = Response!Head1(headers) /\ Response!Keeps' = Response!Keeps
  BY <1>1 DEF Response!Head1, Response!Keeps, Response!Close, Response!NoLength
<1>4. KindsAreRight'
  BY <1>1, <1>2 DEF ResponseInv, KindsAreRight
<1>5. FramingIsKept'
  BY <1>1, <1>2, <1>3 DEF ResponseInv, FramingIsKept
<1>6. OneCookieOfAName'
  BY <1>1 DEF ResponseInv, OneCookieOfAName
<1>7. WireIsFramed'
  BY <1>1, <1>2, <1>3 DEF ResponseInv, WireIsFramed
<1> QED
  BY <1>4, <1>5, <1>6, <1>7 DEF ResponseInv

LEMMA ResponseNext == ASSUME ResponseInv, Response!Next PROVE ResponseInv'
<1>1. CASE \/ Response!setHeader("Connection", Response!Close)
           \/ Response!setHeader("connection", Response!Close)
           \/ \E n \in 0 .. MaxWrites : Response!setHeader("Length", n)
  BY <1>1, ResponseSetsHeader
<1>2. CASE \E c \in Cookies : Response!setCookie(c)
  BY <1>2, ResponseSetsCookie
<1>3. ASSUME NEW data_1 \in Seq(Bytes), NEW last \in BOOLEAN, Response!write(data_1, last)
      PROVE  ResponseInv'
  <2>1. /\ pc = "service" /\ ~sentLastPart /\ Response!Write(data_1, last)
        /\ UNCHANGED <<pc, cookies, isOpen, kept>>
    BY <1>3 DEF Response!write
  <2>2. pc' \in {"service", "finish"} /\ (pc' = "finish" => last)
    BY <2>1
  <2> QED
    BY <2>1, <2>2, ResponseWrites
<1>4. CASE \E data_1 \in Parts : \E last \in BOOLEAN : Response!write(data_1, last)
  <2>1. Parts \subseteq Seq(Bytes)
    BY PartsAssumption DEF Bytes
  <2> QED
    BY <1>3, <1>4, <2>1
<1>5. CASE Response!redirect
  <2>1. <<"Redirect">> \in Seq(Bytes)
    <3>1. "Redirect" \in Bytes
      BY DEF Bytes
    <3> QED
      BY <3>1, OneIsSeq, Zenon
  <2> QED
    BY <1>3, <1>5, <2>1 DEF Response!redirect
<1>6. CASE Response!Returns
  BY <1>6, ResponseReturns
<1>7. CASE Response!Finish \/ Response!HangUp
  BY <1>7, ResponseFinishes
<1> QED
  BY <1>1, <1>2, <1>4, <1>5, <1>6, <1>7 DEF Response!Next

(* A cookie's text begins with its name, so cookies of different names     *)
(* have different texts.                                                   *)
Begins(s, w) == s \in Seq(Token) /\ Len(s) >= 1 /\ s[1] = w

LEMMA BeginsStill ==
  ASSUME NEW s, NEW w, Begins(s, w), NEW t \in Seq(Token)
  PROVE  Begins(s \o t, w)
  BY DEF Begins

LEMMA AttributeIsTokens ==
  ASSUME NEW key \in Response!Attributes
  PROVE  /\ \A v \in Word \cup {None} : Response!Named(key, v) \in Seq(Token)
         /\ \A b \in BOOLEAN : Response!Flagged(key, b) \in Seq(Token)
<1>1. {key, Response!Semi, Response!Eq} \subseteq Token /\ Word \subseteq Token
  BY DEF Token
<1>2. ASSUME NEW v \in Word \cup {None} PROVE Response!Named(key, v) \in Seq(Token)
  <2>1. CASE v = None
    <3>1. Response!Named(key, v) = <<>>
      BY <2>1 DEF Response!Named
    <3> QED
      BY <3>1
  <2>2. CASE v # None
    <3>1. Response!Named(key, v) = <<Response!Semi, key, Response!Eq, v>> /\ v \in Token
      BY <1>1, <2>2 DEF Response!Named
    <3>2. <<Response!Semi, key, Response!Eq, v>> \in Seq(Token)
      BY <1>1, <3>1
    <3> QED
      BY <3>1, <3>2
  <2> QED
    BY <2>1, <2>2
<1>3. ASSUME NEW b \in BOOLEAN PROVE Response!Flagged(key, b) \in Seq(Token)
  <2>1. <<Response!Semi, key>> \in Seq(Token) /\ <<>> \in Seq(Token)
    BY <1>1
  <2> QED
    BY <2>1 DEF Response!Flagged
<1> QED
  BY <1>2, <1>3

LEMMA TextBeginsWithName ==
  ASSUME NEW c \in Cookies
  PROVE  Begins(Response!toByteArray(c), c.name)
<1> DEFINE age == IF c.maxAge = 0 THEN None ELSE Number[c.maxAge]
           s0 == <<c.name, Response!Eq, c.value>>
           s1 == s0 \o Response!Named("Comment", c.comment)
           s2 == s1 \o Response!Named("Domain", c.domain)
           s3 == s2 \o Response!Named("Max-Age", age)
           s4 == s3 \o Response!Named("Path", c.path)
           s5 == s4 \o Response!Flagged("Secure", c.secure)
           s6 == s5 \o Response!Flagged("HttpOnly", c.httpOnly)
           s7 == s6 \o Response!Named("Version", Number[c.version])
           T == Seq(Token)
<1>1. /\ c.name \in Word /\ c.value \in Word /\ c.secure \in BOOLEAN /\ c.httpOnly \in BOOLEAN
      /\ {c.comment, c.domain, c.path} \subseteq Word \cup {None}
      /\ {Number[c.maxAge], Number[c.version]} \subseteq Word
  BY CookiesAssumption DEF Response!Cookie
<1>2. {"Comment", "Domain", "Max-Age", "Path", "Secure", "HttpOnly", "Version"}
        \subseteq Response!Attributes
  BY DEF Response!Attributes
<1>3. age \in Word \cup {None}
  BY <1>1
<1>4. Begins(s0, c.name)
  <2>1. {c.name, Response!Eq, c.value} \subseteq Token
    BY <1>1 DEF Token
  <2> QED
    BY <2>1 DEF Begins
<1>5. /\ Response!Named("Comment", c.comment) \in T /\ Response!Named("Domain", c.domain) \in T
      /\ Response!Named("Path", c.path) \in T
      /\ Response!Named("Version", Number[c.version]) \in T
      /\ Response!Flagged("Secure", c.secure) \in T /\ Response!Flagged("HttpOnly", c.httpOnly) \in T
  BY <1>1, <1>2, AttributeIsTokens
<1>6. Response!Named("Max-Age", age) \in T
  <2> HIDE DEF age
  <2> QED
    BY <1>2, <1>3, AttributeIsTokens
<1>7. Response!toByteArray(c) = s7
  BY Zenon DEF Response!toByteArray
<1> HIDE DEF s0, age
<1>8. Begins(s1, c.name)
  BY <1>4, <1>5, BeginsStill
<1> HIDE DEF s1
<1>9. Begins(s2, c.name)
  BY <1>8, <1>5, BeginsStill
<1> HIDE DEF s2
<1>10. Begins(s3, c.name)
  BY <1>9, <1>6, BeginsStill
<1> HIDE DEF s3
<1>11. Begins(s4, c.name)
  BY <1>10, <1>5, BeginsStill
<1> HIDE DEF s4
<1>12. Begins(s5, c.name)
  BY <1>11, <1>5, BeginsStill
<1> HIDE DEF s5
<1>13. Begins(s6, c.name)
  BY <1>12, <1>5, BeginsStill
<1> HIDE DEF s6
<1>14. Begins(s7, c.name)
  BY <1>13, <1>5, BeginsStill
<1> QED
  BY <1>7, <1>14, Zenon

LEMMA AsManyTexts ==
  ASSUME OneCookieOfAName
  PROVE  Cardinality({Response!toByteArray(c) : c \in cookies}) = Cardinality(cookies)
<1> DEFINE T == {Response!toByteArray(c) : c \in cookies}
           f == [c \in cookies |-> Response!toByteArray(c)]
<1>1. ASSUME NEW c \in cookies, NEW d \in cookies,
             Response!toByteArray(c) = Response!toByteArray(d)
      PROVE  c = d
  <2>1. Begins(Response!toByteArray(c), c.name) /\ Begins(Response!toByteArray(d), d.name)
    BY TextBeginsWithName DEF OneCookieOfAName
  <2>2. c.name = d.name
    BY <1>1, <2>1 DEF Begins
  <2> QED
    BY <2>2 DEF OneCookieOfAName
<1>2. f \in [cookies -> T] /\ \A c \in cookies : f[c] = Response!toByteArray(c)
  OBVIOUS
<1>3. \A t \in T : \E c \in cookies : f[c] = t
  BY <1>2
<1>4. \A c, d \in cookies : f[c] = f[d] => c = d
  BY <1>1, <1>2
<1> HIDE DEF f, T
<1>5. f \in Bijection(cookies, T)
  BY <1>2, <1>3, <1>4 DEF Bijection, Injection, Surjection, IsInjective
<1>6. ExistsBijection(cookies, T) /\ IsFiniteSet(cookies)
  BY <1>5 DEF ExistsBijection, OneCookieOfAName
<1>7. Cardinality(T) = Cardinality(cookies)
  BY <1>6, FS_Bijection
<1> QED
  BY <1>7 DEF T

LEMMA SameCardinality == ASSUME NEW S PROVE Response!Cardinality(S) = Cardinality(S)
  BY Zenon DEF Response!Cardinality, Cardinality

LEMMA ResponseImplied == ResponseInv => Response!FramedAsWritten
<1> SUFFICES ASSUME ResponseInv, pc = "done", isOpen
             PROVE  /\ sent[1].kind = "head" /\ Response!BodyRead = wrote
                    /\ (\/ Response!Chunked \/ Response!Length = Response!NoLength
                        \/ Response!Length = Len(wrote)) => Response!Ends
                    /\ \A c \in cookies : \E t \in sent[1].cookies : Response!SameCookie(c, t)
                    /\ Cardinality(sent[1].cookies) = Cardinality(cookies)
  BY SameCardinality DEF Response!FramedAsWritten
<1> DEFINE texts == {Response!toByteArray(c) : c \in cookies}
<1>1. /\ sentHeaders /\ sentLastPart /\ chunkedMode \in BOOLEAN
      /\ kept = Response!Keeps /\ (chunkedMode <=> headers.Encoding = "chunked")
      /\ Framed(sent, Response!Head1(headers), chunkedMode, sentLastPart, wrote)
  BY DEF ResponseInv, KindsAreRight, FramingIsKept, WireIsFramed
<1>2. sent[1] = [kind |-> "head", headers |-> headers, cookies |-> texts]
  BY <1>1, Zenon DEF Framed, Response!Head1
<1> HIDE DEF texts
<1>3. sent[1].kind = "head" /\ sent[1].headers = headers /\ sent[1].cookies = texts
  BY <1>2
<1>4. /\ Response!Chunked <=> chunkedMode
      /\ Response!Length = headers.Length
  BY <1>1, <1>3 DEF Response!Chunked, Response!Length
<1>5. Reads(Kind(chunkedMode), sent, wrote)
  BY <1>1 DEF Framed
<1>6. Response!Data(Kind(chunkedMode), sent) = wrote
  BY <1>5, ReadData
<1>7. Response!BodyRead = wrote
  BY <1>4, <1>6 DEF Response!BodyRead, Kind
<1>8. ~chunkedMode => /\ Response!Data("data", sent) = wrote
                      /\ Response!Kinds \subseteq {"data"}
  BY <1>1, <1>6 DEF Kind, Framed, Response!Kinds
<1>9. chunkedMode => sent[Len(sent)].kind = "end" /\ Response!Kinds \subseteq {"chunk", "end"}
  BY <1>1 DEF Kind, Framed, Response!Kinds
<1>10. (\/ Response!Chunked \/ Response!Length = Response!NoLength
        \/ Response!Length = Len(wrote)) => Response!Ends
  <2>1. CASE chunkedMode
    BY <1>4, <1>9, <2>1 DEF Response!Ends
  <2>2. CASE ~chunkedMode /\ Response!Length = Response!NoLength
    <3>1. ~kept
      BY <1>1, <1>4, <2>2 DEF Response!Keeps
    <3> QED
      BY <1>4, <1>8, <2>2, <3>1 DEF Response!Ends
  <2>3. CASE ~chunkedMode /\ Response!Length # Response!NoLength /\ Response!Length = Len(wrote)
    BY <1>4, <1>8, <2>3 DEF Response!Ends
  <2> QED
    BY <1>4, <2>1, <2>2, <2>3
<1>11. \A c \in cookies : \E t \in sent[1].cookies : Response!SameCookie(c, t)
  <2> SUFFICES ASSUME NEW c \in cookies
               PROVE  \E t \in sent[1].cookies : Response!SameCookie(c, t)
    OBVIOUS
  <2>1. c \in Cookies /\ Response!toByteArray(c) \in texts
    BY DEF ResponseInv, OneCookieOfAName, texts
  <2>2. Response!SameCookie(c, Response!toByteArray(c))
    BY <2>1, CookieIsReadBack
  <2> QED
    BY <1>3, <2>1, <2>2
<1>12. Cardinality(sent[1].cookies) = Cardinality(cookies)
  BY <1>3, AsManyTexts, Zenon DEF ResponseInv, texts
<1> QED
  BY <1>3, <1>7, <1>10, <1>11, <1>12

LEMMA ResponseScene ==
  ASSUME scene = "response" => ResponseInv, [Next]_vars
  PROVE  (scene = "response" => ResponseInv)'
<1> SUFFICES ASSUME scene' = "response" PROVE ResponseInv'
  OBVIOUS
<1>1. scene = "response" /\ (Response!Next \/ UNCHANGED Response!vars)
  BY DEF Next, vars, responseVars, Response!vars
<1>2. ResponseInv
  BY <1>1
<1>3. CASE Response!Next
  BY <1>2, <1>3, ResponseNext
<1>4. CASE UNCHANGED Response!vars
  BY <1>2, <1>4, ResponseFinishes
<1> QED
  BY <1>1, <1>3, <1>4

(* Whatever a handler sets and writes, and wherever it stops, a client     *)
(* that is still there can tell where the response ends, reads the body    *)
(* that was written and gets every cookie back as it was set               *)
(* (FramedAsWritten of the run webapp).                                   *)
THEOREM ResponsesAreFramed == Spec => []FramedAsWritten
<1> DEFINE Inv == scene = "response" => ResponseInv
<1>1. Init => Inv
  BY ResponseInit DEF Init
<1>2. Inv /\ [Next]_vars => Inv'
  BY ResponseScene
<1>3. Inv => FramedAsWritten
  BY ResponseImplied DEF FramedAsWritten
<1> QED
  BY <1>1, <1>2, <1>3, PTL DEF Spec


-----------------------------------------------------------------------------
(* Sequences of anything.                                                  *)
LEMMA SeqLen ==
  ASSUME NEW s, IsSeq(s)
  PROVE  /\ Len(s) \in Nat /\ DOMAIN s = 1 .. Len(s)
         /\ s = <<>> <=> Len(s) = 0
<1>1. PICK S : s \in Seq(S)
  BY DEF IsSeq
<1> QED
  BY <1>1

LEMMA Appended ==
  ASSUME NEW s, IsSeq(s), NEW e
  PROVE  /\ IsSeq(Append(s, e)) /\ Len(Append(s, e)) = Len(s) + 1
         /\ Append(s, e)[Len(s) + 1] = e
         /\ \A i \in 1 .. Len(s) : Append(s, e)[i] = s[i]
<1>1. PICK S : s \in Seq(S)
  BY DEF IsSeq
<1> DEFINE T == S \cup {e}
<1>2. s \in Seq(T) /\ e \in T
  BY <1>1
<1> HIDE DEF T
<1> QED
  BY <1>2 DEF IsSeq

LEMMA Joint ==
  ASSUME NEW s, IsSeq(s), NEW t, IsSeq(t)
  PROVE  /\ IsSeq(s \o t) /\ Len(s \o t) = Len(s) + Len(t)
         /\ \A i \in 1 .. Len(s) : (s \o t)[i] = s[i]
         /\ \A i \in 1 .. Len(t) : (s \o t)[Len(s) + i] = t[i]
<1>1. PICK S : s \in Seq(S)
  BY DEF IsSeq
<1>2. PICK T : t \in Seq(T)
  BY DEF IsSeq
<1> DEFINE U == S \cup T
<1>3. s \in Seq(U) /\ t \in Seq(U)
  BY <1>1, <1>2
<1> HIDE DEF U
<1>4. IsSeq(s \o t)
  BY <1>3 DEF IsSeq
<1> QED
  BY <1>3, <1>4

LEMMA Shorter ==
  ASSUME NEW s, IsSeq(s), s # <<>>
  PROVE  /\ IsSeq(Tail(s)) /\ Len(Tail(s)) = Len(s) - 1 /\ Head(s) = s[1]
         /\ Len(s) \in Nat \ {0}
         /\ \A i \in 1 .. Len(s) - 1 : Tail(s)[i] = s[i + 1]
<1>1. PICK S : s \in Seq(S)
  BY DEF IsSeq
<1>2. IsSeq(Tail(s))
  BY <1>1 DEF IsSeq
<1> QED
  BY <1>1, <1>2

LEMMA NoLength == IsSeq(<<>>) /\ Len(<<>>) = 0
<1>1. <<>> \in Seq({})
  OBVIOUS
<1> QED
  BY <1>1 DEF IsSeq

-----------------------------------------------------------------------------
(* The style file.  What the parser makes of one event, and of a sequence  *)
(* of them.                                                                *)
Parser(bIn, font, color, style, vec, how) ==
  [in |-> bIn, font |-> font, color |-> color, style |-> style, vec |-> vec, how |-> how]

MayBegin(bIn, el) ==
  CASE el = "stylesheet" -> "stylesheet" \notin bIn
    [] el = "style" -> "stylesheet" \in bIn /\ "style" \notin bIn
    [] el \in {"font", "timer", "foreground", "background"} ->
         {"stylesheet", "style"} \subseteq bIn
    [] el = "color" -> /\ {"stylesheet", "style"} \subseteq bIn
                       /\ bIn \cap {"foreground", "background"} # {}
    [] OTHER -> TRUE

FontStarts(p, atts) ==
  LET type == Xml!Attribute(atts, "type", p.font)
  IN IF ~({"stylesheet", "style"} \subseteq p.in)
     THEN Parser(p.in, p.font, p.color, p.style, p.vec, "failed")
     ELSE Parser(p.in \cup {"font"}, type, p.color,
            IF type \notin {"header", "message"} THEN p.style
            ELSE [p.style EXCEPT ![type].size = Xml!Attribute(atts, "size", 0),
                    ![type].weight = Xml!parseWeight(Xml!Attribute(atts, "weight", "normal"))],
            p.vec, p.how)

Starts(p, el, atts) ==
  IF el = "font" THEN FontStarts(p, atts)
  ELSE IF ~MayBegin(p.in, el)
  THEN Parser(p.in, p.font, p.color, p.style, p.vec, "failed")
  ELSE Parser(p.in \cup {el}, p.font,
         IF el \in {"foreground", "background"} THEN el ELSE p.color,
         IF el = "style" THEN Xml!DisplayStyle(Xml!Attribute(atts, "label", "")) ELSE p.style,
         p.vec, p.how)

Closes(p, el) ==
  Parser(p.in \ {el}, p.font, p.color, p.style,
         IF el = "style" /\ el \in p.in THEN Append(p.vec, p.style) ELSE p.vec,
         IF el \in p.in THEN p.how ELSE "failed")

Reports(p, x) ==
  Parser(p.in, p.font, p.color,
         IF "font" \in p.in
         THEN IF p.font \in {"header", "message"} THEN [p.style EXCEPT ![p.font].name = x]
              ELSE p.style
         ELSE IF "timer" \in p.in THEN [p.style EXCEPT !.timer = x = "1"]
         ELSE IF "color" \in p.in THEN [p.style EXCEPT ![p.color] = x]
         ELSE p.style,
         p.vec, p.how)

Takes(p, e) ==
  IF p.how # "reading" THEN p
  ELSE CASE e.is = "start" -> Starts(p, e.el, e.atts)
         [] e.is = "end"   -> Closes(p, e.el)
         [] e.is = "chars" -> Reports(p, e.text)

Taking(p, es, f) ==
  f[0] = p /\ \A n \in 1 .. Len(es) : f[n] = Takes(f[n - 1], es[n])
Makes(p, es, q) == IsSeq(es) /\ \E f : Taking(p, es, f) /\ f[Len(es)] = q

ParserNow == Parser(in, inFontType, inColorType, currentStyle, styleVec, parsed)

LEMMA EventTaken ==
  ASSUME Xml!StartFont \/ Xml!StartOther \/ Xml!endElement \/ Xml!characters
  PROVE  ParserNow' = Takes(ParserNow, Head(events)) /\ Xml!Consumed /\ events # <<>>
<1> DEFINE e == Head(events)
<1>1. ParserNow.how = "reading" /\ events # <<>> /\ Xml!Consumed
  BY
     DEF Xml!StartFont, Xml!StartOther, Xml!endElement, Xml!characters, Xml!Event,
        ParserNow, Parser
<1>2. CASE Xml!StartFont
  <2>1. e.is = "start" /\ e.el = "font"
    BY <1>2 DEF Xml!StartFont, Xml!Event
  <2>2. Takes(ParserNow, e) = FontStarts(ParserNow, e.atts)
    BY <1>1, <2>1 DEF Takes, Starts
  <2>3. ParserNow' = FontStarts(ParserNow, e.atts)
    BY <1>1, <1>2, <2>1
       DEF Xml!StartFont, FontStarts, ParserNow, Parser, Xml!InStyle, Xml!MayStart,
          Xml!Begun, Xml!Goes, Xml!Event
  <2> QED
    BY <1>1, <2>2, <2>3
<1>3. CASE Xml!StartOther
  <2>1. e.is = "start" /\ e.el # "font"
    BY <1>3 DEF Xml!StartOther, Xml!Event
  <2>2. Takes(ParserNow, e) = Starts(ParserNow, e.el, e.atts)
    BY <1>1, <2>1 DEF Takes
  <2>3. Xml!MayStart(e.el) <=> MayBegin(in, e.el)
    BY DEF Xml!MayStart, MayBegin, Xml!InStyle
  <2>4. ParserNow' = Starts(ParserNow, e.el, e.atts)
    <3>1. CASE Xml!MayStart(e.el)
      BY <1>1, <1>3, <2>1, <2>3, <3>1
         DEF Xml!StartOther, Starts, ParserNow, Parser, Xml!Begun, Xml!Goes
    <3>2. CASE ~Xml!MayStart(e.el)
      <4>1. e.el \in {"foreground", "background", "style"} => ~MayBegin(in, e.el)
        BY <2>3, <3>2
      <4> QED
        BY <1>1, <1>3, <2>1, <2>3, <3>2
           DEF Xml!StartOther, Starts, ParserNow, Parser, Xml!Begun, Xml!Goes
    <3> QED
      BY <3>1, <3>2
  <2> QED
    BY <1>1, <2>2, <2>4
<1>4. CASE Xml!endElement
  <2>1. e.is = "end"
    BY <1>4 DEF Xml!endElement, Xml!Event
  <2>2. Takes(ParserNow, e) = Closes(ParserNow, e.el)
    BY <1>1, <2>1 DEF Takes
  <2>3. ParserNow' = Closes(ParserNow, e.el)
    BY <1>1, <1>4 DEF Xml!endElement, Closes, ParserNow, Parser, Xml!Goes, Xml!Event
  <2> QED
    BY <1>1, <2>2, <2>3
<1>5. CASE Xml!characters
  <2>1. e.is = "chars"
    BY <1>5 DEF Xml!characters, Xml!Event
  <2>2. Takes(ParserNow, e) = Reports(ParserNow, e.text)
    BY <1>1, <2>1 DEF Takes
  <2>3. ParserNow' = Reports(ParserNow, e.text)
    BY <1>1, <1>5 DEF Xml!characters, Reports, ParserNow, Parser, Xml!Goes, Xml!Event
  <2> QED
    BY <1>1, <2>2, <2>3
<1> QED
  BY <1>2, <1>3, <1>4, <1>5

LEMMA MakesOnce ==
  ASSUME NEW p, NEW es, NEW q, NEW r, Makes(p, es, q), Makes(p, es, r)
  PROVE  q = r
<1>1. PICK f : Taking(p, es, f) /\ f[Len(es)] = q
  BY DEF Makes
<1>2. PICK g : Taking(p, es, g) /\ g[Len(es)] = r
  BY DEF Makes
<1>3. SameSteps(f, g, Len(es))
  BY <1>1, <1>2 DEF Taking, SameSteps
<1>4. Len(es) \in Nat
  BY SeqLen DEF Makes
<1> QED
  BY <1>1, <1>2, <1>3, <1>4, SameResults

LEMMA MakesNone == ASSUME NEW p PROVE Makes(p, <<>>, p)
<1> DEFINE f == [n \in {0} |-> p]
<1>1. Taking(p, <<>>, f) /\ f[Len(<<>>)] = p
  BY DEF Taking
<1> QED
  BY <1>1, NoLength, Zenon DEF Makes

LEMMA MakesAfter ==
  ASSUME NEW p, NEW es, NEW q, Makes(p, es, q), es # <<>>
  PROVE  Makes(Takes(p, Head(es)), Tail(es), q)
<1>1. PICK f : Taking(p, es, f) /\ f[Len(es)] = q
  BY DEF Makes
<1>2. /\ IsSeq(Tail(es)) /\ Len(Tail(es)) = Len(es) - 1 /\ Head(es) = es[1]
      /\ Len(es) \in Nat \ {0}
      /\ \A i \in 1 .. Len(es) - 1 : Tail(es)[i] = es[i + 1]
  BY Shorter DEF Makes
<1> DEFINE g == [n \in 0 .. Len(es) - 1 |-> f[n + 1]]
<1>3. g[0] = Takes(p, Head(es))
  <2>1. f[1] = Takes(f[1 - 1], es[1])
    BY <1>1, <1>2 DEF Taking
  <2> QED
    BY <1>1, <1>2, <2>1 DEF Taking
<1>4. ASSUME NEW n \in 1 .. Len(es) - 1
      PROVE  g[n] = Takes(g[n - 1], Tail(es)[n])
  <2>1. /\ n + 1 \in 1 .. Len(es) /\ (n + 1) - 1 = n /\ n - 1 \in 0 .. Len(es) - 1
        /\ n \in 0 .. Len(es) - 1 /\ (n - 1) + 1 = n
    BY <1>2
  <2>2. f[n + 1] = Takes(f[n], es[n + 1])
    BY <1>1, <2>1 DEF Taking
  <2>3. g[n] = f[n + 1] /\ g[n - 1] = f[n]
    BY <2>1
  <2> HIDE DEF g
  <2> QED
    BY <1>2, <2>2, <2>3
<1>5. g[Len(Tail(es))] = q
  BY <1>1, <1>2
<1> HIDE DEF g
<1>6. Taking(Takes(p, Head(es)), Tail(es), g)
  BY <1>2, <1>3, <1>4 DEF Taking
<1> QED
  BY <1>2, <1>5, <1>6 DEF Makes

LEMMA MakesOneMore ==
  ASSUME NEW p, NEW es, NEW q, Makes(p, es, q), NEW e
  PROVE  Makes(p, Append(es, e), Takes(q, e))
<1>1. PICK f : Taking(p, es, f) /\ f[Len(es)] = q
  BY DEF Makes
<1> DEFINE N == Len(es)
           t == Append(es, e)
           g == [n \in 0 .. N + 1 |-> IF n = N + 1 THEN Takes(f[N], e) ELSE f[n]]
<1>2. /\ N \in Nat /\ IsSeq(t) /\ Len(t) = N + 1 /\ t[N + 1] = e
      /\ \A n \in 1 .. N : t[n] = es[n]
  BY SeqLen, Appended DEF Makes
<1> HIDE DEF N, t
<1>3. g[N + 1] = Takes(f[N], e) /\ \A n \in 0 .. N : g[n] = f[n]
  BY <1>2
<1> HIDE DEF g
<1>4. g[0] = p
  BY <1>1, <1>2, <1>3 DEF Taking
<1>5. ASSUME NEW n \in 1 .. N + 1 PROVE g[n] = Takes(g[n - 1], t[n])
  <2>1. CASE n = N + 1
    BY <1>2, <1>3, <2>1
  <2>2. CASE n # N + 1
    <3>1. n \in 1 .. N /\ n - 1 \in 0 .. N /\ n \in 0 .. N
      BY <1>2, <2>2
    <3>2. f[n] = Takes(f[n - 1], es[n])
      BY <1>1, <3>1 DEF Taking, N
    <3> QED
      BY <1>2, <1>3, <3>1, <3>2
  <2> QED
    BY <2>1, <2>2
<1>6. Taking(p, t, g) /\ g[Len(t)] = Takes(q, e)
  BY <1>1, <1>2, <1>3, <1>4, <1>5 DEF Taking, N
<1> QED
  BY <1>2, <1>6 DEF Makes, t

LEMMA MakesJoint ==
  ASSUME NEW p, NEW es, NEW q, Makes(p, es, q), NEW fs, NEW r, Makes(q, fs, r)
  PROVE  Makes(p, es \o fs, r)
<1>1. PICK f : Taking(p, es, f) /\ f[Len(es)] = q
  BY DEF Makes
<1>2. PICK g : Taking(q, fs, g) /\ g[Len(fs)] = r
  BY DEF Makes
<1> DEFINE M == Len(es)
           N == Len(fs)
           t == es \o fs
           h == [n \in 0 .. M + N |-> IF n <= M THEN f[n] ELSE g[n - M]]
<1>3. M \in Nat /\ N \in Nat
  BY SeqLen DEF Makes
<1>4. /\ IsSeq(t) /\ Len(t) = M + N
      /\ \A n \in 1 .. M : t[n] = es[n]
      /\ \A n \in 1 .. N : t[M + n] = fs[n]
  BY Joint DEF Makes
<1>5. /\ f[0] = p /\ f[M] = q /\ \A n \in 1 .. M : f[n] = Takes(f[n - 1], es[n])
      /\ g[0] = q /\ g[N] = r /\ \A n \in 1 .. N : g[n] = Takes(g[n - 1], fs[n])
  BY <1>1, <1>2 DEF Taking
<1> HIDE DEF M, N, t
<1>6. /\ \A n \in 0 .. M : h[n] = f[n]
      /\ \A n \in 0 .. N : h[M + n] = g[n]
  <2>1. \A n \in 0 .. M : h[n] = f[n]
    BY <1>3
  <2>2. ASSUME NEW n \in 0 .. N PROVE h[M + n] = g[n]
    <3>1. M + n \in 0 .. M + N /\ (M + n <= M <=> n = 0) /\ (M + n) - M = n /\ M + 0 = M
      BY <1>3
    <3>2. h[M + n] = IF n = 0 THEN f[M + n] ELSE g[n]
      BY <3>1
    <3> QED
      BY <1>3, <1>5, <3>1, <3>2
  <2> QED
    BY <2>1, <2>2
<1> HIDE DEF h
<1>7. h[0] = p
  BY <1>3, <1>5, <1>6
<1>8. ASSUME NEW n \in 1 .. M + N PROVE h[n] = Takes(h[n - 1], t[n])
  <2>1. CASE n <= M
    BY <1>3, <1>4, <1>5, <1>6, <2>1
  <2>2. CASE n > M
    <3> DEFINE m == n - M
    <3>1. m \in 1 .. N /\ m - 1 \in 0 .. N /\ m \in 0 .. N /\ n
            = M + m /\ n - 1 = M + (m - 1)
      BY <1>3, <2>2
    <3> HIDE DEF m
    <3>2. g[m] = Takes(g[m - 1], fs[m]) /\ t[M + m] = fs[m]
      BY <1>4, <1>5, <3>1
    <3>3. h[M + m] = g[m] /\ h[M + (m - 1)] = g[m - 1]
      BY <1>6, <3>1
    <3> QED
      BY <3>1, <3>2, <3>3
  <2> QED
    BY <1>3, <2>1, <2>2
<1>9. h[M + N] = r
  BY <1>3, <1>5, <1>6
<1>10. Taking(p, t, h) /\ h[Len(t)] = r
  BY <1>4, <1>7, <1>8, <1>9 DEF Taking
<1> QED
  BY <1>4, <1>10 DEF Makes, t

(* The reader stops at the first element refused.                          *)
LEMMA MakesNoMore ==
  ASSUME NEW p, p.how # "reading", NEW es, NEW q, Makes(p, es, q)
  PROVE  q = p
<1>1. Len(es) \in Nat /\ IsSeq(es)
  BY SeqLen DEF Makes
<1> DEFINE f == [n \in 0 .. Len(es) |-> p]
<1>2. Taking(p, es, f) /\ f[Len(es)] = p
  BY <1>1 DEF Taking, Takes
<1>3. Makes(p, es, p)
  BY <1>1, <1>2, Zenon DEF Makes
<1> QED
  BY <1>3, MakesOnce

-----------------------------------------------------------------------------
(* Sequences one after the other.                                          *)
Joining(ss, f) == f[0] = <<>> /\ \A n \in 1 .. Len(ss) : f[n] = f[n - 1] \o ss[n]
JoinRead(ss, f) ==
  f = [n \in 0 .. Len(ss) |-> IF n = 0 THEN <<>> ELSE f[n - 1] \o ss[n]]

LEMMA ConcatOnce ==
  ASSUME NEW ss, Len(ss) \in Nat, NEW f, Joining(ss, f)
  PROVE  Xml!Concat(ss) = f[Len(ss)]
<1> DEFINE h == [n \in 0 .. Len(ss) |-> f[n]]
           g == CHOOSE r : JoinRead(ss, r)
<1>1. JoinRead(ss, h)
  <2>1. \A n \in 0 .. Len(ss) : h[n] = IF n = 0 THEN <<>> ELSE h[n - 1] \o ss[n]
    BY SMTT(30) DEF Joining
  <2> QED
    BY <2>1 DEF JoinRead
<1> HIDE DEF h
<1>2. JoinRead(ss, g)
  BY <1>1, Zenon
<1>3. Xml!Concat(ss) = g[Len(ss)]
  BY Zenon DEF Xml!Concat, Xml!Fold, JoinRead
<1> HIDE DEF g
<1>4. \A n \in 0 .. Len(ss) : g[n] = IF n = 0 THEN <<>> ELSE g[n - 1] \o ss[n]
  BY <1>2, Zenon DEF JoinRead
<1>5. SameSteps(g, f, Len(ss))
  <2>1. 0 \in 0 .. Len(ss) /\ \A n \in 1 .. Len(ss) : n \in 0 .. Len(ss) /\ n # 0
    OBVIOUS
  <2> QED
    BY <1>4, <2>1, Zenon DEF Joining, SameSteps
<1>6. g[Len(ss)] = f[Len(ss)]
  BY <1>5, SameResults
<1> QED
  BY <1>3, <1>6

LEMMA OneFurther ==
  ASSUME NEW m \in Nat, NEW f, NEW y
  PROVE  \E h : h[m + 1] = y /\ \A n \in 0 .. m : h[n] = f[n]
<1> DEFINE h == [n \in 0 .. m + 1 |-> IF n = m + 1 THEN y ELSE f[n]]
<1>1. h[m + 1] = y /\ \A n \in 0 .. m : h[n] = f[n]
  OBVIOUS
<1> QED
  BY <1>1, Zenon

JoinsTo(ss, states, p, m, f) ==
  /\ f[0] = <<>> /\ \A n \in 1 .. m : f[n] = f[n - 1] \o ss[n]
  /\ \A n \in 0 .. m : \E q \in states[n] : Makes(p, f[n], q)

(* What is made of sequences one after the other, if the n-th of them      *)
(* leads from states[n - 1] to states[n].                                  *)
LEMMA MakesAll ==
  ASSUME NEW ss, Len(ss) \in Nat, NEW states,
         \A n \in 1 .. Len(ss) : \A q \in states[n - 1] :
           \E r \in states[n] : Makes(q, ss[n], r),
         NEW p \in states[0]
  PROVE  \E q \in states[Len(ss)] : Makes(p, Xml!Concat(ss), q)
<1> DEFINE N == Len(ss)
           Reach(m, f) == JoinsTo(ss, states, p, m, f)
           S == {m \in Nat : m <= N => \E f : Reach(m, f)}
<1>1. 0 \in S
  <2> DEFINE f == [n \in {0} |-> <<>>]
  <2>1. Makes(p, f[0], p)
    BY MakesNone
  <2>2. Reach(0, f)
    BY <2>1 DEF JoinsTo
  <2> QED
    BY <2>2 DEF S
<1> HIDE DEF S
<1>2. ASSUME NEW m \in S PROVE m + 1 \in S
  <2> SUFFICES ASSUME m + 1 <= N PROVE \E f : Reach(m + 1, f)
    BY DEF S
  <2>1. m \in Nat /\ m <= N /\ m + 1 \in 1 .. N /\ (m + 1) - 1 = m
    BY DEF S
  <2>2. PICK f : Reach(m, f)
    BY <2>1 DEF S
  <2>3. PICK h : h[m + 1] = f[m] \o ss[m + 1] /\ \A n \in 0 .. m : h[n] = f[n]
    <3>1. m \in Nat
      BY <2>1
    <3>2. \A g, y : \E h : h[m + 1] = y /\ \A n \in 0 .. m : h[n] = g[n]
      BY <3>1, OneFurther, Zenon
    <3> QED
      BY <3>2, Zenon
  <2>4. \E r \in states[m + 1] : Makes(p, h[m + 1], r)
    <3>1. PICK q \in states[m] : Makes(p, f[m], q)
      BY <2>1, <2>2 DEF JoinsTo
    <3>2. PICK r \in states[m + 1] : Makes(q, ss[m + 1], r)
      BY <2>1, <3>1
    <3> QED
      BY <2>3, <3>1, <3>2, MakesJoint
  <2>5. \A n \in 0 .. m + 1 : \E q \in states[n] : Makes(p, h[n], q)
    <3>1. \A n \in 0 .. m : \E q \in states[n] : Makes(p, h[n], q)
      BY <2>2, <2>3 DEF JoinsTo
    <3> QED
      BY <2>1, <2>4, <3>1
  <2>6. ASSUME NEW n \in 1 .. m + 1 PROVE h[n] = h[n - 1] \o ss[n]
    <3>1. CASE n = m + 1
      <4>1. h[m] = f[m] /\ n - 1 = m
        BY <2>1, <2>3, <3>1
      <4> QED
        BY <2>3, <3>1, <4>1
    <3>2. CASE n # m + 1
      <4>1. n \in 1 .. m /\ n \in 0 .. m /\ n - 1 \in 0 .. m
        BY <2>1, <3>2
      <4> QED
        BY <2>2, <2>3, <4>1 DEF JoinsTo
    <3> QED
      BY <3>1, <3>2
  <2>7. h[0] = <<>>
    BY <2>1, <2>2, <2>3 DEF JoinsTo
  <2>8. Reach(m + 1, h)
    BY <2>5, <2>6, <2>7 DEF JoinsTo
  <2> QED
    BY <2>8, Zenon
<1>3. S = Nat
  <2>1. S \subseteq Nat
    BY DEF S
  <2> QED
    BY <1>1, <1>2, <2>1, Induction
<1>4. PICK f : Reach(N, f)
  BY <1>3 DEF S
<1>5. Xml!Concat(ss) = f[N]
  BY <1>4, ConcatOnce DEF Joining, JoinsTo
<1>6. N \in 0 .. N
  OBVIOUS
<1> QED
  BY <1>4, <1>5, <1>6 DEF JoinsTo

-----------------------------------------------------------------------------
(* A style after its first j elements.                                     *)
Newest(s, ks, default) ==
  IF ks = {} THEN default ELSE s.elements[CHOOSE k \in ks : \A i \in ks : i <= k]
LastUpTo(s, P, j, default) == Newest(s, P \cap (1 .. j), default)

KindOf(s, el) == {k \in DOMAIN s.elements : s.elements[k].el = el}
FontsOf(s, type) ==
  {k \in DOMAIN s.elements : s.elements[k].el = "font" /\ s.elements[k].atts.type = type}

FontUpTo(s, type, j, default) ==
  LET e == LastUpTo(s, FontsOf(s, type), j, [el |-> "none"])
  IN IF e.el = "none" THEN default
     ELSE Xml!NewFont(e.text, e.atts.size, Xml!Attribute(e.atts, "weight", "normal"))
TextUpTo(s, el, j, default) == LastUpTo(s, KindOf(s, el), j, [text |-> default]).text

UpTo(s, j) ==
  [label |-> s.label,
   header |-> FontUpTo(s, "header", j, Xml!DisplayStyle(s.label).header),
   message |-> FontUpTo(s, "message", j, Xml!DisplayStyle(s.label).message),
   timer |-> TextUpTo(s, "timer", j, "0") = "1",
   foreground |-> TextUpTo(s, "foreground", j, "unset"),
   background |-> TextUpTo(s, "background", j, "unset")]

LEMMA LastIsNewest ==
  ASSUME NEW s, NEW P, NEW j \in Nat, NEW default
  PROVE  LastUpTo(s, P, j + 1, default) =
           IF j + 1 \in P THEN s.elements[j + 1] ELSE LastUpTo(s, P, j, default)
<1> DEFINE ks == P \cap (1 .. j + 1)
<1>1. CASE j + 1 \in P
  <2>1. j + 1 \in ks /\ \A i \in ks : i <= j + 1
    BY <1>1
  <2>2. ks \subseteq Int
    OBVIOUS
  <2> DEFINE k == CHOOSE k \in ks : \A i \in ks : i <= k
  <2> HIDE DEF ks
  <2>3. k \in ks /\ \A i \in ks : i <= k
    BY <2>1
  <2> HIDE DEF k
  <2>4. k = j + 1
    BY <2>1, <2>2, <2>3
  <2>5. LastUpTo(s, P, j + 1, default) = s.elements[k]
    <3>1. ks # {}
      BY <2>1
    <3>2. Newest(s, ks, default) = s.elements[k]
      BY <3>1, Zenon DEF Newest, k
    <3> QED
      BY <3>2, Zenon DEF LastUpTo, ks
  <2> QED
    BY <1>1, <2>4, <2>5
<1>2. CASE j + 1 \notin P
  <2>1. ks = P \cap (1 .. j)
    BY <1>2
  <2> QED
    BY <1>2, <2>1, Zenon DEF LastUpTo
<1> QED
  BY <1>1, <1>2

LEMMA UpToNone ==
  ASSUME NEW s
  PROVE  UpTo(s, 0) = Xml!DisplayStyle(s.label)
<1>1. \A P, d : LastUpTo(s, P, 0, d) = d
  <2>1. \A P : P \cap (1 .. 0) = {}
    OBVIOUS
  <2> QED
    BY <2>1, Zenon DEF LastUpTo, Newest
<1>2. \A type, d : FontUpTo(s, type, 0, d) = d
  BY <1>1 DEF FontUpTo
<1>3. \A el, d : TextUpTo(s, el, 0, d) = d
  BY <1>1 DEF TextUpTo
<1> DEFINE new == Xml!DisplayStyle(s.label)
<1>4. UpTo(s, 0) = [label |-> s.label, header |-> new.header, message |-> new.message,
                    timer |-> "0" = "1", foreground |-> "unset", background |-> "unset"]
  BY <1>2, <1>3, Zenon DEF UpTo
<1>5. ("0" = "1") = FALSE
  OBVIOUS
<1>6. /\ new.header = Xml!NewFont("Liberation Sans", 48, "bold")
      /\ new.message = Xml!NewFont("FreeSans", 32, "normal")
  BY DEF Xml!DisplayStyle
<1> HIDE DEF new
<1>7. UpTo(s, 0)
        = [label |-> s.label, header |-> Xml!NewFont("Liberation Sans", 48, "bold"),
                    message |-> Xml!NewFont("FreeSans", 32, "normal"),
                    timer |-> FALSE, foreground |-> "unset", background |-> "unset"]
  BY <1>4, <1>5, <1>6, Zenon
<1> QED
  BY <1>7, Zenon DEF Xml!DisplayStyle

LEMMA UpToAll ==
  ASSUME NEW s, IsSeq(s.elements)
  PROVE  UpTo(s, Len(s.elements)) = Xml!Described(s)
<1>1. DOMAIN s.elements = 1 .. Len(s.elements)
  BY SeqLen
<1>2. \A el : KindOf(s, el) \cap (1 .. Len(s.elements))
                = {k \in DOMAIN s.elements : s.elements[k].el = el}
  BY <1>1 DEF KindOf
<1>3. \A type : FontsOf(s, type) \cap (1 .. Len(s.elements))
                  = {k \in DOMAIN s.elements : s.elements[k].el = "font"
                                                /\ s.elements[k].atts.type = type}
  BY <1>1 DEF FontsOf
<1>4. \A el, d : TextUpTo(s, el, Len(s.elements), d) = Xml!TextOf(s, el, d)
  <2> SUFFICES ASSUME NEW el, NEW d
               PROVE  TextUpTo(s, el, Len(s.elements), d) = Xml!TextOf(s, el, d)
    OBVIOUS
  <2> DEFINE K == {k \in DOMAIN s.elements : s.elements[k].el = el}
  <2>1. Xml!TextOf(s, el, d) = Newest(s, K, [text |-> d]).text
    BY Zenon DEF Xml!TextOf, Xml!LastOf, Newest
  <2>2. KindOf(s, el) \cap (1 .. Len(s.elements)) = K
    BY <1>2, Zenon
  <2> HIDE DEF K
  <2> QED
    BY <2>1, <2>2, Zenon DEF TextUpTo, LastUpTo
<1>5. \A type, d : FontUpTo(s, type, Len(s.elements), d) = Xml!FontOf(s, type, d)
  <2> DEFINE K(type) == {k \in DOMAIN s.elements : s.elements[k].el = "font"
                                                    /\ s.elements[k].atts.type = type}
             Of(type) == Xml!LastOf(s, LAMBDA x : x.el = "font" /\ x.atts.type = type,
                                [el |-> "none"])
  <2>1. \A type : Of(type) = Newest(s, K(type), [el |-> "none"])
    BY Zenon DEF Xml!LastOf, Newest
  <2>2. \A type : Of(type) = LastUpTo(s, FontsOf(s, type), Len(s.elements), [el |-> "none"])
    BY <1>3, <2>1, Zenon DEF LastUpTo
  <2>3. \A type, d : Xml!FontOf(s, type, d) = IF Of(type).el = "none" THEN d
                        ELSE Xml!NewFont(Of(type).text, Of(type).atts.size,
                                     Xml!Attribute(Of(type).atts, "weight", "normal"))
    BY Zenon DEF Xml!FontOf
  <2> HIDE DEF Of
  <2> QED
    BY <2>2, <2>3, Zenon DEF FontUpTo
<1> QED
  BY <1>4, <1>5, Zenon DEF UpTo, Xml!Described

(* What an element changes.                                                *)
Record(label, header, message, shown, foreground, background) ==
  [label |-> label, header |-> header, message |-> message, timer |-> shown,
   foreground |-> foreground, background |-> background]
ElementFont(e) == Xml!NewFont(e.text, e.atts.size, Xml!Attribute(e.atts, "weight", "normal"))
IsFont(e, type) == e.el = "font" /\ e.atts.type = type

LEMMA UpToOne ==
  ASSUME NEW s, NEW j \in Nat, j + 1 \in DOMAIN s.elements,
         NEW e, e = s.elements[j + 1], e.el # "none"
  PROVE  UpTo(s, j + 1) =
           Record(s.label,
                  IF IsFont(e, "header") THEN ElementFont(e) ELSE UpTo(s, j).header,
                  IF IsFont(e, "message") THEN ElementFont(e) ELSE UpTo(s, j).message,
                  IF e.el = "timer" THEN e.text = "1" ELSE UpTo(s, j).timer,
                  IF e.el = "foreground" THEN e.text ELSE UpTo(s, j).foreground,
                  IF e.el = "background" THEN e.text ELSE UpTo(s, j).background)
<1>1. \A el, d : TextUpTo(s, el, j + 1, d)
        = IF e.el = el THEN e.text ELSE TextUpTo(s, el, j, d)
  <2> TAKE el, d
  <2>1. j + 1 \in KindOf(s, el) <=> e.el = el
    BY DEF KindOf
  <2>2. LastUpTo(s, KindOf(s, el), j + 1, [text |-> d])
          = IF e.el = el THEN e ELSE LastUpTo(s, KindOf(s, el), j, [text |-> d])
    BY <2>1, LastIsNewest
  <2> QED
    BY <2>2, Zenon DEF TextUpTo
<1>2. \A type, d : FontUpTo(s, type, j + 1, d)
                     = IF IsFont(e, type) THEN ElementFont(e) ELSE FontUpTo(s, type, j, d)
  <2> TAKE type, d
  <2>1. j + 1 \in FontsOf(s, type) <=> IsFont(e, type)
    BY DEF FontsOf, IsFont
  <2>2. LastUpTo(s, FontsOf(s, type), j + 1, [el |-> "none"])
          = IF IsFont(e, type) THEN e ELSE LastUpTo(s, FontsOf(s, type), j, [el |-> "none"])
    BY <2>1, LastIsNewest
  <2> QED
    BY <2>2, Zenon DEF FontUpTo, ElementFont
<1>3. \A i : /\ UpTo(s, i).header
        = FontUpTo(s, "header", i, Xml!DisplayStyle(s.label).header)
             /\ UpTo(s, i).message
                  = FontUpTo(s, "message", i, Xml!DisplayStyle(s.label).message)
             /\ UpTo(s, i).timer = (TextUpTo(s, "timer", i, "0") = "1")
             /\ UpTo(s, i).foreground = TextUpTo(s, "foreground", i, "unset")
             /\ UpTo(s, i).background = TextUpTo(s, "background", i, "unset")
  BY DEF UpTo
<1>4. (TextUpTo(s, "timer", j + 1, "0") = "1")
        = IF e.el = "timer" THEN e.text = "1" ELSE TextUpTo(s, "timer", j, "0") = "1"
  BY <1>1, Zenon
<1>5. UpTo(s, j + 1) = Record(s.label, UpTo(s, j + 1).header, UpTo(s, j + 1).message,
                              UpTo(s, j + 1).timer, UpTo(s, j + 1).foreground,
                              UpTo(s, j + 1).background)
  BY <1>3, Zenon DEF UpTo, Record
<1>6. UpTo(s, j + 1).header
        = IF IsFont(e, "header") THEN ElementFont(e) ELSE UpTo(s, j).header
  BY <1>2, <1>3, Zenon
<1>7. UpTo(s, j + 1).message
        = IF IsFont(e, "message") THEN ElementFont(e) ELSE UpTo(s, j).message
  BY <1>2, <1>3, Zenon
<1>8. UpTo(s, j + 1).timer = IF e.el = "timer" THEN e.text = "1" ELSE UpTo(s, j).timer
  BY <1>3, <1>4, Zenon
<1>9. UpTo(s, j + 1).foreground
        = IF e.el = "foreground" THEN e.text ELSE UpTo(s, j).foreground
  <2>1. TextUpTo(s, "foreground", j + 1, "unset")
          = IF e.el = "foreground" THEN e.text ELSE TextUpTo(s, "foreground", j, "unset")
    BY <1>1
  <2> QED
    BY <1>3, <2>1
<1>10. UpTo(s, j + 1).background
         = IF e.el = "background" THEN e.text ELSE UpTo(s, j).background
  <2>1. TextUpTo(s, "background", j + 1, "unset")
          = IF e.el = "background" THEN e.text ELSE TextUpTo(s, "background", j, "unset")
    BY <1>1
  <2> QED
    BY <1>3, <2>1
<1> QED
  BY <1>5, <1>6, <1>7, <1>8, <1>9, <1>10, Zenon

Shaped(st, label) ==
  \E n1, z1, w1, n2, z2, w2 :
    st = Record(label, Xml!NewFont(n1, z1, w1), Xml!NewFont(n2, z2, w2),
                st.timer, st.foreground, st.background)

MadeFont(d) == \E n, z, w : d = Xml!NewFont(n, z, w)

LEMMA UpToShape ==
  ASSUME NEW s, NEW j
  PROVE  Shaped(UpTo(s, j), s.label)
<1>1. ASSUME NEW type, NEW d, MadeFont(d) PROVE MadeFont(FontUpTo(s, type, j, d))
  <2>1. CASE FontUpTo(s, type, j, d) = d
    BY <1>1, <2>1
  <2>2. CASE FontUpTo(s, type, j, d) # d
    BY <2>2 DEF FontUpTo, MadeFont
  <2> QED
    BY <2>1, <2>2
<1>2. MadeFont(Xml!DisplayStyle(s.label).header) /\ MadeFont(Xml!DisplayStyle(s.label).message)
  <2>1. /\ Xml!DisplayStyle(s.label).header = Xml!NewFont("Liberation Sans", 48, "bold")
        /\ Xml!DisplayStyle(s.label).message = Xml!NewFont("FreeSans", 32, "normal")
    BY DEF Xml!DisplayStyle
  <2> QED
    BY <2>1, Zenon DEF MadeFont
<1>3. PICK n1, z1, w1 :
        FontUpTo(s, "header", j, Xml!DisplayStyle(s.label).header) = Xml!NewFont(n1, z1, w1)
  BY <1>1, <1>2 DEF MadeFont
<1>4. PICK n2, z2, w2 :
        FontUpTo(s, "message", j, Xml!DisplayStyle(s.label).message) = Xml!NewFont(n2, z2, w2)
  BY <1>1, <1>2 DEF MadeFont
<1>5. /\ UpTo(s, j).header = FontUpTo(s, "header", j, Xml!DisplayStyle(s.label).header)
      /\ UpTo(s, j).message = FontUpTo(s, "message", j, Xml!DisplayStyle(s.label).message)
  BY DEF UpTo
<1>6. UpTo(s, j) = Record(s.label, UpTo(s, j).header, UpTo(s, j).message,
                          UpTo(s, j).timer, UpTo(s, j).foreground, UpTo(s, j).background)
  BY DEF UpTo, Record
<1>7. UpTo(s, j).header
        = Xml!NewFont(n1, z1, w1) /\ UpTo(s, j).message = Xml!NewFont(n2, z2, w2)
  BY <1>2, <1>3, <1>4, <1>5, Zenon
<1>8. UpTo(s, j) = Record(s.label, Xml!NewFont(n1, z1, w1), Xml!NewFont(n2, z2, w2),
                          UpTo(s, j).timer, UpTo(s, j).foreground, UpTo(s, j).background)
  BY <1>6, <1>7, Zenon
<1> QED
  BY <1>8, Zenon DEF Shaped

-----------------------------------------------------------------------------
LEMMA MakesFour ==
  ASSUME NEW p, NEW a, NEW b, NEW c, NEW d, NEW p1, NEW p2, NEW p3, NEW p4,
         p1 = Takes(p, a), p2 = Takes(p1, b), p3 = Takes(p2, c), p4 = Takes(p3, d)
  PROVE  Makes(p, <<a, b, c, d>>, p4)
<1> DEFINE t == <<a, b, c, d>>
           f == [n \in 0 .. 4 |-> IF n = 0 THEN p ELSE IF n = 1 THEN p1 ELSE
                                  IF n = 2 THEN p2 ELSE IF n = 3 THEN p3 ELSE p4]
<1>1. t \in Seq({a, b, c, d})
  OBVIOUS
<1>2. Len(t) = 4 /\ t[1] = a /\ t[2] = b /\ t[3] = c /\ t[4] = d
  OBVIOUS
<1>3. f[0] = p /\ f[1] = p1 /\ f[2] = p2 /\ f[3] = p3 /\ f[4] = p4
  OBVIOUS
<1> HIDE DEF t, f
<1>4. ASSUME NEW n \in 1 .. Len(t) PROVE f[n] = Takes(f[n - 1], t[n])
  <2>1. n = 1 \/ n = 2 \/ n = 3 \/ n = 4
    BY <1>2
  <2> QED
    BY <1>2, <1>3, <2>1
<1>5. Taking(p, t, f) /\ f[Len(t)] = p4
  BY <1>2, <1>3, <1>4 DEF Taking
<1> QED
  BY <1>1, <1>5 DEF Makes, IsSeq, t

LEMMA MakesTwo ==
  ASSUME NEW p, NEW a, NEW b, NEW p1, NEW p2, p1 = Takes(p, a), p2 = Takes(p1, b)
  PROVE  Makes(p, <<a, b>>, p2)
<1> DEFINE t == <<a, b>>
           f == [n \in 0 .. 2 |-> IF n = 0 THEN p ELSE IF n = 1 THEN p1 ELSE p2]
<1>1. t \in Seq({a, b})
  OBVIOUS
<1>2. Len(t) = 2 /\ t[1] = a /\ t[2] = b
  OBVIOUS
<1>3. f[0] = p /\ f[1] = p1 /\ f[2] = p2
  OBVIOUS
<1> HIDE DEF t, f
<1>4. ASSUME NEW n \in 1 .. Len(t) PROVE f[n] = Takes(f[n - 1], t[n])
  <2>1. n = 1 \/ n = 2
    BY <1>2
  <2> QED
    BY <1>2, <1>3, <2>1
<1>5. Taking(p, t, f) /\ f[Len(t)] = p2
  BY <1>2, <1>3, <1>4 DEF Taking
<1> QED
  BY <1>1, <1>5 DEF Makes, IsSeq, t

LEMMA TakesKinds ==
  ASSUME NEW p, p.how = "reading", NEW e
  PROVE  /\ e.is = "start" => Takes(p, e) = Starts(p, e.el, e.atts)
         /\ e.is = "end" => Takes(p, e) = Closes(p, e.el)
         /\ e.is = "chars" => Takes(p, e) = Reports(p, e.text)
  BY DEF Takes

LEMMA TakesEvents ==
  ASSUME NEW p, p.how = "reading"
  PROVE  /\ \A el, atts : Takes(p, Xml!StartOf(el, atts)) = Starts(p, el, atts)
         /\ \A el : Takes(p, Xml!EndOf(el)) = Closes(p, el)
         /\ \A x : Takes(p, Xml!Chars(x)) = Reports(p, x)
<1>1. ASSUME NEW el, NEW atts PROVE Takes(p, Xml!StartOf(el, atts)) = Starts(p, el, atts)
  <2>1. Xml!StartOf(el, atts).is = "start" /\ Xml!StartOf(el, atts).el = el
        /\ Xml!StartOf(el, atts).atts = atts
    BY DEF Xml!StartOf
  <2> QED
    BY <2>1, TakesKinds
<1>2. ASSUME NEW el PROVE Takes(p, Xml!EndOf(el)) = Closes(p, el)
  <2>1. Xml!EndOf(el).is = "end" /\ Xml!EndOf(el).el = el
    BY DEF Xml!EndOf
  <2> QED
    BY <2>1, TakesKinds
<1>3. ASSUME NEW x PROVE Takes(p, Xml!Chars(x)) = Reports(p, x)
  <2>1. Xml!Chars(x).is = "chars" /\ Xml!Chars(x).text = x
    BY DEF Xml!Chars
  <2> QED
    BY <2>1, TakesKinds
<1> QED
  BY <1>1, <1>2, <1>3

InSheet == {"stylesheet"}
InAStyle == {"stylesheet", "style"}
FontTypes == {"", "header", "message"}
ColorTypes == {"", "foreground", "background"}
Within(style, vec) ==
  {Parser(InAStyle, font, color, style, vec, "reading") : font \in FontTypes, color \in ColorTypes}

LEMMA ParserParts ==
  ASSUME NEW i, NEW f, NEW c, NEW s, NEW v, NEW h, NEW p, p = Parser(i, f, c, s, v, h)
  PROVE  p.in = i /\ p.font = f /\ p.color = c /\ p.style = s /\ p.vec = v /\ p.how = h
  BY DEF Parser

LEMMA SaysNothing ==
  ASSUME NEW i, i \cap {"font", "timer", "color"} = {},
         NEW f, NEW c, NEW s, NEW v, NEW x
  PROVE  Takes(Parser(i, f, c, s, v, "reading"), Xml!Chars(x))
           = Parser(i, f, c, s, v, "reading")
<1> DEFINE p == Parser(i, f, c, s, v, "reading")
<1>1. p.in = i /\ p.font = f /\ p.color = c /\ p.style = s /\ p.vec = v /\ p.how = "reading"
  BY DEF Parser
<1>2. "font" \notin i /\ "timer" \notin i /\ "color" \notin i
  OBVIOUS
<1> HIDE DEF p
<1>3. Takes(p, Xml!Chars(x)) = Reports(p, x)
  BY <1>1, TakesEvents
<1>4. Reports(p, x) = Parser(i, f, c, s, v, "reading")
  BY <1>1, <1>2 DEF Reports
<1> QED
  BY <1>3, <1>4 DEF p

WithFont(st, type, n, z, w) ==
  [[st EXCEPT ![type].size = z, ![type].weight = w] EXCEPT ![type].name = n]

LEMMA RecordParts ==
  ASSUME NEW l, NEW h, NEW m, NEW t, NEW f, NEW b
  PROVE  /\ Record(l, h, m, t, f, b).label = l
         /\ Record(l, h, m, t, f, b).header = h
         /\ Record(l, h, m, t, f, b).message = m
         /\ Record(l, h, m, t, f, b).timer = t
         /\ Record(l, h, m, t, f, b).foreground = f
         /\ Record(l, h, m, t, f, b).background = b
  BY DEF Record

LEMMA RecordSets ==
  ASSUME NEW l, NEW h, NEW m, NEW t, NEW f, NEW b, NEW y
  PROVE  /\ [Record(l, h, m, t, f, b) EXCEPT !["header"] = y] = Record(l, y, m, t, f, b)
         /\ [Record(l, h, m, t, f, b) EXCEPT !["message"] = y] = Record(l, h, y, t, f, b)
         /\ [Record(l, h, m, t, f, b) EXCEPT !["timer"] = y] = Record(l, h, m, y, f, b)
         /\ [Record(l, h, m, t, f, b) EXCEPT !["foreground"] = y] = Record(l, h, m, t, y, b)
         /\ [Record(l, h, m, t, f, b) EXCEPT !["background"] = y] = Record(l, h, m, t, f, y)
<1>1. [Record(l, h, m, t, f, b) EXCEPT !["header"] = y] = Record(l, y, m, t, f, b)
  BY DEF Record
<1>2. [Record(l, h, m, t, f, b) EXCEPT !["message"] = y] = Record(l, h, y, t, f, b)
  BY DEF Record
<1>3. [Record(l, h, m, t, f, b) EXCEPT !["timer"] = y] = Record(l, h, m, y, f, b)
  BY DEF Record
<1>4. [Record(l, h, m, t, f, b) EXCEPT !["foreground"] = y] = Record(l, h, m, t, y, b)
  BY DEF Record
<1>5. [Record(l, h, m, t, f, b) EXCEPT !["background"] = y] = Record(l, h, m, t, f, y)
  BY DEF Record
<1> QED
  BY <1>1, <1>2, <1>3, <1>4, <1>5

LEMMA FontOfRecord ==
  ASSUME NEW type \in {"header", "message"}, NEW r,
         NEW l, NEW h, NEW m, NEW t, NEW f, NEW b, r = Record(l, h, m, t, f, b)
  PROVE  /\ r[type] = IF type = "header" THEN h ELSE m
         /\ \A y : [r EXCEPT ![type] = y] = IF type = "header" THEN Record(l, y, m, t, f, b)
                                            ELSE Record(l, h, y, t, f, b)
<1>1. CASE type = "header"
  BY <1>1, RecordParts, RecordSets
<1>2. CASE type = "message"
  BY <1>2, RecordParts, RecordSets
<1> QED
  BY <1>1, <1>2

LEMMA Twice ==
  ASSUME NEW st, NEW type, NEW z, NEW w
  PROVE  [st EXCEPT ![type].size = z, ![type].weight = w]
           = [[st EXCEPT ![type] = [st[type] EXCEPT !.size = z]]
                EXCEPT ![type] = [[st EXCEPT ![type] = [st[type] EXCEPT !.size = z]][type]
                                    EXCEPT !.weight = w]]
  OBVIOUS

(* A font changes the three parts of the font of its type.                 *)
LEMMA FontSets ==
  ASSUME NEW l, NEW st, Shaped(st, l),
         NEW n, NEW z, NEW w, NEW type \in {"header", "message"}
  PROVE  WithFont(st, type, n, z, w)
           = Record(l, IF type = "header" THEN Xml!NewFont(n, z, w) ELSE st.header,
                    IF type = "message" THEN Xml!NewFont(n, z, w) ELSE st.message,
                    st.timer, st.foreground, st.background)
<1> DEFINE t == st.timer
           f == st.foreground
           b == st.background
<1>3. PICK n1, z1, w1, n2, z2, w2 :
        st = Record(l, Xml!NewFont(n1, z1, w1), Xml!NewFont(n2, z2, w2), t, f, b)
  BY Zenon DEF Shaped
<1> HIDE DEF t, f, b
<1> DEFINE a == [st EXCEPT ![type] = [st[type] EXCEPT !.size = z]]
           c == [a EXCEPT ![type] = [a[type] EXCEPT !.weight = w]]
           d == [c EXCEPT ![type] = [c[type] EXCEPT !.name = n]]
<1>0. WithFont(st, type, n, z, w) = d
  BY Twice DEF WithFont
<1>1. CASE type = "header"
  <2>1. a = Record(l, Xml!NewFont(n1, z, w1), Xml!NewFont(n2, z2, w2), t, f, b)
    <3> DEFINE x == st[type]
    <3>2. x = Xml!NewFont(n1, z1, w1)
      BY <1>1, <1>3, FontOfRecord
    <3> HIDE DEF x
    <3>3. [x EXCEPT !.size = z] = Xml!NewFont(n1, z, w1)
      BY <3>2 DEF Xml!NewFont
    <3>1. [st[type] EXCEPT !.size = z] = Xml!NewFont(n1, z, w1)
      BY <3>3 DEF x
    <3> QED
      BY <1>1, <1>3, <3>1, FontOfRecord
  <2> HIDE DEF a
  <2>2. c = Record(l, Xml!NewFont(n1, z, w), Xml!NewFont(n2, z2, w2), t, f, b)
    <3> DEFINE x == a[type]
    <3>2. x = Xml!NewFont(n1, z, w1)
      BY <1>1, <2>1, FontOfRecord
    <3> HIDE DEF x
    <3>3. [x EXCEPT !.weight = w] = Xml!NewFont(n1, z, w)
      BY <3>2 DEF Xml!NewFont
    <3>1. [a[type] EXCEPT !.weight = w] = Xml!NewFont(n1, z, w)
      BY <3>3 DEF x
    <3> QED
      BY <1>1, <2>1, <3>1, FontOfRecord
  <2> HIDE DEF c
  <2>3. d = Record(l, Xml!NewFont(n, z, w), Xml!NewFont(n2, z2, w2), t, f, b)
    <3> DEFINE x == c[type]
    <3>2. x = Xml!NewFont(n1, z, w)
      BY <1>1, <2>2, FontOfRecord
    <3> HIDE DEF x
    <3>3. [x EXCEPT !.name = n] = Xml!NewFont(n, z, w)
      BY <3>2 DEF Xml!NewFont
    <3>1. [c[type] EXCEPT !.name = n] = Xml!NewFont(n, z, w)
      BY <3>3 DEF x
    <3> QED
      BY <1>1, <2>2, <3>1, FontOfRecord
  <2> HIDE DEF d
  <2>4. /\ st.header = Xml!NewFont(n1, z1, w1) /\ st.message = Xml!NewFont(n2, z2, w2)
        /\ st.timer = t /\ st.foreground = f /\ st.background = b
    BY <1>3, RecordParts
  <2> QED
    BY <1>0, <1>1, <2>3, <2>4
<1>2. CASE type = "message"
  <2>1. a = Record(l, Xml!NewFont(n1, z1, w1), Xml!NewFont(n2, z, w2), t, f, b)
    <3> DEFINE x == st[type]
    <3>2. x = Xml!NewFont(n2, z2, w2)
      BY <1>2, <1>3, FontOfRecord
    <3> HIDE DEF x
    <3>3. [x EXCEPT !.size = z] = Xml!NewFont(n2, z, w2)
      BY <3>2 DEF Xml!NewFont
    <3>1. [st[type] EXCEPT !.size = z] = Xml!NewFont(n2, z, w2)
      BY <3>3 DEF x
    <3> QED
      BY <1>2, <1>3, <3>1, FontOfRecord
  <2> HIDE DEF a
  <2>2. c = Record(l, Xml!NewFont(n1, z1, w1), Xml!NewFont(n2, z, w), t, f, b)
    <3> DEFINE x == a[type]
    <3>2. x = Xml!NewFont(n2, z, w2)
      BY <1>2, <2>1, FontOfRecord
    <3> HIDE DEF x
    <3>3. [x EXCEPT !.weight = w] = Xml!NewFont(n2, z, w)
      BY <3>2 DEF Xml!NewFont
    <3>1. [a[type] EXCEPT !.weight = w] = Xml!NewFont(n2, z, w)
      BY <3>3 DEF x
    <3> QED
      BY <1>2, <2>1, <3>1, FontOfRecord
  <2> HIDE DEF c
  <2>3. d = Record(l, Xml!NewFont(n1, z1, w1), Xml!NewFont(n, z, w), t, f, b)
    <3> DEFINE x == c[type]
    <3>2. x = Xml!NewFont(n2, z, w)
      BY <1>2, <2>2, FontOfRecord
    <3> HIDE DEF x
    <3>3. [x EXCEPT !.name = n] = Xml!NewFont(n, z, w)
      BY <3>2 DEF Xml!NewFont
    <3>1. [c[type] EXCEPT !.name = n] = Xml!NewFont(n, z, w)
      BY <3>3 DEF x
    <3> QED
      BY <1>2, <2>2, <3>1, FontOfRecord
  <2> HIDE DEF d
  <2>4. /\ st.header = Xml!NewFont(n1, z1, w1) /\ st.message = Xml!NewFont(n2, z2, w2)
        /\ st.timer = t /\ st.foreground = f /\ st.background = b
    BY <1>3, RecordParts
  <2> QED
    BY <1>0, <1>2, <2>3, <2>4
<1> QED
  BY <1>1, <1>2

LEMMA FontMakes ==
  ASSUME NEW s, NEW j \in Nat, j + 1 \in DOMAIN s.elements,
         NEW e, e = s.elements[j + 1], Xml!IsElement(e), e.el = "font",
         NEW vec, NEW p \in Within(UpTo(s, j), vec)
  PROVE  \E q \in Within(UpTo(s, j + 1), vec) : Makes(p, Xml!EventsOfElement(e), q)
<1>1. PICK font \in FontTypes, color \in ColorTypes :
        p = Parser(InAStyle, font, color, UpTo(s, j), vec, "reading")
  BY DEF Within
<1> DEFINE type == e.atts.type
           weight == Xml!Attribute(e.atts, "weight", "normal")
           st == UpTo(s, j)
           st1 == [st EXCEPT ![type].size = e.atts.size, ![type].weight = weight]
           st2 == [st1 EXCEPT ![type].name = e.text]
           bIn == InAStyle \cup {"font"}
           p1 == Parser(bIn, type, color, st1, vec, "reading")
           p2 == Parser(bIn, type, color, st2, vec, "reading")
           p3 == Parser(InAStyle, type, color, st2, vec, "reading")
<1>2. type \in {"header", "message"} /\ Xml!Attribute(e.atts, "type", font) = type
  BY DEF Xml!IsElement, Xml!Attribute
<1>3. Xml!Attribute(e.atts, "size", 0) = e.atts.size
  BY DEF Xml!IsElement, Xml!Attribute
<1>4. Xml!parseWeight(weight) = weight
  BY DEF Xml!IsElement, Xml!Attribute, Xml!parseWeight, Xml!Weights
<1>5. p1 = Takes(p, Xml!StartOf("font", e.atts))
  <2>1. p.in = InAStyle /\ p.font = font /\ p.color = color /\ p.style = st /\ p.vec = vec
        /\ p.how = "reading"
    BY <1>1 DEF Parser
  <2>2. Takes(p, Xml!StartOf("font", e.atts)) = FontStarts(p, e.atts)
    BY <2>1, TakesEvents DEF Starts
  <2> HIDE DEF type, weight, st
  <2>3. FontStarts(p, e.atts) = p1
    BY <1>2, <1>3, <1>4, <2>1 DEF FontStarts, weight, InAStyle
  <2> QED
    BY <2>2, <2>3
<1>6. p2 = Takes(p1, Xml!Chars(e.text))
  <2> HIDE DEF type, weight, st, st1
  <2>1. p1.in = bIn /\ p1.font = type /\ p1.color = color /\ p1.style = st1 /\ p1.vec = vec
        /\ p1.how = "reading"
    BY DEF Parser
  <2> HIDE DEF p1
  <2>2. Takes(p1, Xml!Chars(e.text)) = Reports(p1, e.text)
    BY <2>1, TakesEvents
  <2>3. Reports(p1, e.text) = p2
    BY <1>2, <2>1 DEF Reports
  <2> QED
    BY <2>2, <2>3
<1>7. p3 = Takes(p2, Xml!EndOf("font"))
  <2> HIDE DEF type, weight, st, st1, st2
  <2>1. p2.in = bIn /\ p2.font = type /\ p2.color = color /\ p2.style = st2 /\ p2.vec = vec
        /\ p2.how = "reading"
    BY DEF Parser
  <2> HIDE DEF p2
  <2>2. Takes(p2, Xml!EndOf("font")) = Closes(p2, "font")
    BY <2>1, TakesEvents
  <2>3. bIn \ {"font"} = InAStyle /\ "font" \in bIn
    BY DEF InAStyle
  <2> HIDE DEF bIn
  <2>4. Closes(p2, "font") = p3
    BY <2>1, <2>3 DEF Closes
  <2> QED
    BY <2>2, <2>4
<1>8. p3 = Takes(p3, Xml!Blank)
  <2> HIDE DEF type, st2
  <2>1. InAStyle \cap {"font", "timer", "color"} = {}
    BY DEF InAStyle
  <2> QED
    BY <2>1, SaysNothing DEF Xml!Blank
<1>9. st2 = UpTo(s, j + 1)
  <2>1. Shaped(st, s.label)
    BY UpToShape
  <2>2. st2
          = Record(s.label, IF type = "header" THEN Xml!NewFont(e.text, e.atts.size, weight)
                                                 ELSE st.header,
                     IF type = "message" THEN Xml!NewFont(e.text, e.atts.size, weight)
                                         ELSE st.message,
                     st.timer, st.foreground, st.background)
    <3>1. st2 = WithFont(st, type, e.text, e.atts.size, weight)
      BY Zenon DEF WithFont
    <3> HIDE DEF st, type, weight, st2
    <3>2. type \in {"header", "message"}
      BY <1>2
    <3> QED
      BY <2>1, <3>1, <3>2, FontSets
  <2>3. UpTo(s, j + 1)
          = Record(s.label, IF type = "header" THEN ElementFont(e) ELSE st.header,
                                IF type = "message" THEN ElementFont(e) ELSE st.message,
                                st.timer, st.foreground, st.background)
    BY UpToOne DEF IsFont
  <2> QED
    BY <2>2, <2>3, Zenon DEF ElementFont
<1>10. Xml!EventsOfElement(e)
         = <<Xml!StartOf("font", e.atts), Xml!Chars(e.text), Xml!EndOf("font"), Xml!Blank>>
  BY DEF Xml!EventsOfElement
<1>11. p3 \in Within(UpTo(s, j + 1), vec)
  <2> HIDE DEF type, st2
  <2>1. type \in FontTypes
    BY <1>2 DEF FontTypes
  <2> QED
    BY <1>9, <2>1 DEF Within
<1> HIDE DEF p1, p2, p3
<1>12. Makes(p, <<Xml!StartOf("font", e.atts), Xml!Chars(e.text), Xml!EndOf("font"), Xml!Blank>>, p3)
  BY <1>5, <1>6, <1>7, <1>8, MakesFour
<1> QED
  BY <1>10, <1>11, <1>12

WithPart(st, part, y) == [st EXCEPT ![part] = y]

LEMMA ShapedSets ==
  ASSUME NEW l, NEW st, Shaped(st, l), NEW y
  PROVE  /\ WithPart(st, "timer", y)
              = Record(l, st.header, st.message, y, st.foreground, st.background)
         /\ WithPart(st, "foreground", y)
              = Record(l, st.header, st.message, st.timer, y, st.background)
         /\ WithPart(st, "background", y)
              = Record(l, st.header, st.message, st.timer, st.foreground, y)
<1> DEFINE t == st.timer
           f == st.foreground
           b == st.background
<1>1. PICK h, m : st = Record(l, h, m, t, f, b)
  BY Zenon DEF Shaped
<1> HIDE DEF t, f, b
<1>2. st.header = h /\ st.message = m
  BY <1>1, RecordParts
<1>3. /\ [st EXCEPT !["timer"] = y] = Record(l, h, m, y, f, b)
      /\ [st EXCEPT !["foreground"] = y] = Record(l, h, m, t, y, b)
      /\ [st EXCEPT !["background"] = y] = Record(l, h, m, t, f, y)
  BY <1>1, RecordSets
<1> QED
  BY <1>2, <1>3 DEF t, f, b, WithPart

LEMMA TimerMakes ==
  ASSUME NEW s, NEW j \in Nat, j + 1 \in DOMAIN s.elements,
         NEW e, e = s.elements[j + 1], e.el = "timer",
         NEW vec, NEW p \in Within(UpTo(s, j), vec)
  PROVE  \E q \in Within(UpTo(s, j + 1), vec) : Makes(p, Xml!EventsOfElement(e), q)
<1>1. PICK font \in FontTypes, color \in ColorTypes :
        p = Parser(InAStyle, font, color, UpTo(s, j), vec, "reading")
  BY DEF Within
<1> DEFINE st == UpTo(s, j)
           st1 == [st EXCEPT !.timer = e.text = "1"]
           bIn == InAStyle \cup {"timer"}
           p1 == Parser(bIn, font, color, st, vec, "reading")
           p2 == Parser(bIn, font, color, st1, vec, "reading")
           p3 == Parser(InAStyle, font, color, st1, vec, "reading")
<1>2. p1 = Takes(p, Xml!StartOf("timer", e.atts))
  <2>1. p.in = InAStyle /\ p.font = font /\ p.color = color /\ p.style = st /\ p.vec = vec
        /\ p.how = "reading"
    BY <1>1 DEF Parser
  <2> HIDE DEF st
  <2>2. Takes(p, Xml!StartOf("timer", e.atts)) = Starts(p, "timer", e.atts)
    BY <2>1, TakesEvents
  <2>3. MayBegin(InAStyle, "timer")
    BY DEF MayBegin, InAStyle
  <2>4. Starts(p, "timer", e.atts) = p1
    BY <2>1, <2>3 DEF Starts
  <2> QED
    BY <2>2, <2>4
<1>3. p2 = Takes(p1, Xml!Chars(e.text))
  <2> HIDE DEF st
  <2>1. p1.in = bIn /\ p1.font = font /\ p1.color = color /\ p1.style = st /\ p1.vec = vec
        /\ p1.how = "reading"
    BY DEF Parser
  <2> HIDE DEF p1
  <2>2. Takes(p1, Xml!Chars(e.text)) = Reports(p1, e.text)
    BY <2>1, TakesEvents
  <2>3. "font" \notin bIn /\ "timer" \in bIn
    BY DEF InAStyle
  <2> HIDE DEF bIn
  <2>4. Reports(p1, e.text) = p2
    BY <2>1, <2>3 DEF Reports
  <2> QED
    BY <2>2, <2>4
<1>4. p3 = Takes(p2, Xml!EndOf("timer"))
  <2> HIDE DEF st1
  <2>1. p2.in = bIn /\ p2.font = font /\ p2.color = color /\ p2.style = st1 /\ p2.vec = vec
        /\ p2.how = "reading"
    BY DEF Parser
  <2> HIDE DEF p2
  <2>2. Takes(p2, Xml!EndOf("timer")) = Closes(p2, "timer")
    BY <2>1, TakesEvents
  <2>3. bIn \ {"timer"} = InAStyle /\ "timer" \in bIn
    BY DEF InAStyle
  <2> HIDE DEF bIn
  <2>4. Closes(p2, "timer") = p3
    BY <2>1, <2>3 DEF Closes
  <2> QED
    BY <2>2, <2>4
<1>5. p3 = Takes(p3, Xml!Blank)
  <2> HIDE DEF st1
  <2>1. InAStyle \cap {"font", "timer", "color"} = {}
    BY DEF InAStyle
  <2> QED
    BY <2>1, SaysNothing DEF Xml!Blank
<1>6. st1 = UpTo(s, j + 1)
  <2>1. Shaped(st, s.label)
    BY UpToShape
  <2>2. st1
          = Record(s.label, st.header, st.message, e.text = "1", st.foreground, st.background)
    <3> DEFINE y == (e.text = "1")
               l == s.label
    <3> HIDE DEF st, y, l
    <3>1. Shaped(st, l)
      BY <2>1 DEF l
    <3>2. WithPart(st, "timer", y)
            = Record(l, st.header, st.message, y, st.foreground, st.background)
      BY <3>1, ShapedSets
    <3> QED
      BY <3>2 DEF y, l, WithPart
  <2>3. UpTo(s, j + 1) = Record(s.label, st.header, st.message, e.text = "1",
                                st.foreground, st.background)
    BY UpToOne DEF IsFont
  <2> QED
    BY <2>2, <2>3, Zenon
<1>7. Xml!EventsOfElement(e)
        = <<Xml!StartOf("timer", e.atts), Xml!Chars(e.text), Xml!EndOf("timer"), Xml!Blank>>
  BY DEF Xml!EventsOfElement
<1>8. p3 \in Within(UpTo(s, j + 1), vec)
  <2> HIDE DEF st1
  <2> QED
    BY <1>6 DEF Within
<1> HIDE DEF p1, p2, p3
<1>9. Makes(p, <<Xml!StartOf("timer", e.atts), Xml!Chars(e.text), Xml!EndOf("timer"), Xml!Blank>>, p3)
  BY <1>2, <1>3, <1>4, <1>5, MakesFour
<1> QED
  BY <1>7, <1>8, <1>9

LEMMA MakesEight ==
  ASSUME NEW p, NEW a1, NEW a2, NEW a3, NEW a4, NEW a5, NEW a6, NEW a7, NEW a8,
         NEW p1, NEW p2, NEW p3, NEW p4, NEW p5, NEW p6, NEW p7, NEW p8,
         p1 = Takes(p, a1), p2 = Takes(p1, a2), p3 = Takes(p2, a3), p4 = Takes(p3, a4),
         p5 = Takes(p4, a5), p6 = Takes(p5, a6), p7 = Takes(p6, a7), p8 = Takes(p7, a8)
  PROVE  Makes(p, <<a1, a2, a3, a4, a5, a6, a7, a8>>, p8)
<1> DEFINE t == <<a1, a2, a3, a4, a5, a6, a7, a8>>
           f == [n \in 0 .. 8 |-> IF n = 0 THEN p ELSE IF n = 1 THEN p1 ELSE
                                  IF n = 2 THEN p2 ELSE IF n = 3 THEN p3 ELSE
                                  IF n = 4 THEN p4 ELSE IF n = 5 THEN p5 ELSE
                                  IF n = 6 THEN p6 ELSE IF n = 7 THEN p7 ELSE p8]
<1>1. t \in Seq({a1, a2, a3, a4, a5, a6, a7, a8})
  OBVIOUS
<1>2. /\ Len(t) = 8 /\ t[1] = a1 /\ t[2] = a2 /\ t[3] = a3 /\ t[4] = a4
      /\ t[5] = a5 /\ t[6] = a6 /\ t[7] = a7 /\ t[8] = a8
  OBVIOUS
<1>3. /\ f[0] = p /\ f[1] = p1 /\ f[2] = p2 /\ f[3] = p3 /\ f[4] = p4
      /\ f[5] = p5 /\ f[6] = p6 /\ f[7] = p7 /\ f[8] = p8
  OBVIOUS
<1> HIDE DEF t, f
<1>4. ASSUME NEW n \in 1 .. Len(t) PROVE f[n] = Takes(f[n - 1], t[n])
  <2>1. n = 1 \/ n = 2 \/ n = 3 \/ n = 4 \/ n = 5 \/ n = 6 \/ n = 7 \/ n = 8
    BY <1>2
  <2> QED
    BY <1>2, <1>3, <2>1
<1>5. Taking(p, t, f) /\ f[Len(t)] = p8
  BY <1>2, <1>3, <1>4 DEF Taking
<1> QED
  BY <1>1, <1>5 DEF Makes, IsSeq, t

LEMMA ColorMakes ==
  ASSUME NEW s, NEW j \in Nat, j + 1 \in DOMAIN s.elements,
         NEW e, e = s.elements[j + 1], NEW kind \in {"foreground", "background"}, e.el = kind,
         NEW vec, NEW p \in Within(UpTo(s, j), vec)
  PROVE  \E q \in Within(UpTo(s, j + 1), vec) : Makes(p, Xml!EventsOfElement(e), q)
<1>1. PICK font \in FontTypes, color \in ColorTypes :
        p = Parser(InAStyle, font, color, UpTo(s, j), vec, "reading")
  BY DEF Within
<1> DEFINE st == UpTo(s, j)
           st1 == [st EXCEPT ![kind] = e.text]
           bIn == InAStyle \cup {kind}
           cIn == bIn \cup {"color"}
           p1 == Parser(bIn, font, kind, st, vec, "reading")
           p3 == Parser(cIn, font, kind, st, vec, "reading")
           p4 == Parser(cIn, font, kind, st1, vec, "reading")
           p5 == Parser(bIn, font, kind, st1, vec, "reading")
           p7 == Parser(InAStyle, font, kind, st1, vec, "reading")
<1>2. p1 = Takes(p, Xml!StartOf(kind, Xml!NoAtts))
  <2>1. p.in = InAStyle /\ p.font = font /\ p.color = color /\ p.style = st /\ p.vec = vec
        /\ p.how = "reading"
    BY <1>1 DEF Parser
  <2> HIDE DEF st
  <2>2. Takes(p, Xml!StartOf(kind, Xml!NoAtts)) = Starts(p, kind, Xml!NoAtts)
    BY <2>1, TakesEvents
  <2>3. MayBegin(InAStyle, kind) /\ kind # "font" /\ kind # "style"
    BY DEF MayBegin, InAStyle
  <2>4. Starts(p, kind, Xml!NoAtts) = p1
    BY <2>1, <2>3 DEF Starts
  <2> QED
    BY <2>2, <2>4
<1>3. p1 = Takes(p1, Xml!Blank)
  <2> HIDE DEF st
  <2>1. bIn \cap {"font", "timer", "color"} = {}
    BY DEF InAStyle
  <2> HIDE DEF bIn
  <2> QED
    BY <2>1, SaysNothing DEF Xml!Blank
<1>4. p3 = Takes(p1, Xml!StartOf("color", Xml!NoAtts))
  <2> HIDE DEF st
  <2>1. p1.in = bIn /\ p1.font = font /\ p1.color = kind /\ p1.style = st /\ p1.vec = vec
        /\ p1.how = "reading"
    BY DEF Parser
  <2> HIDE DEF p1
  <2>2. Takes(p1, Xml!StartOf("color", Xml!NoAtts)) = Starts(p1, "color", Xml!NoAtts)
    BY <2>1, TakesEvents
  <2>3. MayBegin(bIn, "color")
    BY DEF MayBegin, InAStyle
  <2> HIDE DEF bIn
  <2>4. Starts(p1, "color", Xml!NoAtts) = p3
    BY <2>1, <2>3 DEF Starts
  <2> QED
    BY <2>2, <2>4
<1>5. p4 = Takes(p3, Xml!Chars(e.text))
  <2> HIDE DEF st
  <2>1. p3.in = cIn /\ p3.font = font /\ p3.color = kind /\ p3.style = st /\ p3.vec = vec
        /\ p3.how = "reading"
    BY DEF Parser
  <2> HIDE DEF p3
  <2>2. Takes(p3, Xml!Chars(e.text)) = Reports(p3, e.text)
    BY <2>1, TakesEvents
  <2>3. "font" \notin cIn /\ "timer" \notin cIn /\ "color" \in cIn
    BY DEF InAStyle
  <2> HIDE DEF cIn
  <2>4. Reports(p3, e.text) = p4
    BY <2>1, <2>3 DEF Reports
  <2> QED
    BY <2>2, <2>4
<1>6. p5 = Takes(p4, Xml!EndOf("color"))
  <2> HIDE DEF st1
  <2>1. p4.in = cIn /\ p4.font = font /\ p4.color = kind /\ p4.style = st1 /\ p4.vec = vec
        /\ p4.how = "reading"
    BY DEF Parser
  <2> HIDE DEF p4
  <2>2. Takes(p4, Xml!EndOf("color")) = Closes(p4, "color")
    BY <2>1, TakesEvents
  <2>3. cIn \ {"color"} = bIn /\ "color" \in cIn
    BY DEF InAStyle
  <2> HIDE DEF bIn, cIn
  <2>4. Closes(p4, "color") = p5
    BY <2>1, <2>3 DEF Closes
  <2> QED
    BY <2>2, <2>4
<1>7. p5 = Takes(p5, Xml!Blank)
  <2> HIDE DEF st1
  <2>1. bIn \cap {"font", "timer", "color"} = {}
    BY DEF InAStyle
  <2> HIDE DEF bIn
  <2> QED
    BY <2>1, SaysNothing DEF Xml!Blank
<1>8. p7 = Takes(p5, Xml!EndOf(kind))
  <2> HIDE DEF st1
  <2>1. p5.in = bIn /\ p5.font = font /\ p5.color = kind /\ p5.style = st1 /\ p5.vec = vec
        /\ p5.how = "reading"
    BY DEF Parser
  <2> HIDE DEF p5
  <2>2. Takes(p5, Xml!EndOf(kind)) = Closes(p5, kind)
    BY <2>1, TakesEvents
  <2>3. bIn \ {kind} = InAStyle /\ kind \in bIn /\ kind # "style"
    BY DEF InAStyle
  <2> HIDE DEF bIn
  <2>4. Closes(p5, kind) = p7
    BY <2>1, <2>3 DEF Closes
  <2> QED
    BY <2>2, <2>4
<1>9. p7 = Takes(p7, Xml!Blank)
  <2> HIDE DEF st1
  <2>1. InAStyle \cap {"font", "timer", "color"} = {}
    BY DEF InAStyle
  <2> QED
    BY <2>1, SaysNothing DEF Xml!Blank
<1>10. st1 = UpTo(s, j + 1)
  <2>1. Shaped(st, s.label)
    BY UpToShape
  <2>2. CASE kind = "foreground"
    <3>1. st1 = Record(s.label, st.header, st.message, st.timer, e.text, st.background)
      <4> DEFINE y == e.text
                 l == s.label
      <4> HIDE DEF st, y, l
      <4>1. Shaped(st, l)
        BY <2>1 DEF l
      <4>2. WithPart(st, "foreground", y)
              = Record(l, st.header, st.message, st.timer, y, st.background)
        BY <4>1, ShapedSets
      <4>3. st1 = WithPart(st, "foreground", y)
        BY <2>2 DEF y, WithPart
      <4> QED
        BY <4>2, <4>3 DEF y, l
    <3>2. UpTo(s, j + 1)
            = Record(s.label, st.header, st.message, st.timer, e.text, st.background)
      BY <2>2, UpToOne DEF IsFont
    <3> QED
      BY <3>1, <3>2, Zenon
  <2>3. CASE kind = "background"
    <3>1. st1 = Record(s.label, st.header, st.message, st.timer, st.foreground, e.text)
      <4> DEFINE y == e.text
                 l == s.label
      <4> HIDE DEF st, y, l
      <4>1. Shaped(st, l)
        BY <2>1 DEF l
      <4>2. WithPart(st, "background", y)
              = Record(l, st.header, st.message, st.timer, st.foreground, y)
        BY <4>1, ShapedSets
      <4>3. st1 = WithPart(st, "background", y)
        BY <2>3 DEF y, WithPart
      <4> QED
        BY <4>2, <4>3 DEF y, l
    <3>2. UpTo(s, j + 1)
            = Record(s.label, st.header, st.message, st.timer, st.foreground, e.text)
      BY <2>3, UpToOne DEF IsFont
    <3> QED
      BY <3>1, <3>2, Zenon
  <2> QED
    BY <2>2, <2>3
<1>11. Xml!EventsOfElement(e)
         = <<Xml!StartOf(kind, Xml!NoAtts), Xml!Blank, Xml!StartOf("color", Xml!NoAtts), Xml!Chars(e.text),
             Xml!EndOf("color"), Xml!Blank, Xml!EndOf(kind), Xml!Blank>>
  BY DEF Xml!EventsOfElement
<1>12. p7 \in Within(UpTo(s, j + 1), vec)
  <2> HIDE DEF st1
  <2>1. kind \in ColorTypes
    BY DEF ColorTypes
  <2> QED
    BY <1>10, <2>1 DEF Within
<1> HIDE DEF p1, p3, p4, p5, p7
<1>13. Makes(p, <<Xml!StartOf(kind, Xml!NoAtts), Xml!Blank, Xml!StartOf("color", Xml!NoAtts), Xml!Chars(e.text),
                  Xml!EndOf("color"), Xml!Blank, Xml!EndOf(kind), Xml!Blank>>, p7)
  BY <1>2, <1>3, <1>4, <1>5, <1>6, <1>7, <1>8, <1>9, MakesEight
<1> QED
  BY <1>11, <1>12, <1>13

-----------------------------------------------------------------------------
(* The styles of a file, one after the other.                              *)
LEMMA ElementMakes ==
  ASSUME NEW s, NEW j \in Nat, j + 1 \in DOMAIN s.elements, Xml!IsElement(s.elements[j + 1]),
         NEW vec, NEW p \in Within(UpTo(s, j), vec)
  PROVE  \E q \in Within(UpTo(s, j + 1), vec) :
           Makes(p, Xml!EventsOfElement(s.elements[j + 1]), q)
<1> DEFINE e == s.elements[j + 1]
<1>1. e.el = "font" \/ e.el = "timer" \/ e.el = "foreground" \/ e.el = "background"
  BY DEF Xml!IsElement
<1> QED
  BY <1>1, FontMakes, TimerMakes, ColorMakes

VecOf(sh, k) == [i \in 1 .. k |-> Xml!Described(sh.styles[i])]
Latest(sh, k) == IF k = 0 THEN Xml!DisplayStyle("") ELSE Xml!Described(sh.styles[k])
Between(sh, k) ==
  {Parser(InSheet, font, color, Latest(sh, k), VecOf(sh, k), "reading") :
     font \in FontTypes, color \in ColorTypes}

LEMMA OneMoreStyle ==
  ASSUME NEW sh, NEW k \in Nat
  PROVE  Append(VecOf(sh, k), Xml!Described(sh.styles[k + 1])) = VecOf(sh, k + 1)
<1> DEFINE d(i) == Xml!Described(sh.styles[i])
           S == {d(i) : i \in 1 .. k + 1}
<1>1. VecOf(sh, k)
        = [i \in 1 .. k |-> d(i)] /\ VecOf(sh, k + 1) = [i \in 1 .. k + 1 |-> d(i)]
  BY DEF VecOf
<1> HIDE DEF d
<1>2. [i \in 1 .. k |-> d(i)] \in Seq(S) /\ Len([i \in 1 .. k |-> d(i)]) = k
  <2>1. \A i \in 1 .. k : d(i) \in S
    OBVIOUS
  <2> HIDE DEF S
  <2> QED
    BY <2>1
<1>3. Append([i \in 1 .. k |-> d(i)], d(k + 1)) = [i \in 1 .. k + 1 |-> d(i)]
  BY <1>2
<1> QED
  BY <1>1, <1>3 DEF d

LEMMA StyleMakes ==
  ASSUME NEW sh, NEW k \in Nat, Xml!IsStyle(sh.styles[k + 1]), NEW p \in Between(sh, k)
  PROVE  \E q \in Between(sh, k + 1) : Makes(p, Xml!EventsOfStyle(sh.styles[k + 1]), q)
<1> DEFINE s == sh.styles[k + 1]
           n == Len(s.elements)
           vec == VecOf(sh, k)
           ss == [i \in DOMAIN s.elements |-> Xml!EventsOfElement(s.elements[i])]
           states == [j \in 0 .. n |-> Within(UpTo(s, j), vec)]
           new == Xml!DisplayStyle(s.label)
           label == [label |-> s.label]
<1>1. PICK font \in FontTypes, color \in ColorTypes :
        p = Parser(InSheet, font, color, Latest(sh, k), vec, "reading")
  BY DEF Between
<1>2. n \in Nat /\ DOMAIN s.elements = 1 .. n /\ Len(ss) = n /\ IsSeq(s.elements)
      /\ \A i \in 1 .. n : Xml!IsElement(s.elements[i])
  <2>1. s.elements \in Seq(Xml!ToSet(s.elements))
    BY DEF Xml!IsStyle
  <2>2. n \in Nat /\ DOMAIN s.elements = 1 .. n
    BY <2>1
  <2>3. \A i \in 1 .. n : Xml!IsElement(s.elements[i])
    BY <2>2 DEF Xml!IsStyle, Xml!ToSet
  <2>4. Len(ss) = n
    BY <2>2
  <2> QED
    BY <2>1, <2>2, <2>3, <2>4 DEF IsSeq
<1> DEFINE p1 == Parser(InAStyle, font, color, new, vec, "reading")
<1>3. Makes(p, <<Xml!StartOf("style", label), Xml!Blank>>, p1)
  <2>1. p.in
          = InSheet /\ p.font = font /\ p.color = color /\ p.vec = vec /\ p.how = "reading"
    BY <1>1 DEF Parser
  <2>2. Xml!Attribute(label, "label", "") = s.label
    BY DEF Xml!Attribute
  <2> HIDE DEF label
  <2>3. Takes(p, Xml!StartOf("style", label)) = Starts(p, "style", label)
    BY <2>1, TakesEvents
  <2>4. MayBegin(InSheet, "style") /\ InSheet \cup {"style"} = InAStyle
    BY DEF MayBegin, InSheet, InAStyle
  <2>5. Starts(p, "style", label) = p1
    BY <2>1, <2>2, <2>4 DEF Starts
  <2>6. p1 = Takes(p1, Xml!Blank)
    <3> HIDE DEF new
    <3>1. InAStyle \cap {"font", "timer", "color"} = {}
      BY DEF InAStyle
    <3> QED
      BY <3>1, SaysNothing DEF Xml!Blank
  <2> HIDE DEF p1
  <2> QED
    BY <2>3, <2>5, <2>6, MakesTwo
<1>4. p1 \in states[0]
  BY <1>2, UpToNone DEF Within
<1>5. \E q \in Within(Xml!Described(s), vec) : Makes(p1, Xml!Concat(ss), q)
  <2>1. ASSUME NEW j \in 1 .. n, NEW q \in states[j - 1]
        PROVE  \E r \in states[j] : Makes(q, ss[j], r)
    <3>1. j - 1 \in Nat /\ (j - 1) + 1 = j /\ j - 1 \in 0 .. n /\ j \in 0 .. n
      BY <1>2
    <3>2. q \in Within(UpTo(s, j - 1), vec)
      BY <3>1
    <3>3. \E r \in Within(UpTo(s, (j - 1) + 1), vec) :
            Makes(q, Xml!EventsOfElement(s.elements[(j - 1) + 1]), r)
      <4>1. (j - 1) + 1 \in DOMAIN s.elements /\ Xml!IsElement(s.elements[(j - 1) + 1])
        BY <1>2, <3>1
      <4> QED
        BY <3>1, <3>2, <4>1, ElementMakes
    <3>4. ss[j] = Xml!EventsOfElement(s.elements[j]) /\ states[j] = Within(UpTo(s, j), vec)
      BY <1>2, <3>1
    <3> QED
      BY <3>1, <3>3, <3>4
  <2>2. states[n] = Within(Xml!Described(s), vec)
    <3>1. n \in 0 .. n
      BY <1>2
    <3> QED
      BY <1>2, <3>1, UpToAll
  <2> HIDE DEF ss, states, p1
  <2>3. \E q \in states[Len(ss)] : Makes(p1, Xml!Concat(ss), q)
    BY <1>2, <1>4, <2>1, MakesAll
  <2> QED
    BY <1>2, <2>2, <2>3
<1>6. PICK p2 \in Within(Xml!Described(s), vec) : Makes(p1, Xml!Concat(ss), p2)
  BY <1>5
<1>7. PICK font2 \in FontTypes, color2 \in ColorTypes :
        p2 = Parser(InAStyle, font2, color2, Xml!Described(s), vec, "reading")
  BY <1>6 DEF Within
<1> DEFINE p3 == Parser(InSheet, font2, color2, Xml!Described(s), Append(vec, Xml!Described(s)), "reading")
<1>8. Makes(p2, <<Xml!EndOf("style"), Xml!Blank>>, p3)
  <2>1. p2.in
          = InAStyle /\ p2.font = font2 /\ p2.color = color2 /\ p2.style = Xml!Described(s)
        /\ p2.vec = vec /\ p2.how = "reading"
    BY <1>7 DEF Parser
  <2>2. Takes(p2, Xml!EndOf("style")) = Closes(p2, "style")
    BY <2>1, TakesEvents
  <2>3. InAStyle \ {"style"} = InSheet /\ "style" \in InAStyle
    BY DEF InAStyle, InSheet
  <2>4. Closes(p2, "style") = p3
    BY <2>1, <2>3 DEF Closes
  <2>5. p3 = Takes(p3, Xml!Blank)
    <3>1. InSheet \cap {"font", "timer", "color"} = {}
      BY DEF InSheet
    <3> QED
      BY <3>1, SaysNothing DEF Xml!Blank
  <2> HIDE DEF p3
  <2> QED
    BY <2>2, <2>4, <2>5, MakesTwo
<1>9. p3 \in Between(sh, k + 1)
  <2>1. Append(vec, Xml!Described(s)) = VecOf(sh, k + 1)
    BY OneMoreStyle
  <2>2. Latest(sh, k + 1) = Xml!Described(s)
    <3>1. k + 1 # 0
      OBVIOUS
    <3> QED
      BY <3>1, Zenon DEF Latest
  <2> QED
    BY <2>1, <2>2 DEF Between
<1>10. Xml!EventsOfStyle(s)
         = (<<Xml!StartOf("style", label), Xml!Blank>> \o Xml!Concat(ss)) \o <<Xml!EndOf("style"), Xml!Blank>>
  BY DEF Xml!EventsOfStyle
<1> HIDE DEF p1, p3, ss, label
<1>11. Makes(p, <<Xml!StartOf("style", label), Xml!Blank>> \o Xml!Concat(ss), p2)
  BY <1>3, <1>6, MakesJoint
<1>12. Makes(p, (<<Xml!StartOf("style", label), Xml!Blank>> \o Xml!Concat(ss)) \o <<Xml!EndOf("style"), Xml!Blank>>, p3)
  BY <1>8, <1>11, MakesJoint
<1> QED
  BY <1>9, <1>10, <1>12

(* What ends no style appends none.                                        *)
LEMMA TakesKeeps ==
  ASSUME NEW p, NEW e, e.is = "start" \/ (e.is = "end" /\ e.el # "style")
  PROVE  Takes(p, e).vec = p.vec
<1>1. CASE e.is = "start"
  <2>1. FontStarts(p, e.atts).vec = p.vec
    BY DEF FontStarts, Parser
  <2>2. Starts(p, e.el, e.atts).vec = p.vec
    BY <2>1 DEF Starts, Parser
  <2> QED
    BY <1>1, <2>2 DEF Takes
<1>2. CASE e.is = "end" /\ e.el # "style"
  <2>1. Closes(p, e.el).vec = p.vec
    BY <1>2 DEF Closes, Parser
  <2> QED
    BY <1>2, <2>1 DEF Takes
<1> QED
  BY <1>1, <1>2

AmissEvents(sh) ==
  IF sh.amiss = "none" THEN <<>>
  ELSE (IF sh.amiss = "style" THEN <<Xml!StartOf("style", [label |-> "last"])>> ELSE <<>>)
         \o <<Xml!StartOf(sh.amiss, Xml!NoAtts), Xml!EndOf(sh.amiss)>>

LEMMA MakesOne == ASSUME NEW p, NEW e PROVE Makes(p, <<e>>, Takes(p, e))
<1>1. Makes(p, Append(<<>>, e), Takes(p, e))
  BY MakesNone, MakesOneMore
<1>2. Append(<<>>, e) = <<e>>
  OBVIOUS
<1> QED
  BY <1>1, <1>2

LEMMA AmissMakes ==
  ASSUME NEW sh, NEW k \in Nat, NEW p \in Between(sh, k)
  PROVE  \E q : Makes(p, AmissEvents(sh), q) /\ q.vec = VecOf(sh, k)
<1> DEFINE x == sh.amiss
<1>1. PICK font \in FontTypes, color \in ColorTypes :
        p = Parser(InSheet, font, color, Latest(sh, k), VecOf(sh, k), "reading")
  BY DEF Between
<1>2. p.in = InSheet /\ p.vec = VecOf(sh, k) /\ p.how = "reading"
  BY <1>1 DEF Parser
<1>3. /\ \A el, atts : Xml!StartOf(el, atts).is = "start"
      /\ \A el : Xml!EndOf(el).is = "end" /\ Xml!EndOf(el).el = el
  BY DEF Xml!StartOf, Xml!EndOf
<1>4. CASE x = "none"
  BY <1>2, <1>4, MakesNone DEF AmissEvents
<1>5. CASE x # "none" /\ x # "style"
  <2> DEFINE p1 == Takes(p, Xml!StartOf(x, Xml!NoAtts))
             p2 == Takes(p1, Xml!EndOf(x))
  <2>1. p1.vec = p.vec
    BY <1>3, TakesKeeps
  <2>2. p2.vec = p1.vec
    BY <1>3, <1>5, TakesKeeps
  <2>3. Makes(p, <<Xml!StartOf(x, Xml!NoAtts), Xml!EndOf(x)>>, p2)
    BY MakesTwo
  <2>4. AmissEvents(sh) = <<>> \o <<Xml!StartOf(x, Xml!NoAtts), Xml!EndOf(x)>>
    BY <1>5, Zenon DEF AmissEvents
  <2>5. Makes(p, AmissEvents(sh), p2)
    <3> HIDE DEF p2
    <3> QED
      BY <2>3, <2>4, MakesNone, MakesJoint
  <2> QED
    BY <1>2, <2>1, <2>2, <2>5
<1>6. CASE x = "style"
  <2> DEFINE last == [label |-> "last"]
             p1 == Takes(p, Xml!StartOf("style", last))
             p2 == Takes(p1, Xml!StartOf("style", Xml!NoAtts))
             p3 == Takes(p2, Xml!EndOf("style"))
  <2>1. p1.vec = p.vec /\ p2.vec = p1.vec
    BY <1>3, TakesKeeps
  <2>2. p1.how = "reading" /\ "style" \in p1.in
    <3>1. MayBegin(InSheet, "style")
      BY DEF MayBegin, InSheet
    <3>2. p1 = Starts(p, "style", last)
      BY <1>2, TakesEvents
    <3> HIDE DEF p1, last
    <3> QED
      BY <1>2, <3>1, <3>2 DEF Starts, Parser
  <2>3. p2.how = "failed"
    <3>1. p2 = Starts(p1, "style", Xml!NoAtts)
      BY <2>2, TakesEvents
    <3>2. ~MayBegin(p1.in, "style")
      BY <2>2 DEF MayBegin
    <3> HIDE DEF p1, p2
    <3> QED
      BY <3>1, <3>2 DEF Starts, Parser
  <2>4. p3 = p2
    BY <2>3 DEF Takes
  <2>5. Makes(p, <<Xml!StartOf("style", last)>>, p1)
    BY MakesOne
  <2>6. Makes(p1, <<Xml!StartOf("style", Xml!NoAtts), Xml!EndOf("style")>>, p3)
    BY MakesTwo
  <2>7. AmissEvents(sh)
          = <<Xml!StartOf("style", last)>> \o <<Xml!StartOf("style", Xml!NoAtts), Xml!EndOf("style")>>
    <3>1. "style" # "none"
      OBVIOUS
    <3> QED
      BY <1>6, <3>1, Zenon DEF AmissEvents
  <2>8. Makes(p, AmissEvents(sh), p3)
    <3> HIDE DEF p1, p3
    <3> QED
      BY <2>5, <2>6, <2>7, MakesJoint
  <2>9. p3.vec = p.vec
    BY <2>1, <2>4
  <2> QED
    BY <1>2, <2>8, <2>9
<1> QED
  BY <1>4, <1>5, <1>6

AllStyles(sh, q) == q.vec = VecOf(sh, Len(sh.styles))
UnreadFile == Parser({}, "", "", Xml!DisplayStyle(""), <<>>, "reading")

LEMMA SheetMakes ==
  ASSUME NEW sh \in Sheets
  PROVE  \E q : Makes(UnreadFile, Xml!EventsOfSheet(sh), q) /\ AllStyles(sh, q)
<1> DEFINE n == Len(sh.styles)
           ss == [k \in DOMAIN sh.styles |-> Xml!EventsOfStyle(sh.styles[k])]
           states == [k \in 0 .. n |-> Between(sh, k)]
           first == <<Xml!StartOf("stylesheet", Xml!NoAtts), Xml!Blank>>
           end == <<Xml!EndOf("stylesheet")>>
           p1 == Parser(InSheet, "", "", Xml!DisplayStyle(""), <<>>, "reading")
<1>1. n \in Nat /\ DOMAIN sh.styles
        = 1 .. n /\ Len(ss) = n /\ \A k \in 1 .. n : Xml!IsStyle(sh.styles[k])
  <2>1. sh.styles \in Seq(Xml!ToSet(sh.styles)) /\ \A s \in Xml!ToSet(sh.styles) : Xml!IsStyle(s)
    BY SheetsAssumption
  <2>2. n \in Nat /\ DOMAIN sh.styles = 1 .. n
    BY <2>1
  <2>3. \A k \in 1 .. n : Xml!IsStyle(sh.styles[k])
    BY <2>1, <2>2 DEF Xml!ToSet
  <2>4. Len(ss) = n
    BY <2>2
  <2> QED
    BY <2>2, <2>3, <2>4
<1>2. Makes(UnreadFile, first, p1)
  <2>1. UnreadFile.in
          = {} /\ UnreadFile.font = "" /\ UnreadFile.color = "" /\ UnreadFile.vec = <<>>
        /\ UnreadFile.style = Xml!DisplayStyle("") /\ UnreadFile.how = "reading"
    BY DEF UnreadFile, Parser
  <2>2. Takes(UnreadFile, Xml!StartOf("stylesheet", Xml!NoAtts))
          = Starts(UnreadFile, "stylesheet", Xml!NoAtts)
    BY <2>1, TakesEvents
  <2>3. MayBegin({}, "stylesheet") /\ {} \cup {"stylesheet"} = InSheet
    BY DEF MayBegin, InSheet
  <2>4. Starts(UnreadFile, "stylesheet", Xml!NoAtts) = p1
    BY <2>1, <2>3 DEF Starts
  <2>5. p1 = Takes(p1, Xml!Blank)
    <3>1. InSheet \cap {"font", "timer", "color"} = {}
      BY DEF InSheet
    <3> QED
      BY <3>1, SaysNothing DEF Xml!Blank
  <2> HIDE DEF p1
  <2> QED
    BY <2>2, <2>4, <2>5, MakesTwo
<1>3. p1 \in states[0]
  <2>1. VecOf(sh, 0) = <<>>
    BY DEF VecOf
  <2>2. Latest(sh, 0) = Xml!DisplayStyle("")
    BY DEF Latest
  <2>3. p1 = Parser(InSheet, "", "", Latest(sh, 0), VecOf(sh, 0), "reading")
    BY <2>1, <2>2
  <2> HIDE DEF p1
  <2>4. p1 \in Between(sh, 0)
    <3>1. "" \in FontTypes /\ "" \in ColorTypes
      BY DEF FontTypes, ColorTypes
    <3>2. \E f \in FontTypes, c \in ColorTypes :
            p1 = Parser(InSheet, f, c, Latest(sh, 0), VecOf(sh, 0), "reading")
      BY <2>3, <3>1, Zenon
    <3> QED
      BY <3>2 DEF Between
  <2>5. 0 \in 0 .. n /\ states[0] = Between(sh, 0)
    BY <1>1
  <2> QED
    BY <2>4, <2>5
<1>4. \E q \in Between(sh, n) : Makes(p1, Xml!Concat(ss), q)
  <2>1. ASSUME NEW k \in 1 .. n, NEW q \in states[k - 1]
        PROVE  \E r \in states[k] : Makes(q, ss[k], r)
    <3>1. k - 1 \in Nat /\ (k - 1) + 1 = k /\ k - 1 \in 0 .. n /\ k \in 0 .. n
      BY <1>1
    <3>2. q \in Between(sh, k - 1)
      BY <3>1
    <3>3. \E r \in Between(sh, (k - 1) + 1) :
            Makes(q, Xml!EventsOfStyle(sh.styles[(k - 1) + 1]), r)
      <4>1. Xml!IsStyle(sh.styles[(k - 1) + 1])
        BY <1>1, <3>1
      <4> QED
        BY <3>1, <3>2, <4>1, StyleMakes
    <3>4. ss[k] = Xml!EventsOfStyle(sh.styles[k]) /\ states[k] = Between(sh, k)
      BY <1>1, <3>1
    <3> QED
      BY <3>1, <3>3, <3>4
  <2>2. states[n] = Between(sh, n)
    BY <1>1
  <2> HIDE DEF ss, states, p1
  <2>3. \E q \in states[Len(ss)] : Makes(p1, Xml!Concat(ss), q)
    BY <1>1, <1>3, <2>1, MakesAll
  <2> QED
    BY <1>1, <2>2, <2>3
<1>5. PICK p2 \in Between(sh, n) : Makes(p1, Xml!Concat(ss), p2)
  BY <1>4
<1>6. PICK p3 : Makes(p2, AmissEvents(sh), p3) /\ p3.vec = VecOf(sh, n)
  BY <1>1, AmissMakes
<1> DEFINE p4 == Takes(p3, Xml!EndOf("stylesheet"))
<1>7. Makes(p3, end, p4)
  BY MakesOne
<1>8. p4.vec = VecOf(sh, n)
  <2>1. Xml!EndOf("stylesheet").is = "end" /\ Xml!EndOf("stylesheet").el # "style"
    BY DEF Xml!EndOf
  <2> QED
    BY <1>6, <2>1, TakesKeeps
<1>9. Xml!EventsOfSheet(sh) = ((first \o Xml!Concat(ss)) \o AmissEvents(sh)) \o end
  BY Zenon DEF Xml!EventsOfSheet, AmissEvents
<1> HIDE DEF p1, p4, ss, first, end
<1>10. Makes(UnreadFile, first \o Xml!Concat(ss), p2)
  BY <1>2, <1>5, MakesJoint
<1>11. Makes(UnreadFile, (first \o Xml!Concat(ss)) \o AmissEvents(sh), p3)
  BY <1>6, <1>10, MakesJoint
<1>12. Makes(UnreadFile, ((first \o Xml!Concat(ss)) \o AmissEvents(sh)) \o end, p4)
  BY <1>7, <1>11, MakesJoint
<1> QED
  BY <1>8, <1>9, <1>12 DEF AllStyles

(* What the parser makes of what is still to come are the styles written.  *)
StyleInv ==
  /\ sheet \in Sheets
  /\ IF parsed = "loaded" THEN Xml!StylesAreAsWritten
     ELSE /\ parsed \in {"reading", "failed"}
          /\ \E q : Makes(ParserNow, events, q) /\ AllStyles(sheet, q)

LEMMA StyleInit == Xml!Init => StyleInv
<1> SUFFICES ASSUME Xml!Init PROVE StyleInv
  OBVIOUS
<1>1. ParserNow
        = UnreadFile /\ events = Xml!EventsOfSheet(sheet) /\ sheet \in Sheets /\ parsed = "reading"
  BY DEF Xml!Init, ParserNow, UnreadFile
<1> QED
  BY <1>1, SheetMakes DEF StyleInv

LEMMA StyleNext == ASSUME StyleInv, Xml!Next PROVE StyleInv'
<1>1. CASE Xml!StartFont \/ Xml!StartOther \/ Xml!endElement \/ Xml!characters
  <2>1. ParserNow' = Takes(ParserNow, Head(events)) /\ Xml!Consumed /\ events # <<>>
    BY <1>1, EventTaken
  <2>2. parsed # "loaded" /\ parsed' \in {"reading", "failed"}
    BY <1>1
       DEF Xml!StartFont, Xml!StartOther, Xml!endElement, Xml!characters, Xml!Event, Xml!Goes
  <2>3. PICK q : Makes(ParserNow, events, q) /\ AllStyles(sheet, q)
    BY <2>2 DEF StyleInv
  <2>4. Makes(ParserNow', events', q)
    BY <2>1, <2>3, MakesAfter DEF Xml!Consumed
  <2>5. sheet' = sheet /\ AllStyles(sheet', q)
    BY <2>1, <2>3 DEF Xml!Consumed
  <2> QED
    BY <2>2, <2>4, <2>5 DEF StyleInv
<1>2. CASE Xml!Loaded
  <2>1. PICK q : Makes(ParserNow, events, q) /\ AllStyles(sheet, q)
    BY <1>2 DEF StyleInv, Xml!Loaded
  <2>2. ParserNow.how = parsed /\ ParserNow.vec = styleVec
    BY DEF ParserNow, Parser
  <2>3. q = ParserNow
    <3>1. CASE parsed = "failed"
      BY <2>1, <2>2, <3>1, MakesNoMore
    <3>2. CASE events = <<>>
      BY <2>1, <3>2, MakesNone, MakesOnce
    <3> QED
      BY <1>2, <3>1, <3>2 DEF Xml!Loaded
  <2> DEFINE n == Len(sheet.styles)
  <2>4. styleVec = VecOf(sheet, n)
    BY <2>1, <2>2, <2>3 DEF AllStyles
  <2>5. n \in Nat /\ DOMAIN sheet.styles = 1 .. n /\ (sheet.styles = <<>> <=> n = 0)
    <3>1. IsSeq(sheet.styles)
      BY SheetsAssumption DEF StyleInv, IsSeq
    <3> QED
      BY <3>1, SeqLen
  <2>6. sheet' = sheet /\ parsed' = "loaded" /\ sheet \in Sheets
    BY <1>2 DEF Xml!Loaded, StyleInv
  <2>7. CASE sheet.styles # <<>>
    <3>1. 1 \in DOMAIN VecOf(sheet, n)
      BY <2>5, <2>7 DEF VecOf
    <3>2. styleVec # <<>>
      BY <2>4, <3>1
    <3>3. styleVec' = VecOf(sheet, n)
      BY <1>2, <2>4, <3>2 DEF Xml!Loaded
    <3>4. styleVec' = [k \in DOMAIN sheet'.styles |-> Xml!Described(sheet'.styles[k])]
      BY <2>5, <2>6, <3>3 DEF VecOf
    <3> QED
      BY <2>6, <2>7, <3>4 DEF StyleInv, Xml!StylesAreAsWritten
  <2>8. CASE sheet.styles = <<>>
    <3>1. styleVec = <<>>
      BY <2>4, <2>5, <2>8 DEF VecOf
    <3> DEFINE d == [Xml!DisplayStyle("Default") EXCEPT !.foreground = "yellow",
                                                    !.background = "blue"]
    <3>2. styleVec' = <<d>>
      BY <1>2, <3>1 DEF Xml!Loaded
    <3>3. d.label = "Default"
      BY DEF Xml!DisplayStyle
    <3> HIDE DEF d
    <3>4. Len(styleVec') = 1 /\ styleVec'[1].label = "Default"
      BY <3>2, <3>3
    <3> QED
      BY <2>6, <2>8, <3>4 DEF StyleInv, Xml!StylesAreAsWritten
  <2> QED
    BY <2>7, <2>8
<1> QED
  BY <1>1, <1>2 DEF Xml!Next

LEMMA StyleStutter == ASSUME StyleInv, UNCHANGED Xml!vars PROVE StyleInv'
  BY DEF Xml!vars, StyleInv, Xml!StylesAreAsWritten, ParserNow, AllStyles

StyleScene == scene = "styles" => StyleInv

LEMMA StyleImplied == StyleInv => Xml!StylesAreAsWritten
  BY DEF StyleInv, Xml!StylesAreAsWritten

(* Whatever styles a file has, in whatever order their elements are and    *)
(* whatever element after them is amiss, the window can show each of them  *)
(* as it is written (DisplayXMLParser, StylesAreAsWritten of the run       *)
(* formats).                                                               *)
THEOREM StylesShownAsWritten == Spec => []StylesAreAsWritten
<1>1. Init => StyleScene
  BY StyleInit DEF Init, StyleScene
<1>2. StyleScene /\ [Next]_vars => StyleScene'
  <2> SUFFICES ASSUME StyleScene, [Next]_vars, scene' = "styles" PROVE StyleInv'
    BY DEF StyleScene
  <2>1. scene = "styles" /\ StyleInv
    BY DEF Next, vars, StyleScene
  <2>2. CASE Next
    BY <2>1, <2>2, StyleNext DEF Next
  <2>3. CASE UNCHANGED vars
    <3>1. UNCHANGED Xml!vars
      BY <2>3 DEF vars, styleVars, Xml!vars
    <3> QED
      BY <2>1, <3>1, StyleStutter
  <2> QED
    BY <2>2, <2>3
<1>3. StyleScene => StylesAreAsWritten
  BY StyleImplied DEF StyleScene, StylesAreAsWritten
<1> QED
  BY <1>1, <1>2, <1>3, PTL DEF Spec
===============================================================================
