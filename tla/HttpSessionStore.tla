--------------------------- MODULE HttpSessionStore ---------------------------
(***************************************************************************)
(* The session store of QtWebApp (httpsessionstore.cpp) and the counted    *)
(* handles it gives out (httpsession.cpp).  Every thread of the server     *)
(* looks up, creates, renews and removes sessions under the mutex of the   *)
(* store; the timer of the main thread removes the sessions nobody used    *)
(* for expirationTime.  The data of a session is shared by all its handles *)
(* and deleted by the last of them, under the lock of the data alone: what *)
(* a thread does with its handle runs in parallel with the timer.          *)
(***************************************************************************)
EXTENDS Integers, FiniteSets

CONSTANTS Threads,          \* the threads of the connection handlers
          Ids,              \* session ids: a bound on the sessions created
          Keys,             \* of the values a session holds
          NoSession,        \* the null handle, the empty id
          expirationTime,
          MaxTime           \* bound on the clock

VARIABLES now,
          data,             \* HttpSessionData of every id
          sessions,         \* the keys of the map of the store
          web,              \* the call each thread is in, with its handles
          timer,            \* sessionTimerEvent, which keeps the mutex
          touched           \* when getSession last returned the session

vars == <<now, data, sessions, web, timer, touched>>

Unborn == [live |-> FALSE, refCount |-> 0, lastAccess |-> -1, keys |-> {}]
Resting == [at |-> "idle", cookie |-> NoSession, reply |-> NoSession,
            id |-> NoSession, session |-> NoSession, param |-> NoSession,
            old |-> NoSession]
NoTimer == [at |-> "idle", now |-> 0, left |-> {}, copy |-> NoSession, renewed |-> {}]

Init ==
  /\ now = 0
  /\ data = [i \in Ids |-> Unborn]
  /\ sessions = {}
  /\ web = [t \in Threads |-> Resting]
  /\ timer = NoTimer
  /\ touched = [i \in Ids |-> 0]

MutexFree == timer.at = "idle"
Used == {i \in Ids : data[i].lastAccess >= 0}

(* The counted handle: copy constructor and destructor.                    *)
Take(d, i) ==
  IF i = NoSession THEN d ELSE [d EXCEPT ![i].refCount = @ + 1]
Drop(d, i) ==
  IF i = NoSession THEN d
  ELSE [d EXCEPT ![i].refCount = @ - 1, ![i].live = d[i].refCount > 1,
                     ![i].keys = IF d[i].refCount > 1 THEN @ ELSE {}]
AccessedNow(d, i) == IF i = NoSession THEN d ELSE [d EXCEPT ![i].lastAccess = now]
TouchedNow(i) == IF i = NoSession THEN touched ELSE [touched EXCEPT ![i] = now]

(* A request arrives, with a session cookie a browser was once given or    *)
(* with none.                                                              *)
Request(t, c) ==
  /\ web[t].at = "idle"
  /\ web' = [web EXCEPT ![t].at = "id", ![t].cookie = c]
  /\ UNCHANGED <<now, data, sessions, timer, touched>>

(* The handler of the request asks for its session (again).                *)
AskAgain(t) ==
  /\ web[t].at = "use" /\ web[t].session = NoSession
  /\ web' = [web EXCEPT ![t].at = "id"]
  /\ UNCHANGED <<now, data, sessions, timer, touched>>

(* getSessionId: the cookie of the response before that of the request.    *)
GetSessionId(t) ==
  LET given == IF web[t].reply # NoSession THEN web[t].reply ELSE web[t].cookie
  IN /\ web[t].at = "id" /\ MutexFree
     /\ web' = [web EXCEPT ![t].at = "get",
                           ![t].id = IF given \in sessions THEN given ELSE NoSession]
     /\ UNCHANGED <<now, data, sessions, timer, touched>>

(* getSession: the session may have gone since getSessionId looked.        *)
Find(t) ==
  LET i == web[t].id
  IN /\ web[t].at = "get" /\ MutexFree
     /\ i \in sessions
     /\ data' = Take(data, i)
     /\ web' = [web EXCEPT ![t].at = "renew", ![t].session = i, ![t].id = NoSession,
                           ![t].cookie = NoSession]
     /\ UNCHANGED <<now, sessions, timer, touched>>

(* Mutant: the cookie is renewed, not the time of the last access.         *)
RenewCookieOnly(t) ==
  /\ web[t].at = "renew"
  /\ touched' = TouchedNow(web[t].session)
  /\ web' = [web EXCEPT ![t].at = "use", ![t].reply = web[t].session]
  /\ UNCHANGED <<now, data, sessions, timer>>

(* The rest of getSession, after the mutex is released.                    *)
Renew(t) ==
  LET i == web[t].session
  IN /\ web[t].at = "renew"
     /\ data' = AccessedNow(data, i)
     /\ touched' = TouchedNow(i)
     /\ web' = [web EXCEPT ![t].at = "use", ![t].reply = i]
     /\ UNCHANGED <<now, sessions, timer>>

(* Mutant: the handle that is returned is not counted.                     *)
CreateUncounted(t, i) ==
  /\ web[t].at = "get" /\ MutexFree
  /\ web[t].id \notin sessions
  /\ i \notin Used
  /\ data' = [data EXCEPT ![i] = [live |-> TRUE, refCount |-> 1, lastAccess |-> now, keys |-> {}]]
  /\ sessions' = sessions \cup {i}
  /\ touched' = TouchedNow(i)
  /\ web' = [web EXCEPT ![t].at = "use", ![t].session = i, ![t].reply = i,
                         ![t].id = NoSession, ![t].cookie = NoSession]
  /\ UNCHANGED <<now, timer>>

(* A new session: a handle in the map, one for the caller.                 *)
Create(t, i) ==
  /\ web[t].at = "get" /\ MutexFree
  /\ web[t].id \notin sessions
  /\ i \notin Used
  /\ data' = [data EXCEPT ![i] = [live |-> TRUE, refCount |-> 2, lastAccess |-> now, keys |-> {}]]
  /\ sessions' = sessions \cup {i}
  /\ touched' = TouchedNow(i)
  /\ web' = [web EXCEPT ![t].at = "use", ![t].session = i, ![t].reply = i,
                         ![t].id = NoSession, ![t].cookie = NoSession]
  /\ UNCHANGED <<now, timer>>

(* allowCreate is FALSE.                                                   *)
NullSession(t) ==
  /\ web[t].at = "get" /\ MutexFree
  /\ web[t].id \notin sessions
  /\ web' = [web EXCEPT ![t].at = "use", ![t].id = NoSession]
  /\ UNCHANGED <<now, data, sessions, timer, touched>>

(* getSession(id), which leaves the cookie alone: Find without the id of   *)
(* the request, then setLastAccess.  If the variable of the handler has a  *)
(* session already, the result is a temporary, and is assigned to it.      *)
GetById(t, i) ==
  /\ web[t].at = "use" /\ MutexFree
  /\ i \in sessions
  /\ data' = Take(data, i)
  /\ web' = IF web[t].session = NoSession
            THEN [web EXCEPT ![t].at = "byid", ![t].session = i]
            ELSE [web EXCEPT ![t].at = "byid", ![t].param = i]
  /\ UNCHANGED <<now, sessions, timer, touched>>

RenewById(t) ==
  LET temporary == web[t].param # NoSession
      i == IF temporary THEN web[t].param ELSE web[t].session
  IN /\ web[t].at = "byid"
     /\ data' = AccessedNow(data, i)
     /\ touched' = TouchedNow(i)
     /\ web' = [web EXCEPT ![t].at = IF temporary THEN "assign" ELSE "use"]
     /\ UNCHANGED <<now, sessions, timer>>

(* operator=: the new session is counted, and is an access, before the old *)
(* one is given up; then the temporary goes.                               *)
Assign(t) ==
  LET i == web[t].param
  IN /\ web[t].at = "assign"
     /\ data' = AccessedNow(Take(data, i), i)
     /\ web' = [web EXCEPT ![t].at = "assigned", ![t].session = i, ![t].old = web[t].session]
     /\ UNCHANGED <<now, sessions, timer, touched>>

DropOld(t) ==
  /\ web[t].at = "assigned"
  /\ data' = Drop(data, web[t].old)
  /\ web' = [web EXCEPT ![t].at = "temporary", ![t].old = NoSession]
  /\ UNCHANGED <<now, sessions, timer, touched>>

DropTemporary(t) ==
  /\ web[t].at = "temporary"
  /\ data' = Drop(data, web[t].param)
  /\ web' = [web EXCEPT ![t].at = "use", ![t].param = NoSession]
  /\ UNCHANGED <<now, sessions, timer, touched>>

(* set() and remove(): the keys of the values, which all handles share.    *)
Set(t, k) ==
  /\ web[t].at = "use" /\ web[t].session # NoSession
  /\ data' = [data EXCEPT ![web[t].session].keys = @ \cup {k}]
  /\ UNCHANGED <<now, sessions, web, timer, touched>>
Remove(t, k) ==
  /\ web[t].at = "use" /\ web[t].session # NoSession
  /\ data' = [data EXCEPT ![web[t].session].keys = @ \ {k}]
  /\ UNCHANGED <<now, sessions, web, timer, touched>>

(* removeSession takes its handle by value, waits for the mutex, and gives *)
(* the copy back after the map lost its own.                               *)
CallRemove(t) ==
  /\ web[t].at = "use" /\ web[t].session # NoSession
  /\ data' = Take(data, web[t].session)
  /\ web' = [web EXCEPT ![t].at = "remove", ![t].param = web[t].session]
  /\ UNCHANGED <<now, sessions, timer, touched>>

RemoveSession(t) ==
  LET i == web[t].param
  IN /\ web[t].at = "remove" /\ MutexFree
     /\ sessions' = sessions \ {i}
     /\ data' = Drop(IF i \in sessions THEN Drop(data, i) ELSE data, i)
     /\ web' = [web EXCEPT ![t].at = "use", ![t].param = NoSession]
     /\ UNCHANGED <<now, timer, touched>>

(* The variable of the handler goes out of scope.                          *)
LetGo(t) ==
  /\ web[t].at = "use" /\ web[t].session # NoSession
  /\ data' = Drop(data, web[t].session)
  /\ web' = [web EXCEPT ![t].session = NoSession]
  /\ UNCHANGED <<now, sessions, timer, touched>>

Answered(t) ==
  /\ web[t].at = "use" /\ web[t].session = NoSession
  /\ web' = [web EXCEPT ![t] = Resting]
  /\ UNCHANGED <<now, data, sessions, timer, touched>>

(* sessionTimerEvent keeps the mutex over the whole map, and compares each *)
(* session with the time it started at.                                    *)
TimerBegin ==
  /\ timer.at = "idle" /\ sessions # {}
  /\ timer' = [at |-> "next", now |-> now, left |-> sessions, copy |-> NoSession,
               renewed |-> {i \in sessions : now - touched[i] <= expirationTime}]
  /\ UNCHANGED <<now, data, sessions, web, touched>>

TimerLook(i) ==
  /\ timer.at = "next" /\ i \in timer.left
  /\ data' = Take(data, i)
  /\ timer' = [timer EXCEPT !.at = IF timer.now - data[i].lastAccess > expirationTime
                                   THEN "erase" ELSE "drop",
                            !.copy = i, !.left = @ \ {i}]
  /\ UNCHANGED <<now, sessions, web, touched>>

TimerErase ==
  /\ timer.at = "erase"
  /\ sessions' = sessions \ {timer.copy}
  /\ data' = Drop(data, timer.copy)
  /\ timer' = [timer EXCEPT !.at = "drop"]
  /\ UNCHANGED <<now, web, touched>>

TimerDrop ==
  /\ timer.at = "drop"
  /\ data' = Drop(data, timer.copy)
  /\ timer' = [timer EXCEPT !.at = "next", !.copy = NoSession]
  /\ UNCHANGED <<now, sessions, web, touched>>

TimerEnd ==
  /\ timer.at = "next" /\ timer.left = {}
  /\ timer' = NoTimer
  /\ UNCHANGED <<now, data, sessions, web, touched>>

Tick ==
  /\ now < MaxTime
  /\ now' = now + 1
  /\ UNCHANGED <<data, sessions, web, timer, touched>>

Thread(t) ==
  \/ \E c \in Used \cup {NoSession} : Request(t, c)
  \/ AskAgain(t) \/ GetSessionId(t) \/ Find(t) \/ Renew(t)
  \/ \E i \in Ids : Create(t, i) \/ GetById(t, i)
  \/ NullSession(t) \/ RenewById(t) \/ Assign(t) \/ DropOld(t) \/ DropTemporary(t)
  \/ (\E k \in Keys : Set(t, k) \/ Remove(t, k))
  \/ CallRemove(t) \/ RemoveSession(t) \/ LetGo(t) \/ Answered(t)

Timer == TimerBegin \/ (\E i \in Ids : TimerLook(i)) \/ TimerErase \/ TimerDrop \/ TimerEnd

Next == (\E t \in Threads : Thread(t)) \/ Timer \/ Tick

Spec == Init /\ [][Next]_vars

-------------------------------------------------------------------------------
(* The handles to the data of session i: the map of the store, the         *)
(* variables and parameters of the threads, the copy of the timer.         *)
Handles(i) ==
  (IF i \in sessions THEN 1 ELSE 0)
    + Cardinality({t \in Threads : web[t].session = i})
    + Cardinality({t \in Threads : web[t].param = i})
    + Cardinality({t \in Threads : web[t].old = i})
    + (IF timer.copy = i THEN 1 ELSE 0)

(* The data of a session lives exactly as long as there is a handle to it: *)
(* a handle is never left with deleted data when the timer or another      *)
(* thread removes the session, and the last handle deletes it (refCount of *)
(* httpsession.cpp).                                                       *)
SessionsAreCounted ==
  \A i \in Ids : /\ data[i].refCount = Handles(i)
                 /\ data[i].live <=> Handles(i) > 0

(* The timer keeps every session getSession returned within the expiration *)
(* time before the timer started, and leaves none whose last access is     *)
(* longer ago, whatever the threads do meanwhile with the handles they     *)
(* took before (sessionTimerEvent, setLastAccess).                         *)
RenewedInTimeIsKept ==
  timer.at = "next" =>
    /\ timer.renewed \subseteq sessions
    /\ \A i \in sessions \ timer.left : timer.now - data[i].lastAccess <= expirationTime
===============================================================================
