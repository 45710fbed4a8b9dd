------------------------------ MODULE HttpPool ------------------------------
(***************************************************************************)
(* The server behind the web interface: a pool of connection handlers,     *)
(* each with a thread, a socket and a read timer of its own.  The main     *)
(* thread accepts a connection, marks a handler as busy and posts it the   *)
(* socket; a timer of the main thread deletes idle handlers and waits for  *)
(* their threads.  The thread of a handler reads requests, has them        *)
(* answered and closes the connection; only then does it clear busy.       *)
(*                                                                         *)
(* While a thread waits for its client to take what was written, it learns *)
(* of a hang-up in the middle of read() or readTimeout(): disconnected()   *)
(* is called from there, and the rest of the function runs without a       *)
(* connection, and with the handler free for another one.                  *)
(***************************************************************************)
EXTENDS Integers, Sequences, FiniteSets

CONSTANTS Handler, Client, NoHandler, NoClient, Off,
          maxThreads, minThreads,               \* settings of the listener
          MaxConnects, MaxSends, MaxFails       \* bounds

ASSUME SettingsAssumption ==
  /\ maxThreads \in Nat /\ minThreads \in Nat
  /\ NoHandler \notin Handler /\ NoClient \notin Client
  /\ Off \notin Client \cup {NoClient}
  /\ IsFiniteSet(Handler) /\ Cardinality(Handler) >= maxThreads
  /\ MaxConnects \in Nat /\ MaxSends \in Nat /\ MaxFails \in Nat

(* What a client sends at a time: something short of a request, the end of *)
(* one, after which the connection is kept or closed, or the byte that     *)
(* makes it too large.                                                     *)
Pieces == {"part", "keep", "close", "huge"}

VARIABLES
  pool,            \* the handlers that exist, the oldest first
  busy, posted, socket, timer, request, pc, back,  \* of each handler
  deleting,        \* the handler whose thread the main thread waits for
  conn, inbox, unread, hungUp,                     \* of the clients
  connects, sends, fails

serverVars == <<pool, busy, posted, socket, timer, request, pc, back, deleting>>
clientVars == <<conn, inbox, unread, hungUp>>
bounds     == <<connects, sends, fails>>
vars       == <<serverVars, clientVars, bounds>>

ToSet(s) == {s[i] : i \in DOMAIN s}

(* timer is Off, or tells whose connection it was started for; request is  *)
(* the client the first bytes of currentRequest came from.                 *)
Init ==
  /\ pool = <<>> /\ busy = [h \in Handler |-> FALSE]
  /\ posted = [h \in Handler |-> <<>>] /\ socket = [h \in Handler |-> NoClient]
  /\ timer = [h \in Handler |-> Off] /\ request = [h \in Handler |-> NoClient]
  /\ pc = [h \in Handler |-> "loop"] /\ back = [h \in Handler |-> "loop"]
  /\ deleting = NoHandler
  /\ conn = [c \in Client |-> "out"] /\ inbox = [c \in Client |-> <<>>]
  /\ unread = {} /\ hungUp = {}
  /\ connects = 0 /\ sends = 0 /\ fails = 0

-----------------------------------------------------------------------------
(* The clients.                                                            *)

Connect(c) ==
  /\ conn[c] = "out" /\ connects < MaxConnects
  /\ conn' = [conn EXCEPT ![c] = "queued"] /\ connects' = connects + 1
  /\ UNCHANGED <<serverVars, inbox, unread, hungUp, sends, fails>>

Send(c, piece) ==
  /\ conn[c] \in {"queued", "accepted"} /\ c \notin hungUp /\ sends < MaxSends
  /\ inbox' = [inbox EXCEPT ![c] = Append(@, piece)] /\ sends' = sends + 1
  /\ UNCHANGED <<serverVars, conn, unread, hungUp, connects, fails>>

HangUp(c) ==
  /\ conn[c] \in {"queued", "accepted"} /\ c \notin hungUp
  /\ hungUp' = hungUp \cup {c}
  /\ UNCHANGED <<serverVars, conn, inbox, unread, bounds>>

TakeAnswer(c) ==
  /\ c \in unread /\ unread' = unread \ {c}
  /\ UNCHANGED <<serverVars, conn, inbox, hungUp, bounds>>

Forget(c) ==
  /\ conn' = [conn EXCEPT ![c] = "out"] /\ inbox' = [inbox EXCEPT ![c] = <<>>]
  /\ unread' = unread \ {c} /\ hungUp' = hungUp \ {c}

(* Nobody answers, and the client does not wait any longer.                *)
GiveUp(c) == conn[c] = "lost" /\ Forget(c) /\ UNCHANGED <<serverVars, bounds>>

-----------------------------------------------------------------------------
(* The main thread, unless it waits for the thread of a handler.           *)

Give(h, c) ==
  /\ posted' = [posted EXCEPT ![h] = Append(@, c)]
  /\ conn' = [conn EXCEPT ![c] = "accepted"]
  /\ UNCHANGED <<socket, timer, request, pc, back, deleting, inbox, unread,
                 hungUp, bounds>>

(* Mutant: a handler of the pool is taken without setBusy().               *)
TakeFreeUnmarked(c) ==
  \E i \in DOMAIN pool :
    /\ ~busy[pool[i]] /\ \A j \in 1..(i - 1) : busy[pool[j]]
    /\ UNCHANGED <<pool, busy>> /\ Give(pool[i], c)

TakeFree(c) ==
  \E i \in DOMAIN pool :
    /\ ~busy[pool[i]] /\ \A j \in 1..(i - 1) : busy[pool[j]]
    /\ busy' = [busy EXCEPT ![pool[i]] = TRUE]
    /\ UNCHANGED pool /\ Give(pool[i], c)

NoneFree == \A h \in ToSet(pool) : busy[h]

TakeNew(c) ==
  /\ NoneFree /\ Len(pool) < maxThreads
  /\ LET h == CHOOSE h \in Handler : h \notin ToSet(pool) IN
     /\ pool' = Append(pool, h) /\ busy' = [busy EXCEPT ![h] = TRUE]
     /\ Give(h, c)

Refuse(c) ==
  /\ NoneFree /\ Len(pool) >= maxThreads
  /\ Forget(c) /\ UNCHANGED <<serverVars, bounds>>

incomingConnection(c) ==
  /\ deleting = NoHandler /\ conn[c] = "queued"
  /\ TakeFree(c) \/ TakeNew(c) \/ Refuse(c)

(* Mutant: handlers in use are counted, and deleted, as well.              *)
cleanupAny ==
  /\ deleting = NoHandler /\ Len(pool) > minThreads
  /\ deleting' = pool[minThreads + 1]
  /\ UNCHANGED <<pool, busy, posted, socket, timer, request, pc, back>>
  /\ UNCHANGED <<clientVars, bounds>>
cleanup ==
  /\ deleting = NoHandler
  /\ \E i \in DOMAIN pool :
       /\ ~busy[pool[i]]
       /\ Cardinality({j \in 1..(i - 1) : ~busy[pool[j]]}) = minThreads
       /\ deleting' = pool[i]
  /\ UNCHANGED <<pool, busy, posted, socket, timer, request, pc, back>>
  /\ UNCHANGED <<clientVars, bounds>>

(* The event loop of its thread ends, thread_done stops the timer and      *)
(* closes the socket, and the main thread takes the handler off the pool.  *)
thread_done(h) ==
  /\ deleting = h /\ pc[h] = "loop" /\ deleting' = NoHandler
  /\ \E i \in DOMAIN pool :
       /\ pool[i] = h
       /\ pool' = [k \in 1..(Len(pool) - 1) |-> IF k < i THEN pool[k] ELSE pool[k + 1]]
  /\ timer' = [timer EXCEPT ![h] = Off] /\ request' = [request EXCEPT ![h] = NoClient]
  /\ posted' = [posted EXCEPT ![h] = <<>>]
  /\ UNCHANGED <<busy, socket, pc, back, clientVars, bounds>>

-----------------------------------------------------------------------------
(* The thread of handler h.                                                *)

Goto(h, from, to) == pc[h] \in from /\ pc' = [pc EXCEPT ![h] = to]

(* A descriptor that cannot be used leaves the handler as it is.           *)
DescriptorFails(h, c) ==
  /\ fails < MaxFails /\ fails' = fails + 1
  /\ conn' = [conn EXCEPT ![c] = "lost"]
  /\ UNCHANGED <<socket, timer, request>>

(* Mutants: currentRequest is kept; the timer is not started.              *)
SocketIsSetRequestKept(h, c) ==
  /\ socket' = [socket EXCEPT ![h] = c] /\ timer' = [timer EXCEPT ![h] = c]
  /\ UNCHANGED <<request, conn, fails>>
SocketIsSetUntimed(h, c) ==
  /\ socket' = [socket EXCEPT ![h] = c] /\ request' = [request EXCEPT ![h] = NoClient]
  /\ UNCHANGED <<timer, conn, fails>>

SocketIsSet(h, c) ==
  /\ socket' = [socket EXCEPT ![h] = c] /\ timer' = [timer EXCEPT ![h] = c]
  /\ request' = [request EXCEPT ![h] = NoClient]
  /\ UNCHANGED <<conn, fails>>

handleConnection(h) ==
  /\ pc[h] = "loop" /\ posted[h] # <<>>
  /\ posted' = [posted EXCEPT ![h] = Tail(@)] /\ busy' = [busy EXCEPT ![h] = TRUE]
  /\ LET c == Head(posted[h]) IN DescriptorFails(h, c) \/ SocketIsSet(h, c)
  /\ UNCHANGED <<pool, pc, back, deleting, inbox, unread, hungUp, connects, sends>>

(* Mutant: busy is not cleared.                                            *)
disconnectedStaysBusy(h) ==
  /\ socket' = [socket EXCEPT ![h] = NoClient] /\ timer' = [timer EXCEPT ![h] = Off]
  /\ UNCHANGED busy /\ Forget(socket[h])
disconnected(h) ==
  /\ socket' = [socket EXCEPT ![h] = NoClient] /\ timer' = [timer EXCEPT ![h] = Off]
  /\ busy' = [busy EXCEPT ![h] = FALSE] /\ Forget(socket[h])

(* The client hung up and what it sent before has been read; a thread that *)
(* writes to it may learn of that first.                                   *)
Lost(h) ==
  /\ socket[h] \in hungUp
  /\ pc[h] = "loop" => inbox[socket[h]] = <<>>
  /\ pc[h] # "reading" /\ disconnected(h)
  /\ UNCHANGED <<pool, posted, request, pc, back, deleting, bounds>>

(* readyRead comes in the event loop, or while readTimeout waits for what  *)
(* was written.                                                            *)
Available(h) == socket[h] # NoClient /\ inbox[socket[h]] # <<>>

read(h) ==
  /\ Goto(h, {"loop", "timeout"}, "reading") /\ Available(h)
  /\ pc[h] = "timeout" => socket[h] \in unread
  /\ back' = [back EXCEPT ![h] = pc[h]]
  /\ UNCHANGED <<pool, busy, posted, socket, timer, request, deleting>>
  /\ UNCHANGED <<clientVars, bounds>>

Take(h) == inbox' = [inbox EXCEPT ![socket[h]] = Tail(@)]
NextPiece(h) == Head(inbox[socket[h]])
From(h) == request' = [request EXCEPT ![h] = IF @ = NoClient THEN socket[h] ELSE @]

(* A part of a body restarts the timer, a part of the header does not.     *)
Collect(h) ==
  /\ pc[h] = "reading" /\ Available(h) /\ NextPiece(h) = "part" /\ Take(h) /\ From(h)
  /\ \/ timer' = [timer EXCEPT ![h] = socket[h]]
     \/ UNCHANGED timer
  /\ UNCHANGED <<pool, busy, posted, socket, pc, back, deleting, conn, unread, hungUp>>
  /\ UNCHANGED bounds

(* An oversized request is answered with 413.                              *)
Abort(h) ==
  /\ Available(h) /\ NextPiece(h) = "huge" /\ Take(h) /\ From(h)
  /\ Goto(h, {"reading"}, "closing") /\ unread' = unread \cup {socket[h]}
  /\ UNCHANGED <<pool, busy, posted, socket, timer, back, deleting, conn, hungUp>>
  /\ UNCHANGED bounds

(* The request is complete: service() is called with it.                   *)
Complete(h) ==
  /\ Available(h) /\ NextPiece(h) \in {"keep", "close"} /\ Take(h) /\ From(h)
  /\ Goto(h, {"reading"}, IF NextPiece(h) = "keep" THEN "serving" ELSE "servingLast")
  /\ timer' = [timer EXCEPT ![h] = Off] /\ unread' = unread \cup {socket[h]}
  /\ UNCHANGED <<pool, busy, posted, socket, back, deleting, conn, hungUp, bounds>>

(* Mutant: the timer is not started again.                                 *)
KeepUntimed(h) ==
  /\ Goto(h, {"serving"}, "reading") /\ request' = [request EXCEPT ![h] = NoClient]
  /\ UNCHANGED <<pool, busy, posted, socket, timer, back, deleting>>
  /\ UNCHANGED <<clientVars, bounds>>
Keep(h) ==
  /\ Goto(h, {"serving"}, "reading") /\ request' = [request EXCEPT ![h] = NoClient]
  /\ timer' = [timer EXCEPT ![h] = socket[h]]
  /\ UNCHANGED <<pool, busy, posted, socket, back, deleting, clientVars, bounds>>

CloseAfter(h) ==
  /\ Goto(h, {"servingLast"}, "closing")
  /\ UNCHANGED <<pool, busy, posted, socket, timer, request, back, deleting>>
  /\ UNCHANGED <<clientVars, bounds>>

(* disconnectFromHost, once everything is written.  Without a connection   *)
(* it does nothing.                                                        *)
disconnectFromHost(h) ==
  /\ socket[h] \notin unread
  /\ IF socket[h] = NoClient THEN UNCHANGED <<busy, socket, timer, clientVars>>
     ELSE disconnected(h)
  /\ request' = [request EXCEPT ![h] = NoClient]

Close(h) ==
  /\ Goto(h, {"closing"}, "reading") /\ disconnectFromHost(h)
  /\ UNCHANGED <<pool, posted, back, deleting, bounds>>

readDone(h) ==
  /\ Goto(h, {"reading"}, back[h]) /\ ~Available(h)
  /\ back' = [back EXCEPT ![h] = "loop"]
  /\ UNCHANGED <<pool, busy, posted, socket, timer, request, deleting>>
  /\ UNCHANGED <<clientVars, bounds>>

readTimeout(h) ==
  /\ timer[h] # Off /\ Goto(h, {"loop"}, "timeout")
  /\ timer' = [timer EXCEPT ![h] = Off]
  /\ UNCHANGED <<pool, busy, posted, socket, request, back, deleting>>
  /\ UNCHANGED <<clientVars, bounds>>

timeoutDone(h) ==
  /\ Goto(h, {"timeout"}, "loop") /\ disconnectFromHost(h)
  /\ UNCHANGED <<pool, posted, back, deleting, bounds>>

-----------------------------------------------------------------------------
Waiting(h) == handleConnection(h) \/ read(h) \/ readTimeout(h) \/ timeoutDone(h)
Reading(h) ==
  Collect(h) \/ Abort(h) \/ Complete(h) \/ Keep(h) \/ CloseAfter(h) \/ Close(h)
    \/ readDone(h)
Thread(h) == Lost(h) \/ Waiting(h) \/ Reading(h)

Next ==
  \/ \E c \in Client :
       Connect(c) \/ HangUp(c) \/ GiveUp(c) \/ TakeAnswer(c) \/ incomingConnection(c)
  \/ \E c \in Client, piece \in Pieces : Send(c, piece)
  \/ cleanup
  \/ \E h \in Handler : thread_done(h) \/ Thread(h)

Spec == Init /\ [][Next]_vars

FairSpec ==
  /\ Spec
  /\ \A c \in Client : WF_vars(incomingConnection(c)) /\ WF_vars(TakeAnswer(c))
  /\ \A h \in Handler : WF_vars(thread_done(h)) /\ WF_vars(Thread(h))
-----------------------------------------------------------------------------
(* Every variable has its type.                                            *)
TypeOK ==
  /\ pool \in Seq(Handler) /\ deleting \in Handler \cup {NoHandler}
  /\ busy \in [Handler -> BOOLEAN] /\ posted \in [Handler -> Seq(Client)]
  /\ socket \in [Handler -> Client \cup {NoClient}]
  /\ timer \in [Handler -> Client \cup {NoClient, Off}]
  /\ request \in [Handler -> Client \cup {NoClient}]
  /\ pc \in [Handler -> {"loop", "reading", "serving", "servingLast", "closing",
                         "timeout"}]
  /\ back \in [Handler -> {"loop", "timeout"}]
  /\ conn \in [Client -> {"out", "queued", "accepted", "lost"}]
  /\ inbox \in [Client -> Seq(Pieces)]
  /\ unread \subseteq Client /\ hungUp \subseteq Client
  /\ connects \in Nat /\ sends \in Nat /\ fails \in Nat

(* A handler that is not busy, and may be given away or deleted, has no    *)
(* client and none on the way.  One that is has one client at most: when   *)
(* handleConnection is called its socket is closed, as it asserts.         *)
FreeHandlersAreUnused ==
  \A h \in Handler :
    /\ ~busy[h] => posted[h] = <<>> /\ socket[h] = NoClient
    /\ posted[h] # <<>> => Len(posted[h]) = 1 /\ socket[h] = NoClient

Has(h, c) == socket[h] = c \/ c \in ToSet(posted[h])

(* A connection that was accepted is with one handler of the pool, until   *)
(* it is closed, whatever cleanup deletes meanwhile.                       *)
AcceptedHaveAHandler ==
  \A c \in Client : conn[c] = "accepted" =>
    \E h \in ToSet(pool) : Has(h, c) /\ \A g \in Handler \ {h} : ~Has(g, c)

(* However a connection ends, in the middle of read() or of readTimeout()  *)
(* included, the handler can be used again, unless it was given a socket   *)
(* that could not be used.                                                 *)
NoSlotIsLost ==
  Cardinality({h \in Handler : busy[h] /\ posted[h] = <<>> /\ socket[h] = NoClient})
    <= fails

(* No request is put together from what two clients sent.                  *)
RequestIsOfOneClient ==
  \A h \in Handler :
    socket[h] # NoClient /\ request[h] # NoClient => request[h] = socket[h]

(* A client that keeps a thread waiting has its own read timer running,    *)
(* not one left over from an earlier connection.                           *)
IdleClientIsTimed ==
  \A h \in Handler :
    pc[h] = "loop" /\ socket[h] # NoClient => timer[h] = socket[h]

(* Every connection comes to an end, refused, answered or timed out, if    *)
(* the client takes its answers or hangs up.                               *)
ConnectionsEnd ==
  \A c \in Client : conn[c] = "queued" ~> conn[c] \in {"out", "lost"}
=============================================================================
