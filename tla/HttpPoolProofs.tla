--------------------------- MODULE HttpPoolProofs ---------------------------
(***************************************************************************)
(* For any number of handlers and clients, and for any settings: a handler *)
(* that is not busy has no client, a request is of one client, an idle     *)
(* client has its own timer, only a socket that fails costs a slot, and an *)
(* accepted connection is with one handler until it is closed.             *)
(***************************************************************************)
EXTENDS HttpPool, FiniteSetTheorems, SequenceTheorems, TLAPS

(* While the pool may grow there is a handler to add to it.                *)
LEMMA RoomForOne ==
  ASSUME SettingsAssumption, NEW s \in Seq(Handler), Len(s) < maxThreads
  PROVE  \E h \in Handler : h \notin ToSet(s)
<1> SUFFICES ASSUME \A h \in Handler : h \in ToSet(s) PROVE FALSE
  OBVIOUS
<1>1. s \in Surjection(1..Len(s), Handler)
  BY DEF Surjection, ToSet
<1>2. IsFiniteSet(1..Len(s)) /\ Cardinality(1..Len(s)) = Len(s)
  <2>1. PICK n \in Nat : n = Len(s)
    OBVIOUS
  <2>2. \A b \in Int : Cardinality(1..b) = IF 1 > b THEN 0 ELSE b - 1 + 1
    BY FS_Interval
  <2>3. IsFiniteSet(1..n)
    BY FS_Interval
  <2> QED
    BY <2>1, <2>2, <2>3
<1>3. Cardinality(Handler) <= Len(s)
  BY <1>1, <1>2, FS_Surjection
<1>4. Cardinality(Handler) \in Nat /\ Cardinality(Handler) >= maxThreads
      /\ maxThreads \in Nat
  BY FS_CardinalityType DEF SettingsAssumption
<1> QED
  BY <1>3, <1>4

LEMMA EndIsTyped ==
  ASSUME TypeOK, NEW h \in Handler, disconnected(h)
  PROVE  /\ socket' \in [Handler -> Client \cup {NoClient}]
         /\ timer' \in [Handler -> Client \cup {NoClient, Off}]
         /\ busy' \in [Handler -> BOOLEAN]
         /\ conn' \in [Client -> {"out", "queued", "accepted", "lost"}]
         /\ inbox' \in [Client -> Seq(Pieces)]
         /\ unread' \subseteq Client /\ hungUp' \subseteq Client
<1>1. <<>> \in Seq(Pieces)
  OBVIOUS
<1>2. inbox' \in [Client -> Seq(Pieces)]
  BY <1>1 DEF TypeOK, disconnected, Forget
<1> QED
  BY <1>2 DEF TypeOK, disconnected, Forget

(* Every variable keeps its type.                                          *)
THEOREM TypeCorrectness == Spec => []TypeOK
<1> USE SettingsAssumption
<1>1. Init => TypeOK
  BY DEF Init, TypeOK, SettingsAssumption
<1>2. TypeOK /\ [Next]_vars => TypeOK'
  <2> SUFFICES ASSUME TypeOK, [Next]_vars PROVE TypeOK'
    OBVIOUS
  <2> USE DEF TypeOK
  <2>1. CASE UNCHANGED vars
    <3>1. UNCHANGED serverVars /\ UNCHANGED clientVars /\ UNCHANGED bounds
      BY <2>1 DEF vars
    <3>2. UNCHANGED <<pool, busy, posted, socket, timer, request, pc, back, deleting>>
      BY <3>1 DEF serverVars
    <3> QED
      BY <3>1, <3>2 DEF clientVars, bounds
  <2>2. ASSUME NEW c \in Client,
               Connect(c) \/ HangUp(c) \/ GiveUp(c) \/ TakeAnswer(c)
        PROVE  TypeOK'
    <3>1. <<>> \in Seq(Pieces)
      OBVIOUS
    <3>2. UNCHANGED serverVars
      BY <2>2 DEF Connect, HangUp, GiveUp, TakeAnswer
    <3>3. connects' \in Nat /\ sends' \in Nat /\ fails' \in Nat
      BY <2>2 DEF Connect, HangUp, GiveUp, TakeAnswer, bounds
    <3>4. /\ conn' \in [Client -> {"out", "queued", "accepted", "lost"}]
          /\ inbox' \in [Client -> Seq(Pieces)]
          /\ unread' \subseteq Client /\ hungUp' \subseteq Client
      <4>1. CASE Connect(c) \/ HangUp(c) \/ TakeAnswer(c)
        BY <4>1 DEF Connect, HangUp, TakeAnswer
      <4>2. CASE GiveUp(c)
        BY <3>1, <4>2 DEF GiveUp, Forget
      <4> QED
        BY <2>2, <4>1, <4>2
    <3> QED
      BY <3>2, <3>3, <3>4 DEF serverVars
  <2>3. ASSUME NEW c \in Client, incomingConnection(c) PROVE TypeOK'
    <3>1. CASE TakeFree(c)
      BY <3>1 DEF TakeFree, Give, bounds
    <3>2. CASE TakeNew(c)
      <4> DEFINE g == CHOOSE h \in Handler : h \notin ToSet(pool)
      <4>1. g \in Handler
        BY <3>2, RoomForOne DEF TakeNew
      <4> HIDE DEF g
      <4>2. pool' = Append(pool, g) /\ busy' = [busy EXCEPT ![g] = TRUE] /\ Give(g, c)
        BY <3>2 DEF TakeNew, g
      <4> QED
        BY <4>1, <4>2 DEF Give, bounds
    <3>3. CASE Refuse(c)
      <4>1. <<>> \in Seq(Pieces)
        OBVIOUS
      <4> QED
        BY <3>3, <4>1 DEF Refuse, Forget, serverVars, bounds
    <3> QED
      BY <2>3, <3>1, <3>2, <3>3 DEF incomingConnection
  <2>4. ASSUME NEW c \in Client, NEW piece \in Pieces, Send(c, piece)
        PROVE  TypeOK'
    BY <2>4 DEF Send, serverVars
  <2>5. CASE cleanup
    BY <2>5 DEF cleanup, clientVars, bounds
  <2>6. ASSUME NEW h \in Handler, thread_done(h) PROVE TypeOK'
    <3>1. pool' \in Seq(Handler)
      BY <2>6 DEF thread_done
    <3> QED
      BY <2>6, <3>1 DEF thread_done, clientVars, bounds
  <2>7. ASSUME NEW h \in Handler, Thread(h) PROVE TypeOK'
    <3>1. CASE handleConnection(h)
      <4>1. Head(posted[h]) \in Client /\ Tail(posted[h]) \in Seq(Client)
        BY <3>1 DEF handleConnection
      <4>2. UNCHANGED <<pool, pc, back, deleting, inbox, unread, hungUp, connects, sends>>
            /\ posted' \in [Handler -> Seq(Client)] /\ busy' \in [Handler -> BOOLEAN]
        BY <3>1, <4>1 DEF handleConnection
      <4>3. ASSUME NEW c \in Client, DescriptorFails(h, c) \/ SocketIsSet(h, c)
            PROVE  /\ socket' \in [Handler -> Client \cup {NoClient}]
                   /\ timer' \in [Handler -> Client \cup {NoClient, Off}]
                   /\ request' \in [Handler -> Client \cup {NoClient}]
                   /\ conn' \in [Client -> {"out", "queued", "accepted", "lost"}]
                   /\ fails' \in Nat
        <5>1. CASE DescriptorFails(h, c)
          BY <5>1 DEF DescriptorFails
        <5>2. CASE SocketIsSet(h, c)
          BY <5>2 DEF SocketIsSet
        <5> QED
          BY <4>3, <5>1, <5>2
      <4> QED
        BY <3>1, <4>1, <4>2, <4>3 DEF handleConnection
    <3>2. CASE Lost(h)
      <4>1. disconnected(h)
            /\ UNCHANGED <<pool, posted, request, pc, back, deleting>>
            /\ UNCHANGED <<connects, sends, fails>>
        BY <3>2 DEF Lost, bounds
      <4> QED
        BY <4>1, EndIsTyped
    <3>3. CASE read(h) \/ readTimeout(h) \/ readDone(h) \/ Keep(h) \/ CloseAfter(h)
      <4>1. UNCHANGED clientVars /\ UNCHANGED bounds
            /\ UNCHANGED <<pool, busy, posted, socket, deleting>>
        BY <3>3 DEF read, readTimeout, readDone, Keep, CloseAfter
      <4>2. pc' \in [Handler -> {"loop", "reading", "serving", "servingLast",
                                "closing", "timeout"}]
        BY <3>3, ZenonT(40) DEF read, readTimeout, readDone, Keep, CloseAfter, Goto
      <4>3. back' \in [Handler -> {"loop", "timeout"}]
        BY <3>3 DEF read, readTimeout, readDone, Keep, CloseAfter, Goto
      <4>4. timer' \in [Handler -> Client \cup {NoClient, Off}]
            /\ request' \in [Handler -> Client \cup {NoClient}]
        BY <3>3, ZenonT(40) DEF read, readTimeout, readDone, Keep, CloseAfter
      <4> QED
        BY <4>1, <4>2, <4>3, <4>4 DEF clientVars, bounds
    <3>4. CASE Collect(h) \/ Abort(h) \/ Complete(h)
      <4>0. UNCHANGED <<pool, busy, posted, socket, back, deleting, conn, hungUp>>
            /\ UNCHANGED <<connects, sends, fails>>
        BY <3>4 DEF Collect, Abort, Complete, bounds
      <4>1. socket[h] \in Client /\ Tail(inbox[socket[h]]) \in Seq(Pieces)
        BY <3>4 DEF Collect, Abort, Complete, Available
      <4>2. inbox' \in [Client -> Seq(Pieces)]
            /\ request' \in [Handler -> Client \cup {NoClient}]
        <5>1. Take(h) /\ From(h)
          BY <3>4 DEF Collect, Abort, Complete
        <5>2. inbox' \in [Client -> Seq(Pieces)]
          BY <4>1, <5>1 DEF Take
        <5>3. request' \in [Handler -> Client \cup {NoClient}]
          BY <4>1, <5>1 DEF From
        <5> QED
          BY <5>2, <5>3
      <4>3. timer' \in [Handler -> Client \cup {NoClient, Off}] /\ unread' \subseteq Client
        BY <3>4, <4>1 DEF Collect, Abort, Complete
      <4>4. pc' \in [Handler -> {"loop", "reading", "serving", "servingLast",
                                "closing", "timeout"}]
        BY <3>4 DEF Collect, Abort, Complete, Goto
      <4> QED
        BY <4>0, <4>2, <4>3, <4>4
    <3>5. CASE Close(h) \/ timeoutDone(h)
      <4>1. disconnectFromHost(h) /\ UNCHANGED <<pool, posted, back, deleting>>
            /\ UNCHANGED <<connects, sends, fails>>
            /\ pc' \in [Handler -> {"loop", "reading", "serving", "servingLast",
                                   "closing", "timeout"}]
        BY <3>5 DEF Close, timeoutDone, Goto, bounds
      <4>2. request' \in [Handler -> Client \cup {NoClient}]
        BY <4>1 DEF disconnectFromHost
      <4>3. CASE disconnected(h)
        BY <4>1, <4>2, <4>3, EndIsTyped
      <4>4. CASE UNCHANGED <<busy, socket, timer, clientVars>>
        BY <4>1, <4>2, <4>4 DEF clientVars
      <4> QED
        BY <4>1, <4>3, <4>4 DEF disconnectFromHost
    <3> QED
      BY <2>7, <3>1, <3>2, <3>3, <3>4, <3>5 DEF Thread, Waiting, Reading
  <2> QED
    BY <2>1, <2>2, <2>3, <2>4, <2>5, <2>6, <2>7 DEF Next
<1> QED
  BY <1>1, <1>2, PTL DEF Spec

-----------------------------------------------------------------------------
(* The slots.  A handler outside the pool is not busy, the one that is     *)
(* being deleted is not busy, and one that is not busy is unused.          *)

OutsideAreFree == \A h \in Handler : h \notin ToSet(pool) => ~busy[h]
DeletedIsFree  == \A h \in Handler : deleting = h => ~busy[h]

SlotInv == FreeHandlersAreUnused /\ OutsideAreFree /\ DeletedIsFree

(* A free handler is marked as it is given away.                           *)
LEMMA GivenAreMarked ==
  ASSUME TypeOK, SlotInv, NEW h \in Handler, NEW c \in Client, ~busy[h],
         deleting = NoHandler, busy' = [busy EXCEPT ![h] = TRUE], Give(h, c),
         SettingsAssumption,
         h \in ToSet(pool'), \A g \in ToSet(pool) : g \in ToSet(pool')
  PROVE  SlotInv'
<1> USE DEF TypeOK, SlotInv
<1>1. posted[h] = <<>> /\ socket[h] = NoClient
  BY DEF FreeHandlersAreUnused
<1>2. posted' = [posted EXCEPT ![h] = Append(@, c)] /\ socket' = socket
      /\ deleting' = NoHandler
  BY DEF Give
<1>3. Len(posted'[h]) = 1
  BY <1>1, <1>2
<1>4. FreeHandlersAreUnused'
  BY <1>1, <1>2, <1>3 DEF FreeHandlersAreUnused
<1>5. OutsideAreFree'
  BY DEF OutsideAreFree
<1>6. DeletedIsFree'
  BY <1>2 DEF DeletedIsFree, SettingsAssumption
<1> QED
  BY <1>4, <1>5, <1>6

(* Only a handler with a client is disconnected, so none is on the way.    *)
LEMMA EndFreesTheSlot ==
  ASSUME TypeOK, SlotInv, NEW h \in Handler, disconnected(h), socket[h] # NoClient,
         UNCHANGED <<pool, posted, deleting>>
  PROVE  SlotInv'
<1> USE DEF TypeOK, SlotInv
<1>1. posted[h] = <<>>
  BY DEF FreeHandlersAreUnused
<1>2. /\ socket' = [socket EXCEPT ![h] = NoClient]
      /\ busy' = [busy EXCEPT ![h] = FALSE]
  BY DEF disconnected
<1>3. FreeHandlersAreUnused'
  BY <1>1, <1>2 DEF FreeHandlersAreUnused
<1>4. OutsideAreFree' /\ DeletedIsFree'
  BY <1>2 DEF OutsideAreFree, DeletedIsFree
<1> QED
  BY <1>3, <1>4

LEMMA ThreadKeepsSlots ==
  ASSUME SettingsAssumption, TypeOK, SlotInv, NEW h \in Handler, Thread(h)
  PROVE  SlotInv'
<1> USE DEF TypeOK, SlotInv
<1>1. CASE handleConnection(h)
  <2>1. /\ UNCHANGED <<pool, deleting>> /\ posted[h] # <<>>
        /\ posted' = [posted EXCEPT ![h] = Tail(@)] /\ busy' = [busy EXCEPT ![h] = TRUE]
    BY <1>1 DEF handleConnection
  <2>2. Len(posted[h]) = 1 /\ busy[h]
    BY <2>1 DEF FreeHandlersAreUnused
  <2>3. posted'[h] = <<>>
    <3>1. posted'[h] = Tail(posted[h]) /\ posted[h] \in Seq(Client)
      BY <2>1
    <3>2. Tail(posted[h]) \in Seq(Client) /\ Len(Tail(posted[h])) = 0
      BY <2>1, <2>2, <3>1
    <3> QED
      BY <3>1, <3>2, EmptySeq
  <2>4. \A g \in Handler \ {h} : socket'[g] = socket[g]
    <3>1. PICK c : DescriptorFails(h, c) \/ SocketIsSet(h, c)
      BY <1>1 DEF handleConnection
    <3> QED
      BY <3>1 DEF DescriptorFails, SocketIsSet
  <2>5. FreeHandlersAreUnused'
    BY <2>1, <2>3, <2>4 DEF FreeHandlersAreUnused
  <2>6. OutsideAreFree' /\ DeletedIsFree'
    BY <2>1, <2>2 DEF OutsideAreFree, DeletedIsFree
  <2> QED
    BY <2>5, <2>6
<1>2. CASE Lost(h)
  <2>1. disconnected(h) /\ socket[h] # NoClient /\ UNCHANGED <<pool, posted, deleting>>
    BY <1>2 DEF Lost, SettingsAssumption
  <2> QED
    BY <2>1, EndFreesTheSlot
<1>3. CASE Close(h) \/ timeoutDone(h)
  <2>1. disconnectFromHost(h) /\ UNCHANGED <<pool, posted, deleting>>
    BY <1>3 DEF Close, timeoutDone
  <2>2. CASE socket[h] # NoClient
    BY <2>1, <2>2, EndFreesTheSlot DEF disconnectFromHost
  <2>3. CASE socket[h] = NoClient
    BY <2>1, <2>3 DEF disconnectFromHost, FreeHandlersAreUnused, OutsideAreFree,
                      DeletedIsFree
  <2> QED
    BY <2>2, <2>3
<1>4. ASSUME UNCHANGED <<pool, busy, posted, socket, deleting>> PROVE SlotInv'
  BY <1>4 DEF FreeHandlersAreUnused, OutsideAreFree, DeletedIsFree
<1>5. CASE read(h) \/ readTimeout(h) \/ readDone(h) \/ Keep(h) \/ CloseAfter(h)
  BY <1>4, <1>5 DEF read, readTimeout, readDone, Keep, CloseAfter
<1>6. CASE Collect(h) \/ Abort(h) \/ Complete(h)
  BY <1>4, <1>6 DEF Collect, Abort, Complete
<1> QED
  BY <1>1, <1>2, <1>3, <1>5, <1>6 DEF Thread, Waiting, Reading

LEMMA AppendedIsIn ==
  ASSUME TypeOK, NEW g \in Handler, pool' = Append(pool, g)
  PROVE  g \in ToSet(pool') /\ \A h \in ToSet(pool) : h \in ToSet(pool')
<1>1. pool \in Seq(Handler)
  BY DEF TypeOK
<1>2. Len(pool) + 1 \in DOMAIN pool' /\ pool'[Len(pool) + 1] = g
  BY <1>1
<1>3. \A i \in DOMAIN pool : i \in DOMAIN pool' /\ pool'[i] = pool[i]
  BY <1>1
<1>4. g \in ToSet(pool')
  BY <1>2 DEF ToSet
<1>5. ASSUME NEW h \in ToSet(pool) PROVE h \in ToSet(pool')
  <2>1. PICK i \in DOMAIN pool : pool[i] = h
    BY DEF ToSet
  <2>2. i \in DOMAIN pool' /\ pool'[i] = h
    BY <1>3, <2>1
  <2> QED
    BY <2>2 DEF ToSet
<1> QED
  BY <1>4, <1>5

LEMMA AcceptKeepsSlots ==
  ASSUME SettingsAssumption, TypeOK, SlotInv, NEW c \in Client, incomingConnection(c)
  PROVE  SlotInv'
<1> USE DEF TypeOK
<1>0. deleting = NoHandler
  BY DEF incomingConnection
<1>1. CASE TakeFree(c)
  <2>1. PICK i \in DOMAIN pool : /\ ~busy[pool[i]] /\ UNCHANGED pool
                                 /\ busy' = [busy EXCEPT ![pool[i]] = TRUE]
                                 /\ Give(pool[i], c)
    BY <1>1 DEF TakeFree
  <2>2. pool[i] \in Handler /\ pool[i] \in ToSet(pool)
    BY DEF ToSet
  <2> QED
    BY <1>0, <2>1, <2>2, GivenAreMarked
<1>2. CASE TakeNew(c)
  <2> DEFINE g == CHOOSE h \in Handler : h \notin ToSet(pool)
  <2>1. g \in Handler /\ g \notin ToSet(pool)
    BY <1>2, RoomForOne DEF TakeNew
  <2> HIDE DEF g
  <2>2. pool' = Append(pool, g) /\ busy' = [busy EXCEPT ![g] = TRUE] /\ Give(g, c)
    BY <1>2 DEF TakeNew, g
  <2>3. g \in ToSet(pool') /\ \A h \in ToSet(pool) : h \in ToSet(pool')
    BY <2>1, <2>2, AppendedIsIn
  <2>4. ~busy[g]
    BY <2>1 DEF SlotInv, OutsideAreFree
  <2> QED
    BY <1>0, <2>1, <2>2, <2>3, <2>4, GivenAreMarked
<1>3. CASE Refuse(c)
  BY <1>3 DEF Refuse, serverVars, SlotInv, FreeHandlersAreUnused, OutsideAreFree,
              DeletedIsFree
<1> QED
  BY <1>1, <1>2, <1>3 DEF incomingConnection

(* A handler that is deleted leaves the others in the pool.                *)
LEMMA OthersStay ==
  ASSUME TypeOK, NEW h \in Handler, thread_done(h), NEW g \in ToSet(pool), g # h
  PROVE  g \in ToSet(pool')
<1>1. pool \in Seq(Handler)
  BY DEF TypeOK
<1>2. PICK i \in DOMAIN pool :
        /\ pool[i] = h
        /\ pool' = [k \in 1..(Len(pool) - 1) |-> IF k < i THEN pool[k] ELSE pool[k + 1]]
  BY DEF thread_done
<1>3. PICK j \in DOMAIN pool : pool[j] = g
  BY DEF ToSet
<1>4. Len(pool) \in Nat /\ i \in 1..Len(pool) /\ j \in 1..Len(pool) /\ i # j
  BY <1>1, <1>2, <1>3
<1>5. DOMAIN pool' = 1..(Len(pool) - 1)
  BY <1>2
<1>6. CASE j < i
  <2>1. j \in DOMAIN pool' /\ pool'[j] = g
    BY <1>2, <1>3, <1>4, <1>5, <1>6
  <2> QED
    BY <2>1 DEF ToSet
<1>7. CASE j > i
  <2>1. j - 1 \in DOMAIN pool' /\ pool'[j - 1] = g
    BY <1>2, <1>3, <1>4, <1>5, <1>7
  <2> QED
    BY <2>1 DEF ToSet
<1> QED
  BY <1>4, <1>6, <1>7

LEMMA CleanupKeepsSlots ==
  ASSUME TypeOK, SlotInv, cleanup \/ \E h \in Handler : thread_done(h),
         SettingsAssumption
  PROVE  SlotInv'
<1> USE DEF TypeOK, SlotInv
<1>1. CASE cleanup
  <2>1. PICK i \in DOMAIN pool : ~busy[pool[i]] /\ deleting' = pool[i]
    BY <1>1 DEF cleanup
  <2>2. UNCHANGED <<pool, busy, posted, socket>>
    BY <1>1 DEF cleanup
  <2> QED
    BY <2>1, <2>2 DEF FreeHandlersAreUnused, OutsideAreFree, DeletedIsFree
<1>2. ASSUME NEW h \in Handler, thread_done(h) PROVE SlotInv'
  <2>1. /\ deleting = h /\ deleting' = NoHandler /\ UNCHANGED <<busy, socket>>
        /\ posted' = [posted EXCEPT ![h] = <<>>]
    BY <1>2 DEF thread_done
  <2>4. FreeHandlersAreUnused'
    BY <2>1 DEF FreeHandlersAreUnused
  <2>5. OutsideAreFree'
    BY <1>2, <2>1, OthersStay DEF OutsideAreFree, DeletedIsFree
  <2>6. DeletedIsFree'
    BY <2>1 DEF DeletedIsFree, SettingsAssumption
  <2> QED
    BY <2>4, <2>5, <2>6
<1> QED
  BY <1>1, <1>2

LEMMA SlotsAreKept == Spec => []SlotInv
<1> USE SettingsAssumption
<1>1. Init => SlotInv
  BY DEF Init, SlotInv, FreeHandlersAreUnused, OutsideAreFree, DeletedIsFree
<1>2. TypeOK /\ SlotInv /\ [Next]_vars => SlotInv'
  <2> SUFFICES ASSUME TypeOK, SlotInv, [Next]_vars PROVE SlotInv'
    OBVIOUS
  <2>1. ASSUME NEW c \in Client, incomingConnection(c) PROVE SlotInv'
    BY <2>1, AcceptKeepsSlots
  <2>2. ASSUME NEW h \in Handler, Thread(h) PROVE SlotInv'
    BY <2>2, ThreadKeepsSlots
  <2>3. CASE cleanup \/ \E h \in Handler : thread_done(h)
    BY <2>3, CleanupKeepsSlots
  <2>4. ASSUME UNCHANGED serverVars PROVE SlotInv'
    BY <2>4 DEF serverVars, SlotInv, FreeHandlersAreUnused, OutsideAreFree, DeletedIsFree
  <2>5. ASSUME NEW c \in Client, Connect(c) \/ HangUp(c) \/ GiveUp(c) \/ TakeAnswer(c)
        PROVE  UNCHANGED serverVars
    BY <2>5 DEF Connect, HangUp, GiveUp, TakeAnswer
  <2>6. ASSUME NEW c \in Client, NEW piece \in Pieces, Send(c, piece)
        PROVE  UNCHANGED serverVars
    BY <2>6 DEF Send
  <2>7. CASE UNCHANGED vars
    BY <2>4, <2>7 DEF vars
  <2> QED
    BY <2>1, <2>2, <2>3, <2>4, <2>5, <2>6, <2>7 DEF Next
<1> QED
  BY <1>1, <1>2, TypeCorrectness, PTL DEF Spec

(* What the main thread takes for free has no client and none on the way,  *)
(* and a handler that has a client is never given another.                 *)
THEOREM FreeHandlers == Spec => []FreeHandlersAreUnused
<1>1. SlotInv => FreeHandlersAreUnused
  BY DEF SlotInv
<1> QED
  BY <1>1, SlotsAreKept, PTL

-----------------------------------------------------------------------------
(* The requests and the timers of a handler are the business of its own    *)
(* thread, up to the moment the handler is deleted: it has no client then. *)

ReadersAreTimed ==
  \A h \in Handler :
    pc[h] = "reading" /\ back[h] = "loop" /\ socket[h] # NoClient
      => timer[h] = socket[h]

ThreadInv == RequestIsOfOneClient /\ IdleClientIsTimed /\ ReadersAreTimed

LEMMA ThreadKeepsItsInv ==
  ASSUME TypeOK, ThreadInv, NEW h \in Handler, Thread(h)
  PROVE  ThreadInv'
<1> USE DEF TypeOK
<1>1. /\ \A g \in Handler \ {h} :
           /\ socket'[g] = socket[g] /\ timer'[g] = timer[g] /\ request'[g] = request[g]
           /\ pc'[g] = pc[g] /\ back'[g] = back[g]
  <2>1. CASE handleConnection(h)
    <3> SUFFICES ASSUME NEW c, DescriptorFails(h, c) \/ SocketIsSet(h, c)
                 PROVE  \A g \in Handler \ {h} :
                          /\ socket'[g] = socket[g] /\ timer'[g] = timer[g]
                          /\ request'[g] = request[g]
      BY <2>1 DEF handleConnection
    <3> QED
      BY DEF DescriptorFails, SocketIsSet
  <2>2. CASE Lost(h)
    BY <2>2 DEF Lost, disconnected
  <2>3. CASE read(h) \/ readTimeout(h) \/ readDone(h) \/ Keep(h) \/ CloseAfter(h)
    BY <2>3 DEF read, readTimeout, readDone, Keep, CloseAfter, Goto
  <2>4. CASE Collect(h) \/ Abort(h) \/ Complete(h)
    BY <2>4 DEF Collect, Abort, Complete, From, Goto
  <2>5. CASE Close(h) \/ timeoutDone(h)
    BY <2>5 DEF Close, timeoutDone, disconnectFromHost, disconnected, Goto
  <2> QED
    BY <2>1, <2>2, <2>3, <2>4, <2>5 DEF Thread, Waiting, Reading
<1>2. /\ socket'[h] # NoClient /\ request'[h] # NoClient => request'[h] = socket'[h]
      /\ pc'[h] = "loop" /\ socket'[h] # NoClient => timer'[h] = socket'[h]
      /\ pc'[h] = "reading" /\ back'[h] = "loop" /\ socket'[h] # NoClient
           => timer'[h] = socket'[h]
  <2> USE DEF ThreadInv, RequestIsOfOneClient, IdleClientIsTimed, ReadersAreTimed
  <2>1. CASE handleConnection(h)
    <3>1. /\ pc[h] = "loop" /\ pc'[h] = "loop"
          /\ \E c : DescriptorFails(h, c) \/ SocketIsSet(h, c)
      BY <2>1 DEF handleConnection
    <3>2. PICK c : DescriptorFails(h, c) \/ SocketIsSet(h, c)
      BY <3>1
    <3>3. CASE DescriptorFails(h, c)
      BY <3>1, <3>3 DEF DescriptorFails
    <3>4. CASE SocketIsSet(h, c)
      BY <3>1, <3>4 DEF SocketIsSet
    <3> QED
      BY <3>2, <3>3, <3>4
  <2>2. CASE Lost(h)
    BY <2>2 DEF Lost, disconnected
  <2>3. CASE read(h) \/ readTimeout(h) \/ readDone(h) \/ Keep(h) \/ CloseAfter(h)
    BY <2>3 DEF read, readTimeout, readDone, Keep, CloseAfter, Goto
  <2>4. CASE Collect(h) \/ Abort(h) \/ Complete(h)
    BY <2>4 DEF Collect, Abort, Complete, From, Goto
  <2>5. CASE Close(h) \/ timeoutDone(h)
    BY <2>5 DEF Close, timeoutDone, disconnectFromHost, disconnected, Goto
  <2> QED
    BY <2>1, <2>2, <2>3, <2>4, <2>5 DEF Thread, Waiting, Reading
<1> QED
  BY <1>1, <1>2 DEF ThreadInv, RequestIsOfOneClient, IdleClientIsTimed, ReadersAreTimed

(* No request is put together from what two clients sent, and a client     *)
(* that keeps a thread waiting has its own read timer running.             *)
THEOREM RequestsAndTimers == Spec => [](RequestIsOfOneClient /\ IdleClientIsTimed)
<1>1. Init => ThreadInv
  BY DEF Init, ThreadInv, RequestIsOfOneClient, IdleClientIsTimed, ReadersAreTimed
<1>2. TypeOK /\ SlotInv /\ ThreadInv /\ [Next]_vars => ThreadInv'
  <2> SUFFICES ASSUME TypeOK, SlotInv, ThreadInv, [Next]_vars PROVE ThreadInv'
    OBVIOUS
  <2>1. CASE \E h \in Handler : Thread(h)
    BY <2>1, ThreadKeepsItsInv
  <2>2. ASSUME NEW h \in Handler, thread_done(h) PROVE ThreadInv'
    <3>1. /\ UNCHANGED <<socket, pc, back>> /\ timer' = [timer EXCEPT ![h] = Off]
          /\ request' = [request EXCEPT ![h] = NoClient]
      BY <2>2 DEF thread_done
    <3>2. socket[h] = NoClient
      BY <2>2 DEF thread_done, SlotInv, DeletedIsFree, FreeHandlersAreUnused
    <3> QED
      BY <3>1, <3>2 DEF ThreadInv, RequestIsOfOneClient, IdleClientIsTimed,
                        ReadersAreTimed, TypeOK
  <2>3. CASE UNCHANGED <<socket, timer, request, pc, back>>
    BY <2>3 DEF ThreadInv, RequestIsOfOneClient, IdleClientIsTimed, ReadersAreTimed
  <2>4. ASSUME NEW c \in Client, incomingConnection(c)
        PROVE  UNCHANGED <<socket, timer, request, pc, back>>
    BY <2>4 DEF incomingConnection, TakeFree, TakeNew, Give, Refuse, serverVars
  <2>5. ASSUME NEW c \in Client, Connect(c) \/ HangUp(c) \/ GiveUp(c) \/ TakeAnswer(c)
        PROVE  UNCHANGED <<socket, timer, request, pc, back>>
    BY <2>5 DEF Connect, HangUp, GiveUp, TakeAnswer, serverVars
  <2>6. ASSUME NEW c \in Client, NEW piece \in Pieces, Send(c, piece)
        PROVE  UNCHANGED <<socket, timer, request, pc, back>>
    BY <2>6 DEF Send, serverVars
  <2>7. ASSUME cleanup \/ UNCHANGED vars
        PROVE  UNCHANGED <<socket, timer, request, pc, back>>
    BY <2>7 DEF cleanup, vars, serverVars
  <2> QED
    BY <2>1, <2>2, <2>3, <2>4, <2>5, <2>6, <2>7 DEF Next
<1>3. ThreadInv => RequestIsOfOneClient /\ IdleClientIsTimed
  BY DEF ThreadInv
<1> QED
  BY <1>1, <1>2, <1>3, TypeCorrectness, SlotsAreKept, PTL DEF Spec

(* For itself: what read() puts together is from the client it serves.     *)
THEOREM RequestsAreNotMixed == Spec => []RequestIsOfOneClient
  BY RequestsAndTimers, PTL
-----------------------------------------------------------------------------
(* The slots that are lost: handlers that are busy for nobody.             *)
Lonely == {h \in Handler : busy[h] /\ posted[h] = <<>> /\ socket[h] = NoClient}

LEMMA LonelyFor ==
  ASSUME TypeOK, SlotInv, SettingsAssumption, NEW h \in Handler, Thread(h)
  PROVE  \/ Lonely' \subseteq Lonely /\ fails' = fails
         \/ Lonely' \subseteq Lonely \cup {h} /\ fails' = fails + 1
<1> USE DEF TypeOK, Lonely
<1>1. CASE handleConnection(h)
  <2>1. /\ posted' = [posted EXCEPT ![h] = Tail(@)] /\ busy' = [busy EXCEPT ![h] = TRUE]
        /\ Head(posted[h]) \in Client
        /\ \/ DescriptorFails(h, Head(posted[h]))
           \/ SocketIsSet(h, Head(posted[h]))
    BY <1>1 DEF handleConnection
  <2>2. CASE DescriptorFails(h, Head(posted[h]))
    BY <2>1, <2>2 DEF DescriptorFails
  <2>3. CASE SocketIsSet(h, Head(posted[h]))
    BY <2>1, <2>3 DEF SocketIsSet, SettingsAssumption
  <2> QED
    BY <2>1, <2>2, <2>3
<1>2. ASSUME disconnected(h), UNCHANGED <<posted, fails>>
      PROVE  Lonely' \subseteq Lonely /\ fails' = fails
  BY <1>2 DEF disconnected
<1>3. CASE Lost(h)
  BY <1>2, <1>3 DEF Lost, bounds
<1>4. CASE Close(h) \/ timeoutDone(h)
  <2>1. disconnectFromHost(h) /\ UNCHANGED <<posted, fails>>
    BY <1>4 DEF Close, timeoutDone, bounds
  <2>2. CASE UNCHANGED <<busy, socket>>
    BY <2>1, <2>2
  <2> QED
    BY <1>2, <2>1, <2>2 DEF disconnectFromHost
<1>5. CASE read(h) \/ readTimeout(h) \/ readDone(h) \/ Keep(h) \/ CloseAfter(h)
  BY <1>5 DEF read, readTimeout, readDone, Keep, CloseAfter, bounds
<1>6. CASE Collect(h) \/ Abort(h) \/ Complete(h)
  BY <1>6 DEF Collect, Abort, Complete, bounds
<1> QED
  BY <1>1, <1>3, <1>4, <1>5, <1>6 DEF Thread, Waiting, Reading

LEMMA GivenAreNotLonely ==
  ASSUME TypeOK, NEW h \in Handler, NEW c \in Client,
         busy' = [busy EXCEPT ![h] = TRUE], Give(h, c)
  PROVE  Lonely' \subseteq Lonely /\ fails' = fails
<1> USE DEF TypeOK, Lonely
<1>1. posted' = [posted EXCEPT ![h] = Append(@, c)] /\ UNCHANGED <<socket, fails>>
  BY DEF Give, bounds
<1>2. Append(posted[h], c) # <<>>
  <2>1. posted[h] \in Seq(Client)
    OBVIOUS
  <2> HIDE DEF TypeOK
  <2> QED
    BY <2>1, AppendProperties
<1>3. posted'[h] # <<>> /\ \A g \in Handler \ {h} :
                             posted'[g] = posted[g] /\ busy'[g] = busy[g]
  BY <1>1, <1>2
<1>4. Lonely' \subseteq Lonely
  <2> SUFFICES ASSUME NEW g \in Lonely' PROVE g \in Lonely
    OBVIOUS
  <2>1. g # h
    BY <1>3
  <2> QED
    BY <1>1, <1>3, <2>1
<1> QED
  BY <1>1, <1>4

LEMMA LonelyForTheRest ==
  ASSUME TypeOK, SlotInv, SettingsAssumption, [Next]_vars,
         ~ \E h \in Handler : Thread(h)
  PROVE  Lonely' \subseteq Lonely /\ fails' = fails
<1> USE DEF TypeOK, Lonely
<1>1. ASSUME NEW c \in Client, incomingConnection(c)
      PROVE  Lonely' \subseteq Lonely /\ fails' = fails
  <2>2. CASE TakeFree(c)
    <3>1. PICK i \in DOMAIN pool :
            busy' = [busy EXCEPT ![pool[i]] = TRUE] /\ Give(pool[i], c)
      BY <2>2 DEF TakeFree
    <3>2. pool[i] \in Handler
      OBVIOUS
    <3> HIDE DEF TypeOK, Lonely
    <3> QED
      BY <3>1, <3>2, GivenAreNotLonely
  <2>3. CASE TakeNew(c)
    <3> DEFINE g == CHOOSE h \in Handler : h \notin ToSet(pool)
    <3>1. g \in Handler
      BY <2>3, RoomForOne DEF TakeNew
    <3> HIDE DEF g
    <3>2. busy' = [busy EXCEPT ![g] = TRUE] /\ Give(g, c)
      BY <2>3 DEF TakeNew, g
    <3> HIDE DEF TypeOK, Lonely
    <3> QED
      BY <3>1, <3>2, GivenAreNotLonely
  <2>4. CASE Refuse(c)
    BY <2>4 DEF Refuse, serverVars, bounds
  <2> QED
    BY <1>1, <2>2, <2>3, <2>4 DEF incomingConnection
<1>2. ASSUME NEW h \in Handler, thread_done(h)
      PROVE  Lonely' \subseteq Lonely /\ fails' = fails
  <2>1. posted[h] = <<>>
    BY <1>2 DEF thread_done, SlotInv, DeletedIsFree, FreeHandlersAreUnused
  <2>2. posted' = [posted EXCEPT ![h] = <<>>] /\ UNCHANGED <<busy, socket, fails>>
    BY <1>2 DEF thread_done, bounds
  <2> QED
    BY <2>1, <2>2
<1>3. ASSUME UNCHANGED <<busy, posted, socket, fails>>
      PROVE  Lonely' \subseteq Lonely /\ fails' = fails
  BY <1>3
<1>4. ASSUME NEW c \in Client, Connect(c) \/ HangUp(c) \/ GiveUp(c) \/ TakeAnswer(c)
      PROVE  UNCHANGED <<busy, posted, socket, fails>>
  BY <1>4 DEF Connect, HangUp, GiveUp, TakeAnswer, serverVars, bounds
<1>5. ASSUME NEW c \in Client, NEW piece \in Pieces, Send(c, piece)
      PROVE  UNCHANGED <<busy, posted, socket, fails>>
  BY <1>5 DEF Send, serverVars
<1>6. ASSUME cleanup \/ UNCHANGED vars PROVE UNCHANGED <<busy, posted, socket, fails>>
  BY <1>6 DEF cleanup, vars, serverVars, bounds
<1> QED
  BY <1>1, <1>2, <1>3, <1>4, <1>5, <1>6 DEF Next

(* However its connections end, only a socket that could not be used costs *)
(* the pool a handler.                                                     *)
THEOREM NoSlotIsLostForever == Spec => []NoSlotIsLost
<1> USE SettingsAssumption
<1>0. IsFiniteSet(Lonely) /\ Cardinality(Lonely) \in Nat
      /\ IsFiniteSet(Lonely') /\ Cardinality(Lonely') \in Nat
  <2>1. Lonely \subseteq Handler /\ Lonely' \subseteq Handler
    BY DEF Lonely
  <2>2. IsFiniteSet(Lonely) /\ IsFiniteSet(Lonely')
    BY <2>1, FS_Subset DEF SettingsAssumption
  <2> QED
    BY <2>2, FS_CardinalityType
<1> DEFINE Few == Cardinality(Lonely) <= fails
<1>1. Init => Few
  <2> SUFFICES ASSUME Init PROVE Cardinality(Lonely) <= fails
    OBVIOUS
  <2>1. Lonely = {} /\ fails = 0
    BY DEF Init, Lonely
  <2> QED
    BY <2>1, FS_EmptySet
<1>2. TypeOK /\ SlotInv /\ Few /\ [Next]_vars => Few'
  <2> SUFFICES ASSUME TypeOK, SlotInv, Cardinality(Lonely) <= fails, [Next]_vars
               PROVE  Cardinality(Lonely') <= fails'
    OBVIOUS
  <2>0. fails \in Nat
    BY DEF TypeOK
  <2>1. CASE Lonely' \subseteq Lonely /\ fails' = fails
    <3>1. Cardinality(Lonely') <= Cardinality(Lonely)
      BY <1>0, <2>1, FS_Subset
    <3> QED
      BY <1>0, <2>0, <2>1, <3>1
  <2>2. ASSUME NEW h \in Handler,
               Lonely' \subseteq Lonely \cup {h}, fails' = fails + 1
        PROVE  Cardinality(Lonely') <= fails'
    <3>1. IsFiniteSet(Lonely \cup {h})
          /\ Cardinality(Lonely \cup {h}) <= Cardinality(Lonely) + 1
          /\ Cardinality(Lonely \cup {h}) \in Nat
      <4>1. IsFiniteSet(Lonely \cup {h})
            /\ \/ Cardinality(Lonely \cup {h}) = Cardinality(Lonely)
               \/ Cardinality(Lonely \cup {h}) = Cardinality(Lonely) + 1
        BY <1>0, FS_AddElement
      <4> QED
        BY <1>0, <4>1
    <3>2. Cardinality(Lonely') <= Cardinality(Lonely \cup {h})
      BY <2>2, <3>1, FS_Subset
    <3> QED
      BY <1>0, <2>0, <2>2, <3>1, <3>2
  <2> QED
    BY <2>1, <2>2, LonelyFor, LonelyForTheRest
<1>3. Few => NoSlotIsLost
  BY DEF Lonely, NoSlotIsLost
<1> HIDE DEF Few
<1> QED
  BY <1>1, <1>2, <1>3, TypeCorrectness, SlotsAreKept, PTL DEF Spec

-----------------------------------------------------------------------------
(* Connections.  Whoever has a client was given it by the main thread, and *)
(* nobody else has it; as handlers with a client are busy, cleanup deletes *)
(* none of them.                                                           *)
HeldInv ==
  /\ AcceptedHaveAHandler
  /\ \A h \in Handler, c \in Client : Has(h, c) => conn[c] = "accepted"

LEMMA WhatOneHas ==
  ASSUME TypeOK, SlotInv, NEW h \in Handler, NEW c \in Client
  PROVE  /\ Has(h, c) <=> socket[h] = c \/ (posted[h] # <<>> /\ Head(posted[h]) = c)
         /\ Has(h, c) => busy[h]
<1>1. posted[h] \in Seq(Client) /\ (posted[h] # <<>> => Len(posted[h]) = 1)
        /\ (~busy[h] => posted[h] = <<>> /\ socket[h] = NoClient)
  BY DEF TypeOK, SlotInv, FreeHandlersAreUnused
<1>2. c \in ToSet(posted[h]) <=> posted[h] # <<>> /\ Head(posted[h]) = c
  <2>1. CASE posted[h] = <<>>
    BY <2>1 DEF ToSet
  <2>2. CASE posted[h] # <<>>
    <3>1. DOMAIN posted[h] = {1} /\ Head(posted[h]) = posted[h][1]
      BY <1>1, <2>2
    <3> QED
      BY <2>2, <3>1 DEF ToSet
  <2> QED
    BY <2>1, <2>2
<1> QED
  BY <1>1, <1>2, SettingsAssumption DEF Has, SettingsAssumption

(* No connection is given away, and who loses one has it no more.          *)
LEMMA HeldStay ==
  ASSUME HeldInv,
         \A c \in Client : conn'[c] = "accepted" => conn[c] = "accepted",
         \A c \in Client, h \in Handler : Has(h, c)' <=> Has(h, c) /\ conn'[c] = "accepted",
         \A c \in Client, h \in ToSet(pool) : Has(h, c) => h \in ToSet(pool'),
         ToSet(pool) \subseteq Handler
  PROVE  HeldInv'
<1>1. ASSUME NEW c \in Client, conn'[c] = "accepted"
      PROVE  \E h \in ToSet(pool') : Has(h, c)' /\ \A g \in Handler \ {h} : ~Has(g, c)'
  <2>1. PICK h \in ToSet(pool) : Has(h, c) /\ \A g \in Handler \ {h} : ~Has(g, c)
    BY <1>1 DEF HeldInv, AcceptedHaveAHandler
  <2> QED
    BY <1>1, <2>1
<1>2. AcceptedHaveAHandler'
  BY <1>1 DEF AcceptedHaveAHandler
<1> QED
  BY <1>2 DEF HeldInv

LEMMA PoolIsOfHandlers ==
  ASSUME TypeOK
  PROVE  ToSet(pool) \subseteq Handler
BY DEF TypeOK, ToSet

LEMMA GivenIsHeld ==
  ASSUME TypeOK, SlotInv, HeldInv, NEW h \in Handler, NEW c \in Client, ~busy[h],
         conn[c] = "queued", Give(h, c), h \in ToSet(pool'),
         \A g \in ToSet(pool) : g \in ToSet(pool')
  PROVE  HeldInv'
<1>1. posted[h] = <<>> /\ socket[h] = NoClient /\ NoClient \notin Client
  BY SettingsAssumption DEF SlotInv, FreeHandlersAreUnused, SettingsAssumption
<1>2. /\ posted' = [posted EXCEPT ![h] = Append(@, c)] /\ socket' = socket
      /\ conn' = [conn EXCEPT ![c] = "accepted"]
      /\ posted \in [Handler -> Seq(Client)] /\ conn \in [Client -> {"out", "queued", "accepted", "lost"}]
  BY DEF Give, TypeOK
<1>3. posted'[h] = <<c>>
  BY <1>1, <1>2
<1>4. ToSet(posted'[h]) = {c} /\ ToSet(posted[h]) = {}
  BY <1>1, <1>3 DEF ToSet
<1>5. \A d \in Client : (Has(h, d)' <=> d = c) /\ ~Has(h, d)
  BY <1>1, <1>2, <1>4 DEF Has
<1>6. \A g \in Handler \ {h}, d \in Client : Has(g, d)' <=> Has(g, d)
  BY <1>2 DEF Has
<1>7. \A g \in Handler : ~Has(g, c)
  BY DEF HeldInv
<1>8. ASSUME NEW d \in Client, conn'[d] = "accepted"
      PROVE  \E k \in ToSet(pool') : Has(k, d)' /\ \A g \in Handler \ {k} : ~Has(g, d)'
  <2>1. CASE d = c
    BY <1>5, <1>6, <1>7, <2>1
  <2>2. CASE d # c
    <3>1. conn[d] = "accepted"
      BY <1>2, <1>8, <2>2
    <3>2. PICK k \in ToSet(pool) : Has(k, d) /\ \A g \in Handler \ {k} : ~Has(g, d)
      BY <3>1 DEF HeldInv, AcceptedHaveAHandler
    <3>3. k \in Handler /\ k # h
      BY <1>5, <3>2, PoolIsOfHandlers
    <3> QED
      BY <1>5, <1>6, <2>2, <3>2, <3>3
  <2> QED
    BY <2>1, <2>2
<1>9. ASSUME NEW g \in Handler, NEW d \in Client, Has(g, d)'
      PROVE  conn'[d] = "accepted"
  BY <1>2, <1>5, <1>6, <1>9 DEF HeldInv
<1>10. AcceptedHaveAHandler'
  BY <1>8 DEF AcceptedHaveAHandler
<1> QED
  BY <1>9, <1>10 DEF HeldInv

(* The only client of h is gone.                                           *)
LEMMA DroppedIsGone ==
  ASSUME TypeOK, SlotInv, HeldInv, NEW h \in Handler, NEW c \in Client, Has(h, c),
         NEW x, x # "accepted", conn' = [conn EXCEPT ![c] = x],
         posted'[h] = <<>>, socket'[h] = NoClient,
         \A g \in Handler \ {h} : posted'[g] = posted[g] /\ socket'[g] = socket[g],
         \A d \in Client : Has(h, d) => d = c,
         pool' = pool
  PROVE  HeldInv'
<1>1. NoClient \notin Client /\ ToSet(<<>>) = {}
  BY SettingsAssumption DEF SettingsAssumption, ToSet
<1>2. \A d \in Client : ~Has(h, d)'
  BY <1>1 DEF Has
<1>3. \A g \in Handler \ {h}, d \in Client : Has(g, d)' <=> Has(g, d)
  BY DEF Has
<1>4. \A g \in Handler \ {h} : ~Has(g, c)
  <2>1. conn[c] = "accepted"
    BY DEF HeldInv
  <2> QED
    BY <2>1 DEF HeldInv, AcceptedHaveAHandler
<1>5. conn'[c] = x /\ \A d \in Client \ {c} : conn'[d] = conn[d]
  BY DEF TypeOK
<1>6. \A d \in Client, g \in Handler : Has(g, d)' <=> Has(g, d) /\ conn'[d] = "accepted"
  BY <1>2, <1>3, <1>4, <1>5 DEF HeldInv
<1> QED
  BY <1>5, <1>6, HeldStay, PoolIsOfHandlers

LEMMA EndDropsOne ==
  ASSUME TypeOK, SlotInv, HeldInv, NEW h \in Handler, disconnected(h), socket[h] # NoClient,
         UNCHANGED <<pool, posted>>
  PROVE  HeldInv'
<1>1. socket[h] \in Client /\ posted[h] = <<>>
  BY DEF TypeOK, SlotInv, FreeHandlersAreUnused
<1>2. /\ socket' = [socket EXCEPT ![h] = NoClient]
      /\ conn' = [conn EXCEPT ![socket[h]] = "out"]
  BY DEF disconnected, Forget
<1>3. Has(h, socket[h]) /\ \A d \in Client : Has(h, d) => d = socket[h]
  BY <1>1, WhatOneHas
<1>4. socket'[h] = NoClient /\ \A g \in Handler \ {h} : socket'[g] = socket[g]
  BY <1>2 DEF TypeOK
<1> QED
  BY <1>1, <1>2, <1>3, <1>4, DroppedIsGone

LEMMA ThreadHolds ==
  ASSUME TypeOK, SlotInv, HeldInv, NEW h \in Handler, Thread(h)
  PROVE  HeldInv'
<1>1. CASE handleConnection(h)
  <2> DEFINE c == Head(posted[h])
  <2>1. /\ pool' = pool /\ posted[h] # <<>> /\ posted' = [posted EXCEPT ![h] = Tail(@)]
        /\ posted[h] \in Seq(Client) /\ Len(posted[h]) = 1 /\ socket[h] = NoClient
    BY <1>1 DEF handleConnection, TypeOK, SlotInv, FreeHandlersAreUnused
  <2>2. c \in Client /\ Tail(posted[h]) \in Seq(Client) /\ Len(Tail(posted[h])) = 0
    BY <2>1
  <2>3. posted'[h] = <<>> /\ \A g \in Handler \ {h} : posted'[g] = posted[g]
    BY <2>1, <2>2, EmptySeq DEF TypeOK
  <2>4. Has(h, c) /\ \A d \in Client : Has(h, d) => d = c
    BY <2>1, <2>2, WhatOneHas, SettingsAssumption DEF SettingsAssumption
  <2>5. DescriptorFails(h, c) \/ SocketIsSet(h, c)
    BY <1>1 DEF handleConnection
  <2> HIDE DEF c
  <2>6. CASE DescriptorFails(h, c)
    <3>1. conn' = [conn EXCEPT ![c] = "lost"] /\ socket' = socket
      BY <2>6 DEF DescriptorFails
    <3> QED
      BY <2>1, <2>2, <2>3, <2>4, <3>1, DroppedIsGone
  <2>7. CASE SocketIsSet(h, c)
    <3>1. conn' = conn /\ socket' = [socket EXCEPT ![h] = c]
      BY <2>7 DEF SocketIsSet
    <3>2. socket'[h] = c /\ \A g \in Handler \ {h} : socket'[g] = socket[g]
      BY <3>1 DEF TypeOK
    <3>3. \A d \in Client : Has(h, d)' <=> d = c
      BY <2>3, <3>2 DEF Has, ToSet
    <3>4. \A g \in Handler, d \in Client : Has(g, d)' <=> Has(g, d)
      <4>1. \A g \in Handler \ {h}, d \in Client : Has(g, d)' <=> Has(g, d)
        BY <2>3, <3>2 DEF Has
      <4> QED
        BY <2>4, <3>3, <4>1
    <3>5. \A g \in Handler, d \in Client : Has(g, d) => conn[d] = "accepted"
      BY DEF HeldInv
    <3> QED
      BY <2>1, <3>1, <3>4, <3>5, HeldStay, PoolIsOfHandlers
  <2> QED
    BY <2>5, <2>6, <2>7
<1>2. CASE Lost(h)
  <2>1. disconnected(h) /\ socket[h] # NoClient /\ UNCHANGED <<pool, posted>>
    BY <1>2, SettingsAssumption DEF Lost, SettingsAssumption, TypeOK
  <2> QED
    BY <2>1, EndDropsOne
<1>3. ASSUME UNCHANGED <<pool, posted, socket, conn>> PROVE HeldInv'
  BY <1>3 DEF HeldInv, AcceptedHaveAHandler, Has
<1>4. CASE Close(h) \/ timeoutDone(h)
  <2>1. disconnectFromHost(h) /\ UNCHANGED <<pool, posted>>
    BY <1>4 DEF Close, timeoutDone
  <2>2. CASE socket[h] # NoClient
    BY <2>1, <2>2, EndDropsOne DEF disconnectFromHost
  <2>3. CASE socket[h] = NoClient
    BY <1>3, <2>1, <2>3 DEF disconnectFromHost, clientVars
  <2> QED
    BY <2>2, <2>3
<1>5. CASE read(h) \/ readTimeout(h) \/ readDone(h) \/ Keep(h) \/ CloseAfter(h)
  BY <1>3, <1>5 DEF read, readTimeout, readDone, Keep, CloseAfter, clientVars
<1>6. CASE Collect(h) \/ Abort(h) \/ Complete(h)
  BY <1>3, <1>6 DEF Collect, Abort, Complete
<1> QED
  BY <1>1, <1>2, <1>4, <1>5, <1>6 DEF Thread, Waiting, Reading

(* A client nobody has leaves, or comes.                                   *)
LEMMA OthersHold ==
  ASSUME TypeOK, HeldInv, NEW c \in Client, conn[c] # "accepted", NEW x, x # "accepted",
         conn' = [conn EXCEPT ![c] = x], UNCHANGED <<pool, posted, socket>>
  PROVE  HeldInv'
<1>1. \A h \in Handler, d \in Client : Has(h, d)' <=> Has(h, d)
  BY DEF Has
<1>2. \A d \in Client : conn'[d] = "accepted" <=> conn[d] = "accepted"
  BY DEF TypeOK
<1> QED
  BY <1>1, <1>2, HeldStay, PoolIsOfHandlers DEF HeldInv

LEMMA AcceptHolds ==
  ASSUME TypeOK, SlotInv, HeldInv, NEW c \in Client, incomingConnection(c)
  PROVE  HeldInv'
<1>1. conn[c] = "queued"
  BY DEF incomingConnection
<1>2. CASE TakeFree(c)
  <2>1. PICK i \in DOMAIN pool : ~busy[pool[i]] /\ UNCHANGED pool /\ Give(pool[i], c)
    BY <1>2 DEF TakeFree
  <2>2. pool[i] \in Handler /\ pool[i] \in ToSet(pool)
    BY DEF ToSet, TypeOK
  <2> QED
    BY <1>1, <2>1, <2>2, GivenIsHeld
<1>3. CASE TakeNew(c)
  <2> DEFINE g == CHOOSE h \in Handler : h \notin ToSet(pool)
  <2>1. g \in Handler /\ g \notin ToSet(pool)
    BY <1>3, RoomForOne, SettingsAssumption DEF TakeNew, TypeOK
  <2>2. pool' = Append(pool, g) /\ Give(g, c)
    BY <1>3 DEF TakeNew
  <2> HIDE DEF g
  <2>3. g \in ToSet(pool') /\ \A h \in ToSet(pool) : h \in ToSet(pool')
    BY <2>1, <2>2, AppendedIsIn
  <2>4. ~busy[g]
    BY <2>1 DEF SlotInv, OutsideAreFree
  <2> QED
    BY <1>1, <2>1, <2>2, <2>3, <2>4, GivenIsHeld
<1>4. CASE Refuse(c)
  <2>1. conn' = [conn EXCEPT ![c] = "out"] /\ UNCHANGED <<pool, posted, socket>>
    BY <1>4 DEF Refuse, Forget, serverVars
  <2> QED
    BY <1>1, <2>1, OthersHold
<1> QED
  BY <1>2, <1>3, <1>4 DEF incomingConnection

(* For any number of handlers and clients, whatever cleanup deletes: an    *)
(* accepted connection is with exactly one handler of the pool until it is *)
(* closed.                                                                 *)
THEOREM NoConnectionIsForgotten == Spec => []AcceptedHaveAHandler
<1>1. Init => HeldInv
  BY SettingsAssumption DEF Init, HeldInv, AcceptedHaveAHandler, Has, ToSet, SettingsAssumption
<1>2. TypeOK /\ SlotInv /\ HeldInv /\ [Next]_vars => HeldInv'
  <2> SUFFICES ASSUME TypeOK, SlotInv, HeldInv, [Next]_vars PROVE HeldInv'
    OBVIOUS
  <2>1. ASSUME UNCHANGED <<pool, posted, socket, conn>> PROVE HeldInv'
    BY <2>1 DEF HeldInv, AcceptedHaveAHandler, Has
  <2>2. ASSUME NEW c \in Client, Connect(c) \/ GiveUp(c) PROVE HeldInv'
    <3>1. conn[c] # "accepted" /\ UNCHANGED <<pool, posted, socket>>
            /\ (conn' = [conn EXCEPT ![c] = "queued"] \/ conn' = [conn EXCEPT ![c] = "out"])
      BY <2>2 DEF Connect, GiveUp, Forget, serverVars
    <3> QED
      BY <3>1, OthersHold
  <2>3. ASSUME NEW c \in Client, HangUp(c) \/ TakeAnswer(c) \/ \E piece \in Pieces : Send(c, piece)
        PROVE  HeldInv'
    BY <2>1, <2>3 DEF HangUp, TakeAnswer, Send, serverVars
  <2>4. ASSUME NEW c \in Client, incomingConnection(c) PROVE HeldInv'
    BY <2>4, AcceptHolds
  <2>5. ASSUME NEW h \in Handler, Thread(h) PROVE HeldInv'
    BY <2>5, ThreadHolds
  <2>6. CASE cleanup
    BY <2>1, <2>6 DEF cleanup, clientVars
  <2>7. ASSUME NEW h \in Handler, thread_done(h) PROVE HeldInv'
    <3>1. posted[h] = <<>> /\ ~busy[h] /\ posted' = [posted EXCEPT ![h] = <<>>]
            /\ socket' = socket /\ conn' = conn
      BY <2>7 DEF thread_done, SlotInv, DeletedIsFree, FreeHandlersAreUnused, clientVars
    <3>2. posted' = posted
      BY <3>1 DEF TypeOK
    <3>3. \A g \in Handler, c \in Client : Has(g, c)' <=> Has(g, c)
      BY <3>1, <3>2 DEF Has
    <3>4. \A c \in Client : ~Has(h, c)
      BY <3>1, WhatOneHas
    <3> QED
      BY <2>7, <3>1, <3>3, <3>4, HeldStay, PoolIsOfHandlers, OthersStay DEF HeldInv
  <2>8. CASE UNCHANGED vars
    BY <2>1, <2>8 DEF vars, serverVars, clientVars
  <2> QED
    BY <2>2, <2>3, <2>4, <2>5, <2>6, <2>7, <2>8 DEF Next
<1>3. HeldInv => AcceptedHaveAHandler
  BY DEF HeldInv
<1> QED
  BY <1>1, <1>2, <1>3, TypeCorrectness, SlotsAreKept, PTL DEF Spec
=============================================================================
