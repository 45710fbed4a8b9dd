---------------------------- MODULE HttpResponse ----------------------------
(***************************************************************************)
(* HttpResponse and the part of HttpConnectionHandler::read that makes it, *)
(* finishes it and decides whether the connection is kept.  A handler sets *)
(* headers and cookies and writes in any number of parts; it may throw at  *)
(* any point, and the client may hang up.  The client reads what is on the *)
(* wire as HTTP says: chunks, or a length, or up to the end.               *)
(***************************************************************************)
EXTENDS FiniteSets, HttpCookie

CONSTANTS Cookies,   \* what a handler may set
          Parts,     \* what it may write
          MaxWrites  \* bound

VARIABLES
  ask,      \* the request: HTTP version and its Connection: close
  pc,       \* "service", "finish", "done"
  headers,  \* Connection, connection, Content-Length, Transfer-Encoding
  cookies, sentHeaders, sentLastPart, chunkedMode,
  isOpen,   \* the client is there
  sent,     \* what is on the wire: a head, then data, chunks, the last chunk
  kept,     \* after the response: the connection is kept
  written   \* history: what the handler wrote

vars == <<ask, pc, headers, cookies, sentHeaders, sentLastPart, chunkedMode,
          isOpen, sent, kept, written>>

Unset    == "unset"
NoLength == -1
Close == "close"
Asks  == [http1_0 : BOOLEAN, close : BOOLEAN]

(* A request of HTTP 1.0 is answered as one that asks to close.            *)
Init ==
  /\ ask \in Asks /\ pc = "service"
  /\ headers = [Connection |-> IF ask.close \/ ask.http1_0 THEN Close ELSE Unset,
                connection |-> Unset, Length |-> NoLength, Encoding |-> Unset]
  /\ cookies = {} /\ sentHeaders = FALSE /\ sentLastPart = FALSE
  /\ chunkedMode = FALSE /\ isOpen = TRUE /\ sent = <<>> /\ kept = FALSE
  /\ written = <<>>

-----------------------------------------------------------------------------
(* The handler.  The assertions of the code are its guards.                *)

setHeader(name, v) ==
  /\ pc = "service" /\ ~sentHeaders /\ headers' = [headers EXCEPT ![name] = v]
  /\ UNCHANGED <<ask, pc, cookies, sentHeaders, sentLastPart, chunkedMode, isOpen,
                 sent, kept, written>>

(* One cookie for each name.                                               *)
setCookie(c) ==
  /\ pc = "service" /\ ~sentHeaders
  /\ cookies' = {d \in cookies : d.name # c.name} \cup {c}
  /\ UNCHANGED <<ask, pc, headers, sentHeaders, sentLastPart, chunkedMode, isOpen,
                 sent, kept, written>>

writeToSocket(items) == IF isOpen THEN sent \o items ELSE sent

Head1(h) == [kind |-> "head", headers |-> h,
             cookies |-> {toByteArray(c) : c \in cookies}]

(* One write tells the length; several need chunks if the connection is    *)
(* to go on.                                                               *)
Framing(data, lastPart) ==
  LET connection == IF headers.Connection = Unset THEN headers.connection
                    ELSE headers.Connection
  IN IF lastPart THEN [headers EXCEPT !.Length = Len(data)]
     ELSE IF connection # Close THEN [headers EXCEPT !.Encoding = "chunked"]
     ELSE headers

Body(data, lastPart, chunked) ==
  (IF data = <<>> THEN <<>>
   ELSE <<[kind |-> IF chunked THEN "chunk" ELSE "data", data |-> data]>>)
  \o (IF lastPart /\ chunked THEN <<[kind |-> "end"]>> ELSE <<>>)

Write(data, lastPart) ==
  LET framed  == IF sentHeaders THEN headers ELSE Framing(data, lastPart)
      chunked == chunkedMode \/ (~sentHeaders /\ ~lastPart /\ framed.Encoding = "chunked")
  IN /\ headers' = framed /\ chunkedMode' = chunked
     /\ sent' = writeToSocket((IF sentHeaders THEN <<>> ELSE <<Head1(framed)>>)
                              \o Body(data, lastPart, chunked))
     /\ sentHeaders' = TRUE /\ sentLastPart' = lastPart
     /\ written' = written \o data

write(data, lastPart) ==
  /\ pc = "service" /\ ~sentLastPart /\ Len(written) < MaxWrites
  /\ Write(data, lastPart)
  /\ UNCHANGED <<ask, pc, cookies, isOpen, kept>>

redirect == ~sentHeaders /\ write(<<"Redirect">>, TRUE)

(* service returns, or throws and is caught: no difference is made.        *)
Returns ==
  /\ pc = "service" /\ pc' = "finish"
  /\ IF sentLastPart
     THEN UNCHANGED <<headers, sentHeaders, sentLastPart, chunkedMode, sent, written>>
     ELSE Write(<<>>, TRUE)
  /\ UNCHANGED <<ask, cookies, isOpen, kept>>

(* Mutant: a response without length and without chunks keeps it.          *)
KeepsUnframed == ~(ask.close \/ ask.http1_0) /\ headers.Connection # Close

Keeps ==
  /\ ~(ask.close \/ ask.http1_0) /\ headers.Connection # Close
  /\ headers.Length # NoLength \/ headers.Encoding = "chunked"

Finish ==
  /\ pc = "finish" /\ pc' = "done" /\ kept' = Keeps
  /\ UNCHANGED <<ask, headers, cookies, sentHeaders, sentLastPart, chunkedMode,
                 isOpen, sent, written>>

HangUp ==
  /\ isOpen /\ isOpen' = FALSE
  /\ UNCHANGED <<ask, pc, headers, cookies, sentHeaders, sentLastPart, chunkedMode,
                 sent, kept, written>>

Next ==
  \/ setHeader("Connection", Close) \/ setHeader("connection", Close)
  \/ \E n \in 0 .. MaxWrites : setHeader("Length", n)
  \/ \E c \in Cookies : setCookie(c)
  \/ \E data \in Parts : \E last \in BOOLEAN : write(data, last)
  \/ redirect \/ Returns \/ Finish \/ HangUp

Spec == Init /\ [][Next]_vars

-----------------------------------------------------------------------------
(* What a client makes of the wire.                                        *)
Data(kind, items) ==
  LET upTo[n \in 0 .. Len(items)] ==
        IF n = 0 THEN <<>>
        ELSE IF items[n].kind = kind THEN upTo[n - 1] \o items[n].data ELSE upTo[n - 1]
  IN upTo[Len(items)]

Kinds == {sent[i].kind : i \in 2 .. Len(sent)}

Chunked == sent[1].headers.Encoding = "chunked"
Length  == sent[1].headers.Length

(* Where the response ends, and what its body is.                          *)
Ends == IF Chunked THEN sent[Len(sent)].kind = "end" /\ Kinds \subseteq {"chunk", "end"}
        ELSE IF Length # NoLength THEN Len(Data("data", sent)) = Length /\ Kinds \subseteq {"data"}
        ELSE ~kept /\ Kinds \subseteq {"data"}
BodyRead == Data(IF Chunked THEN "chunk" ELSE "data", sent)

(* HttpOnly is not initialised when a cookie is read back.                 *)
SameCookie(c, text) ==
  \E memory \in BOOLEAN : ParseCookie(text, memory) = c

(* However a handler writes its response, in one part or many, with an     *)
(* exception half way or without writing at all, the client can tell where *)
(* it ends, reads what was written, and gets the cookies that were set.    *)
(* A handler that tells a length itself must keep to it, or write once.    *)
FramedAsWritten ==
  pc = "done" /\ isOpen =>
    /\ sent[1].kind = "head" /\ BodyRead = written
    /\ Chunked \/ Length = NoLength \/ Length = Len(written) => Ends
    /\ \A c \in cookies : \E text \in sent[1].cookies : SameCookie(c, text)
    /\ Cardinality(sent[1].cookies) = Cardinality(cookies)
=============================================================================
