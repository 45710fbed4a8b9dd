---------------------------- MODULE HttpRequest ----------------------------
(***************************************************************************)
(* HttpRequest: the state machine that puts a request together from what   *)
(* the socket has, wherever the network cut it: first line, header lines,  *)
(* body or multipart body, each with its limit, then parameters and        *)
(* cookies.  HttpConnectionHandler::read drives it, one request after the  *)
(* other on the same connection.                                           *)
(*                                                                         *)
(* A byte is a word: "get", "cr", a header's name with its colon, a        *)
(* parameter with its equals sign, a line of a multipart body.  Words keep *)
(* their place and count one; what is inside them is left out.             *)
(***************************************************************************)
EXTENDS Integers, Sequences, FiniteSets, Lists

CONSTANTS Clients,            \* what a client sends: sequences of <<request>>
          maxSize, maxMultiPartSize,
          Block               \* 65536

CR == "cr"
LF == "lf"
Break     == <<CR, LF>>
FirstLine == <<"get", "http">>
Header    == {"length", "type", "cookie", "other"}  \* names, with the colon
Numbers    == [three |-> 3, nine |-> 9, many |-> maxMultiPartSize + 1, minus |-> -1]

(* A request: its first line (words of a query between the two), header    *)
(* lines and body; parts are what its client puts into a multipart body.   *)
IsRequest(r) ==
  /\ r.line \in Seq(STRING) \ {<<>>} /\ {r.query, r.body} \subseteq Seq(STRING)
  /\ r.headers \in Seq(Seq(STRING))
  /\ r.parts \in Seq([kind : STRING, data : Seq(STRING)])

(* Its bytes.                                                              *)
Encode(r) ==
  SubSeq(r.line, 1, 1) \o r.query \o Tail(r.line) \o Break
  \o Concat([k \in DOMAIN r.headers |-> r.headers[k] \o Break]) \o Break \o r.body

VARIABLES
  client,   \* the requests this client sends, in order
  stream,   \* their bytes still on the way
  sock,     \* bytes the socket has
  request,  \* currentRequest; its status is "none" if there is none
  outcomes, \* history: what became of the requests, in order
  taken,    \* history: bytes the current request took from the socket
  cuts      \* history: where the network cut heads: "line", "break"

vars == <<client, stream, sock, request, outcomes, taken, cuts>>

NoRequest == [status |-> "none"]

-----------------------------------------------------------------------------
(* The state of a request, as its constructor leaves it.                   *)
NewRequest ==
  [status |-> "waitForRequest", currentSize |-> 0, expectedBodySize |-> 0,
   lineBuffer |-> <<>>, query |-> <<>>, currentHeader |-> "none",
   headers |-> [name \in Header |-> <<>>],   \* values, in the order they came
   multipart |-> FALSE,   \* boundary is not empty
   bodyData |-> <<>>, parameters |-> <<>>, cookies |-> {},
   files |-> [named |-> 0, leaked |-> 0]]   \* temporary files of uploads

HasBreak(s) == \E i \in DOMAIN s : s[i] \in {CR, LF}
Trimmed(s)  ==
  LET kept == {i \in DOMAIN s : s[i] \notin {CR, LF}}
  IN IF kept = {} THEN <<>> ELSE SubSeq(s, Least(kept), Greatest(kept))

(* QIODevice::readLine: up to the first line feed, at most n bytes.        *)
readLine(s, n) ==
  LET ends == {i \in DOMAIN s : s[i] = LF \/ i = n \/ i = Len(s)}
  IN SubSeq(s, 1, Least(ends))

(* QIODevice::read: nothing if n is negative.                              *)
readBytes(s, n) == SubSeq(s, 1, IF n < Len(s) THEN n ELSE Len(s))

(* The value of a header is the one inserted last.                         *)
value(p, name) == IF p.headers[name] = <<>> THEN <<>> ELSE Last(p.headers[name])

toInt(v) == IF Len(v) = 1 /\ v[1] \in DOMAIN Numbers THEN Numbers[v[1]] ELSE 0

(* The bytes read are counted with those that already wait for a line      *)
(* break, which are so counted again with every part of the line.          *)
Buffered(p, chunk) ==
  LET line == p.lineBuffer \o chunk IN
  [p EXCEPT !.lineBuffer = line, !.currentSize = @ + Len(line)]

readRequest(p, chunk) ==
  LET q == Buffered(p, chunk) line == Trimmed(q.lineBuffer) IN
  IF ~HasBreak(q.lineBuffer) THEN q
  ELSE IF line = <<>> THEN [q EXCEPT !.lineBuffer = <<>>]
  ELSE IF line[1] # "get" \/ Last(line) # "http"
  THEN [q EXCEPT !.lineBuffer = <<>>, !.status = "abort"]
  ELSE [q EXCEPT !.lineBuffer = <<>>, !.status = "waitForHeader",
                 !.query = SubSeq(line, 2, Len(line) - 1)]

(* An empty line: what comes next is decided.                              *)
HeadersDone(p) ==
  LET multi == Len(value(p, "type")) > 0 /\ value(p, "type")[1] = "multi"
      size  == toInt(value(p, "length"))
  IN [p EXCEPT !.multipart = multi, !.expectedBodySize = size,
        !.status = IF size = 0 THEN "complete"
                   ELSE IF ~multi /\ size + p.currentSize > maxSize THEN "abort"
                   ELSE IF multi /\ size > maxMultiPartSize THEN "abort"
                   ELSE "waitForBody"]

(* A line that is no header continues the one before it, if there is one.  *)
AddHeader(p, line) ==
  IF line[1] \in Header
  THEN [p EXCEPT !.currentHeader = line[1], !.headers[line[1]] = Append(@, Tail(line))]
  ELSE IF p.currentHeader \in Header
  THEN [p EXCEPT !.headers[p.currentHeader] = Append(@, value(p, p.currentHeader) \o line)]
  ELSE p

readHeader(p, chunk) ==
  LET q    == Buffered(p, chunk)
      line == Trimmed(q.lineBuffer)
      r    == [q EXCEPT !.lineBuffer = <<>>]
  IN IF ~HasBreak(q.lineBuffer) THEN q
     ELSE IF line = <<>> THEN HeadersDone(r) ELSE AddHeader(r, line)

-----------------------------------------------------------------------------
(* The temporary file of a multipart body, line by line: the boundary,     *)
(* the head of a part (a field or a file), an empty line, its data.        *)
MultiPart == [place |-> "head", kind |-> "none", value |-> <<>>, open |-> FALSE,
              parameters |-> <<>>, files |-> [named |-> 0, leaked |-> 0],
              fieldSize |-> 0]

InHead(m, line) ==
  IF line \in {"field", "file"} THEN [m EXCEPT !.kind = line]
  ELSE IF line = "empty" THEN [m EXCEPT !.place = "data"] ELSE m

(* A second file of the same name pushes the first out of the map.         *)
PartDone(m, line) ==
  LET n == [m EXCEPT !.place = IF line = "last" THEN "done" ELSE "head",
                     !.kind = "none", !.value = <<>>, !.open = FALSE]
  IN IF m.kind = "field" THEN [n EXCEPT !.parameters = Append(@, m.value)]
     ELSE IF m.kind = "file" /\ m.open
     THEN [n EXCEPT !.parameters = Append(@, <<"filename">>),
                    !.files = [named |-> 1, leaked |-> @.leaked + @.named]]
     ELSE n

InData(m, line) ==
  IF line \in {"bound", "last"} THEN PartDone(m, line)
  ELSE IF m.kind = "field"
  THEN [m EXCEPT !.value = Append(@, line), !.fieldSize = @ + 1]
  ELSE IF m.kind = "file" THEN [m EXCEPT !.open = TRUE] ELSE m

OneLine(m, line) == CASE m.place = "done" -> m
                      [] m.place = "head" -> InHead(m, line)
                      [] m.place = "data" -> InData(m, line)

(* A part without a boundary at its end is dropped, its file never closed. *)
parseMultiPartFile(p) ==
  LET m == Fold(OneLine, MultiPart, p.bodyData)
  IN [p EXCEPT !.parameters = m.parameters, !.currentSize = @ + m.fieldSize,
        !.files = [m.files EXCEPT !.leaked = @ + (IF m.open THEN 1 ELSE 0)]]

(* Mutant: all there is, the next request of the connection included.      *)
ToReadAll(p) == Len(sock)

ToRead(p) ==
  LET left == p.expectedBodySize - Len(p.bodyData)
  IN IF p.multipart /\ left > Block THEN Block ELSE left

readBody(p, chunk) ==
  LET q    == [p EXCEPT !.bodyData = @ \o chunk]
      size == Len(q.bodyData)
  IN IF ~p.multipart
     THEN [q EXCEPT !.currentSize = @ + Len(chunk),
             !.status = IF size >= p.expectedBodySize THEN "complete" ELSE @]
     ELSE IF size >= maxMultiPartSize THEN [q EXCEPT !.status = "abort"]
     ELSE IF size >= p.expectedBodySize
     THEN [parseMultiPartFile(q) EXCEPT !.status = "complete"]
     ELSE q

(* Parameters of the query, then those of the body of a form, and after    *)
(* the fields of a multipart body; an empty part is none.                  *)
WithParameter(ps, w) == IF w = "amp" THEN ps ELSE Append(ps, <<w>>)
decodeRequestParams(p) ==
  LET type == value(p, "type")
      form == p.bodyData # <<>> /\ ~p.multipart /\ (type = <<>> \/ type[1] = "form")
  IN [p EXCEPT !.parameters = Fold(WithParameter, @,
                                   p.query \o (IF form THEN p.bodyData ELSE <<>>))]

(* indexOf tells -1 for a word without equals sign: it becomes name and    *)
(* value; a part that begins with one is a name as a whole.  Lines that    *)
(* came later are taken first, so the oldest one decides.                  *)
CookieOf(word) ==
  IF word = "word" THEN [name |-> "word", value |-> "word"]
  ELSE IF word = "bare" THEN [name |-> "=bare", value |-> ""]
  ELSE [name |-> "user", value |-> word]

WithCookie(s, w) == {d \in s : d.name # CookieOf(w).name} \cup {CookieOf(w)}
WithCookies(s, line) == Fold(WithCookie, s, line)
extractCookies(p) ==
  [p EXCEPT !.cookies = Fold(WithCookies, {}, Reversed(p.headers["cookie"])),
            !.headers["cookie"] = <<>>]

TooMany(p) == p.currentSize > (IF p.multipart THEN maxMultiPartSize ELSE maxSize)

Finished(p) ==
  IF TooMany(p) THEN [p EXCEPT !.status = "abort"]
  ELSE IF p.status = "complete" THEN extractCookies(decodeRequestParams(p)) ELSE p

-----------------------------------------------------------------------------
Init ==
  /\ client \in Clients
  /\ stream = Concat([k \in DOMAIN client |-> Encode(client[k])])
  /\ sock = <<>> /\ request = NoRequest /\ outcomes = <<>> /\ taken = 0 /\ cuts = {}

(* A packet of n bytes.  The thread takes no other before it has worked    *)
(* off what the socket has.                                                *)
Arrive(n) ==
  /\ sock = <<>> /\ request.status \notin {"complete", "abort"}
  /\ sock' = SubSeq(stream, 1, n) /\ stream' = SubSeq(stream, n + 1, Len(stream))
  /\ UNCHANGED <<client, request, outcomes, taken, cuts>>

(* A line of a head is cut if part of it already waits; its break is, if   *)
(* what is read ends between the two, be it the packet or the limit.       *)
CutBy(chunk) ==
  (IF request.lineBuffer # <<>> THEN {"line"} ELSE {}) \cup
  (IF chunk # <<>> /\ Last(chunk) = CR THEN {"break"} ELSE {})

Reads(status, Step(_, _), chunk) ==
  /\ sock # <<>> /\ request.status = status
  /\ request' = Finished(Step(request, chunk)) /\ cuts' = cuts \cup CutBy(chunk)
  /\ sock' = SubSeq(sock, Len(chunk) + 1, Len(sock)) /\ taken' = taken + Len(chunk)
  /\ UNCHANGED <<client, stream, outcomes>>

Create ==
  /\ sock # <<>> /\ request.status = "none" /\ request' = NewRequest /\ taken' = 0
  /\ UNCHANGED <<client, stream, sock, outcomes, cuts>>

LineOfHead == readLine(sock, maxSize - request.currentSize + 1)

ReadRequest == Reads("waitForRequest", readRequest, LineOfHead)
ReadHeader  == Reads("waitForHeader", readHeader, LineOfHead)
ReadBody    == Reads("waitForBody", readBody, readBytes(sock, ToRead(request)))

(* What the request tells its handler.                                     *)
Told(p) == [query |-> p.query, parameters |-> p.parameters, cookies |-> p.cookies,
            type |-> value(p, "type"), other |-> value(p, "other"),
            bodyData |-> IF p.multipart THEN <<>> ELSE p.bodyData,
            files |-> p.files]

Complete ==
  /\ request.status = "complete" /\ request' = NoRequest
  /\ outcomes' = Append(outcomes, [accepted |-> TRUE, told |-> Told(request),
                            taken |-> taken, multipart |-> request.multipart])
  /\ UNCHANGED <<client, stream, sock, taken, cuts>>

(* 413: the connection is closed, what follows is never read.              *)
Abort ==
  /\ request.status = "abort" /\ request' = NoRequest
  /\ outcomes' = Append(outcomes, [accepted |-> FALSE])
  /\ sock' = <<>> /\ stream' = <<>>
  /\ UNCHANGED <<client, taken, cuts>>

Next ==
  \/ \E n \in 1 .. Len(stream) : Arrive(n)
  \/ Create \/ ReadRequest \/ ReadHeader \/ ReadBody \/ Complete \/ Abort

Spec == Init /\ [][Next]_vars

-----------------------------------------------------------------------------
Said(r, name) ==
  LET at == {k \in DOMAIN r.headers : r.headers[k][1] = name}
  IN IF at = {} THEN <<>> ELSE Tail(r.headers[Greatest(at)])

IsMulti(r) == Said(r, "type") = <<"multi">>
Files(r) == {k \in DOMAIN r.parts : r.parts[k].kind = "file"}

(* A multipart body: a boundary, a head and an empty line before the data  *)
(* of each part, and the last boundary.                                    *)
BodyOf(parts) ==
  Concat([k \in DOMAIN parts |-> <<"bound", parts[k].kind, "empty">> \o parts[k].data])
    \o <<"last">>

IsPart(part) ==
  /\ part.kind \in {"field", "file"}
  /\ part.kind = "file" => part.data # <<>>
  /\ ToSet(part.data) \cap {"bound", "last"} = {}

(* A request that keeps to the protocol: its lines are lines, its body is  *)
(* as long as it says, it has one cookie line at most.  (Here all cookies  *)
(* but "word" and "bare" have one name, of which one is sent.)  Of two     *)
(* files of one name the code loses the first, and never closes it         *)
(* (httprequest.h says the destructor will).                               *)
Honest(r) ==
  /\ r.line = FirstLine /\ ~HasBreak(r.query)
  /\ \A k \in DOMAIN r.headers :
       /\ r.headers[k] # <<>> /\ r.headers[k][1] \in Header /\ ~HasBreak(r.headers[k])
       /\ r.headers[k][1] = "cookie" =>
            /\ Len(r.headers[k]) <= 2 /\ ToSet(r.headers[k]) \cap {"word", "bare"} = {}
            /\ \A j \in DOMAIN r.headers : r.headers[j][1] = "cookie" => j = k
  /\ toInt(Said(r, "length")) = Len(r.body)
  /\ IF IsMulti(r)
     THEN /\ r.body = BodyOf(r.parts) /\ \A k \in DOMAIN r.parts : IsPart(r.parts[k])
          /\ \A j, k \in Files(r) : j = k
     ELSE r.parts = <<>> /\ "multi" \notin ToSet(Said(r, "type"))

(* The words between the ampersands, each a parameter.                     *)
ParametersOf(words) ==
  LET kept == {k \in DOMAIN words : words[k] # "amp"}
      Nth(i) == CHOOSE k \in kept : Cardinality({j \in kept : j <= k}) = i
  IN [i \in 1 .. Cardinality(kept) |-> <<words[Nth(i)]>>]

(* What it should become: parameters, cookies, headers and body as its     *)
(* client means them, and nothing of its neighbours.                       *)
IsForm(r) == ~IsMulti(r) /\ (Said(r, "type") = <<>> \/ Said(r, "type")[1] = "form")
Expected(r) ==
  [query |-> r.query,
   parameters |->
     [k \in DOMAIN r.parts |-> IF k \in Files(r) THEN <<"filename">> ELSE r.parts[k].data]
       \o ParametersOf(r.query \o (IF IsForm(r) THEN r.body ELSE <<>>)),
   cookies |-> {[name |-> "user", value |-> w] : w \in ToSet(Said(r, "cookie"))},
   type |-> Said(r, "type"), other |-> Said(r, "other"),
   bodyData |-> IF IsMulti(r) THEN <<>> ELSE r.body,
   files |-> [named |-> IF Files(r) # {} THEN 1 ELSE 0, leaked |-> 0]]

Size(r) == Len(Encode(r))
Fits(r) ==
  IF IsMulti(r)
  THEN LET head == Size(r) - Len(r.body) IN
       /\ head <= maxSize /\ Len(r.body) < maxMultiPartSize
       /\ head + Len(r.body) <= maxMultiPartSize
  ELSE Size(r) <= maxSize

(* However the network cuts what a client sends, and whatever else it      *)
(* sends on the connection, each request becomes what its client means; it *)
(* is refused only if it is too large or if a line of its head came in     *)
(* parts, which count more than once.  A cut between the carriage return   *)
(* and the line feed of a head is excepted: the code takes the line feed   *)
(* for the end of the headers.                                             *)
ParsedAsSent ==
  \A i \in DOMAIN outcomes :
    "break" \notin cuts /\ (\A j \in 1 .. i : Honest(client[j])) /\ Fits(client[i]) =>
      IF outcomes[i].accepted THEN outcomes[i].told = Expected(client[i])
      ELSE "line" \in cuts

(* Whatever a client sends and however it is cut, a request that is        *)
(* accepted took no more than maxRequestSize bytes, or, with a multipart   *)
(* body, than a head of one more and a body below maxMultiPartSize.        *)
AcceptedFits ==
  \A i \in DOMAIN outcomes : outcomes[i].accepted =>
    outcomes[i].taken <= IF outcomes[i].multipart
                         THEN maxSize + 1 + maxMultiPartSize - 1 ELSE maxSize
=============================================================================
