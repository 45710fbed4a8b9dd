----------------------------- MODULE HttpCookie -----------------------------
(***************************************************************************)
(* HttpCookie: a cookie as fields, as the text of a Set-Cookie header and  *)
(* back.  A text is a sequence of words, "=", ";" and quotation marks; an  *)
(* empty text is None.                                                     *)
(***************************************************************************)
EXTENDS Integers, Sequences

CONSTANTS Word, None,
          Number         \* the words of numbers

Semi  == "semi"
Eq    == "eq"
Quote == "quote"

Attributes == {"Comment", "Domain", "Max-Age", "Path", "Secure", "HttpOnly", "Version"}

(* The fields and their accessors.                                         *)
Cookie == [name : Word, value : Word, comment : Word \cup {None},
           domain : Word \cup {None}, path : Word \cup {None},
           maxAge : Int, secure : BOOLEAN, httpOnly : BOOLEAN, version : Int]

(* The constructor from fields; the version is always 1.                   *)
NewCookie(name, val, maxAge, path, comment, domain, secure, httpOnly) ==
  [name |-> name, value |-> val, comment |-> comment, domain |-> domain,
   path |-> path, maxAge |-> maxAge, secure |-> secure, httpOnly |-> httpOnly,
   version |-> 1]

Named(key, v) == IF v = None THEN <<>> ELSE <<Semi, key, Eq, v>>
Flagged(key, b) == IF b THEN <<Semi, key>> ELSE <<>>

toByteArray(c) ==
  <<c.name, Eq, c.value>> \o Named("Comment", c.comment) \o Named("Domain", c.domain)
    \o Named("Max-Age", IF c.maxAge = 0 THEN None ELSE Number[c.maxAge])
    \o Named("Path", c.path) \o Flagged("Secure", c.secure)
    \o Flagged("HttpOnly", c.httpOnly) \o Named("Version", Number[c.version])

(* Parts end at a semicolon outside quotation marks, which are dropped, as *)
(* are empty parts.                                                        *)
Closed(a) == IF a.part = <<>> THEN a.list ELSE Append(a.list, a.part)

Splits(a, w) ==
  IF w = Quote THEN [a EXCEPT !.inString = ~@]
  ELSE IF w = Semi /\ ~a.inString THEN [a EXCEPT !.list = Closed(a), !.part = <<>>]
  ELSE [a EXCEPT !.part = Append(@, w)]

splitCSV(source) ==
  LET read[n \in 0 .. Len(source)] ==
        IF n = 0 THEN [inString |-> FALSE, part |-> <<>>, list |-> <<>>]
        ELSE Splits(read[n - 1], source[n])
  IN Closed(read[Len(source)])

(* indexOf tells -1 if there is no equals sign, and left(-1) and mid(0)    *)
(* take the whole part; a part that begins with one is a name.             *)
NameAndValue(part) ==
  LET places == {k \in DOMAIN part : part[k] = Eq}
      at == CHOOSE k \in places : \A j \in places : k <= j
  IN IF places = {} THEN [name |-> part, value |-> part]
     ELSE IF at = 1 THEN [name |-> part, value |-> <<>>]
     ELSE [name |-> SubSeq(part, 1, at - 1), value |-> SubSeq(part, at + 1, Len(part))]

FirstWord(words) == IF words = <<>> THEN None ELSE words[1]
ToInt(word) == IF \E n \in DOMAIN Number : Number[n] = word
               THEN CHOOSE n \in DOMAIN Number : Number[n] = word ELSE 0

(* What a part tells of a cookie; an unknown one is ignored.               *)
Told(c, part) ==
  LET p == NameAndValue(part)
      v == FirstWord(p.value)
  IN CASE p.name = <<"Comment">>  -> [c EXCEPT !.comment = v]
       [] p.name = <<"Domain">>   -> [c EXCEPT !.domain = v]
       [] p.name = <<"Max-Age">>  -> [c EXCEPT !.maxAge = ToInt(v)]
       [] p.name = <<"Path">>     -> [c EXCEPT !.path = v]
       [] p.name = <<"Secure">>   -> [c EXCEPT !.secure = TRUE]
       [] p.name = <<"HttpOnly">> -> [c EXCEPT !.httpOnly = TRUE]
       [] p.name = <<"Version">>  -> [c EXCEPT !.version = ToInt(v)]
       [] OTHER -> IF c.name = None
                   THEN [c EXCEPT !.name = FirstWord(p.name), !.value = v] ELSE c

(* The constructor from text.  httpOnly is left as it was in memory.       *)
ParseCookie(source, memory) ==
  LET parts == splitCSV(source)
      cookie[n \in 0 .. Len(parts)] ==
        IF n = 0
        THEN [name |-> None, value |-> None, comment |-> None, domain |-> None,
              path |-> None, maxAge |-> 0, secure |-> FALSE, httpOnly |-> memory,
              version |-> 1]
        ELSE Told(cookie[n - 1], parts[n])
  IN cookie[Len(parts)]
=============================================================================
