------------------------------- MODULE Template -------------------------------
(***************************************************************************)
(* Filling a template (template.cpp).  The text is the sequence of its     *)
(* tags and of the passages between them; setVariable, setCondition and    *)
(* loop search it for the tags of one name and replace them, one iteration *)
(* of a while loop of the source a step.  A name is the sequence of its    *)
(* parts between the dots, each with the number loop() appended to it.     *)
(***************************************************************************)
EXTENDS Integers, Sequences, Lists

CONSTANTS Documents,     \* templates, as sequences of nodes
          Forests,       \* the documents, and the bodies of their nodes
          MaxRepetitions

VARIABLES document, data,   \* what the controller fills the template with
          text,             \* the QString a Template is
          calls             \* the calls and passes still to be made

vars == <<document, data, text, calls>>

Unnumbered == -1
Part(b) == [base |-> b, number |-> Unnumbered]
Names == Seq([base : STRING, number : Int])
Tag(kind, name) == [kind |-> kind, name |-> name]
Numbered(name, i) == [name EXCEPT ![Len(name)].number = i]

(* A document is a sequence of nodes [kind, name, body, other].  A leaf is *)
(* a passage of text, a variable, or a start tag nobody ended; the others  *)
(* have a body and may have an else part, which are documents again.       *)

Source[nodes \in Forests] ==
  Concat([k \in DOMAIN nodes |->
    LET n == nodes[k] IN
    CASE n.kind = "unended" -> <<Tag("if", n.name)>>
      [] n.kind \in {"text", "variable"} -> <<Tag(n.kind, n.name)>>
      [] OTHER -> <<Tag(n.kind, n.name)>> \o Source[n.body]
                    \o (IF n.other = <<>> THEN <<>>
                        ELSE <<Tag("else", n.name)>> \o Source[n.other])
                    \o <<Tag("end", n.name)>>])

(* The name of a tag inside the loops numbered so far.                     *)
In(outer, name) ==
  IF Len(outer) < Len(name) /\ \A k \in DOMAIN outer : outer[k].base = name[k].base
  THEN outer \o SubSeq(name, Len(outer) + 1, Len(name)) ELSE name

(* What the controller gives: a number of repetitions for each loop, and   *)
(* for a condition a value that changes from one repetition to the next.   *)
Repetitions(name) == data.repetitions[Len(name)]
Holds(name) == (Last(Front(<<Part("")>> \o name)).number = 1) # data.holds

(* The calls of the controller: loops before what they repeat.             *)
CallsFor[nodes \in Forests, outer \in Names] ==
  Concat([k \in DOMAIN nodes |->
    LET n == nodes[k]
        name == In(outer, n.name)
    IN CASE n.kind = "text" -> <<>>
         [] n.kind = "variable" -> <<[call |-> "setVariable", name |-> name]>>
         [] n.kind \in {"if", "ifnot", "unended"} ->
              <<[call |-> "setCondition", name |-> name]>>
                \o CallsFor[n.body, outer] \o CallsFor[n.other, outer]
         [] n.kind = "loop" ->
              <<[call |-> "loop", name |-> name]>>
                \o Concat([i \in 1..Repetitions(name) |->
                                 CallsFor[n.body, Numbered(name, i - 1)]])
                \o CallsFor[n.other, outer]])

Init ==
  /\ document \in Documents
  /\ data \in [repetitions : [1..2 -> 0..MaxRepetitions], holds : BOOLEAN]
  /\ text = Source[document]
  /\ calls = CallsFor[document, <<>>]

-------------------------------------------------------------------------------
(* indexOf(), from a place in the text on; 0 if there is none.             *)
IndexOf(tag, from) ==
  LET found == {k \in from..Len(text) : text[k] = tag}
  IN IF found = {} THEN 0 ELSE Least(found)
Between(i, j) == SubSeq(text, i + 1, j - 1)

(* The value of a variable is told by the variable's name.                 *)
setVariable ==
  /\ calls # <<>> /\ Head(calls).call = "setVariable"
  /\ text' = [k \in DOMAIN text |->
                IF text[k] = Tag("variable", Head(calls).name)
                THEN Tag("value", Head(calls).name) ELSE text[k]]
  /\ calls' = Tail(calls)
  /\ UNCHANGED <<document, data>>

(* setCondition makes two passes over the text, loop one.                  *)
Pass(kind, c, first, repetitions) ==
  [call |-> "pass", kind |-> kind, name |-> c.name, first |-> first,
   repetitions |-> repetitions]

setCondition ==
  LET c == Head(calls)
  IN /\ calls # <<>> /\ c.call = "setCondition"
     /\ calls' = <<Pass("if", c, Holds(c.name), 1),
                   Pass("ifnot", c, ~Holds(c.name), 1)>> \o Tail(calls)
     /\ UNCHANGED <<document, data, text>>

loop ==
  LET c == Head(calls)
  IN /\ calls # <<>> /\ c.call = "loop"
     /\ calls' = <<Pass("loop", c, Repetitions(c.name) > 0, Repetitions(c.name))>> \o Tail(calls)
     /\ UNCHANGED <<document, data, text>>

(* Loops number the names that begin with their own and a dot.             *)
Repeated(c, part) ==
  IF c.kind # "loop" \/ ~c.first THEN part
  ELSE Concat([i \in 1..c.repetitions |->
         [k \in DOMAIN part |->
            IF IsStrictPrefix(c.name, part[k].name)
            THEN Tag(part[k].kind, Numbered(c.name, i - 1)
                       \o SubSeq(part[k].name, Len(c.name) + 1, Len(part[k].name)))
            ELSE part[k]]])

(* The part of the block from start to end that stays.                     *)
StaysAnyElse(c, start, end) ==
  LET else == IndexOf(Tag("else", c.name), start + 1)
  IN IF else > start
     THEN IF c.first THEN Between(start, else) ELSE Between(else, end)
     ELSE IF c.first THEN Between(start, end) ELSE <<>>
Stays(c, start, end) ==
  LET else == IndexOf(Tag("else", c.name), start + 1)
  IN IF else > start /\ else < end
     THEN IF c.first THEN Between(start, else) ELSE Between(else, end)
     ELSE IF c.first THEN Between(start, end) ELSE <<>>

(* One iteration.  Without an end tag the source tries the same start tag  *)
(* again for ever: no step is possible any more.                           *)
ReplaceBlock ==
  LET c == Head(calls)
      start == IndexOf(Tag(c.kind, c.name), 1)
      end == IndexOf(Tag("end", c.name), start + 1)
  IN /\ calls # <<>> /\ c.call = "pass"
     /\ start > 0 /\ end > 0
     /\ text' = SubSeq(text, 1, start - 1) \o Repeated(c, Stays(c, start, end))
                  \o SubSeq(text, end + 1, Len(text))
     /\ UNCHANGED <<document, data, calls>>

NoMoreBlocks ==
  /\ calls # <<>> /\ Head(calls).call = "pass"
  /\ IndexOf(Tag(Head(calls).kind, Head(calls).name), 1) = 0
  /\ calls' = Tail(calls)
  /\ UNCHANGED <<document, data, text>>

Next == setVariable \/ setCondition \/ loop \/ ReplaceBlock \/ NoMoreBlocks

Spec == Init /\ [][Next]_vars

-------------------------------------------------------------------------------
Meaning[nodes \in Forests, outer \in Names] ==
  Concat([k \in DOMAIN nodes |->
    LET n == nodes[k]
        name == In(outer, n.name)
        chosen(b) == Meaning[IF b THEN n.body ELSE n.other, outer]
    IN CASE n.kind = "text" -> <<Tag("text", n.name)>>
         [] n.kind = "variable" -> <<Tag("value", name)>>
         [] n.kind = "if" -> chosen(Holds(name))
         [] n.kind = "ifnot" -> chosen(~Holds(name))
         [] n.kind = "loop" ->
              IF Repetitions(name) = 0 THEN chosen(FALSE)
              ELSE Concat([i \in 1..Repetitions(name) |->
                                 Meaning[n.body, Numbered(name, i - 1)]])])

(* After the calls of the controller the text is what the template means:  *)
(* each condition leaves the part its value chooses, each loop its body as *)
(* often as asked with the variables, conditions and loops in it numbered, *)
(* though every call sees only tags in a flat text, finds its else and end *)
(* by their name, and works on text that earlier calls have rewritten.     *)
TemplateRendersAsMeant == calls = <<>> => text = Meaning[document, <<>>]
===============================================================================
