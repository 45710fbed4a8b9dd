---------------------------- MODULE DisplayStyles ----------------------------
(***************************************************************************)
(* Reading the style file (displayxmlparser.cpp, MainWindow::loadStyles).  *)
(* The XML reader calls startElement, characters and endElement; the       *)
(* parser remembers in flags what it is in and fills a DisplayStyle that   *)
(* it appends to styleVec when the style element ends.                     *)
(***************************************************************************)
EXTENDS Integers, Sequences, Lists

CONSTANTS Sheets       \* the files: sequences of styles, and an element amiss

VARIABLES sheet,
          events,      \* what the XML reader still has to report
          in,          \* the elements the parser is in (its bIn flags)
          inFontType, inColorType,
          currentStyle, styleVec,
          parsed       \* "reading", or what reader.parse returned

vars == <<sheet, events, in, inFontType, inColorType, currentStyle, styleVec, parsed>>

(* A DisplayStyle before anything was set (displaystyle.h).                *)
NewFont(name, size, weight) == [name |-> name, size |-> size, weight |-> weight]
DisplayStyle(label) ==
  [label |-> label, header |-> NewFont("Liberation Sans", 48, "bold"),
   message |-> NewFont("FreeSans", 32, "normal"),
   timer |-> FALSE, foreground |-> "unset", background |-> "unset"]

(* The events of a file.  A style is written as the sequence of its        *)
(* elements, each [el, atts, text]; blanks come between the elements.      *)
StartOf(el, atts) == [is |-> "start", el |-> el, atts |-> atts]
EndOf(el) == [is |-> "end", el |-> el]
Chars(text) == [is |-> "chars", text |-> text]
Blank == Chars("")
NoAtts == [none |-> ""]

EventsOfElement(e) ==
  IF e.el \in {"foreground", "background"}
  THEN <<StartOf(e.el, NoAtts), Blank, StartOf("color", NoAtts), Chars(e.text),
         EndOf("color"), Blank, EndOf(e.el), Blank>>
  ELSE <<StartOf(e.el, e.atts), Chars(e.text), EndOf(e.el), Blank>>

EventsOfStyle(s) ==
  <<StartOf("style", [label |-> s.label]), Blank>>
    \o Concat([k \in DOMAIN s.elements |-> EventsOfElement(s.elements[k])])
    \o <<EndOf("style"), Blank>>

(* An element amiss comes after the styles, in the last of them if it is   *)
(* a style, and outside of all styles otherwise.                           *)
EventsOfSheet(sh) ==
  LET whole == Concat([k \in DOMAIN sh.styles |-> EventsOfStyle(sh.styles[k])])
      amiss == IF sh.amiss = "none" THEN <<>>
               ELSE (IF sh.amiss = "style" THEN <<StartOf("style", [label |-> "last"])>> ELSE <<>>)
                      \o <<StartOf(sh.amiss, NoAtts), EndOf(sh.amiss)>>
  IN <<StartOf("stylesheet", NoAtts), Blank>> \o whole \o amiss \o <<EndOf("stylesheet")>>

(* The elements the parser knows in a style, a font with its type and size.*)
Weights == {"thin", "extralight", "light", "normal", "medium", "demibold", "bold",
            "extrabold", "black"}
IsElement(e) ==
  /\ e.el \in {"font", "timer", "foreground", "background"}
  /\ e.el = "font" =>
       /\ {"type", "size"} \subseteq DOMAIN e.atts
       /\ e.atts.type \in {"header", "message"}
       /\ "weight" \in DOMAIN e.atts => e.atts.weight \in Weights
IsStyle(s) ==
  s.elements \in Seq(ToSet(s.elements)) /\ \A e \in ToSet(s.elements) : IsElement(e)

Init ==
  /\ sheet \in Sheets
  /\ events = EventsOfSheet(sheet)
  /\ in = {} /\ inFontType = "" /\ inColorType = ""
  /\ currentStyle = DisplayStyle("") /\ styleVec = <<>>
  /\ parsed = "reading"

-------------------------------------------------------------------------------
Attribute(atts, a, default) == IF a \in DOMAIN atts THEN atts[a] ELSE default

Event(is) == parsed = "reading" /\ events # <<>> /\ Head(events).is = is
Goes(ok) == parsed' = IF ok THEN "reading" ELSE "failed"
Consumed == events' = Tail(events) /\ UNCHANGED sheet

InStyle == {"stylesheet", "style"} \subseteq in

(* What must hold for an element to begin; where it does not the handler   *)
(* returns false and the reader stops.                                     *)
MayStart(el) ==
  CASE el = "stylesheet" -> "stylesheet" \notin in
    [] el = "style" -> "stylesheet" \in in /\ "style" \notin in
    [] el \in {"font", "timer", "foreground", "background"} -> InStyle
    [] el = "color" -> InStyle /\ in \cap {"foreground", "background"} # {}
    [] OTHER -> TRUE

Begun(el) == in' = IF MayStart(el) THEN in \cup {el} ELSE in

(* A font keeps the type of the font before it when it has none; a size    *)
(* it does not have is 0, a weight it does not have, or that parseWeight   *)
(* does not know, is the normal one.                                       *)
parseWeight(w) == IF w \in Weights THEN w ELSE "normal"

StartFont ==
  LET atts == Head(events).atts
      type == Attribute(atts, "type", inFontType)
  IN /\ Event("start") /\ Head(events).el = "font"
     /\ Goes(InStyle) /\ Begun("font") /\ Consumed
     /\ IF InStyle
        THEN /\ inFontType' = type
             /\ currentStyle' = IF type \notin {"header", "message"} THEN currentStyle
                  ELSE [currentStyle EXCEPT ![type].size = Attribute(atts, "size", 0),
                          ![type].weight = parseWeight(Attribute(atts, "weight", "normal"))]
        ELSE UNCHANGED <<inFontType, currentStyle>>
     /\ UNCHANGED <<inColorType, styleVec>>

StartOther ==
  LET el == Head(events).el
  IN /\ Event("start") /\ el # "font"
     /\ Goes(MayStart(el)) /\ Begun(el) /\ Consumed
     /\ currentStyle' = IF el = "style" /\ MayStart(el)
                        THEN DisplayStyle(Attribute(Head(events).atts, "label", ""))
                        ELSE currentStyle
     /\ inColorType' = IF el \in {"foreground", "background"} /\ MayStart(el) THEN el
                       ELSE inColorType
     /\ UNCHANGED <<inFontType, styleVec>>

(* An end that matches no begin is refused in the same way, but an XML     *)
(* reader reports none.                                                    *)
endElementKeepsFont ==
  LET el == Head(events).el
  IN /\ Event("end")
     /\ Goes(el \in in) /\ Consumed
     /\ in' = in \ ({el} \ {"font"})
     /\ styleVec' = IF el = "style" /\ el \in in THEN Append(styleVec, currentStyle)
                    ELSE styleVec
     /\ UNCHANGED <<inFontType, inColorType, currentStyle>>
endElement ==
  LET el == Head(events).el
  IN /\ Event("end")
     /\ Goes(el \in in) /\ Consumed
     /\ in' = in \ {el}
     /\ styleVec' = IF el = "style" /\ el \in in THEN Append(styleVec, currentStyle)
                    ELSE styleVec
     /\ UNCHANGED <<inFontType, inColorType, currentStyle>>

characters ==
  LET text == Head(events).text
  IN /\ Event("chars") /\ Goes(TRUE) /\ Consumed
     /\ currentStyle' =
          IF "font" \in in
          THEN IF inFontType \in {"header", "message"}
               THEN [currentStyle EXCEPT ![inFontType].name = text] ELSE currentStyle
          ELSE IF "timer" \in in THEN [currentStyle EXCEPT !.timer = text = "1"]
          ELSE IF "color" \in in THEN [currentStyle EXCEPT ![inColorType] = text]
          ELSE currentStyle
     /\ UNCHANGED <<in, inFontType, inColorType, styleVec>>

(* The constructor of MainWindow shows the first style, or one it makes.   *)
Loaded ==
  /\ parsed \in {"reading", "failed"}
  /\ parsed = "failed" \/ events = <<>>
  /\ parsed' = "loaded"
  /\ styleVec' = IF styleVec # <<>> THEN styleVec
                 ELSE <<[DisplayStyle("Default") EXCEPT !.foreground = "yellow",
                                                        !.background = "blue"]>>
  /\ UNCHANGED <<sheet, events, in, inFontType, inColorType, currentStyle>>

Next == StartFont \/ StartOther \/ endElement \/ characters \/ Loaded

Spec == Init /\ [][Next]_vars

-------------------------------------------------------------------------------
(* The style a style element describes: the last element of a kind counts, *)
(* a font has the type, size and weight of its own attributes.             *)
LastOf(s, Is(_), default) ==
  LET ks == {k \in DOMAIN s.elements : Is(s.elements[k])}
  IN IF ks = {} THEN default
     ELSE s.elements[CHOOSE k \in ks : \A j \in ks : j <= k]

FontOf(s, type, default) ==
  LET e == LastOf(s, LAMBDA x : x.el = "font" /\ x.atts.type = type, [el |-> "none"])
  IN IF e.el = "none" THEN default
     ELSE NewFont(e.text, e.atts.size, Attribute(e.atts, "weight", "normal"))

TextOf(s, el, default) == LastOf(s, LAMBDA x : x.el = el, [text |-> default]).text

Described(s) ==
  LET new == DisplayStyle(s.label)
  IN [label |-> s.label,
      header |-> FontOf(s, "header", new.header),
      message |-> FontOf(s, "message", new.message),
      timer |-> TextOf(s, "timer", "0") = "1",
      foreground |-> TextOf(s, "foreground", "unset"),
      background |-> TextOf(s, "background", "unset")]

(* The window can show every style the file describes, in its order and    *)
(* with nothing of the styles before it, up to the first element amiss,    *)
(* whatever the order of the elements in a style; without any it has the   *)
(* yellow and blue one.  Fonts here say their type and size, for which the *)
(* parser has no value of its own (startElement, endElement, characters).  *)
StylesAreAsWritten ==
  parsed = "loaded" =>
    IF sheet.styles # <<>>
    THEN styleVec = [k \in DOMAIN sheet.styles |-> Described(sheet.styles[k])]
    ELSE Len(styleVec) = 1 /\ styleVec[1].label = "Default"
===============================================================================
