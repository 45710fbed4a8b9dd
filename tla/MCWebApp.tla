------------------------------ MODULE MCWebApp ------------------------------
(* Small instances of the parts of QtWebApp that threads share, of         *)
(* responses and of style files.                                           *)
EXTENDS WebApp, TLC

CONSTANTS t1, t2, d1, d2

MCThreads == {t1, t2}
MCIds == {d1, d2}
Symmetry == {p @@ q : p \in Permutations(MCThreads), q \in Permutations(MCIds)}

(* Two ways to one small file, a file too large to be cached and a way out *)
(* of the directory; the cache has room for one entry.                     *)
MCFileOf == [x \in {"/dir", "/dir/index", "/huge", "/../x"} |->
               CASE x \in {"/dir", "/dir/index"} -> "index" [] OTHER -> "huge"]
MCSuffix == [index |-> "html", huge |-> "bin"]
MCSize == [index |-> 2, huge |-> 4]

MCLocales == [de |-> <<<<"de", "AT">>>>]

(* The cookies and parts a handler sets and writes.                        *)
Cookie(n, v, comment, domain, maxAge, path, secure, httpOnly) ==
  [name |-> n, value |-> v, comment |-> comment, domain |-> domain, maxAge |-> maxAge,
   path |-> path, secure |-> secure, httpOnly |-> httpOnly, version |-> 1]
MCCookies ==
  {Cookie("a", "x", "none", "none", 0, "none", FALSE, FALSE),
   Cookie("a", "y", "none", "none", 2, "p", TRUE, TRUE),
   Cookie("b", "x", "none", "none", 1, "none", FALSE, TRUE),
   Cookie("c", "z", "hi", "dom", 0, "none", FALSE, FALSE)}
MCNumber == (0 :> "0") @@ (1 :> "1") @@ (2 :> "2")
MCParts == {<<>>, <<"d">>, <<"d", "e">>}

(* Style files: up to three elements in every order, followed by a style   *)
(* that has none; and elements where they must not be.                     *)
E(el, atts, x) == [el |-> el, atts |-> atts, text |-> x]
Font(type, size, x) == E("font", [type |-> type, size |-> size], x)
Bold(type, size, x) == E("font", [type |-> type, size |-> size, weight |-> "bold"], x)
Elements == {Font("header", 42, "Ubuntu"), Bold("header", 20, "Lato"),
             Bold("message", 32, "FreeSans"), E("timer", [none |-> ""], "1"),
             E("foreground", [none |-> ""], "yellow"), E("background", [none |-> ""], "red")}
Empty == [label |-> "Empty", elements |-> <<>>]
Modern == {[label |-> "Modern", elements |-> s] : s \in UNION {[1..n -> Elements] : n \in 1..3}}
MCSheets ==
  [styles : {<<>>} \cup {<<m, Empty>> : m \in Modern}, amiss : {"none"}]
    \cup [styles : {<<>>, <<Empty>>},
          amiss : {"style", "stylesheet", "color", "font", "timer", "note"}]
=============================================================================
