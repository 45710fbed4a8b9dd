------------------------------ MODULE MCFormats ------------------------------
(* Small instances of the parts that read a format.                        *)
EXTENDS Formats, TLC

-----------------------------------------------------------------------------
(* The requests of eight clients: with parameters in the query, cookies, a *)
(* form, files; too large, of a wrong length, with broken heads.           *)
R(line, query, heads, body, parts) ==
  [line |-> line, query |-> query, headers |-> heads, body |-> body, parts |-> parts]
Get(query, heads, body) == R(<<"get", "http">>, query, heads, body, <<>>)
Plain == Get(<<>>, <<>>, <<>>)
Length(n) == <<"length", n>>
Multi == <<"type", "multi">>
Upload == R(<<"get", "http">>, <<>>, <<Length("nine"), Multi>>,
  <<"bound", "field", "empty", "d1", "bound", "file", "empty", "d2", "last">>,
  <<[kind |-> "field", data |-> <<"d1">>], [kind |-> "file", data |-> <<"d2">>]>>)

MCClients == {
  <<Plain, Get(<<"p1", "amp">>, <<<<"other", "a">>, <<"cookie", "c1">>>>, <<>>)>>,
  <<Get(<<"p1">>, <<Length("three")>>, <<"p2", "amp", "p3">>),
    Get(<<"p1", "amp", "p2">>, <<Length("three")>>, <<"p2", "amp", "p3">>)>>,
  <<Upload, Plain>>,
  <<Get(<<>>, <<Multi, Length("nine")>>,
        <<"bound", "file", "empty", "d1", "bound", "file", "empty", "d2", "bound">>)>>,
  <<Get(<<>>, <<Length("minus")>>, <<>>), R(<<"post", "http">>, <<>>, <<>>, <<>>, <<>>)>>,
  <<Get(<<>>, <<Multi, Length("many")>>, <<>>)>>,
  <<Get(<<>>, <<<<"on">>, <<"type", "a">>, <<"on">>,
                <<"cookie", "word", "bare", "c1", "c2">>>>, <<>>)>>,
  <<Get(<<>>, <<Length("three")>>, <<>>), Plain>> }

-----------------------------------------------------------------------------
(* Templates: that of the demo, nested loops with conditions, one name in  *)
(* several places, and one whose condition has no end.                     *)
Nd(kind, bases, body, other) ==
  [kind |-> kind, name |-> [k \in DOMAIN bases |-> [base |-> bases[k], number |-> -1]],
   body |-> body, other |-> other]
T(x) == Nd("text", <<x>>, <<>>, <<>>)
V(bases) == Nd("variable", bases, <<>>, <<>>)

MCDocuments == {
  <<V(<<"path">>),
    Nd("loop", <<"header">>, <<V(<<"header", "name">>), V(<<"header", "value">>)>>, <<>>)>>,
  <<Nd("loop", <<"row">>,
      <<T("tr"),
        Nd("loop", <<"row", "column">>,
           <<Nd("ifnot", <<"row", "column", "empty">>,
                <<V(<<"row", "column", "value">>), V(<<"path">>)>>, <<T("dash")>>)>>,
           <<V(<<"row", "name">>)>>)>>,
      <<T("none"), V(<<"path">>)>>)>>,
  <<Nd("if", <<"locked">>, <<T("a")>>, <<>>), T("b"),
    Nd("ifnot", <<"locked">>,
       <<T("c"), Nd("loop", <<"user">>, <<V(<<"user", "name">>)>>, <<>>)>>, <<T("d")>>),
    Nd("if", <<"locked">>, <<T("e")>>, <<T("f")>>),
    Nd("loop", <<"user">>, <<Nd("if", <<"user", "here">>, <<T("g")>>, <<T("h")>>)>>, <<>>)>>,
  <<Nd("unended", <<"locked">>, <<>>, <<>>), T("a")>> }

WithBodies(forests) ==
  forests \cup UNION {UNION {{nodes[k].body, nodes[k].other} : k \in DOMAIN nodes} :
                        nodes \in forests}
MCForests == WithBodies(WithBodies(WithBodies(WithBodies(MCDocuments))))

(* Headings of one piece, of two with a colon between them, of two lines,  *)
(* and with none.                                                          *)
MCTexts == {<<<<"a", "b">>>>, <<<<"a">>, <<"b">>>>, <<<<>>>>}
MCScripts == <<"a">>
MCStyles == <<"Default", "Dark">>
=============================================================================
