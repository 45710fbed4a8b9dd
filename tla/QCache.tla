-------------------------------- MODULE QCache --------------------------------
(***************************************************************************)
(* The order of the keys in a QCache of Qt, which the file and the         *)
(* template cache of QtWebApp use: the last used one first, each once.     *)
(***************************************************************************)
EXTENDS Integers, Sequences, FiniteSetsExt

Without(s, p) ==
  LET at == CHOOSE k \in DOMAIN s : s[k] = p
  IN IF \E k \in DOMAIN s : s[k] = p
     THEN SubSeq(s, 1, at - 1) \o SubSeq(s, at + 1, Len(s)) ELSE s

Cost(s, size) == MapThenSumSet(LAMBDA k : size[s[k]], DOMAIN s)
Kept(s, size, room) ==
  SubSeq(s, 1, Max({k \in 0..Len(s) : k = 0 \/ Cost(SubSeq(s, 1, k), size) <= room}))

(* object() makes its key the last used one.                               *)
Looked(s, p) == IF \E k \in DOMAIN s : s[k] = p THEN <<p>> \o Without(s, p) ELSE s

(* insert() replaces the entry of the key and drops the least used ones    *)
(* until it fits; an entry that can never fit is dropped itself.           *)
Inserted(s, p, size, maxCost) ==
  IF size[p] <= maxCost
  THEN <<p>> \o Kept(Without(s, p), size, maxCost - size[p]) ELSE Without(s, p)
===============================================================================
