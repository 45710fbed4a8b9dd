---------------------------- MODULE MCWebDisplay ----------------------------
(* What the run of WebDisplay is made of: a text other than the default,   *)
(* and a file other than the one that is loaded at first.                  *)
EXTENDS WebDisplay

OneText == {"a"}
OneFile == {"edited"}
=============================================================================
