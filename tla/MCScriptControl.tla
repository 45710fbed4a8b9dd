--------------------------- MODULE MCScriptControl ---------------------------
(* Two scripts, one unknown key, one child. *)
EXTENDS ScriptControl

MCKeys == {"a", "x"}
MCTestScripts == <<[key |-> "a", path |-> "a.sh"], [key |-> "a", path |-> "demo.sh"]>>
=============================================================================
