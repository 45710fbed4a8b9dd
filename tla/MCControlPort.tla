--------------------------- MODULE MCControlPort ---------------------------
(* The lines the clients of the control port send.                         *)
EXTENDS ControlPort, TLC

CONSTANTS s1, s2
VARIABLE may  \* what each client sends in this behaviour

Line(cmd, args) == [cmd |-> cmd, args |-> args]

AnyText   == STRING
OneScript == <<"a">>
TwoStyles == <<"Default", "Dark">>

(* Every command, its failures and lines that are none.                    *)
AllLines == {
  Line("HEAD", <<"a">>), Line("HEAD", <<>>), Line("MESG", <<"b">>),
  Line("TIME", <<"0">>), Line("REST", <<>>), Line("STYL", <<"1">>),
  Line("STYL", <<"2">>), Line("STYL", <<"minus">>), Line("STAT", <<>>),
  Line("RUNK", <<"a">>), Line("RUNK", <<"b">>), Line("STOP", <<>>),
  Line("LIST", <<"SCRIPT">>), Line("LIST", <<"STYLE">>), Line("LIST", <<"x">>),
  Line("SCHED", <<"1">>), Line("SCHED", <<"2">>), Line("TEXT", <<"c", "d">>),
  Line("ELAP", <<"0", "ON">>), Line("ELAP", <<"0", "OFF">>),
  Line("ELAP", <<"1", "START">>), Line("ELAP", <<"1", "STOP">>),
  Line("ELAP", <<"2", "ON">>), Line("VERS", <<>>), Line("QUIT", <<>>),
  Line("QUIT", <<"x">>), Line("KILL", <<>>), Line("NONE", <<>>), Line("BLANK", <<>>) }

(* What shows how two clients get in each other's way.                     *)
SharedLines == {
  Line("HEAD", <<"a">>), Line("REST", <<>>),
  Line("STAT", <<>>) }

(* Either one client with every command, or two clients on one display and *)
(* no script.                                                              *)
MayInit == may \in { (s1 :> AllLines) @@ (s2 :> {}),
                     (s1 :> SharedLines) @@ (s2 :> SharedLines) }

MayNext ==
  /\ \A c \in Conn : sent'[c] # sent[c] => sent'[c][Len(sent'[c])] \in may[c]
  /\ \A c \in Conn : sock'[c] # "none" => may[c] # {}
  /\ script' # NoScript => may[s2] = {}
  /\ UNCHANGED may

MCInit == Init /\ MayInit
MCNext == Next /\ MayNext
MCSpec == /\ MCInit /\ [][MCNext]_<<vars, may>>
          /\ WF_vars(Loop) /\ \A c \in Conn : SF_vars(ReadyRead(c))
=============================================================================
