------------------------------- MODULE Formats -------------------------------
(***************************************************************************)
(* The parts that read a format: the requests of HTTP, templates, the      *)
(* replies of the port as the Python driver takes them, /proc.  They share nothing with each other, so each behaviour is about  *)
(* one of them, the scene; the variables of the others are idle.           *)
(***************************************************************************)
EXTENDS Integers, Sequences

CONSTANTS Clients, maxSize, maxMultiPartSize, ReadBlock,        \* HttpRequest.tla
          Documents, Forests, MaxRepetitions,                   \* Template.tla
          Text, driver, NoConn, Scripts, Styles, PortMayBeTaken, Texts,  \* PortDriver.tla
          LastPid, MaxForks                                     \* ProcessTable.tla

VARIABLES scene,
          client, stream, sock, request, outcomes, taken, cuts,
          document, data, text, calls,
          app, tcpServer, wire, buffer, reader, display, script, saved, answers, history,
          attempt, cleanup, at, sent, asked, got, debt, results,
          procs, lastPid, forks, dir, processVec, procVec, stayed, struck

idle == "idle"
requestVars == <<client, stream, request, outcomes, taken, cuts>>
templateVars == <<document, data, text, calls>>
driverVars == <<app, tcpServer, wire, buffer, reader, display, script, saved, answers,
                history, attempt, cleanup, asked, got, debt, results>>
processVars == <<procs, lastPid, forks, dir, processVec, procVec, stayed, struck>>
vars == <<scene, sock, sent, at, requestVars, templateVars, driverVars,
          processVars>>

Request == INSTANCE HttpRequest WITH Block <- ReadBlock
Templates == INSTANCE Template

(* The driver is alone on the port.                                        *)
Driver == INSTANCE PortDriver WITH Conn <- {driver}, Lines <- {}, MaxLines <- 0
Processes == INSTANCE ProcessTable

(* A client sends requests, made of words, whatever they are; the limits   *)
(* are numbers.  The bodies of nodes are where templates look for them.    *)
(* A text has one line at least; the script has a number.                  *)
ASSUME ClientsAssumption ==
  /\ \A c \in Clients :
       c \in Seq(Request!ToSet(c)) /\ \A r \in Request!ToSet(c) : Request!IsRequest(r)
  /\ {maxSize, maxMultiPartSize} \subseteq Nat /\ ReadBlock \in Nat \ {0}
ASSUME ForestsAssumption ==
  /\ Documents \subseteq Forests
  /\ \A nodes \in Forests : \A k \in DOMAIN nodes :
       {nodes[k].body, nodes[k].other} \subseteq Forests
ASSUME TextsAssumption == driver # NoConn /\ Texts \subseteq Seq(Seq(Text)) \ {<<>>}
ASSUME PidAssumption == LastPid \in Nat /\ LastPid >= Processes!pid

-----------------------------------------------------------------------------
Init ==
  /\ scene \in {"request", "template", "driver", "processes"}
  /\ IF scene = "request" THEN Request!Init
     ELSE /\ client = idle /\ stream = idle /\ request = idle
          /\ outcomes = idle /\ taken = idle /\ cuts = idle
  /\ IF scene = "template" THEN Templates!Init
     ELSE document = idle /\ data = idle /\ text = idle /\ calls = idle
  /\ IF scene = "driver" THEN Driver!DriverInit
     ELSE /\ app = idle /\ tcpServer = idle /\ wire = idle /\ buffer = idle /\ reader = idle
          /\ display = idle /\ script = idle /\ saved = idle /\ answers = idle
          /\ history = idle /\ attempt = idle /\ cleanup = idle /\ asked = idle
          /\ got = idle /\ debt = idle /\ results = idle
  /\ IF scene = "processes" THEN Processes!Init
     ELSE /\ procs = idle /\ lastPid = idle /\ forks = idle /\ dir = idle
          /\ processVec = idle /\ procVec = idle /\ stayed = idle /\ struck = idle
  /\ scene \notin {"driver", "processes"} => at = idle
  /\ scene \notin {"request", "driver"} => sock = idle
  /\ scene # "driver" => sent = idle

Next ==
  /\ UNCHANGED scene
  /\ \/ /\ scene = "request" /\ Request!Next
        /\ UNCHANGED <<sent, at, templateVars, driverVars, processVars>>
     \/ /\ scene = "template" /\ Templates!Next
        /\ UNCHANGED <<sock, sent, at, requestVars, driverVars, processVars>>
     \/ /\ scene = "driver" /\ Driver!DriverNext
        /\ UNCHANGED <<requestVars, templateVars, processVars>>
     \/ /\ scene = "processes" /\ Processes!Next
        /\ UNCHANGED <<sock, sent, requestVars, templateVars, driverVars>>

Spec == Init /\ [][Next]_vars

(* However the network cuts a request, it is parsed as it was sent, and    *)
(* none is accepted that is beyond the limits (HttpRequest.tla).           *)
ParsedAsSent == scene = "request" => Request!ParsedAsSent /\ Request!AcceptedFits

(* A filled template is what it means for the values given (Template.tla). *)
TemplateRendersAsMeant == scene = "template" => Templates!TemplateRendersAsMeant

(* What a program is told through the driver is true, and the              *)
(* demonstration leaves the display as it should, Ctrl-C or not            *)
(* (PortDriver.tla).                                                       *)
DriverKnowsTheDisplay == scene = "driver" => Driver!DriverKnowsTheDisplay

(* A child that stays while /proc is read is found, and no stranger is     *)
(* struck (ProcessTable.tla).                                              *)
ChildIsFound == scene = "processes" => Processes!ChildIsFound
=============================================================================
