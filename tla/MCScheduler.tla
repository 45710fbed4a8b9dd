---------------------------- MODULE MCScheduler ----------------------------
(* Days of two minutes of two seconds, from Saturday to Monday.            *)
EXTENDS Scheduler

CONSTANTS c1, c2, c3

Ev(c, dow, times) == [command |-> c, dow |-> dow, times |-> times]
Weekend == <<{0, 6}>>
Sunday  == <<{0}>>

(* Times on both sides of midnight, a conflict with the first and not the  *)
(* last of two events, events that never fire, and an invalid time.        *)
SmallDocuments == {
  <<Ev(c1, Weekend, <<0>>), Ev(c2, <<{1}, {0}>>, <<1>>), Ev(c3, Sunday, <<0>>)>>,
  <<Ev(c2, <<BadDow, {6}>>, <<1, NoTime>>), Ev(c1, Weekend, <<NoTime, 0>>)>> }
=============================================================================
