-------------------------- MODULE MCEventDrain ----------------------------
(* A small instance of EventDrain for TLC.                                     *)
EXTENDS EventDrain

CONSTANT c1

Of(type, n) == [call |-> c1, type |-> type, copy |-> n]
Ringing == Of("RINGING", 1)
Completed == Of("COMPLETED", 1)
Poison == Of("IN-PROGRESS", 1)
Again == Of("COMPLETED", 2)

\* A call rings and ends in one batch; the next one has an event of a type the
\* core does not know, and the end once more.
MCEvent == {Ringing, Completed, Poison, Again}
MCBacklogs ==
  {[e \in MCEvent |-> CASE e = Ringing -> 1 [] e = Completed -> 2 [] e = Poison -> 3 [] e = Again -> 4]}
=============================================================================
