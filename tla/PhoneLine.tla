----------------------------- MODULE PhoneLine -----------------------------
(* What the core may expect of a provider: a call's line goes from ringing to  *)
(* answered and completed, or to unanswered, and the ledger learns of nothing  *)
(* that has not happened on that very line.  When it learns, in which order,   *)
(* and whether it ever does, is left open.                                     *)

CONSTANT Call

VARIABLES
  line,      \* call -> what the borrower's phone does
  reported   \* the <<call, event type>> pairs the ledger knows

phoneVars == <<line, reported>>

LineState == {"idle", "ringing", "answered", "completed", "unanswered"}

\* What has happened on a line that is in state s.
Happened(s) ==
  CASE s = "idle"       -> {}
    [] s = "ringing"    -> {"RINGING"}
    [] s = "answered"   -> {"RINGING", "ANSWERED"}
    [] s = "completed"  -> {"RINGING", "ANSWERED", "COMPLETED"}
    [] s = "unanswered" -> {"RINGING", "FAILED"}

PhoneInit ==
  /\ line = [c \in Call |-> "idle"]
  /\ reported = {}

Turn(c, from, to) ==
  /\ line[c] = from
  /\ line' = [line EXCEPT ![c] = to]
  /\ UNCHANGED reported

Report(c, type) ==
  /\ type \in Happened(line[c])
  /\ reported' = reported \cup {<<c, type>>}
  /\ UNCHANGED line

PhoneNext ==
  \E c \in Call :
    \/ Turn(c, "idle", "ringing")
    \/ Turn(c, "ringing", "answered")
    \/ Turn(c, "ringing", "unanswered")
    \/ Turn(c, "answered", "completed")
    \/ \E type \in Happened(line[c]) : Report(c, type)

PhoneSpec == PhoneInit /\ [][PhoneNext]_phoneVars
=============================================================================
