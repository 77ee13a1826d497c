-------------------------- MODULE MCHearingRuntime --------------------------
(* Instances of HearingRuntime: the records a hearing may be opened at.    *)
EXTENDS HearingRuntime

Underway == [NoCourt EXCEPT !.phase = "case_in_chief", !.testimony = TRUE]

\* The witness was heard and may be called again.
Heard == [Underway EXCEPT !.released = TRUE]

\* The player has had one answer.
OnDirect == [Underway EXCEPT !.stage = "direct", !.begun = TRUE,
                             !.answered = TRUE]

\* Opposing counsel has just planned a first move.
OnCross == [Underway EXCEPT !.stage = "cross", !.planned = TRUE]

\* Opposing counsel has asked and the witness is about to answer.
Questioned == [OnCross EXCEPT !.asker = "opposing", !.begun = TRUE,
                              !.planned = FALSE, !.reply = "pending",
                              !.current = TRUE]

\* The player has closed and opposing counsel has planned a closing; an offer
\* of theirs is still open.
Argued == [Heard EXCEPT !.phase = "closing", !.rested = Sides,
                        !.closings = {"user"}, !.planned = TRUE,
                        !.offer = "opposing"]

MCCourts == {NoCourt, Heard, OnDirect, OnCross, Questioned, Argued}

MCIntents == {"start", "call", "ask", "finish", "object", "continue", "propose",
              "counter", "accept", "reject", "withdraw", "finish_trial"}

(***************************************************************************)
(* Bounds for TLC: a log of five commits, and a request that has used up   *)
(* its generations has the hearing to itself.                              *)
(***************************************************************************)
TwoRequests ==
  /\ Len(log) <= 5
  /\ \A r, o \in Runs : r # o /\ Busy(r) /\ runs[r].left = 0 => ~Busy(o)
=============================================================================
