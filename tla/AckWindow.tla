----------------------------- MODULE AckWindow ------------------------------
(***************************************************************************)
(* The credit a session has for audio the browser has not consumed        *)
(* (suits_speech/audio_queue.py, TtsAckWindow).  As with the queue, each  *)
(* method is a function from the window before to the window after.  All  *)
(* frames are taken to be of one length, which is the unit of credit.     *)
(***************************************************************************)
EXTENDS Naturals, FiniteSets

CONSTANTS Frames,
          WindowSize   \* max_outstanding_bytes

ASSUME WindowAssumption == WindowSize \in Nat \ {0}

FrameStates == {"none", "reserved", "delivering", "early", "sent"}

EmptyWindow == [frame |-> [f \in Frames |-> "none"], outstanding |-> 0]

Reserved(w) == {f \in Frames : w.frame[f] # "none"}

HasCredit(w) == w.outstanding + 1 <= WindowSize

Reserve(w, f) ==
  [w EXCEPT !.frame[f] = "reserved", !.outstanding = @ + 1]

Returned(w, f) == [w EXCEPT !.frame[f] = "none", !.outstanding = @ - 1]

MarkDelivering(w, f) == [w EXCEPT !.frame[f] = "delivering"]

\* The browser may have confirmed the frame before the send returned.
MarkSent(w, f) ==
  IF w.frame[f] = "early" THEN Returned(w, f) ELSE [w EXCEPT !.frame[f] = "sent"]

Acknowledge(w, f) ==
  CASE w.frame[f] \in {"delivering", "early"} -> [w EXCEPT !.frame[f] = "early"]
    [] w.frame[f] = "sent"                    -> Returned(w, f)
    [] OTHER                                  -> w    \* a stale one

\* cancel_job, for all frames of a job
ReturnAll(w, frames) ==
  [frame |-> [f \in Frames |-> IF f \in frames THEN "none" ELSE w.frame[f]],
   outstanding |-> w.outstanding - Cardinality(frames \cap Reserved(w))]

WindowTypeOK(w) ==
  /\ w.frame \in [Frames -> FrameStates]
  /\ w.outstanding \in 0 .. WindowSize
=============================================================================
