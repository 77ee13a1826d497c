--------------------------- MODULE MCSpeechSession --------------------------
(***************************************************************************)
(* A response of two phrases, of which the second is a cached clip, and   *)
(* one other session on the lane.                                         *)
(***************************************************************************)
EXTENDS SpeechSession

CONSTANTS first, second

MCJobs       == {first, second}
MCResponses  == {"r"}
MCResponseOf == [j \in MCJobs |-> "r"]
MCSequenceOf == [j \in MCJobs |-> IF j = first THEN 0 ELSE 1]
MCFrames     == MCJobs \X (1 .. MaxFrames)

\* A bound for TLC: the job of the other session may be cancelled while this one
\* wants the lane, not while it has a phrase to send.
CancelsMeetTheLane ==
  worker.at \in {"reserve", "sending", "draining"} => Others \cap cancelled = {}
=============================================================================
