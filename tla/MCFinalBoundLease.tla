------------------------- MODULE MCFinalBoundLease --------------------------
(***************************************************************************)
(* Two requests race for one interruption.                                *)
(***************************************************************************)
EXTENDS FinalBoundLease, FiniteSets

CONSTANT Behind   \* the driver whose clock is behind the database's

\* One clock is as far behind the database's as allowed, the other ahead.
ExtremeOffsets ==
  \A d \in Drivers : offset[d] = IF d = Behind THEN Skew ELSE -Skew

\* Of the calls under way, at most two were given up by their request.
FewCalls ==
  Cardinality({<<d, op>> \in Drivers \X Ops : call[d][op].step # "none"} \ awaited) <= 2

TwoRequests == ExtremeOffsets /\ FewCalls
=============================================================================
