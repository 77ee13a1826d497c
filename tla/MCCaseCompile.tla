--------------------------- MODULE MCCaseCompile ----------------------------
(***************************************************************************)
(* Two requests for one packet.  A lease lasts two ticks of the minutes,  *)
(* the quota's window three; the grace of stored objects lasts two days,  *)
(* and a sweep takes one object a page.                                   *)
(***************************************************************************)
EXTENDS CaseCompile

CONSTANTS d1, d2, r1, r2

\* Two generations, and two calls in the wire at a time.
FewCalls == claim.gen <= 2 /\ Cardinality(wire) <= 2

\* The nights matter once the packet has a claim; a sweep is done with
\* before the next request comes.
NightsAreQuiet ==
  /\ cronDue => claim.status # "none"
  /\ pages # {} \/ cronDue => wire = {} /\ \A d \in Drivers : driver[d].at \in {"idle", "done"}

\* What goes wrong with abandoned calls and take-overs does so on the first
\* day; later days bring retries and the ways they fail.
LaterDaysAreCalm ==
  claim.age > 0 => attempts \in {<<>>, <<0>>} /\ \A call \in wire : Awaited(call)

\* After a take-over each request has one call in the wire, and a call that was
\* abandoned is one that writes.
CallsAfterTakeOver ==
  claim.gen = 2 =>
    /\ \A a, b \in wire : a.by = b.by => a = b
    /\ \A call \in wire : Awaited(call) \/ call.kind \in {"upload", "register", "release"}

\* Requests are interchangeable, and so are the uses of a review.
SameFirst == (claim.gen = 1 => claim.token # d2) /\ draft.review # r2

IntakeScope ==
  FewCalls /\ NightsAreQuiet /\ LaterDaysAreCalm /\ CallsAfterTakeOver /\ SameFirst
=============================================================================
