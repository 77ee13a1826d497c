-------------------------- MODULE FinalBoundClaims --------------------------
(***************************************************************************)
(* The database side of a final-bound interruption: an objection found in *)
(* a finished utterance is ruled on, and an overruled one answered by the *)
(* witness, by the one server process that holds the claim                *)
(* (convex/finalBoundInterruptionClaims.ts and its callers).              *)
(*                                                                         *)
(* Time is relative: claim.left is the lease's expiry minus the database  *)
(* clock.  A server call reads the clock in its action and executes its   *)
(* transaction up to MaxAge later; left keeps counting that far below 0.  *)
(* A lease's generation and the hash of its random token name the claim   *)
(* call that took it, and a process takes at most one: both are `holder'. *)
(***************************************************************************)
EXTENDS Integers

CONSTANTS Drivers, None,
          Lease,    \* FINAL_BOUND_INTERRUPTION_LEASE_DURATION_MS
          MaxAge    \* how old a call's clock reading can be

ASSUME LeaseAssumption ==
  /\ Lease \in Nat \ {0}
  /\ MaxAge \in Nat
  /\ MaxAge < Lease
  /\ None \notin Drivers \cup {"sustained", "overruled"}

VARIABLES
  target,   \* the objection and the response it interrupted
  claim,    \* the row of finalBoundInterruptionClaims
  call,     \* the server calls under way or answered
  awaited   \* the calls whose caller is still there to take the answer

claimVars == <<target, claim, call, awaited>>

Rulings == {"sustained", "overruled"}
Ops     == {"claim", "renew", "ruling", "witness", "release"}
Commits == {"ruling", "witness"}
Replies == {"claimed", "wait", "renewed", "committed", "outcome"}

NoCall == [step |-> "none", age |-> 0, left |-> 0, body |-> None]

TargetPhase ==
  CASE target.ruling = None                              -> "ruling_pending"
    [] target.ruling = "overruled" /\ ~target.answered   -> "witness_pending"
    [] OTHER                                             -> "complete"

Complete == TargetPhase = "complete"

ClaimInit ==
  /\ target = [ruling |-> None, answered |-> FALSE]
  /\ claim = [status |-> "none", holder |-> None, left |-> 0]
  /\ call = [d \in Drivers |-> [op \in Ops |-> NoCall]]
  /\ awaited = {}

-----------------------------------------------------------------------------
At(d, op, step) == call[d][op].step = step

Calls(d, op, body) ==
  /\ call' = [call EXCEPT ![d][op] = [NoCall EXCEPT !.step = "sent", !.body = body]]
  /\ awaited' = awaited \cup {<<d, op>>}

\* The action goes on; before a transaction it reads the clock.
Goes(d, op, step) == call' = [call EXCEPT ![d][op].step = step, ![d][op].age = 0]

\* An answer to nobody is lost.
Answers(d, op, step, left) ==
  call' = [call EXCEPT ![d][op] =
    IF <<d, op>> \in awaited
      THEN [NoCall EXCEPT !.step = step, !.left = left, !.body = call[d][op].body]
      ELSE NoCall]

\* A refusal is an error the caller does not tell from a lost answer.
Refuses(d, op) == call' = [call EXCEPT ![d][op] = NoCall]

\* leaseExpiresAt > now, for a `now' read age ago.
Unexpired(age) == claim.left + age > 0

Held(d, op) ==
  /\ claim.status = "active"
  /\ claim.holder = d
  /\ Unexpired(call[d][op].age)

Granted(age) == Lease - age

\* The claim action first recovers the interruption as it stands.
ReadTarget(d) ==
  /\ At(d, "claim", "sent")
  /\ IF Complete
       THEN Answers(d, "claim", "outcome", 0)
       ELSE call' = [call EXCEPT ![d]["claim"].step = "stamped",
                                 ![d]["claim"].body = TargetPhase]
  /\ UNCHANGED <<target, claim, awaited>>

Claim(d) ==
  LET left == Granted(call[d]["claim"].age)
  IN
  /\ At(d, "claim", "stamped")
  /\ IF Complete
       THEN Answers(d, "claim", "outcome", 0) /\ UNCHANGED claim
     ELSE IF claim.status = "active" /\ Unexpired(call[d]["claim"].age)
       THEN Answers(d, "claim", "wait", 0) /\ UNCHANGED claim
       ELSE /\ claim' = [status |-> "active", holder |-> d, left |-> left]
            /\ Answers(d, "claim", "claimed", left)
  /\ UNCHANGED <<target, awaited>>

Renew(d) ==
  LET left == Granted(call[d]["renew"].age)
  IN
  /\ At(d, "renew", "stamped")
  /\ IF Complete
       THEN Answers(d, "renew", "outcome", 0) /\ UNCHANGED claim
     ELSE IF Held(d, "renew")
       THEN /\ claim' = [claim EXCEPT !.left = left]
            /\ Answers(d, "renew", "renewed", left)
       ELSE Refuses(d, "renew") /\ UNCHANGED claim
  /\ UNCHANGED <<target, awaited>>

\* A release or an authorization with an older clock reading would only be
\* granted what an earlier one is, so these read it in their transaction.
\* A releasing driver has decided by now and takes no answer but an outcome.
Release(d) ==
  /\ At(d, "release", "sent")
  /\ claim' = IF ~Complete /\ Held(d, "release")
                THEN [claim EXCEPT !.status = "released", !.left = 0] ELSE claim
  /\ Refuses(d, "release")
  /\ UNCHANGED <<target, awaited>>

\* A renewal, or an append that has been authorized, reads the clock.
Stamp(d, op) ==
  /\ \/ op = "renew" /\ At(d, op, "sent") /\ Goes(d, op, "stamped")
     \/ op \in Commits /\ At(d, op, "authorized") /\ Goes(d, op, "rechecking")
  /\ UNCHANGED <<target, claim, awaited>>

-----------------------------------------------------------------------------
(***************************************************************************)
(* A commit authorizes itself in one transaction and appends the model's  *)
(* output in a second one, which checks the lease again; whatever came of *)
(* that, the action then recovers the interruption and answers from it.   *)
(***************************************************************************)
PhaseOf(op) == IF op = "ruling" THEN "ruling_pending" ELSE "witness_pending"

\* What the recovery that ends a commit answers, given the target it finds.
Recovers(d, op) ==
  CASE Complete'                               -> Answers(d, op, "outcome", 0)
    [] ~Complete' /\ op = "ruling" /\ target'.ruling # None
                                               -> Answers(d, op, "committed", 0)
    [] OTHER                                   -> Refuses(d, op)

Authorize(d, op) ==
  /\ op \in Commits
  /\ At(d, op, "sent")
  /\ UNCHANGED <<target, claim, awaited>>
  /\ IF Complete THEN Recovers(d, op)
     ELSE IF Held(d, op) /\ TargetPhase = PhaseOf(op) THEN Goes(d, op, "authorized")
     ELSE Refuses(d, op)

\* Mutant: the authorization a moment ago is good enough.
MayAppend_Authorized(d, op) == TargetPhase = PhaseOf(op)

MayAppend(d, op) == Held(d, op) /\ TargetPhase = PhaseOf(op)

Append(d, op) ==
  /\ op \in Commits
  /\ At(d, op, "rechecking")
  /\ target' = IF ~MayAppend(d, op) THEN target
               ELSE IF op = "ruling" THEN [target EXCEPT !.ruling = call[d][op].body]
               ELSE [target EXCEPT !.answered = TRUE]
  /\ Recovers(d, op)
  /\ UNCHANGED <<claim, awaited>>

Serves(d) ==
  \/ ReadTarget(d)
  \/ Claim(d)
  \/ Renew(d)
  \/ Release(d)
  \/ \E op \in Ops : Stamp(d, op) \/ Authorize(d, op) \/ Append(d, op)

-----------------------------------------------------------------------------
Stamped(d, op) == call[d][op].step \in {"stamped", "rechecking"}

\* A server action dies between the clock and the transaction.  (One that
\* dies earlier is one that gets no further.)
Dies(d, op) ==
  /\ Stamped(d, op)
  /\ Refuses(d, op)
  /\ UNCHANGED <<target, claim, awaited>>

MayAge == \A d \in Drivers, op \in Ops : Stamped(d, op) => call[d][op].age < MaxAge

ClaimAges ==
  /\ MayAge
  /\ claim' = [claim EXCEPT !.left =
       IF claim.status = "active" /\ @ > -MaxAge THEN @ - 1 ELSE @]
  /\ call' = [d \in Drivers |-> [op \in Ops |->
       [call[d][op] EXCEPT !.age  = IF Stamped(d, op) THEN @ + 1 ELSE @,
                           !.left = IF @ > 0 THEN @ - 1 ELSE 0]]]
  /\ UNCHANGED <<target, awaited>>

CallRecords ==
  [step: {"none", "sent", "stamped", "authorized", "rechecking"} \cup Replies,
   age: 0 .. MaxAge,
   left: 0 .. Lease,
   body: Rulings \cup {None, "ruling_pending", "witness_pending"}]

ClaimTypeOK ==
  /\ target \in [ruling: Rulings \cup {None}, answered: BOOLEAN]
  /\ target.answered => target.ruling = "overruled"
  /\ claim \in [status: {"none", "active", "released"},
                holder: Drivers \cup {None}, left: -MaxAge .. Lease]
  /\ call \in [Drivers -> [Ops -> CallRecords]]
  /\ awaited \subseteq Drivers \X Ops
=============================================================================
