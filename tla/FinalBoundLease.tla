-------------------------- MODULE FinalBoundLease ---------------------------
(***************************************************************************)
(* The server processes that drive one final-bound interruption           *)
(* (server/hearing-api/final-bound-interruption.ts).  Each request, from  *)
(* a browser tab or a retry, is one driver: it claims the interruption,   *)
(* renews its lease while the models work, commits what they produced,    *)
(* and releases the claim.                                                *)
(*                                                                         *)
(* A driver's clock is ahead of or behind the database's by up to Skew    *)
(* for as long as the request lasts.  Its timers fire on time; its calls  *)
(* take any time, fail at any time, and go on after it has hung up.       *)
(***************************************************************************)
EXTENDS FinalBoundClaims

CONSTANTS Skew,        \* FINAL_BOUND_INTERRUPTION_LEASE_CLOCK_SKEW_MS
          Lead,        \* CLAIM_RENEWAL_LEAD_MS
          Buffer,      \* CLAIM_RENEWAL_EXPIRY_BUFFER_MS
          ClaimBudget, \* CLAIM_WAIT_TIMEOUT_MS
          RetryAfter   \* retryAfterMs of a "wait" answer

ASSUME DriverAssumption ==
  /\ Skew \in Nat
  /\ {Lead, Buffer, ClaimBudget, RetryAfter} \subseteq Nat \ {0}

VARIABLES
  driver,   \* one request each
  offset    \* database clock minus driver clock

vars == <<claimVars, driver, offset>>

NoDriver ==
  [at |-> "idle", budget |-> 0, retry |-> 0, view |-> 0, guard |-> "off",
   ready |-> FALSE, work |-> "none", seen |-> None]

DriverInit ==
  /\ driver = [d \in Drivers |-> NoDriver]
  /\ offset \in [Drivers -> -Skew .. Skew]

Init == ClaimInit /\ DriverInit

Becomes(d, state) == driver' = [driver EXCEPT ![d] = state]

\* The driver stops listening to these of its calls.
HangsUp(d, ops) ==
  /\ call' = [call EXCEPT ![d] = [op \in Ops |->
       IF op \in ops /\ @[op].step \in Replies THEN NoCall ELSE @[op]]]
  /\ awaited' = awaited \ ({d} \X ops)

\* Mutant: the expiry is taken at face value.
EffectiveLeft_Naive(view) == view
EffectiveLeft(view)       == view - Skew

\* The request ends: answered, failed or crashed.
Ends(d) ==
  /\ Becomes(d, [NoDriver EXCEPT !.at = "ended"])
  /\ HangsUp(d, Ops)

\* The guard is stopped and the claim released; the request is over whether
\* or not that succeeds.
Releases(d) ==
  /\ Becomes(d, [NoDriver EXCEPT !.at = "ended"])
  /\ call' = [call EXCEPT ![d] = [op \in Ops |->
       IF op = "release" THEN [NoCall EXCEPT !.step = "sent"]
       ELSE IF @[op].step \in Replies THEN NoCall
       ELSE @[op]]]
  /\ awaited' = awaited \ ({d} \X Ops)

-----------------------------------------------------------------------------
(***************************************************************************)
(* claimFinalBoundInterruption: ask until the claim is granted, the       *)
(* interruption is over, or the deadline has passed.                      *)
(***************************************************************************)
\* Mutant: a request waits for as long as it takes.
BudgetLeft_Always(d) == TRUE
BudgetLeft(d)        == driver[d].budget > 0

RequestArrives(d) ==
  /\ driver[d].at = "idle"
  /\ Becomes(d, [NoDriver EXCEPT !.at = "claiming", !.budget = ClaimBudget])
  /\ Calls(d, "claim", None)
  /\ UNCHANGED <<target, claim, offset>>

ClaimTaken(d) ==
  LET answer == call[d]["claim"]
      view   == answer.left + offset[d]
  IN
  /\ driver[d].at = "claiming"
  /\ answer.step = "claimed"
  /\ BudgetLeft(d)
  /\ Becomes(d, [NoDriver EXCEPT !.at    = "holding",
                                 !.view  = view,
                                 !.guard = "timer",
                                 !.ready = EffectiveLeft(view) > Lead,
                                 !.work  = "starting",
                                 !.seen  = answer.body])
  /\ HangsUp(d, {"claim"})
  /\ UNCHANGED <<target, claim, offset>>

\* Granted past the deadline: released, and whether that works is ignored.
ClaimTakenLate(d) ==
  /\ driver[d].at = "claiming"
  /\ call[d]["claim"].step = "claimed"
  /\ ~BudgetLeft(d)
  /\ Releases(d)
  /\ UNCHANGED <<target, claim, offset>>

ClaimWaits(d) ==
  /\ driver[d].at = "claiming"
  /\ call[d]["claim"].step = "wait"
  /\ BudgetLeft(d)
  /\ driver' = [driver EXCEPT ![d].at = "waiting", ![d].retry = RetryAfter]
  /\ HangsUp(d, {"claim"})
  /\ UNCHANGED <<target, claim, offset>>

\* The call times out or is refused, finds an outcome, waits past the
\* deadline, or the client goes away.
ClaimEnds(d) ==
  /\ driver[d].at = "claiming"
  /\ Ends(d)
  /\ UNCHANGED <<target, claim, offset>>

RetriesClaim(d) ==
  /\ driver[d].at = "waiting"
  /\ driver[d].retry = 0
  /\ IF BudgetLeft(d)
       THEN /\ driver' = [driver EXCEPT ![d].at = "claiming"]
            /\ Calls(d, "claim", None)
       ELSE Ends(d)
  /\ UNCHANGED <<target, claim, offset>>

-----------------------------------------------------------------------------
(***************************************************************************)
(* startLeaseGuard: renew before the lease, seen with the skew taken off, *)
(* runs out; abort the work if that does not succeed in time.             *)
(***************************************************************************)
Guarding(d, guard) == driver[d].at = "holding" /\ driver[d].guard = guard

Aborts(d) ==
  /\ driver' = [driver EXCEPT ![d].guard = "off", ![d].work = "resuming"]
  /\ HangsUp(d, Ops)
  /\ UNCHANGED <<target, claim, offset>>

RenewalDue(d) == Guarding(d, "timer") /\ EffectiveLeft(driver[d].view) <= Lead

RenewalOverdue(d) ==
  /\ Guarding(d, "renewing")
  /\ EffectiveLeft(driver[d].view) <= Buffer

RenewsLease(d) ==
  /\ RenewalDue(d)
  /\ EffectiveLeft(driver[d].view) > Buffer
  /\ driver' = [driver EXCEPT ![d].guard = "renewing"]
  /\ Calls(d, "renew", None)
  /\ UNCHANGED <<target, claim, offset>>

RenewalTooLate(d) ==
  /\ RenewalDue(d)
  /\ EffectiveLeft(driver[d].view) <= Buffer
  /\ Aborts(d)

LeaseRenewed(d) ==
  LET view == call[d]["renew"].left + offset[d]
  IN
  /\ Guarding(d, "renewing")
  /\ At(d, "renew", "renewed")
  /\ view > driver[d].view
  /\ EffectiveLeft(view) > Buffer
  /\ driver' = [driver EXCEPT ![d].view = view, ![d].guard = "timer",
                              ![d].ready = TRUE]
  /\ HangsUp(d, {"renew"})
  /\ UNCHANGED <<target, claim, offset>>

\* A renewal times out, is refused, finds an outcome or comes too late.
RenewalEnds(d) == Guarding(d, "renewing") /\ Aborts(d)

ClientAborts(d) == Guarding(d, "timer") /\ Aborts(d)

-----------------------------------------------------------------------------
(***************************************************************************)
(* The models behind the fence: the ruling once, the witness once and     *)
(* only after this driver knows that the objection was overruled.         *)
(***************************************************************************)
Working(d, work) == driver[d].at = "holding" /\ driver[d].work = work

StartsWork(d) ==
  /\ Working(d, "starting")
  /\ driver[d].ready
  /\ driver' = [driver EXCEPT ![d].work =
       IF driver[d].seen = "ruling_pending" THEN "ruling" ELSE "witness"]
  /\ UNCHANGED <<claimVars, offset>>

JudgeRules(d, ruling) ==
  /\ Working(d, "ruling")
  /\ driver' = [driver EXCEPT ![d].work = "ruling_commit"]
  /\ Calls(d, "ruling", ruling)
  /\ UNCHANGED <<target, claim, offset>>

WitnessAnswers(d) ==
  /\ Working(d, "witness")
  /\ driver' = [driver EXCEPT ![d].work = "witness_commit"]
  /\ Calls(d, "witness", None)
  /\ UNCHANGED <<target, claim, offset>>

\* The durable ruling must be the proposed one, and leave work to do.
RulingCommitted(d) ==
  /\ Working(d, "ruling_commit")
  /\ At(d, "ruling", "committed")
  /\ target.ruling = call[d]["ruling"].body
  /\ driver' = [driver EXCEPT ![d].work = "witness"]
  /\ HangsUp(d, {"ruling"})
  /\ UNCHANGED <<target, claim, offset>>

\* A commit completes the interruption, or it or a model call fails, possibly
\* after it landed.
WorkEnds(d) ==
  /\ driver[d].at = "holding"
  /\ driver[d].work \in {"ruling", "witness", "ruling_commit", "witness_commit"}
  /\ driver' = [driver EXCEPT ![d].work = "resuming"]
  /\ HangsUp(d, Commits)
  /\ UNCHANGED <<target, claim, offset>>

\* How the interruption stands is read for the answer; the guard runs till then.
Resumes(d) ==
  /\ Working(d, "resuming")
  /\ Releases(d)
  /\ UNCHANGED <<target, claim, offset>>

Crashes(d) ==
  /\ driver[d].at \in {"waiting", "holding"}
  /\ Ends(d)
  /\ UNCHANGED <<target, claim, offset>>

-----------------------------------------------------------------------------
TimerDue(d) ==
  \/ driver[d].at = "claiming" /\ driver[d].budget = 0
  \/ driver[d].at = "waiting" /\ driver[d].retry = 0
  \/ RenewalDue(d)
  \/ RenewalOverdue(d)

Less(n) == IF n > 0 THEN n - 1 ELSE 0

Tick ==
  /\ \A d \in Drivers : ~TimerDue(d)
  /\ ClaimAges
  /\ driver' = [d \in Drivers |->
       [driver[d] EXCEPT !.budget = Less(@),
                         !.retry  = Less(@),
                         !.view   = IF driver[d].guard = "off" THEN 0 ELSE @ - 1]]
  /\ UNCHANGED offset

ClaimStep(d) ==
  \/ ClaimTaken(d)
  \/ ClaimTakenLate(d)
  \/ ClaimWaits(d)
  \/ RetriesClaim(d)

GuardStep(d) ==
  \/ RenewsLease(d)
  \/ RenewalTooLate(d)
  \/ LeaseRenewed(d)

WorkStep(d) ==
  \/ StartsWork(d)
  \/ \E ruling \in Rulings : JudgeRules(d, ruling)
  \/ WitnessAnswers(d)
  \/ RulingCommitted(d)
  \/ WorkEnds(d)
  \/ Resumes(d)

ServerStep(d) == Serves(d) /\ UNCHANGED <<driver, offset>>

CallDies(d) == (\E op \in Ops : Dies(d, op)) /\ UNCHANGED <<driver, offset>>

Next ==
  \/ Tick
  \/ \E d \in Drivers :
       \/ RequestArrives(d)
       \/ ClaimStep(d)
       \/ ClaimEnds(d)
       \/ GuardStep(d)
       \/ RenewalEnds(d)
       \/ ClientAborts(d)
       \/ WorkStep(d)
       \/ Crashes(d)
       \/ ServerStep(d)
       \/ CallDies(d)

(***************************************************************************)
(* Time passes, timers fire, answers that arrived are taken, and a server *)
(* action that has read the clock does not last.  Nothing is promised of  *)
(* requests, models, or the network.                                      *)
(***************************************************************************)
TimelyStep(d) ==
  \/ ClaimStep(d)
  \/ driver[d].budget = 0 /\ ClaimEnds(d)
  \/ GuardStep(d)
  \/ RenewalOverdue(d) /\ RenewalEnds(d)

Spec == Init /\ [][Next]_vars

FairSpec ==
  /\ Spec
  /\ WF_vars(Tick)
  /\ \A d \in Drivers : WF_vars(TimelyStep(d) \/ CallDies(d))

-----------------------------------------------------------------------------
DriverRecords ==
  [at: {"idle", "claiming", "waiting", "holding", "ended"},
   budget: 0 .. ClaimBudget, retry: 0 .. RetryAfter,
   view: -Skew .. Lease + Skew, guard: {"off", "timer", "renewing"},
   ready: BOOLEAN,
   work: {"none", "starting", "ruling", "ruling_commit", "witness",
          "witness_commit", "resuming"},
   seen: {None, "ruling_pending", "witness_pending"}]

LeaseTypeOK ==
  /\ ClaimTypeOK
  /\ driver \in [Drivers -> DriverRecords]
  /\ offset \in [Drivers -> -Skew .. Skew]

\* The driver's guard lets it call models and commit.
Owns(d) == driver[d].at = "holding" /\ driver[d].ready /\ driver[d].guard # "off"

(* Whoever may call a model holds the lease, by the database's clock and   *)
(* whatever the driver's clock says; so no two drivers ever call models    *)
(* for the same decision.                                                  *)
OwnerHoldsLease ==
  \A d \in Drivers : Owns(d) /\ ~Complete =>
    claim.status = "active" /\ claim.holder = d /\ claim.left > 0

(* Nothing is ruled or answered behind the back of the driver that owns    *)
(* the interruption: not by a driver that was cut off in the middle of a   *)
(* commit, however late that commit lands.                                 *)
OwnerIsUndisturbed ==
  [][\A d \in Drivers : Owns(d) /\ target' # target =>
       \E op \in Commits : At(d, op, "rechecking") /\ call'[d][op] # call[d][op]]_vars

(* A request never waits for a claim forever, even if the holder's model   *)
(* never answers and the holder goes on renewing.                          *)
WaitingEnds ==
  \A d \in Drivers :
    driver[d].at \in {"claiming", "waiting"}
      ~> driver[d].at \notin {"claiming", "waiting"}
=============================================================================
