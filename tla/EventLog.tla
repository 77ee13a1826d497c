------------------------------- MODULE EventLog -------------------------------
(***************************************************************************)
(* The event log of one hearing: the only door through which its record  *)
(* changes.  An action names itself, the version of the record it was     *)
(* made for, and what it does; the log keeps the receipt of every action  *)
(* it committed.  A receipt answers an exact repetition without doing     *)
(* anything, and refuses another action of the same name.                 *)
(*                                                                         *)
(* A turn of an AI participant (an action with what must follow it, in    *)
(* one transaction) is one entry: the version counts turns.               *)
(***************************************************************************)
EXTENDS CourtRecord, Sequences

VARIABLES
  log,    \* the committed actions, in order; the version is their number
  court   \* the record they fold to

logVars == <<log, court>>

Version == Len(log)

\* `call' is the model call that produced the action, 0 if no model did.
Action(id, expected, event, call) ==
  [id |-> id, expected |-> expected, event |-> event, call |-> call]

-----------------------------------------------------------------------------
(***************************************************************************)
(* The events: those of the player's commands, those the runtime adds by  *)
(* itself, those of the AI participants, and those of the holder of a     *)
(* final-bound interruption.                                              *)
(***************************************************************************)
PlayerAccepts(c, event) ==
  CASE event = "create"           -> c.phase = "none"
    [] event = "opening"          -> MayBegin(c, "opening")
    [] event = "case_in_chief"    -> MayBegin(c, "case_in_chief")
    [] event = "call"             -> MayCall(c, FALSE)
    [] event = "recall"           -> MayCall(c, TRUE)
    [] event = "swear"            -> MaySwear(c)
    [] event = "ask"              -> MayAsk(c, "user")
    [] event = "rephrase"         -> MayRephrase(c)
    [] event = "request"          -> MayRequest(c)
    [] event = "complete_leg"     -> MayEnd(c, "user", "completed")
    [] event = "waive_leg"        -> MayEnd(c, "user", "waived")
    [] event = "object"           -> MayObject(c, "user")
    [] event = "interrupt"        -> MayInterrupt(c)
    [] event = "propose"          -> MayOffer(c)
    [] event = "counter"          -> MayCounter(c, "user")
    [] event \in {"accept", "reject"} -> MayAnswerOffer(c, "user")
    [] event = "withdraw"         -> MayAnswerOffer(c, "opposing")
    [] event = "rest_player"      -> MayRest(c, "user")
    [] event = "rest_opponent"    -> MayRest(c, "opposing")
    [] event = "pre_closing"      -> MayBegin(c, "pre_closing")
    [] event = "closing"          -> MayBegin(c, "closing")
    [] event = "close_player"     -> MayClose(c, "user")

PlayerAfter(c, event) ==
  CASE event = "create"            -> Begun(c, "pretrial")
    [] event = "opening"           -> Begun(c, "opening")
    [] event = "case_in_chief"     -> Begun(c, "case_in_chief")
    [] event \in {"call", "recall"} -> Called(c)
    [] event = "swear"             -> Sworn(c)
    [] event = "ask"               -> Asked(c, "user")
    [] event = "rephrase"          -> Rephrased(c)
    [] event = "request"           -> Requested(c)
    [] event = "complete_leg"      -> Ended(c, "completed")
    [] event = "waive_leg"         -> Ended(c, "waived")
    [] event = "object"            -> Objected(c)
    [] event = "interrupt"         -> Interrupted(c)
    [] event \in {"propose", "counter"} -> Offered(c, "user")
    [] event = "accept"            -> Accepted(c)
    [] event \in {"reject", "withdraw"} -> OfferClosed(c)
    [] event = "rest_player"       -> Rested(c, "user")
    [] event = "rest_opponent"     -> Rested(c, "opposing")
    [] event = "pre_closing"       -> Begun(c, "pre_closing")
    [] event = "closing"           -> Begun(c, "closing")
    [] event = "close_player"      -> Closed(c, "user")

RuntimeEvents == {"release", "instructions", "instruct", "deliberation"}

RuntimeAccepts(c, event) ==
  CASE event = "release"      -> MayRelease(c)
    [] event = "instructions" -> MayBegin(c, "jury_instructions")
    [] event = "instruct"     -> MayInstruct(c)
    [] event = "deliberation" -> MayBegin(c, "deliberation")

RuntimeAfter(c, event) ==
  CASE event = "release"      -> Released(c)
    [] event = "instructions" -> Begun(c, "jury_instructions")
    [] event = "instruct"     -> Instructed(c)
    [] event = "deliberation" -> Begun(c, "deliberation")

\* What each AI participant may answer.
Turns == [answer      |-> {"answer"},
          plan        |-> {"plan"},
          counsel     |-> {"question", "yield", "strike", "close_opponent"},
          judge       |-> {"grant_motion", "deny_motion"},
          ruling      |-> {"overrule", "sustain_rephrase", "sustain_cancel"},
          negotiation |-> {"ai_accept", "ai_reject", "ai_counter"},
          jury        |-> {"decide"},
          debrief     |-> {"debrief"}]

TurnEvents == UNION {Turns[t] : t \in DOMAIN Turns}

LegOutcome(c) == IF c.answered THEN "completed" ELSE "waived"

CounselAccepts(c, event) ==
  CASE event = "question"       -> MayAsk(c, "opposing")
    [] event = "yield"          -> MayEnd(c, "opposing", LegOutcome(c))
    [] event = "strike"         -> MayMove(c)
    [] event = "close_opponent" -> MayClose(c, "opposing")

\* A leg that ends the examination comes with the release of the witness.
Yielded(c) ==
  LET ended == Ended(c, LegOutcome(c))
  IN IF ended.stage = "ready_for_release" THEN Released(ended) ELSE ended

\* A question comes with the request for its answer.
CounselAfter(c, event) ==
  CASE event = "question"       -> Requested(Asked(c, "opposing"))
    [] event = "yield"          -> Yielded(c)
    [] event = "strike"         -> Moved(c)
    [] event = "close_opponent" -> Closed(c, "opposing")

\* An answer to an offer may come late, an offer of one's own may not.
NegotiationAccepts(c, event) ==
  IF event = "ai_counter" THEN MayCounter(c, "opposing")
                          ELSE MayAnswerOffer(c, "opposing")

JudgeAfter(c, event) == MotionRuled(c, event = "grant_motion")

\* A ruling comes with what it does to the interruption and the response.
RulingAfter(c, event) ==
  CASE event = "overrule"         -> Overruled(c)
    [] event = "sustain_rephrase" -> Sustained(c, "rephrase")
    [] event = "sustain_cancel"   -> Sustained(c, "cancel_response")

NegotiationAfter(c, event) ==
  CASE event = "ai_accept"  -> Accepted(c)
    [] event = "ai_reject"  -> OfferClosed(c)
    [] event = "ai_counter" -> Offered(c, "opposing")

\* The transaction of a ruling wants the interruption at the head, and looks the
\* question up among those that were asked: it finds none that was rephrased.
RulingAccepts(c) == MayRule(c) /\ c.interruption = "active" /\ ~c.reworded

TurnAccepts(c, event) ==
  CASE event = "answer"            -> MayAnswer(c)
    [] event = "plan"              -> MayPlan(c)
    [] event \in Turns.counsel     -> CounselAccepts(c, event)
    [] event \in Turns.judge       -> MayRuleOnMotion(c)
    [] event \in Turns.ruling      -> RulingAccepts(c)
    [] event \in Turns.negotiation -> NegotiationAccepts(c, event)
    [] event = "decide"            -> MayDeliberate(c)
    [] event = "debrief"           -> MayDebrief(c)

TurnAfter(c, event) ==
  CASE event = "answer"            -> Answered(c)
    [] event = "plan"              -> Planned(c)
    [] event \in Turns.counsel     -> CounselAfter(c, event)
    [] event \in Turns.judge       -> JudgeAfter(c, event)
    [] event \in Turns.ruling      -> RulingAfter(c, event)
    [] event \in Turns.negotiation -> NegotiationAfter(c, event)
    [] event = "decide"            -> Decided(c)
    [] event = "debrief"           -> Debriefed(c)

\* The player's question, opposing counsel's objection to it and the
\* interruption, which only the final-bound boundary commits.
MayChallenge(c) == MayAsk(c, "user") /\ ~InterruptionOpen(c)
Challenged(c)   ==
  LET put == IF c.rephrase THEN Rephrased(c) ELSE Asked(c, "user")
  IN Interrupted(Objected(Requested(put)))

\* A response that opposing counsel interrupted is ruled on and answered
\* only by the holder of that interruption's claim.
NeedsClaim(c) == c.asker = "user" /\ (c.objected \/ c.reply \in {"held", "resumed"})

Accepts(c, event) ==
  IF event = "challenge" THEN MayChallenge(c)
  ELSE IF event \in TurnEvents THEN TurnAccepts(c, event)
  ELSE IF event \in RuntimeEvents THEN RuntimeAccepts(c, event)
  ELSE PlayerAccepts(c, event)

After(c, event) ==
  IF event = "challenge" THEN Challenged(c)
  ELSE IF event \in TurnEvents THEN TurnAfter(c, event)
  ELSE IF event \in RuntimeEvents THEN RuntimeAfter(c, event)
  ELSE PlayerAfter(c, event)

-----------------------------------------------------------------------------
(***************************************************************************)
(* Appending.                                                              *)
(***************************************************************************)
Receipts(id) == {i \in 1..Len(log) : log[i].id = id}
Known(id)    == Receipts(id) # {}

\* Mutant: the receipt answers whatever bears its name.
Verdict_AnyCall(a) ==
  IF Known(a.id) THEN "replayed"
  ELSE IF a.expected # Version THEN "stale"
  ELSE IF ~Accepts(court, a.event) THEN "refused" ELSE "committed"

\* Receipts come before the version: a repetition may be late.
Verdict(a) ==
  IF Known(a.id)
    THEN IF \E i \in Receipts(a.id) : log[i] = a THEN "replayed" ELSE "conflict"
  ELSE IF a.expected # Version THEN "stale"
  ELSE IF ~Accepts(court, a.event) THEN "refused" ELSE "committed"

Enter(a) ==
  /\ log' = Append(log, a)
  /\ court' = After(court, a.event)

\* The transaction of one action.
Submit(a) ==
  IF Verdict(a) = "committed" THEN Enter(a) ELSE UNCHANGED logVars
=============================================================================
