----------------------------- MODULE CourtRecord -----------------------------
(***************************************************************************)
(* What the hearing runtime reads of a trial: the state that the trial    *)
(* engine folds from the event log, cut down to the one witness the       *)
(* player examines and to the facts the runtime decides by.  TrialEngine  *)
(* models the engine in full; here each event has the guard under which   *)
(* the engine accepts it (Accepts) and the record it leaves (After).      *)
(*                                                                         *)
(* The player is the user's counsel, who calls every witness and owns the *)
(* direct and the redirect; opposing counsel is an AI and owns the cross  *)
(* and the recross.  Events that are always committed in one transaction  *)
(* (a question with the request for its answer, a ruling with what it     *)
(* resolves) are one event here, named for the turn.                      *)
(***************************************************************************)
EXTENDS Naturals

Nobody == "nobody"
Sides  == {"user", "opposing"}
Stages == {"empty", "awaiting_oath", "direct", "cross", "redirect", "recross",
           "ready_for_release"}
Phases == {"none", "pretrial", "opening", "case_in_chief", "pre_closing",
           "closing", "jury_instructions", "deliberation", "debrief", "complete"}

\* rephrase: a sustained objection left the last question to be rephrased;
\* reworded: the active question is such a rephrased one.
\* reply: the response to the active question.  `held' and `resumed' are a
\* response an interruption was begun on and one that was taken up again.
Replies == {"none", "pending", "held", "resumed"}

\* `stalled' is an active interruption that is no longer the head of the record.
Interruptions == {"none", "active", "stalled", "over"}

Court ==
  [phase : Phases, settled : BOOLEAN, stage : Stages, released : BOOLEAN,
   begun : BOOLEAN, answered : BOOLEAN, testimony : BOOLEAN,
   asker : Sides \cup {Nobody}, reply : Replies, current : BOOLEAN,
   objected : BOOLEAN, interruption : Interruptions,
   rephrase : BOOLEAN, reworded : BOOLEAN,
   offer : Sides \cup {Nobody}, planned : BOOLEAN,
   motion : {"none", "moved", "aged"}, rested : SUBSET Sides, closings : SUBSET Sides,
   instructed : BOOLEAN, debriefed : BOOLEAN]

NoCourt ==
  [phase |-> "none", settled |-> FALSE, stage |-> "empty", released |-> FALSE,
   begun |-> FALSE, answered |-> FALSE, testimony |-> FALSE,
   asker |-> Nobody, reply |-> "none", current |-> FALSE,
   objected |-> FALSE, interruption |-> "none", rephrase |-> FALSE,
   reworded |-> FALSE, offer |-> Nobody, planned |-> FALSE, motion |-> "none", rested |-> {},
   closings |-> {}, instructed |-> FALSE, debriefed |-> FALSE]

InSession(c) == ~c.settled /\ c.phase \notin {"none", "complete"}
InChief(c)   == InSession(c) /\ c.phase = "case_in_chief"
OwnerOf(stage) == IF stage \in {"direct", "redirect"} THEN "user"
                  ELSE IF stage \in {"cross", "recross"} THEN "opposing"
                  ELSE Nobody
Conducts(c, side) == OwnerOf(c.stage) = side
Awaited(c)        == c.reply # "none"

InterruptionOpen(c) == c.interruption \in {"active", "stalled"}

\* Every event leaves the previous head behind: a response, a plan, a motion and
\* an interruption that were bound to it are bound to it no more.
Noted(c) == [c EXCEPT !.current = FALSE, !.planned = FALSE,
                      !.motion = IF @ = "none" THEN "none" ELSE "aged",
                      !.interruption = IF @ = "active" THEN "stalled" ELSE @]

-----------------------------------------------------------------------------
(***************************************************************************)
(* The witness.                                                            *)
(***************************************************************************)
MayCall(c, again) ==
  /\ InChief(c)
  /\ c.stage = "empty"
  /\ "user" \notin c.rested
  /\ c.released <=> again

Called(c) == [Noted(c) EXCEPT !.stage = "awaiting_oath", !.released = FALSE]

MaySwear(c) == InSession(c) /\ c.stage = "awaiting_oath"
Sworn(c)    == [Noted(c) EXCEPT !.stage = "direct", !.begun = FALSE,
                                !.answered = FALSE]

MayAsk(c, side) == InChief(c) /\ Conducts(c, side) /\ c.asker = Nobody

Asked(c, side) ==
  [Noted(c) EXCEPT !.asker = side, !.begun = TRUE, !.rephrase = FALSE]

MayRephrase(c) == MayAsk(c, "user") /\ c.rephrase
Rephrased(c)   == [Asked(c, "user") EXCEPT !.reworded = TRUE]

MayRequest(c) == InSession(c) /\ c.asker # Nobody /\ ~Awaited(c)
Requested(c)  == [Noted(c) EXCEPT !.reply = "pending", !.current = TRUE]

MayEnd(c, side, disposition) ==
  /\ InSession(c)
  /\ Conducts(c, side)
  /\ c.asker = Nobody
  /\ c.answered <=> disposition = "completed"

NextLeg(stage, disposition) ==
  IF disposition = "waived" \/ stage = "recross" THEN "ready_for_release"
  ELSE IF stage = "direct" THEN "cross"
  ELSE IF stage = "cross" THEN "redirect" ELSE "recross"

Ended(c, disposition) ==
  [Noted(c) EXCEPT !.stage = NextLeg(c.stage, disposition), !.begun = FALSE,
                   !.answered = FALSE, !.rephrase = FALSE]

MayRelease(c) == InSession(c) /\ c.stage = "ready_for_release"
Released(c)   == [Noted(c) EXCEPT !.stage = "empty", !.released = TRUE]

-----------------------------------------------------------------------------
(***************************************************************************)
(* Answers, objections and interruptions.                                 *)
(***************************************************************************)
FloorIsOpen(c) == ~c.objected /\ ~InterruptionOpen(c)

MayAnswer(c) ==
  InSession(c) /\ c.asker # Nobody /\ Awaited(c) /\ c.current /\ FloorIsOpen(c)

Answered(c) ==
  [Noted(c) EXCEPT !.asker = Nobody, !.reply = "none", !.answered = TRUE,
                   !.testimony = TRUE, !.reworded = FALSE]

MayObject(c, side) ==
  InChief(c) /\ c.asker \in Sides \ {side} /\ Awaited(c) /\ ~c.objected

Objected(c) == [Noted(c) EXCEPT !.objected = TRUE]

MayInterrupt(c) ==
  InSession(c) /\ Awaited(c) /\ c.objected /\ ~InterruptionOpen(c)

Interrupted(c) == [Noted(c) EXCEPT !.interruption = "active", !.reply = "held"]

MayRule(c) == InChief(c) /\ c.objected /\ InterruptionOpen(c)

\* An overruled objection resumes the response at the new version, a
\* sustained one cancels it and closes the question.
Overruled(c) ==
  [Noted(c) EXCEPT !.objected = FALSE, !.interruption = "over",
                   !.reply = "resumed", !.current = TRUE]

Sustained(c, remedy) ==
  [Noted(c) EXCEPT !.objected = FALSE, !.interruption = "over",
                   !.reply = "none", !.asker = Nobody, !.reworded = FALSE,
                   !.rephrase = (remedy = "rephrase" /\ c.asker = "user")]

-----------------------------------------------------------------------------
(***************************************************************************)
(* Opposing counsel's plan, motions to strike and settlement offers.      *)
(***************************************************************************)
MayPlan(c) == InSession(c) /\ c.phase \in {"case_in_chief", "closing"}
Planned(c) == [Noted(c) EXCEPT !.planned = TRUE]

MayMove(c) == InChief(c) /\ c.testimony
Moved(c)   == [Noted(c) EXCEPT !.motion = "moved"]

MayRuleOnMotion(c) == InSession(c) /\ c.motion # "none"

\* Granting the motion strikes the testimony it names.
MotionRuled(c, granted) ==
  [Noted(c) EXCEPT !.motion = "none", !.testimony = @ /\ ~granted]

\* The policy of this hearing opens settlement in the case in chief and closes
\* it with the arguments.
SettlementIsOpen(c) == InSession(c) /\ c.phase \in {"case_in_chief", "pre_closing"}

MayOffer(c)          == SettlementIsOpen(c) /\ c.offer = Nobody
Offered(c, side)     == [Noted(c) EXCEPT !.offer = side]
MayAnswerOffer(c, side) == InSession(c) /\ c.offer \in Sides \ {side}
MayCounter(c, side)  == MayAnswerOffer(c, side) /\ SettlementIsOpen(c)
OfferClosed(c)       == [Noted(c) EXCEPT !.offer = Nobody]

\* An accepted offer closes whatever is still open and ends the trial.
Accepted(c) ==
  [Noted(c) EXCEPT !.offer = Nobody, !.settled = TRUE, !.phase = "debrief",
                   !.stage = "empty", !.asker = Nobody, !.reply = "none",
                   !.objected = FALSE, !.interruption = "none",
                   !.reworded = FALSE, !.motion = "none"]

-----------------------------------------------------------------------------
(***************************************************************************)
(* The calendar.                                                           *)
(***************************************************************************)
MayRest(c, side) ==
  InChief(c) /\ side \notin c.rested /\ c.stage = "empty" /\ c.motion = "none"
Rested(c, side) == [Noted(c) EXCEPT !.rested = @ \cup {side}]

MayBegin(c, phase) ==
  /\ InSession(c)
  /\ CASE phase = "opening"           -> c.phase = "pretrial"
       [] phase = "case_in_chief"     -> c.phase \in {"pretrial", "opening"}
       [] phase = "pre_closing"       -> /\ c.phase = "case_in_chief"
                                         /\ c.rested = Sides
                                         /\ c.stage = "empty"
                                         /\ c.motion = "none"
       [] phase = "closing"           -> c.phase = "pre_closing"
       [] phase = "jury_instructions" -> c.phase = "closing" /\ c.closings = Sides
       [] phase = "deliberation"      -> /\ c.phase = "jury_instructions"
                                         /\ c.instructed

Begun(c, phase) == [Noted(c) EXCEPT !.phase = phase]

MayClose(c, side) ==
  InSession(c) /\ c.phase = "closing" /\ side \notin c.closings
Closed(c, side) == [Noted(c) EXCEPT !.closings = @ \cup {side}]

MayInstruct(c) ==
  InSession(c) /\ c.phase = "jury_instructions" /\ ~c.instructed
Instructed(c) == [Noted(c) EXCEPT !.instructed = TRUE]

\* Deliberation, verdict and the phases after them are one turn.
MayDeliberate(c) == InSession(c) /\ c.phase = "deliberation"
Decided(c)       == [Noted(c) EXCEPT !.phase = "debrief"]

MayDebrief(c) == c.phase = "debrief" /\ ~c.debriefed
Debriefed(c)  == [Noted(c) EXCEPT !.debriefed = TRUE, !.phase = "complete"]
=============================================================================
