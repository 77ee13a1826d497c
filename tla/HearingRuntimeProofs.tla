------------------------ MODULE HearingRuntimeProofs ------------------------
(***************************************************************************)
(* What the hearing runtime keeps to, for any number of runs, commands,    *)
(* retries and reloads, and from any record a hearing may be opened at.    *)
(*                                                                         *)
(* RuntimeInv is proved first.  Its parts are: the record (every action    *)
(* was entered at its own head, and a command is on it from its first step *)
(* on), the motion (pending only at the head that moved it), the runs      *)
(* (what a run has still to append follows what is on record; what a model *)
(* is asked for was asked at a head that is not ahead of the log), the     *)
(* commands (two with one request are the same) and the page (its view is  *)
(* not ahead of the log).  From it follow three properties of the runs,    *)
(* and that the runtime implements the abstract ledger of commands.        *)
(***************************************************************************)
EXTENDS HearingRuntime, TLAPS, WellFoundedInduction

CourtFields ==
  {"phase", "settled", "stage", "asker", "motion", "objected", "interruption"}

Late(c) == c.phase \in {"jury_instructions", "deliberation", "debrief", "complete"}

LateEvents == {"instructions", "instruct", "deliberation"}

PlayerEvents ==
  {"create", "opening", "case_in_chief", "call", "recall", "swear", "ask",
   "rephrase", "request", "complete_leg", "waive_leg", "object", "interrupt",
   "rest_player", "rest_opponent", "pre_closing", "closing", "close_player"}
  \cup Offers

AllEvents == PlayerEvents \cup RuntimeEvents \cup TurnEvents \cup {"challenge"}

Fits(c) ==
  CourtFields \subseteq DOMAIN c /\ c.stage \in Stages /\ FloorFits(c)

\* What any event does.
Follows(c, after) ==
  /\ Fits(after)
  /\ after.phase # "none"
  /\ Late(c) => Late(after)

\* The events a model may answer with.
LEMMA TurnEventsAre ==
  TurnEvents = {"answer", "plan", "question", "yield", "strike", "close_opponent",
                "grant_motion", "deny_motion", "overrule", "sustain_rephrase",
                "sustain_cancel", "ai_accept", "ai_reject", "ai_counter",
                "decide", "debrief"}
  PROOF
<1> DEFINE T == DOMAIN Turns
<1>1. T = {"answer", "plan", "counsel", "judge", "ruling", "negotiation", "jury", "debrief"}
  BY DEF Turns
<1>2. TurnEvents = UNION {Turns[t] : t \in {"answer", "plan", "counsel", "judge", "ruling",
                                           "negotiation", "jury", "debrief"}}
  BY <1>1 DEF TurnEvents
<1>3. /\ Turns["answer"] = {"answer"} /\ Turns["plan"] = {"plan"} 
      /\ Turns["counsel"] = {"question", "yield", "strike", "close_opponent"}
      /\ Turns["judge"] = {"grant_motion", "deny_motion"}
      /\ Turns["ruling"] = {"overrule", "sustain_rephrase", "sustain_cancel"}
      /\ Turns["negotiation"] = {"ai_accept", "ai_reject", "ai_counter"}
      /\ Turns["jury"] = {"decide"} /\ Turns["debrief"] = {"debrief"}
  BY DEF Turns
<1> QED BY <1>2, <1>3

\* A question and what becomes of it leave the phase and the motion alone.
Stays(c, after) ==
  /\ Fits(after)
  /\ after.phase = c.phase
  /\ c.motion = "none" => after.motion = "none"

LEMMA QuestionStays ==
  ASSUME NEW c, Fits(c)
  PROVE  /\ \A side : InChief(c) /\ Conducts(c, side) => Stays(c, Asked(c, side))
         /\ Stays(c, Requested(c)) /\ Stays(c, Objected(c)) /\ Stays(c, Interrupted(c))
<1> USE DEF Fits, Stays, CourtFields, Noted
<1>1. ASSUME NEW side, InChief(c), Conducts(c, side)
      PROVE  Stays(c, Asked(c, side))
  <2> DEFINE d == Asked(c, side)
  <2>1. /\ CourtFields \subseteq DOMAIN d /\ d.stage = c.stage /\ d.phase = c.phase
        /\ d.settled = c.settled /\ d.asker = side
        /\ c.motion = "none" => d.motion = "none"
    BY DEF Asked
  <2> HIDE DEF d
  <2>2. FloorFits(d)
    BY <1>1, <2>1 DEF FloorFits, InChief, InSession, Conducts
  <2>3. Stays(c, d)
    BY <2>1, <2>2
  <2> HIDE DEF Stays
  <2> QED BY <2>3 DEF d
<1>2. ASSUME NEW d \in {Requested(c), Objected(c), Interrupted(c)}
      PROVE  Stays(c, d)
  <2>1. /\ CourtFields \subseteq DOMAIN d /\ d.stage = c.stage /\ d.phase = c.phase
        /\ d.settled = c.settled /\ d.asker = c.asker
        /\ c.motion = "none" => d.motion = "none"
    <3>1. CASE d = Requested(c)
      BY <3>1 DEF Requested
    <3>2. CASE d = Objected(c)
      BY <3>2 DEF Objected
    <3>3. CASE d = Interrupted(c)
      BY <3>3 DEF Interrupted
    <3> QED BY <1>2, <3>1, <3>2, <3>3
  <2> QED BY <2>1 DEF FloorFits, InChief, InSession, Conducts
<1> QED BY <1>1, <1>2

LEMMA RephrasedStays ==
  ASSUME NEW c, Fits(c), MayAsk(c, "user")
  PROVE  Stays(c, Rephrased(c))
<1> DEFINE d == Asked(c, "user")
<1>1. Stays(c, d)
  BY QuestionStays DEF MayAsk
<1> HIDE DEF d
<1>2. Rephrased(c) = [d EXCEPT !.reworded = TRUE]
  BY DEF Rephrased, d
<1> QED BY <1>1, <1>2 DEF Stays, Fits, CourtFields, FloorFits, InChief, InSession, Conducts

\* What a player does keeps the record well formed, and rules on no motion.
LEMMA PlayerStep ==
  ASSUME NEW c, Fits(c), NEW e \in PlayerEvents, PlayerAccepts(c, e)
  PROVE  /\ Follows(c, PlayerAfter(c, e))
         /\ c.motion = "none" => PlayerAfter(c, e).motion = "none"
<1> USE DEF Fits, Follows, Late, CourtFields, Stages, PlayerAccepts, PlayerAfter, Noted,
        FloorFits, InChief, InSession, Conducts, OwnerOf, Nobody, Sides
<1>1. CASE e \in {"create", "opening", "case_in_chief", "pre_closing", "closing"}
  <2>1. CASE e = "create"
    BY <2>1 DEF MayBegin, Begun
  <2>2. CASE e = "opening"
    BY <2>2 DEF MayBegin, Begun
  <2>3. CASE e = "case_in_chief"
    BY <2>3 DEF MayBegin, Begun
  <2>4. CASE e = "pre_closing"
    BY <2>4 DEF MayBegin, Begun
  <2>5. CASE e = "closing"
    BY <2>5 DEF MayBegin, Begun
  <2> QED BY <1>1, <2>1, <2>2, <2>3, <2>4, <2>5
<1>2. CASE e \in {"call", "recall", "swear"}
  <2>1. CASE e = "call"
    BY <2>1 DEF MayCall, Called
  <2>2. CASE e = "recall"
    BY <2>2 DEF MayCall, Called
  <2>3. CASE e = "swear"
    BY <2>3 DEF MaySwear, Sworn
  <2> QED BY <1>2, <2>1, <2>2, <2>3
<1>3. CASE e \in {"ask", "rephrase", "request"}
  <2>1. c.phase # "none" /\ Stays(c, PlayerAfter(c, e))
    <3> HIDE DEF Fits
    <3>1. CASE e = "ask"
      BY <3>1, QuestionStays DEF MayAsk
    <3>2. CASE e = "rephrase"
      BY <3>2, RephrasedStays DEF MayRephrase, MayAsk
    <3>3. CASE e = "request"
      BY <3>3, QuestionStays DEF MayRequest
    <3> QED BY <1>3, <3>1, <3>2, <3>3
  <2> QED BY <2>1 DEF Stays
<1>4. CASE e \in {"complete_leg", "waive_leg"}
  <2>1. CASE e = "complete_leg"
    BY <2>1 DEF MayEnd, Ended, NextLeg
  <2>2. CASE e = "waive_leg"
    BY <2>2 DEF MayEnd, Ended, NextLeg
  <2> QED BY <1>4, <2>1, <2>2
<1>5. CASE e \in {"object", "interrupt"}
  <2>1. CASE e = "object"
    BY <2>1 DEF MayObject, Objected
  <2>2. CASE e = "interrupt"
    BY <2>2 DEF MayInterrupt, Interrupted
  <2> QED BY <1>5, <2>1, <2>2
<1>6. CASE e \in {"rest_player", "rest_opponent", "close_player"}
  <2>1. CASE e \in {"rest_player", "rest_opponent"}
    BY <2>1 DEF MayRest, Rested
  <2>2. CASE e = "close_player"
    BY <2>2 DEF MayClose, Closed
  <2> QED BY <1>6, <2>1, <2>2
<1>7. CASE e \in Offers
  <2>1. CASE e = "accept"
    BY <2>1 DEF MayAnswerOffer, Accepted
  <2>2. CASE e \in {"propose", "counter"}
    BY <2>2 DEF MayOffer, MayCounter, MayAnswerOffer, SettlementIsOpen, Offered
  <2>3. CASE e \in {"reject", "withdraw"}
    BY <2>3 DEF MayAnswerOffer, OfferClosed
  <2> QED BY <1>7, <2>1, <2>2, <2>3 DEF Offers
<1> QED BY <1>1, <1>2, <1>3, <1>4, <1>5, <1>6, <1>7 DEF PlayerEvents

\* So does what the runtime does of itself.
LEMMA RuntimeStep ==
  ASSUME NEW c, Fits(c), NEW e \in RuntimeEvents, RuntimeAccepts(c, e)
  PROVE  /\ Follows(c, RuntimeAfter(c, e))
         /\ e \in LateEvents => Late(RuntimeAfter(c, e))
         /\ c.motion = "none" => RuntimeAfter(c, e).motion = "none"
BY DEF Fits, Follows, Late, LateEvents, CourtFields, Stages, RuntimeEvents, RuntimeAccepts,
       RuntimeAfter, Noted,
       FloorFits, InChief, InSession, Conducts, OwnerOf, Nobody, Sides, MayRelease,
       MayBegin, MayInstruct, Released, Begun, Instructed

\* And what is generated: only the judge answers a motion, only counsel makes one.
LEMMA TurnStep ==
  ASSUME NEW c, Fits(c), NEW e \in TurnEvents, TurnAccepts(c, e)
  PROVE  /\ Follows(c, TurnAfter(c, e))
         /\ c.motion = "none" /\ e # "strike" => TurnAfter(c, e).motion = "none"
         /\ e \in Turns.judge => TurnAfter(c, e).motion = "none"
         /\ e = "strike" => TurnAfter(c, e) = Moved(c)
<1> USE DEF Fits, Follows, Late, CourtFields, Stages, TurnAccepts, TurnAfter, Noted, Turns,
        FloorFits, InChief, InSession, Conducts, OwnerOf, Nobody, Sides
<1>1. CASE e \in {"answer", "plan"}
  BY <1>1 DEF MayAnswer, Answered, MayPlan, Planned
<1>2. CASE e \in {"question", "strike", "close_opponent"}
  <2>1. CASE e = "question"
    <3> DEFINE put == Asked(c, "opposing")
    <3>1. c.phase # "none" /\ InChief(c) /\ Conducts(c, "opposing")
      BY <2>1 DEF CounselAccepts, MayAsk
    <3>2. Stays(c, put)
      BY <3>1, QuestionStays
    <3> HIDE DEF put
    <3>3. Stays(put, Requested(put))
      BY <3>2, QuestionStays DEF Stays
    <3>4. TurnAfter(c, e) = Requested(put)
      BY <2>1 DEF CounselAfter, put
    <3> QED BY <2>1, <3>1, <3>2, <3>3, <3>4 DEF Stays
  <2>2. CASE e = "strike"
    BY <2>2 DEF CounselAccepts, CounselAfter, MayMove, Moved
  <2>3. CASE e = "close_opponent"
    BY <2>3 DEF CounselAccepts, CounselAfter, MayClose, Closed
  <2> QED BY <1>2, <2>1, <2>2, <2>3
<1>3. CASE e = "yield"
  <2> DEFINE d == Ended(c, LegOutcome(c))
  <2>1. TurnAfter(c, e) = IF d.stage = "ready_for_release" THEN Released(d) ELSE d
    BY <1>3 DEF CounselAfter, Yielded
  <2>2. c.asker = Nobody
    BY <1>3 DEF CounselAccepts, MayEnd
  <2>3. /\ CourtFields \subseteq DOMAIN d /\ d.stage \in Stages /\ d.asker = Nobody
        /\ d.phase = c.phase /\ (c.motion = "none" => d.motion = "none")
    BY <2>2 DEF Ended, NextLeg
  <2>4. c.phase # "none"
    BY <1>3 DEF CounselAccepts, MayEnd
  <2> HIDE DEF d
  <2>5. /\ CourtFields \subseteq DOMAIN Released(d) /\ Released(d).stage \in Stages
        /\ Released(d).asker = Nobody /\ Released(d).phase = d.phase
        /\ (d.motion = "none" => Released(d).motion = "none")
    BY <2>3 DEF Released
  <2>6. e \notin Turns.judge /\ e # "strike"
    BY <1>3
  <2> HIDE DEF TurnAfter
  <2> QED BY <2>1, <2>3, <2>4, <2>5, <2>6
<1>4. CASE e \in {"grant_motion", "deny_motion"}
  BY <1>4 DEF MayRuleOnMotion, JudgeAfter, MotionRuled
<1>5. CASE e \in {"overrule", "sustain_rephrase", "sustain_cancel"}
  <2>1. CASE e = "overrule"
    BY <2>1 DEF RulingAccepts, MayRule, RulingAfter, Overruled
  <2>2. CASE e = "sustain_rephrase"
    BY <2>2 DEF RulingAccepts, MayRule, RulingAfter, Sustained
  <2>3. CASE e = "sustain_cancel"
    BY <2>3 DEF RulingAccepts, MayRule, RulingAfter, Sustained
  <2> QED BY <1>5, <2>1, <2>2, <2>3
<1>6. CASE e \in {"ai_accept", "ai_reject", "ai_counter"}
  <2>1. CASE e = "ai_accept"
    BY <2>1 DEF NegotiationAccepts, NegotiationAfter, MayAnswerOffer, Accepted
  <2>2. CASE e = "ai_reject"
    BY <2>2 DEF NegotiationAccepts, NegotiationAfter, MayAnswerOffer, OfferClosed
  <2>3. CASE e = "ai_counter"
    BY <2>3 DEF NegotiationAccepts, NegotiationAfter, MayCounter, MayAnswerOffer, Offered, SettlementIsOpen
  <2> QED BY <1>6, <2>1, <2>2, <2>3
<1>7. CASE e \in {"decide", "debrief"}
  BY <1>7 DEF MayDeliberate, Decided, MayDebrief, Debriefed
<1> QED BY <1>1, <1>2, <1>3, <1>4, <1>5, <1>6, <1>7, TurnEventsAre

\* And what the holder of the interruption does.
LEMMA ChallengeStep ==
  ASSUME NEW c, Fits(c), MayChallenge(c)
  PROVE  /\ Follows(c, Challenged(c))
         /\ c.motion = "none" => Challenged(c).motion = "none"
<1> DEFINE put       == IF c.rephrase THEN Rephrased(c) ELSE Asked(c, "user")
           requested == Requested(put)
           objected  == Objected(requested)
<1>1. MayAsk(c, "user") /\ InChief(c) /\ Conducts(c, "user") /\ c.phase # "none"
  BY DEF MayChallenge, MayAsk, InChief, InSession
<1>2. Stays(c, put)
  BY <1>1, QuestionStays, RephrasedStays
<1>3. Challenged(c) = Interrupted(objected)
  BY DEF Challenged
<1> HIDE DEF put
<1>4. Stays(put, requested)
  BY <1>2, QuestionStays DEF Stays
<1> HIDE DEF requested
<1>5. Stays(requested, objected)
  BY <1>4, QuestionStays DEF Stays
<1> HIDE DEF objected
<1>6. Stays(objected, Interrupted(objected))
  BY <1>5, QuestionStays DEF Stays
<1> QED BY <1>1, <1>2, <1>3, <1>4, <1>5, <1>6 DEF Stays, Follows, Late

\* Every event of the court, taken together.
LEMMA CourtStep ==
  ASSUME NEW c, Fits(c), NEW e \in AllEvents, Accepts(c, e)
  PROVE  /\ Follows(c, After(c, e))
         /\ e \in LateEvents => Late(After(c, e))
         /\ c.motion = "none" /\ e # "strike" => After(c, e).motion = "none"
         /\ e \in Turns.judge => After(c, e).motion = "none"
         /\ e = "strike" => MayMove(c) /\ After(c, e) = Moved(c)
<1>1. /\ "challenge" \notin TurnEvents \cup RuntimeEvents
      /\ TurnEvents \cap (RuntimeEvents \cup PlayerEvents) = {}
      /\ RuntimeEvents \cap PlayerEvents = {}
      /\ LateEvents \subseteq RuntimeEvents
      /\ Turns.judge = {"grant_motion", "deny_motion"}
      /\ "strike" \in TurnEvents
      /\ Turns.judge \subseteq TurnEvents
  BY TurnEventsAre DEF RuntimeEvents, PlayerEvents, Offers, Turns, LateEvents
<1>2. CASE e = "challenge"
  BY <1>1, <1>2, ChallengeStep DEF Accepts, After
<1>3. CASE e \in TurnEvents
  <2>1. TurnAccepts(c, e) /\ After(c, e) = TurnAfter(c, e) /\ e \notin LateEvents
    BY <1>1, <1>3 DEF Accepts, After
  <2>2. e = "strike" => MayMove(c)
    BY <2>1, <1>1 DEF TurnAccepts, CounselAccepts, Turns
  <2> QED BY <2>1, <2>2, <1>3, TurnStep
<1>4. CASE e \in RuntimeEvents
  BY <1>1, <1>4, RuntimeStep DEF Accepts, After
<1>5. CASE e \in PlayerEvents
  BY <1>1, <1>5, PlayerStep, e # "challenge" DEF Accepts, After, PlayerEvents, Offers
<1> QED BY <1>2, <1>3, <1>4, <1>5 DEF AllEvents

(***************************************************************************)
(* The steps of a command.                                                 *)
(***************************************************************************)
IntentsKnown == PlayerIntents \cup {"none", "recover"}

Commands == [request : Nat, intent : IntentsKnown, expected : Nat]

Kinds == {"answer", "plan", "counsel", "judge", "ruling", "negotiation", "jury",
          "debrief", "none", "command", "challenge", "holder"} \cup RuntimeEvents

Ids == [kind : Kinds, of : Nat, step : Nat]

Actions == [id : Ids, expected : Nat, event : AllEvents, call : Nat]

\* The events of an intent are those of a player or of the runtime.
LEMMA EventsAre ==
  ASSUME NEW command \in Commands, NEW c, command.intent \in PlayerIntents
  PROVE  /\ Events(command, c) \in Seq(PlayerEvents)
         /\ \/ Len(Events(command, c)) = Size(command.intent)
            \/ /\ Events(command, c) = <<>>
               /\ Size(command.intent) = 1
               /\ Known(StepId(command, 1))
         /\ \A m \in 1..Len(Events(command, c)) :
              StepsOf(Events(command, c)[m]) = Size(command.intent)
<1> DEFINE ev == Events(command, c)
<1> USE DEF Size, StepsOf, PlayerEvents, Offers
<1>1. CASE command.intent = "start"
  BY <1>1 DEF Events, StartSteps
<1>2. CASE command.intent = "call"
  BY <1>2 DEF Events, CallSteps
<1>3. CASE command.intent = "ask"
  BY <1>3 DEF Events, AskSteps
<1>4. CASE command.intent = "finish"
  <2>1. CASE Known(StepId(command, 1))
    BY <1>4, <2>1 DEF Events, FinishSteps
  <2>2. CASE ~Known(StepId(command, 1)) /\ c.answered
    <3>1. Events(command, c) = <<"complete_leg">>
      BY <1>4, <2>2 DEF Events, FinishSteps
    <3> QED BY <1>4, <3>1
  <2>3. CASE ~Known(StepId(command, 1)) /\ ~c.answered
    <3>1. Events(command, c) = <<"waive_leg">>
      BY <1>4, <2>3 DEF Events, FinishSteps
    <3> QED BY <1>4, <3>1
  <2> QED BY <2>1, <2>2, <2>3
<1>5. CASE command.intent = "object"
  BY <1>5 DEF Events, ObjectSteps
<1>6. CASE command.intent \in Offers
  <2>1. CASE Known(StepId(command, 1))
    BY <1>6, <2>1 DEF Events, OfferSteps
  <2>2. CASE ~Known(StepId(command, 1))
    <3>1. Events(command, c) = <<command.intent>>
      BY <1>6, <2>2 DEF Events, OfferSteps
    <3> QED BY <1>6, <3>1
  <2> QED BY <2>1, <2>2
<1>7. CASE command.intent = "finish_trial"
  BY <1>7 DEF Events, FinishTrialSteps
<1>8. CASE command.intent = "continue"
  BY <1>8 DEF Events
<1> QED BY <1>1, <1>2, <1>3, <1>4, <1>5, <1>6, <1>7, <1>8 DEF PlayerIntents

\* The steps of a command follow one another, as many as its size; or there are none,
\* when its only step is known.
LEMMA StepsAre ==
  ASSUME NEW command \in Commands, NEW c, command.intent \in PlayerIntents
  PROVE  /\ Steps(command, c) \in Seq(Actions)
         /\ \/ Len(Steps(command, c)) = Size(command.intent)
            \/ /\ Steps(command, c) = <<>>
               /\ Size(command.intent) = 1
               /\ Known(StepId(command, 1))
         /\ \A m \in 1..Len(Steps(command, c)) :
              /\ Steps(command, c)[m].id = StepId(command, m)
              /\ Steps(command, c)[m].expected = command.expected + m - 1
              /\ Steps(command, c)[m].event \in PlayerEvents
              /\ Steps(command, c)[m].call = 0
              /\ StepsOf(Steps(command, c)[m].event) = Size(command.intent)
<1> DEFINE ev == Events(command, c)
           act(i) == Action(StepId(command, i), command.expected + i - 1, ev[i], 0)
<1>1. /\ ev \in Seq(PlayerEvents) /\ Len(ev) \in Nat
      /\ \A m \in 1..Len(ev) : ev[m] \in PlayerEvents
  BY EventsAre
<1>2. Steps(command, c) = [i \in 1..Len(ev) |-> act(i)]
  BY DEF Steps
<1>3. \A i \in 1..Len(ev) : act(i) \in Actions
  <2> SUFFICES ASSUME NEW i \in 1..Len(ev)
               PROVE  act(i) \in Actions
    OBVIOUS
  <2>1. StepId(command, i) \in Ids
    <3>1. command.request \in Nat
      BY DEF Commands
    <3>2. i \in Nat
      BY <1>1
    <3> QED BY <3>1, <3>2 DEF StepId, Ids, Kinds
  <2>2. command.expected + i - 1 \in Nat
    BY <1>1 DEF Commands
  <2>3. ev[i] \in AllEvents
    BY <1>1 DEF AllEvents
  <2> HIDE DEF ev
  <2> QED BY <2>1, <2>2, <2>3 DEF Actions, Action
<1> HIDE DEF ev
<1>4. Steps(command, c) \in Seq(Actions) /\ Len(Steps(command, c)) = Len(ev)
  <2> HIDE DEF act
  <2> QED BY <1>1, <1>2, <1>3
<1>5. \A m \in 1..Len(ev) : Steps(command, c)[m] = act(m)
  <2> HIDE DEF act
  <2> QED BY <1>2
<1>6. \A m \in 1..Len(ev) : StepsOf(ev[m]) = Size(command.intent)
  BY EventsAre DEF ev
<1>7. \/ Len(ev) = Size(command.intent)
      \/ ev = <<>> /\ Size(command.intent) = 1 /\ Known(StepId(command, 1))
  BY EventsAre DEF ev
<1>8. Len(ev) = 0 => Steps(command, c) = <<>>
  BY <1>4
<1>9. \A m \in 1..Len(ev) :
        /\ act(m).id = StepId(command, m)
        /\ act(m).expected = command.expected + m - 1
        /\ act(m).event = ev[m]
        /\ act(m).call = 0
  BY DEF Action
<1> HIDE DEF act
<1> QED
  BY <1>1, <1>4, <1>5, <1>6, <1>7, <1>8, <1>9

\* A set of numbers that is not empty has a least one.
LEMMA LeastOfNaturals ==
  ASSUME NEW S, S \subseteq Nat, S # {}
  PROVE  \E x \in S : \A y \in S : x <= y
<1>1. PICK x \in S : \A y \in S : ~ (<<y, x>> \in OpToRel(<, Nat))
  BY NatLessThanWellFounded, WFMin
<1>2. SUFFICES ASSUME NEW y \in S, ~ (x <= y)
               PROVE  FALSE
  OBVIOUS
<1>3. x \in Nat /\ y \in Nat
  OBVIOUS
<1>4. <<y, x>> \in Nat \X Nat /\ y < x
  BY <1>2, <1>3
<1>5. <<y, x>> \in OpToRel(<, Nat)
  BY <1>4 DEF OpToRel
<1> QED BY <1>1, <1>5

LEMMA ResponseNameIsNat ==
  ASSUME log \in Seq(Actions)
  PROVE  ResponseName \in Nat
<1> DEFINE asked == {i \in 1..Len(log) :
                       log[i].event \in {"request", "question", "challenge"}}
           Left == {Len(log) - i : i \in asked}
<1>1. CASE asked = {}
  BY <1>1 DEF ResponseName
<1>2. CASE asked # {}
  <2>1. Left \subseteq Nat /\ Left # {}
    BY <1>2
  <2>2. PICK x \in Left : \A y \in Left : x <= y
    <3> HIDE DEF Left
    <3> QED BY <2>1, LeastOfNaturals
  <2>3. PICK i \in asked : x = Len(log) - i
    OBVIOUS
  <2>4. \A j \in asked : j <= i
    <3> SUFFICES ASSUME NEW j \in asked
                 PROVE  j <= i
      OBVIOUS
    <3>1. i \in Nat /\ j \in Nat /\ Len(log) \in Nat
      OBVIOUS
    <3>2. x <= Len(log) - j
      BY <2>2
    <3> QED BY <2>3, <3>1, <3>2
  <2>5. ResponseName \in asked
    <3>1. ResponseName = CHOOSE k \in asked : \A j \in asked : j <= k
      BY <1>2 DEF ResponseName
    <3> HIDE DEF asked
    <3> QED BY <2>4, <3>1
  <2> QED BY <2>5
<1> QED BY <1>1, <1>2
-----------------------------------------------------------------------------
(***************************************************************************)
(* The inductive invariant.  Its parts are stated for a log l and the     *)
(* record c it folds to, so that a fact about a run can be carried from   *)
(* one head to the next.                                                   *)
(***************************************************************************)
IsStep(a, command, i) ==
  a.id = StepId(command, i) /\ StepsOf(a.event) = Size(command.intent)

\* The last step of the command is on record, if it has steps.
Served(command, l) ==
  command.request # 0 /\ Size(command.intent) # 0 =>
    \E k \in 1..Len(l) : IsStep(l[k], command, Size(command.intent))

\* Nothing of the player's is on the floor.
Crossing(c) ==
  c.stage \in {"cross", "recross"} /\ ~ (c.objected /\ InterruptionOpen(c))

\* An action that may still be committed: it was made for this head or an
\* earlier one, and while a motion is pending only the judge's is for this one.
Timely(a, l, c) ==
  /\ a.expected <= Len(l)
  /\ a.expected = Len(l) =>
       /\ c.motion # "none" => a.event \in Turns.judge
       /\ a.event = "strike" => Crossing(c)

\* What is left of a command, and the step before it on record.
StepsAhead(run, l) ==
  LET first == run.todo[1].id.step
  IN /\ run.command.request # 0
     /\ run.then # "advance"
     /\ first # 0
     /\ first + Len(run.todo) - 1 = Size(run.command.intent)
     /\ \A m \in 1..Len(run.todo) : IsStep(run.todo[m], run.command, first + m - 1)
     /\ first > 1 => /\ run.todo[1].expected # 0
                     /\ IsStep(l[run.todo[1].expected], run.command, first - 1)

OwnStepAhead(run, l) ==
  /\ Len(run.todo) = 1
  /\ run.todo[1].id.kind # "command"
  /\ run.then = "advance" => run.todo[1].event \in LateEvents
  /\ Served(run.command, l)

TodoFits(run, l, c) ==
  /\ run.todo \in Seq(Actions)
  /\ run.todo # <<>>
  /\ run.then \in {"continue", "advance", "reply"}
  /\ \A m \in 1..Len(run.todo) :
       /\ run.todo[m].expected = run.todo[1].expected + m - 1
       /\ run.todo[m].event \in PlayerEvents \cup RuntimeEvents
  /\ Timely(run.todo[1], l, c)
  /\ StepsAhead(run, l) \/ OwnStepAhead(run, l)

GenerationFits(gen, l, c) ==
  /\ gen \in Actions
  /\ gen.event \in TurnEvents
  /\ gen.id.kind # "command"
  /\ Timely(gen, l, c)

ViewFits(view, l) ==
  /\ view.version \in Nat /\ view.version <= Len(l)
  /\ view.court.phase = "none" => view.version = 0

RunFields == {"at", "command", "todo", "then", "gen", "left", "seen"}

RunFits(run, l, c) ==
  /\ RunFields \subseteq DOMAIN run
  /\ run.at = "read" => run.command.intent # "none" /\ run.gen.call = 0
  /\ run.at = "append" => TodoFits(run, l, c)
  /\ run.at \in {"model", "commit", "store"} => GenerationFits(run.gen, l, c)
  /\ run.at = "advance" => Late(c)
  /\ run.at \in {"continue", "advance", "reply", "model", "commit", "store", "done"}
       => Served(run.command, l)
  /\ run.at \in {"continue", "advance", "reply", "append", "done"}
       => run.gen.call = 0 \/ \E k \in 1..Len(l) : l[k] = run.gen
  /\ run.at = "done" => ViewFits(run.seen, l)

\* The record: n commands were given so far.
RecordFits(l, c, n) ==
  /\ l \in Seq(Actions)
  /\ Fits(c)
  /\ l # <<>> => c.phase # "none"
  /\ \A k \in 1..Len(l) :
       /\ l[k].expected = k - 1
       /\ l[k].event \in LateEvents => Late(c)
       /\ l[k].id.kind = "command" =>
            /\ l[k].id.of \in 1..n
            /\ \E j \in 1..Len(l) :
                 l[j].id = [kind |-> "command", of |-> l[k].id.of, step |-> 1]

\* A motion is pending only at the head that moved it.
MotionFits(l, c) ==
  \/ c.motion = "none"
  \/ /\ c.motion = "moved"
     /\ l # <<>> /\ l[Len(l)].event = "strike"
     /\ InChief(c) /\ Crossing(c)

CommandFits(command, l, n) ==
  /\ command \in Commands
  /\ command.request <= n
  /\ command.request = 0 <=> command.intent \in {"none", "recover"}
  /\ command.expected <= Len(l)
  /\ command.intent = "start" => command.expected = 0
  /\ command.intent = "none" => command = NoCommand
  /\ \A k \in 1..Len(l) :
       l[k].id.kind = "command" /\ l[k].id.of = command.request
         => StepsOf(l[k].event) = Size(command.intent)

Live == {tab.pending} \cup {runs[r].command : r \in Runs}

CommandsFit ==
  /\ \A command \in Live : CommandFits(command, log, attempts.commands)
  /\ \A one, other \in Live : one.request = other.request /\ one.request # 0 => one = other

PageFits ==
  /\ {"pending", "waiting", "view", "reloaded", "confirmed"} \subseteq DOMAIN tab
  /\ ViewFits(tab.view, log)
  /\ DOMAIN runs = Runs
  /\ {"requests", "commands"} \subseteq DOMAIN attempts
  /\ attempts.commands \in 0..MaxCommands

RuntimeInv ==
  /\ RecordFits(log, court, attempts.commands)
  /\ MotionFits(log, court)
  /\ \A r \in Runs : RunFits(runs[r], log, court)
  /\ CommandsFit
  /\ PageFits
-----------------------------------------------------------------------------
(***************************************************************************)
(* What a longer log leaves alone.                                         *)
(***************************************************************************)
LEMMA Longer ==
  ASSUME NEW l \in Seq(Actions), NEW a \in Actions
  PROVE  /\ Append(l, a) \in Seq(Actions)
         /\ Len(Append(l, a)) = Len(l) + 1 /\ Len(l) \in Nat
         /\ \A k \in 1..Len(l) : Append(l, a)[k] = l[k]
         /\ Append(l, a)[Len(l) + 1] = a
         /\ 1..Len(Append(l, a)) = (1..Len(l)) \cup {Len(l) + 1}
OBVIOUS

\* What is on record stays on record, for commands, views, generations, runs.
LEMMA ServedGrows ==
  ASSUME NEW l \in Seq(Actions), NEW a \in Actions, NEW command, Served(command, l)
  PROVE  Served(command, Append(l, a))
BY Longer DEF Served

LEMMA ViewGrows ==
  ASSUME NEW l \in Seq(Actions), NEW a \in Actions, NEW view, ViewFits(view, l)
  PROVE  ViewFits(view, Append(l, a))
BY Longer DEF ViewFits

LEMMA TimelyGrows ==
  ASSUME NEW l \in Seq(Actions), NEW a \in Actions, NEW c, NEW d,
         NEW b \in Actions, Timely(b, l, c)
  PROVE  Timely(b, Append(l, a), d)
<1>1. b.expected \in Nat
  BY DEF Actions
<1> QED BY <1>1, Longer DEF Timely

LEMMA TodoGrows ==
  ASSUME NEW l \in Seq(Actions), NEW a \in Actions, NEW c, NEW d,
         NEW run, TodoFits(run, l, c)
  PROVE  TodoFits(run, Append(l, a), d)
<1>1. run.todo[1] \in Actions /\ run.todo[1].expected \in Nat
  <2>1. run.todo \in Seq(Actions) /\ run.todo # <<>>
    BY DEF TodoFits
  <2>2. run.todo[1] \in Actions
    BY <2>1
  <2> QED BY <2>2 DEF Actions
<1>2. Timely(run.todo[1], Append(l, a), d)
  BY <1>1, TimelyGrows DEF TodoFits
<1>3. StepsAhead(run, l) => StepsAhead(run, Append(l, a))
  <2>1. run.todo[1].expected # 0 => run.todo[1].expected \in 1..Len(l)
    BY <1>1, Longer DEF TodoFits, Timely
  <2> QED BY <2>1, Longer DEF StepsAhead
<1>4. OwnStepAhead(run, l) => OwnStepAhead(run, Append(l, a))
  BY ServedGrows DEF OwnStepAhead
<1> QED BY <1>2, <1>3, <1>4 DEF TodoFits

LEMMA RunGrows ==
  ASSUME NEW l \in Seq(Actions), NEW a \in Actions, NEW c, NEW d,
         Late(c) => Late(d), NEW run, RunFits(run, l, c)
  PROVE  RunFits(run, Append(l, a), d)
<1>1. run.at = "append" => TodoFits(run, Append(l, a), d)
  BY TodoGrows DEF RunFits
<1>2. run.at \in {"model", "commit", "store"} => GenerationFits(run.gen, Append(l, a), d)
  BY TimelyGrows DEF RunFits, GenerationFits
<1>3. Served(run.command, l) => Served(run.command, Append(l, a))
  BY ServedGrows
<1>4. (\E k \in 1..Len(l) : l[k] = run.gen)
        => \E k \in 1..Len(Append(l, a)) : Append(l, a)[k] = run.gen
  BY Longer
<1>5. ViewFits(run.seen, l) => ViewFits(run.seen, Append(l, a))
  BY ViewGrows
<1> QED BY <1>1, <1>2, <1>3, <1>4, <1>5 DEF RunFits

LEMMA CommandGrows ==
  ASSUME NEW l \in Seq(Actions), NEW a \in Actions, NEW n,
         NEW command, CommandFits(command, l, n),
         a.id.kind = "command" /\ a.id.of = command.request
           => StepsOf(a.event) = Size(command.intent)
  PROVE  CommandFits(command, Append(l, a), n)
<1>1. command.expected \in Nat
  BY DEF CommandFits, Commands
<1>2. command.expected <= Len(Append(l, a))
  BY <1>1, Longer DEF CommandFits
<1> QED BY <1>2, Longer DEF CommandFits

\* A step of a command is entered by its first one, or after it.
NamedFor(a, l, n) ==
  a.id.kind = "command" =>
    /\ a.id.of \in 1..n
    /\ \/ a.id.step = 1
       \/ \E j \in 1..Len(l) :
            l[j].id = [kind |-> "command", of |-> a.id.of, step |-> 1]

\* One more action, entered at its own head.
LEMMA RecordGrows ==
  ASSUME NEW l, NEW c, NEW n, RecordFits(l, c, n), MotionFits(l, c),
         NEW a \in Actions, a.expected = Len(l), Accepts(c, a.event),
         Timely(a, l, c), NamedFor(a, l, n)
  PROVE  /\ RecordFits(Append(l, a), After(c, a.event), n)
         /\ MotionFits(Append(l, a), After(c, a.event))
         /\ Late(c) => Late(After(c, a.event))
<1> DEFINE d == After(c, a.event)
           ll == Append(l, a)
<1>1. a.event \in AllEvents /\ l \in Seq(Actions) /\ Fits(c)
  BY DEF Actions, RecordFits
<1>2. /\ Follows(c, d)
      /\ a.event \in LateEvents => Late(d)
      /\ c.motion = "none" /\ a.event # "strike" => d.motion = "none"
      /\ a.event \in Turns.judge => d.motion = "none"
      /\ a.event = "strike" => MayMove(c) /\ d = Moved(c)
  BY <1>1, CourtStep
<1>3. a.id.kind = "command" => 
        \E j \in 1..Len(ll) : ll[j].id = [kind |-> "command", of |-> a.id.of, step |-> 1]
  <2>1. CASE a.id.kind = "command" /\ a.id.step = 1
    <3>1. a.id = [kind |-> "command", of |-> a.id.of, step |-> 1]
      BY <2>1 DEF Actions, Ids
    <3> QED BY <3>1, <1>1, Longer
  <2> QED BY <2>1, <1>1, Longer DEF NamedFor
<1>4. RecordFits(ll, d, n)
  <2>1. \A k \in 1..Len(ll) :
       /\ ll[k].expected = k - 1
       /\ ll[k].event \in LateEvents => Late(d)
       /\ ll[k].id.kind = "command" =>
            /\ ll[k].id.of \in 1..n
            /\ \E j \in 1..Len(ll) :
                 ll[j].id = [kind |-> "command", of |-> ll[k].id.of, step |-> 1]
    <3> SUFFICES ASSUME NEW k \in 1..Len(ll)
                 PROVE  /\ ll[k].expected = k - 1
                        /\ ll[k].event \in LateEvents => Late(d)
                        /\ ll[k].id.kind = "command" =>
                            /\ ll[k].id.of \in 1..n
                            /\ \E j \in 1..Len(ll) :
                                 ll[j].id = [kind |-> "command", of |-> ll[k].id.of, step |-> 1]
      OBVIOUS
    <3>1. CASE k = Len(l) + 1
      <4>1. ll[k] = a
        BY <3>1, <1>1, Longer
      <4>2. a.expected = k - 1
        BY <3>1, <1>1, Longer
      <4> HIDE DEF ll, d
      <4> QED BY <4>1, <4>2, <1>2, <1>3 DEF NamedFor
    <3>2. CASE k \in 1..Len(l)
      <4>1. ll[k] = l[k] /\ \A j \in 1..Len(l) : j \in 1..Len(ll) /\ ll[j] = l[j]
        BY <3>2, <1>1, Longer
      <4>2. Late(c) => Late(d)
        BY <1>2 DEF Follows
      <4> HIDE DEF ll, d
      <4> QED BY <4>1, <4>2, <3>2 DEF RecordFits
    <3> QED BY <3>1, <3>2, <1>1, Longer
  <2>2. ll \in Seq(Actions) /\ Fits(d) /\ d.phase # "none"
    BY <1>1, <1>2, Longer DEF Follows
  <2> HIDE DEF ll, d
  <2> QED BY <2>1, <2>2 DEF RecordFits
<1>5. MotionFits(ll, d)
  <2>1. ll # <<>> /\ ll[Len(ll)] = a
    BY <1>1, Longer
  <2>2. CASE a.event = "strike"
    <3>1. d.motion = "moved"
      BY <1>1, <1>2, <2>2 DEF Moved, Noted, Fits, CourtFields
    <3>2. InChief(d) /\ Crossing(d)
      <4>1. Crossing(c) /\ InChief(c)
        BY <1>2, <2>2 DEF Timely, MayMove
      <4>2. /\ d.stage = c.stage /\ d.objected = c.objected
            /\ d.phase = c.phase /\ d.settled = c.settled
        BY <1>1, <1>2, <2>2 DEF Moved, Noted, Fits, CourtFields
      <4>3. InterruptionOpen(d) => InterruptionOpen(c)
        BY <1>1, <1>2, <2>2 DEF Moved, Noted, Fits, CourtFields, InterruptionOpen
      <4> HIDE DEF d
      <4> QED BY <4>1, <4>2, <4>3 DEF Crossing, InChief, InSession
    <3> QED BY <2>1, <2>2, <3>1, <3>2 DEF MotionFits
  <2>3. CASE a.event # "strike"
    <3>1. d.motion = "none"
      BY <1>2, <2>3 DEF MotionFits, Timely
    <3> QED BY <3>1 DEF MotionFits
  <2> QED BY <2>2, <2>3
<1> QED BY <1>2, <1>4, <1>5 DEF Follows
-----------------------------------------------------------------------------
(***************************************************************************)
(* The shape of a step: one run moves, and the log stays or grows by one. *)
(***************************************************************************)
LEMMA Moves ==
  ASSUME DOMAIN runs = Runs, NEW r \in Runs, NEW s, Goes(r, s)
  PROVE  /\ runs'[r] = s
         /\ \A q \in Runs : q # r => runs'[q] = runs[q]
         /\ DOMAIN runs' = Runs
BY DEF Goes

\* A run that is idle, or has failed, owes nothing.
LEMMA IdleFits ==
  ASSUME NEW l, NEW c
  PROVE  RunFits(IdleRun, l, c) /\ IdleRun.command = NoCommand
BY DEF IdleRun, RunFits, RunFields

LEMMA FailedFits ==
  ASSUME NEW l, NEW c, NEW run, RunFits(run, l, c)
  PROVE  /\ RunFits([run EXCEPT !.at = "failed"], l, c)
         /\ [run EXCEPT !.at = "failed"].command = run.command
<1> DEFINE s == [run EXCEPT !.at = "failed"]
<1>1. RunFields \subseteq DOMAIN s /\ s.at = "failed" /\ s.command = run.command
  BY DEF RunFits, RunFields
<1> HIDE DEF s
<1>2. RunFits(s, l, c)
  BY <1>1 DEF RunFits
<1> QED BY <1>1, <1>2 DEF s

\* The commands the page and the runs have, after a step that makes none.
MakesNoCommand ==
  /\ \A q \in Runs : runs'[q].command \in Live \cup {NoCommand, Recovery}
  /\ tab'.pending \in Live \cup {NoCommand}
  /\ attempts'.commands = attempts.commands

\* The command of nobody and the recovery of the page have no step on record.
LEMMA NoCommandFits ==
  ASSUME RecordFits(log, court, attempts.commands), attempts.commands \in Nat
  PROVE  \A command \in {NoCommand, Recovery} :
           CommandFits(command, log, attempts.commands) /\ command.request = 0
<1>1. \A k \in 1..Len(log) : log[k].id.kind = "command" => log[k].id.of # 0
  <2> SUFFICES ASSUME NEW k \in 1..Len(log), log[k].id.kind = "command"
               PROVE  log[k].id.of # 0
    OBVIOUS
  <2>1. log[k].id.of \in 1..attempts.commands
    BY DEF RecordFits
  <2> QED BY <2>1
<1>2. Len(log) \in Nat
  <2>1. log \in Seq(Actions)
    BY DEF RecordFits
  <2> QED BY <2>1
<1>3. NoCommand \in Commands /\ Recovery \in Commands
  BY DEF NoCommand, Recovery, Commands, IntentsKnown
<1> QED BY <1>1, <1>2, <1>3 DEF NoCommand, Recovery, CommandFits

\* A step that makes no command keeps what is known of the commands.
LEMMA CommandsKept ==
  ASSUME RuntimeInv, MakesNoCommand, log' = log
  PROVE  CommandsFit'
<1>1. attempts.commands \in Nat /\ RecordFits(log, court, attempts.commands)
  BY RuntimeAssumption DEF RuntimeInv, PageFits
<1>2. \A command \in Live' : command \in Live \cup {NoCommand, Recovery}
  BY DEF MakesNoCommand, Live
<1>3. \A command \in Live \cup {NoCommand, Recovery} :
        CommandFits(command, log, attempts.commands)
  BY <1>1, NoCommandFits DEF RuntimeInv, CommandsFit
<1>4. \A command \in Live' : CommandFits(command, log', attempts'.commands)
  BY <1>2, <1>3 DEF MakesNoCommand
<1>5. \A one, other \in Live' : one.request = other.request /\ one.request # 0 => one = other
  <2> SUFFICES ASSUME NEW one \in Live', NEW other \in Live',
                      one.request = other.request, one.request # 0
               PROVE  one = other
    OBVIOUS
  <2>1. one \in Live /\ other \in Live
    BY <1>1, <1>2, NoCommandFits
  <2> QED BY <2>1 DEF RuntimeInv, CommandsFit
<1> QED BY <1>4, <1>5 DEF CommandsFit

\* The page after a step.
KeepsPage(l) ==
  /\ {"pending", "waiting", "view", "reloaded", "confirmed"} \subseteq DOMAIN tab'
  /\ ViewFits(tab'.view, l)
  /\ {"requests", "commands"} \subseteq DOMAIN attempts'

\* A step that enters nothing.
LEMMA QuietStep ==
  ASSUME RuntimeInv, UNCHANGED logVars, DOMAIN runs' = Runs,
         \A q \in Runs : RunFits(runs'[q], log, court),
         MakesNoCommand, KeepsPage(log)
  PROVE  RuntimeInv'
<1>1. CommandsFit' /\ log' = log /\ court' = court
  BY CommandsKept DEF logVars
<1>2. PageFits'
  BY <1>1 DEF PageFits, KeepsPage, RuntimeInv, MakesNoCommand
<1> QED BY <1>1, <1>2 DEF RuntimeInv, MakesNoCommand

\* One run moves and the record stays.
LEMMA QuietMove ==
  ASSUME RuntimeInv, NEW r \in Runs, NEW s, Goes(r, s), UNCHANGED logVars,
         RunFits(s, log, court), s.command \in Live \cup {NoCommand, Recovery},
         tab'.pending \in Live \cup {NoCommand},
         attempts'.commands = attempts.commands, KeepsPage(log)
  PROVE  RuntimeInv'
<1>1. /\ runs'[r] = s /\ \A q \in Runs : q # r => runs'[q] = runs[q]
      /\ DOMAIN runs' = Runs
  BY Moves DEF RuntimeInv, PageFits
<1>2. \A q \in Runs : RunFits(runs'[q], log, court)
  BY <1>1 DEF RuntimeInv
<1>3. MakesNoCommand
  BY <1>1 DEF MakesNoCommand, Live
<1> QED BY <1>1, <1>2, <1>3, QuietStep

LEMMA PageUnchanged ==
  ASSUME RuntimeInv, UNCHANGED <<tab, attempts>>
  PROVE  KeepsPage(log) /\ tab'.pending \in Live /\ attempts'.commands = attempts.commands
BY DEF RuntimeInv, PageFits, KeepsPage, Live

\* A run moves and nothing else happens.
LEMMA RunMoves ==
  ASSUME RuntimeInv, NEW r \in Runs, NEW s, Goes(r, s), UNCHANGED <<logVars, tab, attempts>>,
         RunFits(s, log, court), s.command \in {runs[r].command, NoCommand}
  PROVE  RuntimeInv'
<1>1. runs[r].command \in Live
  BY DEF Live
<1> QED BY <1>1, QuietMove, PageUnchanged DEF logVars

\* A run that fails.
LEMMA RunFails ==
  ASSUME RuntimeInv, NEW r \in Runs, Fails(r), UNCHANGED <<logVars, tab, attempts>>
  PROVE  RuntimeInv'
<1>1. RunFits([runs[r] EXCEPT !.at = "failed"], log, court)
  BY FailedFits DEF RuntimeInv
<1>2. [runs[r] EXCEPT !.at = "failed"].command = runs[r].command
  BY FailedFits DEF RuntimeInv
<1>3. Goes(r, [runs[r] EXCEPT !.at = "failed"])
  BY DEF Fails, GoesTo
<1> DEFINE s == [runs[r] EXCEPT !.at = "failed"]
<1> HIDE DEF s
<1> QED BY <1>1, <1>2, <1>3, RunMoves DEF s

\* What an action that is entered must satisfy.
Entering(a) ==
  /\ a \in Actions
  /\ a.expected = Version
  /\ Accepts(court, a.event)
  /\ Timely(a, log, court)
  /\ NamedFor(a, log, attempts.commands)
  /\ \A command \in Live :
       a.id.kind = "command" /\ a.id.of = command.request
         => StepsOf(a.event) = Size(command.intent)
  /\ Enter(a)

\* A step that enters an action.
LEMMA EnterStep ==
  ASSUME RuntimeInv, NEW a, Entering(a), DOMAIN runs' = Runs,
         \A q \in Runs : \/ runs'[q] = runs[q]
                        \/ /\ RunFits(runs'[q], log', court')
                           /\ runs'[q].command = runs[q].command,
         tab'.pending = tab.pending, attempts'.commands = attempts.commands,
         KeepsPage(log')
  PROVE  RuntimeInv'
<1>1. /\ log \in Seq(Actions) /\ a \in Actions
      /\ log' = Append(log, a) /\ court' = After(court, a.event)
  BY DEF RuntimeInv, RecordFits, Entering, Enter
<1>2. /\ RecordFits(log', court', attempts'.commands)
      /\ MotionFits(log', court')
      /\ Late(court) => Late(court')
  BY <1>1, RecordGrows DEF RuntimeInv, Entering, Version
<1>3. \A q \in Runs : RunFits(runs'[q], log', court')
  BY <1>1, <1>2, RunGrows DEF RuntimeInv
<1>4. Live' = Live
  BY DEF Live
<1>5. \A command \in Live : CommandFits(command, log', attempts'.commands)
  BY <1>1, CommandGrows DEF RuntimeInv, CommandsFit, Entering
<1>6. CommandsFit'
  BY <1>4, <1>5 DEF CommandsFit, RuntimeInv
<1>7. PageFits'
  BY DEF PageFits, KeepsPage, RuntimeInv
<1> QED BY <1>2, <1>3, <1>6, <1>7 DEF RuntimeInv
-----------------------------------------------------------------------------
(***************************************************************************)
(* What the court owes next.                                              *)
(***************************************************************************)
Owed == {"completed", "stale", "release"} \cup LateEvents \cup DOMAIN Turns

\* The turns the court owes at a head, each with its events.
LEMMA AdvancesIs ==
  ASSUME NEW c, Fits(c)
  PROVE  /\ Advances(c) \in Owed \ {"release"}
         /\ Advances(c) = "counsel" /\ InChief(c) => c.stage # "empty"
         /\ Advances(c) \notin {"judge", "ruling", "answer", "negotiation"}
BY DEF Owed, LateEvents, Turns, Advances, NextStage, NeedsLater, OpponentMustClose,
       InChief, InSession

LEMMA NeedsIs ==
  ASSUME NEW c, Fits(c), NEW l, MotionFits(l, c)
  PROVE  /\ Needs(c) \in Owed
         /\ c.motion # "none" => Needs(c) = "judge"
         /\ Needs(c) = "counsel" /\ InChief(c) => Crossing(c)
<1>1. Needs(c) \in Owed
  BY AdvancesIs DEF Needs, Owed, LateEvents, Turns
<1>2. c.motion # "none" => Needs(c) = "judge"
  BY DEF Needs, MotionFits, Crossing
<1>3. Needs(c) = "counsel" /\ InChief(c) => Crossing(c)
  <2> SUFFICES ASSUME Needs(c) = "counsel", InChief(c)
               PROVE  Crossing(c)
    OBVIOUS
  <2>1. /\ ~ (InterruptionOpen(c) /\ c.objected)
        /\ c.stage \notin {"ready_for_release", "awaiting_oath", "direct", "redirect"}
        /\ Advances(c) = "counsel"
    BY DEF Needs
  <2>2. c.stage # "empty"
    BY <2>1, AdvancesIs
  <2> QED BY <2>1, <2>2 DEF Crossing, Fits, Stages
<1> QED BY <1>1, <1>2, <1>3

LEMMA PermittedIs ==
  ASSUME NEW turn \in DOMAIN Turns, NEW c, NEW event \in Permitted(turn, c)
  PROVE  /\ event \in TurnEvents
         /\ event = "strike" => turn = "counsel" /\ InChief(c)
         /\ turn = "judge" => event \in Turns.judge
<1> USE DEF Permitted
<1>1. DOMAIN Turns = {"answer", "plan", "counsel", "judge", "ruling", "negotiation",
                      "jury", "debrief"}
  BY DEF Turns
<1>2. CASE turn = "answer"
  BY <1>2, TurnEventsAre DEF AnswerWords, Turns
<1>3. CASE turn = "plan"
  BY <1>3, TurnEventsAre DEF PlanWords, Turns
<1>4. CASE turn = "counsel"
  BY <1>4, TurnEventsAre DEF CounselWords, Turns, CounselAccepts, MayMove
<1>5. CASE turn = "judge"
  BY <1>5, TurnEventsAre DEF JudgeWords, Turns
<1>6. CASE turn = "ruling"
  BY <1>6, TurnEventsAre DEF RulingWords, RulingOutcomes
<1>7. CASE turn = "negotiation"
  BY <1>7, TurnEventsAre DEF NegotiationWords, Turns
<1>8. CASE turn = "jury"
  BY <1>8, TurnEventsAre DEF JuryWords, Turns
<1>9. CASE turn = "debrief"
  BY <1>9, TurnEventsAre DEF DebriefWords, Turns
<1> QED BY <1>1, <1>2, <1>3, <1>4, <1>5, <1>6, <1>7, <1>8, <1>9

\* A model is asked about the head.
LEMMA AskingFits ==
  ASSUME RuntimeInv, NEW r \in Runs, NEW turn \in DOMAIN Turns, Asks(r, turn),
         UNCHANGED <<logVars, tab, attempts>>,
         Served(runs[r].command, log),
         court.motion # "none" => turn = "judge",
         turn = "counsel" /\ InChief(court) => Crossing(court)
  PROVE  RuntimeInv'
<1>1. PICK event \in Permitted(turn, court) :
        Goes(r, [runs[r] EXCEPT !.at = "model",
                                !.gen = Action(TurnId(turn), Version, event, r)])
  BY DEF Asks
<1> DEFINE gen == Action(TurnId(turn), Version, event, r)
           s   == [runs[r] EXCEPT !.at = "model", !.gen = gen]
<1>2. /\ event \in TurnEvents
      /\ event = "strike" => turn = "counsel" /\ InChief(court)
      /\ turn = "judge" => event \in Turns.judge
  BY PermittedIs
<1>3. log \in Seq(Actions) /\ Len(log) \in Nat /\ r \in Nat
  <2>1. log \in Seq(Actions)
    BY DEF RuntimeInv, RecordFits
  <2> QED BY <2>1, RuntimeAssumption
<1>4. TurnId(turn) \in Ids /\ TurnId(turn).kind # "command"
  BY <1>3, ResponseNameIsNat DEF TurnId, Ids, Kinds, Version, Turns
<1>5. /\ gen \in Actions /\ gen.expected = Len(log) /\ gen.event = event
      /\ gen.id = TurnId(turn)
  BY <1>2, <1>3, <1>4 DEF Actions, Action, Version, AllEvents
<1> HIDE DEF gen
<1>6. GenerationFits(gen, log, court)
  BY <1>2, <1>3, <1>4, <1>5 DEF GenerationFits, Timely
<1>7. /\ RunFields \subseteq DOMAIN s /\ s.at = "model" /\ s.gen = gen
      /\ s.command = runs[r].command
  BY DEF RuntimeInv, RunFits, RunFields
<1>8. Goes(r, s)
  BY <1>1 DEF gen
<1> HIDE DEF s
<1>9. RunFits(s, log, court)
  BY <1>6, <1>7 DEF RunFits
<1> QED BY <1>7, <1>8, <1>9, RunMoves

\* A run goes on to its next steps, or to what comes after them.
GoesOn(run, steps, then) ==
  [run EXCEPT !.at = IF steps = <<>> THEN then ELSE "append",
              !.todo = steps, !.then = then]

LEMMA GoesOnIs ==
  ASSUME NEW run, RunFields \subseteq DOMAIN run, NEW steps, NEW then
  PROVE  /\ RunFields \subseteq DOMAIN GoesOn(run, steps, then)
         /\ GoesOn(run, steps, then).at = (IF steps = <<>> THEN then ELSE "append")
         /\ GoesOn(run, steps, then).todo = steps
         /\ GoesOn(run, steps, then).then = then
         /\ GoesOn(run, steps, then).gen = run.gen
         /\ GoesOn(run, steps, then).command = run.command
BY DEF RunFields, GoesOn

\* A run that is about to append steps.
LEMMA AppendingFits ==
  ASSUME NEW l, NEW c, NEW run, RunFields \subseteq DOMAIN run,
         NEW steps, NEW then \in {"continue", "advance", "reply"},
         steps # <<>> => TodoFits(GoesOn(run, steps, then), l, c),
         steps = <<>> => Served(run.command, l),
         steps = <<>> /\ then = "advance" => Late(c),
         run.gen.call = 0 \/ \E k \in 1..Len(l) : l[k] = run.gen
  PROVE  RunFits(GoesOn(run, steps, then), l, c)
<1> DEFINE s == GoesOn(run, steps, then)
<1>1. /\ RunFields \subseteq DOMAIN s
      /\ s.at = (IF steps = <<>> THEN then ELSE "append")
      /\ s.gen = run.gen /\ s.command = run.command
  BY GoesOnIs
<1> HIDE DEF s
<1>2. CASE steps = <<>>
  <2>1. s.at \in {"continue", "advance", "reply"}
    BY <1>1, <1>2
  <2>2. RunFits(s, l, c)
    BY <1>1, <1>2, <2>1 DEF RunFits
  <2> QED BY <2>2 DEF s
<1>3. CASE steps # <<>>
  <2>1. s.at = "append"
    BY <1>1, <1>3
  <2>2. TodoFits(s, l, c)
    BY <1>3 DEF s
  <2>3. RunFits(s, l, c)
    BY <1>1, <1>3, <2>1, <2>2 DEF RunFits
  <2> QED BY <2>3 DEF s
<1> QED BY <1>2, <1>3

\* A view of the head is not ahead of it.
LEMMA HeadViewFits ==
  ASSUME RuntimeInv
  PROVE  ViewFits(HeadView, log)
<1>1. log \in Seq(Actions) /\ (log # <<>> => court.phase # "none")
  BY DEF RuntimeInv, RecordFits
<1> QED BY <1>1 DEF ViewFits, HeadView, Version

\* A run that begins a command which is on record already goes on after it.
LEMMA AnsweringFits ==
  ASSUME RuntimeInv, NEW r \in Runs, AnswersPage(r),
         UNCHANGED <<logVars, tab, attempts>>,
         Served(runs[r].command, log),
         runs[r].gen.call = 0 \/ \E k \in 1..Len(log) : log[k] = runs[r].gen
  PROVE  RuntimeInv'
<1>1. CASE runs[r].left = 0
  BY <1>1, RunFails DEF AnswersPage, Fails, GoesTo
<1>2. CASE runs[r].left # 0
  <2> DEFINE s == [runs[r] EXCEPT !.at = "done", !.seen = HeadView]
  <2>1. /\ RunFields \subseteq DOMAIN s /\ s.at = "done" /\ s.seen = HeadView
        /\ s.command = runs[r].command /\ s.gen = runs[r].gen
    BY DEF RuntimeInv, RunFits, RunFields
  <2>2. Goes(r, s)
    BY <1>2 DEF AnswersPage
  <2> HIDE DEF s
  <2>3. RunFits(s, log, court)
    BY <2>1, HeadViewFits DEF RunFits
  <2> QED BY <2>1, <2>2, <2>3, RunMoves
<1> QED BY <1>1, <1>2

\* A run starts on the steps of its command.
LEMMA FirstStepsFit ==
  ASSUME RuntimeInv, NEW r \in Runs, runs[r].at = "read",
         NEW then \in {"continue", "reply"}, runs[r].command.intent \in PlayerIntents,
         court.motion # "none" => runs[r].command.intent = "start",
         Appends(r, Steps(runs[r].command, court), then),
         UNCHANGED <<logVars, tab, attempts>>
  PROVE  RuntimeInv'
<1> DEFINE run     == runs[r]
           command == run.command
           steps   == Steps(command, court)
           s       == GoesOn(run, steps, then)
<1>1. CommandFits(command, log, attempts.commands)
  BY DEF RuntimeInv, CommandsFit, Live
<1>2. RunFields \subseteq DOMAIN run /\ run.gen.call = 0
  BY DEF RuntimeInv, RunFits
<1>3. command \in Commands /\ command.expected \in Nat /\ command.request # 0
  BY <1>1 DEF CommandFits, Commands, PlayerIntents, Offers
<1>4. /\ steps \in Seq(Actions)
      /\ \/ Len(steps) = Size(command.intent)
         \/ steps = <<>> /\ Size(command.intent) = 1 /\ Known(StepId(command, 1))
      /\ \A m \in 1..Len(steps) :
           /\ steps[m].id = StepId(command, m)
           /\ steps[m].expected = command.expected + m - 1
           /\ steps[m].event \in PlayerEvents
           /\ StepsOf(steps[m].event) = Size(command.intent)
  BY <1>3, StepsAre
<1>5. /\ command.intent \notin {"none", "recover"}
      /\ command.intent = "start" => command.expected = 0
  BY <1>1 DEF CommandFits, PlayerIntents, Offers
<1> HIDE DEF steps
<1>6. /\ s.todo = steps /\ s.then = then /\ s.command = command
      /\ Goes(r, s)
  BY <1>2, GoesOnIs DEF GoesOn, Appends, steps
<1>7. CASE steps = <<>>
  <2>1. Served(command, log)
    <3>1. CASE Size(command.intent) = 0
      BY <3>1 DEF Served
    <3>2. CASE Size(command.intent) = 1 /\ Known(StepId(command, 1))
      <4>1. PICK k \in 1..Len(log) : log[k].id = StepId(command, 1)
        BY <3>2 DEF Known, Receipts
      <4>2. StepsOf(log[k].event) = Size(command.intent)
        BY <1>1, <4>1 DEF CommandFits, StepId
      <4> QED BY <3>2, <4>1, <4>2 DEF Served, IsStep
    <3> QED BY <1>4, <1>7, <3>1, <3>2
  <2>2. RunFits(s, log, court)
    BY <1>2, <1>7, <2>1, AppendingFits
  <2> QED BY <1>6, <2>2, RunMoves
<1>8. CASE steps # <<>>
  <2>1. Len(steps) \in Nat \ {0} /\ 1 \in 1..Len(steps)
    BY <1>4, <1>8
  <2>2. steps[1].id.step = 1 /\ steps[1].expected = command.expected
    BY <1>3, <1>4, <2>1 DEF StepId
  <2>3. Timely(steps[1], log, court)
    <3>1. steps[1].expected <= Len(log)
      BY <1>1, <2>2 DEF CommandFits
    <3>2. steps[1].event # "strike"
      BY <1>4, <2>1 DEF PlayerEvents, Offers
    <3>3. steps[1].expected = Len(log) => court.motion = "none"
      <4> SUFFICES ASSUME steps[1].expected = Len(log), court.motion # "none"
                   PROVE  FALSE
        OBVIOUS
      <4>1. Len(log) = 0
        BY <1>5, <2>2
      <4>2. log = <<>>
        BY <4>1 DEF RuntimeInv, RecordFits
      <4> QED BY <4>2 DEF RuntimeInv, MotionFits
    <3> QED BY <3>1, <3>2, <3>3 DEF Timely
  <2>4. StepsAhead(s, log)
    <3>1. \A m \in 1..Len(steps) : IsStep(steps[m], command, 1 + m - 1)
      <4> SUFFICES ASSUME NEW m \in 1..Len(steps)
                   PROVE  IsStep(steps[m], command, 1 + m - 1)
        OBVIOUS
      <4>1. 1 + m - 1 = m
        BY <2>1
      <4> QED BY <1>4, <4>1 DEF IsStep
    <3>2. 1 + Len(steps) - 1 = Size(command.intent)
      BY <1>4, <1>8, <2>1
    <3> HIDE DEF s
    <3> QED BY <1>3, <1>6, <2>2, <3>1, <3>2 DEF StepsAhead
  <2>5. TodoFits(s, log, court)
    <3>1. \A m \in 1..Len(steps) :
            /\ steps[m].expected = steps[1].expected + m - 1
            /\ steps[m].event \in PlayerEvents \cup RuntimeEvents
      BY <1>4, <2>2
    <3> HIDE DEF s
    <3> QED BY <1>4, <1>6, <1>8, <2>3, <2>4, <3>1 DEF TodoFits
  <2>6. RunFits(s, log, court)
    BY <1>2, <1>8, <2>5, AppendingFits
  <2> QED BY <1>6, <2>6, RunMoves
<1> QED BY <1>7, <1>8

\* What a model is asked for is asked at the head.
LEMMA GenerationAsked ==
  ASSUME RuntimeInv, NEW r \in Runs, runs[r].at = "read"
  PROVE  runs[r].gen.call = 0 \/ \E k \in 1..Len(log) : log[k] = runs[r].gen
BY DEF RuntimeInv, RunFits

\* The run reads the head: receipts, the next step, or what the court owes.
LEMMA ReadHeadKeeps ==
  ASSUME RuntimeInv, NEW r \in Runs, ReadHead(r)
  PROVE  RuntimeInv'
<1> DEFINE command == runs[r].command
<1>1. runs[r].at = "read" /\ UNCHANGED <<logVars, tab, attempts>>
  BY DEF ReadHead
<1>2. CommandFits(command, log, attempts.commands)
  BY DEF RuntimeInv, CommandsFit, Live
<1>3. command.intent # "none" /\ command.intent \in IntentsKnown
  BY <1>1, <1>2 DEF RuntimeInv, RunFits, CommandFits, Commands
<1>4. CASE command.intent = "recover"
  <2>1. ReadsRecovery(r)
    BY <1>4 DEF ReadHead, ReadsCommand
  <2>2. Served(command, log)
    BY <1>2, <1>4 DEF CommandFits, Served
  <2>3. CASE InterruptionOpen(court)
    BY <1>1, <2>1, <2>2, <2>3, GenerationAsked, AnsweringFits DEF ReadsRecovery
  <2>4. CASE ~InterruptionOpen(court)
    <3> DEFINE s == [runs[r] EXCEPT !.at = "continue"]
    <3>1. /\ RunFields \subseteq DOMAIN s /\ s.at = "continue"
          /\ s.command = command /\ s.gen = runs[r].gen
      BY DEF RuntimeInv, RunFits, RunFields
    <3>2. Goes(r, s)
      BY <2>1, <2>4 DEF ReadsRecovery, GoesTo
    <3> HIDE DEF s
    <3>3. RunFits(s, log, court)
      BY <1>1, <2>2, <3>1, GenerationAsked DEF RunFits
    <3> QED BY <1>1, <3>1, <3>2, <3>3, RunMoves
  <2> QED BY <2>3, <2>4
<1>5. CASE command.intent # "recover"
  <2>1. /\ ReadsCommand(r)
        /\ command.intent \in PlayerIntents
    BY <1>3, <1>5 DEF ReadHead, ReadsRecovery, IntentsKnown
  <2>2. CASE command.intent = "start"
    BY <1>1, <2>1, <2>2, FirstStepsFit DEF ReadsCommand
  <2>3. CASE command.intent # "start" /\ Refuses(command, court)
    BY <1>1, <2>1, <2>3, RunFails DEF ReadsCommand
  <2>4. CASE command.intent # "start" /\ ~Refuses(command, court)
    <3>1. court.motion = "none"
      BY <2>4 DEF Refuses
    <3>2. CASE command.intent = "continue"
      <4>1. Asks(r, "answer")
        BY <2>1, <2>4, <3>2 DEF ReadsCommand
      <4>2. Served(command, log)
        BY <3>2 DEF Served, Size, Offers
      <4>3. "answer" \in DOMAIN Turns
        BY DEF Turns
      <4> QED BY <1>1, <3>1, <4>1, <4>2, <4>3, AskingFits
    <3>3. CASE command.intent # "continue"
      <4>1. Appends(r, Steps(command, court), "continue")
        BY <2>1, <2>4, <3>3 DEF ReadsCommand
      <4> QED BY <1>1, <2>1, <3>1, <4>1, FirstStepsFit
    <3> QED BY <3>2, <3>3
  <2> QED BY <2>2, <2>3, <2>4
<1> QED BY <1>4, <1>5

\* What is left when the first step has been taken at position
\* todo[1].expected + 1 of the log.
LEMMA TailFits ==
  ASSUME NEW l \in Seq(Actions), NEW c, NEW run, RunFields \subseteq DOMAIN run,
         TodoFits(run, l, c),
         run.todo[1].expected + 1 <= Len(l),
         l[run.todo[1].expected + 1] = run.todo[1],
         run.todo[1].expected + 1 = Len(l) => c.motion = "none",
         run.todo[1].event \in LateEvents => Late(c),
         run.gen.call = 0 \/ \E k \in 1..Len(l) : l[k] = run.gen
  PROVE  RunFits(GoesOn(run, Tail(run.todo), run.then), l, c)
<1> DEFINE todo == run.todo
           rest == Tail(todo)
           s    == GoesOn(run, rest, run.then)
<1>1. todo \in Seq(Actions) /\ todo # <<>> /\ run.then \in {"continue", "advance", "reply"}
  BY DEF TodoFits
<1>2. /\ rest \in Seq(Actions) /\ Len(rest) = Len(todo) - 1 /\ Len(todo) \in Nat \ {0}
      /\ \A m \in 1..Len(rest) : rest[m] = todo[m + 1] /\ m + 1 \in 1..Len(todo)
  BY <1>1
<1>3. todo[1] \in Actions /\ todo[1].expected \in Nat /\ todo[1].id.step \in Nat
  <2>1. todo[1] \in Actions
    BY <1>1
  <2> QED BY <2>1 DEF Actions, Ids
<1> DEFINE first == todo[1].id.step
           e     == todo[1].expected
<1>4. /\ \A m \in 1..Len(todo) :
           /\ todo[m].expected = e + m - 1
           /\ todo[m].event \in PlayerEvents \cup RuntimeEvents
      /\ StepsAhead(run, l) \/ OwnStepAhead(run, l)
  BY DEF TodoFits
<1>5. /\ s.todo = rest /\ s.then = run.then /\ s.command = run.command
  BY GoesOnIs
<1> HIDE DEF rest, s
<1>6. CASE StepsAhead(run, l)
  <2>1. /\ run.command.request # 0 /\ run.then # "advance" /\ first # 0
        /\ first + Len(todo) - 1 = Size(run.command.intent)
        /\ \A m \in 1..Len(todo) : IsStep(todo[m], run.command, first + m - 1)
    BY <1>6 DEF StepsAhead
  <2>2. CASE rest = <<>>
    <3>1. Len(todo) = 1 /\ first = Size(run.command.intent)
      BY <1>2, <1>3, <2>1, <2>2
    <3>2. IsStep(todo[1], run.command, first)
      <4>1. IsStep(todo[1], run.command, first + 1 - 1) /\ first + 1 - 1 = first
        BY <1>3, <2>1, <3>1
      <4> QED BY <4>1
    <3>3. e + 1 \in 1..Len(l)
      BY <1>3
    <3>4. Served(run.command, l)
      BY <3>1, <3>2, <3>3 DEF Served
    <3> QED BY <1>1, <2>1, <2>2, <3>4, AppendingFits DEF rest
  <2>3. CASE rest # <<>>
    <3>1. 1 \in 1..Len(rest) /\ rest[1] = todo[2] /\ 2 \in 1..Len(todo)
      BY <1>2, <2>3
    <3>2. /\ IsStep(rest[1], run.command, first + 1)
          /\ rest[1].id.step = first + 1
          /\ rest[1].expected = e + 1
      <4>1. IsStep(todo[2], run.command, first + 2 - 1) /\ first + 2 - 1 = first + 1
        BY <1>3, <2>1, <3>1
      <4>2. todo[2].expected = e + 2 - 1
        BY <1>4, <3>1
      <4> QED BY <1>3, <3>1, <4>1, <4>2 DEF IsStep, StepId
    <3>3. IsStep(l[rest[1].expected], run.command, first)
      <4>1. IsStep(todo[1], run.command, first + 1 - 1) /\ first + 1 - 1 = first
        BY <1>2, <1>3, <2>1
      <4>2. IsStep(todo[1], run.command, first)
        BY <4>1
      <4> QED BY <3>2, <4>2
    <3>4. \A m \in 1..Len(rest) :
            /\ IsStep(rest[m], run.command, first + 1 + m - 1)
            /\ rest[m].expected = rest[1].expected + m - 1
            /\ rest[m].event \in PlayerEvents \cup RuntimeEvents
      <4> SUFFICES ASSUME NEW m \in 1..Len(rest)
                   PROVE  /\ IsStep(rest[m], run.command, first + 1 + m - 1)
                          /\ rest[m].expected = rest[1].expected + m - 1
                          /\ rest[m].event \in PlayerEvents \cup RuntimeEvents
        OBVIOUS
      <4>1. /\ rest[m] = todo[m + 1] /\ m + 1 \in 1..Len(todo)
        BY <1>2
      <4>a. m \in Nat /\ first \in Nat /\ e \in Nat
        BY <1>2, <1>3
      <4>2. /\ first + (m + 1) - 1 = first + 1 + m - 1
            /\ e + (m + 1) - 1 = e + 1 + m - 1
        <5> HIDE DEF first, e
        <5> QED BY <4>a
      <4>3. IsStep(todo[m + 1], run.command, first + (m + 1) - 1)
        BY <2>1, <4>1
      <4>4. todo[m + 1].expected = e + (m + 1) - 1
        BY <1>4, <4>1
      <4> QED BY <1>4, <3>2, <4>1, <4>2, <4>3, <4>4
    <3>5. first + 1 + Len(rest) - 1 = Size(run.command.intent)
      <4>1. first \in Nat /\ Len(rest) \in Nat /\ Len(todo) = Len(rest) + 1
        BY <1>2, <1>3
      <4>2. first + 1 + Len(rest) - 1 = first + Len(todo) - 1
        <5> HIDE DEF first, todo
        <5> QED BY <4>1
      <4> QED BY <2>1, <4>2
    <3>6. StepsAhead(s, l)
      <4>1. rest[1].expected # 0 /\ rest[1].id.step # 0
        BY <1>3, <3>2
      <4> DEFINE g == s.todo[1].id.step
      <4>2. g = first + 1 /\ g # 0
        BY <1>5, <3>2, <4>1
      <4>3. /\ g + Len(s.todo) - 1 = Size(s.command.intent)
            /\ \A m \in 1..Len(s.todo) : IsStep(s.todo[m], s.command, g + m - 1)
            /\ s.todo[1].expected # 0
            /\ IsStep(l[s.todo[1].expected], s.command, g - 1)
        <5> HIDE DEF g, first
        <5>1. g + Len(s.todo) - 1 = Size(s.command.intent)
          BY <1>5, <3>5, <4>2
        <5>2. \A m \in 1..Len(s.todo) : IsStep(s.todo[m], s.command, g + m - 1)
          BY <1>5, <3>4, <4>2
        <5>3. s.todo[1].expected # 0
          BY <1>5, <4>1
        <5>4. IsStep(l[s.todo[1].expected], s.command, g - 1)
          <6>1. g - 1 = first
            <7>1. first \in Nat
              BY <1>3 DEF first
            <7> QED BY <4>2, <7>1
          <6> QED BY <1>5, <3>3, <6>1
        <5> QED BY <5>1, <5>2, <5>3, <5>4
      <4>4. s.command.request # 0 /\ s.then # "advance"
        BY <1>5, <2>1
      <4> QED BY <4>2, <4>3, <4>4 DEF StepsAhead
    <3>7. Timely(rest[1], l, c)
      <4>1. rest[1].event # "strike"
        BY <3>1, <3>4 DEF PlayerEvents, RuntimeEvents, Offers
      <4> QED BY <3>2, <4>1 DEF Timely
    <3>8. TodoFits(s, l, c)
      BY <1>1, <1>2, <1>5, <2>3, <3>4, <3>6, <3>7 DEF TodoFits
    <3> QED BY <1>1, <2>3, <3>8, AppendingFits DEF s, rest
  <2> QED BY <2>2, <2>3
<1>7. CASE OwnStepAhead(run, l)
  <2>1. rest = <<>>
    BY <1>2, <1>7 DEF OwnStepAhead
  <2>2. Served(run.command, l) /\ (run.then = "advance" => Late(c))
    BY <1>7 DEF OwnStepAhead
  <2> QED BY <1>1, <2>1, <2>2, AppendingFits DEF rest
<1> QED BY <1>4, <1>6, <1>7

\* What a command enters is not what a model answers.
LEMMA DisjointEvents ==
  /\ "strike" \notin PlayerEvents \cup RuntimeEvents
  /\ Turns.judge \cap (PlayerEvents \cup RuntimeEvents) = {}
BY DEF PlayerEvents, RuntimeEvents, Offers, Turns

\* The first of the steps ahead, if the log accepts it.
LEMMA StepEnters ==
  ASSUME RuntimeInv, NEW r \in Runs, runs[r].at = "append",
         Verdict(runs[r].todo[1]) = "committed", Enter(runs[r].todo[1])
  PROVE  /\ Entering(runs[r].todo[1])
         /\ court.motion = "none"
<1> DEFINE run == runs[r]
           a   == run.todo[1]
<1>1. TodoFits(run, log, court) /\ RunFields \subseteq DOMAIN run
  BY DEF RuntimeInv, RunFits
<1>2. run.todo \in Seq(Actions) /\ run.todo # <<>> /\ 1 \in 1..Len(run.todo)
  BY <1>1 DEF TodoFits
<1>3. a \in Actions /\ a.event \in PlayerEvents \cup RuntimeEvents /\ Timely(a, log, court)
  BY <1>1, <1>2 DEF TodoFits
<1>4. a.expected = Version /\ Accepts(court, a.event) /\ ~Known(a.id)
  BY DEF Verdict
<1>5. court.motion = "none"
  BY <1>3, <1>4, DisjointEvents DEF Timely, Version
<1>6. CommandFits(run.command, log, attempts.commands)
  BY DEF RuntimeInv, CommandsFit, Live
<1>7. CASE OwnStepAhead(run, log)
  <2>1. a.id.kind # "command"
    BY <1>7 DEF OwnStepAhead
  <2> HIDE DEF a
  <2>2. NamedFor(a, log, attempts.commands)
    BY <2>1 DEF NamedFor
  <2>3. Enter(a)
    BY DEF a
  <2>4. Entering(a)
    BY <1>3, <1>4, <2>1, <2>2, <2>3 DEF Entering
  <2> QED BY <1>5, <2>4 DEF a
<1>8. CASE StepsAhead(run, log)
  <2> DEFINE first == a.id.step
  <2>1. /\ run.command.request # 0 /\ first # 0
        /\ IsStep(a, run.command, first + 1 - 1)
        /\ first > 1 => /\ a.expected # 0
                        /\ IsStep(log[a.expected], run.command, first - 1)
    BY <1>2, <1>8 DEF StepsAhead
  <2>2. a.expected \in Nat /\ first \in Nat
    BY <1>3 DEF Actions, Ids
  <2>3. /\ a.id = StepId(run.command, first)
        /\ StepsOf(a.event) = Size(run.command.intent)
    BY <2>1, <2>2 DEF IsStep
  <2>4. a.id.of = run.command.request /\ a.id.kind = "command"
    BY <2>3 DEF StepId
  <2>5. a.id.of \in 1..attempts.commands
    <3>1. attempts.commands \in Nat
      BY RuntimeAssumption DEF RuntimeInv, PageFits
    <3>2. run.command.request \in Nat
      BY <1>6 DEF CommandFits, Commands
    <3> QED BY <1>6, <2>1, <2>4, <3>1, <3>2 DEF CommandFits
  <2>6. NamedFor(a, log, attempts.commands)
    <3>1. CASE first = 1
      BY <2>5, <3>1 DEF NamedFor
    <3>2. CASE first > 1
      <4>1. a.expected \in 1..Len(log)
        BY <2>1, <2>2, <3>2, <1>3 DEF Timely
      <4>2. log[a.expected].id.kind = "command" /\ log[a.expected].id.of = a.id.of
        BY <2>1, <2>4, <3>2 DEF IsStep, StepId
      <4>3. \E j \in 1..Len(log) :
              log[j].id = [kind |-> "command", of |-> a.id.of, step |-> 1]
        BY <4>1, <4>2 DEF RuntimeInv, RecordFits
      <4> QED BY <2>5, <4>3 DEF NamedFor
    <3> QED BY <2>1, <2>2, <3>1, <3>2
  <2>7. \A command \in Live :
          a.id.kind = "command" /\ a.id.of = command.request
            => StepsOf(a.event) = Size(command.intent)
    <3> SUFFICES ASSUME NEW command \in Live, a.id.of = command.request
                 PROVE  StepsOf(a.event) = Size(command.intent)
      OBVIOUS
    <3>1. run.command \in Live
      BY DEF Live
    <3>2. command = run.command
      BY <2>1, <2>4, <3>1 DEF RuntimeInv, CommandsFit
    <3> QED BY <2>3, <3>2
  <2> HIDE DEF a
  <2>8. Enter(a)
    BY DEF a
  <2>9. Entering(a)
    BY <1>3, <1>4, <2>6, <2>7, <2>8 DEF Entering
  <2> QED BY <1>5, <2>9 DEF a
<1> QED BY <1>1, <1>7, <1>8 DEF TodoFits

\* The run appends a step, at the head it was made for or not at all.
LEMMA AppendStepKeeps ==
  ASSUME RuntimeInv, NEW r \in Runs, AppendStep(r)
  PROVE  RuntimeInv'
<1> DEFINE run     == runs[r]
           a       == run.todo[1]
           verdict == Verdict(a)
           s       == GoesOn(run, Tail(run.todo), run.then)
<1>1. run.at = "append" /\ UNCHANGED <<tab, attempts>>
  BY DEF AppendStep
<1>2. RunFits(run, log, court) /\ log \in Seq(Actions)
  BY DEF RuntimeInv, RecordFits
<1>3. TodoFits(run, log, court) /\ RunFields \subseteq DOMAIN run
  BY <1>1, <1>2 DEF RunFits
<1>4. run.todo \in Seq(Actions) /\ run.todo # <<>> /\ Head(run.todo) = a /\ a \in Actions
  <2>1. run.todo \in Seq(Actions) /\ run.todo # <<>>
    BY <1>3 DEF TodoFits
  <2> QED BY <2>1
<1>5. /\ Submit(a)
      /\ IF verdict \in {"committed", "replayed"}
           THEN Goes(r, s) ELSE Fails(r)
  BY <1>4 DEF AppendStep, Appends, GoesOn, Remaining
<1>6. a.event \in PlayerEvents \cup RuntimeEvents /\ a.expected \in Nat
  <2>1. 1 \in 1..Len(run.todo)
    BY <1>4
  <2> QED BY <1>3, <1>4, <2>1 DEF TodoFits, Actions
<1>7. run.gen.call = 0 \/ \E k \in 1..Len(log) : log[k] = run.gen
  BY <1>1, <1>2 DEF RunFits
<1>8. s.command = run.command
  BY <1>3, GoesOnIs
<1>9. CASE verdict = "committed"
  <2>1. Enter(a) /\ Goes(r, s)
    BY <1>5, <1>9 DEF Submit
  <2>2. Entering(a) /\ court.motion = "none" /\ a.expected = Len(log)
    BY <1>1, <1>9, <2>1, StepEnters DEF Entering, Version
  <2>3. log' = Append(log, a) /\ court' = After(court, a.event)
    BY <2>1 DEF Enter
  <2>4. /\ court'.motion = "none"
        /\ a.event \in LateEvents => Late(court')
    <3>1. Fits(court) /\ a.event \in AllEvents /\ Accepts(court, a.event)
      BY <2>2 DEF RuntimeInv, RecordFits, Entering, Actions
    <3> QED BY <1>6, <2>2, <2>3, <3>1, CourtStep, DisjointEvents
  <2>5. TodoFits(run, log', court')
    BY <1>2, <1>3, <1>4, <2>3, TodoGrows
  <2>6. /\ log' \in Seq(Actions) /\ a.expected + 1 = Len(log') /\ log'[a.expected + 1] = a
        /\ run.gen.call = 0 \/ \E k \in 1..Len(log') : log'[k] = run.gen
    BY <1>2, <1>4, <1>7, <2>2, <2>3, Longer
  <2>7. RunFits(s, log', court')
    BY <1>3, <1>6, <2>4, <2>5, <2>6, TailFits
  <2>8. /\ runs'[r] = s /\ \A q \in Runs : q # r => runs'[q] = runs[q]
        /\ DOMAIN runs' = Runs
    BY <2>1, Moves DEF RuntimeInv, PageFits
  <2>9. KeepsPage(log')
    <3>1. ViewFits(tab.view, log')
      BY <1>2, <1>4, <2>3, ViewGrows DEF RuntimeInv, PageFits
    <3> QED BY <1>1, <3>1 DEF KeepsPage, RuntimeInv, PageFits
  <2> QED BY <1>1, <1>8, <2>2, <2>7, <2>8, <2>9, EnterStep
<1>10. CASE verdict = "replayed"
  <2>1. UNCHANGED logVars /\ Goes(r, s)
    BY <1>5, <1>10 DEF Submit
  <2>2. PICK k \in 1..Len(log) : log[k] = a
    BY <1>10 DEF Verdict, Receipts
  <2>3. k = a.expected + 1
    <3>1. log[k].expected = k - 1
      BY DEF RuntimeInv, RecordFits
    <3>2. k \in Int /\ a.expected = k - 1
      BY <1>2, <2>2, <3>1
    <3> HIDE DEF a
    <3> QED BY <3>2
  <2>4. a.event \in LateEvents => Late(court)
    BY <2>2 DEF RuntimeInv, RecordFits
  <2>5. a.expected + 1 = Len(log) => court.motion = "none"
    BY <1>6, <2>2, <2>3, DisjointEvents DEF RuntimeInv, MotionFits
  <2>6. a.expected + 1 <= Len(log) /\ log[a.expected + 1] = a
    BY <1>2, <2>2, <2>3
  <2>7. RunFits(s, log, court)
    BY <1>2, <1>3, <1>7, <2>4, <2>5, <2>6, TailFits
  <2> HIDE DEF s
  <2> QED BY <1>1, <1>8, <2>1, <2>7, RunMoves
<1>11. CASE verdict \notin {"committed", "replayed"}
  BY <1>1, <1>5, <1>11, RunFails DEF Submit
<1> QED BY <1>9, <1>10, <1>11

\* The step the runtime makes of itself after a turn.
LEMMA OwnStepFits ==
  ASSUME RuntimeInv, NEW r \in Runs, NEW event \in LateEvents \cup {"release"},
         TakesOwnStep(r, event), UNCHANGED <<logVars, tab, attempts>>,
         Served(runs[r].command, log), court.motion = "none",
         runs[r].gen.call = 0 \/ \E k \in 1..Len(log) : log[k] = runs[r].gen
  PROVE  RuntimeInv'
<1> DEFINE run   == runs[r]
           a     == Action(OwnEvent(event), Version, event, 0)
           steps == <<a>>
           then  == IF event = "release" THEN "reply" ELSE "advance"
           s     == GoesOn(run, steps, then)
<1>1. log \in Seq(Actions) /\ Len(log) \in Nat
  <2>1. log \in Seq(Actions)
    BY DEF RuntimeInv, RecordFits
  <2> QED BY <2>1
<1>2. OwnEvent(event) \in Ids /\ OwnEvent(event).kind # "command"
  BY <1>1 DEF OwnEvent, Ids, Kinds, LateEvents, RuntimeEvents, Version
<1>3. /\ a \in Actions /\ a.expected = Len(log) /\ a.event = event
      /\ a.id.kind # "command" /\ a.event \in RuntimeEvents
  BY <1>1, <1>2 DEF Actions, Action, AllEvents, LateEvents, RuntimeEvents, Version
<1> HIDE DEF a
<1>4. /\ steps \in Seq(Actions) /\ steps # <<>> /\ Len(steps) = 1 /\ steps[1] = a
  BY <1>3
<1>5. RunFields \subseteq DOMAIN run
  BY DEF RuntimeInv, RunFits
<1> HIDE DEF steps
<1>6. s.todo = steps /\ s.then = then /\ s.command = run.command
  BY <1>5, GoesOnIs
<1>7. Goes(r, s)
  BY DEF TakesOwnStep, Appends, GoesOn, a, steps
<1>8. Timely(a, log, court)
  BY <1>1, <1>3, DisjointEvents DEF Timely
<1> HIDE DEF s
<1>9. TodoFits(s, log, court)
  <2>1. OwnStepAhead(s, log)
    BY <1>3, <1>4, <1>6 DEF OwnStepAhead
  <2>2. \A m \in 1..Len(steps) :
          /\ steps[m].expected = steps[1].expected + m - 1
          /\ steps[m].event \in PlayerEvents \cup RuntimeEvents
    <3> SUFFICES ASSUME NEW m \in 1..Len(steps)
                 PROVE  /\ steps[m].expected = steps[1].expected + m - 1
                        /\ steps[m].event \in PlayerEvents \cup RuntimeEvents
      OBVIOUS
    <3>1. m = 1
      BY <1>4
    <3> QED BY <1>1, <1>3, <1>4, <3>1
  <2> QED BY <1>4, <1>6, <1>8, <2>1, <2>2 DEF TodoFits
<1>10. RunFits(s, log, court)
  BY <1>4, <1>5, <1>9, AppendingFits DEF s
<1> QED BY <1>6, <1>7, <1>10, RunMoves

\* The run looks at the head again after its commit.
LEMMA ProceedsKeeps ==
  ASSUME RuntimeInv, NEW r \in Runs, NEW need \in Owed, Proceeds(r, need),
         UNCHANGED <<logVars, tab, attempts>>,
         Served(runs[r].command, log),
         court.motion # "none" => need = "judge",
         need = "counsel" /\ InChief(court) => Crossing(court),
         runs[r].gen.call = 0 \/ \E k \in 1..Len(log) : log[k] = runs[r].gen
  PROVE  RuntimeInv'
<1>1. /\ RuntimeEvents = LateEvents \cup {"release"}
      /\ "completed" \notin RuntimeEvents \cup DOMAIN Turns
      /\ "stale" \notin RuntimeEvents \cup DOMAIN Turns
      /\ RuntimeEvents \cap DOMAIN Turns = {}
      /\ "judge" \notin RuntimeEvents
  BY DEF RuntimeEvents, LateEvents, Turns
<1>2. CASE need = "completed"
  <2>1. AnswersPage(r)
    BY <1>1, <1>2 DEF Proceeds
  <2> QED BY <2>1, AnsweringFits
<1>3. CASE need = "stale"
  <2>1. Fails(r)
    BY <1>1, <1>3 DEF Proceeds
  <2> QED BY <2>1, RunFails
<1>4. CASE need \in RuntimeEvents
  <2>1. TakesOwnStep(r, need) /\ court.motion = "none"
    BY <1>1, <1>4 DEF Proceeds
  <2> QED BY <1>1, <1>4, <2>1, OwnStepFits
<1>5. CASE need \in DOMAIN Turns
  <2>1. IF runs[r].left = 0 THEN Fails(r) ELSE Asks(r, need)
    BY <1>1, <1>5 DEF Proceeds
  <2> QED BY <1>5, <2>1, RunFails, AskingFits
<1> QED BY <1>1, <1>2, <1>3, <1>4, <1>5 DEF Owed

LEMMA ContinueKeeps ==
  ASSUME RuntimeInv, NEW r \in Runs, Continue(r)
  PROVE  RuntimeInv'
<1>1. /\ runs[r].at \in {"continue", "advance", "reply"}
      /\ UNCHANGED <<logVars, tab, attempts>>
  BY DEF Continue
<1>2. /\ Served(runs[r].command, log)
      /\ runs[r].gen.call = 0 \/ \E k \in 1..Len(log) : log[k] = runs[r].gen
      /\ runs[r].at = "advance" => Late(court)
  BY <1>1 DEF RuntimeInv, RunFits
<1>3. Fits(court) /\ MotionFits(log, court)
  BY DEF RuntimeInv, RecordFits
<1>4. CASE runs[r].at = "continue"
  <2>1. Proceeds(r, Needs(court))
    BY <1>4 DEF Continue
  <2> QED BY <1>1, <1>2, <1>3, <2>1, NeedsIs, ProceedsKeeps
<1>5. CASE runs[r].at = "advance"
  <2>1. Proceeds(r, Advances(court))
    BY <1>5 DEF Continue
  <2>2. ~InChief(court) /\ court.motion = "none"
    BY <1>2, <1>3, <1>5 DEF Late, InChief, InSession, MotionFits
  <2> QED BY <1>1, <1>2, <1>3, <2>1, <2>2, AdvancesIs, ProceedsKeeps
<1>6. CASE runs[r].at = "reply"
  <2>1. AnswersPage(r)
    BY <1>6 DEF Continue
  <2> QED BY <1>1, <1>2, <2>1, AnsweringFits
<1> QED BY <1>1, <1>4, <1>5, <1>6

\* A run goes from one point of a generation to the next.
LEMMA GenerationMoves ==
  ASSUME RuntimeInv, NEW r \in Runs, runs[r].at \in {"model", "commit"},
         NEW at \in {"commit", "store", "failed"}, GoesTo(r, at),
         UNCHANGED <<logVars, tab, attempts>>
  PROVE  RuntimeInv'
<1> DEFINE s == [runs[r] EXCEPT !.at = at]
<1>1. /\ RunFields \subseteq DOMAIN s /\ s.at = at
      /\ s.command = runs[r].command /\ s.gen = runs[r].gen
  BY DEF RuntimeInv, RunFits, RunFields
<1>2. Goes(r, s)
  BY DEF GoesTo
<1>3. GenerationFits(runs[r].gen, log, court) /\ Served(runs[r].command, log)
  BY DEF RuntimeInv, RunFits
<1> HIDE DEF s
<1>4. RunFits(s, log, court)
  BY <1>1, <1>3 DEF RunFits
<1> QED BY <1>1, <1>2, <1>4, RunMoves

\* The model answers, the run checks its answer and stores it.
LEMMA ModelAnswersKeeps ==
  ASSUME RuntimeInv, NEW r \in Runs, ModelAnswers(r)
  PROVE  RuntimeInv'
BY GenerationMoves DEF ModelAnswers

LEMMA CheckGenerationKeeps ==
  ASSUME RuntimeInv, NEW r \in Runs, CheckGeneration(r)
  PROVE  RuntimeInv'
<1>1. PICK at \in {"store", "failed"} : GoesTo(r, at)
  BY DEF CheckGeneration
<1> QED BY <1>1, GenerationMoves DEF CheckGeneration

LEMMA StoreGenerationKeeps ==
  ASSUME RuntimeInv, NEW r \in Runs, StoreGeneration(r)
  PROVE  RuntimeInv'
<1> DEFINE run     == runs[r]
           gen     == run.gen
           verdict == Verdict(gen)
           s       == [run EXCEPT !.at = "continue", !.left = @ - 1]
<1>1. run.at = "store" /\ UNCHANGED <<tab, attempts>>
  BY DEF StoreGeneration
<1>2. /\ RunFields \subseteq DOMAIN run /\ log \in Seq(Actions)
      /\ GenerationFits(gen, log, court) /\ Served(run.command, log)
  BY <1>1 DEF RuntimeInv, RunFits, RecordFits
<1>3. /\ RunFields \subseteq DOMAIN s /\ s.at = "continue" /\ s.command = run.command
      /\ s.gen = gen
  BY <1>2 DEF RunFields
<1> HIDE DEF s
<1>4. CASE Claimed(gen) \/ verdict \notin {"committed", "replayed"}
  <2>1. UNCHANGED logVars /\ Fails(r)
    BY <1>4 DEF StoreGeneration, Submit
  <2> QED BY <1>1, <2>1, RunFails
<1>5. CASE ~Claimed(gen) /\ verdict = "replayed"
  <2>1. UNCHANGED logVars /\ Goes(r, s)
    BY <1>5 DEF StoreGeneration, Submit, s
  <2>2. \E k \in 1..Len(log) : log[k] = gen
    BY <1>5 DEF Verdict, Receipts
  <2>3. RunFits(s, log, court)
    BY <1>2, <1>3, <2>2 DEF RunFits
  <2> QED BY <1>1, <1>3, <2>1, <2>3, RunMoves
<1>6. CASE ~Claimed(gen) /\ verdict = "committed"
  <2>1. Enter(gen) /\ Goes(r, s)
    BY <1>6 DEF StoreGeneration, Submit, s
  <2>2. /\ gen.expected = Version /\ Accepts(court, gen.event)
        /\ gen \in Actions /\ Timely(gen, log, court) /\ gen.id.kind # "command"
    BY <1>2, <1>6 DEF Verdict, GenerationFits
  <2>3. Entering(gen)
    BY <2>1, <2>2 DEF Entering, NamedFor
  <2>4. log' = Append(log, gen)
    BY <2>1 DEF Enter
  <2>5. Served(run.command, log') /\ \E k \in 1..Len(log') : log'[k] = gen
    BY <1>2, <2>2, <2>4, ServedGrows, Longer
  <2>6. RunFits(s, log', court')
    BY <1>3, <2>5 DEF RunFits
  <2>7. /\ runs'[r] = s /\ \A q \in Runs : q # r => runs'[q] = runs[q]
        /\ DOMAIN runs' = Runs
    BY <2>1, Moves DEF RuntimeInv, PageFits
  <2>8. KeepsPage(log')
    <3>1. ViewFits(tab.view, log')
      BY <1>2, <2>2, <2>4, ViewGrows DEF RuntimeInv, PageFits
    <3> QED BY <1>1, <3>1 DEF KeepsPage, RuntimeInv, PageFits
  <2> QED BY <1>1, <1>3, <2>3, <2>6, <2>7, <2>8, EnterStep
<1> QED BY <1>4, <1>5, <1>6

\* A run is lost, and the page retries, recovers or gives up.
LEMMA BreaksKeeps ==
  ASSUME RuntimeInv, NEW r \in Runs, Breaks(r)
  PROVE  RuntimeInv'
BY RunFails DEF Breaks
-----------------------------------------------------------------------------
(***************************************************************************)
(* The page and the holder of the claim.                                   *)
(***************************************************************************)
ReadyRun(command) ==
  [IdleRun EXCEPT !.at = "read", !.command = command, !.left = MaxModelSteps]

LEMMA ReadyFits ==
  ASSUME NEW command, command.intent # "none", NEW l, NEW c
  PROVE  RunFits(ReadyRun(command), l, c) /\ ReadyRun(command).command = command
<1> DEFINE s == ReadyRun(command)
<1>1. /\ RunFields \subseteq DOMAIN s /\ s.at = "read" /\ s.command = command
      /\ s.gen = NoGeneration
  BY DEF ReadyRun, IdleRun, RunFields
<1>2. NoGeneration.call = 0
  BY DEF NoGeneration, Action
<1> HIDE DEF s
<1>3. RunFits(s, l, c)
  BY <1>1, <1>2 DEF RunFits
<1> QED BY <1>1, <1>3 DEF s

LEMMA ViewAfterFailureFits ==
  ASSUME RuntimeInv, NEW command
  PROVE  ViewFits(ViewAfterFailure(command), log)
BY HeadViewFits DEF ViewAfterFailure, RuntimeInv, PageFits

\* What the page has, field by field.
LEMMA PageIs ==
  ASSUME RuntimeInv
  PROVE  /\ {"pending", "waiting", "view", "reloaded", "confirmed"} \subseteq DOMAIN tab
         /\ {"requests", "commands"} \subseteq DOMAIN attempts
         /\ ViewFits(tab.view, log)
         /\ tab.pending \in Live
         /\ CommandFits(tab.pending, log, attempts.commands)
         /\ DOMAIN runs = Runs
         /\ attempts.commands \in Nat
BY RuntimeAssumption DEF RuntimeInv, PageFits, Live, CommandsFit

LEMMA RetryKeeps ==
  ASSUME RuntimeInv, NEW r \in Runs, Retry(r)
  PROVE  RuntimeInv'
<1>1. tab.pending.intent # "none"
  BY PageIs DEF Retry, CommandFits
<1>2. Goes(r, ReadyRun(tab.pending)) /\ UNCHANGED logVars
  BY DEF Retry, Sends, Ready, ReadyRun
<1>3. /\ tab'.pending = tab.pending /\ attempts'.commands = attempts.commands
      /\ KeepsPage(log)
  BY PageIs DEF Retry, KeepsPage
<1> QED BY <1>1, <1>2, <1>3, ReadyFits, PageIs, QuietMove

LEMMA RecoverKeeps ==
  ASSUME RuntimeInv, NEW r \in Runs, Recover(r)
  PROVE  RuntimeInv'
<1>1. Recovery.intent # "none"
  BY DEF Recovery
<1>2. Goes(r, ReadyRun(Recovery)) /\ UNCHANGED logVars
  BY DEF Recover, Sends, Ready, ReadyRun
<1>3. /\ tab'.pending = tab.pending /\ attempts'.commands = attempts.commands
      /\ KeepsPage(log)
  BY PageIs DEF Recover, KeepsPage
<1> QED BY <1>1, <1>2, <1>3, ReadyFits, PageIs, QuietMove

\* The answer of a run reaches the page.
LEMMA DeliveredKeeps ==
  ASSUME RuntimeInv, NEW r \in Runs, Delivered(r)
  PROVE  RuntimeInv'
<1>1. /\ UNCHANGED <<logVars, attempts>> /\ Goes(r, IdleRun)
      /\ runs[r].at \in {"done", "failed"}
  BY DEF Delivered
<1>2. RunFits(IdleRun, log, court) /\ IdleRun.command = NoCommand
  BY IdleFits
<1>3. tab'.pending \in Live \cup {NoCommand} /\ KeepsPage(log)
  <2>1. CASE Settled(runs[r])
    <3>1. ViewFits(runs[r].seen, log)
      BY <2>1 DEF Settled, RuntimeInv, RunFits
    <3> QED BY <1>1, <2>1, <3>1, PageIs DEF Delivered, KeepsPage
  <2>2. CASE ~Settled(runs[r])
    BY <1>1, <2>2, PageIs, ViewAfterFailureFits DEF Delivered, KeepsPage
  <2> QED BY <2>1, <2>2
<1> QED BY <1>1, <1>2, <1>3, QuietMove

LEMMA ForgottenKeeps ==
  ASSUME RuntimeInv, NEW r \in Runs, Forgotten(r)
  PROVE  RuntimeInv'
BY IdleFits, RunMoves DEF Forgotten

\* What only the page does.
LEMMA PageMoves ==
  ASSUME RuntimeInv, UNCHANGED <<logVars, runs, attempts>>, KeepsPage(log),
         tab'.pending \in {tab.pending, NoCommand}
  PROVE  RuntimeInv'
<1>1. MakesNoCommand
  BY DEF MakesNoCommand, Live
<1>2. DOMAIN runs' = Runs /\ \A q \in Runs : RunFits(runs'[q], log, court)
  BY PageIs DEF RuntimeInv
<1> QED BY <1>1, <1>2, QuietStep

LEMMA GivesUpKeeps ==
  ASSUME RuntimeInv, NEW r \in Runs, GivesUp(r)
  PROVE  RuntimeInv'
<1>1. KeepsPage(log) /\ tab'.pending = tab.pending
  BY PageIs, ViewAfterFailureFits DEF GivesUp, KeepsPage
<1> QED BY <1>1, PageMoves DEF GivesUp

LEMMA ReloadKeeps ==
  ASSUME RuntimeInv, Reload
  PROVE  RuntimeInv'
<1>1. KeepsPage(log) /\ tab'.pending = NoCommand
  BY PageIs, HeadViewFits DEF Reload, KeepsPage
<1> QED BY <1>1, PageMoves DEF Reload

\* A new command: none of its steps is on record.
LEMMA IssueKeeps ==
  ASSUME RuntimeInv, NEW r \in Runs, NEW intent \in Intents, Issue(r, intent)
  PROVE  RuntimeInv'
<1> DEFINE n       == attempts.commands
           command == [request |-> n + 1, intent |-> intent,
                       expected |-> tab.view.version]
<1>1. /\ n < MaxCommands /\ MayChoose(tab.view.court, intent)
      /\ Goes(r, ReadyRun(command)) /\ UNCHANGED logVars
      /\ tab' = [tab EXCEPT !.pending = command, !.waiting = r, !.reloaded = FALSE]
      /\ attempts' = [requests |-> attempts.requests + 1, commands |-> n + 1]
  BY DEF Issue, Sends, Ready, ReadyRun
<1>2. /\ n \in Nat /\ MaxCommands \in Nat
      /\ tab.view.version \in Nat /\ tab.view.version <= Len(log)
      /\ tab.view.court.phase = "none" => tab.view.version = 0
  BY PageIs, RuntimeAssumption DEF ViewFits
<1>3. /\ intent \in PlayerIntents /\ intent \in IntentsKnown
      /\ intent \notin {"none", "recover"}
  BY RuntimeAssumption DEF PlayerIntents, Offers, IntentsKnown
<1>4. log' = log /\ court' = court /\ attempts'.commands = n + 1
  BY <1>1 DEF logVars
<1>5. /\ command \in Commands /\ command.request = n + 1 /\ command.intent = intent
      /\ command.expected = tab.view.version
  BY <1>2, <1>3 DEF Commands
<1>6. intent = "start" => tab.view.court.phase = "none"
  BY <1>1 DEF MayChoose
<1> HIDE DEF command
<1>7. /\ tab'.pending = command /\ tab'.view = tab.view
      /\ {"pending", "waiting", "view", "reloaded", "confirmed"} \subseteq DOMAIN tab'
  BY <1>1, PageIs
<1>8. /\ runs'[r] = ReadyRun(command) /\ \A q \in Runs : q # r => runs'[q] = runs[q]
      /\ DOMAIN runs' = Runs
  BY <1>1, PageIs, Moves
<1>9. RunFits(ReadyRun(command), log, court) /\ ReadyRun(command).command = command
  BY <1>3, <1>5, ReadyFits
<1>10. \A k \in 1..Len(log) :
         log[k].id.kind = "command" => log[k].id.of \in 1..n
  BY DEF RuntimeInv, RecordFits
<1>11. CommandFits(command, log, n + 1)
  <2>1. \A k \in 1..Len(log) : log[k].id.kind = "command" => log[k].id.of # n + 1
    <3> HIDE DEF n
    <3> QED BY <1>2, <1>10
  <2> HIDE DEF n
  <2> QED BY <1>2, <1>3, <1>5, <1>6, <2>1 DEF CommandFits
<1>12. \A old \in Live : CommandFits(old, log, n + 1) /\ old.request # n + 1
  <2> SUFFICES ASSUME NEW old \in Live
               PROVE  CommandFits(old, log, n + 1) /\ old.request # n + 1
    OBVIOUS
  <2>1. CommandFits(old, log, n)
    BY DEF RuntimeInv, CommandsFit
  <2>2. old.request \in Nat
    BY <2>1 DEF CommandFits, Commands
  <2> HIDE DEF n
  <2>3. old.request <= n + 1 /\ old.request # n + 1
    BY <1>2, <2>1, <2>2 DEF CommandFits
  <2> QED BY <2>1, <2>3 DEF CommandFits
<1>13. \A one \in Live' : one = command \/ one \in Live
  BY <1>7, <1>8, <1>9 DEF Live
<1>14. CommandsFit'
  <2>1. \A one \in Live' : CommandFits(one, log', attempts'.commands)
    BY <1>4, <1>11, <1>12, <1>13
  <2>2. \A one, other \in Live' :
          one.request = other.request /\ one.request # 0 => one = other
    BY <1>5, <1>12, <1>13 DEF RuntimeInv, CommandsFit
  <2> QED BY <2>1, <2>2 DEF CommandsFit
<1>15. RecordFits(log', court', attempts'.commands)
  <2>1. \A k \in 1..Len(log) :
          log[k].id.kind = "command" => log[k].id.of \in 1..(n + 1)
    <3> HIDE DEF n
    <3> QED BY <1>2, <1>10
  <2>2. RecordFits(log, court, n + 1)
    BY <2>1 DEF RuntimeInv, RecordFits
  <2> QED BY <1>4, <2>2
<1>16. MotionFits(log', court') /\ \A q \in Runs : RunFits(runs'[q], log', court')
  BY <1>4, <1>8, <1>9 DEF RuntimeInv
<1>17. PageFits'
  <2>1. attempts'.commands \in 0..MaxCommands
    <3> HIDE DEF n
    <3> QED BY <1>1, <1>2, <1>4
  <2>2. {"requests", "commands"} \subseteq DOMAIN attempts'
    BY <1>1
  <2> QED BY <1>4, <1>7, <1>8, <2>1, <2>2, PageIs DEF PageFits
<1> QED BY <1>14, <1>15, <1>16, <1>17 DEF RuntimeInv

\* An action that is entered beside the runs, by the holder of the interruption.
LEMMA EntersKeeps ==
  ASSUME RuntimeInv, NEW kind \in {"challenge", "holder"}, NEW step \in {0, 1},
         NEW event \in TurnEvents \cup {"challenge"}, Enters(kind, event, step),
         attempts'.commands = attempts.commands,
         {"requests", "commands"} \subseteq DOMAIN attempts',
         court.motion = "none", event # "strike"
  PROVE  RuntimeInv'
<1> DEFINE id == [kind |-> kind, of |-> Version, step |-> step]
           a  == Action(id, Version, event, 0)
<1>1. log \in Seq(Actions) /\ Len(log) \in Nat
  <2>1. log \in Seq(Actions)
    BY DEF RuntimeInv, RecordFits
  <2> QED BY <2>1
<1>2. id \in Ids /\ id.kind # "command"
  BY <1>1 DEF Ids, Kinds, Version
<1> HIDE DEF id
<1>3. /\ a \in Actions /\ a.expected = Len(log) /\ a.event = event
      /\ a.id.kind # "command"
  BY <1>1, <1>2 DEF Actions, Action, AllEvents, Version
<1>4. /\ Accepts(court, event) /\ Enter(a) /\ runs' = runs
      /\ tab' = IF Waits THEN tab
                ELSE [tab EXCEPT !.view = [version |-> Len(log'), court |-> court']]
  BY DEF Enters, a, id
<1> HIDE DEF a
<1>5. Entering(a)
  BY <1>1, <1>3, <1>4 DEF Entering, NamedFor, Timely, Version
<1>6. log' = Append(log, a) /\ court' = After(court, event)
  BY <1>3, <1>4 DEF Enter
<1>7. /\ ViewFits(tab.view, log')
      /\ Len(log') \in Nat
  BY <1>1, <1>3, <1>6, ViewGrows, PageIs, Longer
<1>8. court'.phase # "none"
  <2>1. Fits(court) /\ event \in AllEvents
    BY DEF RuntimeInv, RecordFits, AllEvents
  <2> QED BY <1>4, <1>6, <2>1, CourtStep DEF Follows
<1>9. ViewFits([version |-> Len(log'), court |-> court'], log')
  BY <1>7, <1>8 DEF ViewFits
<1>10. KeepsPage(log') /\ tab'.pending = tab.pending
  BY <1>4, <1>7, <1>9, PageIs DEF KeepsPage
<1> QED BY <1>4, <1>5, <1>10, PageIs, EnterStep

LEMMA ChallengeKeeps ==
  ASSUME RuntimeInv, Challenge
  PROVE  RuntimeInv'
<1>1. Enters("challenge", "challenge", 1) /\ attempts' = [attempts EXCEPT !.requests = @ + 1]
  BY DEF Challenge
<1>2. court.motion = "none"
  <2>1. MayChallenge(court)
    BY <1>1 DEF Enters, Accepts
  <2> QED BY <2>1 DEF MayChallenge, MayAsk, Conducts, OwnerOf, RuntimeInv, MotionFits,
                      Crossing
<1>3. /\ attempts'.commands = attempts.commands
      /\ {"requests", "commands"} \subseteq DOMAIN attempts'
  BY <1>1, PageIs
<1> QED BY <1>1, <1>2, <1>3, EntersKeeps

LEMMA HolderActsKeeps ==
  ASSUME RuntimeInv, HolderActs
  PROVE  RuntimeInv'
<1>1. PICK event \in AnswerWords(court) \cup RulingWords(court) : Enters("holder", event, 0)
  BY DEF HolderActs
<1>2. event \in TurnEvents /\ event # "strike"
  BY TurnEventsAre DEF AnswerWords, RulingWords, RulingOutcomes, Turns
<1>3. court.motion = "none"
  <2>1. court.asker = "user" /\ FloorFits(court)
    BY DEF HolderActs, NeedsClaim, RuntimeInv, RecordFits, Fits
  <2>2. OwnerOf(court.stage) = "user"
    BY <2>1 DEF FloorFits, Conducts, Nobody
  <2> QED BY <2>2 DEF OwnerOf, RuntimeInv, MotionFits, Crossing
<1>4. attempts' = attempts
  BY DEF HolderActs
<1> QED BY <1>1, <1>2, <1>3, <1>4, PageIs, EntersKeeps

\* A hearing may be opened at any record the court can be in.
LEMMA InitFits ==
  ASSUME Init
  PROVE  RuntimeInv
<1>1. log = <<>> /\ court \in InitialCourts /\ Len(log) = 0 /\ log \in Seq(Actions)
  BY DEF Init
<1>2. Fits(court) /\ court.motion = "none"
  BY <1>1, RuntimeAssumption DEF Court, Fits, CourtFields
<1>3. RecordFits(log, court, 0) /\ MotionFits(log, court)
  BY <1>1, <1>2 DEF RecordFits, MotionFits
<1>4. /\ attempts = [requests |-> 0, commands |-> 0] /\ runs = [q \in Runs |-> IdleRun]
      /\ tab = [InitialTab EXCEPT !.view = HeadView]
  BY DEF Init
<1>5. \A q \in Runs : RunFits(runs[q], log, court) /\ runs[q].command = NoCommand
  BY <1>4, IdleFits
<1>6. /\ tab.pending = NoCommand /\ tab.view = HeadView
      /\ {"pending", "waiting", "view", "reloaded", "confirmed"} \subseteq DOMAIN tab
  BY <1>4 DEF InitialTab
<1>7. CommandsFit
  <2>1. \A command \in Live : command = NoCommand
    BY <1>5, <1>6 DEF Live
  <2>2. CommandFits(NoCommand, log, attempts.commands)
    BY <1>3, <1>4, NoCommandFits
  <2> QED BY <2>1, <2>2 DEF CommandsFit
<1>8. ViewFits(HeadView, log)
  BY <1>1 DEF ViewFits, HeadView, Version
<1>9. PageFits
  BY <1>4, <1>6, <1>8, RuntimeAssumption DEF PageFits
<1> QED BY <1>3, <1>4, <1>5, <1>7, <1>9 DEF RuntimeInv

\* The invariant is inductive.
LEMMA NextKeeps ==
  ASSUME RuntimeInv, [Next]_vars
  PROVE  RuntimeInv'
<1>1. CASE UNCHANGED vars
  <2>1. KeepsPage(log)
    BY <1>1, PageIs DEF vars, KeepsPage
  <2> QED BY <1>1, <2>1, PageMoves DEF vars
<1>2. ASSUME NEW r \in Runs, RunStep(r)
      PROVE  RuntimeInv'
  BY <1>2, ReadHeadKeeps, AppendStepKeeps, ContinueKeeps, ModelAnswersKeeps,
     CheckGenerationKeeps, StoreGenerationKeeps DEF RunStep
<1>3. ASSUME NEW r \in Runs, PageStep(r)
      PROVE  RuntimeInv'
  BY <1>3, IssueKeeps, RetryKeeps, RecoverKeeps, GivesUpKeeps DEF PageStep
<1>4. ASSUME NEW r \in Runs, Breaks(r) \/ Delivered(r) \/ Forgotten(r)
      PROVE  RuntimeInv'
  BY <1>4, BreaksKeeps, DeliveredKeeps, ForgottenKeeps
<1>5. CASE Reload \/ Challenge \/ HolderActs
  BY <1>5, ReloadKeeps, ChallengeKeeps, HolderActsKeeps
<1> QED BY <1>1, <1>2, <1>3, <1>4, <1>5 DEF Next

\* Whatever runs, commands, retries and reloads there are, and in whatever order they
\* reach the log: what a run has still to do fits what is on record.
THEOREM RuntimeStaysInOrder == Spec => []RuntimeInv
BY InitFits, NextKeeps, PTL DEF Spec

\* A run that goes on after its commit has its own call on record: what is announced in
\* the courtroom is what was committed, though another run may have generated too
\* (commitTurn of hearingRuntime.ts).
THEOREM OwnWordsStayOnRecord == Spec => []OwnWordsOnRecord
<1>1. RuntimeInv => OwnWordsOnRecord
  BY DEF RuntimeInv, RunFits, OwnWordsOnRecord
<1> QED BY <1>1, RuntimeStaysInOrder, PTL

\* A motion to strike is ruled on before anything else enters the record.
THEOREM MotionsAreRuledAtOnce == Spec => []MotionIsRuledAtOnce
<1>1. RuntimeInv => MotionIsRuledAtOnce
  BY DEF RuntimeInv, MotionFits, MotionIsRuledAtOnce
<1> QED BY <1>1, RuntimeStaysInOrder, PTL

-----------------------------------------------------------------------------
(***************************************************************************)
(* The ledger of commands.                                                 *)
(***************************************************************************)
Entries(l) == [i \in 1..Len(l) |-> EntryOf(l[i])]

\* The entry of an action in the abstract ledger.
LEMMA EntryIs ==
  ASSUME NEW a \in Actions
  PROVE  EntryOf(a) \in [request : Nat, step : Nat, of : Nat]
<1>1. StepsOf(a.event) \in Nat
  BY DEF StepsOf
<1>2. a.id.of \in Nat /\ a.id.step \in Nat
  BY DEF Actions, Ids
<1> QED BY <1>1, <1>2 DEF EntryOf

LEMMA EntriesGrow ==
  ASSUME NEW l \in Seq(Actions), NEW a \in Actions
  PROVE  /\ Entries(Append(l, a)) = Append(Entries(l), EntryOf(a))
         /\ Len(Entries(l)) = Len(l)
         /\ \A k \in 1..Len(l) : Entries(l)[k] = EntryOf(l[k])
<1> DEFINE E  == [request : Nat, step : Nat, of : Nat]
           ll == Append(l, a)
           es == Append(Entries(l), EntryOf(a))
<1>1. Len(l) \in Nat /\ \A k \in 1..Len(l) : EntryOf(l[k]) \in E
  BY EntryIs
<1> HIDE DEF E
<1>2. /\ Entries(l) \in Seq(E) /\ Len(Entries(l)) = Len(l)
      /\ \A k \in 1..Len(l) : Entries(l)[k] = EntryOf(l[k])
  BY <1>1 DEF Entries
<1>3. ll \in Seq(Actions) /\ Len(ll) = Len(l) + 1
  BY Longer
<1>4. \A k \in 1..Len(ll) : EntryOf(ll[k]) \in E
  BY <1>3, EntryIs DEF E
<1>5. /\ Entries(ll) \in Seq(E) /\ Len(Entries(ll)) = Len(l) + 1
      /\ \A k \in 1..(Len(l) + 1) : Entries(ll)[k] = EntryOf(ll[k])
  <2> HIDE DEF ll
  <2> QED BY <1>1, <1>3, <1>4 DEF Entries
<1>6. EntryOf(a) \in E
  BY EntryIs DEF E
<1>7. /\ es \in Seq(E) /\ Len(es) = Len(l) + 1
      /\ \A k \in 1..Len(l) : es[k] = EntryOf(l[k])
      /\ es[Len(l) + 1] = EntryOf(a)
  BY <1>1, <1>2, <1>6
<1>8. \A k \in 1..(Len(l) + 1) : Entries(ll)[k] = es[k]
  <2>1. /\ \A k \in 1..Len(l) : ll[k] = l[k]
        /\ ll[Len(l) + 1] = a
        /\ 1..(Len(l) + 1) = (1..Len(l)) \cup {Len(l) + 1}
    BY <1>3, Longer
  <2> HIDE DEF ll, es
  <2> QED BY <1>5, <1>7, <2>1
<1> HIDE DEF ll, es
<1>9. Entries(ll) = es
  BY <1>1, <1>5, <1>7, <1>8
<1> QED BY <1>2, <1>9 DEF ll, es

\* The ledger is a view of the log and of what the page was told.
LEMMA LedgerIs ==
  /\ Ledger!ledgerVars = <<Entries(log), tab.confirmed>>
  /\ Ledger!ledgerVars' = <<Entries(log'), tab'.confirmed>>
BY DEF Ledger!ledgerVars, Entries

\* A step that neither enters nor confirms is none of the ledger.
LEMMA LedgerStutters ==
  ASSUME log' = log, tab'.confirmed = tab.confirmed
  PROVE  UNCHANGED Ledger!ledgerVars
BY LedgerIs

LEMMA CourtActsInLedger ==
  ASSUME RuntimeInv, NEW a \in Actions, a.id.kind # "command",
         log' = Append(log, a), tab'.confirmed = tab.confirmed
  PROVE  Ledger!CourtActs
<1>1. Entries(log') = Append(Entries(log), EntryOf(a))
  BY EntriesGrow DEF RuntimeInv, RecordFits
<1>2. EntryOf(a) = [request |-> 0, step |-> 0, of |-> 0]
  BY DEF EntryOf
<1> QED BY <1>1, <1>2 DEF Ledger!CourtActs, Ledger!Entry, Entries

LEMMA SizesAre ==
  ASSUME NEW intent
  PROVE  Size(intent) \in 0..5
BY DEF Size

\* A step of a command is the next one of the ledger's.
LEMMA CommandStepInLedger ==
  ASSUME RuntimeInv, NEW r \in Runs, runs[r].at = "append", StepsAhead(runs[r], log),
         Verdict(runs[r].todo[1]) = "committed", Enter(runs[r].todo[1]),
         tab'.confirmed = tab.confirmed
  PROVE  Ledger!Next
<1> DEFINE run   == runs[r]
           a     == run.todo[1]
           size  == Size(run.command.intent)
           first == a.id.step
           n     == run.command.request
<1>1. /\ run.todo \in Seq(Actions) /\ run.todo # <<>> /\ 1 \in 1..Len(run.todo)
      /\ Len(run.todo) \in Nat /\ Len(run.todo) >= 1
  <2>1. run.todo \in Seq(Actions) /\ run.todo # <<>>
    BY DEF RuntimeInv, RunFits, TodoFits
  <2> QED BY <2>1
<1>2. a \in Actions /\ first \in Nat /\ size \in 0..5
  <2>1. a \in Actions
    BY <1>1
  <2> QED BY <2>1, SizesAre DEF Actions, Ids
<1>3. a.expected = Len(log) /\ ~Known(a.id)
  BY DEF Verdict, Version
<1>4. /\ n # 0 /\ first # 0 /\ first + Len(run.todo) - 1 = size
      /\ IsStep(a, run.command, first + 1 - 1)
      /\ first > 1 => /\ a.expected # 0
                      /\ IsStep(log[a.expected], run.command, first - 1)
  BY <1>1 DEF StepsAhead
<1> HIDE DEF a, first, size
<1>5. size \in 1..5 /\ first \in 1..size
  BY <1>1, <1>2, <1>4
<1>6. a.id = StepId(run.command, first) /\ StepsOf(a.event) = size
  <2>1. first + 1 - 1 = first
    BY <1>2
  <2> QED BY <1>4, <2>1 DEF IsStep, size
<1>7. EntryOf(a) = [request |-> n, step |-> first, of |-> size]
  BY <1>6 DEF EntryOf, StepId
<1>8. n \in 1..MaxCommands
  <2>1. CommandFits(run.command, log, attempts.commands)
    BY DEF RuntimeInv, CommandsFit, Live
  <2>2. n \in Nat /\ n <= attempts.commands
    BY <2>1 DEF CommandFits, Commands
  <2>3. attempts.commands \in 0..MaxCommands /\ MaxCommands \in Nat
    BY RuntimeAssumption DEF RuntimeInv, PageFits
  <2> QED BY <1>4, <2>2, <2>3
<1>9. log \in Seq(Actions) /\ Len(log) \in Nat /\ log' = Append(log, a)
  <2>1. log \in Seq(Actions)
    BY DEF RuntimeInv, RecordFits
  <2> QED BY <2>1 DEF Enter, a
<1>10. /\ Entries(log') = Append(Entries(log), EntryOf(a))
       /\ Len(Entries(log)) = Len(log)
       /\ \A k \in 1..Len(log) : Entries(log)[k] = EntryOf(log[k])
  BY <1>2, <1>9, EntriesGrow
<1>11. CASE first = 1
  <2>1. ~ \E k \in 1..Len(Entries(log)) : Entries(log)[k].request = n
    <3> SUFFICES ASSUME NEW k \in 1..Len(log), EntryOf(log[k]).request = n
                 PROVE  FALSE
      BY <1>10
    <3>1. log[k].id.kind = "command" /\ log[k].id.of = n
      BY <1>4 DEF EntryOf
    <3>2. PICK j \in 1..Len(log) : log[j].id = [kind |-> "command", of |-> n, step |-> 1]
      BY <3>1 DEF RuntimeInv, RecordFits
    <3>3. log[j].id = a.id
      BY <1>6, <1>11, <3>2 DEF StepId
    <3> QED BY <1>3, <3>3 DEF Known, Receipts
  <2>2. Ledger!CommandBegins(n, size)
    BY <1>7, <1>10, <1>11, <2>1 DEF Ledger!CommandBegins, Ledger!Entered, Ledger!Entry,
                                    Entries
  <2> QED BY <1>5, <1>8, <2>2 DEF Ledger!Next
<1>12. CASE first > 1
  <2>1. Len(log) \in 1..Len(log) /\ IsStep(log[Len(log)], run.command, first - 1)
    BY <1>3, <1>4, <1>9, <1>12
  <2>2. EntryOf(log[Len(log)]) = [request |-> n, step |-> first - 1, of |-> size]
    BY <2>1 DEF IsStep, EntryOf, StepId, size
  <2>3. Entries(log)[Len(Entries(log))] = [request |-> n, step |-> first - 1, of |-> size]
    BY <1>10, <2>1, <2>2
  <2>4. Entries(log) # <<>>
    BY <1>10, <2>1
  <2>5. first - 1 < size /\ first - 1 + 1 = first
    BY <1>2, <1>5
  <2>6. EntryOf(a) = [[request |-> n, step |-> first - 1, of |-> size] EXCEPT !.step = @ + 1]
    BY <1>7, <2>5
  <2> DEFINE last == Entries(log)[Len(Entries(log))]
  <2>7. last.step < last.of /\ EntryOf(a) = [last EXCEPT !.step = @ + 1]
    BY <2>3, <2>5, <2>6
  <2>8. Entries(log') = Append(Entries(log), [last EXCEPT !.step = @ + 1])
    BY <1>10, <2>7
  <2> HIDE DEF last
  <2>9. tab'.confirmed = tab.confirmed /\ last = Entries(log)[Len(Entries(log))]
    BY DEF last
  <2>10. Ledger!CommandProceeds
    BY <2>4, <2>7, <2>8, <2>9, Zenon DEF Ledger!CommandProceeds, Entries
  <2> QED BY <2>10 DEF Ledger!Next
<1> QED BY <1>5, <1>11, <1>12

\* The actions of the runtime, as steps of the ledger.
LEMMA AppendStepInLedger ==
  ASSUME RuntimeInv, NEW r \in Runs, AppendStep(r)
  PROVE  [Ledger!Next]_Ledger!ledgerVars
<1> DEFINE run == runs[r]
           a   == run.todo[1]
<1>1. run.at = "append" /\ UNCHANGED <<tab, attempts>> /\ Submit(Head(run.todo))
  BY DEF AppendStep
<1>2. TodoFits(run, log, court)
  BY <1>1 DEF RuntimeInv, RunFits
<1>3. Head(run.todo) = a /\ a \in Actions
  <2>1. run.todo \in Seq(Actions) /\ run.todo # <<>>
    BY <1>2 DEF TodoFits
  <2> QED BY <2>1
<1> HIDE DEF a
<1>4. CASE Verdict(a) # "committed"
  BY <1>1, <1>3, <1>4, LedgerStutters DEF Submit, logVars
<1>5. CASE Verdict(a) = "committed" /\ StepsAhead(run, log)
  <2>1. Enter(a)
    BY <1>1, <1>3, <1>5 DEF Submit
  <2> QED BY <1>1, <1>5, <2>1, CommandStepInLedger DEF a
<1>6. CASE Verdict(a) = "committed" /\ OwnStepAhead(run, log)
  <2>1. log' = Append(log, a)
    BY <1>1, <1>3, <1>6 DEF Submit, Enter
  <2>2. a.id.kind # "command"
    BY <1>6 DEF OwnStepAhead, a
  <2> QED BY <1>1, <1>3, <2>1, <2>2, CourtActsInLedger DEF Ledger!Next
<1> QED BY <1>2, <1>4, <1>5, <1>6 DEF TodoFits

LEMMA StoreGenerationInLedger ==
  ASSUME RuntimeInv, NEW r \in Runs, StoreGeneration(r)
  PROVE  [Ledger!Next]_Ledger!ledgerVars
<1> DEFINE gen == runs[r].gen
<1>1. gen \in Actions /\ gen.id.kind # "command"
  BY DEF StoreGeneration, RuntimeInv, RunFits, GenerationFits
<1>2. tab' = tab /\ (UNCHANGED log \/ log' = Append(log, gen))
  BY DEF StoreGeneration, Submit, Enter, logVars
<1> QED BY <1>1, <1>2, LedgerStutters, CourtActsInLedger DEF Ledger!Next

\* A command is confirmed when its last step is on record.
LEMMA DeliveredInLedger ==
  ASSUME RuntimeInv, NEW r \in Runs, Delivered(r)
  PROVE  [Ledger!Next]_Ledger!ledgerVars
<1> DEFINE command == runs[r].command
           told    == Told(command)
           size    == Size(command.intent)
<1>1. log' = log
  BY DEF Delivered, logVars
<1>2. CASE Settled(runs[r]) /\ command.request # 0
  <2>1. tab'.confirmed = tab.confirmed \cup {[request |-> command.request, of |-> size]}
    BY <1>2, PageIs DEF Delivered, Told
  <2>2. size \in 0..5
    BY SizesAre
  <2>3. command.request \in 1..MaxCommands
    <3>1. CommandFits(command, log, attempts.commands)
      BY DEF RuntimeInv, CommandsFit, Live
    <3>2. command.request \in Nat /\ command.request <= attempts.commands
      BY <3>1 DEF CommandFits, Commands
    <3>3. attempts.commands \in 0..MaxCommands /\ MaxCommands \in Nat
      BY RuntimeAssumption DEF RuntimeInv, PageFits
    <3> QED BY <1>2, <3>2, <3>3
  <2>4. size # 0 => \E k \in 1..Len(Entries(log)) :
          Entries(log)[k] = [request |-> command.request, step |-> size, of |-> size]
    <3> SUFFICES ASSUME size # 0
                 PROVE  \E k \in 1..Len(Entries(log)) :
                          Entries(log)[k] = [request |-> command.request, step |-> size, of |-> size]
      OBVIOUS
    <3>1. Served(command, log)
      BY <1>2 DEF Settled, RuntimeInv, RunFits
    <3>2. PICK k \in 1..Len(log) : IsStep(log[k], command, size)
      BY <1>2, <3>1 DEF Served
    <3>3. EntryOf(log[k]) = [request |-> command.request, step |-> size, of |-> size]
      BY <3>2 DEF IsStep, EntryOf, StepId
    <3>4. k \in 1..Len(Entries(log)) /\ Entries(log)[k] = EntryOf(log[k])
      BY DEF Entries
    <3> QED BY <3>3, <3>4
  <2> HIDE DEF size
  <2>5. Ledger!Confirm(command.request, size)
    BY <1>1, <2>1, <2>4 DEF Ledger!Confirm, Ledger!Complete, Ledger!Entry, Entries
  <2> QED BY <2>2, <2>3, <2>5 DEF Ledger!Next
<1>3. CASE ~ (Settled(runs[r]) /\ command.request # 0)
  <2>1. tab'.confirmed = tab.confirmed
    BY <1>3, PageIs DEF Delivered
  <2> QED BY <1>1, <2>1, LedgerStutters
<1> QED BY <1>2, <1>3

\* What is entered beside the runs belongs to no command.
LEMMA EntersInLedger ==
  ASSUME RuntimeInv, NEW kind \in {"challenge", "holder"}, NEW step \in {0, 1},
         NEW event \in TurnEvents \cup {"challenge"}, Enters(kind, event, step)
  PROVE  [Ledger!Next]_Ledger!ledgerVars
<1> DEFINE a == Action([kind |-> kind, of |-> Version, step |-> step], Version, event, 0)
<1>1. Version \in Nat
  BY DEF Version, RuntimeInv, RecordFits
<1>2. a \in Actions /\ a.id.kind # "command"
  BY <1>1 DEF Actions, Action, AllEvents, Ids, Kinds
<1>3. log' = Append(log, a) /\ tab'.confirmed = tab.confirmed
  BY PageIs DEF Enters, Enter
<1> HIDE DEF a
<1> QED BY <1>2, <1>3, CourtActsInLedger DEF Ledger!Next

LEMMA NextInLedger ==
  ASSUME RuntimeInv, [Next]_vars
  PROVE  [Ledger!Next]_Ledger!ledgerVars
<1>1. ASSUME NEW r \in Runs, RunStep(r)
      PROVE  [Ledger!Next]_Ledger!ledgerVars
  <2>1. CASE AppendStep(r) \/ StoreGeneration(r)
    BY <2>1, AppendStepInLedger, StoreGenerationInLedger
  <2>2. CASE ReadHead(r) \/ Continue(r) \/ ModelAnswers(r) \/ CheckGeneration(r)
    BY <2>2, LedgerStutters
    DEF ReadHead, Continue, ModelAnswers, CheckGeneration, logVars
  <2> QED BY <1>1, <2>1, <2>2 DEF RunStep
<1>2. ASSUME NEW r \in Runs, PageStep(r) \/ Breaks(r) \/ Forgotten(r)
      PROVE  UNCHANGED Ledger!ledgerVars
  <2>1. log' = log /\ tab'.confirmed = tab.confirmed
    BY <1>2, PageIs
    DEF PageStep, Issue, Retry, Recover, GivesUp, Breaks, Forgotten, logVars
  <2> QED BY <2>1, LedgerStutters
<1>3. CASE Reload \/ UNCHANGED vars
  <2>1. log' = log /\ tab'.confirmed = tab.confirmed
    BY <1>3, PageIs DEF Reload, vars, logVars
  <2> QED BY <2>1, LedgerStutters
<1>4. CASE Challenge
  BY <1>4, EntersInLedger DEF Challenge
<1>5. CASE HolderActs
  <2>1. PICK event \in AnswerWords(court) \cup RulingWords(court) : Enters("holder", event, 0)
    BY <1>5 DEF HolderActs
  <2>2. event \in TurnEvents
    BY TurnEventsAre DEF AnswerWords, RulingWords, RulingOutcomes, Turns
  <2> QED BY <2>1, <2>2, EntersInLedger
<1> QED BY <1>1, <1>2, <1>3, <1>4, <1>5, DeliveredInLedger DEF Next

LEMMA InitInLedger ==
  ASSUME Init
  PROVE  Ledger!Init
BY DEF Init, InitialTab, Ledger!Init

\* The steps of a command enter the log in order, once, and with nothing in between that
\* the ledger does not allow; a command the page was told is done is there as a whole.
THEOREM RuntimeImplementsLedger == Spec => ImplementsLedger
<1>1. Spec => [][Ledger!Next]_Ledger!ledgerVars
  BY NextInLedger, RuntimeStaysInOrder, PTL DEF Spec
<1> QED BY <1>1, InitInLedger, PTL DEF Spec, ImplementsLedger, Ledger!Spec
-----------------------------------------------------------------------------
(***************************************************************************)
(* What the view offers.                                                   *)
(***************************************************************************)
LEMMA PlayerEventAccepted ==
  ASSUME NEW c, NEW e \in PlayerEvents, PlayerAccepts(c, e)
  PROVE  Accepts(c, e)
BY TurnEventsAre DEF Accepts, PlayerEvents, RuntimeEvents, Offers

\* A command that was not given yet has no step on record.
LEMMA NextCommandIsNew ==
  ASSUME RuntimeInv, NEW intent
  PROVE  ~Known(StepId(NextCommand(intent), 1))
<1> SUFFICES ASSUME NEW k \in 1..Len(log), log[k].id = StepId(NextCommand(intent), 1)
             PROVE  FALSE
  BY DEF Known, Receipts
<1>1. log[k].id.kind = "command" /\ log[k].id.of = attempts.commands + 1
  BY DEF StepId, NextCommand
<1>2. log[k].id.of \in 1..attempts.commands
  BY <1>1 DEF RuntimeInv, RecordFits
<1>3. attempts.commands \in Nat
  BY PageIs
<1> QED BY <1>1, <1>2, <1>3

\* An intent the view offers at a head is accepted at that head.
LEMMA OfferAccepted ==
  ASSUME RuntimeInv, NEW intent \in PlayerIntents, MayChoose(court, intent),
         intent # "start" => court.motion = "none", ~Exempt(court, intent)
  PROVE  LET command == NextCommand(intent)
         IN /\ intent # "start" => ~Refuses(command, court)
            /\ intent = "continue" \/ Accepts(court, Events(command, court)[1])
<1> DEFINE command == NextCommand(intent)
           first   == Events(command, court)[1]
<1>1. command.intent = intent /\ command.expected = Version
  BY DEF NextCommand
<1>2. ~Known(StepId(command, 1))
  BY NextCommandIsNew
<1>3. FloorFits(court)
  BY DEF RuntimeInv, RecordFits, Fits
<1> HIDE DEF command
<1> SUFFICES /\ intent # "start" => ~Refuses(command, court)
             /\ intent # "continue" => first \in PlayerEvents /\ PlayerAccepts(court, first)
  BY PlayerEventAccepted DEF command
<1> USE DEF MayChoose, Refuses, NeedsRecord, PlayerEvents, Offers, PlayerAccepts, InChief,
            InSession
<1>4. CASE intent = "start"
  BY <1>1, <1>4 DEF Events, StartSteps
<1>5. CASE intent = "call"
  <2>1. first = IF court.released THEN "recall" ELSE "call"
    BY <1>1, <1>5 DEF Events, CallSteps
  <2> HIDE DEF first
  <2> QED BY <1>1, <1>5, <2>1 DEF MayCall, Exempt
<1>6. CASE intent = "ask"
  <2>1. first = IF court.rephrase THEN "rephrase" ELSE "ask"
    BY <1>1, <1>6 DEF Events, AskSteps
  <2> HIDE DEF first
  <2> QED BY <1>1, <1>6, <2>1 DEF MayAsk, MayRephrase
<1>7. CASE intent = "finish"
  <2>1. first = IF court.answered THEN "complete_leg" ELSE "waive_leg"
    BY <1>1, <1>2, <1>7 DEF Events, FinishSteps
  <2> HIDE DEF first
  <2> QED BY <1>1, <1>7, <2>1 DEF MayEnd, RefusesFinish
<1>8. CASE intent = "object"
  <2>1. first = "object"
    BY <1>1, <1>8 DEF Events, ObjectSteps
  <2>2. InChief(court)
    BY <1>3, <1>8 DEF FloorFits, WindowOpen, Nobody
  <2> HIDE DEF first
  <2> QED BY <1>1, <1>8, <2>1, <2>2
    DEF MayObject, Awaited, WindowOpen, RefusesObjection, Exempt, Sides
<1>9. CASE intent = "continue"
  <2>1. InChief(court)
    BY <1>3, <1>9 DEF FloorFits, WindowOpen, Nobody
  <2> QED BY <1>1, <1>9, <2>1 DEF RefusesContinue, Exempt
<1>10. CASE intent \in Offers
  <2>1. first = intent
    BY <1>1, <1>2, <1>10 DEF Events, OfferSteps
  <2>2. InSession(court)
    BY <1>10 DEF Exempt, SettlementIsOpen
  <2> HIDE DEF first
  <2> QED BY <1>1, <1>10, <2>1, <2>2
    DEF MayOffer, MayAnswerOffer, MayCounter, SettlementIsOpen, Exempt, Sides
<1>11. CASE intent = "finish_trial"
  <2>1. first = "rest_player"
    BY <1>1, <1>11 DEF Events, FinishTrialSteps
  <2> HIDE DEF first
  <2> QED BY <1>1, <1>11, <2>1 DEF MayRest, Exempt
<1> QED BY <1>4, <1>5, <1>6, <1>7, <1>8, <1>9, <1>10, <1>11 DEF PlayerIntents

\* What the view of the player offers at a head, the runtime and the engine accept at that
\* head, but for the exceptions that Exempt names (permittedIntents of projection.ts).
THEOREM OffersAreAccepted == Spec => []OfferedIsAccepted
<1>1. RuntimeInv => OfferedIsAccepted
  BY OfferAccepted, RuntimeAssumption DEF OfferedIsAccepted
<1> QED BY <1>1, RuntimeStaysInOrder, PTL
=============================================================================
