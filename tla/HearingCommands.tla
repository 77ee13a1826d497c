--------------------------- MODULE HearingCommands ---------------------------
(***************************************************************************)
(* The player's commands and the steps each of them takes, and what the   *)
(* court owes next at a given record.                                     *)
(***************************************************************************)
EXTENDS EventLog

-----------------------------------------------------------------------------
(***************************************************************************)
(* Commands and the steps they take.                                      *)
(***************************************************************************)
NoCommand == [request |-> 0, intent |-> "none", expected |-> 0]
Recovery  == [request |-> 0, intent |-> "recover", expected |-> 0]

Offers == {"propose", "counter", "accept", "reject", "withdraw"}

PlayerIntents ==
  {"start", "call", "ask", "finish", "object", "continue", "finish_trial"} \cup Offers

StepsOf(event) ==
  IF event \in {"create", "opening", "case_in_chief"} THEN 3
  ELSE IF event \in {"call", "recall", "swear", "ask", "rephrase", "request",
                     "object", "interrupt"} THEN 2
  ELSE IF event \in {"rest_player", "rest_opponent", "pre_closing", "closing",
                     "close_player"} THEN 5
  ELSE 1

Size(intent) ==
  CASE intent = "start"        -> 3
    [] intent \in {"call", "ask", "object"} -> 2
    [] intent = "finish_trial" -> 5
    [] intent \in {"finish"} \cup Offers -> 1
    [] OTHER                   -> 0

StepId(command, i) ==
  [kind |-> "command", of |-> command.request, step |-> i]

\* The steps a command takes, chosen anew from the record at every attempt.
StartSteps == <<"create", "opening", "case_in_chief">>

CallSteps(c) == <<IF c.released THEN "recall" ELSE "call", "swear">>

AskSteps(c) == <<IF c.rephrase THEN "rephrase" ELSE "ask", "request">>

\* Ending a leg, like answering an offer, is not repeated once on record.
FinishSteps(command, c) ==
  IF Known(StepId(command, 1)) THEN <<>>
  ELSE <<IF c.answered THEN "complete_leg" ELSE "waive_leg">>

ObjectSteps == <<"object", "interrupt">>

OfferSteps(command) == IF Known(StepId(command, 1)) THEN <<>> ELSE <<command.intent>>

FinishTrialSteps ==
  <<"rest_player", "rest_opponent", "pre_closing", "closing", "close_player">>

Events(command, c) ==
  CASE command.intent = "start"        -> StartSteps
    [] command.intent = "call"         -> CallSteps(c)
    [] command.intent = "ask"          -> AskSteps(c)
    [] command.intent = "finish"       -> FinishSteps(command, c)
    [] command.intent = "object"       -> ObjectSteps
    [] command.intent \in Offers       -> OfferSteps(command)
    [] command.intent = "finish_trial" -> FinishTrialSteps
    [] command.intent = "continue"     -> <<>>

Steps(command, c) ==
  LET events == Events(command, c)
  IN [i \in 1..Len(events) |->
        Action(StepId(command, i), command.expected + i - 1, events[i], 0)]

\* The player may cut into an answer to opposing counsel, or wave it on.
WindowOpen(c) == c.asker = "opposing" /\ c.reply = "pending" /\ ~c.objected

\* What a command is refused for before it appends anything.
RefusesFinish(command, c) ==
  ~Known(StepId(command, 1)) /\ ~Conducts(c, "user")

RefusesObjection(command, c) ==
  /\ ~Known(StepId(command, 1))
  /\ ~WindowOpen(c) \/ c.interruption # "none"

RefusesContinue(command, c) ==
  command.expected # Version \/ ~WindowOpen(c) \/ ~c.current

NeedsRecord == {"finish_trial", "propose", "counter", "accept"}

Refuses(command, c) ==
  \/ c.phase = "none"
  \/ c.motion # "none"
  \/ command.intent \in NeedsRecord /\ ~c.testimony
  \/ command.intent = "finish"   /\ RefusesFinish(command, c)
  \/ command.intent = "object"   /\ RefusesObjection(command, c)
  \/ command.intent = "continue" /\ RefusesContinue(command, c)

-----------------------------------------------------------------------------
(***************************************************************************)
(* What the court owes next.                                              *)
(***************************************************************************)
OpponentMustClose(c) ==
  c.phase = "closing" /\ c.stage = "empty" /\ "opposing" \notin c.closings

\* The runtime's own events that lead from the closings to deliberation.
NextStage(c) ==
  IF c.phase = "closing" /\ c.closings = Sides THEN "instructions"
  ELSE IF c.phase = "jury_instructions" /\ ~c.instructed THEN "instruct"
  ELSE IF c.phase = "jury_instructions" THEN "deliberation"
  ELSE "completed"

\* What is left once no speech, offer or examination claims the court.
NeedsLater(c) ==
  IF c.phase = "deliberation" THEN "jury"
  ELSE IF c.phase = "debrief" /\ ~c.debriefed THEN "debrief"
  ELSE IF c.stage = "empty" /\ ~OpponentMustClose(c) THEN "completed"
  ELSE IF c.planned THEN "counsel"
  ELSE "plan"

Advances(c) == IF NextStage(c) = "completed" THEN NeedsLater(c) ELSE NextStage(c)

\* Mutant: the motion waits for what opposing counsel does next.
Needs_MotionLater(c) ==
  IF InterruptionOpen(c) /\ c.objected
    THEN IF c.interruption = "active" THEN "ruling" ELSE "stale"
  ELSE IF Awaited(c)
    THEN IF WindowOpen(c) THEN "completed"
         ELSE IF c.current /\ c.reply # "held" THEN "answer" ELSE "stale"
  ELSE IF c.offer = "user" THEN "negotiation"
  ELSE IF c.stage = "ready_for_release" THEN "release"
  ELSE IF c.stage \in {"awaiting_oath", "direct", "redirect"} THEN "completed"
  ELSE Advances(c)

\* In the order of the code: the ruling first, the opponent's plan last.
Needs(c) ==
  IF InterruptionOpen(c) /\ c.objected
    THEN IF c.interruption = "active" THEN "ruling" ELSE "stale"
  ELSE IF c.motion # "none"
    THEN IF c.motion = "moved" THEN "judge" ELSE "stale"
  ELSE IF Awaited(c)
    THEN IF WindowOpen(c) THEN "completed"
         ELSE IF c.current /\ c.reply # "held" THEN "answer" ELSE "stale"
  ELSE IF c.offer = "user" THEN "negotiation"
  ELSE IF c.stage = "ready_for_release" THEN "release"
  ELSE IF c.stage \in {"awaiting_oath", "direct", "redirect"} THEN "completed"
  ELSE Advances(c)

\* The response a witness answers: the latest that was asked for.
ResponseName ==
  LET asked == {i \in 1..Len(log) :
                  log[i].event \in {"request", "question", "challenge"}}
  IN IF asked = {} THEN 0 ELSE CHOOSE i \in asked : \A j \in asked : j <= i

\* An answer is named for its response, everything else for the head.
TurnId(turn) ==
  [kind |-> turn, of |-> IF turn = "answer" THEN ResponseName ELSE Version,
   step |-> 0]

\* A sustained objection has the player rephrase and opposing counsel give up.
RulingOutcomes(c) ==
  {"overrule", IF c.asker = "user" THEN "sustain_rephrase" ELSE "sustain_cancel"}

\* What each participant is asked for at this record, and may answer.
AnswerWords(c)      == {event \in Turns.answer : MayAnswer(c)}
PlanWords(c)        == {event \in Turns.plan : MayPlan(c)}
CounselWords(c)     == {event \in Turns.counsel : CounselAccepts(c, event)}
JudgeWords(c)       == {event \in Turns.judge : MayRuleOnMotion(c)}
RulingWords(c)      == {event \in RulingOutcomes(c) : MayRule(c)}
NegotiationWords(c) == {event \in Turns.negotiation : NegotiationAccepts(c, event)}
JuryWords(c)        == {event \in Turns.jury : MayDeliberate(c)}
DebriefWords(c)     == {event \in Turns.debrief : MayDebrief(c)}

Permitted(turn, c) ==
  CASE turn = "answer"      -> AnswerWords(c)
    [] turn = "plan"        -> PlanWords(c)
    [] turn = "counsel"     -> CounselWords(c)
    [] turn = "judge"       -> JudgeWords(c)
    [] turn = "ruling"      -> RulingWords(c)
    [] turn = "negotiation" -> NegotiationWords(c)
    [] turn = "jury"        -> JuryWords(c)
    [] turn = "debrief"     -> DebriefWords(c)
=============================================================================
