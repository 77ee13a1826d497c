---------------------------- MODULE Interruption ----------------------------
(***************************************************************************)
(* The responses that AI participants are asked for, the objections that  *)
(* cut into them, and the interruption that holds the speech until the    *)
(* court has ruled.                                                       *)
(***************************************************************************)
EXTENDS TrialState

\* A response whose actor is not a witness has no question and is refused
\* while one is active, so a response has a question iff one is active.
MayRequestResponse(q) ==
  /\ InSession
  /\ q # None => /\ activeWitness # None
                 /\ questions[q].status = "open"
                 /\ questions[q].activeResponse = None

RequestResponse(r) ==
  LET q == activeQuestion
  IN
  /\ MayRequestResponse(q)
  /\ responses[r].status = "none"
  /\ questions' = IF q = None THEN questions
                  ELSE [questions EXCEPT ![q].activeResponse = r]
  /\ responses' = [responses EXCEPT ![r] = [status |-> "pending", question |-> q]]
  /\ fresh' = r
  /\ OfferAges
  /\ UNCHANGED <<calendarVars, juryVars, standVars, activeQuestion, objections,
                 interruption, recordVars, offerVars>>

\* The question's active response is cleared whichever response it is.
ClearActiveResponse(q) ==
  questions' = IF q = None THEN questions
               ELSE [questions EXCEPT ![q].activeResponse = None]

\* CANCEL_RESPONSE and COMPLETE_RESPONSE: neither looks at an interruption.
CloseResponse(r, outcome) ==
  /\ InSession
  /\ Live(r)
  /\ responses' = [responses EXCEPT ![r].status = outcome]
  /\ ClearActiveResponse(responses[r].question)
  /\ Committed
  /\ UNCHANGED <<calendarVars, juryVars, standVars, activeQuestion, objections,
                 interruption, recordVars, offerVars>>

CancelResponse(r)   == CloseResponse(r, "cancelled")
CompleteResponse(r) == CloseResponse(r, "committed")

(***************************************************************************)
(* OBJECT.  The objection must name the response it cuts off, or none if  *)
(* nobody is speaking.  The ground is one the policy permits.             *)
(***************************************************************************)
MayObject(c, q, r) ==
  /\ InChief
  /\ q # None
  /\ questions[q].status = "open"
  /\ SideOf[questions[q].askedBy] # SideOf[c]
  /\ ~ \E p \in Objections : Pending(p) /\ objections[p].question = q
  /\ questions[q].activeResponse = r
  /\ r # None => Live(r) /\ responses[r].question = q

Object(c, o, r) ==
  /\ MayObject(c, activeQuestion, r)
  /\ objections[o].status = "none"
  /\ objections' = [objections EXCEPT
       ![o] = [status |-> "pending", question |-> activeQuestion,
               response |-> r, remedy |-> None]]
  /\ Committed
  /\ UNCHANGED <<calendarVars, juryVars, standVars, questionVars, responses,
                 interruption, recordVars, offerVars>>

\* Mutant: an objection can be ruled on again.
Rulable_Again(o) ==
  /\ InChief
  /\ objections[o].status # "none"
  /\ objections[o].response # None =>
       interruption.objection = o /\ interruption.status = "active"

\* An objection to speech is ruled on only inside its own interruption.
Rulable(o) ==
  /\ InChief
  /\ Pending(o)
  /\ objections[o].response # None =>
       interruption = [status |-> "active", response |-> objections[o].response,
                       objection |-> o]

OverruleObjection(o) ==
  /\ Rulable(o)
  /\ objections' = [objections EXCEPT
       ![o].status = "overruled",
       ![o].remedy = IF objections[o].response = None
                       THEN "none" ELSE "resume_response"]
  /\ Committed
  /\ UNCHANGED <<calendarVars, juryVars, standVars, questionVars, responses,
                 interruption, recordVars, offerVars>>

SustainObjection(o, remedy) ==
  LET q == objections[o].question
  IN
  /\ Rulable(o)
  /\ remedy = "cancel_response" => objections[o].response # None
  /\ objections' = [objections EXCEPT ![o].status = "sustained",
                                      ![o].remedy = remedy]
  /\ questions' = [questions EXCEPT ![q].status = "sustained",
                                    ![q].activeResponse = None]
  /\ activeQuestion' = None
  /\ Committed
  /\ UNCHANGED <<calendarVars, juryVars, standVars, responses, interruption,
                 recordVars, offerVars>>

\* Counsel interrupts through a pending objection, the system also without.
MayInterrupt(r, o) ==
  LET q == responses[r].question
  IN
  /\ InSession
  /\ ~Interrupted
  /\ Live(r)
  /\ q # None
  /\ activeQuestion = q
  /\ questions[q].activeResponse = r
  /\ o # None => /\ Pending(o)
                 /\ objections[o].question = q
                 /\ objections[o].response = r

BeginInterruption(r, o) ==
  /\ MayInterrupt(r, o)
  /\ interruption' = [status |-> "active", response |-> r, objection |-> o]
  /\ Committed
  /\ UNCHANGED <<calendarVars, juryVars, standVars, questionVars, responses,
                 objections, recordVars, offerVars>>

\* With an objection the ruling decides the outcome, without one the caller.
Resolvable(outcome) ==
  /\ InSession
  /\ interruption.status = "active"
  /\ interruption.objection # None =>
       /\ ~Pending(interruption.objection)
       /\ (outcome = "resume") <=>
            (objections[interruption.objection].status = "overruled")

\* The interrupted response is cancelled in whatever status it is, and its
\* question loses its active response even when that is another one.
ResolveByCancelling ==
  LET r == interruption.response
  IN
  /\ Resolvable("cancel")
  /\ interruption' = [interruption EXCEPT !.status = "cancelled"]
  /\ responses' = [responses EXCEPT ![r].status = "cancelled"]
  /\ ClearActiveResponse(responses[r].question)
  /\ Committed
  /\ UNCHANGED <<calendarVars, juryVars, standVars, activeQuestion, objections,
                 recordVars, offerVars>>

ResolveForResume ==
  /\ Resolvable("resume")
  /\ interruption' = [interruption EXCEPT !.status = "resolved"]
  /\ Committed
  /\ UNCHANGED <<calendarVars, juryVars, standVars, questionVars, responses,
                 objections, recordVars, offerVars>>

\* Resuming re-pins the response to the new version.
MayResumeSpeech ==
  /\ InSession
  /\ interruption.status = "resolved"
  /\ Live(interruption.response)

ResumeInterruptedSpeech ==
  LET r == interruption.response
  IN
  /\ MayResumeSpeech
  /\ interruption' = [interruption EXCEPT !.status = "resumed"]
  /\ responses' = [responses EXCEPT ![r].status = "streaming"]
  /\ fresh' = r
  /\ OfferAges
  /\ UNCHANGED <<calendarVars, juryVars, standVars, questionVars, objections,
                 recordVars, offerVars>>

InterruptionNext ==
  \/ \E r \in Responses :
       RequestResponse(r) \/ CancelResponse(r) \/ CompleteResponse(r)
  \/ \E c \in Counsel, o \in Objections, r \in Maybe(Responses) : Object(c, o, r)
  \/ \E o \in Objections :
       \/ OverruleObjection(o)
       \/ \E remedy \in {"rephrase", "cancel_response"} :
            SustainObjection(o, remedy)
  \/ \E r \in Responses, o \in Maybe(Objections) : BeginInterruption(r, o)
  \/ ResolveByCancelling
  \/ ResolveForResume
  \/ ResumeInterruptedSpeech
=============================================================================
