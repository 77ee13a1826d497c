----------------------------- MODULE TrialState -----------------------------
(***************************************************************************)
(* The state that src/domain/trial-engine folds from the event stream,    *)
(* its initial value, and the guards every action shares.                 *)
(*                                                                         *)
(* Every action of this specification is one committed event: the         *)
(* conditions of validateAction followed by the assignments of            *)
(* applyTrialEvent.  A refused action changes nothing and has no step.    *)
(*                                                                         *)
(* Entities live in total functions over their IDs; an ID whose status    *)
(* (or stage) is "none" has not been used.  Testimony is named by the     *)
(* question it answers: a question is answered at most once and testimony *)
(* IDs must be fresh, so the two are in one-to-one correspondence.  A     *)
(* transcript turn has the status of its testimony and is left out.       *)
(*                                                                         *)
(* state.version grows by one in every event and is only ever compared    *)
(* with two remembered values: a response's expectedStateVersion, and an  *)
(* offer's expiresAtSequence.  `fresh' is the response whose              *)
(* expectedStateVersion equals the current version, and `offerLife' the   *)
(* events the active offer still has; both are exact and keep the state   *)
(* space finite.                                                          *)
(***************************************************************************)
EXTENDS CasePolicy

VARIABLES
  phase, phaseBeforeRecess, status, failure,
  restedSides, closingSides, instructed, deliberated, verdict, debrief,
  strategy,
  witnesses, appearances, activeWitness, activeAppearance,
  questions, activeQuestion,
  responses, objections, interruption,
  testimony, motions, evidence, facts,
  offers, activeOffer,
  fresh, offerLife

calendarVars == <<phase, phaseBeforeRecess, status, failure>>
juryVars     == <<restedSides, closingSides, instructed, deliberated, verdict,
                  debrief, strategy>>
standVars    == <<witnesses, appearances, activeWitness, activeAppearance>>
questionVars == <<questions, activeQuestion>>
speechVars   == <<responses, objections, interruption>>
recordVars   == <<testimony, motions, evidence, facts>>
offerVars    == <<offers, activeOffer>>
clockVars    == <<fresh, offerLife>>

vars == <<calendarVars, juryVars, standVars, questionVars, speechVars,
          recordVars, offerVars, clockVars>>

-----------------------------------------------------------------------------
(***************************************************************************)
(* Types.                                                                  *)
(***************************************************************************)
Maybe(S) == S \cup {None}

Kinds  == {"direct", "cross", "redirect", "recross"}
Stages == Kinds \cup {"none", "awaiting_oath", "ready_for_release", "released"}

LegStatuses == {"not_available", "available", "in_progress", "completed",
                "waived", "terminated"}
Leg == [status : LegStatuses, answered : Nat]

WitnessStatuses == {"available", "called", "sworn", "testifying", "released"}

\* A leg's owner side and the call/recall distinction follow from `side' and
\* from how often the witness has been called, so they are not stored.
Appearance == [stage : Stages, witness : Maybe(Witnesses), side : Sides,
               legs : [Kinds -> Leg]]

\* The witness of a question is the witness of its appearance.
QuestionEntry ==
  [status : {"none", "open", "answered", "sustained", "withdrawn"},
   appearance : Maybe(Appearances), kind : Kinds, askedBy : Maybe(Counsel),
   presented : SUBSET Exhibits, activeResponse : Maybe(Responses)]

ResponseStatuses == {"none", "pending", "streaming", "cancelled", "committed"}
ResponseEntry    == [status : ResponseStatuses, question : Maybe(Questions)]

ObjectionEntry ==
  [status : {"none", "pending", "sustained", "overruled", "withdrawn"},
   question : Maybe(Questions), response : Maybe(Responses),
   remedy : Maybe({"rephrase", "cancel_response", "resume_response", "none"})]

\* interruptId is matched against the one stored interruption and against the
\* response it interrupted, which is always stamped with it; the response
\* therefore identifies the interruption.
InterruptionEntry ==
  [status : {"none", "active", "resolved", "resumed", "cancelled"},
   response : Maybe(Responses), objection : Maybe(Objections)]

TestimonyEntry == [status : {"none", "active", "stricken"},
                   facts : SUBSET Facts, exhibits : SUBSET Exhibits]

MotionEntry == [status : {"none", "pending", "granted", "denied", "withdrawn"},
                movedBy : Maybe(Counsel), testimony : SUBSET Questions]

\* "uploaded" and "indexed" are told apart by no rule of the engine.
EvidenceEntry ==
  [status : {"indexed", "offered", "admitted", "excluded", "withdrawn"},
   offeredBy : Maybe(Sides), foundation : SUBSET Questions]

FactEntry ==
  [status : {"none", "hidden", "proposed", "verified", "disputed", "admitted",
             "excluded", "stricken"},
   basis : SUBSET (Questions \cup Exhibits)]

OfferEntry ==
  [status : {"none", "open", "countered", "accepted", "rejected", "withdrawn",
             "expired"},
   proposer : Maybe(Parties), recipient : Maybe(Parties),
   terms : Maybe(Terms)]

CalendarTypeOK ==
  /\ phase \in Phases
  /\ phaseBeforeRecess \in Maybe(Phases)
  /\ status \in {"active", "paused", "failed", "settled", "complete"}
  /\ failure \in Maybe(Steps)

JuryTypeOK ==
  /\ restedSides \in SUBSET Sides
  /\ closingSides \in SUBSET Sides
  /\ instructed \in BOOLEAN
  /\ deliberated \in BOOLEAN
  /\ verdict \in BOOLEAN
  /\ debrief \in BOOLEAN
  /\ strategy \in [owner : Maybe(Counsel), revision : Nat]

StandTypeOK ==
  /\ witnesses \in [Witnesses -> WitnessStatuses]
  /\ appearances \in [Appearances -> Appearance]
  /\ activeWitness \in Maybe(Witnesses)
  /\ activeAppearance \in Maybe(Appearances)

QuestionTypeOK ==
  /\ questions \in [Questions -> QuestionEntry]
  /\ activeQuestion \in Maybe(Questions)

SpeechTypeOK ==
  /\ responses \in [Responses -> ResponseEntry]
  /\ objections \in [Objections -> ObjectionEntry]
  /\ interruption \in InterruptionEntry

RecordTypeOK ==
  /\ testimony \in [Questions -> TestimonyEntry]
  /\ motions \in [Motions -> MotionEntry]
  /\ evidence \in [Exhibits -> EvidenceEntry]
  /\ facts \in [Facts -> FactEntry]

OfferTypeOK ==
  /\ offers \in [Offers -> OfferEntry]
  /\ activeOffer \in Maybe(Offers)

ClockTypeOK ==
  /\ fresh \in Maybe(Responses)
  /\ offerLife \in 0 .. OfferEvents

(* Every part of the state has its type: no event writes an ID or a status *)
(* that the schemas of src/domain/trial-engine would refuse.               *)
TypeOK == /\ CalendarTypeOK
          /\ JuryTypeOK
          /\ StandTypeOK
          /\ QuestionTypeOK
          /\ SpeechTypeOK
          /\ RecordTypeOK
          /\ OfferTypeOK
          /\ ClockTypeOK

-----------------------------------------------------------------------------
(***************************************************************************)
(* START_TRIAL.                                                           *)
(***************************************************************************)
NoLeg == [status |-> "not_available", answered |-> 0]

NoAppearance == [stage |-> "none", witness |-> None, side |-> "user",
                 legs |-> [k \in Kinds |-> NoLeg]]

NoQuestion == [status |-> "none", appearance |-> None, kind |-> "direct",
               askedBy |-> None, presented |-> {}, activeResponse |-> None]

NoInterruption == [status |-> "none", response |-> None, objection |-> None]

Init ==
  /\ phase = "pretrial"
  /\ phaseBeforeRecess = None
  /\ status = "active"
  /\ failure = None
  /\ restedSides = {}
  /\ closingSides = {}
  /\ instructed = FALSE
  /\ deliberated = FALSE
  /\ verdict = FALSE
  /\ debrief = FALSE
  /\ strategy = [owner |-> None, revision |-> 0]
  /\ witnesses = [w \in Witnesses |-> "available"]
  /\ appearances = [a \in Appearances |-> NoAppearance]
  /\ activeWitness = None
  /\ activeAppearance = None
  /\ questions = [q \in Questions |-> NoQuestion]
  /\ activeQuestion = None
  /\ responses = [r \in Responses |-> [status |-> "none", question |-> None]]
  /\ objections = [o \in Objections |->
       [status |-> "none", question |-> None, response |-> None,
        remedy |-> None]]
  /\ interruption = NoInterruption
  /\ testimony = [q \in Questions |->
       [status |-> "none", facts |-> {}, exhibits |-> {}]]
  /\ motions = [m \in Motions |->
       [status |-> "none", movedBy |-> None, testimony |-> {}]]
  /\ evidence = [e \in Exhibits |->
       [status |-> "indexed", offeredBy |-> None, foundation |-> {}]]
  /\ facts = [f \in Facts |->
       [status |-> IF f \in AuthoredFacts THEN InitialFact[f] ELSE "none",
        basis |-> {}]]
  /\ offers = [o \in Offers |->
       [status |-> "none", proposer |-> None, recipient |-> None,
        terms |-> None]]
  /\ activeOffer = None
  /\ fresh = None
  /\ offerLife = 0

-----------------------------------------------------------------------------
(***************************************************************************)
(* ensureActive: an ordinary action needs an active trial that is not in  *)
(* recess; the actions a recess permits need only the former.             *)
(***************************************************************************)
Active    == status = "active"
InSession == Active /\ phase # "recess"
InChief   == InSession /\ phase = "case_in_chief"

(***************************************************************************)
(* finalize: every event advances the version, which makes every          *)
(* remembered response version stale and brings the active offer one      *)
(* event closer to its expiry.                                            *)
(***************************************************************************)
\* Mutant: the count of remaining events runs below zero.
OfferAges_BelowZero == offerLife' = offerLife - 1
OfferAges == offerLife' = IF offerLife = 0 THEN 0 ELSE offerLife - 1
Committed == fresh' = None /\ OfferAges

(***************************************************************************)
(* Queries.                                                               *)
(***************************************************************************)
Live(r)     == responses[r].status \in {"pending", "streaming"}
Pending(o)  == objections[o].status = "pending"

Interrupted == interruption.status \in {"active", "resolved"}

LegOwner(a, kind) ==
  IF kind \in {"direct", "redirect"} THEN appearances[a].side
                                     ELSE OpposingSide(appearances[a].side)

\* A witness is on the stand, in an appearance of that witness.
OnStand ==
  /\ activeWitness # None
  /\ activeAppearance # None
  /\ appearances[activeAppearance].witness = activeWitness

ConductsLeg(c) ==
  /\ appearances[activeAppearance].stage \in Kinds
  /\ LegOwner(activeAppearance, appearances[activeAppearance].stage) = SideOf[c]

\* The appearance a response speaks in, or None when no question was active.
ResponseAppearance(r) ==
  IF responses[r].question = None THEN None
                                  ELSE questions[responses[r].question].appearance

\* Mutants: the question on the floor, or the interruption, is overlooked.
HasOpenCourtroomWork_NoQuestion(a) ==
  \/ \E r \in Responses : Live(r) /\ ResponseAppearance(r) = a
  \/ Interrupted /\ ResponseAppearance(interruption.response) = a

HasOpenCourtroomWork(a) ==
  \/ activeQuestion # None
  \/ \E r \in Responses : Live(r) /\ ResponseAppearance(r) = a
  \/ \E o \in Objections :
       Pending(o) /\ questions[objections[o].question].appearance = a
  \/ Interrupted /\ ResponseAppearance(interruption.response) = a

HasPendingStrikeMotion == \E m \in Motions : motions[m].status = "pending"

ActiveTestimony(q)  == testimony[q].status = "active"
AdmittedExhibit(e)  == evidence[e].status = "admitted"
RefusedExhibit(e)   == evidence[e].status \in {"excluded", "withdrawn"}
=============================================================================
