-------------------------- MODULE TrialEngineProofs -------------------------
(***************************************************************************)
(* What the trial engine keeps to, for every roster, policy and set of     *)
(* identifiers: its types, the floor, the record (stricken testimony and   *)
(* facts), the calendar (argument after the evidence), the settlement, and *)
(* last that the engine implements the abstract courtroom floor.           *)
(*                                                                         *)
(* TypeOK is inductive by itself.  Each action gets a lemma that proves    *)
(* the parts of TypeOK it can disturb; Frames carries over the parts it    *)
(* leaves alone.  Three lemmas about the nested updates of an appearance   *)
(* keep the leaves small.                                                  *)
(***************************************************************************)
EXTENDS TrialEngine, TLAPS

(* START_TRIAL builds a well-typed state.                                  *)
LEMMA InitTypeOK == Init => TypeOK
  <1> SUFFICES ASSUME Init PROVE TypeOK
    OBVIOUS
  <1>1. CalendarTypeOK /\ JuryTypeOK
    BY DEF Init, CalendarTypeOK, JuryTypeOK, Phases, Sides, Maybe
  <1>2. StandTypeOK
    BY DEF Init, StandTypeOK, NoAppearance, NoLeg, Appearance, Leg,
           LegStatuses, Stages, Kinds, Sides, WitnessStatuses, Maybe
  <1>3. QuestionTypeOK /\ SpeechTypeOK
    BY DEF Init, QuestionTypeOK, SpeechTypeOK, NoQuestion, QuestionEntry, Kinds,
           ResponseEntry, ResponseStatuses, ObjectionEntry, NoInterruption,
           InterruptionEntry, Maybe
  <1>4. RecordTypeOK
    BY RecordAssumption
    DEF Init, RecordTypeOK, TestimonyEntry, MotionEntry, EvidenceEntry,
        FactEntry, Maybe
  <1>5. OfferTypeOK /\ ClockTypeOK
    BY SettlementAssumption
    DEF Init, OfferTypeOK, ClockTypeOK, OfferEntry, Maybe
  <1> QED
    BY <1>1, <1>2, <1>3, <1>4, <1>5 DEF TypeOK

(* A part of the state whose variables an event leaves alone keeps its     *)
(* type.                                                                   *)
LEMMA Frames ==
  /\ CalendarTypeOK /\ UNCHANGED calendarVars => CalendarTypeOK'
  /\ JuryTypeOK /\ UNCHANGED juryVars => JuryTypeOK'
  /\ StandTypeOK /\ UNCHANGED standVars => StandTypeOK'
  /\ QuestionTypeOK /\ UNCHANGED questionVars => QuestionTypeOK'
  /\ SpeechTypeOK /\ UNCHANGED speechVars => SpeechTypeOK'
  /\ RecordTypeOK /\ UNCHANGED recordVars => RecordTypeOK'
  /\ OfferTypeOK /\ UNCHANGED offerVars => OfferTypeOK'
  /\ ClockTypeOK /\ UNCHANGED clockVars => ClockTypeOK'
  BY DEF CalendarTypeOK, JuryTypeOK, StandTypeOK, QuestionTypeOK, SpeechTypeOK,
         RecordTypeOK, OfferTypeOK, ClockTypeOK, calendarVars, juryVars,
         standVars, questionVars, speechVars, recordVars, offerVars, clockVars

(* finalize keeps the two clocks typed: the stale version and the offer's  *)
(* life.                                                                   *)
LEMMA ClockStep == ASSUME ClockTypeOK, Committed PROVE ClockTypeOK'
  BY SettlementAssumption DEF ClockTypeOK, Committed, OfferAges, Maybe

-----------------------------------------------------------------------------
(* Setting the status of one leg leaves an appearance.                     *)
LEMMA WithLegType ==
  ASSUME NEW x \in Appearance, NEW k \in Kinds, NEW s \in LegStatuses
  PROVE  WithLeg(x, k, s) \in Appearance
  <1> DEFINE leg == [x.legs[k] EXCEPT !.status = s]
  <1>1. leg \in Leg
    BY DEF Appearance, Leg
  <1>2. [x.legs EXCEPT ![k] = leg] \in [Kinds -> Leg]
    BY <1>1 DEF Appearance
  <1> HIDE DEF leg
  <1>3. [x EXCEPT !.legs = [x.legs EXCEPT ![k] = leg]] \in Appearance
    BY <1>2 DEF Appearance
  <1> QED
    BY <1>3 DEF WithLeg, leg

(* Counting an answer on one leg leaves an appearance.                     *)
LEMMA CountAnswerType ==
  ASSUME NEW x \in Appearance, NEW k \in Kinds
  PROVE  CountAnswer(x, k) \in Appearance
  <1> DEFINE leg == [x.legs[k] EXCEPT !.answered = @ + 1]
  <1>1. leg \in Leg
    BY DEF Appearance, Leg
  <1>2. [x.legs EXCEPT ![k] = leg] \in [Kinds -> Leg]
    BY <1>1 DEF Appearance
  <1> HIDE DEF leg
  <1>3. [x EXCEPT !.legs = [x.legs EXCEPT ![k] = leg]] \in Appearance
    BY <1>2 DEF Appearance
  <1> QED
    BY <1>3 DEF CountAnswer, leg

(* finishExaminationLeg leaves an appearance at a stage of the schema.     *)
LEMMA FinishLegType ==
  ASSUME NEW x \in Appearance, NEW kind \in Kinds,
         NEW disposition \in {"completed", "waived"}
  PROVE  FinishLeg(x, kind, disposition) \in Appearance
  <1> DEFINE next == NextStage(kind, disposition)
             legs == [k \in Kinds |->
                       CASE k = kind -> [x.legs[k] EXCEPT !.status = disposition]
                         [] k = next /\ k # kind ->
                              [x.legs[k] EXCEPT !.status = "available"]
                         [] OTHER -> x.legs[k]]
  <1>1. next \in Stages
    BY DEF NextStage, Stages, Kinds
  <1>2. ASSUME NEW k \in Kinds PROVE legs[k] \in Leg
    BY DEF Appearance, Leg, LegStatuses
  <1>3. legs \in [Kinds -> Leg]
    BY <1>2
  <1> HIDE DEF next, legs
  <1>4. [x EXCEPT !.stage = next, !.legs = legs] \in Appearance
    BY <1>1, <1>3 DEF Appearance
  <1> QED
    BY <1>4 DEF FinishLeg, next, legs

-----------------------------------------------------------------------------
(* CALL_WITNESS and RECALL_WITNESS write typed witnesses and appearances.  *)
LEMMA TakeStandTypeOK ==
  ASSUME TypeOK, NEW c \in Counsel, NEW w \in Witnesses, NEW a \in Appearances,
         TakeStand(c, w, a)
  PROVE  TypeOK'
  <1>1. StandTypeOK'
    BY RosterAssumption
    DEF TypeOK, TakeStand, StandTypeOK, NoAppearance, NoLeg, Appearance, Leg,
        LegStatuses, Stages, Kinds, WitnessStatuses, Maybe, Sides
  <1>2. ClockTypeOK'
    BY ClockStep DEF TypeOK, TakeStand
  <1> QED
    BY <1>1, <1>2, Frames DEF TypeOK, TakeStand

(* SWEAR_WITNESS opens the direct leg of a typed appearance.               *)
LEMMA SwearWitnessTypeOK ==
  ASSUME TypeOK, SwearWitness PROVE TypeOK'
  <1> DEFINE x == WithLeg(appearances[activeAppearance], "direct", "available")
  <1>1. x \in Appearance /\ [x EXCEPT !.stage = "direct"] \in Appearance
    <2>1. appearances[activeAppearance] \in Appearance
      BY DEF TypeOK, SwearWitness, MaySwear, OnStand, StandTypeOK, Maybe
    <2>2. x \in Appearance
      BY <2>1, WithLegType DEF Kinds, LegStatuses
    <2> HIDE DEF x
    <2> QED
      BY <2>2 DEF Appearance, Stages, Kinds
  <1>2. StandTypeOK'
    BY <1>1 DEF TypeOK, SwearWitness, MaySwear, OnStand, StandTypeOK,
                WitnessStatuses, Maybe
  <1>3. ClockTypeOK'
    BY ClockStep DEF TypeOK, SwearWitness
  <1> QED
    BY <1>2, <1>3, Frames DEF TypeOK, SwearWitness

(* ASK_QUESTION stores a typed question about the leg on the stand.        *)
LEMMA AskQuestionTypeOK ==
  ASSUME TypeOK, NEW c \in Counsel, NEW q \in Questions,
         NEW shown \in SUBSET Exhibits, AskQuestion(c, q, shown)
  PROVE  TypeOK'
  <1>1. StandTypeOK'
    BY WithLegType
    DEF TypeOK, AskQuestion, MayAsk, ConductsLeg, OnStand, StandTypeOK,
        LegStatuses, WitnessStatuses, Maybe
  <1>2. QuestionTypeOK'
    BY DEF TypeOK, AskQuestion, MayAsk, ConductsLeg, OnStand, StandTypeOK,
           QuestionTypeOK, QuestionEntry, Maybe
  <1>3. ClockTypeOK'
    BY ClockStep DEF TypeOK, AskQuestion
  <1> QED
    BY <1>1, <1>2, <1>3, Frames DEF TypeOK, AskQuestion

(* REPHRASE_QUESTION copies a typed question.                              *)
LEMMA RephraseQuestionTypeOK ==
  ASSUME TypeOK, NEW c \in Counsel, NEW original \in Questions,
         NEW q \in Questions, RephraseQuestion(c, original, q)
  PROVE  TypeOK'
  <1>1. QuestionTypeOK'
    BY ZenonT(40) DEF TypeOK, RephraseQuestion, QuestionTypeOK, QuestionEntry, Maybe
  <1>2. ClockTypeOK'
    BY ClockStep DEF TypeOK, RephraseQuestion
  <1> QED
    BY <1>1, <1>2, Frames DEF TypeOK, RephraseQuestion

(* ANSWER_QUESTION writes typed testimony, facts and leg counts.           *)
LEMMA AnswerQuestionTypeOK ==
  ASSUME TypeOK, NEW r \in Responses, NEW cited \in SUBSET Facts,
         NEW shown \in SUBSET Exhibits, AnswerQuestion(r, cited, shown)
  PROVE  TypeOK'
  <1>1. activeQuestion \in Questions /\ activeAppearance \in Appearances
    BY DEF TypeOK, AnswerQuestion, MayAnswer, OnStand, StandTypeOK,
           QuestionTypeOK, Maybe
  <1>2. StandTypeOK'
    BY <1>1, CountAnswerType
    DEF TypeOK, AnswerQuestion, StandTypeOK, QuestionTypeOK, QuestionEntry
  <1>3. QuestionTypeOK'
    BY <1>1, ZenonT(40) DEF TypeOK, AnswerQuestion, QuestionTypeOK, QuestionEntry, Maybe
  <1>4. SpeechTypeOK'
    BY DEF TypeOK, AnswerQuestion, SpeechTypeOK, ResponseEntry, ResponseStatuses
  <1>5. RecordTypeOK'
    BY <1>1 DEF TypeOK, AnswerQuestion, RecordTypeOK, TestimonyEntry, FactEntry
  <1>6. ClockTypeOK'
    BY ClockStep DEF TypeOK, AnswerQuestion
  <1> QED
    BY <1>2, <1>3, <1>4, <1>5, <1>6, Frames DEF TypeOK, AnswerQuestion

(* END_EXAMINATION moves the appearance to a stage of the schema.          *)
LEMMA EndExaminationTypeOK ==
  ASSUME TypeOK, NEW c \in Counsel, NEW disposition \in {"completed", "waived"},
         EndExamination(c, disposition)
  PROVE  TypeOK'
  <1>1. activeAppearance \in Appearances
    BY DEF TypeOK, EndExamination, MayEndExamination, OnStand, StandTypeOK, Maybe
  <1> DEFINE kind == appearances[activeAppearance].stage
  <1>2. kind \in Kinds
    BY DEF EndExamination, MayEndExamination, ConductsLeg
  <1>4. FinishLeg(appearances[activeAppearance], kind, disposition) \in Appearance
    BY <1>1, <1>2, FinishLegType DEF TypeOK, StandTypeOK
  <1>5. StandTypeOK'
    BY <1>1, <1>4
    DEF TypeOK, EndExamination, MayEndExamination, OnStand, StandTypeOK,
        WitnessStatuses, Maybe
  <1>6. QuestionTypeOK'
    BY DEF TypeOK, EndExamination, QuestionTypeOK, Maybe
  <1>7. ClockTypeOK'
    BY ClockStep DEF TypeOK, EndExamination
  <1> QED
    BY <1>5, <1>6, <1>7, Frames DEF TypeOK, EndExamination

(* RELEASE_WITNESS clears the active IDs and keeps the types.              *)
LEMMA ReleaseWitnessTypeOK ==
  ASSUME TypeOK, NEW c \in Counsel, ReleaseWitness(c)
  PROVE  TypeOK'
  <1>1. StandTypeOK'
    BY DEF TypeOK, ReleaseWitness, MayRelease, OnStand, StandTypeOK, Appearance,
           Stages, WitnessStatuses, Maybe
  <1>2. QuestionTypeOK'
    BY DEF TypeOK, ReleaseWitness, QuestionTypeOK, Maybe
  <1>3. ClockTypeOK'
    BY ClockStep DEF TypeOK, ReleaseWitness
  <1> QED
    BY <1>1, <1>2, <1>3, Frames DEF TypeOK, ReleaseWitness

(* Every event of an examination keeps the types.                          *)
LEMMA ExaminationTypeOK ==
  ASSUME TypeOK, ExaminationNext PROVE TypeOK'
  BY TakeStandTypeOK, SwearWitnessTypeOK, AskQuestionTypeOK,
     RephraseQuestionTypeOK, AnswerQuestionTypeOK, EndExaminationTypeOK,
     ReleaseWitnessTypeOK
  DEF ExaminationNext, CallWitness, RecallWitness

-----------------------------------------------------------------------------
(* REQUEST_RESPONSE binds a typed response to the active question.         *)
LEMMA RequestResponseTypeOK ==
  ASSUME TypeOK, NEW r \in Responses, RequestResponse(r) PROVE TypeOK'
  <1>1. QuestionTypeOK'
    BY DEF TypeOK, RequestResponse, QuestionTypeOK, QuestionEntry, Maybe
  <1>2. SpeechTypeOK'
    BY DEF TypeOK, RequestResponse, QuestionTypeOK, SpeechTypeOK, ResponseEntry,
           ResponseStatuses, Maybe
  <1>3. ClockTypeOK'
    BY SettlementAssumption
    DEF TypeOK, RequestResponse, ClockTypeOK, OfferAges, Maybe
  <1> QED
    BY <1>1, <1>2, <1>3, Frames
    DEF TypeOK, RequestResponse, StandTypeOK, standVars

(* Clearing a question's activeResponseId keeps it typed.                  *)
LEMMA ClearActiveResponseType ==
  ASSUME QuestionTypeOK, NEW q, ClearActiveResponse(q), UNCHANGED activeQuestion
  PROVE  QuestionTypeOK'
  BY ZenonT(40) DEF ClearActiveResponse, QuestionTypeOK, QuestionEntry, Maybe

(* CANCEL_RESPONSE and COMPLETE_RESPONSE keep the types.                   *)
LEMMA CloseResponseTypeOK ==
  ASSUME TypeOK, NEW r \in Responses, NEW outcome \in {"cancelled", "committed"},
         CloseResponse(r, outcome)
  PROVE  TypeOK'
  <1>1. QuestionTypeOK'
    BY ClearActiveResponseType DEF TypeOK, CloseResponse
  <1>2. SpeechTypeOK'
    BY DEF TypeOK, CloseResponse, SpeechTypeOK, ResponseEntry, ResponseStatuses
  <1>3. ClockTypeOK'
    BY ClockStep DEF TypeOK, CloseResponse
  <1> QED
    BY <1>1, <1>2, <1>3, Frames DEF TypeOK, CloseResponse

(* OBJECT stores a typed objection.                                        *)
LEMMA ObjectTypeOK ==
  ASSUME TypeOK, NEW c \in Counsel, NEW o \in Objections,
         NEW r \in Maybe(Responses), Object(c, o, r)
  PROVE  TypeOK'
  <1>1. SpeechTypeOK'
    BY DEF TypeOK, Object, QuestionTypeOK, SpeechTypeOK, ObjectionEntry, Maybe
  <1>2. ClockTypeOK'
    BY ClockStep DEF TypeOK, Object
  <1> QED
    BY <1>1, <1>2, Frames DEF TypeOK, Object

(* Overruling an objection keeps the types.                                *)
LEMMA OverruleObjectionTypeOK ==
  ASSUME TypeOK, NEW o \in Objections, OverruleObjection(o) PROVE TypeOK'
  <1>1. SpeechTypeOK'
    BY ZenonT(40) DEF TypeOK, OverruleObjection, SpeechTypeOK, ObjectionEntry, Maybe
  <1>2. ClockTypeOK'
    BY ClockStep DEF TypeOK, OverruleObjection
  <1> QED
    BY <1>1, <1>2, Frames DEF TypeOK, OverruleObjection

(* Sustaining rewrites the objection's question, if the ID names one.      *)
LEMMA SustainObjectionTypeOK ==
  ASSUME TypeOK, NEW o \in Objections,
         NEW remedy \in {"rephrase", "cancel_response"},
         SustainObjection(o, remedy)
  PROVE  TypeOK'
  <1>1. QuestionTypeOK'
    <2> DEFINE q == objections[o].question
    <2>1. CASE q \in Questions
      <3>1. [questions[q] EXCEPT !.status = "sustained", !.activeResponse = None]
              \in QuestionEntry
        BY <2>1, ZenonT(40) DEF TypeOK, QuestionTypeOK, QuestionEntry, Maybe
      <3> QED
        BY <2>1, <3>1 DEF TypeOK, SustainObjection, QuestionTypeOK, Maybe
    <2>2. CASE q \notin Questions
      BY <2>2 DEF TypeOK, SustainObjection, QuestionTypeOK, Maybe
    <2> QED
      BY <2>1, <2>2
  <1>2. SpeechTypeOK'
    BY ZenonT(40) DEF TypeOK, SustainObjection, SpeechTypeOK, ObjectionEntry, Maybe
  <1>3. ClockTypeOK'
    BY ClockStep DEF TypeOK, SustainObjection
  <1> QED
    BY <1>1, <1>2, <1>3, Frames DEF TypeOK, SustainObjection

(* BEGIN_INTERRUPTION stores a typed interruption.                         *)
LEMMA BeginInterruptionTypeOK ==
  ASSUME TypeOK, NEW r \in Responses, NEW o \in Maybe(Objections),
         BeginInterruption(r, o)
  PROVE  TypeOK'
  <1>1. SpeechTypeOK'
    BY DEF TypeOK, BeginInterruption, SpeechTypeOK, InterruptionEntry, Maybe
  <1>2. ClockTypeOK'
    BY ClockStep DEF TypeOK, BeginInterruption
  <1> QED
    BY <1>1, <1>2, Frames DEF TypeOK, BeginInterruption

(* RESOLVE_INTERRUPTION with outcome cancel keeps the types.               *)
LEMMA ResolveByCancellingTypeOK ==
  ASSUME TypeOK, ResolveByCancelling PROVE TypeOK'
  <1>2. QuestionTypeOK'
    BY ClearActiveResponseType DEF TypeOK, ResolveByCancelling
  <1>3. SpeechTypeOK'
    BY DEF TypeOK, ResolveByCancelling, SpeechTypeOK, ResponseEntry,
           ResponseStatuses, InterruptionEntry
  <1>4. ClockTypeOK'
    BY ClockStep DEF TypeOK, ResolveByCancelling
  <1> QED
    BY <1>2, <1>3, <1>4, Frames DEF TypeOK, ResolveByCancelling

(* RESOLVE_INTERRUPTION with outcome resume keeps the types.               *)
LEMMA ResolveForResumeTypeOK ==
  ASSUME TypeOK, ResolveForResume PROVE TypeOK'
  <1>1. SpeechTypeOK'
    BY DEF TypeOK, ResolveForResume, SpeechTypeOK, InterruptionEntry
  <1>2. ClockTypeOK'
    BY ClockStep DEF TypeOK, ResolveForResume
  <1> QED
    BY <1>1, <1>2, Frames DEF TypeOK, ResolveForResume, SpeechTypeOK

(* RESUME_INTERRUPTED_SPEECH re-pins a typed response.                     *)
LEMMA ResumeInterruptedSpeechTypeOK ==
  ASSUME TypeOK, ResumeInterruptedSpeech PROVE TypeOK'
  <1>1. SpeechTypeOK'
    BY DEF TypeOK, ResumeInterruptedSpeech, SpeechTypeOK, ResponseEntry,
           ResponseStatuses, InterruptionEntry
  <1>2. ClockTypeOK'
    BY SettlementAssumption
    DEF TypeOK, ResumeInterruptedSpeech, SpeechTypeOK, InterruptionEntry,
        ClockTypeOK, OfferAges, Maybe
  <1> QED
    BY <1>1, <1>2, Frames DEF TypeOK, ResumeInterruptedSpeech

(* Every event about responses and objections keeps the types.             *)
LEMMA InterruptionTypeOK ==
  ASSUME TypeOK, InterruptionNext PROVE TypeOK'
  BY RequestResponseTypeOK, CloseResponseTypeOK, ObjectTypeOK,
     OverruleObjectionTypeOK, SustainObjectionTypeOK, BeginInterruptionTypeOK,
     ResolveByCancellingTypeOK, ResolveForResumeTypeOK,
     ResumeInterruptedSpeechTypeOK
  DEF InterruptionNext, CancelResponse, CompleteResponse

-----------------------------------------------------------------------------
(* MOVE_TO_STRIKE stores a typed motion.                                   *)
LEMMA MoveToStrikeTypeOK ==
  ASSUME TypeOK, NEW c \in Counsel, NEW m \in Motions,
         NEW struck \in SUBSET Questions, MoveToStrike(c, m, struck)
  PROVE  TypeOK'
  <1>1. RecordTypeOK'
    BY DEF TypeOK, MoveToStrike, RecordTypeOK, MotionEntry, Maybe
  <1>2. ClockTypeOK'
    BY ClockStep DEF TypeOK, MoveToStrike
  <1> QED
    BY <1>1, <1>2, Frames DEF TypeOK, MoveToStrike, recordFrame

(* STRIKE_TESTIMONY closes typed testimony, facts and the motion.          *)
LEMMA StrikeTestimonyTypeOK ==
  ASSUME TypeOK, NEW m \in Motions, StrikeTestimony(m)
  PROVE  TypeOK'
  <1>1. RecordTypeOK'
    <2>1. testimony' \in [Questions -> TestimonyEntry]
      BY DEF TypeOK, StrikeTestimony, RecordTypeOK, TestimonyEntry
    <2>2. facts' \in [Facts -> FactEntry]
      BY DEF TypeOK, StrikeTestimony, RecordTypeOK, FactEntry
    <2>3. motions' \in [Motions -> MotionEntry]
      BY DEF TypeOK, StrikeTestimony, RecordTypeOK, MotionEntry
    <2>4. evidence' = evidence
      BY DEF StrikeTestimony
    <2> QED
      BY <2>1, <2>2, <2>3, <2>4 DEF TypeOK, RecordTypeOK
  <1>2. ClockTypeOK'
    BY ClockStep DEF TypeOK, StrikeTestimony
  <1> QED
    BY <1>1, <1>2, Frames DEF TypeOK, StrikeTestimony, recordFrame

(* Denying or withdrawing a motion keeps the types.                        *)
LEMMA CloseMotionTypeOK ==
  ASSUME TypeOK, NEW m \in Motions,
         NEW outcome \in {"granted", "denied", "withdrawn"}, CloseMotion(m, outcome)
  PROVE  TypeOK'
  <1>1. RecordTypeOK'
    BY DEF TypeOK, CloseMotion, RecordTypeOK, MotionEntry
  <1>2. ClockTypeOK'
    BY ClockStep DEF TypeOK, CloseMotion
  <1> QED
    BY <1>1, <1>2, Frames DEF TypeOK, CloseMotion, recordFrame

(* OFFER_EVIDENCE stores who offered the exhibit on which testimony.       *)
LEMMA OfferEvidenceTypeOK ==
  ASSUME TypeOK, NEW c \in Counsel, NEW e \in Exhibits,
         NEW foundation \in SUBSET Questions, OfferEvidence(c, e, foundation)
  PROVE  TypeOK'
  <1>1. RecordTypeOK'
    BY RosterAssumption DEF TypeOK, OfferEvidence, RecordTypeOK, EvidenceEntry, Maybe
  <1>2. ClockTypeOK'
    BY ClockStep DEF TypeOK, OfferEvidence
  <1> QED
    BY <1>1, <1>2, Frames DEF TypeOK, OfferEvidence, recordFrame

(* RULE_ON_EVIDENCE writes a status of the schema.                         *)
LEMMA RuleOnEvidenceTypeOK ==
  ASSUME TypeOK, NEW e \in Exhibits,
         NEW ruling \in {"admitted", "excluded"}, RuleOnEvidence(e, ruling)
  PROVE  TypeOK'
  <1>1. RecordTypeOK'
    BY DEF TypeOK, RuleOnEvidence, RecordTypeOK, EvidenceEntry
  <1>2. ClockTypeOK'
    BY ClockStep DEF TypeOK, RuleOnEvidence
  <1> QED
    BY <1>1, <1>2, Frames DEF TypeOK, RuleOnEvidence, recordFrame

(* WITHDRAW_EVIDENCE writes a status of the schema.                        *)
LEMMA WithdrawEvidenceTypeOK ==
  ASSUME TypeOK, NEW c \in Counsel, NEW e \in Exhibits, WithdrawEvidence(c, e)
  PROVE  TypeOK'
  <1>1. RecordTypeOK'
    BY DEF TypeOK, WithdrawEvidence, RecordTypeOK, EvidenceEntry
  <1>2. ClockTypeOK'
    BY ClockStep DEF TypeOK, WithdrawEvidence
  <1> QED
    BY <1>1, <1>2, Frames DEF TypeOK, WithdrawEvidence, recordFrame

(* Reviewing or revealing a fact writes a status of the schema.            *)
LEMMA SetFactTypeOK ==
  ASSUME TypeOK, NEW f \in Facts,
         NEW newStatus \in {"proposed", "verified", "disputed", "admitted", "excluded"},
         SetFact(f, newStatus)
  PROVE  TypeOK'
  <1>1. RecordTypeOK'
    BY DEF TypeOK, SetFact, RecordTypeOK, FactEntry
  <1>2. ClockTypeOK'
    BY ClockStep DEF TypeOK, SetFact
  <1> QED
    BY <1>1, <1>2, Frames DEF TypeOK, SetFact, recordFrame

(* PROPOSE_ASSERTION stores a typed basis.                                 *)
LEMMA ProposeAssertionTypeOK ==
  ASSUME TypeOK, NEW f \in Facts,
         NEW basis \in SUBSET (Questions \cup Exhibits), ProposeAssertion(f, basis)
  PROVE  TypeOK'
  <1>1. RecordTypeOK'
    BY DEF TypeOK, ProposeAssertion, RecordTypeOK, FactEntry
  <1>2. ClockTypeOK'
    BY ClockStep DEF TypeOK, ProposeAssertion
  <1> QED
    BY <1>1, <1>2, Frames DEF TypeOK, ProposeAssertion, recordFrame

(* Every event about the record keeps the types.                           *)
LEMMA TrialRecordTypeOK ==
  ASSUME TypeOK, TrialRecordNext PROVE TypeOK'
  BY MoveToStrikeTypeOK, StrikeTestimonyTypeOK, CloseMotionTypeOK,
     OfferEvidenceTypeOK, RuleOnEvidenceTypeOK, WithdrawEvidenceTypeOK,
     SetFactTypeOK, ProposeAssertionTypeOK
  DEF TrialRecordNext, DenyStrikeMotion, WithdrawStrikeMotion, RevealHiddenFact,
      VerifyAssertion, DisputeAssertion, RuleOnAssertion

-----------------------------------------------------------------------------
(* Every event of the calendar keeps the types.                            *)
LEMMA ProceedingsTypeOK ==
  ASSUME TypeOK, ProceedingsNext PROVE TypeOK'
  <1>1. UNCHANGED courtroomFrame
    BY DEF ProceedingsNext, BeginPhase, PauseTrial, RequestRecess, ResumeTrial,
           FailStep, RecoverStep, RestCase, GiveClosing, UpdateOpposingStrategy,
           InstructJury, Deliberate, RenderVerdict, GenerateDebrief
  <1>2. ClockTypeOK'
    BY ClockStep
    DEF TypeOK, ProceedingsNext, BeginPhase, PauseTrial, RequestRecess,
        ResumeTrial, FailStep, RecoverStep, RestCase, GiveClosing,
        UpdateOpposingStrategy, InstructJury, Deliberate, RenderVerdict,
        GenerateDebrief
  <1>3. CalendarTypeOK' /\ JuryTypeOK'
    <2> USE DEF TypeOK, CalendarTypeOK, JuryTypeOK, calendarVars, juryVars, Maybe
    <2>1. ASSUME NEW p \in Phases, BeginPhase(p)
          PROVE  CalendarTypeOK' /\ JuryTypeOK'
      BY <2>1 DEF BeginPhase
    <2>2. ASSUME PauseTrial PROVE CalendarTypeOK' /\ JuryTypeOK'
      BY <2>2 DEF PauseTrial
    <2>3. ASSUME RequestRecess PROVE CalendarTypeOK' /\ JuryTypeOK'
      BY <2>3 DEF RequestRecess, Phases
    <2>4. ASSUME ResumeTrial PROVE CalendarTypeOK' /\ JuryTypeOK'
      BY <2>4 DEF ResumeTrial, Phases
    <2>5. ASSUME NEW step \in Steps, FailStep(step)
          PROVE  CalendarTypeOK' /\ JuryTypeOK'
      BY <2>5 DEF FailStep
    <2>6. ASSUME NEW step \in Steps, RecoverStep(step)
          PROVE  CalendarTypeOK' /\ JuryTypeOK'
      BY <2>6 DEF RecoverStep
    <2>7. ASSUME NEW c \in Counsel, RestCase(c) \/ GiveClosing(c)
          PROVE  CalendarTypeOK' /\ JuryTypeOK'
      BY <2>7, RosterAssumption DEF RestCase, GiveClosing
    <2>8. ASSUME NEW c \in Counsel, UpdateOpposingStrategy(c)
          PROVE  CalendarTypeOK' /\ JuryTypeOK'
      BY <2>8 DEF UpdateOpposingStrategy
    <2>9. ASSUME InstructJury \/ Deliberate \/ RenderVerdict \/ GenerateDebrief
          PROVE  CalendarTypeOK' /\ JuryTypeOK'
      BY <2>9 DEF InstructJury, Deliberate, RenderVerdict, GenerateDebrief
    <2> QED
      BY <2>1, <2>2, <2>3, <2>4, <2>5, <2>6, <2>7, <2>8, <2>9 DEF ProceedingsNext
  <1> QED
    BY <1>1, <1>2, <1>3, Frames DEF TypeOK, courtroomFrame

-----------------------------------------------------------------------------
(* What counsel offers is a typed offer.                                   *)
LEMMA NewOfferType ==
  ASSUME NEW c \in Counsel, NEW recipient \in Parties, NEW terms \in Terms
  PROVE  NewOffer(c, recipient, terms) \in OfferEntry
  BY SettlementAssumption DEF NewOffer, OfferEntry, Maybe

(* Opening an offer sets the clocks and keeps the rest typed.              *)
LEMMA OpenOfferTypeOK ==
  ASSUME TypeOK, NEW o \in Offers, OpenOffer(o),
         offers' \in [Offers -> OfferEntry]
  PROVE  TypeOK'
  <1>1. OfferTypeOK' /\ ClockTypeOK'
    BY SettlementAssumption DEF OpenOffer, OfferTypeOK, ClockTypeOK, Maybe
  <1> QED
    BY <1>1, Frames DEF TypeOK, OpenOffer, settlementFrame

(* PROPOSE_SETTLEMENT keeps the types.                                     *)
LEMMA ProposeSettlementTypeOK ==
  ASSUME TypeOK, NEW c \in Counsel, NEW o \in Offers, NEW recipient \in Parties,
         NEW terms \in Terms, ProposeSettlement(c, o, recipient, terms)
  PROVE  TypeOK'
  <1>1. offers' \in [Offers -> OfferEntry]
    BY NewOfferType DEF TypeOK, OfferTypeOK, ProposeSettlement
  <1> QED
    BY <1>1, OpenOfferTypeOK DEF ProposeSettlement

(* COUNTER_SETTLEMENT keeps the types of both offers.                      *)
LEMMA CounterSettlementTypeOK ==
  ASSUME TypeOK, NEW c \in Counsel, NEW o \in Offers, NEW recipient \in Parties,
         NEW terms \in Terms, CounterSettlement(c, o, recipient, terms)
  PROVE  TypeOK'
  <1> DEFINE closed == [offers EXCEPT ![activeOffer].status = "countered"]
  <1>1. closed \in [Offers -> OfferEntry]
    BY DEF TypeOK, OfferTypeOK, OfferEntry
  <1>2. offers' = [closed EXCEPT ![o] = NewOffer(c, recipient, terms)]
    BY DEF CounterSettlement
  <1> HIDE DEF closed
  <1>3. offers' \in [Offers -> OfferEntry]
    BY <1>1, <1>2, NewOfferType
  <1> QED
    BY <1>3, OpenOfferTypeOK DEF CounterSettlement

(* Rejecting, withdrawing or expiring an offer keeps the types.            *)
LEMMA CloseOfferTypeOK ==
  ASSUME TypeOK, NEW outcome \in {"rejected", "withdrawn", "expired"},
         CloseOffer(outcome)
  PROVE  TypeOK'
  <1>1. OfferTypeOK'
    BY DEF TypeOK, CloseOffer, OfferTypeOK, OfferEntry, Maybe
  <1>2. ClockTypeOK'
    BY ClockStep DEF TypeOK, CloseOffer
  <1> QED
    BY <1>1, <1>2, Frames DEF TypeOK, CloseOffer, settlementFrame

(* Terminating the running leg leaves an appearance.                       *)
LEMMA TerminatedAppearanceType ==
  ASSUME NEW x \in Appearance PROVE TerminatedAppearance(x) \in Appearance
  <1> DEFINE legs == [k \in Kinds |->
                       IF k = x.stage THEN [x.legs[k] EXCEPT !.status = "terminated"]
                                      ELSE x.legs[k]]
  <1>1. legs \in [Kinds -> Leg]
    BY DEF Appearance, Leg, LegStatuses
  <1> HIDE DEF legs
  <1>2. [x EXCEPT !.stage = "released", !.legs = legs] \in Appearance
    BY <1>1 DEF Appearance, Stages
  <1> QED
    BY <1>2 DEF TerminatedAppearance, legs

(* ACCEPT_SETTLEMENT closes everything and keeps the types.                *)
LEMMA AcceptSettlementTypeOK ==
  ASSUME TypeOK, NEW c \in Counsel, AcceptSettlement(c) PROVE TypeOK'
  <1>1. CalendarTypeOK'
    BY DEF TypeOK, AcceptSettlement, CalendarTypeOK, Phases, Maybe
  <1>2. StandTypeOK'
    <2>1. appearances' \in [Appearances -> Appearance]
      BY TerminatedAppearanceType
      DEF TypeOK, AcceptSettlement, StandTypeOK, Maybe
    <2>2. witnesses' \in [Witnesses -> WitnessStatuses]
      BY DEF TypeOK, AcceptSettlement, StandTypeOK, WitnessStatuses, Maybe
    <2> QED
      BY <2>1, <2>2 DEF AcceptSettlement, StandTypeOK, Maybe
  <1>3. QuestionTypeOK'
    BY ZenonT(40) DEF TypeOK, AcceptSettlement, QuestionTypeOK, QuestionEntry, Maybe
  <1>4. SpeechTypeOK'
    <2>1. responses' \in [Responses -> ResponseEntry]
      BY DEF TypeOK, AcceptSettlement, SpeechTypeOK, ResponseEntry,
             ResponseStatuses
    <2>2. objections' \in [Objections -> ObjectionEntry]
      BY DEF TypeOK, AcceptSettlement, SpeechTypeOK, ObjectionEntry
    <2>3. interruption' \in InterruptionEntry
      BY DEF AcceptSettlement, NoInterruption, InterruptionEntry, Maybe
    <2> QED
      BY <2>1, <2>2, <2>3 DEF SpeechTypeOK
  <1>5. RecordTypeOK'
    BY DEF TypeOK, AcceptSettlement, RecordTypeOK, MotionEntry
  <1>6. OfferTypeOK'
    BY DEF TypeOK, AcceptSettlement, OfferTypeOK, OfferEntry, Maybe
  <1>7. ClockTypeOK'
    BY ClockStep DEF TypeOK, AcceptSettlement
  <1>8. JuryTypeOK'
    BY Frames DEF TypeOK, AcceptSettlement
  <1> QED
    BY <1>1, <1>2, <1>3, <1>4, <1>5, <1>6, <1>7, <1>8 DEF TypeOK

(* Every event of a negotiation keeps the types.                           *)
LEMMA SettlementTypeOK ==
  ASSUME TypeOK, SettlementNext PROVE TypeOK'
  BY ProposeSettlementTypeOK, CounterSettlementTypeOK, CloseOfferTypeOK,
     AcceptSettlementTypeOK
  DEF SettlementNext, RejectSettlement, WithdrawSettlement, ExpireSettlement

-----------------------------------------------------------------------------
(* Every event, and stuttering, keeps the types.                           *)
LEMMA NextTypeOK ==
  ASSUME TypeOK, [Next]_vars PROVE TypeOK'
  <1>1. CASE Next
    BY <1>1, ExaminationTypeOK, InterruptionTypeOK, TrialRecordTypeOK,
       ProceedingsTypeOK, SettlementTypeOK
    DEF Next
  <1>2. CASE UNCHANGED vars
    BY <1>2, Frames DEF TypeOK, vars
  <1> QED
    BY <1>1, <1>2

(* The state never leaves its types, whatever the roster, the policy and  *)
(* the number of identifiers (validateAction and applyTrialEvent).        *)
THEOREM TypeCorrect == Spec => []TypeOK
  BY InitTypeOK, NextTypeOK, PTL DEF Spec

-----------------------------------------------------------------------------
(* The floor: the four properties that need one another to be inductive.   *)
FloorInv ==
  /\ TypeOK
  /\ StandIsConsistent
  /\ LegsOpenInOrder
  /\ FloorIsTheOpenQuestion
  /\ PendingObjectionHoldsFloor

(* A trial starts with an empty stand and an empty floor.                  *)
LEMMA InitFloorInv == Init => FloorInv
  <1> SUFFICES ASSUME Init PROVE FloorInv
    OBVIOUS
  <1>1. StandIsConsistent
    BY DEF Init, StandIsConsistent, NoAppearance
  <1>2. LegsOpenInOrder
    BY DEF Init, LegsOpenInOrder, NoAppearance, NoLeg, NoQuestion, LegsAhead, Kinds
  <1>3. FloorIsTheOpenQuestion /\ PendingObjectionHoldsFloor
    BY NoneAssumption
    DEF Init, FloorIsTheOpenQuestion, PendingObjectionHoldsFloor, Pending,
        NoQuestion
  <1> QED
    BY <1>1, <1>2, <1>3, InitTypeOK DEF FloorInv

-----------------------------------------------------------------------------
(* An event that leaves the stand alone, moves no question and makes no    *)
(* objection pending preserves the floor.                                  *)
LEMMA SteadyFloor ==
  ASSUME FloorInv, TypeOK', UNCHANGED <<standVars, activeQuestion>>,
         \A q \in Questions : /\ questions'[q].status = questions[q].status
                              /\ questions'[q].appearance = questions[q].appearance
                              /\ questions'[q].kind = questions[q].kind,
         \A o \in Objections : /\ objections'[o].question = objections[o].question
                               /\ objections'[o].status = "pending" => Pending(o)
  PROVE  FloorInv'
  <1>1. StandIsConsistent'
    BY DEF FloorInv, StandIsConsistent, standVars
  <1>2. LegsOpenInOrder'
    BY DEF FloorInv, LegsOpenInOrder, standVars
  <1>3. FloorIsTheOpenQuestion'
    <2>1. \A q \in Questions : questions'[q].status = "open" <=> activeQuestion' = q
      BY DEF FloorInv, FloorIsTheOpenQuestion
    <2>2. ASSUME activeQuestion' # None
          PROVE  /\ questions'[activeQuestion'].appearance = activeAppearance'
                 /\ activeAppearance' # None
                 /\ appearances'[activeAppearance'].stage
                      = questions'[activeQuestion'].kind
                 /\ appearances'[activeAppearance'].legs
                      [questions'[activeQuestion'].kind].status = "in_progress"
      BY <2>2 DEF FloorInv, TypeOK, QuestionTypeOK, Maybe, FloorIsTheOpenQuestion,
                  standVars
    <2> QED
      BY <2>1, <2>2 DEF FloorIsTheOpenQuestion
  <1>4. PendingObjectionHoldsFloor'
    BY DEF FloorInv, PendingObjectionHoldsFloor, Pending
  <1> QED
    BY <1>1, <1>2, <1>3, <1>4 DEF FloorInv

-----------------------------------------------------------------------------
(* Responses, interruptions, the record, the calendar and negotiations     *)
(* leave the floor steady.                                                 *)
LEMMA SteadySpeech ==
  ASSUME FloorInv, TypeOK',
         \/ \E r \in Responses :
              RequestResponse(r) \/ CancelResponse(r) \/ CompleteResponse(r)
         \/ ResolveByCancelling
  PROVE  FloorInv'
  <1>1. ASSUME NEW q, ClearActiveResponse(q)
        PROVE  \A p \in Questions :
                 /\ questions'[p].status = questions[p].status
                 /\ questions'[p].appearance = questions[p].appearance
                 /\ questions'[p].kind = questions[p].kind
    BY <1>1 DEF FloorInv, TypeOK, QuestionTypeOK, QuestionEntry, ClearActiveResponse
  <1>2. \A p \in Questions :
          /\ questions'[p].status = questions[p].status
          /\ questions'[p].appearance = questions[p].appearance
          /\ questions'[p].kind = questions[p].kind
    <2>1. CASE \E r \in Responses : CancelResponse(r) \/ CompleteResponse(r)
      BY <1>1, <2>1 DEF CancelResponse, CompleteResponse, CloseResponse
    <2>2. CASE ResolveByCancelling
      BY <1>1, <2>2 DEF ResolveByCancelling
    <2>3. CASE \E r \in Responses : RequestResponse(r)
      BY <2>3
      DEF FloorInv, TypeOK, QuestionTypeOK, QuestionEntry, RequestResponse
    <2> QED
      BY <2>1, <2>2, <2>3
  <1>3. UNCHANGED <<standVars, activeQuestion, objections>>
    BY DEF RequestResponse, CancelResponse, CompleteResponse, CloseResponse,
           ResolveByCancelling
  <1> QED
    BY <1>2, <1>3, SteadyFloor DEF Pending

(* An event that touches no stand, question or objection is steady.        *)
LEMMA SteadyRest ==
  ASSUME FloorInv, TypeOK', UNCHANGED <<standVars, questionVars, objections>>
  PROVE  FloorInv'
  BY SteadyFloor DEF questionVars, Pending

(* An overruled objection leaves its question on the floor.                *)
LEMMA SteadyOverrule ==
  ASSUME FloorInv, TypeOK', NEW o \in Objections, OverruleObjection(o)
  PROVE  FloorInv'
  <1>1. \A p \in Objections : /\ objections'[p].question = objections[p].question
                              /\ objections'[p].status = "pending" => Pending(p)
    BY DEF FloorInv, TypeOK, SpeechTypeOK, ObjectionEntry, OverruleObjection, Pending
  <1> QED
    BY <1>1, SteadyFloor DEF OverruleObjection, questionVars

-----------------------------------------------------------------------------
(* Calling, swearing, asking and answering.                                *)
LEMMA FloorTakeStand ==
  ASSUME FloorInv, TypeOK', NEW c \in Counsel, NEW w \in Witnesses,
         NEW a \in Appearances, TakeStand(c, w, a)
  PROVE  FloorInv'
  <1>1. appearances'[a] = [stage |-> "awaiting_oath", witness |-> w,
                           side |-> SideOf[c], legs |-> [k \in Kinds |-> NoLeg]]
    BY DEF FloorInv, TypeOK, StandTypeOK, TakeStand, NoAppearance
  <1>2. \A b \in Appearances : b # a => appearances'[b] = appearances[b]
    BY DEF FloorInv, TypeOK, StandTypeOK, TakeStand
  <1>3. activeQuestion = None
    BY DEF FloorInv, FloorIsTheOpenQuestion, TakeStand, MayTakeStand
  <1>4. UNCHANGED <<questions, activeQuestion, objections>>
    BY DEF TakeStand, questionVars, speechVars
  <1>5. \A q \in Questions : questions[q].status # "none" =>
          questions[q].appearance # a
    BY DEF FloorInv, TypeOK, QuestionTypeOK, QuestionEntry, LegsOpenInOrder,
           LegsAhead, TakeStand
  <1>6. StandIsConsistent'
    BY <1>1, <1>2, NoneAssumption
    DEF FloorInv, TypeOK, StandTypeOK, StandIsConsistent, TakeStand, MayTakeStand
  <1>7. LegsOpenInOrder'
    BY <1>1, <1>2, <1>4, <1>5
    DEF FloorInv, LegsOpenInOrder, LegsAhead, NoLeg, Kinds
  <1>8. FloorIsTheOpenQuestion' /\ PendingObjectionHoldsFloor'
    BY <1>3, <1>4
    DEF FloorInv, FloorIsTheOpenQuestion, PendingObjectionHoldsFloor, Pending
  <1> QED
    BY <1>6, <1>7, <1>8 DEF FloorInv

(* Setting the status of a leg changes nothing else in the appearance.     *)
LEMMA WithLegFields ==
  ASSUME NEW x \in Appearance, NEW k \in Kinds, NEW s \in LegStatuses
  PROVE  /\ WithLeg(x, k, s).stage = x.stage
         /\ WithLeg(x, k, s).witness = x.witness
         /\ WithLeg(x, k, s).legs[k].status = s
         /\ \A j \in Kinds : j # k => WithLeg(x, k, s).legs[j] = x.legs[j]
  <1> DEFINE leg == [x.legs[k] EXCEPT !.status = s]
             y == [x EXCEPT !.legs = [x.legs EXCEPT ![k] = leg]]
  <1>1. leg.status = s
    BY DEF Appearance, Leg
  <1> HIDE DEF leg
  <1>2. /\ y.stage = x.stage
        /\ y.witness = x.witness
        /\ y.legs[k] = leg
        /\ \A j \in Kinds : j # k => y.legs[j] = x.legs[j]
    BY DEF Appearance
  <1>3. WithLeg(x, k, s) = y
    BY DEF WithLeg, leg
  <1> QED
    BY <1>1, <1>2, <1>3

(* SWEAR_WITNESS opens the first leg while no question is asked yet.       *)
LEMMA FloorSwearWitness ==
  ASSUME FloorInv, TypeOK', SwearWitness
  PROVE  FloorInv'
  <1> DEFINE a == activeAppearance
             y == WithLeg(appearances[a], "direct", "available")
  <1>1. a \in Appearances /\ appearances[a] \in Appearance
    BY DEF FloorInv, TypeOK, StandTypeOK, SwearWitness, MaySwear, OnStand, Maybe
  <1>13. "direct" \in Kinds /\ "available" \in LegStatuses
    BY DEF Kinds, LegStatuses
  <1>2. /\ y \in Appearance
        /\ y.witness = appearances[a].witness
        /\ y.legs["direct"].status = "available"
        /\ \A j \in Kinds : j # "direct" => y.legs[j] = appearances[a].legs[j]
    BY <1>1, <1>13, WithLegType, WithLegFields
  <1>3. appearances' = [appearances EXCEPT ![a] = [y EXCEPT !.stage = "direct"]]
    BY DEF SwearWitness
  <1> HIDE DEF y
  <1>4. /\ appearances'[a].stage = "direct"
        /\ appearances'[a].witness = appearances[a].witness
        /\ appearances'[a].legs["direct"].status = "available"
        /\ \A j \in Kinds : j # "direct" =>
             appearances'[a].legs[j] = appearances[a].legs[j]
    BY <1>1, <1>2, <1>3 DEF FloorInv, TypeOK, StandTypeOK, Appearance
  <1>5. \A b \in Appearances : b # a => appearances'[b] = appearances[b]
    BY <1>3 DEF FloorInv, TypeOK, StandTypeOK
  <1>6. appearances[a].stage = "awaiting_oath"
    BY DEF SwearWitness, MaySwear
  <1>7. activeQuestion = None
    BY <1>6
    DEF FloorInv, TypeOK, QuestionTypeOK, QuestionEntry, Kinds, Maybe,
        FloorIsTheOpenQuestion
  <1>8. UNCHANGED <<questions, activeQuestion, objections, activeWitness,
                    activeAppearance>>
    BY DEF SwearWitness, questionVars, speechVars
  <1>9. StandIsConsistent'
    BY <1>1, <1>4, <1>5, <1>8
    DEF FloorInv, TypeOK, StandTypeOK, Maybe, StandIsConsistent, SwearWitness,
        MaySwear, OnStand
  <1>10. \A q \in Questions : questions[q].status # "none" =>
           questions[q].appearance # a
    BY <1>6 DEF FloorInv, TypeOK, QuestionTypeOK, QuestionEntry, LegsOpenInOrder,
                LegsAhead
  <1>11. LegsOpenInOrder'
    BY <1>1, <1>4, <1>5, <1>6, <1>8, <1>10
    DEF FloorInv, LegsOpenInOrder, LegsAhead, Kinds
  <1>12. FloorIsTheOpenQuestion' /\ PendingObjectionHoldsFloor'
    BY <1>7, <1>8
    DEF FloorInv, FloorIsTheOpenQuestion, PendingObjectionHoldsFloor, Pending
  <1> QED
    BY <1>9, <1>11, <1>12 DEF FloorInv

(* ASK_QUESTION puts a fresh question of the running leg on the floor.     *)
LEMMA FloorAskQuestion ==
  ASSUME FloorInv, TypeOK', NEW c \in Counsel, NEW q \in Questions,
         NEW shown \in SUBSET Exhibits, AskQuestion(c, q, shown)
  PROVE  FloorInv'
  <1> DEFINE a    == activeAppearance
             kind == appearances[a].stage
             y    == WithLeg(appearances[a], kind, "in_progress")
  <1>1. /\ a \in Appearances
        /\ appearances[a] \in Appearance
        /\ kind \in Kinds
        /\ activeQuestion = None
        /\ questions[q].status = "none"
    BY DEF FloorInv, TypeOK, StandTypeOK, AskQuestion, MayAsk, OnStand,
           ConductsLeg, Maybe
  <1>2. "in_progress" \in LegStatuses
    BY DEF LegStatuses
  <1>3. /\ y.stage = kind
        /\ y.witness = appearances[a].witness
        /\ y.legs[kind].status = "in_progress"
        /\ \A j \in Kinds : j # kind => y.legs[j] = appearances[a].legs[j]
    BY <1>1, <1>2, WithLegFields
  <1>4. appearances' = [appearances EXCEPT ![a] = y]
    BY DEF AskQuestion
  <1>5. appearances'[a] = y /\ \A b \in Appearances : b # a => appearances'[b] = appearances[b]
    BY <1>1, <1>4 DEF FloorInv, TypeOK, StandTypeOK
  <1> HIDE DEF y
  <1>6. /\ questions'[q].status = "open"
        /\ questions'[q].appearance = a
        /\ questions'[q].kind = kind
        /\ \A p \in Questions : p # q => questions'[p] = questions[p]
        /\ activeQuestion' = q
    BY DEF FloorInv, TypeOK, QuestionTypeOK, AskQuestion
  <1>7. UNCHANGED <<objections, activeWitness, activeAppearance>>
    BY DEF AskQuestion, speechVars
  <1>8. StandIsConsistent'
    BY <1>1, <1>3, <1>5, <1>7
    DEF FloorInv, TypeOK, StandTypeOK, Maybe, StandIsConsistent, AskQuestion,
        MayAsk, OnStand, Kinds
  <1>9. LegsOpenInOrder'
    <2>1. ASSUME NEW b \in Appearances
          PROVE  /\ \A k \in LegsAhead(appearances'[b].stage) :
                      appearances'[b].legs[k].status = "not_available"
                 /\ appearances'[b].stage \in Kinds =>
                      appearances'[b].legs[appearances'[b].stage].status
                        \in {"available", "in_progress"}
      BY <1>1, <1>3, <1>5 DEF FloorInv, LegsOpenInOrder, LegsAhead, Kinds
    <2>2. ASSUME NEW p \in Questions, questions'[p].status # "none"
          PROVE  /\ questions'[p].appearance \in Appearances
                 /\ appearances'[questions'[p].appearance].legs[questions'[p].kind].status
                      \notin {"not_available", "available"}
      <3>1. CASE p = q
        BY <1>1, <1>3, <1>5, <1>6, <3>1
      <3>2. CASE p # q
        BY <1>1, <1>3, <1>5, <1>6, <2>2, <3>2
        DEF FloorInv, LegsOpenInOrder, TypeOK, QuestionTypeOK, QuestionEntry
      <3> QED
        BY <3>1, <3>2
    <2> QED
      BY <2>1, <2>2 DEF LegsOpenInOrder
  <1>10. FloorIsTheOpenQuestion'
    BY <1>1, <1>3, <1>5, <1>6, <1>7, NoneAssumption
    DEF FloorInv, FloorIsTheOpenQuestion
  <1>11. PendingObjectionHoldsFloor'
    BY <1>1, <1>7 DEF FloorInv, PendingObjectionHoldsFloor, Pending
  <1> QED
    BY <1>8, <1>9, <1>10, <1>11 DEF FloorInv

(* REPHRASE_QUESTION asks again in the leg of the sustained question.      *)
LEMMA FloorRephraseQuestion ==
  ASSUME FloorInv, TypeOK', NEW c \in Counsel, NEW original \in Questions,
         NEW q \in Questions, RephraseQuestion(c, original, q)
  PROVE  FloorInv'
  <1>1. /\ questions[original].status = "sustained"
        /\ questions[original].appearance = activeAppearance
        /\ appearances[activeAppearance].stage = questions[original].kind
        /\ activeQuestion = None
        /\ questions[q].status = "none"
    BY DEF RephraseQuestion, MayRephrase
  <1>2. /\ questions'[q].status = "open"
        /\ questions'[q].appearance = activeAppearance
        /\ questions'[q].kind = questions[original].kind
        /\ \A p \in Questions : p # q => questions'[p] = questions[p]
        /\ activeQuestion' = q
    BY <1>1 DEF FloorInv, TypeOK, QuestionTypeOK, QuestionEntry, RephraseQuestion
  <1>3. UNCHANGED <<standVars, objections>>
    BY DEF RephraseQuestion, speechVars
  <1>4. /\ activeAppearance \in Appearances
        /\ questions[original].kind \in Kinds
        /\ appearances[activeAppearance].legs[questions[original].kind].status
             = "in_progress"
    BY <1>1 DEF FloorInv, TypeOK, QuestionTypeOK, QuestionEntry, LegsOpenInOrder
  <1>5. StandIsConsistent'
    BY <1>3 DEF FloorInv, StandIsConsistent, standVars
  <1>6. LegsOpenInOrder'
    BY <1>2, <1>3, <1>4 DEF FloorInv, LegsOpenInOrder, standVars
  <1>7. FloorIsTheOpenQuestion'
    BY <1>1, <1>2, <1>3, <1>4, NoneAssumption
    DEF FloorInv, FloorIsTheOpenQuestion, standVars
  <1>8. PendingObjectionHoldsFloor'
    BY <1>1, <1>3 DEF FloorInv, PendingObjectionHoldsFloor, Pending
  <1> QED
    BY <1>5, <1>6, <1>7, <1>8 DEF FloorInv

(* Counting an answer changes no stage and no status of a leg.             *)
LEMMA CountAnswerFields ==
  ASSUME NEW x \in Appearance, NEW k \in Kinds
  PROVE  /\ CountAnswer(x, k).stage = x.stage
         /\ CountAnswer(x, k).witness = x.witness
         /\ \A j \in Kinds : CountAnswer(x, k).legs[j].status = x.legs[j].status
  <1> DEFINE leg == [x.legs[k] EXCEPT !.answered = @ + 1]
             y == [x EXCEPT !.legs = [x.legs EXCEPT ![k] = leg]]
  <1>1. leg.status = x.legs[k].status
    BY DEF Appearance, Leg
  <1> HIDE DEF leg
  <1>2. /\ y.stage = x.stage
        /\ y.witness = x.witness
        /\ y.legs[k] = leg
        /\ \A j \in Kinds : j # k => y.legs[j] = x.legs[j]
    BY DEF Appearance
  <1>3. CountAnswer(x, k) = y
    BY DEF CountAnswer, leg
  <1> HIDE DEF y
  <1> QED
    BY <1>1, <1>2, <1>3

(* ANSWER_QUESTION empties an undisturbed floor.                           *)
LEMMA FloorAnswerQuestion ==
  ASSUME FloorInv, TypeOK', NEW r \in Responses, NEW cited \in SUBSET Facts,
         NEW shown \in SUBSET Exhibits, AnswerQuestion(r, cited, shown)
  PROVE  FloorInv'
  <1> DEFINE a == activeAppearance
             q == activeQuestion
             y == CountAnswer(appearances[a], questions[q].kind)
  <1>1. /\ a \in Appearances
        /\ appearances[a] \in Appearance
        /\ q \in Questions
        /\ questions[q].kind \in Kinds
        /\ questions[q].status = "open"
        /\ ~ \E o \in Objections : Pending(o) /\ objections[o].question = q
    BY DEF FloorInv, TypeOK, StandTypeOK, QuestionTypeOK, QuestionEntry,
           AnswerQuestion, MayAnswer, FloorUndisturbed, OnStand, Maybe
  <1>2. /\ y.stage = appearances[a].stage
        /\ y.witness = appearances[a].witness
        /\ \A j \in Kinds : y.legs[j].status = appearances[a].legs[j].status
    BY <1>1, CountAnswerFields
  <1>3. appearances' = [appearances EXCEPT ![a] = y]
    BY DEF AnswerQuestion
  <1>4. appearances'[a] = y /\ \A b \in Appearances : b # a => appearances'[b] = appearances[b]
    BY <1>1, <1>3 DEF FloorInv, TypeOK, StandTypeOK
  <1> HIDE DEF y
  <1>5. /\ questions'[q].status = "answered"
        /\ questions'[q].appearance = questions[q].appearance
        /\ questions'[q].kind = questions[q].kind
        /\ \A p \in Questions : p # q => questions'[p] = questions[p]
        /\ activeQuestion' = None
    BY <1>1 DEF FloorInv, TypeOK, QuestionTypeOK, QuestionEntry, AnswerQuestion
  <1>6. UNCHANGED <<objections, witnesses, activeWitness, activeAppearance>>
    BY DEF AnswerQuestion
  <1>7. StandIsConsistent'
    BY <1>1, <1>2, <1>4, <1>6
    DEF FloorInv, TypeOK, StandTypeOK, Maybe, StandIsConsistent
  <1>8. LegsOpenInOrder'
    <2>1. ASSUME NEW b \in Appearances
          PROVE  /\ appearances'[b].stage = appearances[b].stage
                 /\ \A j \in Kinds :
                      appearances'[b].legs[j].status = appearances[b].legs[j].status
      BY <1>2, <1>4
    <2>2. ASSUME NEW p \in Questions
          PROVE  /\ questions'[p].status # "none" => questions[p].status # "none"
                 /\ questions'[p].appearance = questions[p].appearance
                 /\ questions'[p].kind = questions[p].kind
      BY <1>1, <1>5
    <2>3. ASSUME NEW b \in Appearances
          PROVE  /\ \A k \in LegsAhead(appearances'[b].stage) :
                      appearances'[b].legs[k].status = "not_available"
                 /\ appearances'[b].stage \in Kinds =>
                      appearances'[b].legs[appearances'[b].stage].status
                        \in {"available", "in_progress"}
      <3>1. LegsAhead(appearances[b].stage) \subseteq Kinds
        BY DEF LegsAhead, Kinds
      <3> QED
        BY <2>1, <3>1 DEF FloorInv, LegsOpenInOrder
    <2>4. ASSUME NEW p \in Questions, questions'[p].status # "none"
          PROVE  /\ questions'[p].appearance \in Appearances
                 /\ appearances'[questions'[p].appearance].legs[questions'[p].kind].status
                      \notin {"not_available", "available"}
      <3>1. questions[p].kind \in Kinds
        BY DEF FloorInv, TypeOK, QuestionTypeOK, QuestionEntry
      <3>2. /\ questions[p].appearance \in Appearances
            /\ appearances[questions[p].appearance].legs[questions[p].kind].status
                 \notin {"not_available", "available"}
        BY <2>2, <2>4 DEF FloorInv, LegsOpenInOrder
      <3>3. appearances'[questions[p].appearance].legs[questions[p].kind].status =
              appearances[questions[p].appearance].legs[questions[p].kind].status
        BY <2>1, <3>1, <3>2
      <3> QED
        BY <2>2, <3>2, <3>3
    <2> QED
      BY <2>3, <2>4 DEF LegsOpenInOrder
  <1>9. FloorIsTheOpenQuestion'
    BY <1>5, NoneAssumption DEF FloorInv, FloorIsTheOpenQuestion
  <1>10. PendingObjectionHoldsFloor'
    BY <1>1, <1>6 DEF FloorInv, PendingObjectionHoldsFloor, Pending
  <1> QED
    BY <1>7, <1>8, <1>9, <1>10 DEF FloorInv

-----------------------------------------------------------------------------
(* Finishing a leg moves the stage on, gives the leg its disposition and   *)
(* opens the next leg, if there is one; the other legs keep their status.  *)
LEMMA FinishLegFields ==
  ASSUME NEW x \in Appearance, NEW kind \in Kinds,
         NEW disposition \in {"completed", "waived"}
  PROVE  LET y    == FinishLeg(x, kind, disposition)
             next == NextStage(kind, disposition)
         IN /\ y.stage = next
            /\ y.witness = x.witness
            /\ y.legs[kind].status = disposition
            /\ next \in Kinds => y.legs[next].status = "available"
            /\ \A k \in Kinds \ {kind, next} : y.legs[k] = x.legs[k]
  <1> DEFINE next == NextStage(kind, disposition)
             legs == [k \in Kinds |->
                       CASE k = kind -> [x.legs[k] EXCEPT !.status = disposition]
                         [] k = next /\ k # kind ->
                              [x.legs[k] EXCEPT !.status = "available"]
                         [] OTHER -> x.legs[k]]
             y == [x EXCEPT !.stage = next, !.legs = legs]
  <1>1. next # kind
    BY DEF NextStage, Kinds
  <1> HIDE DEF next
  <1>2. legs[kind].status = disposition
    BY DEF Appearance, Leg
  <1>3. next \in Kinds => legs[next].status = "available"
    BY <1>1 DEF Appearance, Leg
  <1>4. \A k \in Kinds \ {kind, next} : legs[k] = x.legs[k]
    OBVIOUS
  <1> HIDE DEF legs
  <1>5. y.stage = next /\ y.witness = x.witness /\ y.legs = legs
    BY DEF Appearance
  <1>6. FinishLeg(x, kind, disposition) = y
    BY DEF FinishLeg, legs, next
  <1> HIDE DEF y
  <1> QED
    BY <1>2, <1>3, <1>4, <1>5, <1>6 DEF next

(* After the leg at `kind' the stage moves to one of the legs ahead of it, *)
(* or past them all.                                                       *)
LEMMA NextStageAhead ==
  ASSUME NEW kind \in Kinds, NEW disposition \in {"completed", "waived"}
  PROVE  LET next == NextStage(kind, disposition)
         IN /\ next \in LegsAhead(kind) \cup {"ready_for_release"}
            /\ next \notin {"none", "released", "awaiting_oath"}
            /\ next # kind
            /\ LegsAhead(next) \subseteq LegsAhead(kind) \ {kind, next}
  BY DEF NextStage, LegsAhead, Kinds

(* END_EXAMINATION needs a quiet courtroom, so it disturbs no question.    *)
LEMMA FloorEndExamination ==
  ASSUME FloorInv, TypeOK', NEW c \in Counsel,
         NEW disposition \in {"completed", "waived"},
         EndExamination(c, disposition)
  PROVE  FloorInv'
  <1> DEFINE a    == activeAppearance
             kind == appearances[a].stage
             next == NextStage(kind, disposition)
             y    == FinishLeg(appearances[a], kind, disposition)
  <1>1. /\ a \in Appearances
        /\ appearances[a] \in Appearance
        /\ kind \in Kinds
        /\ activeQuestion = None
    BY DEF FloorInv, TypeOK, StandTypeOK, EndExamination, MayEndExamination,
           OnStand, ConductsLeg, HasOpenCourtroomWork, Maybe
  <1>2. /\ y.stage = next
        /\ y.witness = appearances[a].witness
        /\ y.legs[kind].status = disposition
        /\ next \in Kinds => y.legs[next].status = "available"
        /\ \A k \in Kinds \ {kind, next} : y.legs[k] = appearances[a].legs[k]
    BY <1>1, FinishLegFields
  <1>3. /\ next \in LegsAhead(kind) \cup {"ready_for_release"}
        /\ next \notin {"none", "released", "awaiting_oath"}
        /\ next # kind
        /\ LegsAhead(next) \subseteq LegsAhead(kind) \ {kind, next}
    BY <1>1, NextStageAhead
  <1>4. appearances' = [appearances EXCEPT ![a] = y]
    BY DEF EndExamination
  <1>5. /\ appearances'[a] = y
        /\ \A b \in Appearances : b # a => appearances'[b] = appearances[b]
    BY <1>1, <1>4 DEF FloorInv, TypeOK, StandTypeOK
  <1> HIDE DEF y, next
  <1>6. UNCHANGED <<questions, objections, activeQuestion, activeWitness,
                    activeAppearance>>
    BY <1>1 DEF EndExamination, speechVars
  <1>7. StandIsConsistent'
    BY <1>1, <1>2, <1>3, <1>5, <1>6
    DEF FloorInv, TypeOK, StandTypeOK, Maybe, StandIsConsistent, EndExamination,
        MayEndExamination, OnStand
  <1>8. /\ \A k \in LegsAhead(kind) : /\ k \in Kinds
                                     /\ appearances[a].legs[k].status = "not_available"
    BY <1>1 DEF FloorInv, LegsOpenInOrder, LegsAhead, Kinds
  <1>9. LegsOpenInOrder'
    <2>1. ASSUME NEW b \in Appearances
          PROVE  /\ \A k \in LegsAhead(appearances'[b].stage) :
                      appearances'[b].legs[k].status = "not_available"
                 /\ appearances'[b].stage \in Kinds =>
                      appearances'[b].legs[appearances'[b].stage].status
                        \in {"available", "in_progress"}
      <3>1. CASE b = a
        BY <1>1, <1>2, <1>3, <1>5, <1>8, <3>1
      <3>2. CASE b # a
        BY <1>5, <3>2 DEF FloorInv, LegsOpenInOrder
      <3> QED
        BY <3>1, <3>2
    <2>2. ASSUME NEW p \in Questions, questions[p].status # "none"
          PROVE  /\ questions[p].appearance \in Appearances
                 /\ appearances'[questions[p].appearance].legs[questions[p].kind].status
                      \notin {"not_available", "available"}
      <3>1. /\ questions[p].appearance \in Appearances
            /\ questions[p].kind \in Kinds
            /\ appearances[questions[p].appearance].legs[questions[p].kind].status
                 \notin {"not_available", "available"}
        BY <2>2 DEF FloorInv, TypeOK, QuestionTypeOK, QuestionEntry, LegsOpenInOrder
      <3>2. CASE questions[p].appearance # a
        BY <1>5, <3>1, <3>2
      <3>3. CASE questions[p].appearance = a
        <4>1. questions[p].kind # next
          BY <1>1, <1>3, <1>8, <3>1, <3>3 DEF Kinds
        <4> QED
          BY <1>2, <1>5, <3>1, <3>3, <4>1
      <3> QED
        BY <3>2, <3>3, <3>1
    <2> QED
      BY <1>6, <2>1, <2>2 DEF LegsOpenInOrder
  <1>10. FloorIsTheOpenQuestion' /\ PendingObjectionHoldsFloor'
    BY <1>1, <1>6
    DEF FloorInv, FloorIsTheOpenQuestion, PendingObjectionHoldsFloor, Pending
  <1> QED
    BY <1>7, <1>9, <1>10 DEF FloorInv

(* RELEASE_WITNESS empties the stand of an appearance that is over.        *)
LEMMA FloorReleaseWitness ==
  ASSUME FloorInv, TypeOK', NEW c \in Counsel, ReleaseWitness(c)
  PROVE  FloorInv'
  <1> DEFINE a == activeAppearance
  <1>1. /\ a \in Appearances
        /\ appearances[a] \in Appearance
        /\ activeQuestion = None
    BY DEF FloorInv, TypeOK, StandTypeOK, ReleaseWitness, MayRelease, OnStand,
           HasOpenCourtroomWork, Maybe
  <1>2. /\ appearances'[a].stage = "released"
        /\ appearances'[a].legs = appearances[a].legs
        /\ \A b \in Appearances : b # a => appearances'[b] = appearances[b]
    BY <1>1 DEF FloorInv, TypeOK, StandTypeOK, Appearance, ReleaseWitness
  <1>3. UNCHANGED <<questions, objections, activeQuestion>>
    BY <1>1 DEF ReleaseWitness, speechVars
  <1>4. StandIsConsistent'
    BY <1>1, <1>2
    DEF FloorInv, TypeOK, StandTypeOK, StandIsConsistent, ReleaseWitness, Maybe
  <1>5. LegsOpenInOrder'
    <2>1. ASSUME NEW b \in Appearances
          PROVE  /\ \A k \in LegsAhead(appearances'[b].stage) :
                      appearances'[b].legs[k].status = "not_available"
                 /\ appearances'[b].stage \in Kinds =>
                      appearances'[b].legs[appearances'[b].stage].status
                        \in {"available", "in_progress"}
      BY <1>2 DEF FloorInv, LegsOpenInOrder, LegsAhead, Kinds
    <2>2. \A b \in Appearances : appearances'[b].legs = appearances[b].legs
      BY <1>2
    <2> QED
      BY <1>3, <2>1, <2>2 DEF FloorInv, LegsOpenInOrder
  <1>6. FloorIsTheOpenQuestion' /\ PendingObjectionHoldsFloor'
    BY <1>1, <1>3
    DEF FloorInv, FloorIsTheOpenQuestion, PendingObjectionHoldsFloor, Pending
  <1> QED
    BY <1>4, <1>5, <1>6 DEF FloorInv

-----------------------------------------------------------------------------
(* OBJECT makes the only pending objection, about the question on the      *)
(* floor.                                                                  *)
LEMMA FloorObject ==
  ASSUME FloorInv, TypeOK', NEW c \in Counsel, NEW o \in Objections,
         NEW r \in Maybe(Responses), Object(c, o, r)
  PROVE  FloorInv'
  <1>1. /\ objections'[o].status = "pending"
        /\ objections'[o].question = activeQuestion
        /\ \A p \in Objections : p # o => objections'[p] = objections[p]
    BY DEF FloorInv, TypeOK, SpeechTypeOK, Object
  <1>2. UNCHANGED <<standVars, questionVars>>
    BY DEF Object
  <1>3. activeQuestion # None /\ \A p \in Objections : ~Pending(p)
    BY DEF FloorInv, PendingObjectionHoldsFloor, Object, MayObject
  <1>4. StandIsConsistent' /\ LegsOpenInOrder' /\ FloorIsTheOpenQuestion'
    BY <1>2
    DEF FloorInv, StandIsConsistent, LegsOpenInOrder, FloorIsTheOpenQuestion,
        standVars, questionVars
  <1>5. PendingObjectionHoldsFloor'
    BY <1>1, <1>2, <1>3 DEF PendingObjectionHoldsFloor, Pending, questionVars
  <1> QED
    BY <1>4, <1>5 DEF FloorInv

(* A sustained objection takes its question off the floor.                 *)
LEMMA FloorSustainObjection ==
  ASSUME FloorInv, TypeOK', NEW o \in Objections,
         NEW remedy \in {"rephrase", "cancel_response"},
         SustainObjection(o, remedy)
  PROVE  FloorInv'
  <1> DEFINE q == objections[o].question
  <1>1. /\ q = activeQuestion
        /\ q \in Questions
        /\ questions[q].status = "open"
        /\ \A p \in Objections : p # o => ~Pending(p)
    BY DEF FloorInv, TypeOK, QuestionTypeOK, Maybe, PendingObjectionHoldsFloor,
           FloorIsTheOpenQuestion, SustainObjection, Rulable
  <1>2. /\ questions'[q].status = "sustained"
        /\ questions'[q].appearance = questions[q].appearance
        /\ questions'[q].kind = questions[q].kind
        /\ \A p \in Questions : p # q => questions'[p] = questions[p]
        /\ activeQuestion' = None
    BY <1>1 DEF FloorInv, TypeOK, QuestionTypeOK, QuestionEntry, SustainObjection
  <1>3. /\ objections'[o].status = "sustained"
        /\ \A p \in Objections : p # o => objections'[p] = objections[p]
    BY DEF FloorInv, TypeOK, SpeechTypeOK, ObjectionEntry, SustainObjection
  <1>4. UNCHANGED standVars
    BY DEF SustainObjection
  <1>5. StandIsConsistent'
    BY <1>4 DEF FloorInv, StandIsConsistent, standVars
  <1>6. LegsOpenInOrder'
    BY <1>1, <1>2, <1>4 DEF FloorInv, LegsOpenInOrder, standVars
  <1>7. FloorIsTheOpenQuestion'
    BY <1>1, <1>2, NoneAssumption DEF FloorInv, FloorIsTheOpenQuestion
  <1>8. PendingObjectionHoldsFloor'
    BY <1>1, <1>3 DEF PendingObjectionHoldsFloor, Pending
  <1> QED
    BY <1>5, <1>6, <1>7, <1>8 DEF FloorInv

(* ACCEPT_SETTLEMENT clears the floor and the stand together.              *)
LEMMA FloorAcceptSettlement ==
  ASSUME FloorInv, TypeOK', NEW c \in Counsel, AcceptSettlement(c)
  PROVE  FloorInv'
  <1>1. /\ activeQuestion' = None
        /\ activeWitness' = None
        /\ activeAppearance' = None
    BY DEF AcceptSettlement
  <1>2. ASSUME NEW q \in Questions
        PROVE  /\ questions'[q].status # "open"
               /\ questions'[q].status = "none" <=> questions[q].status = "none"
               /\ questions'[q].appearance = questions[q].appearance
               /\ questions'[q].kind = questions[q].kind
    BY DEF FloorInv, TypeOK, QuestionTypeOK, QuestionEntry, AcceptSettlement
  <1>3. \A o \in Objections : objections'[o].status # "pending"
    BY DEF FloorInv, TypeOK, SpeechTypeOK, ObjectionEntry, AcceptSettlement, Pending
  <1>4. ASSUME NEW x \in Appearance
        PROVE  /\ TerminatedAppearance(x).stage = "released"
               /\ \A k \in Kinds : TerminatedAppearance(x).legs[k].status
                                      \in {x.legs[k].status, "terminated"}
    <2> DEFINE legs == [k \in Kinds |->
                 IF k = x.stage THEN [x.legs[k] EXCEPT !.status = "terminated"]
                                ELSE x.legs[k]]
               y == [x EXCEPT !.stage = "released", !.legs = legs]
    <2>1. \A k \in Kinds : legs[k].status \in {x.legs[k].status, "terminated"}
      BY DEF Appearance, Leg
    <2> HIDE DEF legs
    <2>2. y.stage = "released" /\ y.legs = legs
      BY DEF Appearance
    <2>3. TerminatedAppearance(x) = y
      BY DEF TerminatedAppearance, legs
    <2> QED
      BY <2>1, <2>2, <2>3
  <1>5. ASSUME NEW a \in Appearances
        PROVE  /\ appearances'[a].stage \in {"none", "released"}
               /\ a # activeAppearance => appearances'[a] = appearances[a]
               /\ a = activeAppearance => appearances'[a].stage = "released"
               /\ \A k \in Kinds : appearances'[a].legs[k].status
                                      \in {appearances[a].legs[k].status, "terminated"}
    <2>1. CASE a # activeAppearance
      BY <2>1 DEF FloorInv, TypeOK, StandTypeOK, Maybe, StandIsConsistent,
                  AcceptSettlement
    <2>2. CASE a = activeAppearance
      <3>1. appearances'[a] = TerminatedAppearance(appearances[a])
        BY <2>2, NoneAssumption DEF FloorInv, TypeOK, StandTypeOK, AcceptSettlement
      <3> QED
        BY <1>4, <2>2, <3>1 DEF FloorInv, TypeOK, StandTypeOK
    <2> QED
      BY <2>1, <2>2
  <1>6. \A w \in Witnesses : witnesses'[w] \in {"available", "released"}
    <2>1. ASSUME NEW w \in Witnesses, w # activeWitness
          PROVE  witnesses'[w] = witnesses[w]
      BY <2>1 DEF FloorInv, TypeOK, StandTypeOK, AcceptSettlement
    <2>2. activeWitness \in Witnesses => witnesses'[activeWitness] = "released"
      BY NoneAssumption DEF FloorInv, TypeOK, StandTypeOK, AcceptSettlement
    <2> QED
      BY <2>1, <2>2 DEF FloorInv, StandIsConsistent
  <1>7. StandIsConsistent'
    BY <1>1, <1>5, <1>6 DEF StandIsConsistent
  <1>8. LegsOpenInOrder'
    <2>1. ASSUME NEW a \in Appearances
          PROVE  /\ \A k \in LegsAhead(appearances'[a].stage) :
                      appearances'[a].legs[k].status = "not_available"
                 /\ appearances'[a].stage \notin Kinds
      BY <1>5 DEF FloorInv, LegsOpenInOrder, LegsAhead, Kinds
    <2> QED
      BY <1>2, <1>5, <2>1
      DEF FloorInv, TypeOK, QuestionTypeOK, QuestionEntry, LegsOpenInOrder
  <1>9. FloorIsTheOpenQuestion' /\ PendingObjectionHoldsFloor'
    BY <1>1, <1>2, <1>3, NoneAssumption
    DEF FloorIsTheOpenQuestion, PendingObjectionHoldsFloor, Pending
  <1> QED
    BY <1>7, <1>8, <1>9 DEF FloorInv

-----------------------------------------------------------------------------
(* Every event preserves the floor invariant.                              *)
LEMMA NextFloorInv ==
  ASSUME FloorInv, [Next]_vars PROVE FloorInv'
  <1>1. TypeOK'
    BY NextTypeOK DEF FloorInv
  <1>2. CASE ExaminationNext
    BY <1>1, <1>2, FloorTakeStand, FloorSwearWitness, FloorAskQuestion,
       FloorRephraseQuestion, FloorAnswerQuestion, FloorEndExamination,
       FloorReleaseWitness
    DEF ExaminationNext, CallWitness, RecallWitness
  <1>3. CASE InterruptionNext
    <2>1. CASE \/ \E r \in Responses, o \in Maybe(Objections) :
                    BeginInterruption(r, o)
               \/ ResolveForResume
               \/ ResumeInterruptedSpeech
      <3>1. UNCHANGED <<standVars, questionVars, objections>>
        BY <2>1 DEF BeginInterruption, ResolveForResume, ResumeInterruptedSpeech
      <3> QED
        BY <1>1, <3>1, SteadyRest
    <2> QED
      BY <1>1, <1>3, <2>1, SteadySpeech, SteadyOverrule, FloorObject,
         FloorSustainObjection
      DEF InterruptionNext
  <1>4. CASE TrialRecordNext
    <2>1. UNCHANGED <<standVars, questionVars, objections>>
      BY <1>4
      DEF TrialRecordNext, MoveToStrike, StrikeTestimony, CloseMotion,
          DenyStrikeMotion, WithdrawStrikeMotion, OfferEvidence, RuleOnEvidence,
          WithdrawEvidence, RevealHiddenFact, ProposeAssertion, VerifyAssertion,
          DisputeAssertion, RuleOnAssertion, SetFact, recordFrame, speechVars
    <2> QED
      BY <1>1, <2>1, SteadyRest
  <1>5. CASE ProceedingsNext
    <2>1. UNCHANGED <<standVars, questionVars, objections>>
      BY <1>5
      DEF ProceedingsNext, BeginPhase, PauseTrial, RequestRecess, ResumeTrial,
          FailStep, RecoverStep, RestCase, GiveClosing, InstructJury, Deliberate,
          RenderVerdict, GenerateDebrief, UpdateOpposingStrategy,
          courtroomFrame, speechVars
    <2> QED
      BY <1>1, <2>1, SteadyRest
  <1>6. CASE SettlementNext
    <2>1. ASSUME UNCHANGED <<standVars, questionVars, speechVars>>
          PROVE  FloorInv'
      BY <1>1, <2>1, SteadyRest DEF speechVars
    <2> QED
      BY <1>1, <1>6, <2>1, FloorAcceptSettlement
      DEF SettlementNext, ProposeSettlement, CounterSettlement, OpenOffer,
          RejectSettlement, WithdrawSettlement, ExpireSettlement, CloseOffer
  <1>7. CASE UNCHANGED vars
    BY <1>1, <1>7, SteadyRest DEF vars, speechVars
  <1> QED
    BY <1>2, <1>3, <1>4, <1>5, <1>6, <1>7 DEF Next

(* The floor invariant holds in every reachable state.                     *)
LEMMA FloorInvariant == Spec => []FloorInv
  BY InitFloorInv, NextFloorInv, PTL DEF Spec

(* Whoever is called, sworn or testifying is on the stand, and nobody else *)
(* is: CALL, SWEAR, END, RELEASE and ACCEPT keep the two IDs, the status   *)
(* and the stage together for every cast.                                  *)
THEOREM StandStaysConsistent == Spec => []StandIsConsistent
  BY FloorInvariant, PTL DEF FloorInv

(* No leg opens twice or out of turn, in any number of appearances.        *)
THEOREM LegsStayInOrder == Spec => []LegsOpenInOrder
  BY FloorInvariant, PTL DEF FloorInv

(* The active question is the one open question, of the leg on the stand.  *)
THEOREM FloorStaysTheOpenQuestion == Spec => []FloorIsTheOpenQuestion
  BY FloorInvariant, PTL DEF FloorInv

(* A pending objection is the only one and about the question on the floor.*)
THEOREM PendingObjectionStaysOnFloor == Spec => []PendingObjectionHoldsFloor
  BY FloorInvariant, PTL DEF FloorInv

-----------------------------------------------------------------------------
(***************************************************************************)
(* The record.                                                            *)
(***************************************************************************)
RecordInv == TypeOK /\ StrickenFactHasNoTestimony

(* Granting a motion strikes a fact only when no testimony left in force   *)
(* cites it, and puts no testimony back in force.                          *)
LEMMA StrikeKeepsRecord ==
  ASSUME RecordInv, NEW m \in Motions, StrikeTestimony(m)
  PROVE  StrickenFactHasNoTestimony'
  <1> DEFINE struck == motions[m].testimony
  <1> SUFFICES ASSUME NEW f \in Facts, NEW q \in Questions,
                      facts'[f].status = "stricken", testimony'[q].status = "active"
               PROVE  f \notin testimony'[q].facts
    BY DEF StrickenFactHasNoTestimony, ActiveTestimony
  <1>1. q \notin struck /\ testimony'[q] = testimony[q]
    BY DEF RecordInv, TypeOK, RecordTypeOK, TestimonyEntry, StrikeTestimony
  <1>2. CASE facts[f].status = "stricken"
    BY <1>1, <1>2 DEF RecordInv, StrickenFactHasNoTestimony, ActiveTestimony
  <1>3. CASE facts[f].status # "stricken"
    <2>1. ~StillSupported(f, struck)
      BY <1>3 DEF StrikeTestimony
    <2> QED
      BY <1>1, <2>1 DEF StillSupported, ActiveTestimony
  <1> QED
    BY <1>2, <1>3

(* An answer cites no stricken fact and strikes none.                      *)
LEMMA AnswerKeepsRecord ==
  ASSUME RecordInv, NEW r \in Responses, NEW cited \in SUBSET Facts,
         NEW shown \in SUBSET Exhibits, AnswerQuestion(r, cited, shown)
  PROVE  StrickenFactHasNoTestimony'
  <1> SUFFICES ASSUME NEW f \in Facts, NEW q \in Questions,
                      facts'[f].status = "stricken", testimony'[q].status = "active"
               PROVE  f \notin testimony'[q].facts
    BY DEF StrickenFactHasNoTestimony, ActiveTestimony
  <1>1. facts[f].status = "stricken"
    BY DEF RecordInv, TypeOK, RecordTypeOK, FactEntry, AnswerQuestion
  <1>2. CASE q = activeQuestion
    <2>1. testimony'[q].facts = cited
      BY <1>2 DEF RecordInv, TypeOK, RecordTypeOK, AnswerQuestion
    <2> QED
      BY <1>1, <2>1 DEF AnswerQuestion, MayTestify
  <1>3. CASE q # activeQuestion
    <2>1. testimony'[q] = testimony[q]
      BY <1>3 DEF RecordInv, TypeOK, RecordTypeOK, AnswerQuestion
    <2> QED
      BY <1>1, <2>1 DEF RecordInv, StrickenFactHasNoTestimony, ActiveTestimony
  <1> QED
    BY <1>2, <1>3

LEMMA NextKeepsRecord ==
  ASSUME RecordInv, [Next]_vars PROVE StrickenFactHasNoTestimony'
  <1>1. ASSUME UNCHANGED testimony,
               \A f \in Facts : facts'[f].status = "stricken" =>
                 facts[f].status = "stricken"
        PROVE  StrickenFactHasNoTestimony'
    BY <1>1 DEF RecordInv, StrickenFactHasNoTestimony, ActiveTestimony
  <1>2. CASE ExaminationNext
    BY <1>1, <1>2, AnswerKeepsRecord
    DEF ExaminationNext, CallWitness, RecallWitness, TakeStand, SwearWitness,
        AskQuestion, RephraseQuestion, EndExamination, ReleaseWitness, recordVars
  <1>3. CASE InterruptionNext
    BY <1>1, <1>3
    DEF InterruptionNext, RequestResponse, CancelResponse, CompleteResponse,
        CloseResponse, Object, OverruleObjection, SustainObjection,
        BeginInterruption, ResolveByCancelling, ResolveForResume,
        ResumeInterruptedSpeech, recordVars
  <1>4. CASE TrialRecordNext
    <2>1. ASSUME NEW f \in Facts, NEW s, s # "stricken", SetFact(f, s)
          PROVE  StrickenFactHasNoTestimony'
      <3>1. \A g \in Facts : facts'[g].status \in {facts[g].status, s}
        BY <2>1 DEF RecordInv, TypeOK, RecordTypeOK, FactEntry, SetFact
      <3> QED
        BY <1>1, <2>1, <3>1 DEF SetFact
    <2>2. ASSUME NEW f \in Facts, NEW basis \in SUBSET (Questions \cup Exhibits),
                 ProposeAssertion(f, basis)
          PROVE  StrickenFactHasNoTestimony'
      BY <1>1, <2>2 DEF RecordInv, TypeOK, RecordTypeOK, ProposeAssertion
    <2>3. CASE \/ \E f \in Facts, e \in Exhibits : RevealHiddenFact(f, e)
               \/ \E f \in Facts : VerifyAssertion(f) \/ DisputeAssertion(f)
               \/ \E f \in Facts, ruling \in {"admitted", "excluded"} :
                    RuleOnAssertion(f, ruling)
      BY <2>1, <2>3
      DEF RevealHiddenFact, VerifyAssertion, DisputeAssertion, RuleOnAssertion
    <2> QED
      BY <1>1, <1>4, <2>2, <2>3, StrikeKeepsRecord
      DEF TrialRecordNext, MoveToStrike, CloseMotion, DenyStrikeMotion,
          WithdrawStrikeMotion, OfferEvidence, RuleOnEvidence, WithdrawEvidence
  <1>5. CASE ProceedingsNext
    BY <1>1, <1>5
    DEF ProceedingsNext, BeginPhase, PauseTrial, RequestRecess, ResumeTrial,
        FailStep, RecoverStep, RestCase, GiveClosing, InstructJury, Deliberate,
        RenderVerdict, GenerateDebrief, UpdateOpposingStrategy, courtroomFrame,
        recordVars
  <1>6. CASE SettlementNext
    BY <1>1, <1>6, ZenonT(40)
    DEF SettlementNext, ProposeSettlement, CounterSettlement, OpenOffer,
        RejectSettlement, WithdrawSettlement, ExpireSettlement, CloseOffer,
        AcceptSettlement, settlementFrame, recordVars
  <1>7. CASE UNCHANGED vars
    BY <1>1, <1>7 DEF vars, recordVars
  <1> QED
    BY <1>2, <1>3, <1>4, <1>5, <1>6, <1>7 DEF Next

(* No testimony in force cites a stricken fact: STRIKE_TESTIMONY strikes   *)
(* only what has lost its last support, and no later answer, assertion or  *)
(* ruling brings a stricken fact back.                                     *)
THEOREM StrickenFactsStayOut == Spec => []StrickenFactHasNoTestimony
  <1>1. Init => RecordInv
    BY InitTypeOK DEF Init, RecordInv, StrickenFactHasNoTestimony, ActiveTestimony
  <1>2. RecordInv /\ [Next]_vars => RecordInv'
    BY NextTypeOK, NextKeepsRecord DEF RecordInv
  <1>3. RecordInv => StrickenFactHasNoTestimony
    BY DEF RecordInv
  <1> QED
    BY <1>1, <1>2, <1>3, PTL DEF Spec

-----------------------------------------------------------------------------
(***************************************************************************)
(* The calendar.  What the property needs to be inductive: a phase to     *)
(* return to is recorded only during the recess that suspends it, so that *)
(* a second recess cannot meet a phase an earlier one left behind.        *)
(***************************************************************************)
RecessIsRecorded == phaseBeforeRecess # None => phase = "recess"

CalendarInv == FloorInv /\ RecessIsRecorded /\ RecordClosedBeforeArgument

(* Nobody takes the stand or moves to strike outside the case in chief, or *)
(* as it ends.                                                             *)
LEMMA StandAndMotionsNeedChief ==
  ASSUME CalendarInv, [Next]_vars, CurrentPhase' # "case_in_chief"
  PROVE  /\ activeAppearance = None => activeAppearance' = None
         /\ ~HasPendingStrikeMotion => ~HasPendingStrikeMotion'
  <1>1. ~(InChief /\ UNCHANGED phase)
    BY DEF InChief, CurrentPhase
  <1>2. ASSUME UNCHANGED <<activeAppearance, motions>>
        PROVE  /\ activeAppearance = None => activeAppearance' = None
               /\ ~HasPendingStrikeMotion => ~HasPendingStrikeMotion'
    BY <1>2 DEF HasPendingStrikeMotion
  <1>3. CASE ExaminationNext
    BY <1>1, <1>2, <1>3, ZenonT(40)
    DEF ExaminationNext, CallWitness, RecallWitness, TakeStand, MayTakeStand,
        SwearWitness, AskQuestion, RephraseQuestion, AnswerQuestion,
        EndExamination, ReleaseWitness, calendarVars, recordVars, standVars,
        HasPendingStrikeMotion
  <1>4. CASE InterruptionNext
    BY <1>2, <1>4
    DEF InterruptionNext, RequestResponse, CancelResponse, CompleteResponse,
        CloseResponse, Object, OverruleObjection, SustainObjection,
        BeginInterruption, ResolveByCancelling, ResolveForResume,
        ResumeInterruptedSpeech, recordVars, standVars
  <1>5. CASE TrialRecordNext
    BY <1>1, <1>2, <1>5
    DEF TrialRecordNext, MoveToStrike, StrikeTestimony, MayStrike, CloseMotion,
        DenyStrikeMotion, WithdrawStrikeMotion, OfferEvidence, RuleOnEvidence,
        WithdrawEvidence, RevealHiddenFact, ProposeAssertion, VerifyAssertion,
        DisputeAssertion, RuleOnAssertion, SetFact, recordFrame, calendarVars,
        standVars, HasPendingStrikeMotion
  <1>6. CASE ProceedingsNext
    BY <1>2, <1>6
    DEF ProceedingsNext, BeginPhase, PauseTrial, RequestRecess, ResumeTrial,
        FailStep, RecoverStep, RestCase, GiveClosing, InstructJury, Deliberate,
        RenderVerdict, GenerateDebrief, UpdateOpposingStrategy, courtroomFrame,
        recordVars, standVars
  <1>7. CASE SettlementNext
    <2>1. ASSUME NEW c \in Counsel, AcceptSettlement(c)
          PROVE  activeAppearance' = None /\ ~HasPendingStrikeMotion'
      BY <2>1 DEF CalendarInv, FloorInv, TypeOK, RecordTypeOK, MotionEntry,
                  AcceptSettlement, HasPendingStrikeMotion
    <2> QED
      BY <1>2, <1>7, <2>1
      DEF SettlementNext, ProposeSettlement, CounterSettlement, OpenOffer,
          RejectSettlement, WithdrawSettlement, ExpireSettlement, CloseOffer,
          settlementFrame, recordVars, standVars
  <1>8. CASE UNCHANGED vars
    BY <1>2, <1>8 DEF vars, recordVars, standVars
  <1> QED
    BY <1>3, <1>4, <1>5, <1>6, <1>7, <1>8 DEF Next

(* How the phase the trial is in, or will return to, may change: it stays, *)
(* it advances by one of the transitions, or the trial goes back to the    *)
(* case in chief, is settled or in recess.  No side takes back its rest.   *)
LEMMA PhaseSteps ==
  ASSUME CalendarInv, [Next]_vars
  PROVE  /\ RecessIsRecorded'
         /\ restedSides = Sides => restedSides' = Sides
         /\ \/ CurrentPhase' = CurrentPhase
            \/ CurrentPhase' \notin ArgumentPhases
            \/ MayBegin(CurrentPhase') /\ CurrentPhase = phase
  <1>1. ASSUME UNCHANGED <<phase, phaseBeforeRecess, restedSides>>
        PROVE  /\ RecessIsRecorded'
               /\ restedSides = Sides => restedSides' = Sides
               /\ CurrentPhase' = CurrentPhase
    BY <1>1 DEF CalendarInv, RecessIsRecorded, CurrentPhase
  <1>2. CASE ProceedingsNext
    <2>1. ASSUME NEW p \in Phases, BeginPhase(p)
          PROVE  /\ RecessIsRecorded'
                 /\ UNCHANGED restedSides
                 /\ CurrentPhase' = p
                 /\ MayBegin(p) /\ CurrentPhase = phase
      <3>1. phase # "recess"
        BY <2>1 DEF CalendarInv, FloorInv, TypeOK, CalendarTypeOK, BeginPhase,
                    MayBegin, PhaseTransitions, InSession, Phases
      <3>2. phaseBeforeRecess = None /\ phaseBeforeRecess' = None
        BY <2>1, <3>1 DEF CalendarInv, RecessIsRecorded, BeginPhase
      <3> QED
        BY <2>1, <3>1, <3>2
        DEF RecessIsRecorded, CurrentPhase, BeginPhase, juryVars
    <2>2. ASSUME RequestRecess
          PROVE  /\ RecessIsRecorded'
                 /\ UNCHANGED restedSides
                 /\ CurrentPhase' \in {CurrentPhase, "recess"}
      BY <2>2 DEF RequestRecess, RecessIsRecorded, CurrentPhase, InSession, juryVars
    <2>3. ASSUME ResumeTrial
          PROVE  /\ RecessIsRecorded'
                 /\ UNCHANGED restedSides
                 /\ CurrentPhase' \in {CurrentPhase, "case_in_chief"}
      BY <2>3 DEF CalendarInv, ResumeTrial, RecessIsRecorded, CurrentPhase, juryVars
    <2>4. ASSUME NEW c \in Counsel, RestCase(c)
          PROVE  /\ UNCHANGED <<phase, phaseBeforeRecess>>
                 /\ restedSides = Sides => restedSides' = Sides
      BY <2>4, RosterAssumption DEF RestCase, calendarVars
    <2>5. CurrentPhase' \in {"recess", "case_in_chief"} =>
            CurrentPhase' \notin ArgumentPhases
      BY DEF ArgumentPhases
    <2> QED
      BY <1>1, <1>2, <2>1, <2>2, <2>3, <2>4, <2>5
      DEF CalendarInv, RecessIsRecorded, CurrentPhase,
          ProceedingsNext, PauseTrial, FailStep, RecoverStep, GiveClosing,
          InstructJury, Deliberate, RenderVerdict, GenerateDebrief,
          UpdateOpposingStrategy, calendarVars, juryVars
  <1>3. CASE ExaminationNext
    BY <1>1, <1>3, ZenonT(40)
    DEF ExaminationNext, CallWitness, RecallWitness, TakeStand, SwearWitness,
        AskQuestion, RephraseQuestion, AnswerQuestion, EndExamination,
        ReleaseWitness, calendarVars, juryVars
  <1>4. CASE InterruptionNext
    BY <1>1, <1>4
    DEF InterruptionNext, RequestResponse, CancelResponse, CompleteResponse,
        CloseResponse, Object, OverruleObjection, SustainObjection,
        BeginInterruption, ResolveByCancelling, ResolveForResume,
        ResumeInterruptedSpeech, calendarVars, juryVars
  <1>5. CASE TrialRecordNext
    BY <1>1, <1>5
    DEF TrialRecordNext, MoveToStrike, StrikeTestimony, CloseMotion,
        DenyStrikeMotion, WithdrawStrikeMotion, OfferEvidence, RuleOnEvidence,
        WithdrawEvidence, RevealHiddenFact, ProposeAssertion, VerifyAssertion,
        DisputeAssertion, RuleOnAssertion, SetFact, recordFrame, calendarVars,
        juryVars
  <1>6. CASE SettlementNext
    <2>1. ASSUME NEW c \in Counsel, AcceptSettlement(c)
          PROVE  /\ RecessIsRecorded'
                 /\ UNCHANGED restedSides
                 /\ CurrentPhase' \notin ArgumentPhases
      BY <2>1
      DEF AcceptSettlement, RecessIsRecorded, CurrentPhase, ArgumentPhases, juryVars
    <2> QED
      BY <1>1, <1>6, <2>1
      DEF SettlementNext, ProposeSettlement, CounterSettlement, OpenOffer,
          RejectSettlement, WithdrawSettlement, ExpireSettlement, CloseOffer,
          settlementFrame, calendarVars, juryVars
  <1>7. CASE UNCHANGED vars
    BY <1>1, <1>7 DEF vars, calendarVars, juryVars
  <1> QED
    BY <1>2, <1>3, <1>4, <1>5, <1>6, <1>7 DEF Next

(* The phases of argument follow one another, and are entered through      *)
(* pre-closing only.                                                       *)
LEMMA ArgumentIsEnteredConcluded ==
  ASSUME NEW p, phase \in Phases, MayBegin(p), p \in ArgumentPhases
  PROVE  phase \in ArgumentPhases \/ CasesConcluded
  BY DEF MayBegin, PhaseTransitions, ArgumentPhases, Phases

LEMMA NextCalendarInv ==
  ASSUME CalendarInv, [Next]_vars PROVE CalendarInv'
  <1>1. FloorInv'
    BY NextFloorInv DEF CalendarInv
  <1>2. RecessIsRecorded'
    BY PhaseSteps
  <1>3. ASSUME CurrentPhase' \in ArgumentPhases
        PROVE  /\ restedSides' = Sides
               /\ activeAppearance' = None
               /\ ~HasPendingStrikeMotion'
    <2>1. CurrentPhase \in ArgumentPhases \/ (CasesConcluded /\ CurrentPhase = phase)
      BY <1>3, PhaseSteps, ArgumentIsEnteredConcluded
      DEF CalendarInv, FloorInv, TypeOK, CalendarTypeOK
    <2>2. /\ restedSides = Sides
          /\ activeAppearance = None
          /\ ~HasPendingStrikeMotion
      BY <2>1 DEF CalendarInv, RecordClosedBeforeArgument, CasesConcluded
    <2>3. CurrentPhase' # "case_in_chief"
      BY <1>3 DEF ArgumentPhases
    <2> QED
      BY <2>2, <2>3, PhaseSteps, StandAndMotionsNeedChief
  <1>4. RecordClosedBeforeArgument'
    BY <1>1, <1>3
    DEF RecordClosedBeforeArgument, FloorInv, FloorIsTheOpenQuestion
  <1> QED
    BY <1>1, <1>2, <1>4 DEF CalendarInv

(* From pre-closing to the verdict both sides have rested, the stand and   *)
(* the floor are empty and no motion to strike is pending, whatever        *)
(* recesses, pauses and failures the trial has been through.               *)
THEOREM RecordStaysClosed == Spec => []RecordClosedBeforeArgument
  <1>1. Init => CalendarInv
    BY InitFloorInv
    DEF Init, CalendarInv, RecessIsRecorded, RecordClosedBeforeArgument,
        CurrentPhase, ArgumentPhases
  <1>2. CalendarInv /\ [Next]_vars => CalendarInv'
    BY NextCalendarInv
  <1>3. CalendarInv => RecordClosedBeforeArgument
    BY DEF CalendarInv
  <1> QED
    BY <1>1, <1>2, <1>3, PTL DEF Spec

-----------------------------------------------------------------------------
\* The inductive invariant of a negotiation.
OfferInv == TypeOK /\ OneOpenOffer

(* Making, countering and closing an offer keep the open offer and the     *)
(* active offer the same.                                                  *)
LEMMA NextOneOpenOffer ==
  ASSUME OfferInv, [Next]_vars PROVE OneOpenOffer'
  <1>1. ASSUME UNCHANGED offerVars PROVE OneOpenOffer'
    BY <1>1 DEF OfferInv, OneOpenOffer, offerVars
  <1>2. CASE SettlementNext
    <2>1. ASSUME NEW c \in Counsel, NEW o \in Offers, NEW recipient \in Parties,
                 NEW terms \in Terms, ProposeSettlement(c, o, recipient, terms)
          PROVE  OneOpenOffer'
      BY <2>1, NoneAssumption
      DEF OfferInv, TypeOK, OfferTypeOK, OneOpenOffer, ProposeSettlement,
          MayOffer, NewOffer, OpenOffer
    <2>2. ASSUME NEW c \in Counsel, NEW o \in Offers, NEW recipient \in Parties,
                 NEW terms \in Terms, CounterSettlement(c, o, recipient, terms)
          PROVE  OneOpenOffer'
      <3>1. /\ activeOffer \in Offers
            /\ o # activeOffer
            /\ activeOffer' = o
        BY <2>2
        DEF OfferInv, TypeOK, OfferTypeOK, Maybe, OneOpenOffer,
            CounterSettlement, MayCounter, Recipient, MayOffer, OpenOffer
      <3>2. /\ offers'[o].status = "open"
            /\ offers'[activeOffer].status = "countered"
            /\ \A p \in Offers \ {o, activeOffer} : offers'[p] = offers[p]
        BY <2>2, <3>1
        DEF OfferInv, TypeOK, OfferTypeOK, OfferEntry, CounterSettlement, NewOffer
      <3> QED
        BY <3>1, <3>2 DEF OfferInv, OneOpenOffer
    <2>3. ASSUME NEW how \in {"accepted", "rejected", "withdrawn", "expired"},
                 activeOffer # None, activeOffer' = None,
                 offers' = [offers EXCEPT ![activeOffer].status = how]
          PROVE  OneOpenOffer'
      BY <2>3, NoneAssumption
      DEF OfferInv, TypeOK, OfferTypeOK, OfferEntry, Maybe, OneOpenOffer
    <2> QED
      BY <1>2, <2>1, <2>2, <2>3
      DEF SettlementNext, AcceptSettlement, MayAccept, OfferAnswerable,
          RejectSettlement, WithdrawSettlement, ExpireSettlement, CloseOffer
  <1>3. CASE ExaminationNext
    BY <1>1, <1>3
    DEF ExaminationNext, CallWitness, RecallWitness, TakeStand, SwearWitness,
        AskQuestion, RephraseQuestion, AnswerQuestion, EndExamination,
        ReleaseWitness
  <1>4. CASE InterruptionNext
    BY <1>1, <1>4
    DEF InterruptionNext, RequestResponse, CancelResponse, CompleteResponse,
        CloseResponse, Object, OverruleObjection, SustainObjection,
        BeginInterruption, ResolveByCancelling, ResolveForResume,
        ResumeInterruptedSpeech
  <1>5. CASE TrialRecordNext
    BY <1>1, <1>5
    DEF TrialRecordNext, MoveToStrike, StrikeTestimony, CloseMotion,
        DenyStrikeMotion, WithdrawStrikeMotion, OfferEvidence, RuleOnEvidence,
        WithdrawEvidence, RevealHiddenFact, ProposeAssertion, VerifyAssertion,
        DisputeAssertion, RuleOnAssertion, SetFact, recordFrame
  <1>6. CASE ProceedingsNext
    BY <1>1, <1>6
    DEF ProceedingsNext, BeginPhase, PauseTrial, RequestRecess, ResumeTrial,
        FailStep, RecoverStep, RestCase, GiveClosing, InstructJury, Deliberate,
        RenderVerdict, GenerateDebrief, UpdateOpposingStrategy, courtroomFrame
  <1>7. CASE UNCHANGED vars
    BY <1>1, <1>7 DEF vars
  <1> QED
    BY <1>2, <1>3, <1>4, <1>5, <1>6, <1>7 DEF Next

(* At most one offer is open in any negotiation, and it is the active one. *)
THEOREM OneOfferStaysOpen == Spec => []OneOpenOffer
  <1>1. Init => OfferInv
    BY InitTypeOK, NoneAssumption DEF Init, OfferInv, OneOpenOffer
  <1>2. OfferInv /\ [Next]_vars => OfferInv'
    BY NextTypeOK, NextOneOpenOffer DEF OfferInv
  <1>3. OfferInv => OneOpenOffer
    BY DEF OfferInv
  <1> QED
    BY <1>1, <1>2, <1>3, PTL DEF Spec

-----------------------------------------------------------------------------
(***************************************************************************)
(* Settlement.  An open offer already binds its proposer, between adverse *)
(* parties; and once one is accepted no event makes the trial active      *)
(* again, so that no other can be.                                        *)
(***************************************************************************)
Authorized(party, terms) ==
  \E c \in Counsel : PartyOf[c] = party /\ CanAuthorize(c, terms)

OpenOffersBind ==
  \A o \in Offers : offers[o].status = "open" =>
    /\ PartySide[offers[o].proposer] = OpposingSide(PartySide[offers[o].recipient])
    /\ Authorized(offers[o].proposer, offers[o].terms)

Settled == \E o \in Offers : offers[o].status = "accepted"

SettlementEndsTrial ==
  Settled => /\ status \in {"settled", "complete"}
             /\ phase \in {"debrief", "complete"}

SettlementInv ==
  OfferInv /\ OpenOffersBind /\ SettlementEndsTrial /\ SettlementIsBilateral

(* An event that leaves the offers alone does not revive a settled trial.  *)
LEMMA SettledStaysSettled ==
  ASSUME SettlementInv, [Next]_vars, UNCHANGED offers
  PROVE  OpenOffersBind' /\ SettlementEndsTrial' /\ SettlementIsBilateral'
  <1>1. OpenOffersBind' /\ SettlementIsBilateral'
    BY DEF SettlementInv, OpenOffersBind, SettlementIsBilateral
  <1>2. SettlementEndsTrial'
    <2> SUFFICES ASSUME Settled'
                 PROVE  status' \in {"settled", "complete"} /\ phase' \in {"debrief", "complete"}
      BY DEF SettlementEndsTrial
    <2>1. status \in {"settled", "complete"} /\ phase \in {"debrief", "complete"}
      BY DEF SettlementInv, SettlementEndsTrial, Settled
    <2>2. ~Active
      BY <2>1 DEF Active
    <2>3. ASSUME UNCHANGED <<status, phase>>
          PROVE  status' \in {"settled", "complete"} /\ phase' \in {"debrief", "complete"}
      BY <2>1, <2>3
    <2>4. CASE ProceedingsNext
      BY <2>1, <2>2, <2>3, <2>4
      DEF ProceedingsNext, BeginPhase, PauseTrial, RequestRecess, ResumeTrial,
          FailStep, RecoverStep, RestCase, GiveClosing, InstructJury, Deliberate,
          RenderVerdict, GenerateDebrief, UpdateOpposingStrategy, InSession,
          calendarVars
    <2>5. CASE ExaminationNext
      BY <2>3, <2>5
      DEF ExaminationNext, CallWitness, RecallWitness, TakeStand, SwearWitness,
          AskQuestion, RephraseQuestion, AnswerQuestion, EndExamination,
          ReleaseWitness, calendarVars
    <2>6. CASE InterruptionNext
      BY <2>3, <2>6
      DEF InterruptionNext, RequestResponse, CancelResponse, CompleteResponse,
          CloseResponse, Object, OverruleObjection, SustainObjection,
          BeginInterruption, ResolveByCancelling, ResolveForResume,
          ResumeInterruptedSpeech, calendarVars
    <2>7. CASE TrialRecordNext
      BY <2>3, <2>7
      DEF TrialRecordNext, MoveToStrike, StrikeTestimony, CloseMotion,
          DenyStrikeMotion, WithdrawStrikeMotion, OfferEvidence, RuleOnEvidence,
          WithdrawEvidence, RevealHiddenFact, ProposeAssertion, VerifyAssertion,
          DisputeAssertion, RuleOnAssertion, SetFact, recordFrame, calendarVars
    <2>8. CASE SettlementNext
      BY <2>2, <2>3, <2>8
      DEF SettlementNext, ProposeSettlement, CounterSettlement, MayOffer,
          OpenOffer, RejectSettlement, WithdrawSettlement, ExpireSettlement,
          CloseOffer, AcceptSettlement, MayAccept, OfferAnswerable
    <2>9. CASE UNCHANGED vars
      BY <2>3, <2>9 DEF vars, calendarVars
    <2> QED
      BY <2>4, <2>5, <2>6, <2>7, <2>8, <2>9 DEF Next
  <1> QED
    BY <1>1, <1>2

(* An offer is made in an active trial, hence before any settlement, within*)
(* the authority of the counsel who makes it and to an adverse party.      *)
LEMMA NewOfferBinds ==
  ASSUME NEW c \in Counsel, NEW o \in Offers, NEW recipient \in Parties,
         NEW terms \in Terms, MayOffer(c, o, recipient, terms), PartyOf[c] # None
  PROVE  /\ PartySide[PartyOf[c]] = OpposingSide(PartySide[recipient])
         /\ Authorized(PartyOf[c], terms)
  <1>1. PartySide[PartyOf[c]] = SideOf[c] /\ SideOf[c] \in Sides
    BY SettlementAssumption, RosterAssumption
  <1>2. PartySide[recipient] = OpposingSide(SideOf[c]) /\ CanAuthorize(c, terms)
    BY DEF MayOffer, Opponent
  <1> QED
    BY <1>1, <1>2 DEF OpposingSide, Sides, Authorized

LEMMA MakingKeepsSettlement ==
  ASSUME SettlementInv, NEW c \in Counsel, NEW o \in Offers,
         NEW recipient \in Parties, NEW terms \in Terms,
         \/ ProposeSettlement(c, o, recipient, terms)
         \/ CounterSettlement(c, o, recipient, terms)
  PROVE  OpenOffersBind' /\ SettlementEndsTrial' /\ SettlementIsBilateral'
  <1>1. ~Settled /\ MayOffer(c, o, recipient, terms) /\ PartyOf[c] # None
    BY DEF SettlementInv, SettlementEndsTrial, MayOffer, Active,
           ProposeSettlement, CounterSettlement, MayCounter, CanPropose, CanCounter
  <1>2. /\ offers'[o] = NewOffer(c, recipient, terms)
        /\ \A p \in Offers : p # o =>
             \/ offers'[p] = offers[p]
             \/ offers'[p].status = "countered"
    BY DEF SettlementInv, OfferInv, TypeOK, OfferTypeOK, OfferEntry,
           ProposeSettlement, CounterSettlement
  <1>3. ~Settled'
    BY <1>1, <1>2 DEF Settled, NewOffer
  <1>4. OpenOffersBind'
    <2>1. ASSUME NEW p \in Offers, offers'[p].status = "open"
          PROVE  /\ PartySide[offers'[p].proposer]
                      = OpposingSide(PartySide[offers'[p].recipient])
                 /\ Authorized(offers'[p].proposer, offers'[p].terms)
      <3>1. CASE p = o
        BY <1>1, <1>2, <3>1, NewOfferBinds DEF NewOffer
      <3>2. CASE p # o
        BY <1>2, <2>1, <3>2 DEF SettlementInv, OpenOffersBind
      <3> QED
        BY <3>1, <3>2
    <2> QED
      BY <2>1 DEF OpenOffersBind
  <1> QED
    BY <1>3, <1>4 DEF SettlementEndsTrial, SettlementIsBilateral, Settled

(* Every way of closing an offer changes its status alone.                 *)
LEMMA ClosedOffer ==
  ASSUME SettlementInv, activeOffer # None,
         NEW how \in {"accepted", "rejected", "withdrawn", "expired"},
         offers' = [offers EXCEPT ![activeOffer].status = how]
  PROVE  /\ activeOffer \in Offers
         /\ offers[activeOffer].status = "open"
         /\ offers'[activeOffer].status = how
         /\ offers'[activeOffer].proposer = offers[activeOffer].proposer
         /\ offers'[activeOffer].recipient = offers[activeOffer].recipient
         /\ offers'[activeOffer].terms = offers[activeOffer].terms
         /\ \A p \in Offers : p # activeOffer => offers'[p] = offers[p]
  BY DEF SettlementInv, OfferInv, TypeOK, OfferTypeOK, OfferEntry, Maybe,
         OneOpenOffer

LEMMA ClosingKeepsSettlement ==
  ASSUME SettlementInv, NEW how \in {"rejected", "withdrawn", "expired"},
         CloseOffer(how)
  PROVE  OpenOffersBind' /\ SettlementEndsTrial' /\ SettlementIsBilateral'
  <1>1. /\ activeOffer \in Offers
        /\ offers'[activeOffer].status = how
        /\ \A p \in Offers : p # activeOffer => offers'[p] = offers[p]
    BY ClosedOffer DEF CloseOffer, OfferAnswerable
  <1>2. ~Settled
    BY DEF SettlementInv, SettlementEndsTrial, Active, CloseOffer, OfferAnswerable
  <1>3. ~Settled'
    BY <1>1, <1>2 DEF Settled
  <1>4. OpenOffersBind'
    BY <1>1 DEF SettlementInv, OpenOffersBind
  <1> QED
    BY <1>3, <1>4 DEF SettlementEndsTrial, SettlementIsBilateral, Settled

(* ACCEPT_SETTLEMENT adds the authority of the recipient's counsel to that *)
(* of the proposer's, and ends the trial.                                  *)
LEMMA AcceptingKeepsSettlement ==
  ASSUME SettlementInv, NEW c \in Counsel, AcceptSettlement(c)
  PROVE  OpenOffersBind' /\ SettlementEndsTrial' /\ SettlementIsBilateral'
  <1> DEFINE a == activeOffer
  <1>1. /\ a \in Offers
        /\ offers[a].status = "open"
        /\ offers'[a].status = "accepted"
        /\ offers'[a].proposer = offers[a].proposer
        /\ offers'[a].recipient = offers[a].recipient
        /\ offers'[a].terms = offers[a].terms
        /\ \A p \in Offers : p # a => offers'[p] = offers[p]
    BY ClosedOffer DEF AcceptSettlement, MayAccept, OfferAnswerable
  <1>2. ~Settled
    BY DEF SettlementInv, SettlementEndsTrial, Active, AcceptSettlement, MayAccept,
           OfferAnswerable
  <1>3. OpenOffersBind'
    BY <1>1 DEF SettlementInv, OpenOffersBind
  <1>4. SettlementEndsTrial'
    BY DEF AcceptSettlement, SettlementEndsTrial
  <1>5. \A o \in Offers : offers'[o].status = "accepted" => o = a
    BY <1>1, <1>2 DEF Settled
  <1>6. /\ PartySide[offers[a].proposer] = OpposingSide(PartySide[offers[a].recipient])
        /\ Authorized(offers[a].proposer, offers[a].terms)
    BY <1>1 DEF SettlementInv, OpenOffersBind
  <1>7. Authorized(offers[a].recipient, offers[a].terms)
    BY DEF AcceptSettlement, MayAccept, Recipient, Authorized
  <1>8. SettlementIsBilateral'
    BY <1>1, <1>5, <1>6, <1>7 DEF SettlementIsBilateral, Authorized
  <1> QED
    BY <1>3, <1>4, <1>8

LEMMA NextSettlementInv ==
  ASSUME SettlementInv, [Next]_vars PROVE SettlementInv'
  <1>1. OfferInv'
    BY NextTypeOK, NextOneOpenOffer DEF SettlementInv, OfferInv
  <1>2. CASE SettlementNext
    <2>1. ASSUME NEW c \in Counsel, RejectSettlement(c) \/ WithdrawSettlement(c)
          PROVE  OpenOffersBind' /\ SettlementEndsTrial' /\ SettlementIsBilateral'
      BY <2>1, ClosingKeepsSettlement DEF RejectSettlement, WithdrawSettlement
    <2>2. ASSUME ExpireSettlement
          PROVE  OpenOffersBind' /\ SettlementEndsTrial' /\ SettlementIsBilateral'
      BY <2>2, ClosingKeepsSettlement DEF ExpireSettlement
    <2> QED
      BY <1>1, <1>2, <2>1, <2>2, MakingKeepsSettlement, AcceptingKeepsSettlement
      DEF SettlementNext, SettlementInv
  <1>3. CASE UNCHANGED offers
    BY <1>1, <1>3, SettledStaysSettled DEF SettlementInv
  <1>4. ~SettlementNext => UNCHANGED offers
    BY DEF Next, vars, offerVars, ExaminationNext, CallWitness, RecallWitness,
           TakeStand, SwearWitness, AskQuestion, RephraseQuestion, AnswerQuestion,
           EndExamination, ReleaseWitness, InterruptionNext, RequestResponse,
           CancelResponse, CompleteResponse, CloseResponse, Object,
           OverruleObjection, SustainObjection, BeginInterruption,
           ResolveByCancelling, ResolveForResume, ResumeInterruptedSpeech,
           TrialRecordNext, MoveToStrike, StrikeTestimony, CloseMotion,
           DenyStrikeMotion, WithdrawStrikeMotion, OfferEvidence, RuleOnEvidence,
           WithdrawEvidence, RevealHiddenFact, ProposeAssertion, VerifyAssertion,
           DisputeAssertion, RuleOnAssertion, SetFact, recordFrame,
           ProceedingsNext, BeginPhase, PauseTrial, RequestRecess, ResumeTrial,
           FailStep, RecoverStep, RestCase, GiveClosing, InstructJury, Deliberate,
           RenderVerdict, GenerateDebrief, UpdateOpposingStrategy, courtroomFrame
  <1> QED
    BY <1>2, <1>3, <1>4

(* A settlement binds two adverse parties within the authority counsel of  *)
(* each holds, through any chain of counteroffers, and there is only one:  *)
(* ACCEPT_SETTLEMENT ends the trial for good.                              *)
THEOREM SettlementsAreBilateral == Spec => []SettlementIsBilateral
  <1>1. Init => SettlementInv
    BY InitTypeOK, NoneAssumption
    DEF Init, SettlementInv, OfferInv, OneOpenOffer, OpenOffersBind,
        SettlementEndsTrial, Settled, SettlementIsBilateral
  <1>2. SettlementInv /\ [Next]_vars => SettlementInv'
    BY NextSettlementInv
  <1>3. SettlementInv => SettlementIsBilateral
    BY DEF SettlementInv
  <1> QED
    BY <1>1, <1>2, <1>3, PTL DEF Spec

-----------------------------------------------------------------------------
(***************************************************************************)
(* The engine implements the abstract courtroom floor.  Asking and         *)
(* rephrasing are Ask, answering is Answer, sustaining an objection and    *)
(* settling over an open question are RuledOut, striking is Strike, and    *)
(* every other event is a stuttering step.                                 *)
(***************************************************************************)

(* A trial starts with an empty floor and an empty record.                 *)
LEMMA InitImplementsFloor == Init => Floor!FloorInit
  BY DEF Init, Floor!FloorInit, NoQuestion

(* An event that moves neither the floor, a question's status nor the      *)
(* status of testimony is invisible in the abstract courtroom.             *)
LEMMA FloorStutters ==
  ASSUME UNCHANGED activeQuestion,
         \A q \in Questions : questions'[q].status = questions[q].status,
         \A q \in Questions : testimony'[q].status = testimony[q].status
  PROVE  UNCHANGED Floor!floorVars
  BY DEF Floor!floorVars

(* Asking or rephrasing puts an unused question on an empty floor.         *)
LEMMA AskImplementsAsk ==
  ASSUME TypeOK, NEW q \in Questions,
         \/ \E c \in Counsel, shown \in SUBSET Exhibits : AskQuestion(c, q, shown)
         \/ \E c \in Counsel, original \in Questions :
              RephraseQuestion(c, original, q)
  PROVE  Floor!Ask(q)
  <1>1. activeQuestion = None /\ activeQuestion' = q /\ questions[q].status = "none"
    BY DEF AskQuestion, MayAsk, RephraseQuestion, MayRephrase
  <1>2. /\ questions'[q].status = "open"
        /\ \A p \in Questions : p # q => questions'[p] = questions[p]
    <2>1. CASE \E c \in Counsel, shown \in SUBSET Exhibits : AskQuestion(c, q, shown)
      BY <2>1 DEF TypeOK, QuestionTypeOK, AskQuestion
    <2>2. CASE \E c \in Counsel, original \in Questions :
                 RephraseQuestion(c, original, q)
      <3>1. PICK original \in Questions : \E c \in Counsel : RephraseQuestion(c, original, q)
        BY <2>2
      <3> DEFINE new == [questions[original] EXCEPT !.status = "open",
                                                    !.activeResponse = None]
      <3>2. new.status = "open"
        BY DEF TypeOK, QuestionTypeOK, QuestionEntry
      <3>3. questions' = [questions EXCEPT ![q] = new]
        BY <3>1 DEF RephraseQuestion
      <3> HIDE DEF new
      <3> QED
        BY <3>2, <3>3 DEF TypeOK, QuestionTypeOK
    <2> QED
      BY <2>1, <2>2
  <1>3. UNCHANGED testimony
    BY DEF AskQuestion, RephraseQuestion, recordVars
  <1> QED
    BY <1>1, <1>2, <1>3 DEF Floor!Ask

(* Only the question on the floor is answered.                             *)
LEMMA AnswerImplementsAnswer ==
  ASSUME TypeOK, NEW r \in Responses, NEW cited \in SUBSET Facts,
         NEW shown \in SUBSET Exhibits, AnswerQuestion(r, cited, shown)
  PROVE  Floor!Answer
  <1>1. activeQuestion \in Questions /\ activeQuestion # None /\ activeQuestion' = None
    BY DEF TypeOK, QuestionTypeOK, Maybe, AnswerQuestion, MayAnswer
  <1>2. /\ questions'[activeQuestion].status = "answered"
        /\ \A p \in Questions : p # activeQuestion => questions'[p] = questions[p]
    BY <1>1 DEF TypeOK, QuestionTypeOK, QuestionEntry, AnswerQuestion
  <1>3. /\ testimony'[activeQuestion].status = "active"
        /\ \A p \in Questions : p # activeQuestion => testimony'[p] = testimony[p]
    BY <1>1 DEF TypeOK, RecordTypeOK, AnswerQuestion
  <1> QED
    BY <1>1, <1>2, <1>3 DEF Floor!Answer

(* A sustained objection rules out the question on the floor and no other: *)
(* the reducer rewrites objection.questionId, which the invariant ties to  *)
(* activeQuestionId.                                                       *)
LEMMA SustainImplementsRuledOut ==
  ASSUME FloorInv, NEW o \in Objections,
         NEW remedy \in {"rephrase", "cancel_response"},
         SustainObjection(o, remedy)
  PROVE  Floor!RuledOut("sustained")
  <1>1. /\ objections[o].question = activeQuestion
        /\ activeQuestion \in Questions
        /\ activeQuestion # None
        /\ activeQuestion' = None
    BY DEF FloorInv, TypeOK, QuestionTypeOK, Maybe, PendingObjectionHoldsFloor,
           SustainObjection, Rulable
  <1>2. /\ questions'[activeQuestion].status = "sustained"
        /\ \A p \in Questions : p # activeQuestion => questions'[p] = questions[p]
    BY <1>1 DEF FloorInv, TypeOK, QuestionTypeOK, QuestionEntry, SustainObjection
  <1>3. UNCHANGED testimony
    BY DEF SustainObjection, recordVars
  <1> QED
    BY <1>1, <1>2, <1>3 DEF Floor!RuledOut

(* A settlement withdraws the question on the floor, if there is one.      *)
LEMMA AcceptImplementsRuledOut ==
  ASSUME FloorInv, NEW c \in Counsel, AcceptSettlement(c)
  PROVE  Floor!RuledOut("withdrawn") \/ UNCHANGED Floor!floorVars
  <1>1. activeQuestion' = None /\ UNCHANGED testimony
    BY DEF AcceptSettlement
  <1>2. \A p \in Questions :
          questions'[p].status = IF p = activeQuestion THEN "withdrawn"
                                                       ELSE questions[p].status
    BY DEF FloorInv, TypeOK, QuestionTypeOK, QuestionEntry,
           FloorIsTheOpenQuestion, AcceptSettlement
  <1>3. CASE activeQuestion = None
    <2>1. \A p \in Questions : p # activeQuestion
      BY <1>3, NoneAssumption
    <2> QED
      BY <1>1, <1>2, <1>3, <2>1, FloorStutters
  <1>4. CASE activeQuestion # None
    BY <1>1, <1>2, <1>4 DEF FloorInv, TypeOK, QuestionTypeOK, Maybe, Floor!RuledOut
  <1> QED
    BY <1>3, <1>4

(* A granted motion strikes testimony in force; if it names none, nothing  *)
(* changes.                                                                *)
LEMMA StrikeImplementsStrike ==
  ASSUME TypeOK, NEW m \in Motions, StrikeTestimony(m)
  PROVE  (\E struck \in SUBSET Questions : Floor!Strike(struck))
           \/ UNCHANGED Floor!floorVars
  <1> DEFINE struck == motions[m].testimony
  <1>1. /\ struck \in SUBSET Questions
        /\ \A q \in struck : testimony[q].status = "active"
        /\ UNCHANGED <<questions, activeQuestion>>
    BY DEF TypeOK, RecordTypeOK, MotionEntry, StrikeTestimony, MayStrike,
           ActiveTestimony, recordFrame, questionVars
  <1>2. \A q \in Questions :
          testimony'[q].status = IF q \in struck THEN "stricken"
                                                 ELSE testimony[q].status
    BY DEF TypeOK, RecordTypeOK, TestimonyEntry, StrikeTestimony
  <1> HIDE DEF struck
  <1>3. CASE struck = {}
    BY <1>1, <1>2, <1>3, FloorStutters
  <1>4. CASE struck # {}
    BY <1>1, <1>2, <1>4 DEF Floor!Strike
  <1> QED
    BY <1>3, <1>4

-----------------------------------------------------------------------------
(* Closing a response clears an activeResponseId but no question's status. *)
LEMMA SpeechStutters ==
  ASSUME TypeOK,
         \/ \E r \in Responses :
              RequestResponse(r) \/ CancelResponse(r) \/ CompleteResponse(r)
         \/ \E c \in Counsel, o \in Objections, r \in Maybe(Responses) :
              Object(c, o, r)
         \/ \E o \in Objections : OverruleObjection(o)
         \/ \E r \in Responses, o \in Maybe(Objections) : BeginInterruption(r, o)
         \/ ResolveByCancelling
         \/ ResolveForResume
         \/ ResumeInterruptedSpeech
  PROVE  UNCHANGED Floor!floorVars
  <1>1. UNCHANGED <<activeQuestion, testimony>>
    BY DEF RequestResponse, CancelResponse, CompleteResponse, CloseResponse,
           Object, OverruleObjection, BeginInterruption, ResolveByCancelling,
           ResolveForResume, ResumeInterruptedSpeech, questionVars, recordVars
  <1>2. ASSUME NEW q, ClearActiveResponse(q)
        PROVE  \A p \in Questions : questions'[p].status = questions[p].status
    BY <1>2 DEF TypeOK, QuestionTypeOK, QuestionEntry, ClearActiveResponse
  <1>3. ASSUME NEW r \in Responses, RequestResponse(r)
        PROVE  \A p \in Questions : questions'[p].status = questions[p].status
    BY <1>3 DEF TypeOK, QuestionTypeOK, QuestionEntry, RequestResponse
  <1>4. \A p \in Questions : questions'[p].status = questions[p].status
    BY <1>2, <1>3
    DEF CancelResponse, CompleteResponse, CloseResponse, Object,
        OverruleObjection, BeginInterruption, ResolveByCancelling,
        ResolveForResume, ResumeInterruptedSpeech, questionVars
  <1> QED
    BY <1>1, <1>4, FloorStutters

(* Every event is one step of the abstract courtroom or none.              *)
LEMMA NextImplementsFloor ==
  ASSUME FloorInv, [Next]_vars
  PROVE  [Floor!FloorNext]_Floor!floorVars
  <1>1. ASSUME UNCHANGED <<questions, activeQuestion, testimony>>
        PROVE  UNCHANGED Floor!floorVars
    BY <1>1, FloorStutters
  <1>2. CASE ExaminationNext
    <2>1. CASE \/ \E c \in Counsel, w \in Witnesses, a \in Appearances :
                    TakeStand(c, w, a)
               \/ SwearWitness
      BY <1>1, <2>1 DEF TakeStand, SwearWitness, questionVars, recordVars
    <2>2. CASE \/ \E c \in Counsel, disposition \in {"completed", "waived"} :
                    EndExamination(c, disposition)
               \/ \E c \in Counsel : ReleaseWitness(c)
      BY <1>1, <2>2
      DEF EndExamination, MayEndExamination, ReleaseWitness, MayRelease,
          HasOpenCourtroomWork, recordVars
    <2> QED
      BY <1>2, <2>1, <2>2, AskImplementsAsk, AnswerImplementsAnswer
      DEF ExaminationNext, CallWitness, RecallWitness, FloorInv, Floor!FloorNext
  <1>3. CASE InterruptionNext
    BY <1>3, SpeechStutters, SustainImplementsRuledOut
    DEF InterruptionNext, FloorInv, Floor!FloorNext
  <1>4. CASE TrialRecordNext
    <2>1. CASE \E m \in Motions : StrikeTestimony(m)
      BY <2>1, StrikeImplementsStrike DEF FloorInv, Floor!FloorNext
    <2>2. CASE ~ \E m \in Motions : StrikeTestimony(m)
      BY <1>1, <1>4, <2>2
      DEF TrialRecordNext, MoveToStrike, CloseMotion, DenyStrikeMotion,
          WithdrawStrikeMotion, OfferEvidence, RuleOnEvidence, WithdrawEvidence,
          RevealHiddenFact, ProposeAssertion, VerifyAssertion, DisputeAssertion,
          RuleOnAssertion, SetFact, recordFrame, questionVars
    <2> QED
      BY <2>1, <2>2
  <1>5. CASE ProceedingsNext
    BY <1>1, <1>5
    DEF ProceedingsNext, BeginPhase, PauseTrial, RequestRecess, ResumeTrial,
        FailStep, RecoverStep, RestCase, GiveClosing, InstructJury, Deliberate,
        RenderVerdict, GenerateDebrief, UpdateOpposingStrategy, courtroomFrame,
        questionVars, recordVars
  <1>6. CASE SettlementNext
    <2>1. ASSUME UNCHANGED <<questionVars, settlementFrame>>
          PROVE  UNCHANGED Floor!floorVars
      BY <1>1, <2>1 DEF questionVars, settlementFrame, recordVars
    <2> QED
      BY <1>6, <2>1, AcceptImplementsRuledOut
      DEF SettlementNext, ProposeSettlement, CounterSettlement, OpenOffer,
          RejectSettlement, WithdrawSettlement, ExpireSettlement, CloseOffer,
          Floor!FloorNext
  <1>7. CASE UNCHANGED vars
    BY <1>1, <1>7 DEF vars, questionVars, recordVars
  <1> QED
    BY <1>2, <1>3, <1>4, <1>5, <1>6, <1>7 DEF Next

(* Whatever the cast and the order of events, one question at a time holds *)
(* the floor, has one outcome, and testimony is its answer or nothing.     *)
THEOREM EngineImplementsFloor == Spec => ImplementsFloor
  <1>1. Spec => [][Floor!FloorNext]_Floor!floorVars
    BY FloorInvariant, NextImplementsFloor, PTL DEF Spec
  <1> QED
    BY <1>1, InitImplementsFloor, PTL DEF Spec, ImplementsFloor, Floor!FloorSpec
=============================================================================
