---------------------------- MODULE Examination -----------------------------
(***************************************************************************)
(* Calling a witness, the four legs of an examination, and the questions  *)
(* and answers in them.                                                   *)
(***************************************************************************)
EXTENDS TrialState

WithLeg(appearance, kind, legStatus) ==
  [appearance EXCEPT !.legs[kind].status = legStatus]

CountAnswer(appearance, kind) ==
  [appearance EXCEPT !.legs[kind].answered = @ + 1]

(***************************************************************************)
(* The part CALL_WITNESS and RECALL_WITNESS share.  The appearance ID is  *)
(* derived from the action ID and hence unused.                           *)
(***************************************************************************)
MayTakeStand(c, w) ==
  /\ InChief
  /\ SideOf[c] \notin restedSides
  /\ activeWitness = None
  /\ activeAppearance = None
  /\ \/ witnesses[w] = "available" /\ CanCall(c, w)
     \/ witnesses[w] = "released" /\ CanRecall(c, w)

TakeStand(c, w, a) ==
  /\ MayTakeStand(c, w)
  /\ appearances[a].stage = "none"
  /\ appearances' = [appearances EXCEPT
       ![a] = [NoAppearance EXCEPT !.stage = "awaiting_oath",
                                   !.witness = w, !.side = SideOf[c]]]
  /\ witnesses' = [witnesses EXCEPT ![w] = "called"]
  /\ activeWitness' = w
  /\ activeAppearance' = a
  /\ Committed
  /\ UNCHANGED <<calendarVars, juryVars, questionVars, speechVars, recordVars,
                 offerVars>>

CallWitness(c, w, a) ==
  /\ witnesses[w] = "available"
  /\ TakeStand(c, w, a)

RecallWitness(c, w, a) ==
  /\ witnesses[w] = "released"
  /\ TakeStand(c, w, a)

\* The oath is not tied to a phase.
MaySwear ==
  /\ InSession
  /\ OnStand
  /\ witnesses[activeWitness] = "called"
  /\ appearances[activeAppearance].stage = "awaiting_oath"

SwearWitness ==
  /\ MaySwear
  /\ appearances' = [appearances EXCEPT ![activeAppearance] =
       [WithLeg(@, "direct", "available") EXCEPT !.stage = "direct"]]
  /\ witnesses' = [witnesses EXCEPT ![activeWitness] = "sworn"]
  /\ Committed
  /\ UNCHANGED <<calendarVars, juryVars, activeWitness, activeAppearance,
                 questionVars, speechVars, recordVars, offerVars>>

\* The citations of a question can only make it refused; they change nothing.
MayAsk(c, q, shown) ==
  /\ InChief
  /\ OnStand
  /\ witnesses[activeWitness] \in {"sworn", "testifying"}
  /\ ConductsLeg(c)
  /\ activeQuestion = None
  /\ questions[q].status = "none"
  /\ \A e \in shown : ~RefusedExhibit(e) /\ MayReference(activeWitness, e)

AskQuestion(c, q, shown) ==
  LET a    == activeAppearance
      kind == appearances[a].stage
  IN
  /\ MayAsk(c, q, shown)
  /\ questions' = [questions EXCEPT
       ![q] = [status |-> "open", appearance |-> a, kind |-> kind,
               askedBy |-> c, presented |-> shown, activeResponse |-> None]]
  /\ activeQuestion' = q
  /\ appearances' = [appearances EXCEPT ![a] = WithLeg(@, kind, "in_progress")]
  /\ witnesses' = [witnesses EXCEPT ![activeWitness] = "testifying"]
  /\ Committed
  /\ UNCHANGED <<calendarVars, juryVars, activeWitness, activeAppearance,
                 speechVars, recordVars, offerVars>>

\* The new question copies the original and does not touch the leg's status.
MayRephrase(c, original, q) ==
  LET asked == questions[original]
  IN
  /\ InChief
  /\ asked.status = "sustained"
  /\ \E o \in Objections : /\ objections[o].question = original
                           /\ objections[o].status = "sustained"
                           /\ objections[o].remedy = "rephrase"
  /\ asked.askedBy = c
  /\ activeAppearance = asked.appearance
  /\ appearances[asked.appearance].stage = asked.kind
  /\ activeQuestion = None
  /\ questions[q].status = "none"

RephraseQuestion(c, original, q) ==
  /\ MayRephrase(c, original, q)
  /\ questions' = [questions EXCEPT
       ![q] = [questions[original] EXCEPT !.status = "open",
                                          !.activeResponse = None]]
  /\ activeQuestion' = q
  /\ Committed
  /\ UNCHANGED <<calendarVars, juryVars, standVars, speechVars, recordVars,
                 offerVars>>

(***************************************************************************)
(* ANSWER_QUESTION.  The witness answers the active question through the  *)
(* one response bound to it, at exactly the version that response expects,*)
(* and only on an undisturbed floor.                                      *)
(***************************************************************************)
\* Mutant: an objection to the question may still be pending.
FloorUndisturbed_Objected(q)    == ~Interrupted

FloorUndisturbed(q) ==
  /\ ~ \E o \in Objections : Pending(o) /\ objections[o].question = q
  /\ ~Interrupted

MayTestify(q, cited, shown) ==
  /\ \A f \in cited : /\ facts[f].status \notin {"none", "excluded", "stricken"}
                      /\ MayReveal(activeWitness, f)
  /\ \A e \in shown : /\ ~RefusedExhibit(e)
                      /\ MayReference(activeWitness, e)
                      /\ AdmittedExhibit(e) \/ e \in questions[q].presented

MayAnswer(r, q) ==
  /\ InSession
  /\ q # None
  /\ OnStand
  /\ questions[q].status = "open"
  /\ questions[q].appearance = activeAppearance
  /\ Live(r)
  /\ fresh = r
  /\ responses[r].question = q
  /\ questions[q].activeResponse = r
  /\ FloorUndisturbed(q)

AnswerQuestion(r, cited, shown) ==
  LET q == activeQuestion
      a == activeAppearance
  IN
  /\ MayAnswer(r, q)
  /\ MayTestify(q, cited, shown)
  /\ activeQuestion' = None
  /\ questions' = [questions EXCEPT ![q].status = "answered",
                                    ![q].activeResponse = None]
  /\ appearances' = [appearances EXCEPT ![a] = CountAnswer(@, questions[q].kind)]
  /\ responses' = [responses EXCEPT ![r].status = "committed"]
  /\ testimony' = [testimony EXCEPT
       ![q] = [status |-> "active", facts |-> cited, exhibits |-> shown]]
  /\ facts' = [f \in Facts |->
       IF f \in cited /\ facts[f].status = "hidden"
         THEN [facts[f] EXCEPT !.status = "proposed"] ELSE facts[f]]
  /\ Committed
  /\ UNCHANGED <<calendarVars, juryVars, witnesses, activeWitness,
                 activeAppearance, objections, interruption, motions, evidence,
                 offerVars>>

(***************************************************************************)
(* END_EXAMINATION.  A waived leg or a recross ends the examination;      *)
(* otherwise the next leg becomes available.                              *)
(***************************************************************************)
\* Mutant: waiving a leg releases the witness at once.
NextStage_Released(kind, disposition) ==
  IF disposition = "waived" THEN "released"
  ELSE CASE kind = "direct"   -> "cross"
         [] kind = "cross"    -> "redirect"
         [] kind = "redirect" -> "recross"
         [] OTHER             -> "ready_for_release"

\* Mutant: the examination goes back to the direct after the cross.
NextStage_BackToDirect(kind, disposition) ==
  CASE disposition = "waived" \/ kind = "recross" -> "ready_for_release"
    [] disposition = "completed" /\ kind = "direct" -> "cross"
    [] disposition = "completed" /\ kind = "cross" -> "direct"
    [] disposition = "completed" /\ kind = "redirect" -> "recross"

NextStage(kind, disposition) ==
  CASE disposition = "waived" \/ kind = "recross" -> "ready_for_release"
    [] disposition = "completed" /\ kind = "direct" -> "cross"
    [] disposition = "completed" /\ kind = "cross" -> "redirect"
    [] disposition = "completed" /\ kind = "redirect" -> "recross"

FinishLeg(appearance, kind, disposition) ==
  LET next == NextStage(kind, disposition)
  IN [appearance EXCEPT
        !.stage = next,
        !.legs = [k \in Kinds |->
           CASE k = kind -> [@[k] EXCEPT !.status = disposition]
             [] k = next /\ k # kind -> [@[k] EXCEPT !.status = "available"]
             [] OTHER -> @[k]]]

MayEndExamination(c, disposition) ==
  LET a    == activeAppearance
      kind == appearances[a].stage
  IN
  /\ InSession
  /\ OnStand
  /\ ConductsLeg(c)
  /\ ~HasOpenCourtroomWork(a)
  /\ \/ disposition = "completed" /\ appearances[a].legs[kind].answered > 0
     \/ disposition = "waived" /\ appearances[a].legs[kind].answered = 0

EndExamination(c, disposition) ==
  LET a    == activeAppearance
      kind == appearances[a].stage
  IN
  /\ MayEndExamination(c, disposition)
  /\ appearances' = [appearances EXCEPT ![a] = FinishLeg(@, kind, disposition)]
  /\ witnesses' = [witnesses EXCEPT ![activeWitness] = "sworn"]
  /\ activeQuestion' = None
  /\ Committed
  /\ UNCHANGED <<calendarVars, juryVars, activeWitness, activeAppearance,
                 questions, speechVars, recordVars, offerVars>>

MayRelease(c) ==
  /\ InSession
  /\ OnStand
  /\ appearances[activeAppearance].side = SideOf[c]
  /\ appearances[activeAppearance].stage = "ready_for_release"
  /\ ~HasOpenCourtroomWork(activeAppearance)

ReleaseWitness(c) ==
  /\ MayRelease(c)
  /\ appearances' = [appearances EXCEPT ![activeAppearance].stage = "released"]
  /\ witnesses' = [witnesses EXCEPT ![activeWitness] = "released"]
  /\ activeWitness' = None
  /\ activeAppearance' = None
  /\ activeQuestion' = None
  /\ Committed
  /\ UNCHANGED <<calendarVars, juryVars, questions, speechVars, recordVars,
                 offerVars>>

ExaminationNext ==
  \/ \E c \in Counsel, w \in Witnesses, a \in Appearances :
       CallWitness(c, w, a) \/ RecallWitness(c, w, a)
  \/ SwearWitness
  \/ \E c \in Counsel, q \in Questions, shown \in SUBSET Exhibits :
       AskQuestion(c, q, shown)
  \/ \E c \in Counsel, original, q \in Questions :
       RephraseQuestion(c, original, q)
  \/ \E r \in Responses, cited \in SUBSET Facts, shown \in SUBSET Exhibits :
       AnswerQuestion(r, cited, shown)
  \/ \E c \in Counsel, disposition \in {"completed", "waived"} :
       EndExamination(c, disposition)
  \/ \E c \in Counsel : ReleaseWitness(c)
=============================================================================
