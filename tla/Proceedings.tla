---------------------------- MODULE Proceedings -----------------------------
(***************************************************************************)
(* The calendar of a trial: its phases, pauses, recesses and failures,    *)
(* and the steps from resting a case to the debrief.                      *)
(***************************************************************************)
EXTENDS TrialState

courtroomFrame == <<standVars, questionVars, speechVars, recordVars, offerVars>>

PhaseTransitions ==
  [p \in Phases |->
     CASE p = "pretrial"          -> {"opening", "case_in_chief", "recess"}
       [] p = "opening"           -> {"case_in_chief", "recess"}
       [] p = "case_in_chief"     -> {"recess", "pre_closing"}
       [] p = "recess"            -> {}
       [] p = "pre_closing"       -> {"closing", "recess"}
       [] p = "closing"           -> {"jury_instructions"}
       [] p = "jury_instructions" -> {"deliberation"}
       [] p = "deliberation"      -> {"verdict"}
       [] p = "verdict"           -> {"debrief"}
       [] p = "debrief"           -> {"complete"}
       [] p = "complete"          -> {}]

\* Mutant: a pending motion to strike does not hold the trial.
CasesConcluded_MotionPending ==
  restedSides = Sides /\ activeAppearance = None

CasesConcluded ==
  restedSides = Sides /\ activeAppearance = None /\ ~HasPendingStrikeMotion

ArgumentConcluded == closingSides = Sides

MayBegin(p) ==
  /\ p \in PhaseTransitions[phase]
  /\ p = "pre_closing" => CasesConcluded
  /\ p = "jury_instructions" => ArgumentConcluded
  /\ p = "deliberation" => instructed
  /\ p = "verdict" => deliberated
  /\ p = "debrief" => verdict
  /\ p = "complete" => debrief

\* A settled trial may still be completed.  A recess begun here does not
\* record the phase it suspends.
BeginPhase(p) ==
  /\ \/ InSession
     \/ status = "settled" /\ phase = "debrief" /\ p = "complete"
  /\ MayBegin(p)
  /\ phase' = p
  /\ status' = IF p = "complete" THEN "complete" ELSE status
  /\ Committed
  /\ UNCHANGED <<phaseBeforeRecess, failure, juryVars, courtroomFrame>>

PauseTrial ==
  /\ Active
  /\ status' = "paused"
  /\ Committed
  /\ UNCHANGED <<phase, phaseBeforeRecess, failure, juryVars, courtroomFrame>>

RecessPhases == {"pretrial", "opening", "case_in_chief", "pre_closing",
                 "closing", "jury_instructions"}

\* Any interruption on record, even a finished one, stands in the way.
RequestRecess ==
  /\ InSession
  /\ activeQuestion = None
  /\ interruption.status = "none"
  /\ ~ \E r \in Responses : Live(r)
  /\ ~ \E o \in Objections : Pending(o)
  /\ phase \in RecessPhases
  /\ phaseBeforeRecess' = phase
  /\ phase' = "recess"
  /\ Committed
  /\ UNCHANGED <<status, failure, juryVars, courtroomFrame>>

\* Allowed in every status; it ends a pause and a recess at once.
ResumeTrial ==
  /\ status = "paused" \/ phase = "recess"
  /\ status' = "active"
  /\ IF phase = "recess"
       THEN /\ phase' = IF phaseBeforeRecess = None THEN "case_in_chief"
                                                    ELSE phaseBeforeRecess
            /\ phaseBeforeRecess' = None
       ELSE UNCHANGED <<phase, phaseBeforeRecess>>
  /\ Committed
  /\ UNCHANGED <<failure, juryVars, courtroomFrame>>

FailStep(step) ==
  /\ Active
  /\ status' = "failed"
  /\ failure' = step
  /\ Committed
  /\ UNCHANGED <<phase, phaseBeforeRecess, juryVars, courtroomFrame>>

RecoverStep(step) ==
  /\ status = "failed"
  /\ failure = step
  /\ status' = "active"
  /\ failure' = None
  /\ Committed
  /\ UNCHANGED <<phase, phaseBeforeRecess, juryVars, courtroomFrame>>

(***************************************************************************)
(* From resting to the debrief.                                           *)
(***************************************************************************)
RestCase(c) ==
  /\ InChief
  /\ SideOf[c] \notin restedSides
  /\ activeAppearance = None
  /\ ~HasPendingStrikeMotion
  /\ restedSides' = restedSides \cup {SideOf[c]}
  /\ Committed
  /\ UNCHANGED <<calendarVars, closingSides, instructed, deliberated, verdict,
                 debrief, strategy, courtroomFrame>>

GiveClosing(c) ==
  /\ InSession
  /\ phase = "closing"
  /\ SideOf[c] \notin closingSides
  /\ closingSides' = closingSides \cup {SideOf[c]}
  /\ Committed
  /\ UNCHANGED <<calendarVars, restedSides, instructed, deliberated, verdict,
                 debrief, strategy, courtroomFrame>>

InstructJury ==
  /\ InSession
  /\ phase = "jury_instructions"
  /\ ~instructed
  /\ instructed' = TRUE
  /\ Committed
  /\ UNCHANGED <<calendarVars, restedSides, closingSides, deliberated, verdict,
                 debrief, strategy, courtroomFrame>>

Deliberate ==
  /\ InSession
  /\ phase = "deliberation"
  /\ ~deliberated
  /\ deliberated' = TRUE
  /\ Committed
  /\ UNCHANGED <<calendarVars, restedSides, closingSides, instructed, verdict,
                 debrief, strategy, courtroomFrame>>

RenderVerdict ==
  /\ InSession
  /\ phase = "verdict"
  /\ ~verdict
  /\ verdict' = TRUE
  /\ Committed
  /\ UNCHANGED <<calendarVars, restedSides, closingSides, instructed,
                 deliberated, debrief, strategy, courtroomFrame>>

\* The debrief is written in every status, paused or failed included.
GenerateDebrief ==
  /\ phase = "debrief"
  /\ ~debrief
  /\ debrief' = TRUE
  /\ Committed
  /\ UNCHANGED <<calendarVars, restedSides, closingSides, instructed,
                 deliberated, verdict, strategy, courtroomFrame>>

\* Opposing counsel's private plan: the first author owns it, and each update
\* names the next revision.
UpdateOpposingStrategy(c) ==
  /\ InSession
  /\ phase \in {"pretrial", "opening", "case_in_chief", "pre_closing", "closing"}
  /\ c \in OpposingCounsel
  /\ strategy.owner \in {None, c}
  /\ strategy.revision < MaxRevision
  /\ strategy' = [owner |-> c, revision |-> strategy.revision + 1]
  /\ Committed
  /\ UNCHANGED <<calendarVars, restedSides, closingSides, instructed,
                 deliberated, verdict, debrief, courtroomFrame>>

ProceedingsNext ==
  \/ \E p \in Phases : BeginPhase(p)
  \/ PauseTrial
  \/ RequestRecess
  \/ ResumeTrial
  \/ \E step \in Steps : FailStep(step) \/ RecoverStep(step)
  \/ \E c \in Counsel : RestCase(c) \/ GiveClosing(c) \/ UpdateOpposingStrategy(c)
  \/ InstructJury
  \/ Deliberate
  \/ RenderVerdict
  \/ GenerateDebrief
=============================================================================
