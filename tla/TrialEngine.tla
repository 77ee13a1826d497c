---------------------------- MODULE TrialEngine -----------------------------
(***************************************************************************)
(* The trial engine: validateAction and applyTrialEvent of                *)
(* src/domain/trial-engine, composed from the modules of its parts, and   *)
(* what must hold of every hearing whatever order its events come in.     *)
(*                                                                         *)
(* The engine is driven from outside and owes nobody a next step, so the  *)
(* specification states no fairness.                                      *)
(***************************************************************************)
EXTENDS Examination, Interruption, TrialRecord, Proceedings, Settlement

Next ==
  \/ ExaminationNext
  \/ InterruptionNext
  \/ TrialRecordNext
  \/ ProceedingsNext
  \/ SettlementNext

Spec == Init /\ [][Next]_vars

-----------------------------------------------------------------------------
(***************************************************************************)
(* The floor.                                                             *)
(***************************************************************************)

(* The question the courtroom works on is the only open one, it belongs to *)
(* the appearance on the stand and to the leg that is being conducted.     *)
(* Seven events move activeQuestionId, question.status and the appearance  *)
(* stage separately.                                                       *)
FloorIsTheOpenQuestion ==
  /\ \A q \in Questions : questions[q].status = "open" <=> activeQuestion = q
  /\ activeQuestion # None =>
       LET q == questions[activeQuestion]
       IN /\ q.appearance = activeAppearance
          /\ activeAppearance # None
          /\ appearances[activeAppearance].stage = q.kind
          /\ appearances[activeAppearance].legs[q.kind].status = "in_progress"

(* The witness's status, the appearance's stage and the two active IDs     *)
(* tell one story: nobody but the witness on the stand is called, sworn or *)
(* testifying, and every other appearance is over.                         *)
StandIsConsistent ==
  /\ activeWitness = None <=> activeAppearance = None
  /\ \A a \in Appearances :
       a # activeAppearance => appearances[a].stage \in {"none", "released"}
  /\ \A w \in Witnesses :
       w # activeWitness => witnesses[w] \in {"available", "released"}
  /\ activeAppearance # None =>
       LET a == appearances[activeAppearance]
       IN /\ a.witness = activeWitness
          /\ a.stage \notin {"none", "released"}
          /\ a.stage = "awaiting_oath" <=> witnesses[activeWitness] = "called"
          /\ witnesses[activeWitness] \in {"called", "sworn", "testifying"}

(* A pending objection is about the question on the floor, so at most one  *)
(* is pending in the whole trial, and the court cannot move on under it.   *)
PendingObjectionHoldsFloor ==
  \A o \in Objections : Pending(o) =>
    /\ activeQuestion # None
    /\ objections[o].question = activeQuestion
    /\ \A p \in Objections : Pending(p) => p = o

\* The legs an appearance at this stage has yet to reach.
LegsAhead(stage) ==
  CASE stage \in {"none", "awaiting_oath"} -> Kinds
    [] stage = "direct"   -> {"cross", "redirect", "recross"}
    [] stage = "cross"    -> {"redirect", "recross"}
    [] stage = "redirect" -> {"recross"}
    [] OTHER              -> {}

(* The legs of every appearance open one after the other and never again:  *)
(* none ahead of its stage has begun, the one at its stage is not over,    *)
(* and questions exist only for legs that have begun.                      *)
LegsOpenInOrder ==
  /\ \A a \in Appearances :
       LET x == appearances[a]
       IN /\ \A k \in LegsAhead(x.stage) : x.legs[k].status = "not_available"
          /\ x.stage \in Kinds =>
               x.legs[x.stage].status \in {"available", "in_progress"}
  /\ \A q \in Questions : questions[q].status # "none" =>
       /\ questions[q].appearance \in Appearances
       /\ appearances[questions[q].appearance].legs[questions[q].kind].status
            \notin {"not_available", "available"}

-----------------------------------------------------------------------------
(***************************************************************************)
(* The record.                                                            *)
(***************************************************************************)

(* A stricken fact is out of the record for good: no testimony in force    *)
(* cites it, before or after the ruling.                                   *)
StrickenFactHasNoTestimony ==
  \A f \in Facts : facts[f].status = "stricken" =>
    \A q \in Questions : ActiveTestimony(q) => f \notin testimony[q].facts

-----------------------------------------------------------------------------
(***************************************************************************)
(* The calendar.                                                          *)
(***************************************************************************)
ArgumentPhases == {"pre_closing", "closing", "jury_instructions",
                   "deliberation", "verdict"}

\* The phase the trial is in, or will be in when a recorded recess ends.
CurrentPhase ==
  IF phase = "recess" /\ phaseBeforeRecess # None THEN phaseBeforeRecess
                                                  ELSE phase

(* Nobody argues over an open record: from pre-closing until the verdict   *)
(* both sides have rested, no witness is on the stand and no motion to     *)
(* strike is pending, recesses, pauses and failures notwithstanding.       *)
RecordClosedBeforeArgument ==
  CurrentPhase \in ArgumentPhases =>
    /\ restedSides = Sides
    /\ activeAppearance = None
    /\ activeQuestion = None
    /\ ~HasPendingStrikeMotion

-----------------------------------------------------------------------------
(***************************************************************************)
(* Settlement.                                                            *)
(***************************************************************************)

(* One negotiation at a time: the open offer is the active one.            *)
OneOpenOffer ==
  \A o \in Offers : offers[o].status = "open" <=> activeOffer = o

(* A settlement binds exactly two adverse parties, once: its terms are      *)
(* within the private authority of counsel on both sides, however many     *)
(* counteroffers led to it, and no other offer is accepted.                *)
SettlementIsBilateral ==
  \A o \in Offers : offers[o].status = "accepted" =>
    /\ \A p \in Offers : offers[p].status = "accepted" => p = o
    /\ PartySide[offers[o].proposer] = OpposingSide(PartySide[offers[o].recipient])
    /\ \A party \in {offers[o].proposer, offers[o].recipient} :
         \E c \in Counsel : /\ PartyOf[c] = party
                            /\ CanAuthorize(c, offers[o].terms)

-----------------------------------------------------------------------------
(* The engine implements the abstract floor.                               *)
Floor == INSTANCE CourtroomFloor WITH
  floor   <- activeQuestion,
  outcome <- [q \in Questions |-> questions[q].status],
  record  <- [q \in Questions |-> testimony[q].status]

ImplementsFloor == Floor!FloorSpec
=============================================================================
