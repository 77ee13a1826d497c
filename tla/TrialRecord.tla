---------------------------- MODULE TrialRecord -----------------------------
(***************************************************************************)
(* What the jury may consider: striking testimony, offering and admitting *)
(* exhibits, revealing facts, and the review of generated assertions.     *)
(* The optional speech of a strike event is a transcript turn without     *)
(* testimony and leaves no trace here.                                    *)
(***************************************************************************)
EXTENDS TrialState

recordFrame == <<calendarVars, juryVars, standVars, questionVars, speechVars,
                 offerVars>>

(***************************************************************************)
(* Strike motions.                                                        *)
(***************************************************************************)
MoveToStrike(c, m, struck) ==
  /\ InChief
  /\ motions[m].status = "none"
  /\ struck # {}
  /\ \A q \in struck : testimony[q].status # "none"
  /\ motions' = [motions EXCEPT
       ![m] = [status |-> "pending", movedBy |-> c, testimony |-> struck]]
  /\ Committed
  /\ UNCHANGED <<recordFrame, testimony, evidence, facts>>

\* Mutant: the other testimony to the fact is overlooked.
StillSupported_ByExhibit(f, struck) ==
  \E e \in Exhibits : AdmittedExhibit(e) /\ Reveals(e, f)

\* Whether a fact keeps a basis once the testimony in `struck' is gone.
StillSupported(f, struck) ==
  \/ \E q \in Questions \ struck : ActiveTestimony(q) /\ f \in testimony[q].facts
  \/ \E e \in Exhibits : AdmittedExhibit(e) /\ Reveals(e, f)

FactsOfTestimony(struck) == UNION {testimony[q].facts : q \in struck}

MayStrike(m) ==
  /\ InChief
  /\ motions[m].status = "pending"
  /\ \A q \in motions[m].testimony : ActiveTestimony(q)

StrikeTestimony(m) ==
  LET struck == motions[m].testimony
  IN
  /\ MayStrike(m)
  /\ testimony' = [q \in Questions |->
       IF q \in struck THEN [testimony[q] EXCEPT !.status = "stricken"]
                       ELSE testimony[q]]
  /\ facts' = [f \in Facts |->
       IF f \in FactsOfTestimony(struck) /\ ~StillSupported(f, struck)
         THEN [facts[f] EXCEPT !.status = "stricken"] ELSE facts[f]]
  /\ motions' = [motions EXCEPT ![m].status = "granted"]
  /\ Committed
  /\ UNCHANGED <<recordFrame, evidence>>

CloseMotion(m, outcome) ==
  /\ InChief
  /\ motions[m].status = "pending"
  /\ motions' = [motions EXCEPT ![m].status = outcome]
  /\ Committed
  /\ UNCHANGED <<recordFrame, testimony, evidence, facts>>

DenyStrikeMotion(m) == CloseMotion(m, "denied")

WithdrawStrikeMotion(c, m) ==
  /\ motions[m].movedBy = c
  /\ CloseMotion(m, "withdrawn")

(***************************************************************************)
(* Exhibits.                                                              *)
(***************************************************************************)
\* Active testimony of an authenticating witness that cites the exhibit.
Authenticates(q, e) ==
  /\ ActiveTestimony(q)
  /\ e \in testimony[q].exhibits
  /\ appearances[questions[q].appearance].witness \in Authenticators[e]

FoundationHolds(e, foundation) ==
  /\ Authenticators[e] # {} => foundation # {}
  /\ \A q \in foundation : Authenticates(q, e)

MayOfferEvidence(c, e, foundation) ==
  /\ InChief
  /\ evidence[e].status = "indexed"
  /\ CanOffer(c, e)
  /\ FoundationHolds(e, foundation)

OfferEvidence(c, e, foundation) ==
  /\ MayOfferEvidence(c, e, foundation)
  /\ evidence' = [evidence EXCEPT
       ![e] = [status |-> "offered", offeredBy |-> SideOf[c],
               foundation |-> foundation]]
  /\ Committed
  /\ UNCHANGED <<recordFrame, testimony, motions, facts>>

RuleOnEvidence(e, ruling) ==
  /\ InChief
  /\ evidence[e].status = "offered"
  /\ ruling = "admitted" => FoundationHolds(e, evidence[e].foundation)
  /\ evidence' = [evidence EXCEPT ![e].status = ruling]
  /\ Committed
  /\ UNCHANGED <<recordFrame, testimony, motions, facts>>

WithdrawEvidence(c, e) ==
  /\ InChief
  /\ evidence[e].status = "offered"
  /\ evidence[e].offeredBy = SideOf[c]
  /\ evidence' = [evidence EXCEPT ![e].status = "withdrawn"]
  /\ Committed
  /\ UNCHANGED <<recordFrame, testimony, motions, facts>>

(***************************************************************************)
(* Facts and assertions.                                                  *)
(***************************************************************************)
SetFact(f, newStatus) ==
  /\ facts' = [facts EXCEPT ![f].status = newStatus]
  /\ Committed
  /\ UNCHANGED <<recordFrame, testimony, motions, evidence>>

RevealHiddenFact(f, e) ==
  /\ InChief
  /\ facts[f].status = "hidden"
  /\ AdmittedExhibit(e)
  /\ Reveals(e, f)
  /\ SetFact(f, "proposed")

\* Each provenance ID is exactly one of active testimony, admitted exhibit.
AdmissibleBasis(basis) ==
  \A id \in basis : \/ id \in Questions /\ ActiveTestimony(id)
                    \/ id \in Exhibits /\ AdmittedExhibit(id)

\* An authored fact rests on the provenance of the pinned CaseGraph.
BasisHolds(f) == f \in AuthoredFacts \/ AdmissibleBasis(facts[f].basis)

ProposeAssertion(f, basis) ==
  /\ InChief
  /\ facts[f].status = "none"
  /\ basis # {}
  /\ AdmissibleBasis(basis)
  /\ facts' = [facts EXCEPT ![f] = [status |-> "proposed", basis |-> basis]]
  /\ Committed
  /\ UNCHANGED <<recordFrame, testimony, motions, evidence>>

VerifyAssertion(f) ==
  /\ InChief
  /\ facts[f].status \in {"proposed", "disputed"}
  /\ BasisHolds(f)
  /\ SetFact(f, "verified")

DisputeAssertion(f) ==
  /\ InChief
  /\ facts[f].status \in {"proposed", "disputed"}
  /\ SetFact(f, "disputed")

RuleOnAssertion(f, ruling) ==
  /\ InChief
  /\ facts[f].status \in {"verified", "disputed"}
  /\ BasisHolds(f)
  /\ SetFact(f, ruling)

TrialRecordNext ==
  \/ \E c \in Counsel, m \in Motions, struck \in SUBSET Questions :
       MoveToStrike(c, m, struck)
  \/ \E m \in Motions : StrikeTestimony(m) \/ DenyStrikeMotion(m)
  \/ \E c \in Counsel, m \in Motions : WithdrawStrikeMotion(c, m)
  \/ \E c \in Counsel, e \in Exhibits, foundation \in SUBSET Questions :
       OfferEvidence(c, e, foundation)
  \/ \E e \in Exhibits, ruling \in {"admitted", "excluded"} :
       RuleOnEvidence(e, ruling)
  \/ \E c \in Counsel, e \in Exhibits : WithdrawEvidence(c, e)
  \/ \E f \in Facts, e \in Exhibits : RevealHiddenFact(f, e)
  \/ \E f \in Facts, basis \in SUBSET (Questions \cup Exhibits) :
       ProposeAssertion(f, basis)
  \/ \E f \in Facts : VerifyAssertion(f) \/ DisputeAssertion(f)
  \/ \E f \in Facts, ruling \in {"admitted", "excluded"} :
       RuleOnAssertion(f, ruling)
=============================================================================
