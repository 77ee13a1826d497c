----------------------------- MODULE CasePolicy -----------------------------
(***************************************************************************)
(* What a trial is about: the roster, the identifiers that events can     *)
(* mention, and the trial policy snapshot that START_TRIAL pins.  None of *)
(* it changes after the first event, so all of it is a constant.          *)
(*                                                                         *)
(* Only counsel need identities.  Judge, clerk, system, jury and coach    *)
(* actions are allowed to a role, and no rule depends on which actor of   *)
(* that role acts, so those actions have no actor parameter.              *)
(***************************************************************************)
EXTENDS Integers, FiniteSets

CONSTANTS
  None,          \* the null of the source
  Counsel,       \* actors with role user_counsel or opposing_counsel
  OpposingCounsel, \* those with the latter role
  Witnesses,
  Parties,       \* settlement.participantPartyIds
  Terms,         \* settlement terms a party may write down
  Facts,         \* every fact ID an event can mention
  AuthoredFacts, \* those of them that the CaseGraph declares
  Exhibits,      \* evidence IDs
  Appearances,   \* IDs for the times a witness takes the stand
  Questions,
  Responses,
  Objections,
  Motions,       \* strike motions
  Offers,        \* settlement offers
  Steps          \* step IDs a runtime may report as failed

CONSTANTS
  SideOf,          \* [Counsel -> Sides]
  Callable,        \* <<counsel, witness>>: witnessCallability.callableByActorIds
  Recallable,      \* witnesses with recallPermitted
  Knows,           \* <<witness, fact>>: witnessKnowledge.knownFactIds
  Seen,            \* <<witness, exhibit>>: witnessKnowledge.seenEvidenceIds
  Related,         \* <<exhibit, fact>>: evidencePermissions.relatedFactIds
  Offerable,       \* <<counsel, exhibit>>: offerableByActorIds
  Authenticators,  \* [Exhibits -> SUBSET Witnesses]: authenticatingWitnessIds
  InitialFact,     \* [AuthoredFacts -> status the CaseGraph starts it with]
  PartyOf,         \* [Counsel -> Parties or None]: the one party represented
  PartySide,       \* [Parties -> Sides or neutral]
  Authority,       \* <<counsel, terms>> within the party's private authority
  OpenPhases,      \* phases in which settlement is open; {} when disabled
  AllowCounter,    \* settlement.allowCounteroffers
  OfferEvents,     \* settlement.expiresAfterEventCount
  MaxRevision      \* bound on opposing-strategy revisions, for model checking

Sides == {"user", "opposing"}

Phases == {"pretrial", "opening", "case_in_chief", "recess", "pre_closing",
           "closing", "jury_instructions", "deliberation", "verdict",
           "debrief", "complete"}

(***************************************************************************)
(* Generated facts are the IDs PROPOSE_ASSERTION can introduce.  A basis  *)
(* is a set of testimony and exhibit IDs; testimony is named by the       *)
(* question it answers (see TrialState).                                   *)
(***************************************************************************)
GeneratedFacts == Facts \ AuthoredFacts

ASSUME NoneAssumption ==
  None \notin Counsel \cup Witnesses \cup Parties \cup Facts \cup Exhibits
              \cup Appearances \cup Questions \cup Responses \cup Objections
              \cup Motions \cup Offers \cup Steps

ASSUME RosterAssumption ==
  /\ OpposingCounsel \subseteq Counsel
  /\ SideOf \in [Counsel -> Sides]
  /\ Callable \subseteq Counsel \X Witnesses
  /\ Recallable \subseteq Witnesses

ASSUME RecordAssumption ==
  /\ AuthoredFacts \subseteq Facts
  /\ InitialFact \in [AuthoredFacts -> {"hidden", "proposed", "verified"}]
  /\ Knows \subseteq Witnesses \X Facts
  /\ Seen \subseteq Witnesses \X Exhibits
  /\ Related \subseteq Exhibits \X Facts
  /\ Offerable \subseteq Counsel \X Exhibits
  /\ Authenticators \in [Exhibits -> SUBSET Witnesses]
  /\ Questions \cap Exhibits = {}

(***************************************************************************)
(* START_TRIAL refuses a policy whose actor and party mappings disagree   *)
(* about a side.                                                          *)
(***************************************************************************)
ASSUME SettlementAssumption ==
  /\ PartySide \in [Parties -> Sides \cup {"neutral"}]
  /\ PartyOf \in [Counsel -> Parties \cup {None}]
  /\ \A c \in Counsel : PartyOf[c] # None => PartySide[PartyOf[c]] = SideOf[c]
  /\ Authority \subseteq Counsel \X Terms
  /\ OpenPhases \subseteq Phases
  /\ AllowCounter \in BOOLEAN
  /\ OfferEvents \in Nat \ {0}

ASSUME RevisionAssumption == MaxRevision \in Nat

(***************************************************************************)
(* Policy queries of src/domain/trial-policy/snapshot.ts.                 *)
(***************************************************************************)
OpposingSide(side) == IF side = "user" THEN "opposing" ELSE "user"

CanCall(c, w)    == <<c, w>> \in Callable
CanRecall(c, w)  == <<c, w>> \in Callable /\ w \in Recallable
CanOffer(c, e)   == <<c, e>> \in Offerable
CanPropose(c, p) == PartyOf[c] # None /\ p \in OpenPhases
CanCounter(c, p) == AllowCounter /\ CanPropose(c, p)

\* canWitnessRevealFact, canWitnessReferenceEvidence, canEvidenceRevealFact
MayReveal(w, f)    == <<w, f>> \in Knows
MayReference(w, e) == <<w, e>> \in Seen
Reveals(e, f)      == <<e, f>> \in Related

CanAuthorize(c, terms) == <<c, terms>> \in Authority
=============================================================================
