----------------------------- MODULE Settlement -----------------------------
(***************************************************************************)
(* Settlement offers, and how accepting one ends the trial.  An offer may *)
(* be answered in any phase in which the trial is active: only making one *)
(* is limited to the phases the policy opens.                             *)
(***************************************************************************)
EXTENDS TrialState

settlementFrame == <<juryVars, recordVars>>

\* An offer can be acted on up to the event before its expiry sequence.
OfferExpired == offerLife = 0

Opponent(c, p) == p # PartyOf[c] /\ PartySide[p] = OpposingSide(SideOf[c])

\* What PROPOSE_SETTLEMENT and COUNTER_SETTLEMENT write: the event itself is
\* the first of the OfferEvents an offer lives for.
NewOffer(c, recipient, terms) ==
  [status |-> "open", proposer |-> PartyOf[c], recipient |-> recipient,
   terms |-> terms]

\* Mutant: counsel offers terms the client never authorized.
MayOffer_Unauthorized(c, o, recipient, terms) ==
  /\ Active
  /\ Opponent(c, recipient)
  /\ offers[o].status = "none"

MayOffer(c, o, recipient, terms) ==
  /\ Active
  /\ CanAuthorize(c, terms)
  /\ Opponent(c, recipient)
  /\ offers[o].status = "none"

OpenOffer(o) ==
  /\ activeOffer' = o
  /\ offerLife' = OfferEvents - 1
  /\ fresh' = None
  /\ UNCHANGED <<calendarVars, standVars, questionVars, speechVars,
                 settlementFrame>>

\* Mutant: an offer can be made while another is open.
ProposeSettlement_Again(c, o, recipient, terms) ==
  /\ CanPropose(c, phase)
  /\ MayOffer(c, o, recipient, terms)
  /\ offers' = [offers EXCEPT ![o] = NewOffer(c, recipient, terms)]
  /\ OpenOffer(o)

ProposeSettlement(c, o, recipient, terms) ==
  /\ CanPropose(c, phase)
  /\ MayOffer(c, o, recipient, terms)
  /\ activeOffer = None
  /\ offers' = [offers EXCEPT ![o] = NewOffer(c, recipient, terms)]
  /\ OpenOffer(o)

\* Whether c speaks for the party the active offer is addressed to.
Recipient(c) ==
  /\ PartyOf[c] # None
  /\ activeOffer # None
  /\ offers[activeOffer].recipient = PartyOf[c]
  /\ offers[activeOffer].proposer # PartyOf[c]
  /\ PartySide[offers[activeOffer].proposer] # SideOf[c]

MayCounter(c, recipient) ==
  /\ CanCounter(c, phase)
  /\ Recipient(c)
  /\ offers[activeOffer].status = "open"
  /\ ~OfferExpired
  /\ recipient = offers[activeOffer].proposer

CounterSettlement(c, o, recipient, terms) ==
  /\ MayOffer(c, o, recipient, terms)
  /\ MayCounter(c, recipient)
  /\ offers' = [offers EXCEPT ![activeOffer].status = "countered",
                              ![o] = NewOffer(c, recipient, terms)]
  /\ OpenOffer(o)

OfferAnswerable ==
  /\ Active
  /\ activeOffer # None
  /\ offers[activeOffer].status = "open"

\* Expiring is left to the system and needs the expiry sequence reached.
CloseOffer(outcome) ==
  /\ OfferAnswerable
  /\ OfferExpired <=> outcome = "expired"
  /\ offers' = [offers EXCEPT ![activeOffer].status = outcome]
  /\ activeOffer' = None
  /\ Committed
  /\ UNCHANGED <<calendarVars, standVars, questionVars, speechVars,
                 settlementFrame>>

RejectSettlement(c) == Recipient(c) /\ CloseOffer("rejected")

WithdrawSettlement(c) ==
  /\ activeOffer # None
  /\ PartyOf[c] # None
  /\ offers[activeOffer].proposer = PartyOf[c]
  /\ CloseOffer("withdrawn")

ExpireSettlement == CloseOffer("expired")

(***************************************************************************)
(* ACCEPT_SETTLEMENT closes everything that is still open: the witness is *)
(* released, the running leg terminated, every live response cancelled,   *)
(* every open question, pending objection and pending motion withdrawn.   *)
(***************************************************************************)
TerminatedAppearance(appearance) ==
  [appearance EXCEPT
     !.stage = "released",
     !.legs = [k \in Kinds |-> IF k = appearance.stage
                                 THEN [@[k] EXCEPT !.status = "terminated"]
                                 ELSE @[k]]]

MayAccept(c) ==
  /\ OfferAnswerable
  /\ Recipient(c)
  /\ ~OfferExpired
  /\ CanAuthorize(c, offers[activeOffer].terms)

AcceptSettlement(c) ==
  /\ MayAccept(c)
  /\ status' = "settled"
  /\ phase' = "debrief"
  /\ phaseBeforeRecess' = None
  /\ activeWitness' = None
  /\ activeAppearance' = None
  /\ activeQuestion' = None
  /\ interruption' = NoInterruption
  /\ activeOffer' = None
  /\ offers' = [offers EXCEPT ![activeOffer].status = "accepted"]
  /\ appearances' =
       IF activeAppearance = None THEN appearances
       ELSE [appearances EXCEPT ![activeAppearance] = TerminatedAppearance(@)]
  /\ witnesses' =
       IF activeWitness = None THEN witnesses
       ELSE [witnesses EXCEPT ![activeWitness] = "released"]
  /\ responses' = [r \in Responses |->
       IF Live(r) THEN [responses[r] EXCEPT !.status = "cancelled"]
                  ELSE responses[r]]
  /\ questions' = [q \in Questions |->
       IF questions[q].status = "open"
         THEN [questions[q] EXCEPT !.status = "withdrawn",
                                   !.activeResponse = None]
         ELSE questions[q]]
  /\ objections' = [o \in Objections |->
       IF Pending(o) THEN [objections[o] EXCEPT !.status = "withdrawn"]
                     ELSE objections[o]]
  /\ motions' = [m \in Motions |->
       IF motions[m].status = "pending"
         THEN [motions[m] EXCEPT !.status = "withdrawn"] ELSE motions[m]]
  /\ Committed
  /\ UNCHANGED <<failure, juryVars, testimony, evidence, facts>>

SettlementNext ==
  \/ \E c \in Counsel, o \in Offers, recipient \in Parties, terms \in Terms :
       \/ ProposeSettlement(c, o, recipient, terms)
       \/ CounterSettlement(c, o, recipient, terms)
  \/ \E c \in Counsel :
       AcceptSettlement(c) \/ RejectSettlement(c) \/ WithdrawSettlement(c)
  \/ ExpireSettlement
=============================================================================
