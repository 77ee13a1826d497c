--------------------------- MODULE MCTrialEngine ----------------------------
(***************************************************************************)
(* Small trials for TLC.  A configuration chooses the identifier sets; an *)
(* empty set switches the operations on those identifiers off, so that a  *)
(* run spends its states on the part of the trial it is about.            *)
(***************************************************************************)
EXTENDS TrialEngine, TLC

MCSideOf == [c \in Counsel |->
               IF c \in OpposingCounsel THEN "opposing" ELSE "user"]

EveryCall   == Counsel \X Witnesses
EveryOffer  == Counsel \X Exhibits

\* Every witness knows every fact, has seen every exhibit and can
\* authenticate it; every exhibit shows every fact.
AllKnown      == Witnesses \X Facts
AllSeen       == Witnesses \X Exhibits
AllRelated    == Exhibits \X Facts
AllMayAuthenticate == [e \in Exhibits |-> Witnesses]
\* Of two witnesses only the first can authenticate.
FirstMayAuthenticate == [e \in Exhibits |-> {CHOOSE w \in Witnesses : TRUE}]

AllHidden   == [f \in AuthoredFacts |-> "hidden"]

\* Two adverse parties and, where a configuration lists it, a neutral one.
MCPartyOf ==
  [c \in Counsel |->
     LET party == IF c \in OpposingCounsel THEN "defense" ELSE "plaintiff"
     IN IF party \in Parties THEN party ELSE None]
MCPartySide ==
  [p \in Parties |-> CASE p = "plaintiff" -> "user"
                       [] p = "defense"   -> "opposing"
                       [] OTHER           -> "neutral"]

\* The defense may agree to the low terms only, the plaintiff to both.
MCAuthority ==
  {<<c, t>> \in Counsel \X Terms : MCSideOf[c] = "opposing" => t = "low"}

ClosedNegotiation == {}
OpenInChief       == {"case_in_chief"}

(***************************************************************************)
(* State constraints.                                                     *)
(***************************************************************************)
\* The court sits through the case in chief: no pause, recess or resting.
SittingInChief ==
  /\ status = "active"
  /\ phase \in {"pretrial", "case_in_chief"}
  /\ restedSides = {}

SittingOrSettled == SittingInChief \/ status \in {"settled", "complete"}

(***************************************************************************)
(* One run covers the calendar, the negotiation and the hearing that is   *)
(* settled in the middle of an examination: any two threads at a time.    *)
(* Negotiations of several offers are held before the first witness is    *)
(* called, the calendar moves on with one question and no objection, and  *)
(* private strategies, which no other event reads, meet the calendar only.*)
(* An offer made during an examination has the terms both sides may agree *)
(* to, and finds one question, with either a motion or an objection.      *)
(***************************************************************************)
HearingThreads ==
  {thread \in {"offer", "witness", "strategy", "calendar"} :
     CASE thread = "offer"    -> \E o \in Offers : offers[o].status # "none"
       [] thread = "witness"  -> \E a \in Appearances : appearances[a].stage # "none"
       [] thread = "strategy" -> strategy.revision > 0
       [] thread = "calendar" -> ~SittingOrSettled}

HearingScope ==
  LET made  == {o \in Offers : offers[o].status # "none"}
      asked == {q \in Questions : questions[q].status # "none"}
  IN
  /\ Cardinality(HearingThreads) <= 2
  /\ "strategy" \in HearingThreads => {"offer", "witness"} \cap HearingThreads = {}
  /\ Cardinality(made) > 1 => {"witness", "calendar"} \cap HearingThreads = {}
  /\ {"witness", "offer"} \subseteq HearingThreads =>
       /\ \A o \in made : offers[o].terms = "low"
       /\ Cardinality(asked) <= 1
       /\ \/ \A m \in Motions : motions[m].status = "none"
          \/ \A o \in Objections : objections[o].status = "none"
  /\ "calendar" \in HearingThreads =>
       Cardinality(asked) <= 1 /\ \A o \in Objections : objections[o].status = "none"

(***************************************************************************)
(* One run covers the examination of two witnesses over three appearances *)
(* (ExaminationScope) and the record that their answers leave             *)
(* (RecordSitting).                                                       *)
(***************************************************************************)
\* Nothing is offered, moved, disclosed or asserted, and no answer cites a fact.
ExaminationScope ==
  /\ \A e \in Exhibits : evidence[e].status = "indexed"
  /\ \A m \in Motions : motions[m].status = "none"
  /\ \A f \in Facts : facts[f].status \in {"none", "hidden"}
  /\ \A q \in Questions : testimony[q].facts = {} /\ testimony[q].exhibits = {}

\* What makes a record complicated.
RecordThreads ==
  {thread \in {"exhibit", "motions", "assertion", "question"} :
     CASE thread = "exhibit"   -> \E e \in Exhibits : evidence[e].status # "indexed"
       [] thread = "motions"   -> \A m \in Motions : motions[m].status # "none"
       [] thread = "assertion" -> \E f \in GeneratedFacts : facts[f].status # "none"
       [] thread = "question"  -> \A q \in Questions : questions[q].status # "none"}

\* What a run explores together: two answers and the motions against them, an
\* assertion and its exhibit.
ThreadsTogether == {{"question", "motions"}, {"assertion", "exhibit"}}

\* Every response is given: what disturbs speech has a run of its own.
SpeechUndisturbed ==
  /\ interruption.status = "none"
  /\ \A r \in Responses :
       \/ responses[r].status = "none"
       \/ Live(r) /\ responses[r].question # None
       \/ \E q \in Questions : /\ responses[r].question = q
                              /\ questions[q].status = "answered"

\* No rule of the record looks at the leg in which testimony was given.
RecordSitting ==
  /\ SittingInChief
  /\ \A a \in Appearances : appearances[a].stage \in {"none", "awaiting_oath", "direct"}
  /\ SpeechUndisturbed
  /\ Cardinality({a \in Appearances : appearances[a].stage # "none"}) <= 1
  /\ \E pair \in ThreadsTogether : RecordThreads \subseteq pair

StandAndRecord == ExaminationScope \/ RecordSitting

-----------------------------------------------------------------------------
(***************************************************************************)
(* Identifiers of these sets are interchangeable: no constant function    *)
(* tells two of them apart.                                               *)
(***************************************************************************)
IdSymmetry ==
  Permutations(Questions) \cup Permutations(Responses)
    \cup Permutations(Objections) \cup Permutations(Appearances)
    \cup Permutations(Motions) \cup Permutations(Offers)
=============================================================================
