--------------------------- MODULE CourtroomFloor ---------------------------
(***************************************************************************)
(* What an examination promises, whatever objections, interruptions,      *)
(* recesses, failures and settlements do to it: one question at a time    *)
(* holds the floor, it leaves the floor once and with one outcome,        *)
(* testimony enters the record only as the answer of the question that    *)
(* holds the floor, and from then on it can only be stricken.             *)
(***************************************************************************)
CONSTANTS Questions, None

VARIABLES
  floor,    \* the question that holds the floor, or None
  outcome,  \* what became of each question
  record    \* the testimony each question brought

floorVars == <<floor, outcome, record>>

FloorInit ==
  /\ floor = None
  /\ outcome = [q \in Questions |-> "none"]
  /\ record = [q \in Questions |-> "none"]

Ask(q) ==
  /\ floor = None
  /\ outcome[q] = "none"
  /\ floor' = q
  /\ outcome' = [outcome EXCEPT ![q] = "open"]
  /\ UNCHANGED record

Answer ==
  /\ floor # None
  /\ floor' = None
  /\ outcome' = [outcome EXCEPT ![floor] = "answered"]
  /\ record' = [record EXCEPT ![floor] = "active"]

RuledOut(how) ==
  /\ floor # None
  /\ floor' = None
  /\ outcome' = [outcome EXCEPT ![floor] = how]
  /\ UNCHANGED record

Strike(struck) ==
  /\ struck # {}
  /\ \A q \in struck : record[q] = "active"
  /\ record' = [q \in Questions |->
                  IF q \in struck THEN "stricken" ELSE record[q]]
  /\ UNCHANGED <<floor, outcome>>

FloorNext ==
  \/ \E q \in Questions : Ask(q)
  \/ Answer
  \/ \E how \in {"sustained", "withdrawn"} : RuledOut(how)
  \/ \E struck \in SUBSET Questions : Strike(struck)

FloorSpec == FloorInit /\ [][FloorNext]_floorVars
=============================================================================
