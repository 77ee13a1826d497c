---------------------------- MODULE CommandLedger ----------------------------
(***************************************************************************)
(* What the hearing runtime promises of the player's commands, however    *)
(* often they are sent, interrupted and sent again: the steps of a        *)
(* command enter the ledger in order, once, and with nothing in between;  *)
(* and a command is confirmed only when all of its steps are there.       *)
(***************************************************************************)
EXTENDS Naturals, Sequences

CONSTANTS
  Requests,   \* the commands the player may give, numbered from 1
  MaxSteps    \* the steps of the longest command

VARIABLES
  ledger,     \* what happened: [request, step, of], request 0 for the court's
  confirmed   \* the commands the player was told are done: [request, of]

ledgerVars == <<ledger, confirmed>>

Entry(request, step, of) == [request |-> request, step |-> step, of |-> of]

Entered(request) == \E i \in 1..Len(ledger) : ledger[i].request = request

Init == ledger = <<>> /\ confirmed = {}

\* Anything the court does by itself.
CourtActs ==
  /\ ledger' = Append(ledger, Entry(0, 0, 0))
  /\ UNCHANGED confirmed

CommandBegins(request, of) ==
  /\ ~Entered(request)
  /\ ledger' = Append(ledger, Entry(request, 1, of))
  /\ UNCHANGED confirmed

CommandProceeds ==
  /\ ledger # <<>>
  /\ LET last == ledger[Len(ledger)]
     IN /\ last.step < last.of
        /\ ledger' = Append(ledger, [last EXCEPT !.step = @ + 1])
  /\ UNCHANGED confirmed

Complete(request, of) ==
  of # 0 => \E i \in 1..Len(ledger) : ledger[i] = Entry(request, of, of)

Confirm(request, of) ==
  /\ Complete(request, of)
  /\ confirmed' = confirmed \cup {[request |-> request, of |-> of]}
  /\ UNCHANGED ledger

Next ==
  \/ CourtActs
  \/ \E request \in Requests, of \in 1..MaxSteps : CommandBegins(request, of)
  \/ CommandProceeds
  \/ \E request \in Requests, of \in 0..MaxSteps : Confirm(request, of)

Spec == Init /\ [][Next]_ledgerVars
=============================================================================
