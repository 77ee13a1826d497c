--------------------------- MODULE HearingRuntime ---------------------------
(***************************************************************************)
(* How a command of the player becomes events of a hearing.  The page     *)
(* sends a command and keeps it until it is confirmed; every request is   *)
(* served by a run of its own on the server, which appends the steps of   *)
(* the command one transaction at a time, then asks model after model for *)
(* what the court owes next, until the court waits for the player.        *)
(*                                                                         *)
(* Nothing holds a hearing together but its log: a run may break between  *)
(* any two of its transactions, and the page may give a run up that goes  *)
(* on, repeat the command, or be reloaded and forget it.                  *)
(***************************************************************************)
EXTENDS HearingCommands

CONSTANTS
  Runs,           \* the runs that may be under way at once, numbered from 1
  InitialCourts,  \* the records the hearing may be opened at
  Intents,        \* what the player may do
  MaxAttempts,    \* bound: requests the page sends
  MaxCommands,    \* bound: commands the player gives
  MaxModelSteps   \* the model answers one run may commit

\* A question is open only in the leg of the side that asked it.
FloorFits(c) == c.asker # Nobody => InChief(c) /\ Conducts(c, c.asker)

\* A hearing is opened at a record the engine can leave, with no motion to
\* strike pending.
ASSUME RuntimeAssumption ==
  /\ Runs \subseteq Nat \ {0}
  /\ InitialCourts \subseteq Court
  /\ \A c \in InitialCourts : FloorFits(c) /\ c.motion = "none"
  /\ Intents \subseteq PlayerIntents
  /\ MaxAttempts \in Nat /\ MaxCommands \in Nat /\ MaxModelSteps \in Nat \ {0}

VARIABLES
  runs,      \* the server: what each run is at
  tab,       \* the page: the command it keeps, the run it waits for, its view
  attempts   \* how many requests and commands were sent

vars == <<logVars, runs, tab, attempts>>

-----------------------------------------------------------------------------
(***************************************************************************)
(* A run.  It fails as a whole: the page learns nothing but that.         *)
(***************************************************************************)
NoGeneration == Action([kind |-> "none", of |-> 0, step |-> 0], 0, "none", 0)

NoView == [version |-> 0, court |-> NoCourt]

IdleRun == [at |-> "idle", command |-> NoCommand, todo |-> <<>>, then |-> "none",
            gen |-> NoGeneration, left |-> 0, seen |-> NoView]

NoRun == 0

Busy(r) == runs[r].at \notin {"idle", "done", "failed"}

Goes(r, run) == runs' = [runs EXCEPT ![r] = run]
GoesTo(r, at) == Goes(r, [runs[r] EXCEPT !.at = at])
Fails(r)      == GoesTo(r, "failed")

HeadView == [version |-> Version, court |-> court]

\* The answer to the page is the head it is computed from.
AnswersPage(r) ==
  Goes(r, IF runs[r].left = 0 THEN [runs[r] EXCEPT !.at = "failed"]
          ELSE [runs[r] EXCEPT !.at = "done", !.seen = HeadView])

Ready(r, command) ==
  Goes(r, [IdleRun EXCEPT !.at = "read", !.command = command,
                          !.left = MaxModelSteps])

\* The steps are appended one transaction at a time, then comes `then'.
Appends(r, steps, then) ==
  Goes(r, [runs[r] EXCEPT !.at = IF steps = <<>> THEN then ELSE "append",
                          !.todo = steps, !.then = then])

\* The model is asked about this head.  What it will answer is already
\* settled here; whether it answers, and when, is not.
Asks(r, turn) ==
  \E event \in Permitted(turn, court) :
    Goes(r, [runs[r] EXCEPT
               !.at = "model",
               !.gen = Action(TurnId(turn), Version, event, r)])

ReadsCommand(r) ==
  LET command == runs[r].command
  IN
  /\ command.intent # "recover"
  /\ IF command.intent = "start" THEN Appends(r, Steps(command, court), "reply")
     ELSE IF Refuses(command, court) THEN Fails(r)
     ELSE IF command.intent = "continue" THEN Asks(r, "answer")
     ELSE Appends(r, Steps(command, court), "continue")

\* A recovery leaves an interruption alone.
ReadsRecovery(r) ==
  /\ runs[r].command.intent = "recover"
  /\ IF InterruptionOpen(court) THEN AnswersPage(r) ELSE GoesTo(r, "continue")

ReadHead(r) ==
  /\ runs[r].at = "read"
  /\ ReadsCommand(r) \/ ReadsRecovery(r)
  /\ UNCHANGED <<logVars, tab, attempts>>

\* Mutant: a step found on record is taken again.
Remaining_Again(run, verdict) ==
  IF verdict = "replayed" THEN run.todo ELSE Tail(run.todo)

\* What is left of a run's steps when its first has been taken.
Remaining(run, verdict) == Tail(run.todo)

AppendStep(r) ==
  LET run     == runs[r]
      verdict == Verdict(Head(run.todo))
      rest    == Remaining(run, verdict)
  IN
  /\ run.at = "append"
  /\ Submit(Head(run.todo))
  /\ IF verdict \in {"committed", "replayed"} THEN Appends(r, rest, run.then)
                                              ELSE Fails(r)
  /\ UNCHANGED <<tab, attempts>>

OwnEvent(event) ==
  [kind |-> event, of |-> IF event = "release" THEN Version ELSE 0, step |-> 0]

\* The witness is released and the page answered; the other events of the
\* runtime lead on until deliberation.
TakesOwnStep(r, event) ==
  Appends(r, <<Action(OwnEvent(event), Version, event, 0)>>,
          IF event = "release" THEN "reply" ELSE "advance")

Proceeds(r, need) ==
  CASE need = "completed"       -> AnswersPage(r)
    [] need = "stale"           -> Fails(r)
    [] need \in RuntimeEvents   -> TakesOwnStep(r, need)
    [] need \in DOMAIN Turns    ->
         IF runs[r].left = 0 THEN Fails(r) ELSE Asks(r, need)

Continue(r) ==
  /\ runs[r].at \in {"continue", "advance", "reply"}
  /\ CASE runs[r].at = "continue" -> Proceeds(r, Needs(court))
       [] runs[r].at = "advance"  -> Proceeds(r, Advances(court))
       [] runs[r].at = "reply"    -> AnswersPage(r)
  /\ UNCHANGED <<logVars, tab, attempts>>

ModelAnswers(r) ==
  /\ runs[r].at = "model"
  /\ GoesTo(r, "commit")
  /\ UNCHANGED <<logVars, tab, attempts>>

\* The request is derived again at the present head and must be the same;
\* a generation whose action is on record is left to its receipt.
StillAsked(gen) == Known(gen.id) \/ gen.expected = Version

CheckGeneration(r) ==
  /\ runs[r].at = "commit"
  /\ GoesTo(r, IF StillAsked(runs[r].gen) THEN "store" ELSE "failed")
  /\ UNCHANGED <<logVars, tab, attempts>>

Claimed(gen) == gen.event \in {"answer"} \cup Turns.ruling /\ NeedsClaim(court)

StoreGeneration(r) ==
  LET gen == runs[r].gen
      verdict == Verdict(gen)
  IN
  /\ runs[r].at = "store"
  /\ IF Claimed(gen) THEN UNCHANGED logVars /\ Fails(r)
     ELSE /\ Submit(gen)
          /\ IF verdict \in {"committed", "replayed"}
               THEN Goes(r, [runs[r] EXCEPT !.at = "continue", !.left = @ - 1])
               ELSE Fails(r)
  /\ UNCHANGED <<tab, attempts>>

\* A process dies, a deadline passes, a model or the database does not answer.
Breaks(r) ==
  /\ Busy(r)
  /\ Fails(r)
  /\ UNCHANGED <<logVars, tab, attempts>>

-----------------------------------------------------------------------------
(***************************************************************************)
(* The page.                                                               *)
(***************************************************************************)
InitialTab == [pending |-> NoCommand, waiting |-> NoRun, view |-> NoView,
               reloaded |-> FALSE, confirmed |-> {}]

\* Mutant: a question may be put while one is open.
MayChoose_TwoQuestions(c, intent) ==
  CASE intent = "start"    -> c.phase = "none"
    [] intent = "call"     -> InChief(c) /\ c.stage = "empty"
    [] intent = "ask"      -> InChief(c) /\ Conducts(c, "user")
    [] intent = "finish"   -> InChief(c) /\ Conducts(c, "user") /\ c.begun
    [] intent \in {"object", "continue"} -> WindowOpen(c)
    [] intent = "propose"  -> /\ c.testimony /\ SettlementIsOpen(c) /\ c.stage = "empty"
                              /\ c.asker = Nobody /\ c.interruption = "none"
                              /\ c.offer = Nobody
    [] intent \in {"counter", "accept"} -> c.offer = "opposing" /\ c.testimony
    [] intent = "reject"   -> c.offer = "opposing"
    [] intent = "withdraw" -> c.offer = "user"
    [] intent = "finish_trial" -> /\ InChief(c) /\ c.stage = "empty"
                                  /\ c.rested = {} /\ c.motion = "none"

\* What the view of a record offers the player.
MayChoose(c, intent) ==
  CASE intent = "start"    -> c.phase = "none"
    [] intent = "call"     -> InChief(c) /\ c.stage = "empty"
    [] intent = "ask"      -> InChief(c) /\ Conducts(c, "user") /\ c.asker = Nobody
    [] intent = "finish"   -> InChief(c) /\ Conducts(c, "user") /\ c.begun
                                         /\ c.asker = Nobody
    [] intent \in {"object", "continue"} -> WindowOpen(c)
    [] intent = "propose"  -> /\ c.testimony /\ SettlementIsOpen(c) /\ c.stage = "empty"
                              /\ c.asker = Nobody /\ c.interruption = "none"
                              /\ c.offer = Nobody
    [] intent \in {"counter", "accept"} -> c.offer = "opposing" /\ c.testimony
    [] intent = "reject"   -> c.offer = "opposing"
    [] intent = "withdraw" -> c.offer = "user"
    [] intent = "finish_trial" -> /\ InChief(c) /\ c.stage = "empty"
                                  /\ c.rested = {} /\ c.motion = "none"

Waits == tab.waiting # NoRun

Sends(r, command) ==
  /\ ~Waits
  /\ runs[r].at = "idle"
  /\ \A other \in Runs : other < r => runs[other].at # "idle"
  /\ attempts.requests < MaxAttempts
  /\ Ready(r, command)

\* A command is made for the view it is given on.
Issue(r, intent) ==
  LET command == [request |-> attempts.commands + 1, intent |-> intent,
                  expected |-> tab.view.version]
  IN
  /\ tab.pending = NoCommand
  /\ attempts.commands < MaxCommands
  /\ MayChoose(tab.view.court, intent)
  /\ Sends(r, command)
  /\ tab' = [tab EXCEPT !.pending = command, !.waiting = r, !.reloaded = FALSE]
  /\ attempts' = [requests |-> attempts.requests + 1,
                  commands |-> attempts.commands + 1]
  /\ UNCHANGED logVars

Retry(r) ==
  /\ tab.pending # NoCommand
  /\ Sends(r, tab.pending)
  /\ tab' = [tab EXCEPT !.waiting = r]
  /\ attempts' = [attempts EXCEPT !.requests = @ + 1]
  /\ UNCHANGED logVars

\* Only a page that has just opened a hearing recovers it.
Recover(r) ==
  /\ tab.reloaded
  /\ Sends(r, Recovery)
  /\ tab' = [tab EXCEPT !.waiting = r, !.reloaded = FALSE]
  /\ attempts' = [attempts EXCEPT !.requests = @ + 1]
  /\ UNCHANGED logVars

\* Mutant: a failed command is taken for done.
Settled_Always(run) == TRUE

Settled(run) == run.at = "done"

Told(command) == [request |-> command.request, of |-> Size(command.intent)]

\* A command that fails makes the page read the hearing anew; a recovery or
\* the start of a hearing that fails leaves the view alone.
ViewAfterFailure(command) ==
  IF command.intent \in {"recover", "start"} THEN tab.view ELSE HeadView

\* The page receives the answer.  It forgets the command only when the
\* answer is a view.
Delivered(r) ==
  LET run == runs[r]
  IN
  /\ tab.waiting = r
  /\ run.at \in {"done", "failed"}
  /\ tab' = IF Settled(run)
              THEN [tab EXCEPT
                      !.view = run.seen, !.waiting = NoRun, !.pending = NoCommand,
                      !.confirmed = IF run.command.request = 0 THEN @
                                    ELSE @ \cup {Told(run.command)}]
              ELSE [tab EXCEPT !.view = ViewAfterFailure(run.command),
                               !.waiting = NoRun]
  /\ Goes(r, IdleRun)
  /\ UNCHANGED <<logVars, attempts>>

\* The answer does not reach the page, and the run goes on without it.
GivesUp(r) ==
  /\ tab.waiting = r
  /\ Busy(r)
  /\ tab' = [tab EXCEPT !.view = ViewAfterFailure(runs[r].command),
                        !.waiting = NoRun]
  /\ UNCHANGED <<logVars, runs, attempts>>

\* A run nobody waits for ends.
Forgotten(r) ==
  /\ tab.waiting # r
  /\ runs[r].at \in {"done", "failed"}
  /\ Goes(r, IdleRun)
  /\ UNCHANGED <<logVars, tab, attempts>>

\* The page is opened anew: it shows the head, and keeps no command.
Reload ==
  /\ ~Waits
  /\ tab.view.court.phase # "none"
  /\ ~tab.reloaded
  /\ tab' = [tab EXCEPT !.view = HeadView, !.pending = NoCommand, !.reloaded = TRUE]
  /\ UNCHANGED <<logVars, runs, attempts>>

-----------------------------------------------------------------------------
(***************************************************************************)
(* The final-bound boundary: opposing counsel objects to what the player  *)
(* says, and the holder of the claim (FinalBoundLease) sees it through.   *)
(***************************************************************************)
Enters(kind, event, step) ==
  /\ Accepts(court, event)
  /\ Enter(Action([kind |-> kind, of |-> Version, step |-> step], Version, event, 0))
  /\ tab' = IF Waits THEN tab
            ELSE [tab EXCEPT !.view = [version |-> Len(log'), court |-> court']]
  /\ UNCHANGED runs

Challenge ==
  /\ ~Waits
  /\ tab.pending = NoCommand
  /\ tab.view = HeadView
  /\ attempts.requests < MaxAttempts
  /\ Enters("challenge", "challenge", 1)
  /\ attempts' = [attempts EXCEPT !.requests = @ + 1]

HolderActs ==
  /\ NeedsClaim(court)
  /\ \E event \in AnswerWords(court) \cup RulingWords(court) : Enters("holder", event, 0)
  /\ UNCHANGED attempts

-----------------------------------------------------------------------------
Init ==
  /\ log = <<>>
  /\ court \in InitialCourts
  /\ runs = [r \in Runs |-> IdleRun]
  /\ tab = [InitialTab EXCEPT !.view = HeadView]
  /\ attempts = [requests |-> 0, commands |-> 0]

RunStep(r) ==
  \/ ReadHead(r)
  \/ AppendStep(r)
  \/ Continue(r)
  \/ ModelAnswers(r)
  \/ CheckGeneration(r)
  \/ StoreGeneration(r)

PageStep(r) ==
  \/ \E intent \in Intents : Issue(r, intent)
  \/ Retry(r)
  \/ Recover(r)
  \/ GivesUp(r)

Next ==
  \/ \E r \in Runs :
       RunStep(r) \/ Breaks(r) \/ PageStep(r) \/ Delivered(r) \/ Forgotten(r)
  \/ Reload
  \/ Challenge
  \/ HolderActs

\* A run goes on until it ends, and what reaches the page is handled.
Fairness == \A r \in Runs : WF_vars(RunStep(r)) /\ WF_vars(Delivered(r))

Spec == Init /\ [][Next]_vars /\ Fairness

-----------------------------------------------------------------------------
(***************************************************************************)
(* Properties.                                                             *)
(***************************************************************************)
EntryOf(a) ==
  IF a.id.kind = "command"
    THEN [request |-> a.id.of, step |-> a.id.step, of |-> StepsOf(a.event)]
    ELSE [request |-> 0, step |-> 0, of |-> 0]

Ledger == INSTANCE CommandLedger
  WITH ledger <- [i \in 1..Len(log) |-> EntryOf(log[i])],
       confirmed <- tab.confirmed,
       Requests <- 1..MaxCommands,
       MaxSteps <- 5

\* Whatever is lost, given up, repeated or overtaken, the steps of a command
\* are committed in order, once and with no event in between, and a command
\* the page is told about is on record as a whole: the receipts of
\* appendActiveAction and the versions the steps are made for.
ImplementsLedger == Ledger!Spec

\* When two runs generate for one head, only one generation is accepted: a
\* run that goes on after its commit finds its own call on record, never
\* another run's words in its place (one accepted audit per AI event).
OwnWordsOnRecord ==
  \A r \in Runs :
    /\ runs[r].gen.call # 0
    /\ runs[r].at \in {"continue", "advance", "reply", "append", "done"}
    => \E i \in 1..Len(log) : log[i] = runs[r].gen

\* A motion to strike is ruled on at the head it was made at or never: the
\* judge's request is refused at any later one, and so is every command of
\* the player while the motion is pending.  Nothing may come in between.
MotionIsRuledAtOnce == court.motion # "aged"

\* What the view offers is accepted by the runtime and by the engine at the
\* head it was computed from.  Known exceptions: an objection after the
\* first interruption, the end of a trial without a record, an answer whose
\* head was left behind by a settlement offer, a call after the player
\* rested (the end of the trial was left half done), a counteroffer when the
\* phase has closed settlement, and an offer that outlived the trial.
Exempt(c, intent) ==
  \/ intent = "object" /\ c.interruption # "none"
  \/ intent = "finish_trial" /\ ~c.testimony
  \/ intent = "continue" /\ ~c.current
  \/ intent = "call" /\ "user" \in c.rested
  \/ intent = "counter" /\ ~SettlementIsOpen(c)
  \/ intent \in Offers /\ ~InSession(c)

NextCommand(intent) ==
  [request |-> attempts.commands + 1, intent |-> intent, expected |-> Version]

OfferedIsAccepted ==
  \A intent \in Intents :
    /\ MayChoose(court, intent)
    /\ intent # "start" => court.motion = "none"
    /\ ~Exempt(court, intent)
    => LET command == NextCommand(intent)
       IN /\ intent # "start" => ~Refuses(command, court)
          /\ intent = "continue" \/ Accepts(court, Events(command, court)[1])

\* The interruption of a question that was rephrased is ruled on like that of
\* any other, as finalBoundInterruption.integration.test.ts:1296 has it: a
\* sustained rephrase is chained to a second one.
PendingObjectionCanBeRuled ==
  court.objected /\ InterruptionOpen(court) =>
    \E event \in Turns.ruling : Accepts(court, event)

\* Every request the page waits for is answered or fails: no run repeats a
\* step for ever, and none asks model after model without end.
EveryRequestEnds == Waits ~> ~Waits
=============================================================================
