---------------------------- MODULE SpokenHearing ----------------------------
(***************************************************************************)
(* A hearing as one browser performs it: the player records questions, an *)
(* objection may cut in on one of them, the court answers, and the page   *)
(* has the courtroom say what was put on the record - with a speech       *)
(* service that errs or goes away, a court whose answers are late or      *)
(* lost, and playback and microphone that fail.                           *)
(*                                                                         *)
(* The court is what the other modules make of it: here a record that     *)
(* grows by one entry for each request it grants.                         *)
(***************************************************************************)
EXTENDS CourtroomSpeech

CONSTANTS
  LateMicFailures,\* may the microphone fail to stop once the final transcript is in
  MaxVersion,     \* bound: entries of the record
  MaxQuestions,  \* bound: recordings
  MaxFaults,      \* bound: faults of any kind
  MaxUnadopted        \* bound: views yet to be adopted when a command is sent again

ASSUME BoundsAssumption ==
  /\ LateMicFailures \in BOOLEAN
  /\ MaxVersion \in Nat /\ MaxQuestions \in Nat
  /\ MaxFaults \in Nat /\ MaxUnadopted \in Nat

VARIABLES
  h,       \* the browser
  court,   \* the record
  asked,   \* the interruptions the court was asked for: head and withdrawal
  ear,     \* what the player has heard
  spoken,  \* the utterances so far
  faults   \* the faults so far

vars == <<h, court, asked, ear, spoken, faults>>

Questions == 1 .. MaxQuestions

\* A hearing is opened new, or under way: there the witness still owes an answer
\* that was interrupted in an earlier sitting.
NewHearing == <<Entry("opening", NoUtterance)>>
Openings   == {NewHearing, Append(NewHearing, Entry("pending", NoUtterance))}

NotAsked == [head |-> 0, withdrawn |-> FALSE]
Nothing  == [upto |-> 0, order |-> TRUE, owed |-> NoUtterance]

Init ==
  /\ h = Opened
  /\ court \in Openings
  /\ asked = [u \in Questions |-> NotAsked]
  /\ ear = Nothing
  /\ spoken = 0
  /\ faults = 0

Version  == Len(court)
Awaiting == court[Version].kind = "pending"

-----------------------------------------------------------------------------
(***************************************************************************)
(* The court.                                                              *)
(***************************************************************************)
Enters(entry) ==
  /\ Version < MaxVersion
  /\ court' = Append(court, entry)

\* A command is committed at the head it was made for, however late it comes.
CourtCommits ==
  /\ Pending(h)
  /\ ~h.kept.committed
  /\ h.kept.expected = Version
  /\ ~Awaiting
  /\ Enters(Entry("turn", h.kept.u))
  /\ h' = [h EXCEPT !.kept.committed = TRUE]
  /\ UNCHANGED <<asked, ear, spoken, faults>>

RulingEntries(u) ==
  {v \in 1 .. Version : court[v].of = u /\ court[v].kind \in {"sustained", "overruled", "pending"}}

Requested == {u \in Questions : asked[u].head # 0}

Open(u) == u \in Requested /\ ~asked[u].withdrawn /\ RulingEntries(u) = {}

CourtRules(u, kind) ==
  /\ Open(u)
  /\ asked[u].head = Version
  /\ Enters(Entry(kind, u))
  /\ UNCHANGED <<h, asked, ear, spoken, faults>>

CourtWithdraws(u) ==
  /\ Open(u)
  /\ asked' = [asked EXCEPT ![u].withdrawn = TRUE]
  /\ UNCHANGED <<h, court, ear, spoken, faults>>

\* The witness answers after all, while some request for it is under way.
CourtResumes ==
  /\ Awaiting
  /\ h.recovery.on \/ h.co.flight = "asking"
  /\ Enters(Entry("answer", court[Version].of))
  /\ UNCHANGED <<h, asked, ear, spoken, faults>>

CourtContinues ==
  /\ h.busy = "continuation"
  /\ h.sent = Version
  /\ ~Awaiting
  /\ Enters(Entry("turn", NoUtterance))
  /\ UNCHANGED <<h, asked, ear, spoken, faults>>

\* What the court answers about an interruption it has ruled on
Answer(u) ==
  LET ruling == CHOOSE v \in RulingEntries(u) : TRUE
      answers == {v \in ruling .. Version : court[v] = Entry("answer", u)}
      pending == court[ruling].kind = "pending" /\ answers = {}
      last == IF answers = {} THEN ruling ELSE CHOOSE v \in answers : TRUE
  IN [is |-> "ruling", u |-> u, view |-> Version, pending |-> pending,
      resumes |-> IF court[last].kind \in {"overruled", "answer"} THEN last ELSE 0,
      past |-> last # Version]

-----------------------------------------------------------------------------
(***************************************************************************)
(* The steps.  Whatever is urgent goes before them.                        *)
(***************************************************************************)
Becomes(g) == ~Urgent(h) /\ h' = Tidy(g)

Faulty == faults < MaxFaults /\ faults' = faults + 1

Drain ==
  /\ h.after = NoUnit \/ h.after.is = "resume"
  /\ MayDrain(h)
  /\ h' = Tidy(Adopts(h, court))
  /\ UNCHANGED <<court, asked, ear, spoken, faults>>

\* After a delivered interruption: the answer is spoken, or asked for.
GoOn ==
  /\ h.after # NoUnit
  /\ ~MayDrain(h)
  /\ LET g == [h EXCEPT !.after = NoUnit]
     IN h' = IF h.after.is = "resume" THEN Speaks(g, "resume", <<Turn(h.after.of)>>)
             ELSE Recovers(g, h.after.of)
  /\ UNCHANGED <<court, asked, ear, spoken, faults>>

SpeakerTestUnit == Clip("test", NoUtterance)

\* The page is opened on a new hearing, or on one that is under way.
Begin ==
  /\ h.view = 0
  /\ Becomes(Publishes(h, Version, Adoption("view", 0, Version, NoAnswer)))
  /\ Version = 1
  /\ UNCHANGED <<court, asked, ear, spoken, faults>>

Load ==
  /\ h.view = 0
  /\ Becomes(Recovers([h EXCEPT !.view = Version, !.baseline = Version, !.loading = TRUE],
                      Version))
  /\ UNCHANGED <<court, asked, ear, spoken, faults>>

Prepare ==
  /\ MayPrepare(h)
  /\ Becomes(Prepares(h))
  /\ UNCHANGED <<court, asked, ear, spoken, faults>>

PrepareEnds(ok) ==
  /\ h.prep # "no"
  /\ IF ok THEN UNCHANGED faults ELSE Faulty
  /\ Becomes(Prepared(h, ok))
  /\ UNCHANGED <<court, asked, ear, spoken>>

Record ==
  /\ MayRecord(h)
  /\ h.view \in 1 .. MaxVersion - 1
  /\ spoken < MaxQuestions
  /\ court[h.view].kind # "pending"
  /\ spoken' = spoken + 1
  /\ Becomes(StartsRecording(h))
  /\ UNCHANGED <<court, asked, ear, faults>>

MicStarts(ok) ==
  /\ h.starting # "no"
  /\ IF ok THEN UNCHANGED faults ELSE Faulty
  /\ Becomes(IF ok THEN RecordingStarts(h, spoken)
             ELSE Recoverable([h EXCEPT !.starting = "no", !.from = 0]))
  /\ UNCHANGED <<court, asked, ear, spoken>>

Stop ==
  /\ h.life = "recording"
  /\ Recording(h)
  /\ h.rec.stop = "no"
  /\ Becomes(StopsRecording(h))
  /\ UNCHANGED <<court, asked, ear, spoken, faults>>

MicStopped(ok) ==
  /\ h.mic = "stopping"
  /\ ok \/ ~h.rec.sealed \/ LateMicFailures
  /\ IF ok THEN UNCHANGED faults ELSE Faulty
  /\ Becomes(MicStops(h, ok))
  /\ UNCHANGED <<court, asked, ear, spoken>>

Partial ==
  /\ h.link
  /\ Recording(h)
  /\ Becomes(HearsPartial(h))
  /\ UNCHANGED <<court, asked, ear, spoken, faults>>

Final ==
  /\ h.link
  /\ Recording(h)
  /\ Becomes(HearsFinal(h))
  /\ UNCHANGED <<court, asked, ear, spoken, faults>>

FinalTimesOut ==
  /\ Recording(h)
  /\ h.rec.stop = "final"
  /\ Becomes(FinalMisses(h))
  /\ UNCHANGED <<court, asked, ear, spoken, faults>>

-----------------------------------------------------------------------------
ClipActivated ==
  /\ h.clip # NoClip
  /\ Becomes(ClipActivates(h))
  /\ UNCHANGED <<court, asked, ear, spoken, faults>>

SpeechActivated(ok) ==
  /\ h.speech.activating
  /\ IF ok THEN UNCHANGED faults ELSE Faulty
  /\ Becomes(SpeechActivates(h, ok))
  /\ UNCHANGED <<court, asked, ear, spoken>>

JobSounds ==
  /\ h.job # NoJob
  /\ ~h.job.audible
  /\ Becomes([h EXCEPT !.job.audible = TRUE])
  /\ ear' = [ear EXCEPT !.owed = IF h.job.unit.is = "objection" THEN h.job.unit.of ELSE @]
  /\ UNCHANGED <<court, asked, spoken, faults>>

\* Where a unit belongs in the record: a ruling comes before its answer.
Place(unit) ==
  CASE unit.is = "turn"   -> 2 * unit.of + 1
    [] unit.is = "ruling" -> 2 * CHOOSE v \in RulingEntries(unit.of) : TRUE
    [] OTHER              -> 0

JobCompletes ==
  /\ h.job.audible
  /\ Becomes(JobEnds(h))
  /\ LET unit == h.job.unit
     IN ear' = [upto  |-> IF Place(unit) = 0 THEN ear.upto ELSE Place(unit),
                order |-> ear.order /\ (Place(unit) = 0 \/ Place(unit) > ear.upto),
                owed  |-> IF unit.is \in {"ruling", "correction"} THEN NoUtterance ELSE ear.owed]
  /\ UNCHANGED <<court, asked, spoken, faults>>

JobErrs ==
  /\ h.job # NoJob
  /\ Faulty
  /\ Becomes(JobFails(h)) \/ Becomes(JobIsCancelled(h))
  /\ UNCHANGED <<court, asked, ear, spoken>>

SpeakerTest ==
  /\ h.life = "ready"
  /\ Becomes(Speaks(h, "test", <<SpeakerTestUnit>>))
  /\ UNCHANGED <<court, asked, ear, spoken, faults>>

ServiceFails ==
  /\ h.link
  /\ Faulty
  /\ \/ Becomes(Disconnects(h))
     \/ Becomes(ServiceErrs(h))
     \/ Becomes(Dies(h))
     \/ Recording(h) /\ Becomes(UtteranceIsCancelled(h))
  /\ UNCHANGED <<court, asked, ear, spoken>>

Close ==
  /\ h.life # "closed"
  /\ Becomes(Closes)
  /\ UNCHANGED <<court, asked, ear, spoken, faults>>

-----------------------------------------------------------------------------
\* A typed action, which for an objection first cuts the courtroom off
Type(objects) ==
  /\ h.view # 0
  /\ ~Blocks(h.life) /\ h.life # "closed"
  /\ ~Busy(h) /\ ~Pending(h)
  /\ court[h.view].kind # "pending"
  /\ h.view < MaxVersion
  /\ Becomes([Submits(IF objects THEN Interrupts(h) ELSE h, NoUtterance)
                EXCEPT !.kept.by = "typed"])
  /\ UNCHANGED <<court, asked, ear, spoken, faults>>

\* The kept command is sent again, as it was.
Retry ==
  /\ Pending(h)
  /\ ~Busy(h)
  /\ h.life # "closed"
  /\ Len(h.queue) < MaxUnadopted
  /\ Becomes([h EXCEPT !.busy = "command", !.sent = h.view])
  /\ UNCHANGED <<court, asked, ear, spoken, faults>>

CommandAnswered ==
  /\ h.busy = "command"
  /\ h.kept.committed
  /\ Becomes(CommandAnswers(h, Version))
  /\ UNCHANGED <<court, asked, ear, spoken, faults>>

\* The answer is lost, or the court refuses a command made for another head.
CommandFailed(refreshed) ==
  /\ h.busy = "command"
  /\ IF ~h.kept.committed /\ h.kept.expected # Version /\ refreshed
     THEN UNCHANGED faults ELSE Faulty
  /\ Becomes(CommandFails(h, Version, refreshed))
  /\ UNCHANGED <<court, asked, ear, spoken>>

\* interruptFinal, once requestFinalBoundInterruption has called it
Interrupt ==
  /\ h.co.flight = "asking"
  /\ asked[h.co.u] = NotAsked
  /\ asked' = [asked EXCEPT ![h.co.u].head = Of(h).head]
  /\ Becomes(h)
  /\ UNCHANGED <<court, ear, spoken, faults>>

\* Its answer: a ruling is published before it is delivered.
FlightAnswered ==
  LET u == h.co.u
      current == h.view = asked[u].head
      withdrawn == [NoAnswer EXCEPT !.is = "withdrawn", !.u = u]
  IN /\ h.co.flight = "asking"
     /\ u \in Requested
     /\ ~Open(u)
     /\ Becomes(IF ~current THEN FlightFails(h)
                ELSE IF asked[u].withdrawn
                THEN IF Orphaned(h) THEN Lands(h)
                     ELSE Delivers([h EXCEPT !.rec.answer = withdrawn])
                ELSE IF Orphaned(h) THEN Lands([h EXCEPT !.view = Version])
                ELSE Delivers([h EXCEPT !.view = Version, !.rec.answer = Answer(u)]))
     /\ UNCHANGED <<court, asked, ear, spoken, faults>>

FlightLost ==
  /\ h.co.flight = "asking"
  /\ IF Open(h.co.u) /\ asked[h.co.u].head # Version THEN UNCHANGED faults ELSE Faulty
  /\ Becomes(FlightFails(h))
  /\ UNCHANGED <<court, asked, ear, spoken>>

\* The player asks for the answer of an interrupted witness once more.
Recover ==
  /\ h.view # 0
  /\ court[h.view].kind = "pending"
  /\ h.life # "closed"
  /\ MayRecover(h)
  /\ Becomes(Recovers(h, h.view))
  /\ UNCHANGED <<court, asked, ear, spoken, faults>>

\* The last ruling whose witness the court still owes, or has just heard
Owed == {v \in 1 .. Version : court[v].kind = "pending"}

RecoveryAnswered ==
  /\ h.recovery.on
  /\ Becomes(IF Owed = {} \/ court[Version].kind \notin {"pending", "answer"} THEN RecoveryEnds(h)
             ELSE RecoveryAnswers(h, Answer(court[Version].of)))
  /\ UNCHANGED <<court, asked, ear, spoken, faults>>

RecoveryFailed ==
  /\ h.recovery.on
  /\ Faulty
  /\ Becomes(RecoveryEnds(h))
  /\ UNCHANGED <<court, asked, ear, spoken>>

ContinuationAnswered(ok) ==
  /\ h.busy = "continuation"
  /\ IF ok THEN UNCHANGED faults ELSE Faulty
  /\ Becomes(IF ok THEN ContinuationAnswers(h, Version) ELSE [h EXCEPT !.busy = "no"])
  /\ UNCHANGED <<court, asked, ear, spoken>>

-----------------------------------------------------------------------------
CourtStep ==
  \/ CourtCommits \/ CourtResumes \/ CourtContinues
  \/ \E u \in Questions :
       CourtWithdraws(u) \/ \E k \in {"sustained", "overruled", "pending"} : CourtRules(u, k)

Player ==
  \/ Begin \/ Load \/ Prepare \/ Record \/ Stop \/ SpeakerTest \/ Close \/ Retry \/ Recover
  \/ \E objects \in BOOLEAN : Type(objects)

Service == Partial \/ Final \/ ServiceFails \/ JobErrs

Answers ==
  \/ CommandAnswered \/ Interrupt \/ FlightAnswered \/ FlightLost
  \/ RecoveryAnswered \/ RecoveryFailed
  \/ \E refreshed \in BOOLEAN : CommandFailed(refreshed)
  \/ \E ok \in BOOLEAN : ContinuationAnswered(ok)

Device ==
  \/ Drain \/ GoOn \/ FinalTimesOut \/ ClipActivated \/ JobSounds \/ JobCompletes
  \/ \E ok \in BOOLEAN : PrepareEnds(ok) \/ MicStarts(ok) \/ MicStopped(ok) \/ SpeechActivated(ok)

Next == CourtStep \/ Player \/ Service \/ Answers \/ Device

\* Playback, the microphone, the court and the network go on or report that
\* they fail, and the wait for a final transcript is limited.
Playback == ClipActivated \/ JobSounds \/ JobCompletes \/ JobErrs
Flight   == CourtStep \/ Interrupt \/ FlightAnswered \/ FlightLost
Command  == CommandAnswered \/ \E refreshed \in BOOLEAN : CommandFailed(refreshed)

Fairness ==
  /\ WF_vars(Drain \/ GoOn)
  /\ WF_vars(Playback)
  /\ WF_vars(FinalTimesOut)
  /\ WF_vars(\E ok \in BOOLEAN : MicStopped(ok))
  /\ WF_vars(Flight)
  /\ WF_vars(Command)

-----------------------------------------------------------------------------
\* What the player said once is on the record at most once, though its request
\* is sent again, its answer is lost, or an objection to it comes to nothing.
PutToCourtOnce ==
  \A u \in Questions :
    Cardinality({v \in 1 .. Version : court[v].of = u /\ court[v].kind # "answer"}) <= 1

\* What the player hears to its end of the record comes in the order of the
\* record, nothing of it twice: a ruling delivered at once is not read again
\* from the queue, whichever of the two paths is late.
HeardInOrder == ear.order

\* A recording that was cut off by an audible "Objection!" and ends well ended
\* with a ruling or with the correction that takes the objection back.
ObjectionIsAnswered ==
  [][Recording(h) /\ h'.rec.u # h.rec.u /\ h'.life = "ready" => ear'.owed # h.rec.u]_vars

\* A recording that was stopped, or has its final transcript, ends: with an
\* answer of the court or as a failure, whatever its objection is waiting for.
EveryRecordingEnds ==
  Recording(h) /\ (h.rec.stop # "no" \/ h.rec.finalHandled) ~> ~Recording(h)

Spec == Init /\ [][Next]_vars /\ Fairness

\* A bound for TLC: the last recording is made after the faults, and finds what
\* they have left.
FaultsComeFirst == spoken = MaxQuestions => faults = MaxFaults
=============================================================================
