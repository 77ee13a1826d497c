--------------------------- MODULE SpokenQuestion ---------------------------
(***************************************************************************)
(* A recording and the objection it may set off: the recording half of    *)
(* lib/speech/hearing-controller.ts with the coordinator it drives        *)
(* (domain/objections/partial-coordinator.ts).                            *)
(*                                                                         *)
(* The controller ignores every partial transcript after the one that set *)
(* off a reaction, so the coordinator never sees a candidate withdrawn or *)
(* replaced by a later revision, and an utterance has one candidate.      *)
(***************************************************************************)
EXTENDS HearingBrowser

\* No awaited playback is wanted any more, and the job under way is dropped.
Fenced(h) ==
  [h EXCEPT !.job = NoJob,
            !.clip.wanted = FALSE,
            !.speech = IF h.speech.activating THEN [@ EXCEPT !.wanted = FALSE]
                                              ELSE Silent]

StopsMic(h) == [h EXCEPT !.mic = IF @ = "on" THEN "stopping" ELSE @]

\* The recording a flight belongs to, when the controller holds it and when not.
Of(h) == IF h.rec.u = h.co.u THEN h.rec ELSE h.co.held

Orphaned(h) == h.rec.u # h.co.u

Lands(h) == [h EXCEPT !.co.flight = "none"]

-----------------------------------------------------------------------------
\* abortActive, for a coordinator whose utterance is over or replaced: what its
\* flight is playing is cut off.
Aborted(h) ==
  [h EXCEPT !.co.flight = "none",
            !.clip.wanted = h.co.reacted /\ @,
            !.job = IF @.by = "clip" /\ @.unit = Clip(h.co.flight, h.co.u) THEN NoJob ELSE @]

\* finalize: the final transcript is not bound to the candidate.
Finalized(h) ==
  IF h.co.final THEN h
  ELSE Aborted([h EXCEPT !.co.final = TRUE, !.co.retain = FALSE])

\* failRecording after the microphone has stopped
FailureEnds(h) ==
  LET owed == h.rec.answer.is # "none" /\ h.rec.answer.pending
      g == [Recoverable(h) EXCEPT !.rec = NoRecording, !.co.held = h.rec]
  IN IF owed THEN [g EXCEPT !.after = Clip("recover", h.rec.answer.view)] ELSE g

\* failRecording, without what becomes of the clip it cuts off
Fails(h) ==
  IF ~Recording(h) THEN h
  ELSE LET a == IF h.rec.reaction # "none" /\ ~h.rec.sealed THEN Finalized(h) ELSE h
           b == IF a.job # NoJob THEN Fenced(a) ELSE a
           c == StopsMic([b EXCEPT !.rec.finalHandled = TRUE, !.rec.failing = TRUE])
       IN IF c.mic = "off" THEN FailureEnds(c) ELSE c

-----------------------------------------------------------------------------
\* dispatchInterruptionSpeechUnit, up to the activation it awaits
Dispatches(h, kind) ==
  [h EXCEPT !.co.flight = IF kind = "objection" THEN @ ELSE kind,
            !.clip = [unit |-> Clip(kind, h.co.u), wanted |-> TRUE]]

\* commitValidatedFinal accepts the frozen context.
MayCommit(h, r) == h.view = r.head /\ ~Busy(h) /\ ~Pending(h)

Submits(h, u) ==
  [h EXCEPT !.busy = "command", !.sent = h.view,
            !.kept = [by |-> "voice", u |-> u, expected |-> h.view, committed |-> FALSE]]

\* The question stands after all: it is put to the court as it was spoken.
CommitsWithdrawn(h) ==
  LET r == Of(h) IN
  IF MayCommit(h, r)
  THEN [Submits(h, r.u) EXCEPT !.co.flight = "committing"]
  ELSE IF Orphaned(h) THEN Lands(h)
  ELSE IF h.co.retried \/ r.corrected \/ r.reaction = "failed" THEN Fails(Lands(h))
  ELSE Dispatches([h EXCEPT !.co.retried = TRUE, !.rec.localFailure = FALSE], "correction")

\* A step of a withdrawal failed locally; the question must still be put.
Despite(h) ==
  CommitsWithdrawn(IF Orphaned(h) THEN [h EXCEPT !.co.held.localFailure = TRUE]
                                  ELSE [h EXCEPT !.rec.localFailure = TRUE])

\* completeDeliveredInterruption: whatever recording there is, it is over.
Completed(h) ==
  LET r == Of(h)
      g == [Lands(h) EXCEPT !.rec = NoRecording]
  IN IF r.troubled \/ r.localFailure THEN Recoverable(g)
     ELSE [g EXCEPT !.life = "ready"]

\* As DeliversWithdrawal, without a word of correction.
DeliversWithdrawal_Silent(h) ==
  LET g == [h EXCEPT !.rec.localFailure = FALSE, !.co.flight = "reaction"] IN
  CASE h.rec.reaction = "playing" -> g
    [] h.rec.reaction = "failed"  -> Despite(g)
    [] OTHER -> CommitsWithdrawn(g)

\* deliverFinalBoundInterruption of an answer that withdraws the objection
DeliversWithdrawal(h) ==
  LET g == [h EXCEPT !.rec.localFailure = FALSE, !.co.flight = "reaction"] IN
  CASE h.rec.reaction = "playing" -> g
    [] h.rec.reaction = "failed"  -> Despite(g)
    [] h.rec.reaction = "ok" /\ h.rec.corrected -> CommitsWithdrawn(g)
    [] OTHER -> Dispatches(g, "correction")

\* A ruling the record has moved on from is not performed.
Rules(h) == IF Of(h).answer.past THEN Completed(h) ELSE Dispatches(h, "ruling")

\* deliverFinalBoundInterruption of a ruling: its head is adopted first.
DeliversRuling(h) ==
  LET g == [h EXCEPT !.baseline = h.rec.answer.view, !.co.flight = "reaction"] IN
  CASE h.rec.reaction = "playing" -> g
    [] h.rec.reaction = "failed"  -> Fails(Lands(g))
    [] OTHER -> Rules(g)

Delivers(h) ==
  CASE h.rec.answer.is = "withdrawn" /\ h.view = h.rec.head -> DeliversWithdrawal(h)
    [] h.rec.answer.is = "ruling" /\ h.view = h.rec.answer.view -> DeliversRuling(h)
    [] OTHER -> Fails(Lands(h))

\* requestFinalBoundInterruption: an answer once received is used again.
Asks(h) ==
  IF h.rec.answer.is # "none" THEN Delivers(h)
  ELSE IF h.view # h.rec.head THEN Fails(Lands(h))
  ELSE [h EXCEPT !.rec.commitStarted = TRUE, !.co.flight = "asking"]

\* runModelCandidate goes on once the reaction is sent and the final is sealed.
Pursues(h) ==
  IF h.co.flight = "waiting" /\ h.co.reacted /\ h.co.retain
  THEN IF Orphaned(h) THEN Lands(h) ELSE Asks(h)
  ELSE h

\* As FlightFails, putting a withdrawn question to the court of the day.
FlightFails_Again(h) ==
  IF Orphaned(h) THEN Lands(h)
  ELSE IF h.rec.answer.is = "withdrawn" /\ h.busy = "no"
  THEN [Submits(h, h.rec.u) EXCEPT !.co.flight = "committing"]
  ELSE IF h.co.retried THEN Fails(Lands(h))
  ELSE Asks([h EXCEPT !.co.retried = TRUE])

\* onError of the coordinator: one more flight, or the recording fails.
FlightFails(h) ==
  IF Orphaned(h) THEN Lands(h)
  ELSE IF h.co.retried THEN Fails(Lands(h))
  ELSE Asks([h EXCEPT !.co.retried = TRUE])

-----------------------------------------------------------------------------
\* What awaited a clip learns that it was not played.
ClipFails(h, unit) ==
  LET g == IF unit.is = "objection" /\ h.rec.u = unit.of
           THEN [h EXCEPT !.rec.reaction = "failed"] ELSE h
  IN IF g.co.u # unit.of \/ g.co.flight \notin {"reaction", "ruling", "correction"} THEN g
     ELSE IF Of(g).answer.is = "withdrawn" THEN Despite(g)
     ELSE FlightFails(g)

\* Playback is cut off: its job fails, whoever waits for it.
CutsOff(h) ==
  IF h.job.by = "clip" THEN ClipFails(Fenced(h), h.job.unit) ELSE Fenced(h)

\* failRecording as a whole
FailsRecording(h) ==
  IF Recording(h) /\ h.job.by = "clip" THEN ClipFails(Fails(h), h.job.unit) ELSE Fails(h)

\* What awaited a clip learns that it was played to its end, which is of no use to a
\* flight that was replaced meanwhile.
ClipEnds(h) ==
  LET unit == h.job.unit
      g == [h EXCEPT !.job = NoJob]
      r == Of(g)
      stale == unit.of # g.co.u \/ unit.is # g.co.flight
  IN CASE unit.is = "objection" ->
            LET p == [g EXCEPT !.rec.reaction = IF h.rec.u = unit.of THEN "ok" ELSE @]
            IN IF unit.of # p.co.u \/ p.co.flight # "reaction" THEN p
               ELSE IF r.answer.is = "ruling" THEN Rules(p) ELSE Dispatches(p, "correction")
       [] unit.is = "correction" ->
            IF stale THEN g
            ELSE CommitsWithdrawn([g EXCEPT !.rec.corrected = h.rec.u = unit.of \/ @])
       [] unit.is = "ruling" ->
            LET d == Completed([g EXCEPT !.delivered = @ \union {unit.of}])
            IN IF stale THEN g
               ELSE IF d.life # "ready" THEN d
               ELSE IF r.answer.pending THEN [d EXCEPT !.after = Clip("recover", r.answer.view)]
               ELSE IF r.answer.resumes # 0 THEN [d EXCEPT !.after = Clip("resume", r.answer.resumes)]
               ELSE d

\* The response of a clip is active, or it is not wanted any more.
ClipActivates(h) ==
  LET unit == h.clip.unit
      g == [h EXCEPT !.clip = NoClip]
      current == h.clip.wanted /\ h.rec.u = unit.of
      reaction == unit.is = "objection"
      sent == IF reaction
              THEN Pursues([g EXCEPT !.rec.reaction = "playing", !.co.reacted = TRUE])
              ELSE g
  IN IF current /\ h.link
     THEN [sent EXCEPT !.job = [unit |-> unit, by |-> "clip", audible |-> FALSE]]
     ELSE IF ~reaction THEN ClipFails(g, unit)
     ELSE LET f == IF h.rec.u = unit.of THEN [g EXCEPT !.rec.reaction = "failed"] ELSE g
              c == IF h.co.u = unit.of THEN [f EXCEPT !.co.reacted = TRUE] ELSE f
          IN IF h.co.u = unit.of /\ (~h.co.final \/ h.co.retain)
             THEN Pursues(FailsRecording(c)) ELSE c

-----------------------------------------------------------------------------
(***************************************************************************)
(* Recording.                                                              *)
(***************************************************************************)
MayRecord(h) ==
  /\ h.life \in {"ready", "speaking"}
  /\ ~Busy(h)
  /\ ~Pending(h)

\* startRecording, up to the start of the microphone it awaits
StartsRecording(h) ==
  LET g == Fenced([h EXCEPT !.life = "preparing"]) IN
  IF h.mic = "off" THEN [g EXCEPT !.starting = "yes", !.from = h.view]
  ELSE [g EXCEPT !.life = "recoverable"]

\* The microphone is on: the utterance is opened here and with the service.
RecordingStarts(h, u) ==
  LET g == [h EXCEPT !.starting = "no", !.from = 0] IN
  IF h.starting = "yes" /\ h.link
  THEN [Aborted(g) EXCEPT !.life = "recording", !.mic = "on",
                 !.rec = [NoRecording EXCEPT !.u = u, !.head = h.from],
                 !.co = [NoCandidate EXCEPT !.u = u]]
  ELSE Recoverable(g)

StopsRecording(h) ==
  LET g == StopsMic([h EXCEPT !.rec.stop = "mic"]) IN
  IF g.mic = "off" THEN [g EXCEPT !.rec.stop = "final"] ELSE g

\* handlePartial with a transcript that invites an objection
HearsPartial(h) ==
  IF h.rec.finalHandled \/ h.rec.reaction # "none" THEN h
  ELSE IF h.view # h.rec.head THEN [Aborted(h) EXCEPT !.co = NoCandidate]
  ELSE IF h.co.u # h.rec.u \/ h.co.final THEN h
  ELSE LET g == [h EXCEPT !.rec.reaction = "dispatching", !.co.flight = "waiting",
                          !.life = "processing"]
           s == IF g.rec.stop = "no" THEN StopsRecording(g) ELSE g
       IN Dispatches(s, "objection")

\* completeRecording after the microphone has stopped
Completes(h) ==
  IF MayCommit(h, h.rec)
  THEN [Submits(h, h.rec.u) EXCEPT !.rec.commitStarted = TRUE, !.rec.complete = "commit"]
  ELSE Recoverable([h EXCEPT !.rec = NoRecording])

\* handleFinal
HearsFinal(h) ==
  IF h.rec.finalHandled THEN h
  ELSE LET g == [h EXCEPT !.rec.finalHandled = TRUE] IN
       IF h.rec.reaction # "none"
       THEN IF h.co.u = h.rec.u /\ ~h.co.final /\ h.co.flight # "none"
            THEN Pursues([g EXCEPT !.rec.sealed = TRUE, !.co.final = TRUE,
                                   !.co.retain = TRUE, !.life = "processing"])
            ELSE FailsRecording([g EXCEPT !.rec.sealed = TRUE])
       ELSE LET s == StopsMic([Finalized(g) EXCEPT !.life = "processing",
                                                   !.rec.complete = "mic"])
            IN IF s.mic = "off" THEN Completes(s) ELSE s

\* As MicStops, but nobody looks for the recording that waited to be completed.
MicStops_Unfinished(h, ok) ==
  LET g == [h EXCEPT !.mic = "off"]
      s == IF g.rec.stop # "mic" THEN g
           ELSE IF ~ok THEN FailsRecording([g EXCEPT !.rec.stop = "over"])
           ELSE [g EXCEPT !.rec.stop = "final",
                          !.life = IF g.rec.finalHandled THEN @ ELSE "processing"]
  IN IF s.rec.failing THEN FailureEnds(s) ELSE s

\* The microphone has stopped, or could not be stopped: who awaited it goes on.
MicStops(h, ok) ==
  LET g == [h EXCEPT !.mic = "off"]
      s == IF g.rec.stop # "mic" THEN g
           ELSE IF ~ok THEN FailsRecording([g EXCEPT !.rec.stop = "over"])
           ELSE [g EXCEPT !.rec.stop = "final",
                          !.life = IF g.rec.finalHandled THEN @ ELSE "processing"]
      c == IF s.rec.complete # "mic" THEN s
           ELSE IF ok THEN Completes(s)
           ELSE Recoverable([s EXCEPT !.rec = NoRecording])
  IN IF c.rec.failing THEN FailureEnds(c) ELSE c

\* The final transcript did not come in time.
FinalMisses(h) ==
  IF h.rec.finalHandled THEN h ELSE FailsRecording([h EXCEPT !.rec.stop = "over"])
=============================================================================
