--------------------------- MODULE CourtroomSpeech ---------------------------
(***************************************************************************)
(* What the page has the courtroom say: the queue of views it has yet to  *)
(* adopt (app/hearing/page.tsx, app/hearing/speech-queue.ts), and the     *)
(* speaking half of lib/speech/hearing-controller.ts.                     *)
(*                                                                         *)
(* A record is a sequence of entries; its length is its version.          *)
(***************************************************************************)
EXTENDS SpokenQuestion

Entry(kind, u) == [kind |-> kind, of |-> u]

\* Entries that put a turn of somebody but the player into the transcript
Voiced(entry) == entry.kind \in {"opening", "turn", "overruled", "answer"}

\* selectSpeakableTranscriptDelta
Delta(court, prev, next) ==
  LET turns == [i \in 1 .. next - prev |-> Turn(prev + i)]
  IN SelectSeq(turns, LAMBDA unit : Voiced(court[unit.of]))

\* As Units, with a ruling that was delivered at once said again.
Units_Again(h, court, a) ==
  IF a.kind = "view" THEN Delta(court, a.prev, a.next)
  ELSE IF a.answer.past THEN <<>>
  ELSE <<Clip("ruling", a.answer.u)>>
       \o (IF a.answer.resumes = 0 THEN <<>> ELSE <<Turn(a.answer.resumes)>>)

\* The units of one adoption of the queue
Units(h, court, a) ==
  IF a.kind = "view" THEN Delta(court, a.prev, a.next)
  ELSE IF a.answer.past THEN <<>>
  ELSE (IF a.answer.u \in h.delivered THEN <<>> ELSE <<Clip("ruling", a.answer.u)>>)
       \o (IF a.answer.resumes = 0 THEN <<>> ELSE <<Turn(a.answer.resumes)>>)

-----------------------------------------------------------------------------
\* speakUnits; a controller that is not ready refuses.
Speaks(h, by, units) ==
  IF units = <<>> \/ h.life # "ready" THEN h
  ELSE [h EXCEPT !.life = "speaking",
                 !.speech = [by |-> by, units |-> units, activating |-> TRUE,
                             wanted |-> TRUE]]

\* The response is active; synthesis is asked for unless the link is down.
SpeechActivates(h, ok) ==
  IF ~h.speech.wanted THEN [h EXCEPT !.speech = Silent]
  ELSE IF ~ok \/ ~h.link THEN Recoverable(Fenced([h EXCEPT !.speech = Silent]))
  ELSE [h EXCEPT !.speech.activating = FALSE,
                 !.job = [unit |-> Head(h.speech.units), by |-> "speech", audible |-> FALSE]]

UnitEnds(h) ==
  LET unit == h.job.unit
      rest == Tail(h.speech.units)
      g == [h EXCEPT !.job = NoJob,
                     !.delivered = IF unit.is = "ruling" THEN @ \union {unit.of} ELSE @]
  IN IF rest = <<>> THEN [g EXCEPT !.life = "ready", !.speech = Silent]
     ELSE [g EXCEPT !.speech.units = rest, !.speech.activating = TRUE]

JobEnds(h) == IF h.job.by = "speech" THEN UnitEnds(h) ELSE ClipEnds(h)

\* Playback fails, or does not end in time.
JobFails(h) ==
  IF h.job.by = "speech" THEN Recoverable(Fenced(h)) ELSE CutsOff(h)

\* The service cancels synthesis on its own.
JobIsCancelled(h) ==
  LET g == Recoverable(Fenced(h)) IN
  IF h.job.by = "clip" THEN ClipFails(g, h.job.unit) ELSE g

\* interruptForCourtroomAction
Interrupts(h) ==
  IF h.life = "speaking" THEN [Fenced(h) EXCEPT !.life = "ready"] ELSE h

-----------------------------------------------------------------------------
(***************************************************************************)
(* The connection to the speech service.                                   *)
(***************************************************************************)
MayPrepare(h) ==
  /\ h.life \in {"idle", "recoverable"}
  /\ h.prep = "no"
  /\ ~Recording(h)

\* prepare: a new generation; what an older one awaits is not wanted any more.
Prepares(h) ==
  [h EXCEPT !.life = "preparing", !.prep = "yes", !.job = NoJob, !.co.held.head = 0,
            !.speech.wanted = FALSE, !.speech.activating = h.speech.by # "none",
            !.starting = IF @ = "yes" THEN "stale" ELSE @]

Prepared(h, ok) ==
  LET g == [h EXCEPT !.prep = "no"] IN
  IF ok /\ h.prep = "yes" /\ h.mic = "off"
  THEN [g EXCEPT !.life = "ready", !.link = TRUE]
  ELSE Recoverable(g)

\* A committed or committing recording is left to end; any other one fails.
Troubles(h) ==
  IF ~Recording(h) THEN (IF h.job # NoJob THEN CutsOff(h) ELSE h)
  ELSE IF ~h.rec.finalHandled /\ ~h.rec.commitStarted THEN FailsRecording(h)
  ELSE LET g == [h EXCEPT !.rec.troubled = TRUE]
       IN IF h.job # NoJob THEN CutsOff(g) ELSE g

\* handleServiceFailure, for an error that leaves the connection open
ServiceErrs(h) ==
  LET g == Troubles([h EXCEPT !.prep = IF @ = "yes" THEN "failed" ELSE @])
  IN IF Recording(h) THEN g ELSE Recoverable(g)

\* handleDisconnect; the display says so whatever was going on.
Disconnects(h) ==
  LET open == Recording(h) /\ ~h.rec.finalHandled /\ ~h.rec.commitStarted
      g == [h EXCEPT !.link = FALSE, !.prep = IF @ = "yes" THEN "failed" ELSE @]
  IN Troubles(IF open THEN g ELSE Recoverable(g))

\* A fatal error, after which the client drops the connection
Dies(h) == Disconnects([ServiceErrs(h) EXCEPT !.life = "fatal"])

UtteranceIsCancelled(h) ==
  IF h.rec.finalHandled \/ h.rec.commitStarted THEN h ELSE FailsRecording(h)

\* close, with which the page is left: nothing is awaited any more.
Closes == [Opened EXCEPT !.life = "closed"]

\* What no call reads any more is forgotten.
Tidy(h) ==
  [h EXCEPT !.sent = IF h.busy = "no" THEN 0 ELSE @,
            !.co = IF @.flight = "none" /\ h.rec.u # @.u THEN NoCandidate ELSE @]

-----------------------------------------------------------------------------
(***************************************************************************)
(* The page.                                                               *)
(***************************************************************************)
\* invalidateHead: an utterance of another head is given up.
Invalidates(h, head) ==
  IF h.co.u = NoUtterance \/ Of(h).head = head THEN h
  ELSE [Aborted(h) EXCEPT !.co = NoCandidate]

\* adoptView, adoptRecoveredInterruption
Adopts(h, court) ==
  LET a == Head(h.queue)
      g == [h EXCEPT !.queue = Tail(@)]
  IN IF h.baseline # a.prev THEN Recoverable(g)
     ELSE Speaks(Invalidates([g EXCEPT !.baseline = a.next], a.next),
                 "drain", Units(h, court, a))

MayReplace(old, new) ==
  /\ new.next >= old.next
  /\ ~(new.next = old.next /\ ~old.answer.pending /\ new.answer.pending)

\* enqueuePendingSpeechAdoption
Enqueued(queue, a) ==
  LET same(b) == b.kind = "interruption" /\ b.answer.u = a.answer.u
      older == SelectSeq(queue, same)
  IN IF a.kind = "view" \/ older = <<>> THEN Append(queue, a)
     ELSE IF ~MayReplace(older[1], a) THEN queue
     ELSE Append(SelectSeq(queue, LAMBDA b : ~same(b)), [a EXCEPT !.prev = older[1].prev])

Publishes(h, view, a) ==
  [h EXCEPT !.view = view, !.queue = Enqueued(@, a)]

MayRecover(h) ==
  /\ ~Busy(h)
  /\ ~Pending(h)
  /\ ~Draining(h)
  /\ ~Active(h.life)

Recovers(h, expected) ==
  IF MayRecover(h)
  THEN [h EXCEPT !.recovery = [on |-> TRUE, expected |-> expected, attempt |-> 0]]
  ELSE h

\* A hearing that is opened again goes on to what the court still owes.
RecoveryEnds(h) ==
  LET g == [h EXCEPT !.recovery = NoRecovery, !.loading = FALSE] IN
  IF h.loading THEN [g EXCEPT !.busy = "continuation", !.sent = h.view] ELSE g

\* adoptRecoveredInterruptionResponse, and whether to ask once more
RecoveryAnswers(h, answer) ==
  LET r == h.recovery
      g == Publishes(h, answer.view, Adoption("interruption", r.expected, answer.view, answer))
  IN IF h.view # r.expected THEN RecoveryEnds(h)
     ELSE IF answer.pending /\ r.attempt = 0
     THEN [g EXCEPT !.recovery = [on |-> TRUE, expected |-> answer.view, attempt |-> 1]]
     ELSE RecoveryEnds(g)

\* The commit of a recording has returned: completeRecording, or the delivery
\* of a withdrawal, goes on.
Committed(h, u, ok) ==
  IF u = NoUtterance THEN h
  ELSE IF h.co.u = u /\ h.co.flight = "committing"
  THEN IF ok THEN Completed(h) ELSE FlightFails(h)
  ELSE IF h.rec.u = u /\ h.rec.complete = "commit"
  THEN LET g == [h EXCEPT !.rec = NoRecording]
       IN IF ~ok \/ h.rec.troubled THEN Recoverable(g)
          ELSE IF h.life = "fatal" THEN g
          ELSE [g EXCEPT !.life = "ready"]
  ELSE h

\* commitIntent, once its answer is here
CommandAnswers(h, version) ==
  LET g == [h EXCEPT !.busy = "no", !.kept = NoCommand]
  IN Committed(Publishes(g, version, Adoption("view", h.sent, version, NoAnswer)),
               IF h.kept.by = "voice" THEN h.kept.u ELSE NoUtterance, TRUE)

\* commitIntent, when its request has failed: the record is read again.
CommandFails(h, version, refreshed) ==
  LET g == [h EXCEPT !.busy = "no"]
      p == IF refreshed THEN Publishes(g, version, Adoption("view", h.sent, version, NoAnswer))
           ELSE g
  IN Committed(p, IF h.kept.by = "voice" THEN h.kept.u ELSE NoUtterance, FALSE)

ContinuationAnswers(h, version) ==
  LET g == [h EXCEPT !.busy = "no"] IN
  IF h.view # h.sent \/ version = h.sent THEN g
  ELSE Publishes(g, version, Adoption("view", h.sent, version, NoAnswer))
=============================================================================
