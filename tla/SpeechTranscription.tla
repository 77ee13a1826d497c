------------------------ MODULE SpeechTranscription -------------------------
(***************************************************************************)
(* A connection of the browser to the speech service as it listens:       *)
(* MicrophoneClient and UtteranceService over the two directions of a     *)
(* WebSocket, each in order.  The recognizer of the provider, the silence *)
(* that ends an utterance, clocks and the connection are nondeterministic.*)
(***************************************************************************)
EXTENDS MicrophoneClient

CONSTANT MaxFaults   \* how often the provider, a deadline or the connection may fail

VARIABLES service, browser,
          told,    \* whether the service has sent the end of an utterance, or more
          faults

vars == <<service, browser, told, faults>>

Init ==
  /\ service = SilentService
  /\ browser = SilentClient
  /\ told = [u \in Utterances |-> "open"]
  /\ faults = 0

Fault == faults < MaxFaults /\ faults' = faults + 1

Ends(batch) ==
  \E i \in DOMAIN batch.events : batch.events[i].kind \in {"final", "cancelled"}

\* A batch of the utterance is out.  The answer to one more cancellation of what
\* is over is not a batch of it.
Told(batch) ==
  [told EXCEPT ![batch.id] =
     IF @ # "open" THEN "late" ELSE IF Ends(batch) THEN "ended" ELSE @]

-----------------------------------------------------------------------------
(* The browser.                                                            *)

Ready == browser.state = "ready"

StartRecording ==
  /\ Ready
  /\ browser.recording = Nobody
  /\ browser.active = Nobody
  /\ \E u \in Utterances :
       /\ browser.status[u] = "none"
       /\ \A v \in 1 .. u - 1 : browser.status[v] # "none"
       /\ browser' = UtteranceStarted(browser, u)
  /\ UNCHANGED <<service, told, faults>>

CaptureFrame ==
  /\ Ready
  /\ browser.forwarding
  /\ FoldFunction(+, 0, browser.sent) < MaxFrames
  /\ browser' = FrameCaptured(browser)
  /\ UNCHANGED <<service, told, faults>>

StopRecording ==
  /\ Ready
  /\ browser.forwarding
  /\ browser' = UtteranceEnded(browser)
  /\ UNCHANGED <<service, told, faults>>

FinalTimesOut ==
  /\ Ready
  /\ browser.recording # Nobody
  /\ browser.status[browser.recording] = "finalizing"
  /\ browser' = RecordingFailed(browser)
  /\ Fault
  /\ UNCHANGED <<service, told>>

HearEvent ==
  /\ Ready
  /\ service.outgoing # <<>>
  /\ browser' = Heard(browser, Head(service.outgoing))
  /\ service' = [service EXCEPT !.outgoing = Tail(@)]
  /\ UNCHANGED <<told, faults>>

-----------------------------------------------------------------------------
(* The service.                                                            *)

Serve(after)  == service' = PlainSent(after) /\ UNCHANGED <<browser, told, faults>>
Faulty(after) == service' = PlainSent(after) /\ Fault /\ UNCHANGED <<browser, told>>

Handled(m) ==
  CASE m.kind = "start"  -> StartRequested(service, m.id)
    [] m.kind = "header" -> HeaderAccepted(service, m.id, m.sequence)
    [] m.kind = "binary" -> BinaryAccepted(service)
    [] m.kind = "end"    -> EndRequested(service, m.id)
    [] m.kind = "cancel" -> Cancelled(service, m.id)

Receive ==
  /\ Receives(service)
  /\ browser.outgoing # <<>>
  /\ service' = PlainSent(Handled(Head(browser.outgoing)))
  /\ browser' = [browser EXCEPT !.outgoing = Tail(@)]
  /\ UNCHANGED <<told, faults>>

CreateRecognizer ==
  /\ service.creating # Nobody
  /\ service.lane = Nobody
  /\ Serve(Adopted(service, service.creating))

\* the provider refuses a second session while its lane is taken
FailCreation ==
  /\ service.creating # Nobody
  /\ LET refused == CreationFailed(service, service.creating)
     IN  IF service.lane # Nobody THEN Serve(refused) ELSE Faulty(refused)

AbandonCreation ==
  /\ service.creating # Nobody
  /\ Faulty(CreationAbandoned(service, service.creating))

DisposeAbandoned ==
  \E u \in Utterances :
    /\ service.session[u] = "abandoned"
    /\ Serve(AbandonedCreated(service, u))

TakeFrame ==
  /\ WorkerIsFree(service)
  /\ service.frames # <<>>
  /\ Serve(FrameTaken(service))

HearFrame ==
  /\ service.worker # NoFrame
  /\ \E silence \in BOOLEAN : Serve(FrameHeard(service, silence))

FailFrame ==
  /\ service.worker # NoFrame
  /\ Faulty(FrameFailed(service))

\* _finalize_utterance: the recognizer answers
Finish ==
  \E u \in Utterances :
    /\ service.utterance[u].finalizer = "running"
    /\ \/ Serve(Finalized(FinishOver(service, u, FALSE), u))
       \/ Faulty(FinalizeFailed(FinishOver(service, u, FALSE), u))
       \/ Faulty(FinalizeFailed(FinishOver(service, u, TRUE), u))

\* it does not within its 30 s, and is left to itself
GiveUpFinish ==
  \E u \in Utterances :
    /\ service.utterance[u].finalizer = "running"
    /\ Faulty(FinalizeFailed([service EXCEPT !.utterance[u].finalizer = "late"],
                             u))

LateFinish ==
  \E u \in Utterances :
    /\ service.utterance[u].finalizer = "late"
    /\ Serve(FinishOver(service, u, FALSE))

\* _watch_utterance_idle
IdleExpires ==
  /\ service.active # Nobody
  /\ IsCurrent(service, service.active)
  /\ service.utterance[service.active].pending = 0
  /\ Serve(Failed(service, service.active, "idle"))

Release ==
  \E u \in Utterances : MayRelease(service, u) /\ Serve(Released(service, u))

\* the outbound task
TakeBatch ==
  /\ service.current = NoBatch
  /\ service.outbound # <<>>
  /\ Serve(BatchTaken(service))

SendBatch ==
  /\ service.current # NoBatch
  /\ service' = PlainSent(BatchSent(service))
  /\ told' = IF service.closed THEN told ELSE Told(service.current)
  /\ UNCHANGED <<browser, faults>>

DropBatch ==
  /\ service.current.cut
  /\ Serve(BatchDropped(service))

\* a cancellation that waited for the batch goes on
Resume ==
  \E u \in Utterances :
    /\ service.fence[u] # "none"
    /\ service.current.id # u
    /\ Serve(EndCancel(service, u))

HangUp ==
  /\ Ready \/ browser.state = "aborted"
  /\ ~service.closed
  /\ service' = ShutDown(service)
  /\ browser' = Disconnected("closed")
  /\ Fault
  /\ UNCHANGED told

-----------------------------------------------------------------------------
Client ==
  StartRecording \/ CaptureFrame \/ StopRecording \/ FinalTimesOut

Provider ==
  \/ CreateRecognizer \/ FailCreation \/ AbandonCreation \/ DisposeAbandoned
  \/ HearFrame \/ FailFrame \/ Finish \/ GiveUpFinish \/ LateFinish \/ Release

Tasks == Receive \/ TakeFrame \/ IdleExpires \/ TakeBatch \/ SendBatch \/ DropBatch \/ Resume

Next == Client \/ HearEvent \/ Provider \/ Tasks \/ HangUp

Spec == Init /\ [][Next]_vars

-----------------------------------------------------------------------------
(* What is checked.                                                        *)

\* Once the service has sent the end of an utterance it sends nothing more of
\* it: no transcript after a cancellation that raced with its finalizer or with
\* a frame at the recognizer, no second final (_purge_outbound and the checks
\* of _utterance_is_current).
OutputIsFenced == \A u \in Utterances : told[u] # "late"

\* The final transcript of an utterance is of all its audio that was accepted,
\* and of all the browser has sent if it was the browser that ended it
\* (_request_finalize_locked, _stt_worker).
FinalIsOfAllAudio ==
  \A u \in Utterances :
    LET utterance == service.utterance[u]
    IN  service.terminal[u] = "final" =>
          /\ utterance.heard = utterance.next
          /\ utterance.reason = "client_end" /\ Ready => utterance.next = browser.sent[u]

\* The browser never sends a frame the service has no room for, however late
\* the credits are it counts with, and never takes the credits it is told for
\* impossible (recalculateEffectiveSttCredits, InputCreditWindow).
CreditIsHonoured == ~service.overrun /\ browser.state # "aborted"

\* A recognizer of the process is not given to another while the provider still
\* works for the utterance that held it (_release_if_safe_locked).
WorkHoldsRecognizer ==
  \A u \in Utterances :
    \/ service.worker[1] = u /\ ~service.closed
    \/ service.utterance[u].finalizer \in {"running", "late"}
    => u \in service.leases

\* Everything the browser will yet hear of, if the connection stays
ToBeHeard(s) ==
  Range(s.outgoing)
    \cup (IF s.current.cut THEN {} ELSE Range(s.current.events))
    \cup UNION {Range(batch.events) : batch \in Range(s.outbound)}

IsAnswered(s, u) == \E kind \in {"final", "cancelled", "error"} : Event(kind, u) \in ToBeHeard(s)

\* The finalizer of u runs, or a frame is still to be heard before it does.
IsFinalizing(s, u) ==
  /\ s.active = u
  /\ s.utterance[u].status = "finalizing"
  /\ \/ s.utterance[u].finalizer = "running"
     \/ s.worker[1] = u
     \/ \E i \in DOMAIN s.frames : s.frames[i][1] = u

\* A recording that the player has ended is never forgotten: as long as the
\* player waits, its end is on the way to the service, or the service is at it,
\* or an answer is on the way back.  Since every step uses up something, the
\* player is told in the end, without the deadline of the browser.
EndIsUnderWay ==
  Ready /\ browser.recording # Nobody /\ ~browser.forwarding
  => \/ Event("end", browser.recording) \in Range(browser.outgoing)
     \/ IsFinalizing(service, browser.recording)
     \/ IsAnswered(service, browser.recording)

-----------------------------------------------------------------------------
(* Said of the program, and not so.                                        *)

\* docs/LOCAL_SPEECH.md: a browser may send end_utterance, or allow the service
\* to end the utterance after the silence.  An utterance the service ends is
\* not failed by the frames of a microphone nobody has told of it.
SilenceEndsUtterance ==
  \A u \in Utterances :
    /\ service.utterance[u].reason = "vad_end"
    /\ service.utterance[u].finalizer = "running"
    => browser.status[u] # "failed"

-----------------------------------------------------------------------------
\* A bound for TLC: one utterance has all frames, several have one less together.
FewFrames ==
  (\E u \in Utterances \ {1} : browser.status[u] # "none")
  => FoldFunction(+, 0, browser.sent) < MaxFrames
=============================================================================
