-------------------------- MODULE MicrophoneClient --------------------------
(***************************************************************************)
(* The browser's side of an utterance: the speech client                  *)
(* (lib/speech/client.ts), which accounts for the frames it has sent, and *)
(* what the hearing controller does with the microphone                   *)
(* (hearing-controller.ts).  Each handler is a function from the browser  *)
(* before to the browser after.                                           *)
(***************************************************************************)
EXTENDS UtteranceService, Functions

CONSTANT MaxFrames   \* how many frames the microphone may capture in all

ASSUME ClientAssumption == MaxFrames \in Nat \ {0}

SilentClient ==
  [state     |-> "ready",
   status    |-> [u \in Utterances |-> "none"],
   active    |-> Nobody,           \* activeUtteranceId
   sent      |-> [u \in Utterances |-> 0],
   debits    |-> {},               \* sttUnaccountedFrames
   watermark |-> [u \in Utterances |-> -1],
   available |-> InputFrames,      \* sttServerAvailableFrames
   recording |-> Nobody,           \* the utterance the controller records
   forwarding |-> FALSE,           \* frameForwarding
   outgoing  |-> <<>>]             \* sent, and not yet received by the service

Live == {"listening", "finalizing"}

Sending(b, messages) == [b EXCEPT !.outgoing = @ \o messages]

\* As EffectiveCredit, but it trusts the last credits it was told.
EffectiveCredit_Trusting(b) == b.available

\* recalculateEffectiveSttCredits
EffectiveCredit(b) ==
  IF b.available > Cardinality(b.debits) THEN b.available - Cardinality(b.debits) ELSE 0

\* startUtterance, of a new recording
UtteranceStarted(b, u) ==
  Sending([b EXCEPT !.status[u] = "listening", !.active = u,
                    !.recording = u, !.forwarding = TRUE],
          <<Event("start", u)>>)

\* cancelUtterance
UtteranceCancelled(b, u) ==
  IF b.status[u] \notin Live THEN b
  ELSE Sending([b EXCEPT !.status[u] = "cancelled",
                         !.active = IF @ = u THEN Nobody ELSE @],
               <<Event("cancel", u)>>)

\* failRecording
RecordingFailed(b) ==
  UtteranceCancelled([b EXCEPT !.recording = Nobody, !.forwarding = FALSE], b.recording)

\* handleCaptureFrame and sendPcmFrame: a frame is sent if there is credit for it
FrameCaptured(b) ==
  LET u == b.recording
      n == b.sent[u]
  IN  IF EffectiveCredit(b) < 1 THEN RecordingFailed(b)
      ELSE Sending([b EXCEPT !.debits = @ \cup {<<u, n>>}, !.sent[u] = n + 1],
                   <<[kind |-> "header", id |-> u, sequence |-> n], Event("binary", u)>>)

\* stopRecording, and endUtterance once the capture has stopped
UtteranceEnded(b) ==
  Sending([b EXCEPT !.status[b.recording] = "finalizing", !.forwarding = FALSE],
          <<Event("end", b.recording)>>)

\* the transport is gone: resetSessionState and handleDisconnect
Disconnected(state) == [SilentClient EXCEPT !.state = state, !.available = 0]

-----------------------------------------------------------------------------
(* What the service says.                                                  *)

\* applyFlowControl
FlowApplied(b, e) ==
  IF e.id = Nobody THEN [b EXCEPT !.available = e.available]
  ELSE IF \/ b.status[e.id] = "none"
          \/ e.through >= b.sent[e.id]
          \/ e.through < b.watermark[e.id]
    THEN Disconnected("aborted")
  ELSE [b EXCEPT !.debits = {d \in @ : d[1] # e.id \/ d[2] > e.through},
                 !.watermark[e.id] = e.through,
                 !.available = e.available]

\* acceptTranscript, of a final, and handleFinal
FinalHeard(b, u) ==
  IF b.active # u \/ b.status[u] \notin Live THEN b
  ELSE [b EXCEPT !.status[u] = "final", !.active = Nobody,
                 !.recording = IF @ = u THEN Nobody ELSE @,
                 !.forwarding = @ /\ b.recording # u]

\* the client marks the utterance over for a reason of the service's
MarkedOver(b, u, status, over) ==
  IF b.status[u] \in over THEN b
  ELSE [b EXCEPT !.status[u] = status, !.active = IF @ = u THEN Nobody ELSE @]

\* acceptCancellation and handleCancellation
CancellationHeard(b, u) ==
  LET c == MarkedOver(b, u, "cancelled", {"final"})
  IN  IF b.recording = u THEN RecordingFailed(c) ELSE c

\* acceptServiceError and handleServiceFailure; an error without an id is about
\* whatever is recorded
ErrorHeard(b, u) ==
  LET c == IF u = Nobody THEN b ELSE MarkedOver(b, u, "failed", {"final"})
  IN  IF b.recording # Nobody /\ u \in {Nobody, b.recording} THEN RecordingFailed(c) ELSE c

Heard(b, e) ==
  CASE e.kind = "flow"      -> FlowApplied(b, e)
    [] e.kind = "final"     -> FinalHeard(b, e.id)
    [] e.kind = "ended"     -> MarkedOver(b, e.id, "cancelled", {"final", "cancelled", "failed"})
    [] e.kind = "cancelled" -> CancellationHeard(b, e.id)
    [] e.kind = "error"     -> ErrorHeard(b, e.id)
    [] e.kind = "partial"   -> b
=============================================================================
