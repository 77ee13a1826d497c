-------------------------- MODULE UtteranceService --------------------------
(***************************************************************************)
(* How one connection of the speech service listens                       *)
(* (suits_speech/session.py): the receive loop, the recognition task, the *)
(* finalizers, the idle watch and the outbound task share the state below;*)
(* a section under its locks never gives up the event loop, so each       *)
(* method is a function from the service before to the service after, and *)
(* is cut in two where it waits.  A recognizer is held through a lease of *)
(* the process (health.py, capacity.py) and takes the one lane of the     *)
(* provider (providers/nemotron.py).                                      *)
(*                                                                         *)
(* All frames are of one length, the unit of credit.  What a recognizer   *)
(* makes of the audio, and the silence that ends an utterance, are left   *)
(* to the steps that use them.                                            *)
(***************************************************************************)
EXTENDS Integers, Sequences, FiniteSets

CONSTANTS MaxUtterances,   \* how many utterances a connection may start
          InputFrames,     \* stt_input_max_frames
          UtteranceLimit,  \* stt_max_utterance_ms, in frames
          Recognizers      \* max_stt_sessions

ASSUME ServiceAssumption ==
  /\ MaxUtterances \in Nat \ {0}
  /\ InputFrames \in Nat \ {0}
  /\ UtteranceLimit \in Nat \ {0}
  /\ Recognizers \in Nat \ {0}

Utterances == 1 .. MaxUtterances
Nobody     == 0
NoFrame    == <<Nobody, -1>>
NoBatch    == [id |-> Nobody, events |-> <<>>, cut |-> FALSE]

Fresh == [status |-> "none", next |-> 0, pending |-> 0, heard |-> 0,
          reason |-> "none", finalizer |-> "none"]

SilentService ==
  [closed    |-> FALSE,
   active    |-> Nobody,
   utterance |-> [u \in Utterances |-> Fresh],
   terminal  |-> [u \in Utterances |-> "none"],
   header    |-> NoFrame,          \* _pending_audio_header
   frames    |-> <<>>,             \* _stt_frames
   reserved  |-> {},               \* _input_credits
   credited  |-> Nobody,           \* _stt_credit_utterance_id
   through   |-> -1,               \* _stt_accepted_through_sequence
   worker    |-> NoFrame,          \* the frame the recognition task is at
   creating  |-> Nobody,           \* the start the receive loop is at
   fence     |-> [u \in Utterances |-> "none"],  \* the task that waits to cancel it
   outbound  |-> <<>>,
   current   |-> NoBatch,          \* _outbound_current
   leases    |-> {},               \* the recognizers of the process taken
   lane      |-> Nobody,           \* _active_session_token of the provider
   session   |-> [u \in Utterances |-> "none"],
   overrun   |-> FALSE,            \* a frame was sent without credit for it
   outgoing  |-> <<>>]             \* sent, and not yet received by the browser

\* The entries of a queue at some of its places, in their order
Kept(queue, places) ==
  LET at(k) == CHOOSE i \in places : Cardinality({j \in places : j < i}) = k - 1
  IN  [k \in 1 .. Cardinality(places) |-> queue[at(k)]]

\* What is left of the frames, and of the batches, when those of u go
FramesWithout(frames, u) == Kept(frames, {i \in 1 .. Len(frames) : frames[i][1] # u})
Purged(outbound, u)      == Kept(outbound, {i \in 1 .. Len(outbound) : outbound[i].id # u})

Listening(s, u)  == s.active = u /\ s.utterance[u].status = "listening"
IsCurrent(s, u)  == s.active = u /\ s.utterance[u].status \in {"listening", "finalizing"}

-----------------------------------------------------------------------------
\* _queue_event_batch, with the utterance the batch is about or Nobody
Queued(s, u, events) ==
  IF s.closed THEN s
  ELSE [s EXCEPT !.outbound = Append(@, [id |-> u, events |-> events, cut |-> FALSE])]

Event(kind, u) == [kind |-> kind, id |-> u]

\* _send_error; the codes are named where it is called
Refused(s, u) == Queued(s, Nobody, <<Event("error", u)>>)

\* _send_flow_control: the credits there are, and the frames accepted so far
FlowSent(s) ==
  Queued(s, Nobody, <<[kind |-> "flow", id |-> s.credited, through |-> s.through,
                       available |-> InputFrames - Cardinality(s.reserved)]>>)

\* cancel of a leased session: the provider is told once, and only if the
\* session has not finished
Disposed(s, u) ==
  IF s.session[u] = "open" THEN [s EXCEPT !.session[u] = "cancelling"] ELSE s

\* _cancel_active_utterance after its fence: frames, credits, recognizer
EndCancel(s, u) ==
  FlowSent(Disposed([s EXCEPT !.frames   = FramesWithout(@, u),
                              !.reserved = {f \in @ : f[1] # u},
                              !.fence[u] = "none"], u))

\* As CancelActive, but what is queued of the utterance is purged last.
CancelActive_PurgesLast(s, u, task, errors) ==
  LET fenced == s.current.id = u
      ended  == [s EXCEPT !.active = Nobody,
                          !.utterance[u].status = "cancelled",
                          !.terminal[u] = "cancelled",
                          !.header = IF @[1] = u THEN NoFrame ELSE @,
                          !.current.cut = @ \/ fenced,
                          !.fence[u] = IF fenced THEN task ELSE "none"]
      told   == Queued(ended, u, errors \o <<Event("ended", u), Event("cancelled", u)>>)
      purged == [told EXCEPT !.outbound = Purged(@, u)]
  IN  IF fenced THEN purged ELSE EndCancel(purged, u)

\* _cancel_active_utterance, called by a task on the active utterance: nothing
\* more is sent of it but its end, and a batch of it under way is waited for
CancelActive(s, u, task, errors) ==
  LET fenced == s.current.id = u
      ended  == [s EXCEPT !.active = Nobody,
                          !.utterance[u].status = "cancelled",
                          !.terminal[u] = "cancelled",
                          !.header = IF @[1] = u THEN NoFrame ELSE @,
                          !.outbound = Purged(@, u),
                          !.current.cut = @ \/ fenced,
                          !.fence[u] = IF fenced THEN task ELSE "none"]
      told   == Queued(ended, u, errors \o <<Event("ended", u), Event("cancelled", u)>>)
  IN  IF fenced THEN told ELSE EndCancel(told, u)

Failed(s, u, task) == CancelActive(s, u, task, <<Event("error", u)>>)

\* the browser's cancel_utterance
Cancelled(s, u) ==
  IF s.active = u THEN CancelActive(s, u, "receive", <<>>)
  ELSE IF s.terminal[u] = "final" THEN Refused(s, u)
  ELSE IF s.terminal[u] # "none" THEN Queued(s, Nobody, <<Event("cancelled", u)>>)
  ELSE Refused(s, u)

-----------------------------------------------------------------------------
(* The receive loop.                                                       *)

\* The receive loop handles one packet after the other.
Receives(s) ==
  /\ ~s.closed
  /\ s.creating = Nobody
  /\ \A u \in Utterances : s.fence[u] # "receive"

\* _start_utterance up to the recognizer it asks for
StartRequested(s, u) ==
  IF s.active # Nobody THEN Refused(s, u)
  ELSE IF Cardinality(s.leases) >= Recognizers THEN Refused(s, u)
  ELSE [s EXCEPT !.creating = u, !.leases = @ \cup {u}, !.session[u] = "creating"]

\* the rest of _start_utterance, with the recognizer
Adopted(s, u) ==
  [s EXCEPT !.creating = Nobody,
            !.session[u] = "open",
            !.lane = u,
            !.active = u,
            !.utterance[u].status = "listening",
            !.credited = u,
            !.through = -1]

\* create_stt_session raised: the provider failed, or its lane is taken
CreationFailed(s, u) ==
  Refused([s EXCEPT !.creating = Nobody, !.session[u] = "released", !.leases = @ \ {u}],
          u)

\* the recognizer takes longer than wait_for does
CreationAbandoned(s, u) ==
  Refused([s EXCEPT !.creating = Nobody, !.session[u] = "abandoned"], u)

\* _dispose_abandoned_stt_creation
AbandonedCreated(s, u) ==
  [s EXCEPT !.session[u] = "released", !.leases = @ \ {u}]

\* _accept_audio_header
HeaderAccepted(s, u, n) ==
  IF ~Listening(s, u) THEN Refused(s, u)
  ELSE IF n # s.utterance[u].next THEN Failed(s, u, "receive")
  ELSE [s EXCEPT !.header = <<u, n>>]

FrameAccepted(s, u, n) ==
  FlowSent([s EXCEPT !.reserved = @ \cup {<<u, n>>},
                     !.frames = Append(@, <<u, n>>),
                     !.utterance[u].next = @ + 1,
                     !.utterance[u].pending = @ + 1,
                     !.through = n])

\* _handle_binary
BinaryAccepted(s) ==
  LET u == s.header[1]
      n == s.header[2]
      t == [s EXCEPT !.header = NoFrame]
  IN  IF u = Nobody /\ s.active # Nobody
        THEN Failed(t, s.active, "receive")
      ELSE IF u = Nobody THEN Refused(t, Nobody)
      ELSE IF ~IsCurrent(s, u) \/ s.utterance[u].next # n
        THEN Refused(t, u)
      ELSE IF n + 1 > UtteranceLimit THEN Failed(t, u, "receive")
      ELSE IF Cardinality(s.reserved) >= InputFrames
        THEN Failed([t EXCEPT !.overrun = TRUE], u, "receive")
      ELSE FrameAccepted(t, u, n)

-----------------------------------------------------------------------------
(* The end of an utterance.                                                *)

\* As FinalizerSpawned, but without a look at the frames still to be heard.
FinalizerSpawned_Early(s, u) ==
  IF /\ s.utterance[u].status = "finalizing"
     /\ s.utterance[u].finalizer = "none"
     /\ s.header[1] # u
  THEN [s EXCEPT !.utterance[u].finalizer = "running"]
  ELSE s

\* _spawn_finalizer_locked, where its callers' conditions hold: all accepted
\* frames are heard, and none is between its header and its audio
FinalizerSpawned(s, u) ==
  IF /\ s.utterance[u].status = "finalizing"
     /\ s.utterance[u].pending = 0
     /\ s.utterance[u].finalizer = "none"
     /\ s.header[1] # u
  THEN [s EXCEPT !.utterance[u].finalizer = "running"]
  ELSE s

\* _request_finalize_locked
FinalizeRequested(s, u, reason) ==
  FinalizerSpawned(
    IF s.utterance[u].status = "listening"
    THEN [s EXCEPT !.utterance[u].status = "finalizing", !.utterance[u].reason = reason]
    ELSE s, u)

\* _end_utterance
EndRequested(s, u) ==
  IF s.active # u THEN Refused(s, u)
  ELSE FinalizeRequested(s, u, "client_end")

\* finish of a leased session is over: a session that was not cancelled
\* meanwhile gives its lease back.  If the provider raised, it keeps its lane.
FinishOver(s, u, raised) ==
  LET over == [s EXCEPT !.utterance[u].finalizer = "done",
                        !.lane = IF @ = u /\ ~raised THEN Nobody ELSE @]
  IN  IF s.session[u] = "open"
      THEN [over EXCEPT !.session[u] = "released", !.leases = @ \ {u}]
      ELSE over

\* the rest of _finalize_utterance
FinalCommitted(s, u) ==
  Queued([s EXCEPT !.active = Nobody, !.utterance[u].status = "final", !.terminal[u] = "final"],
         u, <<Event("final", u), Event("ended", u)>>)

\* As Finalized, but without a second look at the utterance.
Finalized_Stale(s, u) == FinalCommitted(s, u)

Finalized(s, u) == IF IsCurrent(s, u) THEN FinalCommitted(s, u) ELSE s

FinalizeFailed(s, u) ==
  IF s.active = u THEN Failed(s, u, "finalizer") ELSE s

-----------------------------------------------------------------------------
(* The recognition task, and the recognizers.                              *)

WorkerIsFree(s) == s.worker = NoFrame /\ \A u \in Utterances : s.fence[u] # "worker"

\* what _stt_worker does with every frame in the end
FrameDone(s, f) ==
  [s EXCEPT !.worker = NoFrame, !.reserved = @ \ {f}, !.utterance[f[1]].pending = @ - 1]

\* _stt_worker takes a frame; one of an utterance that is over is only given back
FrameTaken(s) ==
  LET f    == Head(s.frames)
      rest == [s EXCEPT !.frames = Tail(@)]
  IN  IF IsCurrent(s, f[1]) THEN [rest EXCEPT !.worker = f] ELSE FlowSent(FrameDone(rest, f))

\* push_audio has returned.  The first frame makes a partial transcript, which
\* the later ones do not change; any frame may end the utterance by its silence.
FrameHeard(s, silence) ==
  LET f    == s.worker
      u    == f[1]
      told == IF IsCurrent(s, u) /\ s.utterance[u].heard = 0
              THEN Queued(s, u, <<Event("partial", u)>>)
              ELSE s
      done == [FrameDone(told, f) EXCEPT !.utterance[u].heard = @ + 1]
  IN  FlowSent(IF s.active # u THEN done
               ELSE IF silence THEN FinalizeRequested(done, u, "vad_end")
               ELSE FinalizerSpawned(done, u))

\* push_audio has raised
FrameFailed(s) ==
  LET u == s.worker[1]
      t == FrameDone(s, s.worker)
  IN  IF s.active = u THEN Failed(t, u, "worker") ELSE t

\* As MayRelease, but without regard to a finish that was given up.
MayRelease_Early(s, u) == s.session[u] = "cancelling" /\ s.worker[1] # u

\* cancel of a leased session can end once no call of it is under way
MayRelease(s, u) ==
  /\ s.session[u] = "cancelling"
  /\ s.worker[1] # u
  /\ s.utterance[u].finalizer \notin {"running", "late"}

Released(s, u) ==
  [s EXCEPT !.session[u] = "released",
            !.lane = IF @ = u THEN Nobody ELSE @,
            !.leases = @ \ {u}]

-----------------------------------------------------------------------------
(* The outbound task, and the end of the connection.                       *)

\* A batch that is about no utterance is of one event and is never cut, so it is
\* taken to be sent as soon as its turn comes.
PlainSent(s) ==
  LET scoped == {i \in 1 .. Len(s.outbound) : s.outbound[i].id # Nobody}
      plain  == IF s.current # NoBatch THEN 0
                ELSE IF scoped = {} THEN Len(s.outbound)
                ELSE (CHOOSE i \in scoped : \A j \in scoped : i <= j) - 1
  IN  [s EXCEPT !.outgoing = @ \o [i \in 1 .. plain |-> s.outbound[i].events[1]],
                !.outbound = SubSeq(@, plain + 1, Len(@))]

BatchTaken(s) == [s EXCEPT !.current = Head(s.outbound), !.outbound = Tail(@)]

BatchSent(s) ==
  [s EXCEPT !.outgoing = IF s.closed THEN @ ELSE @ \o s.current.events, !.current = NoBatch]

BatchDropped(s) == [s EXCEPT !.current = NoBatch]

\* _shutdown.  The idle watch is a task it cancels wherever it is; the others
\* that wait for a fence go on once the batch is over.
ShutDown(s) ==
  LET u       == s.active
      halted  == [s EXCEPT !.closed = TRUE,
                           !.active = Nobody,
                           !.header = NoFrame,
                           !.frames = <<>>,
                           !.reserved = {},
                           !.outbound = <<>>,
                           !.current.cut = TRUE,
                           !.outgoing = <<>>,
                           !.creating = Nobody,
                           !.fence = [x \in Utterances |->
                                        IF @[x] = "idle" THEN "none" ELSE @[x]]]
      starting == IF s.creating = Nobody THEN halted
                  ELSE [halted EXCEPT !.session[s.creating] = "abandoned"]
  IN  IF u = Nobody THEN starting
      ELSE Disposed([starting EXCEPT !.utterance[u].status = "cancelled"], u)
=============================================================================
