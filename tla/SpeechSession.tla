--------------------------- MODULE SpeechSession ----------------------------
(***************************************************************************)
(* How one session of the speech service speaks (suits_speech/session.py):*)
(* the receive task, which takes the browser's controls, the synthesis    *)
(* task, which speaks one phrase after the other, and the outbound task,  *)
(* which alone writes to the socket; over the phrase queue, the window of *)
(* unconsumed audio, and the lane it shares with the other sessions.      *)
(*                                                                         *)
(* A step is what a task does without giving up the event loop.  Batches  *)
(* without a phrase to them (errors, flow control) are left out.          *)
(***************************************************************************)
EXTENDS PhraseQueue, AckWindow, TtsLane

CONSTANTS Me,        \* this session's synthesis task
          Clips,     \* the jobs that play a cached clip
          MaxFrames  \* how many frames a phrase may have

ASSUME SessionAssumption ==
  /\ Me \in Callers
  /\ Clips \subseteq Jobs
  /\ MaxFrames \in Nat \ {0}
  /\ Frames = Jobs \X (1 .. MaxFrames)

VARIABLES
  queue,       \* PhraseQueue
  window,      \* TtsAckWindow
  worker,      \* the synthesis task
  outbound,    \* the batches to be sent
  sending,     \* the batch that is being sent
  cancelling,  \* the browser's cancellation that waits for a batch to be over
  told,        \* the jobs the browser has been told are cancelled
  heard,       \* the frames the browser has been sent
  session

speechVars == <<queue, window, worker, outbound, sending, cancelling, told, heard, session>>

vars == <<speechVars, laneVars>>

Scoped == {"started", "audio", "finished"}

Batch(kind, jobs, frame) ==
  [kind |-> kind, jobs |-> jobs, frame |-> frame, stage |-> "first", cancelled |-> FALSE]

NoBatch    == Batch("none", {}, 0)
IdleWorker == [at |-> "next", frame |-> 0, frames |-> 0, sent |-> "none"]
NoCancel   == [on |-> FALSE, jobs |-> {}, fenced |-> FALSE]

Init ==
  /\ LaneInit
  /\ queue = EmptyQueue
  /\ window = EmptyWindow
  /\ worker = IdleWorker
  /\ outbound = <<>>
  /\ sending = NoBatch
  /\ cancelling = NoCancel
  /\ told = {}
  /\ heard = {}
  /\ session = "open"

Job == queue.lease.job

FramesOf(jobs) == {f \in Frames : f[1] \in jobs}

\* _enqueue_outbound
Queued(batches, batch) ==
  IF session = "closed" THEN batches ELSE Append(batches, batch)

-----------------------------------------------------------------------------
(***************************************************************************)
(* _cancel_synthesis_scope: nothing more is sent of what is cancelled;    *)
(* once the batch under way is over, the browser is told.                 *)
(***************************************************************************)
Hit(jobs) == {j \in jobs : queue.entry[j] \in Live}

Concerns(batch, jobs) == batch.kind \in Scoped /\ batch.jobs \cap jobs # {}

Purged(jobs) ==
  Kept(outbound, {i \in 1 .. Len(outbound) : ~Concerns(outbound[i], jobs)})

WaitsFor(jobs) ==
  worker.sent = "pending" /\ \E b \in ToSet(outbound) : b.kind = "audio" /\ Concerns(b, jobs)

Announced(batches, jobs) ==
  IF jobs = {} THEN batches ELSE Queued(batches, Batch("cancelled", jobs, 0))

Fenced(jobs) == Concerns(sending, jobs)

SignalsLane(jobs) ==
  cancelled' = IF Job \in jobs /\ ~In(Me, "idle") THEN cancelled \cup {Me} ELSE cancelled

\* What a cancellation that need not wait does at once.
TellsBrowser(batches, jobs) ==
  /\ window' = ReturnAll(window, FramesOf(jobs))
  /\ outbound' = Announced(batches, jobs)

-----------------------------------------------------------------------------
(***************************************************************************)
(* The receive task                                                       *)
(***************************************************************************)
Receiving == session # "closed" /\ ~cancelling.on

Submits(j) ==
  /\ Receiving
  /\ j \notin Clips => ~lane.quarantined
  /\ MayEnqueue(queue, j)
  /\ queue' = Enqueue(queue, j)
  /\ UNCHANGED <<window, worker, outbound, sending, cancelling, told, heard, session, laneVars>>

CancelsScope(jobs, closing) ==
  /\ Receiving
  /\ queue' = CancelJobs(queue, jobs, closing)
  /\ worker' = [worker EXCEPT !.sent = IF WaitsFor(Hit(jobs)) THEN "no" ELSE @]
  /\ IF Fenced(Hit(jobs))
       THEN /\ sending' = [sending EXCEPT !.cancelled = TRUE]
            /\ cancelling' = [on |-> TRUE, jobs |-> Hit(jobs), fenced |-> TRUE]
            /\ outbound' = Purged(Hit(jobs))
            /\ UNCHANGED window
       ELSE /\ TellsBrowser(Purged(Hit(jobs)), Hit(jobs))
            /\ UNCHANGED <<sending, cancelling>>
  /\ SignalsLane(Hit(jobs))
  /\ UNCHANGED <<told, heard, session, lane, call, provider>>

BrowserCancels ==
  \/ \E j \in Jobs : CancelsScope({j}, {})
  \/ \E r \in Responses : CancelsScope({j \in Jobs : ResponseOf[j] = r}, {r})
  \/ CancelsScope(Jobs, LiveResponses(queue))

\* The fence is over, or so late that the connection is closed.
FenceOver ==
  /\ cancelling.on
  /\ session' = IF cancelling.fenced /\ session = "open" THEN "failing" ELSE session
  /\ TellsBrowser(outbound, cancelling.jobs)
  /\ cancelling' = NoCancel
  /\ UNCHANGED <<queue, worker, sending, told, heard, laneVars>>

Acks(f) ==
  /\ Receiving
  /\ f \in heard
  /\ window' = Acknowledge(window, f)
  /\ UNCHANGED <<queue, worker, outbound, sending, cancelling, told, heard, session, laneVars>>

-----------------------------------------------------------------------------
(***************************************************************************)
(* The synthesis task                                                     *)
(***************************************************************************)
\* The phrase is ready, or the job was cancelled meanwhile.
StartsStreaming(q, j, frames) ==
  IF MayStream(q, j)
    THEN /\ queue' = MarkStreaming(q, j)
         /\ worker' = [IdleWorker EXCEPT !.at = "reserve", !.frame = 1, !.frames = frames]
         /\ outbound' = Queued(outbound, Batch("started", {j}, 0))
         /\ UNCHANGED window
    ELSE /\ queue' = Finish(q)
         /\ worker' = IdleWorker
         /\ window' = ReturnAll(window, FramesOf({j}))
         /\ UNCHANGED outbound

TakesJob ==
  /\ worker.at = "next"
  /\ HasNext(queue)
  /\ IF NextJob(queue) \in Clips
       THEN /\ \E frames \in 1 .. MaxFrames :
                 StartsStreaming(Take(queue), NextJob(queue), frames)
            /\ UNCHANGED laneVars
       ELSE /\ queue' = Take(queue)
            /\ worker' = [worker EXCEPT !.at = "synthesizing"]
            /\ Synthesizes(Me)
            /\ UNCHANGED <<window, outbound>>
  /\ UNCHANGED <<sending, cancelling, told, heard, session>>

PhraseReady ==
  /\ worker.at = "synthesizing"
  /\ call[Me].why = "phrase"
  /\ TakesOutcome(Me)
  /\ \E frames \in 1 .. MaxFrames : StartsStreaming(queue, Job, frames)
  /\ UNCHANGED <<sending, cancelling, told, heard, session>>

\* The job's credit is returned and the lane of the queue is free.
GivesUp ==
  /\ queue' = Finish(queue)
  /\ worker' = IdleWorker
  /\ window' = ReturnAll(window, FramesOf({Job}))
  /\ UNCHANGED <<outbound, sending, cancelling, told, heard, session>>

\* The rest of the response is cancelled with the job.  There is no batch of
\* it under way then: the task waits for the batches it sends.
Fails ==
  LET r    == ResponseOf[Job]
      jobs == Hit({j \in Jobs : ResponseOf[j] = r})
  IN
  /\ TellsBrowser(Purged(jobs), jobs)
  /\ queue' = Finish(CancelJobs(queue, jobs, {r}))
  /\ worker' = IdleWorker
  /\ UNCHANGED <<sending, cancelling, told, heard, session>>

NoPhrase ==
  /\ worker.at = "synthesizing"
  /\ In(Me, "over")
  /\ call[Me].why # "phrase"
  /\ TakesOutcome(Me)
  /\ IF Current(queue, Job) /\ call[Me].why # "aborted" THEN Fails ELSE GivesUp

\* _stream_phrase; the cancel event is seen whenever a frame waits for credit.
\* Mutant: it is not looked at between two frames.
Reserves_Unchecked ==
  /\ worker.at = "reserve"
  /\ HasCredit(window)
  /\ window' = Reserve(window, <<Job, worker.frame>>)
  /\ outbound' = Queued(outbound, Batch("audio", {Job}, worker.frame))
  /\ worker' = [worker EXCEPT !.at = "sending",
                              !.sent = IF session = "closed" THEN "no" ELSE "pending"]
  /\ UNCHANGED <<queue, sending, cancelling, told, heard, session, laneVars>>

Reserves ==
  LET f == <<Job, worker.frame>>
  IN
  /\ worker.at = "reserve"
  /\ Current(queue, Job)
  /\ HasCredit(window)
  /\ window' = Reserve(window, f)
  /\ outbound' = Queued(outbound, Batch("audio", {Job}, worker.frame))
  /\ worker' = [worker EXCEPT !.at = "sending",
                              !.sent = IF session = "closed" THEN "no" ELSE "pending"]
  /\ UNCHANGED <<queue, sending, cancelling, told, heard, session, laneVars>>

FrameSent ==
  /\ worker.at = "sending"
  /\ worker.sent = "yes"
  /\ worker' = IF worker.frame < worker.frames
                 THEN [worker EXCEPT !.at = "reserve", !.frame = @ + 1, !.sent = "none"]
                 ELSE [worker EXCEPT !.at = "draining", !.sent = "none"]
  /\ UNCHANGED <<queue, window, outbound, sending, cancelling, told, heard, session, laneVars>>

FrameNotSent ==
  /\ worker.at = "sending"
  /\ worker.sent = "no"
  /\ GivesUp
  /\ UNCHANGED laneVars

\* The wait for credit or for the last confirmations sees the cancellation.
SeesCancellation ==
  /\ worker.at \in {"reserve", "draining"}
  /\ ~Current(queue, Job)
  /\ GivesUp
  /\ UNCHANGED laneVars

\* Mutant: only until the last frame is sent.
Drained_Sent == \A f \in FramesOf({Job}) : window.frame[f] \notin {"reserved", "delivering"}

Drained == Reserved(window) \cap FramesOf({Job}) = {}

AckOverdue ==
  /\ \/ worker.at = "reserve" /\ ~HasCredit(window)
     \/ worker.at = "draining" /\ ~Drained
  /\ Current(queue, Job)

AckTimesOut ==
  /\ AckOverdue
  /\ Fails
  /\ UNCHANGED laneVars

Finishes ==
  /\ worker.at = "draining"
  /\ Drained
  /\ Current(queue, Job)
  /\ queue' = Finish(queue)
  /\ worker' = IdleWorker
  /\ outbound' = Queued(outbound, Batch("finished", {Job}, 0))
  /\ UNCHANGED <<window, sending, cancelling, told, heard, session, laneVars>>

-----------------------------------------------------------------------------
(***************************************************************************)
(* The outbound task: one batch at a time, which can be withdrawn until   *)
(* its first packet is out.                                               *)
(***************************************************************************)
Sent(batch) == <<CHOOSE j \in batch.jobs : TRUE, batch.frame>>

BatchOver(result) ==
  /\ sending' = NoBatch
  /\ worker' = [worker EXCEPT !.sent = IF sending.kind = "audio" THEN result ELSE @]
  /\ cancelling' = [cancelling EXCEPT !.fenced = FALSE]

Withdrawn ==
  /\ BatchOver("no")
  /\ window' = IF sending.kind = "audio" THEN ReturnAll(window, FramesOf(sending.jobs)) ELSE window

SendsNext ==
  /\ session = "open"
  /\ sending = NoBatch
  /\ outbound # <<>>
  /\ sending' = Head(outbound)
  /\ outbound' = Tail(outbound)
  /\ UNCHANGED <<queue, window, worker, cancelling, told, heard, session, laneVars>>

FirstPacketWithdrawn ==
  /\ session = "open"
  /\ sending.stage = "first" /\ sending.cancelled
  /\ Withdrawn
  /\ UNCHANGED <<queue, outbound, told, heard, session, laneVars>>

FirstPacketSent ==
  /\ session = "open"
  /\ sending.stage = "first" /\ sending # NoBatch
  /\ IF sending.kind # "audio"
       THEN BatchOver("yes") /\ UNCHANGED window
     ELSE IF window.frame[Sent(sending)] # "none"
       THEN /\ sending' = [sending EXCEPT !.stage = "audio"]
            /\ window' = MarkDelivering(window, Sent(sending))
            /\ UNCHANGED <<worker, cancelling>>
       ELSE Withdrawn
  /\ told' = IF sending.kind = "cancelled" THEN told \cup sending.jobs ELSE told
  /\ UNCHANGED <<queue, outbound, heard, session, laneVars>>

\* The audio reaches the browser, maybe before the send returns.
AudioArrives ==
  /\ session = "open"
  /\ sending.stage = "audio"
  /\ heard' = heard \cup {Sent(sending)}
  /\ UNCHANGED <<queue, window, worker, outbound, sending, cancelling, told, session, laneVars>>

AudioSent ==
  LET reserved == window.frame[Sent(sending)] # "none"
  IN
  /\ session = "open"
  /\ sending.stage = "audio"
  /\ heard' = heard \cup {Sent(sending)}
  /\ window' = IF reserved THEN MarkSent(window, Sent(sending)) ELSE window
  /\ BatchOver(IF reserved THEN "yes" ELSE "no")
  /\ UNCHANGED <<queue, outbound, told, session, laneVars>>

\* A send fails or takes too long, or too much waits behind it: the
\* connection is closed.
TransportFails ==
  /\ session = "open"
  /\ sending # NoBatch
  /\ Withdrawn
  /\ outbound' = <<>>
  /\ session' = "failing"
  /\ UNCHANGED <<queue, told, heard, laneVars>>

-----------------------------------------------------------------------------
(***************************************************************************)
(* _shutdown, when the browser goes away or a task has ended              *)
(***************************************************************************)
Shutdown ==
  /\ session # "closed"
  /\ session' = "closed"
  /\ queue' = Close(queue)
  /\ SignalsLane({Job})
  /\ window' = EmptyWindow
  /\ outbound' = <<>>
  /\ sending' = NoBatch
  /\ worker' = [worker EXCEPT !.sent = IF @ = "pending" THEN "no" ELSE @]
  /\ cancelling' = NoCancel
  /\ UNCHANGED <<told, heard, lane, call, provider>>

\* The synthesis task, cancelled, unwinds.
SynthesisAborted ==
  /\ session = "closed"
  /\ Aborted(Me)
  /\ UNCHANGED speechVars

WorkerEnds ==
  /\ session = "closed"
  /\ worker.at = "next"
  /\ worker' = [worker EXCEPT !.at = "ended"]
  /\ UNCHANGED <<queue, window, outbound, sending, cancelling, told, heard, session, laneVars>>

-----------------------------------------------------------------------------
(***************************************************************************)
(* The lane, and all that the other sessions do with it                   *)
(***************************************************************************)
MyLaneStep == LaneStep(Me) /\ UNCHANGED speechVars

Others == Callers \ {Me}

OtherSession(c) ==
  /\ \/ Synthesizes(c)
     \/ TakesOutcome(c)
     \/ LaneStep(c)
     \/ Aborted(c)
     \/ ~In(c, "idle") /\ cancelled' = cancelled \cup {c} /\ UNCHANGED <<lane, call, provider>>
  /\ UNCHANGED speechVars

Providers ==
  /\ \/ \E c \in Callers, how \in {"returned", "raised"} : ProviderEnds(c, how)
     \/ WatcherReleases
  /\ UNCHANGED speechVars

Receives ==
  \/ \E j \in Jobs : Submits(j)
  \/ BrowserCancels
  \/ \E f \in Frames : Acks(f)

WorkerStep ==
  \/ TakesJob \/ PhraseReady \/ NoPhrase
  \/ Reserves \/ FrameSent \/ FrameNotSent
  \/ SeesCancellation \/ AckTimesOut \/ Finishes \/ WorkerEnds

OutboundStep ==
  \/ SendsNext
  \/ FirstPacketWithdrawn \/ FirstPacketSent \/ AudioSent
  \/ TransportFails

Next ==
  \/ Receives \/ FenceOver
  \/ WorkerStep
  \/ OutboundStep \/ AudioArrives
  \/ Shutdown \/ SynthesisAborted
  \/ MyLaneStep
  \/ \E c \in Others : OtherSession(c)
  \/ Providers

Spec == Init /\ [][Next]_vars

\* When WorkerStep is enabled; it always changes the worker.
WorkerCanRun ==
  \/ worker.at = "next" /\ (HasNext(queue) \/ session = "closed")
  \/ worker.at = "synthesizing" /\ In(Me, "over")
  \/ worker.at = "sending" /\ worker.sent \in {"yes", "no"}
  \/ worker.at \in {"reserve", "draining"}

(***************************************************************************)
(* Tasks that can run do, deadlines and grace periods end, and a send     *)
(* returns or fails.  Nothing is promised of the provider, of the browser *)
(* or of the other sessions.  The second and the last conjunct are weak   *)
(* fairness of WorkerStep and of Shutdown after a failure, written with   *)
(* what enables them.                                                     *)
(***************************************************************************)
FairSpec ==
  /\ Spec
  /\ []<>~WorkerCanRun \/ []<><<worker' # worker>>_vars
  /\ WF_vars(OutboundStep)
  /\ WF_vars(MyLaneStep)
  /\ []<>(session # "failing")

-----------------------------------------------------------------------------
SpeechTypeOK ==
  /\ LaneTypeOK
  /\ QueueTypeOK(queue)
  /\ WindowTypeOK(window)
  /\ worker \in [at : {"next", "synthesizing", "reserve", "sending", "draining",
                       "ended"},
                 frame : 0 .. MaxFrames, frames : 0 .. MaxFrames,
                 sent : {"none", "pending", "yes", "no"}]
  /\ told \subseteq Jobs /\ heard \subseteq Frames
  /\ cancelling.jobs \subseteq Jobs
  /\ session \in {"open", "failing", "closed"}
  /\ AckOverdue => ~Fenced({Job})

(* The synthesizer is never called while an earlier call still runs, from  *)
(* whatever session, however it ended for its caller: given up, timed out, *)
(* quarantined, its session gone.                                          *)
ProviderRunsAlone ==
  [][\A c \in Callers : In(c, "waiting") /\ call'[c].at = "calling" =>
       \A d \in Callers : ~Running(d)]_vars

(* Once the browser is told that a phrase is cancelled, it is sent nothing *)
(* more of it: no start, no audio, no end.                                 *)
NothingAfterCancelled ==
  [][/\ sending' # sending => ~Concerns(sending', told)
     /\ heard' # heard => {f[1] : f \in heard' \ heard} \cap told = {}]_vars

(* All credit is accounted for: it is held by frames of the phrase that is *)
(* being spoken.  A phrase that is over, however it ended and whatever     *)
(* becomes of its last batch, holds none and never starves the next one.   *)
CreditIsReturned ==
  /\ window.outstanding = Cardinality(Reserved(window))
  /\ \A f \in Reserved(window) : f[1] = Job

(* A phrase that is cancelled, or whose audio the browser never confirms,  *)
(* does not hold up the queue for ever, whatever the provider does.        *)
LaneIsFreed ==
  \A j \in Jobs :
    queue.active = j /\ queue.entry[j] # "generating"
      ~> queue.active # j \/ session = "closed"
=============================================================================
