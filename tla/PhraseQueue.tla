---------------------------- MODULE PhraseQueue -----------------------------
(***************************************************************************)
(* The bounded queue of phrases to be spoken in one session of the speech *)
(* service (suits_speech/audio_queue.py, PhraseQueue).  Its methods run   *)
(* without giving up the event loop, so each is a function from the queue *)
(* before to the queue after, for the tasks that call it.                 *)
(*                                                                         *)
(* A job's phrase, its place in a response and whether it is the last one *)
(* are fixed constants; when and how often the job is submitted is not.   *)
(***************************************************************************)
EXTENDS Naturals, Sequences, SequencesExt, FiniteSetsExt

CONSTANTS Jobs, Responses, None,
          ResponseOf, SequenceOf,  \* of each job
          Finals,                  \* the jobs submitted as last of a response
          MaxDepth,                \* max_depth
          Tombstones               \* tombstone_limit

\* The names of jobs and of responses have a greatest length (Identifier).
ASSUME QueueAssumption ==
  /\ IsFiniteSet(Jobs) /\ IsFiniteSet(Responses)
  /\ ResponseOf \in [Jobs -> Responses]
  /\ SequenceOf \in [Jobs -> Nat]
  /\ Finals \subseteq Jobs
  /\ MaxDepth \in Nat \ {0}
  /\ Tombstones \in Nat /\ Tombstones >= MaxDepth
  /\ None \notin Jobs

Live     == {"queued", "generating", "streaming"}
Terminal == {"finished", "cancelled", "failed"}

EmptyQueue ==
  [entry     |-> [j \in Jobs |-> "none"],
   pending   |-> <<>>,
   active    |-> None,
   expected  |-> [r \in Responses |-> 0],
   closed    |-> {},
   terminals |-> <<>>, closedOrder |-> <<>>, idleOrder |-> <<>>,
   lease     |-> [job |-> None, evicted |-> FALSE],
   shut      |-> FALSE]

\* The entries of a queue at some of its places, in their order
Kept(order, places) ==
  LET at(k) == CHOOSE i \in places : Cardinality({j \in places : j < i}) = k - 1
  IN  [k \in 1 .. Cardinality(places) |-> order[at(k)]]

Within(order, S)  == Kept(order, {i \in 1 .. Len(order) : order[i] \in S})
Without(order, S) == Kept(order, {i \in 1 .. Len(order) : order[i] \notin S})

LiveJobs(q, r) == {j \in Jobs : ResponseOf[j] = r /\ q.entry[j] \in Live}

\* In the order of the entries: what is spoken was submitted first.
LiveInOrder(q) ==
  (IF q.active # None /\ q.entry[q.active] \in Live THEN <<q.active>> ELSE <<>>)
    \o q.pending

\* _current_entry: a lease is current until its job is over.
Current(q, j) == q.entry[j] \in Live

-----------------------------------------------------------------------------
(***************************************************************************)
(* What is kept of finished jobs and responses, and for how long.         *)
(***************************************************************************)
Pushed(order, x) == IF Contains(order, x) THEN order ELSE Append(order, x)
Overflows(order) == Len(order) > Tombstones

RecordClosed(q, r) ==
  LET order == Pushed(q.closedOrder, r)
  IN  IF Overflows(order)
        THEN [q EXCEPT !.closedOrder = Tail(order), !.closed = @ \ {Head(order)}]
        ELSE [q EXCEPT !.closedOrder = order]

RecordIdle(q, r) ==
  LET order == Pushed(q.idleOrder, r)
  IN  IF Overflows(order)
        THEN RecordClosed([q EXCEPT !.idleOrder = Tail(order),
                                    !.expected[Head(order)] = 0,
                                    !.closed = @ \cup {Head(order)}], Head(order))
        ELSE [q EXCEPT !.idleOrder = order]

RecordResponse(q, r) ==
  CASE LiveJobs(q, r) # {} -> q
    [] LiveJobs(q, r) = {} /\ r \in q.closed ->
         RecordClosed([q EXCEPT !.expected[r] = 0], r)
    [] OTHER -> RecordIdle(q, r)

Evict(q, j) ==
  [q EXCEPT !.terminals = Tail(@),
            !.entry[j] = IF @ \in Terminal THEN "none" ELSE @,
            !.lease.evicted = @ \/ q.lease.job = j]

\* The job's entry has just become terminal.
RecordTerminal(q, j) ==
  LET recorded == [RecordResponse(q, ResponseOf[j]) EXCEPT !.terminals = Append(@, j)]
  IN  IF Overflows(recorded.terminals)
        THEN Evict(recorded, Head(recorded.terminals))
        ELSE recorded

-----------------------------------------------------------------------------
MayEnqueue(q, j) ==
  /\ ~q.shut
  /\ q.entry[j] = "none"
  /\ ResponseOf[j] \notin q.closed
  /\ SequenceOf[j] = q.expected[ResponseOf[j]]
  /\ Len(q.pending) < MaxDepth

Enqueue(q, j) ==
  [q EXCEPT !.entry[j] = "queued",
            !.pending = Append(@, j),
            !.idleOrder = Without(@, {ResponseOf[j]}),
            !.expected[ResponseOf[j]] = @ + 1,
            !.closed = IF j \in Finals THEN @ \cup {ResponseOf[j]} ELSE @]

HasNext(q) == q.active = None /\ q.pending # <<>>

NextJob(q) == Head(q.pending)

Take(q) ==
  [q EXCEPT !.entry[NextJob(q)] = "generating",
            !.pending = Tail(@),
            !.active = NextJob(q),
            !.lease = [job |-> NextJob(q), evicted |-> FALSE]]

MayStream(q, j) == q.entry[j] = "generating"

MarkStreaming(q, j) == [q EXCEPT !.entry[j] = "streaming"]

\* Mutant: only a job that is still current frees the lane.
Finish_Current(q) ==
  LET j == q.lease.job
      done == [q EXCEPT !.lease = [job |-> None, evicted |-> FALSE]]
  IN  IF Current(q, j)
        THEN RecordTerminal([done EXCEPT !.entry[j] = "finished", !.active = None], j)
        ELSE done

\* finish(lease): the lane is free again, whatever became of the job ...
Finish(q) ==
  LET j == q.lease.job
      done == [q EXCEPT !.lease = [job |-> None, evicted |-> FALSE]]
  IN
  CASE q.entry[j] \in {"generating", "streaming"} ->
         RecordTerminal([done EXCEPT !.entry[j] = "finished", !.active = None], j)
    [] q.entry[j] = "cancelled" /\ ~q.lease.evicted /\ q.active = j ->
         [done EXCEPT !.active = None]
    [] OTHER -> done    \* ... unless its entry is forgotten by now

CancelJob(q, j) == RecordTerminal([q EXCEPT !.entry[j] = "cancelled"], j)

CancelJobs(q, jobs, closing) ==
  LET silenced == [q EXCEPT !.closed = @ \cup closing,
                            !.idleOrder = Without(@, closing)]
      cancelled == FoldLeft(CancelJob, silenced, Within(LiveInOrder(q), jobs))
      unlisted  == {r \in closing : LiveJobs(cancelled, r) = {}}
  IN  FoldSet(LAMBDA r, s : RecordClosed([s EXCEPT !.expected[r] = 0], r),
              [cancelled EXCEPT !.pending = Without(@, jobs)],
              unlisted)

LiveResponses(q) == {r \in Responses : LiveJobs(q, r) # {}}

Close(q) == CancelJobs([q EXCEPT !.shut = TRUE], Jobs, LiveResponses(q))

-----------------------------------------------------------------------------
Bounded(order, S) ==
  /\ order \in SeqOf(S, Tombstones)
  /\ IsInjective(order)

QueueTypeOK(q) ==
  /\ q.entry \in [Jobs -> Live \cup Terminal \cup {"none"}]
  /\ q.pending \in SeqOf(Jobs, MaxDepth)
  /\ q.active \in Jobs \cup {None}
  /\ q.lease \in [job : {q.active, None}, evicted : BOOLEAN]
  /\ q.closed \subseteq Responses
  /\ \A r \in Responses : q.expected[r] \in 0 .. Cardinality(Jobs)
  /\ Bounded(q.terminals, Jobs)
  /\ Bounded(q.closedOrder, Responses)
  /\ Bounded(q.idleOrder, Responses)
  /\ \A j \in Jobs : q.entry[j] = "queued" <=> Contains(q.pending, j)
=============================================================================
