------------------------ MODULE SpeechSessionProofs -------------------------
(***************************************************************************)
(* Two results about a session of the speech service.                     *)
(*                                                                         *)
(* The synthesizer runs alone, for any number of sessions: whatever the   *)
(* callers, the browser, the socket and the provider itself do, no call   *)
(* of it starts while an earlier one has not physically ended.  LaneInv   *)
(* is inductive by itself: a provider that runs either belongs to the one *)
(* caller that holds the lane, or is the one the watcher of the           *)
(* quarantined lane waits for; in both cases the lane is busy.            *)
(*                                                                         *)
(* And credit comes back: see CreditInv, below.                           *)
(***************************************************************************)
EXTENDS SpeechSession, TLAPS, FiniteSetTheorems, SequenceTheorems,
        WellFoundedInduction

Holds(c) == call[c].at \in {"calling", "stopping"}

LaneTyped ==
  /\ lane \in [busy : BOOLEAN, quarantined : BOOLEAN, watched : Callers \cup {Nobody}]
  /\ call \in [Callers -> [at : {"idle", "waiting", "calling", "stopping", "over"},
                           why : Outcomes \cup {"none"}]]
  /\ provider \in [Callers -> {"none", "running", "returned", "raised"}]

HolderOwnsLane == \A c \in Callers : Holds(c) => lane.busy /\ ~lane.quarantined

OneHolder == \A c, d \in Callers : Holds(c) /\ Holds(d) => c = d

RunningIsOwned ==
  \A c \in Callers : Running(c) =>
    \/ Holds(c)
    \/ lane.busy /\ lane.quarantined /\ lane.watched = c

WatchedIfQuarantined == lane.quarantined <=> lane.watched # Nobody

LaneInv ==
  /\ LaneTyped
  /\ HolderOwnsLane
  /\ OneHolder
  /\ RunningIsOwned
  /\ WatchedIfQuarantined

(* What any step does to the lane: one of the lane's own actions, or       *)
(* nothing but setting a cancel event.                                     *)
LaneNext ==
  \/ \E c \in Callers :
       \/ Synthesizes(c) \/ TakesOutcome(c)
       \/ LaneStep(c) \/ Aborted(c)
       \/ \E how \in {"returned", "raised"} : ProviderEnds(c, how)
  \/ WatcherReleases
  \/ UNCHANGED <<lane, call, provider>>

(* Every step of the session is, for the lane, a step of the lane.         *)
LEMMA StepsOfLane == [Next]_vars => LaneNext
  <1> SUFFICES ASSUME [Next]_vars PROVE LaneNext
    OBVIOUS
  <1> USE SessionAssumption
  <1>1. CASE Receives
    BY <1>1 DEF Receives, Submits, BrowserCancels, CancelsScope, Acks, LaneNext, laneVars
  <1>2. CASE FenceOver
    BY <1>2 DEF FenceOver, LaneNext, laneVars
  <1>3. CASE WorkerStep
    <2>1. CASE TakesJob
      BY <2>1 DEF TakesJob, LaneNext, laneVars
    <2>2. CASE PhraseReady \/ NoPhrase
      BY <2>2 DEF PhraseReady, NoPhrase, LaneNext
    <2>3. CASE Reserves \/ FrameSent \/ FrameNotSent \/ SeesCancellation
               \/ AckTimesOut \/ Finishes \/ WorkerEnds
      BY <2>3 DEF Reserves, FrameSent, FrameNotSent, SeesCancellation, AckTimesOut,
                  Finishes, WorkerEnds, LaneNext, laneVars
    <2> QED
      BY <1>3, <2>1, <2>2, <2>3 DEF WorkerStep
  <1>4. CASE OutboundStep \/ AudioArrives
    BY <1>4 DEF OutboundStep, SendsNext, FirstPacketWithdrawn, FirstPacketSent, AudioSent,
                TransportFails, AudioArrives, LaneNext, laneVars
  <1>5. CASE Shutdown \/ SynthesisAborted
    BY <1>5 DEF Shutdown, SynthesisAborted, LaneNext
  <1>6. CASE MyLaneStep
    BY <1>6 DEF MyLaneStep, LaneNext
  <1>7. CASE \E c \in Others : OtherSession(c)
    BY <1>7 DEF Others, OtherSession, LaneNext
  <1>8. CASE Providers
    BY <1>8 DEF Providers, LaneNext
  <1>9. CASE UNCHANGED vars
    BY <1>9 DEF vars, laneVars, LaneNext
  <1> QED
    BY <1>1, <1>2, <1>3, <1>4, <1>5, <1>6, <1>7, <1>8, <1>9 DEF Next

(* The lane starts free.                                                   *)
LEMMA LaneInvInit == Init => LaneInv
  BY LaneAssumption
  DEF Init, LaneInit, LaneInv, LaneTyped, HolderOwnsLane, OneHolder, RunningIsOwned,
      WatchedIfQuarantined, Holds, Running, NoCallYet, Outcomes

(* A call that gives the lane back leaves no provider running.             *)
LEMMA LaneIsGivenBack ==
  ASSUME LaneInv, NEW c \in Callers, Holds(c), ~Running(c),
         lane' = Released, provider' = provider,
         NEW why \in Outcomes \cup {"none"}, Outcome(c, why)
  PROVE  LaneInv'
  <1> USE DEF LaneInv, LaneTyped
  <1>1. lane' = [lane EXCEPT !.busy = FALSE]
    BY DEF Released, HolderOwnsLane
  <1>2. \A d \in Callers : ~Holds(d)' /\ ~Running(d)'
    BY DEF OneHolder, RunningIsOwned, HolderOwnsLane, Holds, Running, Outcome
  <1>3. LaneTyped'
    BY <1>1 DEF Outcome
  <1> QED
    BY <1>1, <1>2, <1>3 DEF HolderOwnsLane, OneHolder, RunningIsOwned, WatchedIfQuarantined

(* A call that is given up while its provider may still run leaves the     *)
(* lane to the watcher.                                                    *)
LEMMA LaneIsQuarantined ==
  ASSUME LaneInv, NEW c \in Callers, Holds(c),
         lane' = Quarantined(c), provider' = provider,
         NEW why \in Outcomes \cup {"none"}, Outcome(c, why)
  PROVE  LaneInv'
  <1> USE DEF LaneInv, LaneTyped
  <1>1. lane' = [lane EXCEPT !.quarantined = TRUE, !.watched = c]
    BY DEF Quarantined, HolderOwnsLane, WatchedIfQuarantined
  <1>2. lane'.busy /\ lane'.quarantined /\ lane'.watched = c
    BY <1>1 DEF HolderOwnsLane
  <1>3. \A d \in Callers : ~Holds(d)' /\ (Running(d)' => d = c)
    BY DEF OneHolder, RunningIsOwned, HolderOwnsLane, Holds, Running, Outcome
  <1>4. LaneTyped'
    BY <1>1 DEF Outcome
  <1> QED
    BY <1>2, <1>3, <1>4, LaneAssumption
    DEF HolderOwnsLane, OneHolder, RunningIsOwned, WatchedIfQuarantined

(* A step that moves the call of one caller between states in which it     *)
(* does not hold the lane, or starts or ends nothing.                      *)
LEMMA LaneIsUntouched ==
  ASSUME LaneInv, NEW c \in Callers, lane' = lane, provider' = provider,
         NEW next, next \in [at : {"idle", "waiting", "calling", "stopping", "over"},
                             why : Outcomes \cup {"none"}],
         call' = [call EXCEPT ![c] = next],
         next.at \in {"calling", "stopping"} <=> Holds(c)
  PROVE  LaneInv'
  <1> USE DEF LaneInv, LaneTyped
  <1>1. \A d \in Callers : (Holds(d)' <=> Holds(d)) /\ (Running(d)' <=> Running(d))
    BY DEF Holds, Running
  <1> QED
    BY <1>1 DEF HolderOwnsLane, OneHolder, RunningIsOwned, WatchedIfQuarantined

(* LaneInv is inductive.                                                   *)
LEMMA LaneInvStep == LaneInv /\ LaneNext => LaneInv'
  <1> SUFFICES ASSUME LaneInv, LaneNext PROVE LaneInv'
    OBVIOUS
  <1> USE DEF LaneInv, LaneTyped
  <1>1. ASSUME NEW c \in Callers, Synthesizes(c) PROVE LaneInv'
    BY <1>1, LaneIsUntouched DEF Synthesizes, In, Holds
  <1>2. ASSUME NEW c \in Callers, TakesOutcome(c) PROVE LaneInv'
    BY <1>2, LaneIsUntouched DEF TakesOutcome, In, Holds, NoCallYet
  <1>3. ASSUME NEW c \in Callers, Refused(c) PROVE LaneInv'
    BY <1>3, LaneIsUntouched DEF Refused, In, Holds, Outcome, Outcomes
  <1>4. ASSUME NEW c \in Callers, Enters(c) PROVE LaneInv'
    <2>1. \A d \in Callers : ~Holds(d) /\ ~Running(d)
      BY <1>4 DEF Enters, HolderOwnsLane, RunningIsOwned
    <2>2. lane'.busy /\ ~lane'.quarantined /\ lane'.watched = lane.watched
      BY <1>4 DEF Enters
    <2>3. \A d \in Callers : (Holds(d)' \/ Running(d)') => d = c
      BY <1>4, <2>1 DEF Enters, Holds, Running
    <2>4. Holds(c)'
      BY <1>4 DEF Enters, Holds
    <2>5. LaneTyped'
      BY <1>4 DEF Enters
    <2> QED
      BY <1>4, <2>2, <2>3, <2>4, <2>5
      DEF Enters, HolderOwnsLane, OneHolder, RunningIsOwned, WatchedIfQuarantined
  <1>5. ASSUME NEW c \in Callers, Returns(c) \/ Stopped(c) PROVE LaneInv'
    <2>1. Holds(c) /\ ~Running(c) /\ lane' = Released /\ provider' = provider
      BY <1>5 DEF Returns, Stopped, In, Holds
    <2>2. \E why \in Outcomes \cup {"none"} : Outcome(c, why)
      BY <1>5 DEF Returns, Stopped, Outcomes
    <2> QED
      BY <2>1, <2>2, LaneIsGivenBack
  <1>6. ASSUME NEW c \in Callers, NEW why \in Reasons, Stops(c, why) PROVE LaneInv'
    BY <1>6, LaneIsUntouched DEF Stops, In, Holds, Reasons, Outcomes
  <1>7. ASSUME NEW c \in Callers, GraceEnds(c) PROVE LaneInv'
    BY <1>7, LaneIsQuarantined DEF GraceEnds, In, Holds, Outcomes
  <1>8. ASSUME NEW c \in Callers, Aborted(c) PROVE LaneInv'
    <2>1. CASE In(c, "waiting")
      BY <1>8, <2>1, LaneIsUntouched DEF Aborted, In, Holds, Outcome, Outcomes
    <2>2. CASE In(c, "calling") /\ Running(c)
      BY <1>8, <2>2, <1>6 DEF Aborted, Reasons
    <2>3. CASE In(c, "calling") /\ ~Running(c)
      BY <1>8, <2>3, LaneIsGivenBack DEF Aborted, In, Holds, Outcomes
    <2>4. CASE In(c, "stopping")
      BY <1>8, <2>4, LaneIsQuarantined DEF Aborted, In, Holds, Outcomes
    <2> QED
      BY <1>8, <2>1, <2>2, <2>3, <2>4 DEF Aborted, In
  <1>9. ASSUME NEW c \in Callers, NEW how \in {"returned", "raised"}, ProviderEnds(c, how)
        PROVE LaneInv'
    <2>1. \A d \in Callers : (Holds(d)' <=> Holds(d)) /\ (Running(d)' => Running(d))
      BY <1>9 DEF ProviderEnds, Holds, Running
    <2> QED
      BY <1>9, <2>1
      DEF ProviderEnds, HolderOwnsLane, OneHolder, RunningIsOwned, WatchedIfQuarantined
  <1>10. CASE WatcherReleases
    <2>1. \A d \in Callers : (Holds(d)' <=> Holds(d)) /\ (Running(d)' <=> Running(d))
      BY <1>10 DEF WatcherReleases, Holds, Running
    <2>2. \A d \in Callers : ~Holds(d) /\ ~Running(d)
      BY <1>10 DEF WatcherReleases, HolderOwnsLane, RunningIsOwned, WatchedIfQuarantined
    <2> QED
      BY <1>10, <2>1, <2>2
      DEF WatcherReleases, HolderOwnsLane, OneHolder, RunningIsOwned, WatchedIfQuarantined
  <1>11. CASE UNCHANGED <<lane, call, provider>>
    BY <1>11 DEF HolderOwnsLane, OneHolder, RunningIsOwned, WatchedIfQuarantined, Holds, Running
  <1> QED
    BY <1>1, <1>2, <1>3, <1>4, <1>5, <1>6, <1>7, <1>8, <1>9, <1>10, <1>11
    DEF LaneNext, LaneStep, Reasons

(* A call starts only when no provider runs.                               *)
LEMMA StartsAlone ==
  ASSUME LaneInv, LaneNext, NEW c \in Callers, In(c, "waiting"), call'[c].at = "calling"
  PROVE  \A d \in Callers : ~Running(d)
  <1> USE DEF LaneInv, LaneTyped
  <1>1. Enters(c)
    BY DEF LaneNext, LaneStep, Synthesizes, TakesOutcome, NoCallYet, Refused, Enters, Returns,
           Stops, Stopped, GraceEnds, Aborted, ProviderEnds, WatcherReleases, Outcome, In
  <1> QED
    BY <1>1 DEF Enters, HolderOwnsLane, RunningIsOwned

(* The synthesizer is never called while an earlier call still runs, for   *)
(* any number of sessions (TtsProviderLane).                               *)
THEOREM RunsAlone == Spec => ProviderRunsAlone
  <1>1. Init => LaneInv
    BY LaneInvInit
  <1>2. LaneInv /\ [Next]_vars => LaneInv'
    BY StepsOfLane, LaneInvStep
  <1>3. LaneInv /\ [Next]_vars =>
          [\A c \in Callers : In(c, "waiting") /\ call'[c].at = "calling" =>
             \A d \in Callers : ~Running(d)]_vars
    BY StepsOfLane, StartsAlone
  <1> QED
    BY <1>1, <1>2, <1>3, PTL DEF Spec, ProviderRunsAlone

-----------------------------------------------------------------------------
(* What a queue keeps of itself *)

(* A set of numbers that is not empty has a least one.                     *)
LEMMA LeastNumber ==
  ASSUME NEW S, S \subseteq Nat, S # {}
  PROVE  \E x \in S : \A y \in S : x <= y
<1>1. PICK x \in S : \A y \in S : ~ (<<y, x>> \in OpToRel(<, Nat))
  BY NatLessThanWellFounded, WFMin
<1>2. ASSUME NEW y \in S, ~ (x <= y)
      PROVE  FALSE
  <2>1. <<y, x>> \in Nat \X Nat /\ y < x
    BY <1>2
  <2>2. <<y, x>> \in OpToRel(<, Nat)
    BY <2>1 DEF OpToRel
  <2> QED BY <1>1, <2>2
<1> QED BY <1>2

Below(places, i) == {j \in places : j < i}

HasRank(places, k) == \E i \in places : Cardinality(Below(places, i)) = k - 1

\* Each number up to the size of a set of places is the rank of one of them.
LEMMA PlacesHaveRanks ==
  ASSUME NEW n \in Nat, NEW places \in SUBSET (1 .. n)
  PROVE  /\ IsFiniteSet(places) /\ Cardinality(places) \in Nat
         /\ \A k \in 1 .. Cardinality(places) : HasRank(places, k)
<1> DEFINE Lacks(m) == \E I \in SUBSET (1 .. m) : \E k \in 1 .. Cardinality(I) : ~HasRank(I, k)
           S == {m \in Nat : Lacks(m)}
<1>1. ASSUME NEW m \in Nat, NEW I \in SUBSET (1 .. m)
      PROVE  IsFiniteSet(I) /\ Cardinality(I) \in Nat
  <2>1. IsFiniteSet(1 .. m)
    BY FS_Interval
  <2>2. IsFiniteSet(I)
    BY <2>1, FS_Subset
  <2> QED BY <2>2, FS_CardinalityType
<1>2. ASSUME S # {} PROVE FALSE
  <2>1. PICK m \in S : \A l \in S : m <= l
    BY <1>2, LeastNumber
  <2>2. PICK I \in SUBSET (1 .. m) : \E k \in 1 .. Cardinality(I) : ~HasRank(I, k)
    BY <2>1
  <2>3. PICK k \in 1 .. Cardinality(I) : ~HasRank(I, k)
    BY <2>2
  <2>4. m \in Nat /\ IsFiniteSet(I) /\ Cardinality(I) \in Nat
    BY <1>1, <2>1
  <2>5. m # 0
    <3>1. CASE m = 0
      <4>1. I = {}
        BY <3>1
      <4> QED BY <2>3, <4>1, FS_EmptySet
    <3> QED BY <3>1
  <2>6. m - 1 \in Nat /\ m - 1 \notin S
    BY <2>1, <2>4, <2>5
  <2>7. m \in I
    BY <2>3, <2>4, <2>6
  <2> DEFINE J == I \ {m}
  <2>8. J \in SUBSET (1 .. m - 1)
    BY <2>4
  <2>9. Cardinality(J) = Cardinality(I) - 1
    BY <2>4, <2>7, FS_RemoveElement
  <2>10. CASE k = Cardinality(I)
    <3>1. \A j \in I : j \in Int /\ (j < m <=> j # m)
      BY <2>2, <2>4
    <3>2. Below(I, m) = J
      BY <3>1 DEF Below
    <3> QED BY <2>3, <2>7, <2>9, <2>10, <3>2 DEF HasRank
  <2>11. CASE k # Cardinality(I)
    <3>1. k \in 1 .. Cardinality(J)
      BY <2>4, <2>9, <2>11
    <3>2. HasRank(J, k)
      BY <2>6, <2>8, <3>1
    <3>3. PICK i \in J : Cardinality(Below(J, i)) = k - 1
      BY <3>2 DEF HasRank
    <3>4. Below(I, i) = Below(J, i)
      BY <2>4, <2>8 DEF Below
    <3> QED BY <2>3, <3>3, <3>4 DEF HasRank
  <2> QED BY <2>10, <2>11
<1>3. n \notin S
  BY <1>2
<1> QED BY <1>1, <1>3

(* What Kept keeps of a sequence is a sequence of the same kind.           *)
LEMMA KeptIs ==
  ASSUME NEW T, NEW order \in Seq(T), NEW places \in SUBSET (1 .. Len(order))
  PROVE  Kept(order, places) \in Seq(T)
<1> DEFINE n == Cardinality(places)
           at(k) == CHOOSE i \in places : Cardinality(Below(places, i)) = k - 1
<1>1. Len(order) \in Nat
  OBVIOUS
<1>2. n \in Nat /\ \A k \in 1 .. n : HasRank(places, k)
  BY <1>1, PlacesHaveRanks
<1>3. \A k \in 1 .. n : at(k) \in places
  BY <1>2 DEF HasRank
<1>4. Kept(order, places) = [k \in 1 .. n |-> order[at(k)]]
  BY DEF Kept, Below
<1> HIDE DEF at
<1>5. \A i \in 1 .. Len(order) : order[i] \in T
  OBVIOUS
<1>6. \A k \in 1 .. n : order[at(k)] \in T
  BY <1>3, <1>5
<1> QED BY <1>2, <1>4, <1>6

-----------------------------------------------------------------------------
(* Cancelling *)

QueueFields == {"entry", "pending", "active", "expected", "closed", "terminals",
                "closedOrder", "idleOrder", "lease", "shut"}

IsQueue(q) ==
  /\ QueueFields \subseteq DOMAIN q
  /\ {"job", "evicted"} \subseteq DOMAIN q.lease
  /\ q.pending \in Seq(Jobs)

\* What waits and what is spoken is the same.
SpeaksOn(q, p) ==
  IsQueue(p) => IsQueue(q) /\ q.pending = p.pending /\ q.lease.job = p.lease.job

(* Recording that a response is closed touches neither what waits nor      *)
(* what is spoken.                                                         *)
LEMMA ClosedSpeaksOn ==
  ASSUME NEW q, NEW r
  PROVE  SpeaksOn(RecordClosed(q, r), q)
  BY DEF SpeaksOn, IsQueue, QueueFields, RecordClosed

(* Nor does recording that a job is over.                                  *)
LEMMA TerminalSpeaksOn ==
  ASSUME NEW q, NEW j
  PROVE  SpeaksOn(RecordTerminal(q, j), q)
<1>1. ASSUME NEW r PROVE SpeaksOn(RecordIdle(q, r), q)
  <2> DEFINE order == Pushed(q.idleOrder, r)
             idle == [q EXCEPT !.idleOrder = Tail(order),
                               !.expected[Head(order)] = 0,
                               !.closed = @ \cup {Head(order)}]
  <2>1. SpeaksOn(idle, q) /\ SpeaksOn([q EXCEPT !.idleOrder = order], q)
    BY DEF SpeaksOn, IsQueue, QueueFields
  <2>2. \/ RecordIdle(q, r) = RecordClosed(idle, Head(order))
        \/ RecordIdle(q, r) = [q EXCEPT !.idleOrder = order]
    BY DEF RecordIdle
  <2> HIDE DEF idle, order
  <2>3. SpeaksOn(RecordClosed(idle, Head(order)), idle)
    BY ClosedSpeaksOn
  <2> QED BY <2>1, <2>2, <2>3 DEF SpeaksOn
<1>2. ASSUME NEW r PROVE SpeaksOn(RecordResponse(q, r), q)
  <2> DEFINE p == [q EXCEPT !.expected[r] = 0]
  <2>1. SpeaksOn(p, q) /\ SpeaksOn(q, q)
    BY DEF SpeaksOn, IsQueue, QueueFields
  <2>2. RecordResponse(q, r) \in {q, RecordClosed(p, r), RecordIdle(q, r)}
    BY DEF RecordResponse
  <2> HIDE DEF p
  <2>3. SpeaksOn(RecordClosed(p, r), p)
    BY ClosedSpeaksOn
  <2> QED BY <1>1, <2>1, <2>2, <2>3 DEF SpeaksOn
<1> DEFINE p == RecordResponse(q, ResponseOf[j])
           recorded == [p EXCEPT !.terminals = Append(@, j)]
<1>3. SpeaksOn(p, q)
  BY <1>2
<1>4. \/ RecordTerminal(q, j) = recorded
      \/ RecordTerminal(q, j) = Evict(recorded, Head(recorded.terminals))
  BY DEF RecordTerminal
<1> HIDE DEF p
<1>5. SpeaksOn(recorded, p)
  BY DEF SpeaksOn, IsQueue, QueueFields
<1> HIDE DEF recorded
<1>6. ASSUME NEW k PROVE SpeaksOn(Evict(recorded, k), recorded)
  BY DEF SpeaksOn, IsQueue, QueueFields, Evict
<1> QED BY <1>3, <1>4, <1>5, <1>6 DEF SpeaksOn

(* Nor does cancelling one job.                                            *)
LEMMA CancelJobSpeaksOn ==
  ASSUME NEW q, NEW j
  PROVE  SpeaksOn(CancelJob(q, j), q)
<1> DEFINE p == [q EXCEPT !.entry[j] = "cancelled"]
<1>1. SpeaksOn(p, q)
  BY DEF SpeaksOn, IsQueue, QueueFields
<1>2. SpeaksOn(RecordTerminal(p, j), p)
  BY TerminalSpeaksOn
<1> HIDE DEF p
<1> QED BY <1>1, <1>2 DEF SpeaksOn, CancelJob, p

\* One step of cancelling: of the next job in order, or of a response.
Forget(q, r) == RecordClosed([q EXCEPT !.expected[r] = 0], r)

Chosen(order, s) == IF order = <<>> THEN CHOOSE x \in s : TRUE ELSE Max(s)

OneStep(order, q, x) == IF order = <<>> THEN Forget(q, x) ELSE CancelJob(q, order[x])

\* The recursion of FoldLeft and FoldSet
Folds(f, order, base, D) ==
  f = [s \in D |-> IF s = {} THEN base
                   ELSE OneStep(order, f[s \ {Chosen(order, s)}], Chosen(order, s))]

(* A function that the recursion of a fold describes exists.               *)
LEMMA FoldExists ==
  ASSUME NEW order, NEW base, NEW S, IsFiniteSet(S),
         \A s \in SUBSET S : s # {} => Chosen(order, s) \in s
  PROVE  \E f : Folds(f, order, base, SUBSET S)
<1> DEFINE Upto(n) == {s \in SUBSET S : Cardinality(s) <= n}
           T == {n \in Nat : ~ \E f : Folds(f, order, base, Upto(n))}
<1>1. \A s \in SUBSET S : IsFiniteSet(s) /\ Cardinality(s) \in Nat
  BY FS_Subset, FS_CardinalityType
<1>2. ASSUME T # {} PROVE FALSE
  <2>1. PICK n \in T : \A m \in T : n <= m
    BY <1>2, LeastNumber
  <2>2. CASE n = 0
    <3> DEFINE f == [s \in Upto(0) |-> base]
    <3>1. \A s \in Upto(0) : s = {}
      BY <1>1, FS_EmptySet
    <3>2. Folds(f, order, base, Upto(0))
      BY <3>1 DEF Folds
    <3> QED BY <2>1, <2>2, <3>2
  <2>3. CASE n # 0
    <3>1. n \in Nat /\ n - 1 \in Nat /\ n - 1 \notin T
      <4>1. n \in Nat /\ \A m \in T : n <= m
        BY <2>1
      <4> HIDE DEF T
      <4>2. n - 1 \in Nat /\ ~(n <= n - 1)
        BY <2>3, <4>1
      <4> QED BY <4>1, <4>2
    <3>2. PICK f : Folds(f, order, base, Upto(n - 1))
      BY <3>1
    <3> DEFINE Of(g, s) == IF s = {} THEN base
                           ELSE OneStep(order, g[s \ {Chosen(order, s)}], Chosen(order, s))
               g == [s \in Upto(n) |-> Of(f, s)]
    <3>3. ASSUME NEW s \in Upto(n) PROVE Of(f, s) = Of(g, s)
      <4>1. CASE s = {}
        BY <4>1
      <4>2. CASE s # {}
        <5> DEFINE t == s \ {Chosen(order, s)}
        <5>1. t \in SUBSET S /\ Cardinality(t) = Cardinality(s) - 1
          <6>1. Chosen(order, s) \in s /\ IsFiniteSet(s)
            BY <1>1, <4>2
          <6> QED BY <6>1, FS_RemoveElement
        <5>2. t \in Upto(n - 1) /\ t \in Upto(n)
          BY <1>1, <2>1, <5>1
        <5>3. f[t] = Of(f, t)
          BY <3>2, <5>2 DEF Folds
        <5>4. g[t] = Of(f, t)
          BY <5>2
        <5> QED BY <4>2, <5>3, <5>4
      <4> QED BY <4>1, <4>2
    <3>4. Folds(g, order, base, Upto(n))
      BY <3>3 DEF Folds
    <3> QED BY <2>1, <3>4
  <2> QED BY <2>2, <2>3
<1>3. Cardinality(S) \in Nat /\ Upto(Cardinality(S)) = SUBSET S
  BY <1>1, FS_Subset, FS_CardinalityType
<1> QED BY <1>2, <1>3

(* However many steps a fold takes, what waits and what is spoken is the   *)
(* same.                                                                   *)
LEMMA FoldSpeaksOn ==
  ASSUME NEW order, NEW base, NEW S, IsFiniteSet(S),
         \A s \in SUBSET S : s # {} => Chosen(order, s) \in s,
         NEW f, Folds(f, order, base, SUBSET S)
  PROVE  SpeaksOn(f[S], base)
<1> DEFINE T == {n \in Nat : \E s \in SUBSET S : Cardinality(s) = n /\ ~SpeaksOn(f[s], base)}
<1>1. \A s \in SUBSET S : IsFiniteSet(s) /\ Cardinality(s) \in Nat
  BY FS_Subset, FS_CardinalityType
<1>2. ASSUME NEW q, NEW x PROVE SpeaksOn(OneStep(order, q, x), q)
  <2> DEFINE p == [q EXCEPT !.expected[x] = 0]
  <2>1. SpeaksOn(p, q)
    BY DEF SpeaksOn, IsQueue, QueueFields
  <2> HIDE DEF p
  <2>2. SpeaksOn(RecordClosed(p, x), q)
    BY <2>1, ClosedSpeaksOn DEF SpeaksOn
  <2>3. SpeaksOn(CancelJob(q, order[x]), q)
    BY CancelJobSpeaksOn
  <2> QED BY <2>2, <2>3 DEF OneStep, Forget, p
<1>3. ASSUME T # {} PROVE FALSE
  <2>1. PICK n \in T : \A m \in T : n <= m
    BY <1>3, LeastNumber
  <2>2. PICK s \in SUBSET S : Cardinality(s) = n /\ ~SpeaksOn(f[s], base)
    BY <2>1
  <2>3. CASE s = {}
    BY <2>2, <2>3 DEF Folds, SpeaksOn
  <2>4. CASE s # {}
    <3> DEFINE x == Chosen(order, s)
               t == s \ {x}
    <3>1. t \in SUBSET S /\ Cardinality(t) = n - 1 /\ n - 1 \in Nat
      <4>1. x \in s /\ t \in SUBSET S /\ IsFiniteSet(s) /\ Cardinality(s) = n
        BY <1>1, <2>2, <2>4
      <4>2. Cardinality(t) = Cardinality(s) - 1
        BY <4>1, FS_RemoveElement
      <4>3. n \in Nat /\ Cardinality(t) \in Nat
        BY <1>1, <2>1, <4>1
      <4> QED BY <4>1, <4>2, <4>3
    <3>2. SpeaksOn(f[t], base)
      BY <2>1, <3>1
    <3>3. f[s] = OneStep(order, f[t], x)
      BY <2>4 DEF Folds
    <3> HIDE DEF t, x
    <3>4. SpeaksOn(OneStep(order, f[t], x), f[t])
      BY <1>2
    <3> QED BY <2>2, <3>2, <3>3, <3>4 DEF SpeaksOn
  <2> QED BY <2>3, <2>4
<1>4. Cardinality(S) \in Nat /\ S \in SUBSET S
  BY <1>1
<1> QED BY <1>3, <1>4

(* A finite set of numbers that is not empty has a greatest one.           *)
LEMMA MaxIsOneOf ==
  ASSUME NEW n \in Nat, NEW s \in SUBSET (1 .. n), s # {}
  PROVE  Max(s) \in s
<1> DEFINE T == {k \in Nat : \A x \in s : x <= k}
<1>1. T # {}
  BY DEF T
<1>2. PICK k \in T : \A m \in T : k <= m
  BY <1>1, LeastNumber
<1>3. k \in s
  <2>1. ASSUME k \notin s PROVE FALSE
    <3>1. \A x \in s : x \in Nat /\ x >= 1 /\ x <= k
      BY <1>2
    <3>2. ASSUME NEW x \in s PROVE x <= k - 1
      <4>1. x \in Nat /\ k \in Nat /\ x <= k /\ x # k
        BY <1>2, <2>1, <3>1
      <4> QED BY <4>1
    <3>3. k - 1 \in Nat
      <4>1. PICK x \in s : TRUE
        OBVIOUS
      <4>2. k \in Nat /\ x \in Nat /\ x >= 1 /\ x <= k
        BY <1>2, <3>1
      <4> QED BY <4>2
    <3> QED BY <1>2, <3>2, <3>3
  <2> QED BY <2>1
<1>4. \A y \in s : k >= y
  BY <1>2
<1> QED BY <1>3, <1>4 DEF Max

(* Cancelling jobs one after the other leaves what waits and what is       *)
(* spoken.                                                                 *)
LEMMA JobsSpeakOn ==
  ASSUME NEW base, NEW n \in Nat, NEW jobs, DOMAIN jobs = 1 .. n
  PROVE  SpeaksOn(FoldLeft(CancelJob, base, jobs), base)
<1> DEFINE D == DOMAIN jobs
           F(f) == [s \in SUBSET D |-> IF s = {} THEN base
                                       ELSE CancelJob(f[s \ {Max(s)}], jobs[Max(s)])]
           iter == CHOOSE f : f = F(f)
<1>1. FoldLeft(CancelJob, base, jobs) = iter[D]
  BY DEF FoldLeft, MapThenFoldSet
<1>2. CASE jobs = <<>>
  <2>1. D = {}
    BY <1>2
  <2> DEFINE f0 == [s \in SUBSET D |-> base]
  <2>2. f0 = F(f0)
    BY <2>1
  <2>3. iter = F(iter)
    BY <2>2
  <2> HIDE DEF iter
  <2>4. iter[D] = base
    BY <2>1, <2>3
  <2> QED BY <1>1, <2>4 DEF SpeaksOn
<1>3. CASE jobs # <<>>
  <2>1. IsFiniteSet(D) /\ \A s \in SUBSET D : s # {} => Chosen(jobs, s) \in s
    <3>1. IsFiniteSet(D)
      BY FS_Interval
    <3>2. ASSUME NEW s \in SUBSET D, s # {} PROVE Chosen(jobs, s) \in s
      <4>1. Max(s) \in s
        BY <3>2, MaxIsOneOf
      <4> QED BY <1>3, <4>1 DEF Chosen
    <3> QED BY <3>1, <3>2
  <2>2. \A f : Folds(f, jobs, base, SUBSET D) <=> f = F(f)
    BY <1>3 DEF Folds, OneStep, Chosen
  <2>3. \E f : f = F(f)
    BY <2>1, <2>2, FoldExists
  <2>4. iter = F(iter)
    BY <2>3
  <2> HIDE DEF iter
  <2>5. Folds(iter, jobs, base, SUBSET D)
    BY <2>2, <2>4
  <2> QED BY <1>1, <2>1, <2>5, FoldSpeaksOn
<1> QED BY <1>2, <1>3

(* So does closing responses one after the other.                          *)
LEMMA ResponsesSpeakOn ==
  ASSUME NEW base, NEW S, IsFiniteSet(S)
  PROVE  SpeaksOn(FoldSet(LAMBDA r, s : RecordClosed([s EXCEPT !.expected[r] = 0], r), base, S),
                  base)
<1> DEFINE F(f) == [s \in SUBSET S |->
                      IF s = {} THEN base
                      ELSE RecordClosed([f[s \ {CHOOSE x \in s : TRUE}]
                                           EXCEPT !.expected[CHOOSE x \in s : TRUE] = 0],
                                        CHOOSE x \in s : TRUE)]
           iter == CHOOSE f : f = F(f)
<1>1. FoldSet(LAMBDA r, s : RecordClosed([s EXCEPT !.expected[r] = 0], r), base, S) = iter[S]
  BY DEF FoldSet, MapThenFoldSet
<1>2. \A s \in SUBSET S : s # {} => Chosen(<<>>, s) \in s
  BY DEF Chosen
<1>3. \A f : Folds(f, <<>>, base, SUBSET S) <=> f = F(f)
  BY DEF Folds, OneStep, Forget, Chosen
<1>4. \E f : f = F(f)
  <2>1. PICK f : Folds(f, <<>>, base, SUBSET S)
    BY <1>2, FoldExists
  <2>2. Folds(f, <<>>, base, SUBSET S) <=> f = F(f)
    BY <1>3
  <2> HIDE DEF F
  <2> QED BY <2>1, <2>2
<1>5. iter = F(iter)
  BY <1>4
<1> HIDE DEF iter
<1>6. Folds(iter, <<>>, base, SUBSET S)
  BY <1>3, <1>5
<1> QED BY <1>1, <1>2, <1>6, FoldSpeaksOn

(* A cancellation leaves the lease with the job that has it.               *)
LEMMA CancelJobsIs ==
  ASSUME NEW q, IsQueue(q), NEW jobs, NEW closing, IsFiniteSet(closing)
  PROVE  LET p == CancelJobs(q, jobs, closing)
         IN  IsQueue(p) /\ p.lease.job = q.lease.job
<1> DEFINE silenced == [q EXCEPT !.closed = @ \cup closing,
                                 !.idleOrder = Without(@, closing)]
           order == Within(LiveInOrder(q), jobs)
           cancel == FoldLeft(CancelJob, silenced, order)
           unlisted == {r \in closing : LiveJobs(cancel, r) = {}}
           removed == [cancel EXCEPT !.pending = Without(@, jobs)]
           last == FoldSet(LAMBDA r, s : RecordClosed([s EXCEPT !.expected[r] = 0], r),
                           removed, unlisted)
<1>1. CancelJobs(q, jobs, closing) = last
  BY DEF CancelJobs
<1>2. SpeaksOn(silenced, q)
  BY DEF SpeaksOn, IsQueue, QueueFields
<1>3. \E n \in Nat : DOMAIN order = 1 .. n
  <2> DEFINE T == Jobs \cup {q.active}
             live == LiveInOrder(q)
  <2>1. live \in Seq(T)
    <3>1. q.pending \in Seq(T)
      BY DEF IsQueue
    <3> DEFINE spoken == IF q.active # None /\ q.entry[q.active] \in Live
                           THEN <<q.active>> ELSE <<>>
    <3>2. spoken \in Seq(T)
      <4>1. q.active \in T
        OBVIOUS
      <4> HIDE DEF T
      <4>2. <<q.active>> \in Seq(T) /\ <<>> \in Seq(T)
        BY <4>1
      <4> QED BY <4>2
    <3> HIDE DEF spoken, T
    <3>3. spoken \o q.pending \in Seq(T)
      BY <3>1, <3>2
    <3> QED BY <3>3 DEF LiveInOrder, spoken
  <2> HIDE DEF live
  <2>2. {i \in 1 .. Len(live) : live[i] \in jobs} \in SUBSET (1 .. Len(live))
    OBVIOUS
  <2>3. Within(live, jobs) \in Seq(T)
    BY <2>1, <2>2, KeptIs DEF Within
  <2> QED BY <2>3 DEF live
<1>4. IsFiniteSet(unlisted)
  BY FS_Subset
<1> HIDE DEF silenced, order, unlisted
<1>5. SpeaksOn(cancel, silenced)
  BY <1>3, JobsSpeakOn
<1>6. IsQueue(cancel) /\ cancel.pending = q.pending /\ cancel.lease.job = q.lease.job
  BY <1>2, <1>5 DEF SpeaksOn
<1> HIDE DEF cancel
<1>7. Without(q.pending, jobs) \in Seq(Jobs)
  <2> DEFINE wait == q.pending
  <2>1. wait \in Seq(Jobs)
    BY DEF IsQueue
  <2> HIDE DEF wait
  <2>2. {i \in 1 .. Len(wait) : wait[i] \notin jobs} \in SUBSET (1 .. Len(wait))
    OBVIOUS
  <2>3. Without(wait, jobs) \in Seq(Jobs)
    BY <2>1, <2>2, KeptIs DEF Without
  <2> QED BY <2>3 DEF wait
<1>8. IsQueue(removed) /\ removed.lease.job = q.lease.job
  BY <1>6, <1>7 DEF IsQueue, QueueFields
<1> HIDE DEF removed
<1>9. SpeaksOn(last, removed)
  BY <1>4, ResponsesSpeakOn
<1> HIDE DEF last
<1> QED BY <1>1, <1>8, <1>9 DEF SpeaksOn

(* A phrase that is over gives up its lease.                               *)
LEMMA FinishIs ==
  ASSUME NEW q, IsQueue(q)
  PROVE  IsQueue(Finish(q)) /\ Finish(q).lease.job = None
<1> DEFINE j == q.lease.job
           done == [q EXCEPT !.lease = [job |-> None, evicted |-> FALSE]]
           over == [done EXCEPT !.entry[j] = "finished", !.active = None]
           free == [done EXCEPT !.active = None]
<1>1. Finish(q) \in {RecordTerminal(over, j), free, done}
  BY DEF Finish
<1>2. IsQueue(done) /\ done.lease.job = None
  BY DEF IsQueue, QueueFields
<1> HIDE DEF done, j
<1>3. IsQueue(over) /\ over.lease.job = None /\ IsQueue(free) /\ free.lease.job = None
  BY <1>2 DEF IsQueue, QueueFields
<1> HIDE DEF over, free
<1>4. SpeaksOn(RecordTerminal(over, j), over)
  BY TerminalSpeaksOn
<1> QED BY <1>1, <1>2, <1>3, <1>4 DEF SpeaksOn

(* The next job is one that waited, and it has the lease.                  *)
LEMMA TakeIs ==
  ASSUME NEW q, IsQueue(q), HasNext(q)
  PROVE  NextJob(q) \in Jobs /\ IsQueue(Take(q)) /\ Take(q).lease.job = NextJob(q)
<1> DEFINE wait == q.pending
<1>1. wait \in Seq(Jobs) /\ wait # <<>>
  BY DEF IsQueue, HasNext
<1> HIDE DEF wait
<1>2. Head(wait) \in Jobs /\ Tail(wait) \in Seq(Jobs)
  BY <1>1
<1>3. /\ Take(q).pending = Tail(wait) /\ Take(q).lease = [job |-> Head(wait), evicted |-> FALSE]
      /\ QueueFields \subseteq DOMAIN Take(q)
  BY DEF Take, NextJob, IsQueue, QueueFields, wait
<1>4. NextJob(q) = Head(wait)
  BY DEF NextJob, wait
<1> QED BY <1>2, <1>3, <1>4 DEF IsQueue

(* A new job comes to wait; the lease stays.                               *)
LEMMA EnqueueIs ==
  ASSUME NEW q, IsQueue(q), NEW j \in Jobs
  PROVE  IsQueue(Enqueue(q, j)) /\ Enqueue(q, j).lease.job = q.lease.job
<1>1. Append(q.pending, j) \in Seq(Jobs)
  BY DEF IsQueue
<1>2. /\ Enqueue(q, j).pending = Append(q.pending, j) /\ Enqueue(q, j).lease = q.lease
      /\ QueueFields \subseteq DOMAIN Enqueue(q, j)
  BY DEF Enqueue, IsQueue, QueueFields
<1> QED BY <1>1, <1>2 DEF IsQueue

(* A job that starts to be streamed keeps its lease.                       *)
LEMMA StreamingIs ==
  ASSUME NEW q, IsQueue(q), NEW j
  PROVE  IsQueue(MarkStreaming(q, j)) /\ MarkStreaming(q, j).lease.job = q.lease.job
  BY DEF MarkStreaming, IsQueue, QueueFields

(* So does a job whose session is closed.                                  *)
LEMMA CloseIs ==
  ASSUME NEW q, IsQueue(q)
  PROVE  IsQueue(Close(q)) /\ Close(q).lease.job = q.lease.job
<1> DEFINE p == [q EXCEPT !.shut = TRUE]
<1>1. IsQueue(p) /\ p.lease.job = q.lease.job
  BY DEF IsQueue, QueueFields
<1>2. IsFiniteSet(LiveResponses(q))
  BY QueueAssumption, FS_Subset DEF LiveResponses
<1> HIDE DEF p
<1> QED BY <1>1, <1>2, CancelJobsIs DEF Close, p

-----------------------------------------------------------------------------
(* Credit *)

IsWindow(w) ==
  /\ w \in [frame : [Frames -> FrameStates], outstanding : Nat]
  /\ w.outstanding = Cardinality(Reserved(w))

(* There are finitely many frames.                                         *)
LEMMA FramesAreFinite ==
  ASSUME NEW S \in SUBSET Frames
  PROVE  IsFiniteSet(S) /\ Cardinality(S) \in Nat
<1>1. IsFiniteSet(1 .. MaxFrames)
  BY SessionAssumption, FS_Interval
<1>2. IsFiniteSet(Frames)
  BY <1>1, QueueAssumption, SessionAssumption, FS_Product
<1>3. IsFiniteSet(S)
  BY <1>2, FS_Subset
<1> QED BY <1>3, FS_CardinalityType

(* A frame that holds credit may change its state and holds it on.         *)
LEMMA SameCredit ==
  ASSUME NEW w, IsWindow(w), NEW f, NEW s \in FrameStates \ {"none"},
         f \in Frames => w.frame[f] # "none"
  PROVE  LET v == [w EXCEPT !.frame[f] = s]
         IN  IsWindow(v) /\ Reserved(v) = Reserved(w)
<1> DEFINE v == [w EXCEPT !.frame[f] = s]
<1>1. v \in [frame : [Frames -> FrameStates], outstanding : Nat] /\ v.outstanding = w.outstanding
  BY DEF IsWindow
<1>2. Reserved(v) = Reserved(w)
  BY DEF IsWindow, Reserved, FrameStates
<1> QED BY <1>1, <1>2 DEF IsWindow

(* The credit of one frame is returned, once.                              *)
LEMMA CreditReturned ==
  ASSUME NEW w, IsWindow(w), NEW f \in Reserved(w)
  PROVE  IsWindow(Returned(w, f)) /\ Reserved(Returned(w, f)) = Reserved(w) \ {f}
<1> DEFINE v == Returned(w, f)
<1>1. /\ w \in [frame : [Frames -> FrameStates], outstanding : Nat] /\ f \in Frames
      /\ "none" \in FrameStates
  BY DEF IsWindow, Reserved, FrameStates
<1>2. /\ v.outstanding = w.outstanding - 1
      /\ v.frame = [w.frame EXCEPT ![f] = "none"]
  BY <1>1 DEF Returned
<1>3. v \in [frame : [Frames -> FrameStates], outstanding : Int]
  <2> DEFINE now  == [w.frame EXCEPT ![f] = "none"]
             left == w.outstanding - 1
  <2>1. now \in [Frames -> FrameStates] /\ left \in Int
    BY <1>1
  <2>2. v = [[w EXCEPT !.frame = now] EXCEPT !.outstanding = left]
    BY DEF Returned
  <2> HIDE DEF v, now, left
  <2>3. [w EXCEPT !.frame = now] \in [frame : [Frames -> FrameStates], outstanding : Int]
    BY <1>1, <2>1
  <2> QED BY <2>1, <2>2, <2>3
<1>4. Reserved(v) = Reserved(w) \ {f}
  BY <1>1, <1>2 DEF Reserved
<1>5. IsFiniteSet(Reserved(w))
  BY FramesAreFinite DEF Reserved
<1>6. Cardinality(Reserved(w) \ {f}) = Cardinality(Reserved(w)) - 1
  BY <1>5, FS_RemoveElement
<1>7. Cardinality(Reserved(v)) \in Nat
  BY FramesAreFinite DEF Reserved
<1> HIDE DEF v
<1>8. v.outstanding = Cardinality(Reserved(v))
  BY <1>2, <1>4, <1>6 DEF IsWindow
<1> QED BY <1>3, <1>4, <1>7, <1>8 DEF IsWindow, v

(* Credit is taken for a frame that held none.                             *)
LEMMA CreditTaken ==
  ASSUME NEW w, IsWindow(w), NEW f \in Frames \ Reserved(w)
  PROVE  IsWindow(Reserve(w, f)) /\ Reserved(Reserve(w, f)) = Reserved(w) \cup {f}
<1> DEFINE v == Reserve(w, f)
<1>1. /\ w \in [frame : [Frames -> FrameStates], outstanding : Nat] /\ f \in Frames
      /\ "reserved" \in FrameStates
  BY DEF IsWindow, Reserved, FrameStates
<1>2. /\ v.outstanding = w.outstanding + 1
      /\ v.frame = [w.frame EXCEPT ![f] = "reserved"]
  BY <1>1 DEF Reserve
<1>3. v \in [frame : [Frames -> FrameStates], outstanding : Int]
  <2> DEFINE now  == [w.frame EXCEPT ![f] = "reserved"]
             left == w.outstanding + 1
  <2>1. now \in [Frames -> FrameStates] /\ left \in Int
    BY <1>1
  <2>2. v = [[w EXCEPT !.frame = now] EXCEPT !.outstanding = left]
    BY DEF Reserve
  <2> HIDE DEF v, now, left
  <2>3. [w EXCEPT !.frame = now] \in [frame : [Frames -> FrameStates], outstanding : Int]
    BY <1>1, <2>1
  <2> QED BY <2>1, <2>2, <2>3
<1>4. Reserved(v) = Reserved(w) \cup {f}
  BY <1>1, <1>2 DEF Reserved
<1>5. IsFiniteSet(Reserved(w))
  BY FramesAreFinite DEF Reserved
<1>6. Cardinality(Reserved(w) \cup {f}) = Cardinality(Reserved(w)) + 1
  BY <1>5, FS_AddElement
<1>7. Cardinality(Reserved(v)) \in Nat
  BY FramesAreFinite DEF Reserved
<1> HIDE DEF v
<1>8. v.outstanding = Cardinality(Reserved(v))
  BY <1>2, <1>4, <1>6 DEF IsWindow
<1> QED BY <1>3, <1>4, <1>7, <1>8 DEF IsWindow, v

(* All credit of some frames is returned, each frame's once.               *)
LEMMA AllReturned ==
  ASSUME NEW w, IsWindow(w), NEW S
  PROVE  IsWindow(ReturnAll(w, S)) /\ Reserved(ReturnAll(w, S)) = Reserved(w) \ S
<1> DEFINE v == ReturnAll(w, S)
           held == Reserved(w)
<1>1. Reserved(v) = held \ S /\ v.outstanding = w.outstanding - Cardinality(S \cap held)
      /\ v.frame \in [Frames -> FrameStates]
      /\ v = [frame |-> v.frame, outstanding |-> v.outstanding]
  BY DEF IsWindow, Reserved, FrameStates, ReturnAll
<1>2. held \in SUBSET Frames
  BY DEF Reserved
<1>3. held \ S \in SUBSET Frames /\ S \cap held \in SUBSET Frames
  BY <1>2
<1> HIDE DEF v, held
<1>4. IsFiniteSet(held \ S) /\ IsFiniteSet(S \cap held)
  BY <1>3, FramesAreFinite
<1>5. Cardinality(held \ S) \in Nat /\ Cardinality(S \cap held) \in Nat
  BY <1>3, FramesAreFinite
<1>6. /\ held = (held \ S) \cup (S \cap held)
      /\ (held \ S) \cap (S \cap held) = {}
  OBVIOUS
<1>7. Cardinality((held \ S) \cap (S \cap held)) = 0
  BY <1>6, FS_EmptySet
<1>8. Cardinality((held \ S) \cup (S \cap held))
        = Cardinality(held \ S) + Cardinality(S \cap held)
          - Cardinality((held \ S) \cap (S \cap held))
  BY <1>4, FS_Union
<1>9. Cardinality(held) = Cardinality(held \ S) + Cardinality(S \cap held)
  BY <1>5, <1>6, <1>7, <1>8
<1>10. v.outstanding = Cardinality(held \ S)
  BY <1>1, <1>5, <1>9 DEF IsWindow, held
<1> QED BY <1>1, <1>5, <1>10 DEF IsWindow, v, held

(* At first no credit is taken.                                            *)
LEMMA NoCredit == IsWindow(EmptyWindow) /\ Reserved(EmptyWindow) = {}
<1>1. Reserved(EmptyWindow) = {}
  BY DEF Reserved, EmptyWindow
<1>2. EmptyWindow \in [frame : [Frames -> FrameStates], outstanding : Nat]
  BY DEF EmptyWindow, FrameStates
<1>3. Cardinality(Reserved(EmptyWindow)) = 0
  BY <1>1, FS_EmptySet
<1> QED BY <1>1, <1>2, <1>3 DEF IsWindow, EmptyWindow

(***************************************************************************)
(* Credit is returned, for any jobs, any window, any length of phrases.    *)
(*                                                                         *)
(* CreditInv is inductive.  That only the job with the lease holds credit  *)
(* is kept by the worker, which returns all of it before it lets the lease *)
(* go; for that it must be known where the worker is when credit is held,  *)
(* and that the frames that hold some are behind the one it reserves next, *)
(* or one frame would take credit twice.                                   *)
(***************************************************************************)

Batches ==
  {b \in [kind : Scoped \cup {"none", "cancelled"}, jobs : SUBSET Jobs,
          frame : 0 .. MaxFrames, stage : {"first", "audio"}, cancelled : BOOLEAN] :
     /\ b.kind = "audio" => b.frame # 0 /\ \E j \in Jobs : b.jobs = {j}
     /\ b.stage = "audio" => b.kind = "audio"}

Speaks == {"reserve", "sending", "draining"}

Workers ==
  [at : {"next", "synthesizing", "ended"} \cup Speaks,
   frame : 0 .. MaxFrames, frames : 0 .. MaxFrames,
   sent : {"none", "pending", "yes", "no"}]

Cancels == [on : BOOLEAN, jobs : SUBSET Jobs, fenced : BOOLEAN]

CreditTyped ==
  /\ IsQueue(queue)
  /\ IsWindow(window)
  /\ worker \in Workers
  /\ outbound \in Seq(Batches)
  /\ sending \in Batches
  /\ cancelling \in Cancels

WorkerHasJob ==
  /\ Job \in Jobs \cup {None}
  /\ worker.at \in {"next", "ended"} <=> Job = None
  /\ worker.at \in Speaks => worker.frame \in 1 .. worker.frames

FramesBehind ==
  \A f \in Reserved(window) :
    /\ f[1] = Job
    /\ worker.at \in Speaks
    /\ f[2] <= worker.frame
    /\ worker.at = "reserve" => f[2] # worker.frame

CreditInv ==
  /\ CreditTyped
  /\ WorkerHasJob
  /\ FramesBehind

-----------------------------------------------------------------------------
(* A batch without audio is well formed.                                   *)
LEMMA BatchIs ==
  ASSUME NEW kind \in {"none", "started", "finished", "cancelled"}, NEW jobs \in SUBSET Jobs
  PROVE  Batch(kind, jobs, 0) \in Batches
  BY SessionAssumption DEF Batch, Batches, Scoped

(* So is a batch of audio.                                                 *)
LEMMA AudioIs ==
  ASSUME NEW j \in Jobs, NEW n \in 1 .. MaxFrames
  PROVE  Batch("audio", {j}, n) \in Batches
  BY SessionAssumption DEF Batch, Batches, Scoped

(* A batch of audio is of one frame.                                       *)
LEMMA SentIs ==
  ASSUME NEW b \in Batches, b.kind = "audio"
  PROVE  Sent(b) \in Frames
<1>1. PICK j \in Jobs : b.jobs = {j}
  BY DEF Batches
<1>2. (CHOOSE i \in b.jobs : TRUE) = j
  BY <1>1
<1>3. b.frame \in 1 .. MaxFrames
  BY SessionAssumption DEF Batches
<1>4. Sent(b) = <<j, b.frame>>
  BY <1>2 DEF Sent
<1>5. <<j, b.frame>> \in Jobs \X (1 .. MaxFrames)
  BY <1>3
<1> QED BY <1>4, <1>5, SessionAssumption

(* What is queued stays well formed when a batch is added ...              *)
LEMMA QueuedIs ==
  ASSUME NEW batches \in Seq(Batches), NEW b \in Batches
  PROVE  Queued(batches, b) \in Seq(Batches)
  BY DEF Queued

(* ... and when batches are taken out.                                     *)
LEMMA PurgedIs ==
  ASSUME CreditTyped, NEW jobs
  PROVE  Purged(jobs) \in Seq(Batches)
<1>1. {i \in 1 .. Len(outbound) : ~Concerns(outbound[i], jobs)} \in SUBSET (1 .. Len(outbound))
  OBVIOUS
<1>2. outbound \in Seq(Batches)
  BY DEF CreditTyped
<1> QED BY <1>1, <1>2, KeptIs DEF Purged

(* A cancellation that is told to the browser returns the credit of its    *)
(* jobs.                                                                   *)
LEMMA TellsIs ==
  ASSUME CreditTyped, NEW batches \in Seq(Batches), NEW jobs \in SUBSET Jobs,
         TellsBrowser(batches, jobs)
  PROVE  /\ IsWindow(window') /\ outbound' \in Seq(Batches)
         /\ Reserved(window') = Reserved(window) \ FramesOf(jobs)
<1>1. Queued(batches, Batch("cancelled", jobs, 0)) \in Seq(Batches)
  BY BatchIs, QueuedIs
<1>2. Announced(batches, jobs) \in Seq(Batches)
  BY <1>1 DEF Announced
<1>3. IsWindow(window)
  BY DEF CreditTyped
<1> QED BY <1>2, <1>3, AllReturned DEF TellsBrowser

(* A frame that holds credit is of some jobs when its own job is among     *)
(* them.                                                                   *)
LEMMA OfFrames ==
  ASSUME NEW w, NEW f \in Reserved(w), NEW jobs
  PROVE  f \in FramesOf(jobs) <=> f[1] \in jobs
  BY DEF Reserved, FramesOf

\* The window holds no more than it did, and worker and job are the same.
LEMMA LessIsHeld ==
  ASSUME CreditInv, CreditTyped', Job' = Job,
         Reserved(window') \in SUBSET Reserved(window),
         worker'.at = worker.at, worker'.frame = worker.frame, worker'.frames = worker.frames
  PROVE  CreditInv'
  BY DEF CreditInv, WorkerHasJob, FramesBehind

\* All of the job is returned, and the worker is idle.
LEMMA JobIsLeft ==
  ASSUME CreditInv, CreditTyped', Job' = None, worker' = IdleWorker,
         Reserved(window') \in SUBSET Reserved(window),
         \A f \in Reserved(window') : f[1] # Job
  PROVE  CreditInv'
<1>1. WorkerHasJob'
  BY DEF IdleWorker, WorkerHasJob, Speaks
<1>2. Reserved(window') = {}
  BY DEF CreditInv, FramesBehind
<1> QED BY <1>1, <1>2 DEF CreditInv, FramesBehind

(* An idle worker is well formed.                                          *)
LEMMA IdleIs == IdleWorker \in Workers
  BY SessionAssumption DEF IdleWorker, Workers

(* At first nothing is held.                                               *)
LEMMA CreditInvInit == Init => CreditInv
<1> SUFFICES ASSUME Init PROVE CreditInv
  OBVIOUS
<1>1. IsQueue(queue) /\ Job = None
  <2>1. queue = EmptyQueue /\ <<>> \in Seq(Jobs)
    BY DEF Init
  <2>2. EmptyQueue.pending = <<>> /\ EmptyQueue.lease = [job |-> None, evicted |-> FALSE]
    BY DEF EmptyQueue
  <2>3. QueueFields \subseteq DOMAIN EmptyQueue
    BY DEF EmptyQueue, QueueFields
  <2>4. {"job", "evicted"} \subseteq DOMAIN EmptyQueue.lease /\ EmptyQueue.lease.job = None
    BY <2>2
  <2> QED BY <2>1, <2>2, <2>3, <2>4 DEF IsQueue, Job
<1>2. IsWindow(window) /\ Reserved(window) = {}
  BY NoCredit DEF Init
<1>3. NoBatch \in Batches
  BY BatchIs DEF NoBatch
<1>4. cancelling \in Cancels
  BY DEF Init, Cancels, NoCancel
<1>5. worker \in Workers /\ worker.at = "next"
  BY IdleIs DEF Init, IdleWorker
<1>6. outbound \in Seq(Batches) /\ sending \in Batches
  BY <1>3 DEF Init
<1> QED BY <1>1, <1>2, <1>4, <1>5, <1>6
        DEF CreditInv, CreditTyped, WorkerHasJob, FramesBehind, Speaks

-----------------------------------------------------------------------------
(* The receive task *)

(* A submission: only what waits changes.                                  *)
LEMMA CreditSubmits ==
  ASSUME CreditInv, NEW j \in Jobs, Submits(j)
  PROVE  CreditInv'
<1>1. queue' = Enqueue(queue, j) /\ UNCHANGED <<window, worker, outbound, sending, cancelling>>
  BY DEF Submits
<1>2. IsQueue(queue') /\ Job' = Job
  BY <1>1, EnqueueIs DEF CreditInv, CreditTyped, Job
<1>3. CreditTyped'
  BY <1>1, <1>2 DEF CreditInv, CreditTyped
<1> QED BY <1>1, <1>2, <1>3, LessIsHeld

(* A cancellation: the credit of what it hits is returned at once, or      *)
(* when the batch under way is over.                                       *)
LEMMA CreditCancels ==
  ASSUME CreditInv, NEW jobs \in SUBSET Jobs, NEW closing \in SUBSET Responses,
         CancelsScope(jobs, closing)
  PROVE  CreditInv'
<1> DEFINE hit == Hit(jobs)
<1>1. hit \in SUBSET jobs
  BY DEF Hit
<1>2. IsFiniteSet(closing)
  BY QueueAssumption, FS_Subset
<1>3. queue' = CancelJobs(queue, jobs, closing)
  BY DEF CancelsScope
<1>4. IsQueue(queue') /\ Job' = Job
  BY <1>2, <1>3, CancelJobsIs DEF CreditInv, CreditTyped, Job
<1>5. worker' \in Workers /\ worker'.at = worker.at
      /\ worker'.frame = worker.frame /\ worker'.frames = worker.frames
  BY DEF CreditInv, CreditTyped, CancelsScope, Workers
<1>6. Purged(hit) \in Seq(Batches)
  BY PurgedIs DEF CreditInv
<1> HIDE DEF hit
<1>7. CASE Fenced(hit)
  <2>1. /\ sending' = [sending EXCEPT !.cancelled = TRUE]
        /\ cancelling' = [on |-> TRUE, jobs |-> hit, fenced |-> TRUE]
        /\ outbound' = Purged(hit) /\ window' = window
    BY <1>7 DEF CancelsScope, hit
  <2>2. sending' \in Batches
    BY <2>1 DEF CreditInv, CreditTyped, Batches
  <2>3. cancelling' \in Cancels
    BY <1>1, <2>1 DEF Cancels
  <2>4. CreditTyped'
    BY <1>4, <1>5, <1>6, <2>1, <2>2, <2>3 DEF CreditInv, CreditTyped
  <2> QED BY <1>4, <1>5, <2>1, <2>4, LessIsHeld
<1>8. CASE ~Fenced(hit)
  <2>1. TellsBrowser(Purged(hit), hit) /\ sending' = sending /\ cancelling' = cancelling
    BY <1>8 DEF CancelsScope, hit
  <2>2. /\ IsWindow(window') /\ outbound' \in Seq(Batches)
        /\ Reserved(window') = Reserved(window) \ FramesOf(hit)
    BY <1>1, <1>6, <2>1, TellsIs DEF CreditInv
  <2>3. CreditTyped'
    BY <1>4, <1>5, <2>1, <2>2 DEF CreditInv, CreditTyped
  <2> QED BY <1>4, <1>5, <2>1, <2>2, <2>3, LessIsHeld
<1> QED BY <1>7, <1>8

(* Every cancellation the browser can ask for is such a cancellation.      *)
LEMMA CreditBrowserCancels ==
  ASSUME CreditInv, BrowserCancels
  PROVE  CreditInv'
<1>1. PICK jobs \in SUBSET Jobs, closing \in SUBSET Responses : CancelsScope(jobs, closing)
  BY DEF BrowserCancels, LiveResponses
<1> QED BY <1>1, CreditCancels

(* A confirmation: at most the frame's own credit is returned.             *)
LEMMA CreditAcks ==
  ASSUME CreditInv, NEW f \in Frames, Acks(f)
  PROVE  CreditInv'
<1>1. window' = Acknowledge(window, f) /\ IsWindow(window)
      /\ UNCHANGED <<queue, worker, outbound, sending, cancelling>>
  BY DEF Acks, CreditInv, CreditTyped
<1>3. IsWindow(window') /\ Reserved(window') \in SUBSET Reserved(window)
  <2>1. CASE window.frame[f] \in {"delivering", "early"}
    <3>1. window' = [window EXCEPT !.frame[f] = "early"]
      BY <1>1, <2>1 DEF Acknowledge
    <3>2. "early" \in FrameStates \ {"none"} /\ window.frame[f] # "none"
      BY <2>1 DEF FrameStates
    <3> DEFINE v == [window EXCEPT !.frame[f] = "early"]
    <3>3. IsWindow(v) /\ Reserved(v) = Reserved(window)
      BY <1>1, <3>2, SameCredit
    <3> HIDE DEF v
    <3>4. window' = v
      BY <3>1 DEF v
    <3> QED BY <3>3, <3>4
  <2>2. CASE window.frame[f] = "sent"
    <3>1. f \in Reserved(window) /\ window' = Returned(window, f)
      BY <1>1, <2>2 DEF Reserved, Acknowledge
    <3> QED BY <1>1, <3>1, CreditReturned
  <2>3. CASE window.frame[f] \notin {"delivering", "early", "sent"}
    BY <1>1, <2>3 DEF Acknowledge
  <2> QED BY <2>1, <2>2, <2>3
<1>4. CreditTyped' /\ Job' = Job
  BY <1>1, <1>3 DEF CreditInv, CreditTyped, Job
<1> QED BY <1>1, <1>3, <1>4, LessIsHeld

(* The fence is over: whatever of it still holds credit is returned.       *)
LEMMA CreditFenceOver ==
  ASSUME CreditInv, FenceOver
  PROVE  CreditInv'
<1>1. /\ TellsBrowser(outbound, cancelling.jobs)
      /\ cancelling' = NoCancel /\ UNCHANGED <<queue, worker, sending>>
  BY DEF FenceOver
<1>2. cancelling.jobs \in SUBSET Jobs /\ outbound \in Seq(Batches)
  BY DEF CreditInv, CreditTyped, Cancels
<1>3. /\ IsWindow(window') /\ outbound' \in Seq(Batches)
      /\ Reserved(window') = Reserved(window) \ FramesOf(cancelling.jobs)
  BY <1>1, <1>2, TellsIs DEF CreditInv
<1>4. cancelling' \in Cancels
  BY <1>1 DEF NoCancel, Cancels
<1>5. CreditTyped' /\ Job' = Job
  BY <1>1, <1>3, <1>4 DEF CreditInv, CreditTyped, Job
<1> QED BY <1>1, <1>3, <1>5, LessIsHeld

-----------------------------------------------------------------------------
(* The synthesis task *)

(* The worker gives its job up: all its credit is returned.                *)
LEMMA CreditGivesUp ==
  ASSUME CreditInv, GivesUp
  PROVE  CreditInv'
<1>1. /\ queue' = Finish(queue) /\ worker' = IdleWorker
      /\ window' = ReturnAll(window, FramesOf({Job}))
      /\ UNCHANGED <<outbound, sending, cancelling>>
  BY DEF GivesUp
<1>2. IsQueue(queue') /\ Job' = None
  BY <1>1, FinishIs DEF CreditInv, CreditTyped, Job
<1>3. IsWindow(window') /\ Reserved(window') = Reserved(window) \ FramesOf({Job})
  BY <1>1, AllReturned DEF CreditInv, CreditTyped
<1>4. CreditTyped'
  BY <1>1, <1>2, <1>3, IdleIs DEF CreditInv, CreditTyped
<1>5. \A f \in Reserved(window') : f[1] # Job
  BY <1>3, OfFrames
<1> QED BY <1>1, <1>2, <1>3, <1>4, <1>5, JobIsLeft

(* The rest of the response fails with the job, whose credit is among      *)
(* what is returned.                                                       *)
LEMMA CreditFails ==
  ASSUME CreditInv, Job \in Jobs, Current(queue, Job), Fails
  PROVE  CreditInv'
<1> DEFINE r    == ResponseOf[Job]
           jobs == Hit({j \in Jobs : ResponseOf[j] = r})
           rest == CancelJobs(queue, jobs, {r})
<1>1. /\ TellsBrowser(Purged(jobs), jobs) /\ queue' = Finish(rest)
      /\ worker' = IdleWorker /\ UNCHANGED <<sending, cancelling>>
  BY DEF Fails
<1>2. jobs \in SUBSET Jobs /\ Job \in jobs
  BY DEF Hit, Current
<1>3. IsFiniteSet({r})
  BY FS_Singleton
<1>4. IsQueue(queue)
  BY DEF CreditInv, CreditTyped
<1> HIDE DEF jobs, r
<1>5. IsQueue(rest)
  BY <1>3, <1>4, CancelJobsIs
<1> HIDE DEF rest
<1>6. IsQueue(queue') /\ Job' = None
  BY <1>1, <1>5, FinishIs DEF Job
<1>7. Purged(jobs) \in Seq(Batches)
  BY PurgedIs DEF CreditInv
<1>8. /\ IsWindow(window') /\ outbound' \in Seq(Batches)
      /\ Reserved(window') = Reserved(window) \ FramesOf(jobs)
  BY <1>1, <1>2, <1>7, TellsIs DEF CreditInv
<1>9. CreditTyped'
  BY <1>1, <1>6, <1>8, IdleIs DEF CreditInv, CreditTyped
<1>10. \A f \in Reserved(window') : f[1] # Job
  BY <1>2, <1>8, OfFrames
<1> QED BY <1>1, <1>6, <1>8, <1>9, <1>10, JobIsLeft

\* A phrase is started while no credit is held.
LEMMA CreditStarts ==
  ASSUME CreditInv, NEW q, IsQueue(q), NEW j \in Jobs, q.lease.job = j, Reserved(window) = {},
         NEW frames \in 1 .. MaxFrames, StartsStreaming(q, j, frames),
         UNCHANGED <<sending, cancelling>>
  PROVE  CreditInv'
<1>1. CASE MayStream(q, j)
  <2>1. /\ queue' = MarkStreaming(q, j)
        /\ worker' = [IdleWorker EXCEPT !.at = "reserve", !.frame = 1, !.frames = frames]
        /\ outbound' = Queued(outbound, Batch("started", {j}, 0))
        /\ window' = window
    BY <1>1 DEF StartsStreaming
  <2>2. IsQueue(queue') /\ Job' = j
    BY <2>1, StreamingIs DEF Job
  <2>3. /\ worker' \in Workers /\ worker'.at = "reserve"
        /\ worker'.frame = 1 /\ worker'.frames = frames
    <3>1. 1 \in 0 .. MaxFrames /\ frames \in 0 .. MaxFrames
      BY SessionAssumption
    <3>2. worker' = [at |-> "reserve", frame |-> 1, frames |-> frames, sent |-> "none"]
      BY <2>1 DEF IdleWorker
    <3> QED BY <3>1, <3>2 DEF Workers, Speaks
  <2>4. Batch("started", {j}, 0) \in Batches
    BY BatchIs
  <2>5. outbound' \in Seq(Batches)
    BY <2>1, <2>4, QueuedIs DEF CreditInv, CreditTyped
  <2>6. CreditTyped'
    BY <2>1, <2>2, <2>3, <2>5 DEF CreditInv, CreditTyped
  <2>7. WorkerHasJob'
    BY <2>2, <2>3, QueueAssumption DEF WorkerHasJob, Speaks
  <2>8. FramesBehind'
    BY <2>1 DEF FramesBehind
  <2> QED BY <2>6, <2>7, <2>8 DEF CreditInv
<1>2. CASE ~MayStream(q, j)
  <2>1. /\ queue' = Finish(q) /\ worker' = IdleWorker
        /\ window' = ReturnAll(window, FramesOf({j})) /\ outbound' = outbound
    BY <1>2 DEF StartsStreaming
  <2>2. IsQueue(queue') /\ Job' = None
    BY <2>1, FinishIs DEF Job
  <2>3. IsWindow(window') /\ Reserved(window') = {}
    BY <2>1, AllReturned DEF CreditInv, CreditTyped
  <2>4. CreditTyped'
    BY <2>1, <2>2, <2>3, IdleIs DEF CreditInv, CreditTyped
  <2> QED BY <2>1, <2>2, <2>3, <2>4, JobIsLeft
<1> QED BY <1>1, <1>2

(* The next job is taken: no frame holds credit.                           *)
LEMMA CreditTakesJob ==
  ASSUME CreditInv, TakesJob
  PROVE  CreditInv'
<1> DEFINE j == NextJob(queue)
           q == Take(queue)
<1>1. worker.at = "next" /\ HasNext(queue) /\ UNCHANGED <<sending, cancelling>>
  BY DEF TakesJob
<1>2. j \in Jobs /\ IsQueue(q) /\ q.lease.job = j
  BY <1>1, TakeIs DEF CreditInv, CreditTyped
<1>3. Reserved(window) = {}
  BY <1>1 DEF CreditInv, FramesBehind, Speaks
<1>4. CASE j \in Clips
  <2>1. PICK frames \in 1 .. MaxFrames : StartsStreaming(q, j, frames)
    BY <1>4 DEF TakesJob
  <2> HIDE DEF q, j
  <2> QED BY <1>1, <1>2, <1>3, <2>1, CreditStarts
<1>5. CASE j \notin Clips
  <2>1. /\ queue' = q /\ worker' = [worker EXCEPT !.at = "synthesizing"]
        /\ UNCHANGED <<window, outbound>>
    BY <1>5 DEF TakesJob
  <2> HIDE DEF q, j
  <2>2. worker' \in Workers /\ worker'.at = "synthesizing"
    BY <2>1 DEF CreditInv, CreditTyped, Workers
  <2>3. CreditTyped'
    BY <1>1, <1>2, <2>1, <2>2 DEF CreditInv, CreditTyped
  <2>4. Job' = j
    BY <1>2, <2>1 DEF Job
  <2>5. WorkerHasJob'
    BY <1>2, <2>2, <2>4, QueueAssumption DEF WorkerHasJob, Speaks
  <2>6. FramesBehind'
    BY <1>3, <2>1 DEF FramesBehind
  <2> QED BY <2>3, <2>5, <2>6 DEF CreditInv
<1> QED BY <1>4, <1>5

(* The phrase is ready: no frame holds credit yet.                         *)
LEMMA CreditPhraseReady ==
  ASSUME CreditInv, PhraseReady
  PROVE  CreditInv'
<1>1. PICK frames \in 1 .. MaxFrames : StartsStreaming(queue, Job, frames)
  BY DEF PhraseReady
<1>2. worker.at = "synthesizing" /\ UNCHANGED <<sending, cancelling>>
  BY DEF PhraseReady
<1>3. Job \in Jobs
  BY <1>2 DEF CreditInv, WorkerHasJob
<1>4. Reserved(window) = {}
  BY <1>2 DEF CreditInv, FramesBehind, Speaks
<1>5. IsQueue(queue) /\ queue.lease.job = Job
  BY DEF CreditInv, CreditTyped, Job
<1> QED BY <1>1, <1>2, <1>3, <1>4, <1>5, CreditStarts

(* A frame takes credit: it is ahead of those that hold some.              *)
LEMMA CreditReserves ==
  ASSUME CreditInv, Reserves
  PROVE  CreditInv'
<1> DEFINE f == <<Job, worker.frame>>
<1>1. /\ worker.at = "reserve" /\ window' = Reserve(window, f)
      /\ outbound' = Queued(outbound, Batch("audio", {Job}, worker.frame))
      /\ worker' = [worker EXCEPT !.at = "sending",
                                  !.sent = IF session = "closed" THEN "no" ELSE "pending"]
      /\ UNCHANGED <<queue, sending, cancelling>>
  BY DEF Reserves
<1>2. Job \in Jobs /\ worker.frame \in 1 .. worker.frames
  BY <1>1 DEF CreditInv, WorkerHasJob, Speaks
<1>3. worker.frame \in 1 .. MaxFrames
  BY <1>2, SessionAssumption DEF CreditInv, CreditTyped, Workers
<1>4. f \in Jobs \X (1 .. MaxFrames) /\ f[1] = Job /\ f[2] = worker.frame
  BY <1>2, <1>3
<1> HIDE DEF f
<1>5. f \in Frames \ Reserved(window)
  BY <1>1, <1>4, SessionAssumption DEF CreditInv, FramesBehind
<1>6. IsWindow(window') /\ Reserved(window') = Reserved(window) \cup {f}
  BY <1>1, <1>5, CreditTaken DEF CreditInv, CreditTyped
<1>7. Batch("audio", {Job}, worker.frame) \in Batches
  BY <1>2, <1>3, AudioIs
<1>8. outbound' \in Seq(Batches)
  BY <1>1, <1>7, QueuedIs DEF CreditInv, CreditTyped
<1>9. /\ worker' \in Workers /\ worker'.at = "sending"
      /\ worker'.frame = worker.frame /\ worker'.frames = worker.frames
  BY <1>1 DEF CreditInv, CreditTyped, Workers, Speaks
<1>10. CreditTyped' /\ Job' = Job
  BY <1>1, <1>6, <1>8, <1>9 DEF CreditInv, CreditTyped, Job
<1>11. WorkerHasJob'
  BY <1>1, <1>2, <1>9, <1>10 DEF CreditInv, WorkerHasJob, Speaks
<1>12. FramesBehind'
  BY <1>3, <1>4, <1>6, <1>9, <1>10 DEF CreditInv, FramesBehind, Speaks
<1> QED BY <1>10, <1>11, <1>12 DEF CreditInv

(* The worker goes on to the next frame, or to the last confirmations.     *)
LEMMA CreditFrameSent ==
  ASSUME CreditInv, FrameSent
  PROVE  CreditInv'
<1>1. worker.at = "sending" /\ UNCHANGED <<queue, window, outbound, sending, cancelling>>
  BY DEF FrameSent
<1>2. /\ worker \in Workers /\ worker.frame \in 1 .. worker.frames
      /\ worker.frames \in 0 .. MaxFrames /\ MaxFrames \in Nat
  BY <1>1, SessionAssumption DEF CreditInv, CreditTyped, WorkerHasJob, Workers, Speaks
<1>3. /\ worker' \in Workers /\ worker'.frames = worker.frames
      /\ \/ worker'.at = "reserve" /\ worker'.frame = worker.frame + 1
            /\ worker.frame + 1 \in 1 .. worker.frames
         \/ worker'.at = "draining" /\ worker'.frame = worker.frame
  <2>1. CASE worker.frame < worker.frames
    <3>1. worker' = [worker EXCEPT !.at = "reserve", !.frame = @ + 1, !.sent = "none"]
      BY <2>1 DEF FrameSent
    <3>2. worker.frame + 1 \in 0 .. MaxFrames /\ worker.frame + 1 \in 1 .. worker.frames
      BY <1>2, <2>1
    <3> QED BY <1>2, <3>1, <3>2 DEF Workers, Speaks
  <2>2. CASE ~(worker.frame < worker.frames)
    <3>1. worker' = [worker EXCEPT !.at = "draining", !.sent = "none"]
      BY <2>2 DEF FrameSent
    <3> QED BY <1>2, <3>1 DEF Workers, Speaks
  <2> QED BY <2>1, <2>2
<1>4. CreditTyped' /\ Job' = Job
  BY <1>1, <1>3 DEF CreditInv, CreditTyped, Job
<1>5. WorkerHasJob'
  BY <1>1, <1>2, <1>3, <1>4 DEF CreditInv, WorkerHasJob, Speaks
<1>6. FramesBehind'
  <2>1. ASSUME NEW f \in Reserved(window)
        PROVE  /\ f[1] = Job /\ worker'.at \in Speaks /\ f[2] <= worker'.frame
               /\ worker'.at = "reserve" => f[2] # worker'.frame
    <3>1. f[1] = Job /\ f[2] \in 1 .. MaxFrames /\ f[2] <= worker.frame
      BY SessionAssumption DEF CreditInv, FramesBehind, Reserved
    <3> QED BY <1>2, <1>3, <3>1 DEF Speaks
  <2> QED BY <1>1, <1>4, <2>1 DEF FramesBehind
<1> QED BY <1>4, <1>5, <1>6 DEF CreditInv

(* The phrase is over: all its frames have been confirmed.                 *)
LEMMA CreditFinishes ==
  ASSUME CreditInv, Finishes
  PROVE  CreditInv'
<1>1. /\ worker.at = "draining" /\ Drained /\ queue' = Finish(queue) /\ worker' = IdleWorker
      /\ outbound' = Queued(outbound, Batch("finished", {Job}, 0))
      /\ UNCHANGED <<window, sending, cancelling>>
  BY DEF Finishes
<1>2. Job \in Jobs
  BY <1>1 DEF CreditInv, WorkerHasJob
<1>3. IsQueue(queue') /\ Job' = None
  BY <1>1, FinishIs DEF CreditInv, CreditTyped, Job
<1>4. Batch("finished", {Job}, 0) \in Batches
  BY <1>2, BatchIs
<1>5. outbound' \in Seq(Batches)
  BY <1>1, <1>4, QueuedIs DEF CreditInv, CreditTyped
<1>6. CreditTyped'
  BY <1>1, <1>3, <1>5, IdleIs DEF CreditInv, CreditTyped
<1>7. \A f \in Reserved(window') : f[1] # Job
  BY <1>1, OfFrames DEF Drained
<1> QED BY <1>1, <1>3, <1>6, <1>7, JobIsLeft

(* Every step of the synthesis task keeps the invariant.                   *)
LEMMA CreditWorkerStep ==
  ASSUME CreditInv, WorkerStep
  PROVE  CreditInv'
<1>1. CASE NoPhrase
  <2>1. Job \in Jobs
    BY <1>1 DEF NoPhrase, CreditInv, WorkerHasJob
  <2>2. (Current(queue, Job) /\ Fails) \/ GivesUp
    BY <1>1 DEF NoPhrase
  <2> QED BY <2>1, <2>2, CreditFails, CreditGivesUp
<1>2. CASE FrameNotSent \/ SeesCancellation
  BY <1>2, CreditGivesUp DEF FrameNotSent, SeesCancellation
<1>3. CASE AckTimesOut
  <2>1. Job \in Jobs
    BY <1>3 DEF AckTimesOut, AckOverdue, CreditInv, WorkerHasJob
  <2> QED BY <1>3, <2>1, CreditFails DEF AckTimesOut, AckOverdue
<1>4. CASE WorkerEnds
  <2>1. /\ worker.at = "next" /\ worker' = [worker EXCEPT !.at = "ended"]
        /\ UNCHANGED <<queue, window, outbound, sending, cancelling>>
    BY <1>4 DEF WorkerEnds
  <2>2. worker' \in Workers /\ worker'.at = "ended"
    BY <2>1 DEF CreditInv, CreditTyped, Workers
  <2>3. CreditTyped' /\ Job' = Job
    BY <2>1, <2>2 DEF CreditInv, CreditTyped, Job
  <2>4. WorkerHasJob'
    BY <2>1, <2>2, <2>3 DEF CreditInv, WorkerHasJob, Speaks
  <2>5. FramesBehind'
    BY <2>1 DEF CreditInv, FramesBehind, Speaks
  <2> QED BY <2>3, <2>4, <2>5 DEF CreditInv
<1> QED BY <1>1, <1>2, <1>3, <1>4, CreditTakesJob, CreditPhraseReady, CreditReserves,
           CreditFrameSent, CreditFinishes DEF WorkerStep

-----------------------------------------------------------------------------
(* The outbound task, and the end of the session *)

\* A batch is over, and the window holds no more than it did.
LEMMA CreditBatchOver ==
  ASSUME CreditInv, NEW result \in {"yes", "no"}, BatchOver(result),
         IsWindow(window'), Reserved(window') \in SUBSET Reserved(window),
         outbound' \in Seq(Batches), queue' = queue
  PROVE  CreditInv'
<1>1. NoBatch \in Batches
  BY BatchIs DEF NoBatch
<1>2. /\ worker' \in Workers /\ worker'.at = worker.at
      /\ worker'.frame = worker.frame /\ worker'.frames = worker.frames
  BY DEF CreditInv, CreditTyped, BatchOver, Workers
<1>3. cancelling' \in Cancels
  BY DEF CreditInv, CreditTyped, BatchOver, Cancels
<1>4. CreditTyped' /\ Job' = Job
  BY <1>1, <1>2, <1>3 DEF CreditInv, CreditTyped, BatchOver, Job
<1> QED BY <1>2, <1>4, LessIsHeld

(* A batch is withdrawn: the credit of its job is returned.                *)
LEMMA CreditWithdrawn ==
  ASSUME CreditInv, Withdrawn, outbound' \in Seq(Batches), queue' = queue
  PROVE  CreditInv'
<1>1. IsWindow(window)
  BY DEF CreditInv, CreditTyped
<1>2. IsWindow(window') /\ Reserved(window') \in SUBSET Reserved(window)
  <2>1. CASE sending.kind = "audio"
    <3>1. window' = ReturnAll(window, FramesOf(sending.jobs))
      BY <2>1 DEF Withdrawn
    <3> QED BY <1>1, <3>1, AllReturned
  <2>2. CASE sending.kind # "audio"
    BY <1>1, <2>2 DEF Withdrawn
  <2> QED BY <2>1, <2>2
<1> QED BY <1>2, CreditBatchOver DEF Withdrawn

(* A batch is taken to be sent, or goes on.                                *)
LEMMA CreditSends ==
  ASSUME CreditInv, NEW b \in Batches, sending' = b, outbound' \in Seq(Batches),
         IsWindow(window'), Reserved(window') \in SUBSET Reserved(window),
         UNCHANGED <<queue, worker, cancelling>>
  PROVE  CreditInv'
<1>1. CreditTyped' /\ Job' = Job
  BY DEF CreditInv, CreditTyped, Job
<1> QED BY <1>1, LessIsHeld

(* Every step of the outbound task keeps the invariant.                    *)
LEMMA CreditOutboundStep ==
  ASSUME CreditInv, OutboundStep
  PROVE  CreditInv'
<1>1. /\ IsWindow(window) /\ outbound \in Seq(Batches) /\ sending \in Batches
  BY DEF CreditInv, CreditTyped
<1>2. CASE SendsNext
  <2>1. outbound # <<>> /\ sending' = Head(outbound) /\ outbound' = Tail(outbound)
        /\ UNCHANGED <<queue, window, worker, cancelling>>
    BY <1>2 DEF SendsNext
  <2>2. sending' \in Batches /\ outbound' \in Seq(Batches)
    BY <1>1, <2>1
  <2> QED BY <1>1, <2>1, <2>2, CreditSends
<1>3. CASE FirstPacketWithdrawn
  BY <1>1, <1>3, CreditWithdrawn DEF FirstPacketWithdrawn
<1>4. CASE FirstPacketSent
  <2>1. outbound' = outbound /\ queue' = queue
    BY <1>4 DEF FirstPacketSent
  <2>2. CASE sending.kind # "audio"
    BY <1>1, <1>4, <2>1, <2>2, CreditBatchOver DEF FirstPacketSent
  <2>3. CASE sending.kind = "audio" /\ window.frame[Sent(sending)] # "none"
    <3> DEFINE b == [sending EXCEPT !.stage = "audio"]
               f == Sent(sending)
    <3>1. /\ sending' = b /\ window' = MarkDelivering(window, f)
          /\ UNCHANGED <<worker, cancelling>>
      BY <1>4, <2>3 DEF FirstPacketSent
    <3>2. b \in Batches
      BY <1>1, <2>3 DEF Batches
    <3> HIDE DEF b, f
    <3>3. "delivering" \in FrameStates \ {"none"} /\ window.frame[f] # "none"
      BY <2>3 DEF FrameStates, f
    <3> DEFINE v == [window EXCEPT !.frame[f] = "delivering"]
    <3>4. IsWindow(v) /\ Reserved(v) = Reserved(window)
      BY <1>1, <3>3, SameCredit
    <3> HIDE DEF v
    <3>5. window' = v
      BY <3>1 DEF v, MarkDelivering
    <3> QED BY <1>1, <2>1, <3>1, <3>2, <3>4, <3>5, CreditSends
  <2>4. CASE sending.kind = "audio" /\ ~(window.frame[Sent(sending)] # "none")
    BY <1>1, <1>4, <2>1, <2>4, CreditWithdrawn DEF FirstPacketSent
  <2> QED BY <2>2, <2>3, <2>4
<1>5. CASE AudioSent
  <2> DEFINE f == Sent(sending)
  <2>1. /\ sending.stage = "audio" /\ outbound' = outbound /\ queue' = queue
        /\ window' = IF window.frame[f] # "none" THEN MarkSent(window, f) ELSE window
    BY <1>5 DEF AudioSent
  <2>2. BatchOver("yes") \/ BatchOver("no")
    BY <1>5 DEF AudioSent
  <2>3. f \in Frames
    BY <1>1, <2>1, SentIs DEF Batches
  <2> HIDE DEF f
  <2>4. IsWindow(window') /\ Reserved(window') \in SUBSET Reserved(window)
    <3>1. CASE window.frame[f] = "none"
      BY <1>1, <2>1, <3>1
    <3>2. CASE window.frame[f] = "early"
      <4>1. f \in Reserved(window) /\ window' = Returned(window, f)
        BY <2>1, <2>3, <3>2 DEF Reserved, MarkSent
      <4> QED BY <1>1, <4>1, CreditReturned
    <3>3. CASE window.frame[f] \notin {"none", "early"}
      <4>1. "sent" \in FrameStates \ {"none"} /\ window.frame[f] # "none"
        BY <3>3 DEF FrameStates
      <4> DEFINE v == [window EXCEPT !.frame[f] = "sent"]
      <4>2. IsWindow(v) /\ Reserved(v) = Reserved(window)
        BY <1>1, <4>1, SameCredit
      <4> HIDE DEF v
      <4>3. window' = v
        BY <2>1, <3>3 DEF v, MarkSent
      <4> QED BY <4>2, <4>3
    <3> QED BY <3>1, <3>2, <3>3
  <2> QED BY <1>1, <2>1, <2>2, <2>4, CreditBatchOver
<1>6. CASE TransportFails
  <2>1. Withdrawn /\ queue' = queue /\ outbound' \in Seq(Batches)
    BY <1>6 DEF TransportFails
  <2> QED BY <2>1, CreditWithdrawn
<1> QED BY <1>2, <1>3, <1>4, <1>5, <1>6 DEF OutboundStep

(* The session is closed: no credit is left, the worker keeps its job      *)
(* until it has unwound.                                                   *)
LEMMA CreditShutdown ==
  ASSUME CreditInv, Shutdown
  PROVE  CreditInv'
<1>1. /\ queue' = Close(queue) /\ window' = EmptyWindow /\ outbound' = <<>>
      /\ sending' = NoBatch /\ cancelling' = NoCancel
      /\ worker' = [worker EXCEPT !.sent = IF @ = "pending" THEN "no" ELSE @]
  BY DEF Shutdown
<1>2. IsQueue(queue') /\ Job' = Job
  BY <1>1, CloseIs DEF CreditInv, CreditTyped, Job
<1>3. IsWindow(window') /\ Reserved(window') = {}
  BY <1>1, NoCredit
<1>4. /\ worker' \in Workers /\ worker'.at = worker.at
      /\ worker'.frame = worker.frame /\ worker'.frames = worker.frames
  BY <1>1 DEF CreditInv, CreditTyped, Workers
<1>5. NoBatch \in Batches
  BY BatchIs DEF NoBatch
<1>6. cancelling' \in Cancels
  BY <1>1 DEF NoCancel, Cancels
<1>7. CreditTyped'
  BY <1>1, <1>2, <1>3, <1>4, <1>5, <1>6 DEF CreditTyped
<1> QED BY <1>2, <1>3, <1>4, <1>7, LessIsHeld

(* The lane, the provider and the other sessions hold no credit.           *)
LEMMA CreditSame ==
  ASSUME CreditInv, UNCHANGED <<queue, window, worker, outbound, sending, cancelling>>
  PROVE  CreditInv'
<1>1. IsWindow(window) /\ outbound \in Seq(Batches) /\ sending \in Batches
  BY DEF CreditInv, CreditTyped
<1> QED BY <1>1, CreditSends

(* CreditInv is inductive.                                                 *)
LEMMA CreditInvStep == CreditInv /\ [Next]_vars => CreditInv'
<1> SUFFICES ASSUME CreditInv, [Next]_vars PROVE CreditInv'
  OBVIOUS
<1>1. CASE Receives
  BY <1>1, CreditSubmits, CreditBrowserCancels, CreditAcks DEF Receives
<1>2. CASE FenceOver \/ WorkerStep \/ OutboundStep \/ Shutdown
  BY <1>2, CreditFenceOver, CreditWorkerStep, CreditOutboundStep, CreditShutdown
<1>3. CASE AudioArrives \/ SynthesisAborted \/ MyLaneStep
           \/ (\E c \in Others : OtherSession(c)) \/ Providers \/ UNCHANGED vars
  <2>1. UNCHANGED <<queue, window, worker, outbound, sending, cancelling>>
    BY <1>3 DEF AudioArrives, SynthesisAborted, MyLaneStep, OtherSession, Providers,
                speechVars, vars
  <2> QED BY <2>1, CreditSame
<1> QED BY <1>1, <1>2, <1>3 DEF Next

(* CreditIsReturned: what is outstanding is what frames of the phrase      *)
(* that is spoken hold, however earlier phrases ended (TtsAckWindow,       *)
(* _tts_worker).                                                           *)
THEOREM CreditComesBack == Spec => []CreditIsReturned
<1>1. CreditInv => CreditIsReturned
  BY DEF CreditInv, CreditTyped, IsWindow, FramesBehind, CreditIsReturned
<1> QED BY <1>1, CreditInvInit, CreditInvStep, PTL DEF Spec
=============================================================================
