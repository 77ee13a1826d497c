--------------------------- MODULE HearingPageProofs ---------------------------
(***************************************************************************)
(* Proofs about the page of a hearing, in two parts that share nothing but *)
(* the page.                                                               *)
(*                                                                         *)
(* The first is that the audit of what the hearing sounded like is exact, *)
(* for any number of pages, clips and utterances and any limits of the     *)
(* queue, the retries and the table.  The first records a page has heard, *)
(* some n of them, are in the table; the queue of its sink goes on from    *)
(* one that is there or is the next; and no post, however old, is of a     *)
(* record after the next.                                                  *)
(*                                                                         *)
(* The second is that the page puts nothing to the court twice, for any    *)
(* number of questions, entries of the record and faults: what is          *)
(* submitted was not asked about, or the court has taken the request back; *)
(* and once the record has a question it has moved on from the head the    *)
(* question was asked at.                                                  *)
(***************************************************************************)
EXTENDS AudioAudits, SpokenHearing, TLAPS, FiniteSetTheorems

SinkFields ==
  {"queue", "accepting", "networkEnabled", "inFlight", "timer", "closing", "closed",
   "closeRetryUsed", "wire", "reply", "overflowed"}

Entries == [record : Records, attempts : Nat]

-----------------------------------------------------------------------------
(* The inductive invariant, of what one page has heard, hist, of which the    *)
(* table has the first n                                                      *)

\* The queue goes on from what was delivered, and ends with what was heard last, unless
\* the sink was silenced.
Backlog(s, hist, n) ==
  \E d \in Nat :
    /\ d <= n
    /\ d + Len(s.queue) <= Len(hist)
    /\ \A k \in 1 .. Len(s.queue) : s.queue[k].record = hist[d + k]
    /\ s.networkEnabled /\ ~s.overflowed => d + Len(s.queue) = Len(hist)
    /\ s.reply = "stored" => d < n
    /\ s.reply = "refused" => n <= d

Posts(wire, hist, n) ==
  \A post \in wire : \E j \in 1 .. Len(hist) : j <= n + 1 /\ post.record = hist[j]

Flags(s) ==
  /\ SinkFields \subseteq DOMAIN s
  /\ s.networkEnabled \in BOOLEAN /\ s.overflowed \in BOOLEAN /\ s.inFlight \in BOOLEAN
  /\ s.closing \in BOOLEAN /\ s.closed \in BOOLEAN /\ s.accepting \in BOOLEAN
  /\ s.queue \in Seq(Entries)
  /\ s.reply \in {"none", "stored", "refused"}
  /\ s.reply # "none" => s.inFlight
  /\ s.inFlight => s.queue # <<>>
  /\ s.closed /\ s.networkEnabled => s.queue = <<>>
  /\ s.accepting <=> s.networkEnabled /\ ~s.overflowed /\ ~s.closing /\ ~s.closed

Works(s, hist, n) == Flags(s) /\ Backlog(s, hist, n) /\ Posts(s.wire, hist, n)

\* What is left of the sink of a page that died
IsLost(s, hist, n) ==
  /\ SinkFields \subseteq DOMAIN s
  /\ ~s.closed /\ ~s.inFlight /\ s.reply = "none"
  /\ Posts(s.wire, hist, n)

\* The table r has the first n of what was heard, in order.
Tabled(r, p, hist, n) ==
  /\ n <= Len(hist)
  /\ \A j \in 1 .. n : \E i \in DOMAIN r : r[i] = hist[j]
  /\ \A i \in DOMAIN r : r[i].page = p =>
       \E j \in 1 .. n :
         /\ r[i] = hist[j]
         /\ \A m \in 1 .. j - 1 : \E l \in 1 .. i - 1 : r[l] = hist[m]

\* Of every span there is one record.
Told(p, hist) ==
  /\ hist \in Seq(Records)
  /\ \A j \in 1 .. Len(hist) : hist[j].page = p
  /\ \A j, k \in 1 .. Len(hist) : hist[j].span = hist[k].span => j = k

PageInv(p, n) ==
  /\ Told(p, heard[p])
  /\ Tabled(rows, p, heard[p], n)
  /\ page[p] # "gone" => \A j \in 1 .. Len(heard[p]) : heard[p][j].span \in over[p]
  /\ IF page[p] = "gone" THEN IsLost(sink[p], heard[p], n) ELSE Works(sink[p], heard[p], n)
  /\ page[p] \in {"unseen", "shown"} => ~sink[p].closing /\ ~sink[p].closed
  /\ sink[p].reply = "refused" => Len(rows) >= RowLimit

Typed ==
  /\ page \in [Pages -> {"unseen", "shown", "leaving", "gone"}]
  /\ DOMAIN sink = Pages /\ sink = [p \in Pages |-> sink[p]]
  /\ DOMAIN over = Pages /\ over = [p \in Pages |-> over[p]]
  /\ heard \in [Pages -> Seq(Records)]
  /\ rows \in Seq(Records)

AuditInv ==
  /\ Typed
  /\ \A i, k \in DOMAIN rows : rows[i] = rows[k] => i = k
  /\ \A p \in Pages : \E n \in Nat : PageInv(p, n)

-----------------------------------------------------------------------------
(* The sink *)

LEMMA FinishKeeps ==
  ASSUME NEW s, NEW hist, NEW n \in Nat, Works(s, hist, n)
  PROVE  Works(FinishCloseIfSettled(s), hist, n)
<1>. DEFINE t == FinishCloseIfSettled(s)
<1>1. CASE t = s
  BY <1>1
<1>2. CASE t # s
  <2>1. /\ t = [s EXCEPT !.closed = TRUE, !.closing = FALSE]
        /\ s.closing /\ (s.networkEnabled => s.queue = <<>>)
    BY <1>2 DEF FinishCloseIfSettled
  <2>2. SinkFields \subseteq DOMAIN s
    BY DEF Works, Flags
  <2>. HIDE DEF t
  <2>3. /\ DOMAIN t = DOMAIN s /\ t.closed = TRUE /\ t.closing = FALSE
        /\ t.queue = s.queue /\ t.accepting = s.accepting /\ t.wire = s.wire
        /\ t.networkEnabled = s.networkEnabled /\ t.inFlight = s.inFlight
        /\ t.reply = s.reply /\ t.overflowed = s.overflowed
    BY <2>1, <2>2 DEF SinkFields
  <2>4. Flags(t)
    BY <2>1, <2>3 DEF Works, Flags
  <2>5. Backlog(t, hist, n) /\ Posts(t.wire, hist, n)
    BY <2>3 DEF Works, Backlog
  <2>. QED  BY <2>4, <2>5 DEF Works, t
<1>. QED  BY <1>1, <1>2

\* A post is of the head of the queue, which is there already or is the next.
LEMMA KickKeeps ==
  ASSUME NEW s, NEW hist, NEW n \in Nat, Works(s, hist, n), Len(hist) \in Nat
  PROVE  Works(Kick(s), hist, n)
<1>. DEFINE t == Kick(s)
            idle == s.inFlight \/ s.timer \/ ~s.networkEnabled \/ s.queue = <<>>
<1>1. CASE idle
  BY <1>1, FinishKeeps DEF Kick
<1>2. CASE ~idle
  <2>. DEFINE attempt == s.queue[1].attempts + 1
              post == [record |-> s.queue[1].record, attempt |-> attempt]
              queue == [s.queue EXCEPT ![1].attempts = attempt]
              wire == s.wire \cup {post}
  <2>0. Flags(s) /\ SinkFields \subseteq DOMAIN s /\ s.queue \in Seq(Entries)
    BY DEF Works, Flags
  <2>1. t = [s EXCEPT !.queue = queue, !.inFlight = TRUE, !.reply = "none", !.wire = wire]
    BY <1>2 DEF Kick
  <2>2. /\ s.queue # <<>> /\ Len(s.queue) \in Nat /\ Len(s.queue) >= 1
        /\ s.queue[1] \in Entries
    BY <1>2, <2>0
  <2>3. /\ attempt \in Nat
        /\ [s.queue[1] EXCEPT !.attempts = attempt] \in Entries
        /\ [s.queue[1] EXCEPT !.attempts = attempt].record = s.queue[1].record
    BY <2>2 DEF Entries
  <2>. HIDE DEF attempt
  <2>4. /\ queue \in Seq(Entries) /\ Len(queue) = Len(s.queue)
        /\ \A k \in 1 .. Len(queue) : queue[k].record = s.queue[k].record
    BY <2>0, <2>2, <2>3
  <2>5. post.record = s.queue[1].record
    OBVIOUS
  <2>. HIDE DEF queue, post
  <2>6. /\ DOMAIN t = DOMAIN s /\ t.queue = queue /\ t.inFlight = TRUE /\ t.reply = "none"
        /\ t.wire = wire /\ t.accepting = s.accepting
        /\ t.networkEnabled = s.networkEnabled /\ t.overflowed = s.overflowed
        /\ t.closing = s.closing /\ t.closed = s.closed
    BY <2>0, <2>1 DEF SinkFields
  <2>. HIDE DEF t
  <2>7. queue # <<>>
    BY <2>2, <2>4
  <2>8. Flags(t)
    BY <1>2, <2>0, <2>4, <2>6, <2>7 DEF Flags
  <2>9. PICK d \in Nat :
          /\ d <= n
          /\ d + Len(s.queue) <= Len(hist)
          /\ \A k \in 1 .. Len(s.queue) : s.queue[k].record = hist[d + k]
          /\ s.networkEnabled /\ ~s.overflowed => d + Len(s.queue) = Len(hist)
    BY DEF Works, Backlog
  <2>10. Backlog(t, hist, n)
    BY <2>4, <2>6, <2>9 DEF Backlog
  <2>11. d + 1 \in 1 .. Len(hist) /\ d + 1 <= n + 1 /\ post.record = hist[d + 1]
    BY <2>2, <2>5, <2>9
  <2>12. Posts(t.wire, hist, n)
    BY <2>6, <2>11 DEF Works, Posts
  <2>. QED  BY <2>8, <2>10, <2>12 DEF Works, t
<1>. QED  BY <1>1, <1>2

\* A sink that keeps its queue and does not begin to work again
LEMMA FlagsKeep ==
  ASSUME NEW s, NEW hist, NEW n \in Nat, Works(s, hist, n),
         NEW t, SinkFields \subseteq DOMAIN t,
         t.queue = s.queue, t.wire = s.wire,
         t.inFlight \in BOOLEAN, t.inFlight => s.inFlight,
         t.reply \in {s.reply, "none"}, t.reply # "none" => t.inFlight,
         t.networkEnabled \in BOOLEAN, t.overflowed \in BOOLEAN, t.accepting \in BOOLEAN,
         t.closing \in BOOLEAN, t.closed \in BOOLEAN,
         t.networkEnabled /\ ~t.overflowed => s.networkEnabled /\ ~s.overflowed,
         t.accepting <=> t.networkEnabled /\ ~t.overflowed /\ ~t.closing /\ ~t.closed,
         t.closed /\ t.networkEnabled => t.queue = <<>>
  PROVE  Works(t, hist, n)
<1>1. Flags(t)
  BY DEF Works, Flags
<1>2. Backlog(t, hist, n) /\ Posts(t.wire, hist, n)
  BY DEF Works, Backlog
<1>. QED  BY <1>1, <1>2 DEF Works

\* The sink is silenced, and what it had not delivered is dropped.
LEMMA DisableNetworkKeeps ==
  ASSUME NEW s, NEW hist, NEW n \in Nat, Works(s, hist, n), Len(hist) \in Nat, ~s.inFlight
  PROVE  Works(DisableNetwork(s), hist, n)
<1>. DEFINE t == [s EXCEPT !.accepting = FALSE, !.networkEnabled = FALSE, !.timer = FALSE,
                           !.queue = <<>>]
<1>1. SinkFields \subseteq DOMAIN s /\ s.reply = "none"
  BY DEF Works, Flags
<1>2. /\ DOMAIN t = DOMAIN s /\ t.queue = <<>> /\ t.inFlight = s.inFlight
      /\ t.reply = "none" /\ t.wire = s.wire /\ t.accepting = FALSE
      /\ t.networkEnabled = FALSE /\ t.overflowed = s.overflowed
      /\ t.closing = s.closing /\ t.closed = s.closed
  BY <1>1 DEF SinkFields
<1>0. DisableNetwork(s) = FinishCloseIfSettled(t)
  BY DEF DisableNetwork
<1>. HIDE DEF t
<1>3. <<>> \in Seq(Entries) /\ Len(<<>>) = 0
  OBVIOUS
<1>4. Flags(t)
  BY <1>2, <1>3 DEF Works, Flags
<1>5. Backlog(t, hist, n)
  <2>1. PICK d \in Nat : d <= n /\ d + Len(s.queue) <= Len(hist)
    BY DEF Works, Backlog
  <2>2. Len(s.queue) \in Nat
    BY DEF Works, Flags
  <2>3. d + Len(t.queue) <= Len(hist) /\ 1 .. Len(t.queue) = {}
    BY <1>2, <1>3, <2>1, <2>2
  <2>. QED  BY <1>2, <2>1, <2>3 DEF Backlog
<1>6. Works(t, hist, n)
  BY <1>2, <1>4, <1>5 DEF Works
<1>. QED  BY <1>0, <1>6, FinishKeeps

LEMMA CloseSinkKeeps ==
  ASSUME NEW s, NEW hist, NEW n \in Nat, Works(s, hist, n), Len(hist) \in Nat, ~s.closed
  PROVE  Works(CloseSink(s), hist, n)
<1>. DEFINE used == s.closeRetryUsed \/ s.timer
            t == [s EXCEPT !.accepting = FALSE, !.closing = TRUE, !.timer = FALSE,
                           !.closeRetryUsed = used]
<1>1. Flags(s) /\ SinkFields \subseteq DOMAIN s
  BY DEF Works, Flags
<1>. HIDE DEF used
<1>2. /\ DOMAIN t = DOMAIN s /\ t.queue = s.queue /\ t.inFlight = s.inFlight
      /\ t.reply = s.reply /\ t.wire = s.wire /\ t.accepting = FALSE
      /\ t.networkEnabled = s.networkEnabled /\ t.overflowed = s.overflowed
      /\ t.closing = TRUE /\ t.closed = s.closed
  BY <1>1 DEF SinkFields
<1>3. CloseSink(s) = FinishCloseIfSettled(Kick(t))
  BY DEF CloseSink, used
<1>. HIDE DEF t
<1>4. Works(t, hist, n)
  BY <1>1, <1>2, FlagsKeep DEF Flags
<1>. QED  BY <1>3, <1>4, KickKeeps, FinishKeeps

\* The backoff ends, or is cut short.
LEMMA ResumesKeeps ==
  ASSUME NEW s, NEW hist, NEW n \in Nat, Works(s, hist, n), Len(hist) \in Nat
  PROVE  Works(Kick([s EXCEPT !.timer = FALSE]), hist, n)
<1>. DEFINE t == [s EXCEPT !.timer = FALSE]
<1>1. Flags(s) /\ SinkFields \subseteq DOMAIN s
  BY DEF Works, Flags
<1>2. /\ DOMAIN t = DOMAIN s /\ t.queue = s.queue /\ t.inFlight = s.inFlight
      /\ t.reply = s.reply /\ t.wire = s.wire /\ t.accepting = s.accepting
      /\ t.networkEnabled = s.networkEnabled /\ t.overflowed = s.overflowed
      /\ t.closing = s.closing /\ t.closed = s.closed
  BY <1>1 DEF SinkFields
<1>. HIDE DEF t
<1>3. Works(t, hist, n)
  BY <1>1, <1>2, FlagsKeep DEF Flags
<1>4. Works(Kick(t), hist, n)
  BY <1>3, KickKeeps
<1>. QED  BY <1>4 DEF t

\* A retry that is waited for, or made at once by a sink that closes, or none
LEMMA RetryableKeeps ==
  ASSUME NEW s, NEW hist, NEW n \in Nat, Works(s, hist, n), Len(hist) \in Nat, ~s.inFlight
  PROVE  Works(Retryable(s), hist, n)
<1>. DEFINE t == [s EXCEPT !.closeRetryUsed = TRUE]
            u == [s EXCEPT !.timer = TRUE]
<1>1. Flags(s) /\ SinkFields \subseteq DOMAIN s
  BY DEF Works, Flags
<1>2. Retryable(s) \in {Kick(t), u, DisableNetwork(s)}
  BY DEF Retryable
<1>3. Works(t, hist, n)
  <2>1. /\ DOMAIN t = DOMAIN s /\ t.queue = s.queue /\ t.inFlight = s.inFlight
        /\ t.reply = s.reply /\ t.wire = s.wire /\ t.accepting = s.accepting
        /\ t.networkEnabled = s.networkEnabled /\ t.overflowed = s.overflowed
        /\ t.closing = s.closing /\ t.closed = s.closed
    BY <1>1 DEF SinkFields
  <2>. HIDE DEF t
  <2>. QED  BY <1>1, <2>1, FlagsKeep DEF Flags
<1>4. Works(u, hist, n)
  <2>1. /\ DOMAIN u = DOMAIN s /\ u.queue = s.queue /\ u.inFlight = s.inFlight
        /\ u.reply = s.reply /\ u.wire = s.wire /\ u.accepting = s.accepting
        /\ u.networkEnabled = s.networkEnabled /\ u.overflowed = s.overflowed
        /\ u.closing = s.closing /\ u.closed = s.closed
    BY <1>1 DEF SinkFields
  <2>. HIDE DEF u
  <2>. QED  BY <1>1, <2>1, FlagsKeep DEF Flags
<1>5. Works(Kick(t), hist, n)
  BY <1>3, KickKeeps
<1>. QED  BY <1>2, <1>4, <1>5, DisableNetworkKeeps

\* The head of the queue leaves it when the database is known to have it.
LEMMA AcceptedKeeps ==
  ASSUME NEW s, NEW hist, NEW n \in Nat, Works(s, hist, n), Len(hist) \in Nat,
         s.reply = "stored"
  PROVE  Works([s EXCEPT !.inFlight = FALSE, !.reply = "none", !.queue = Tail(s.queue)],
               hist, n)
<1>. DEFINE queue == Tail(s.queue)
            t == [s EXCEPT !.inFlight = FALSE, !.reply = "none", !.queue = queue]
<1>1. /\ Flags(s) /\ SinkFields \subseteq DOMAIN s
      /\ s.queue \in Seq(Entries) /\ s.queue # <<>>
  BY DEF Works, Flags
<1>2. /\ queue \in Seq(Entries) /\ Len(queue) = Len(s.queue) - 1
      /\ \A k \in 1 .. Len(queue) : queue[k] = s.queue[k + 1]
      /\ Len(s.queue) \in Nat /\ Len(s.queue) >= 1
  BY <1>1
<1>. HIDE DEF queue
<1>3. /\ DOMAIN t = DOMAIN s /\ t.queue = queue /\ t.inFlight = FALSE
      /\ t.reply = "none" /\ t.wire = s.wire /\ t.accepting = s.accepting
      /\ t.networkEnabled = s.networkEnabled /\ t.overflowed = s.overflowed
      /\ t.closing = s.closing /\ t.closed = s.closed
  BY <1>1 DEF SinkFields
<1>. HIDE DEF t
<1>4. Flags(t)
  BY <1>1, <1>2, <1>3 DEF Flags
<1>5. PICK d \in Nat :
        /\ d < n
        /\ d + Len(s.queue) <= Len(hist)
        /\ \A k \in 1 .. Len(s.queue) : s.queue[k].record = hist[d + k]
        /\ s.networkEnabled /\ ~s.overflowed => d + Len(s.queue) = Len(hist)
  BY DEF Works, Backlog
<1>6. Backlog(t, hist, n)
  <2>1. /\ d + 1 \in Nat /\ d + 1 <= n
        /\ d + 1 + Len(t.queue) <= Len(hist)
        /\ t.networkEnabled /\ ~t.overflowed => d + 1 + Len(t.queue) = Len(hist)
    BY <1>2, <1>3, <1>5
  <2>2. \A k \in 1 .. Len(t.queue) : t.queue[k].record = hist[d + 1 + k]
    <3>1. TAKE k \in 1 .. Len(t.queue)
    <3>2. k + 1 \in 1 .. Len(s.queue) /\ d + (k + 1) = d + 1 + k
      BY <1>2, <1>3
    <3>. QED  BY <1>2, <1>3, <1>5, <3>2
  <2>. QED  BY <1>3, <2>1, <2>2 DEF Backlog
<1>7. Posts(t.wire, hist, n)
  BY <1>3 DEF Works
<1>. QED  BY <1>4, <1>6, <1>7 DEF Works, t, queue

LEMMA SettlesKeeps ==
  ASSUME NEW s, NEW hist, NEW n \in Nat, Works(s, hist, n), Len(hist) \in Nat,
         NEW outcome \in Outcomes(s)
  PROVE  Works(HandleOutcome([s EXCEPT !.inFlight = FALSE, !.reply = "none"], outcome), hist, n)
<1>. DEFINE t == [s EXCEPT !.inFlight = FALSE, !.reply = "none"]
<1>1. Flags(s) /\ SinkFields \subseteq DOMAIN s
  BY DEF Works, Flags
<1>2. /\ DOMAIN t = DOMAIN s /\ t.queue = s.queue /\ t.inFlight = FALSE
      /\ t.reply = "none" /\ t.wire = s.wire /\ t.accepting = s.accepting
      /\ t.networkEnabled = s.networkEnabled /\ t.overflowed = s.overflowed
      /\ t.closing = s.closing /\ t.closed = s.closed
  BY <1>1 DEF SinkFields
<1>3. CASE outcome = "accepted"
  <2>1. s.reply = "stored"
    BY <1>3 DEF Outcomes
  <2>. DEFINE a == [s EXCEPT !.inFlight = FALSE, !.reply = "none", !.queue = Tail(s.queue)]
  <2>2. HandleOutcome(t, outcome) = Kick(a)
    BY <1>2, <1>3 DEF HandleOutcome
  <2>3. Works(a, hist, n)
    BY <2>1, AcceptedKeeps
  <2>. HIDE DEF a
  <2>4. Works(Kick(a), hist, n)
    BY <2>3, KickKeeps
  <2>. HIDE DEF t
  <2>5. Works(HandleOutcome(t, outcome), hist, n)
    BY <2>2, <2>4
  <2>. QED  BY <2>5 DEF t
<1>. HIDE DEF t
<1>4. Works(t, hist, n)
  BY <1>1, <1>2, FlagsKeep DEF Flags
<1>5. CASE outcome = "permanent"
  BY <1>2, <1>4, <1>5, DisableNetworkKeeps DEF HandleOutcome, t
<1>6. CASE outcome = "retryable"
  BY <1>2, <1>4, <1>6, RetryableKeeps DEF HandleOutcome, t
<1>. QED  BY <1>3, <1>5, <1>6 DEF Outcomes

\* A record that is completed is queued, or the sink takes no more of them.
LEMMA ObserveKeeps ==
  ASSUME NEW s, NEW hist \in Seq(Records), NEW n \in Nat, Works(s, hist, n), n <= Len(hist),
         NEW record \in Records, ~s.closing, ~s.closed
  PROVE  Works(Observe(s, record), Append(hist, record), n)
<1>. DEFINE g == Append(hist, record)
            entry == [record |-> record, attempts |-> 0]
            queue == Append(s.queue, entry)
            t == [s EXCEPT !.queue = queue]
            u == [s EXCEPT !.accepting = FALSE, !.overflowed = TRUE]
<1>1. Flags(s) /\ SinkFields \subseteq DOMAIN s /\ s.queue \in Seq(Entries)
  BY DEF Works, Flags
<1>2. /\ g \in Seq(Records) /\ Len(g) = Len(hist) + 1 /\ Len(hist) \in Nat /\ Len(g) \in Nat
      /\ \A k \in 1 .. Len(hist) : g[k] = hist[k]
      /\ g[Len(hist) + 1] = record
  OBVIOUS
<1>. HIDE DEF g
<1>3. PICK d \in Nat :
        /\ d <= n
        /\ d + Len(s.queue) <= Len(hist)
        /\ \A k \in 1 .. Len(s.queue) : s.queue[k].record = hist[d + k]
        /\ s.networkEnabled /\ ~s.overflowed => d + Len(s.queue) = Len(hist)
        /\ s.reply = "stored" => d < n
        /\ s.reply = "refused" => n <= d
  BY DEF Works, Backlog
<1>4. Len(s.queue) \in Nat
  BY <1>1
<1>5. \A k \in 1 .. Len(s.queue) : s.queue[k].record = g[d + k]
  <2>1. \A k \in 1 .. Len(s.queue) : d + k \in 1 .. Len(hist)
    BY <1>2, <1>3, <1>4
  <2>. QED  BY <1>2, <1>3, <2>1
<1>6. Posts(s.wire, g, n)
  <2>1. \A j \in 1 .. Len(hist) : j \in 1 .. Len(g)
    BY <1>2
  <2>. QED  BY <1>2, <2>1 DEF Works, Posts
<1>7. CASE ~s.accepting
  <2>1. ~(s.networkEnabled /\ ~s.overflowed) /\ Observe(s, record) = s
    BY <1>1, <1>7 DEF Flags, Observe
  <2>2. d + Len(s.queue) <= Len(g)
    BY <1>2, <1>3, <1>4
  <2>3. Backlog(s, g, n)
    BY <1>3, <1>5, <2>1, <2>2 DEF Backlog
  <2>. QED  BY <1>1, <1>6, <2>1, <2>3 DEF Works, g
<1>8. CASE s.accepting /\ Len(s.queue) >= MaxQueue
  <2>1. Observe(s, record) = u
    BY <1>8 DEF Observe, Enqueue, DisableInput
  <2>2. /\ DOMAIN u = DOMAIN s /\ u.queue = s.queue /\ u.inFlight = s.inFlight
        /\ u.reply = s.reply /\ u.wire = s.wire /\ u.accepting = FALSE
        /\ u.networkEnabled = s.networkEnabled /\ u.overflowed = TRUE
        /\ u.closing = s.closing /\ u.closed = s.closed
    BY <1>1 DEF SinkFields
  <2>. HIDE DEF u
  <2>3. Flags(u)
    BY <1>1, <2>2 DEF Flags
  <2>4. d + Len(u.queue) <= Len(g)
    BY <1>2, <1>3, <1>4, <2>2
  <2>5. Backlog(u, g, n)
    BY <1>3, <1>5, <2>2, <2>4 DEF Backlog
  <2>. QED  BY <1>6, <2>1, <2>2, <2>3, <2>5 DEF Works, g
<1>9. CASE s.accepting /\ ~(Len(s.queue) >= MaxQueue)
  <2>1. Observe(s, record) = Kick(t)
    BY <1>9 DEF Observe, Enqueue
  <2>2. entry \in Entries /\ entry.record = record
    BY DEF Entries
  <2>. HIDE DEF entry
  <2>3. /\ queue \in Seq(Entries) /\ Len(queue) = Len(s.queue) + 1
        /\ \A k \in 1 .. Len(s.queue) : queue[k] = s.queue[k]
        /\ queue[Len(s.queue) + 1] = entry
    BY <1>1, <2>2
  <2>. HIDE DEF queue
  <2>4. /\ DOMAIN t = DOMAIN s /\ t.queue = queue /\ t.inFlight = s.inFlight
        /\ t.reply = s.reply /\ t.wire = s.wire /\ t.accepting = s.accepting
        /\ t.networkEnabled = s.networkEnabled /\ t.overflowed = s.overflowed
        /\ t.closing = s.closing /\ t.closed = s.closed
    BY <1>1 DEF SinkFields
  <2>. HIDE DEF t
  <2>5. queue # <<>>
    BY <2>3, <1>4
  <2>6. Flags(t)
    BY <1>1, <1>9, <2>3, <2>4, <2>5 DEF Flags
  <2>7. d + Len(s.queue) = Len(hist)
    BY <1>1, <1>3, <1>9 DEF Flags
  <2>8. d + Len(t.queue) = Len(g)
    BY <1>2, <1>4, <2>3, <2>4, <2>7
  <2>9. \A k \in 1 .. Len(t.queue) : t.queue[k].record = g[d + k]
    <3>1. TAKE k \in 1 .. Len(t.queue)
    <3>2. CASE k \in 1 .. Len(s.queue)
      BY <1>5, <2>3, <2>4, <3>2
    <3>3. CASE k = Len(s.queue) + 1
      <4>1. d + k = Len(hist) + 1
        BY <1>4, <2>7, <3>3
      <4>. QED  BY <1>2, <2>2, <2>3, <2>4, <3>3, <4>1
    <3>. QED  BY <3>2, <3>3, <1>4, <2>3, <2>4
  <2>10. Backlog(t, g, n)
    <3>1. d + Len(t.queue) <= Len(g)
      BY <2>8, <1>2
    <3>. QED  BY <1>3, <2>4, <2>8, <2>9, <3>1 DEF Backlog
  <2>11. Works(t, g, n)
    BY <1>6, <2>4, <2>6, <2>10 DEF Works
  <2>. QED  BY <2>1, <2>11, <1>2, KickKeeps DEF g
<1>. QED  BY <1>7, <1>8, <1>9

-----------------------------------------------------------------------------
(* The database *)

\* A post that is served is of a record that is there or is the next.
LEMMA ServedIs ==
  ASSUME AuditInv, NEW p \in Pages, NEW n \in Nat, PageInv(p, n),
         NEW j \in 1 .. Len(heard[p]), j <= n + 1,
         NEW record, record = heard[p][j]
  PROVE  /\ record \in Records /\ record.page = p
         /\ ~Conflicts(record)
         /\ Stored(record) <=> j <= n
<1>1. /\ heard[p] \in Seq(Records)
      /\ Told(p, heard[p]) /\ Tabled(rows, p, heard[p], n)
  BY DEF AuditInv, Typed, PageInv
<1>2. record \in Records /\ record.page = p
  BY <1>1 DEF Told
<1>3. n \in Nat /\ n <= Len(heard[p]) /\ Len(heard[p]) \in Nat
  BY <1>1 DEF Tabled
<1>4. ASSUME NEW i \in DOMAIN rows, rows[i].page = p
      PROVE  \E k \in 1 .. n : k \in 1 .. Len(heard[p]) /\ rows[i] = heard[p][k]
  BY <1>1, <1>3, <1>4 DEF Tabled
<1>5. ~Conflicts(record)
  BY <1>1, <1>2, <1>4 DEF Told, Conflicts
<1>6. j <= n => Stored(record)
  BY <1>1, <1>3 DEF Tabled, Stored
<1>7. ASSUME Stored(record) PROVE j <= n
  <2>1. PICK k \in 1 .. n : k \in 1 .. Len(heard[p]) /\ record = heard[p][k]
    BY <1>2, <1>4, <1>7 DEF Stored
  <2>2. k = j
    BY <1>1, <2>1 DEF Told
  <2>. QED  BY <2>1, <2>2
<1>. QED  BY <1>2, <1>5, <1>6, <1>7

\* A table that has one row more of page p
LEMMA TableGrows ==
  ASSUME NEW r \in Seq(Records), NEW p, NEW hist, NEW n \in Nat, Tabled(r, p, hist, n),
         NEW record \in Records,
         \/ record.page # p
         \/ record.page = p /\ n + 1 <= Len(hist) /\ record = hist[n + 1], Len(hist) \in Nat
  PROVE  Tabled(Append(r, record), p, hist, IF record.page = p THEN n + 1 ELSE n)
<1>. DEFINE g == Append(r, record)
            m == IF record.page = p THEN n + 1 ELSE n
<1>1. /\ DOMAIN r = 1 .. Len(r) /\ DOMAIN g = 1 .. Len(r) + 1 /\ Len(r) \in Nat
      /\ \A i \in DOMAIN r : i \in DOMAIN g /\ g[i] = r[i]
      /\ g[Len(r) + 1] = record
  OBVIOUS
<1>. HIDE DEF g
<1>2. m \in Nat /\ m <= Len(hist) /\ n <= m
  BY DEF Tabled
<1>3. \A j \in 1 .. m : \E i \in DOMAIN g : g[i] = hist[j]
  <2>1. \A j \in 1 .. n : \E i \in DOMAIN g : g[i] = hist[j]
    BY <1>1 DEF Tabled
  <2>2. CASE record.page = p
    <3>1. \E i \in DOMAIN g : g[i] = hist[n + 1]
      BY <1>1, <2>2
    <3>. QED  BY <2>1, <2>2, <3>1
  <2>3. CASE record.page # p
    BY <2>1, <2>3
  <2>. QED  BY <2>2, <2>3
<1>4. ASSUME NEW i \in DOMAIN g, g[i].page = p
      PROVE  \E j \in 1 .. m :
               /\ g[i] = hist[j]
               /\ \A k \in 1 .. j - 1 : \E l \in 1 .. i - 1 : g[l] = hist[k]
  <2>1. CASE i \in DOMAIN r
    <3>1. PICK j \in 1 .. n :
            /\ r[i] = hist[j]
            /\ \A k \in 1 .. j - 1 : \E l \in 1 .. i - 1 : r[l] = hist[k]
      BY <1>1, <1>4, <2>1 DEF Tabled
    <3>2. j \in 1 .. m
      BY <1>2
    <3>3. \A l \in 1 .. i - 1 : g[l] = r[l]
      BY <1>1, <2>1
    <3>. QED  BY <1>1, <2>1, <3>1, <3>2, <3>3
  <2>2. CASE i = Len(r) + 1
    <3>1. record.page = p /\ g[i] = hist[n + 1] /\ n + 1 \in 1 .. m
      BY <1>1, <1>4, <2>2
    <3>2. ASSUME NEW k \in 1 .. n PROVE \E l \in 1 .. i - 1 : g[l] = hist[k]
      <4>1. PICK l \in DOMAIN r : r[l] = hist[k]
        BY DEF Tabled
      <4>2. l \in 1 .. i - 1
        BY <1>1, <2>2
      <4>. QED  BY <1>1, <4>1, <4>2
    <3>3. (n + 1) - 1 = n
      OBVIOUS
    <3>. QED  BY <3>1, <3>2, <3>3
  <2>. QED  BY <1>1, <2>1, <2>2
<1>. QED  BY <1>2, <1>3, <1>4 DEF Tabled, g

-----------------------------------------------------------------------------
(* The steps *)

\* One record more is heard: the table is behind by one more.
LEMMA HearMore ==
  ASSUME NEW r, NEW p, NEW hist \in Seq(Records), NEW n \in Nat,
         Told(p, hist), Tabled(r, p, hist, n),
         NEW record \in Records, record.page = p,
         \A j \in 1 .. Len(hist) : hist[j].span # record.span
  PROVE  Told(p, Append(hist, record)) /\ Tabled(r, p, Append(hist, record), n)
<1>. DEFINE g == Append(hist, record)
<1>1. /\ g \in Seq(Records) /\ Len(g) = Len(hist) + 1 /\ Len(hist) \in Nat
      /\ \A k \in 1 .. Len(hist) : k \in 1 .. Len(g) /\ g[k] = hist[k]
      /\ g[Len(hist) + 1] = record
      /\ \A k \in 1 .. Len(g) : k \in 1 .. Len(hist) \/ k = Len(hist) + 1
  OBVIOUS
<1>. HIDE DEF g
<1>2. Told(p, g)
  <2>1. \A j \in 1 .. Len(g) : g[j].page = p
    BY <1>1 DEF Told
  <2>2. \A j, k \in 1 .. Len(g) : g[j].span = g[k].span => j = k
    BY <1>1 DEF Told
  <2>. QED  BY <1>1, <2>1, <2>2 DEF Told
<1>3. n <= Len(hist) /\ n <= Len(g) /\ \A j \in 1 .. n : j \in 1 .. Len(hist)
  BY <1>1 DEF Tabled
<1>4. \A j \in 1 .. n : g[j] = hist[j]
  BY <1>1, <1>3
<1>5. \A j \in 1 .. n : \A m \in 1 .. j - 1 : m \in 1 .. n
  OBVIOUS
<1>6. Tabled(r, p, g, n)
  BY <1>3, <1>4, <1>5 DEF Tabled
<1>. QED  BY <1>2, <1>6 DEF g

\* A step that leaves the table and the other pages alone
LEMMA OnlyPage ==
  ASSUME AuditInv, NEW p \in Pages, NEW n \in Nat, Typed', rows' = rows,
         \A q \in Pages \ {p} : /\ page'[q] = page[q] /\ sink'[q] = sink[q]
                                /\ over'[q] = over[q] /\ heard'[q] = heard[q],
         PageInv(p, n)'
  PROVE  AuditInv'
<1>1. ASSUME NEW q \in Pages PROVE \E k \in Nat : PageInv(q, k)'
  <2>1. CASE q = p
    BY <2>1
  <2>2. CASE q # p
    <3>1. PICK k \in Nat : PageInv(q, k)
      BY DEF AuditInv
    <3>2. PageInv(q, k)'
      BY <2>2, <3>1 DEF PageInv
    <3>. QED  BY <3>2
  <2>. QED  BY <2>1, <2>2
<1>2. (\A i, k \in DOMAIN rows : rows[i] = rows[k] => i = k)'
  BY DEF AuditInv
<1>. QED  BY <1>1, <1>2 DEF AuditInv

\* A step of the sink alone
LEMMA SinkSteps ==
  ASSUME AuditInv, NEW p \in Pages, NEW n \in Nat, PageInv(p, n),
         page[p] # "gone", NEW s, sink' = [sink EXCEPT ![p] = s],
         Works(s, heard[p], n),
         page[p] = "shown" => ~s.closing /\ ~s.closed, page[p] # "unseen",
         s.reply = "refused" => sink[p].reply = "refused",
         UNCHANGED <<page, over, rows, heard>>
  PROVE  AuditInv'
<1>1. Typed'
  BY DEF AuditInv, Typed
<1>2. /\ sink'[p] = s
      /\ \A q \in Pages \ {p} : sink'[q] = sink[q]
  BY DEF AuditInv, Typed
<1>3. PageInv(p, n)'
  BY <1>2 DEF PageInv
<1>. QED  BY <1>1, <1>2, <1>3, OnlyPage

\* A span ends, and the sink of the page is told, or told to drain.
LEMMA Ends ==
  ASSUME AuditInv, NEW p \in Pages, NEW n \in Nat, PageInv(p, n),
         page[p] \in {"shown", "leaving"}, page'[p] \in {"shown", "leaving"},
         \A q \in Pages \ {p} : page'[q] = page[q],
         page' \in [Pages -> {"unseen", "shown", "leaving", "gone"}],
         NEW record \in Records, Endable(p, record), End(p, record),
         NEW s, sink' = [sink EXCEPT ![p] = s],
         Works(s, Append(heard[p], record), n),
         page'[p] = "shown" => ~s.closing /\ ~s.closed,
         s.reply = "refused" => sink[p].reply = "refused",
         rows' = rows
  PROVE  AuditInv'
<1>1. /\ heard[p] \in Seq(Records) /\ Append(heard[p], record) \in Seq(Records)
      /\ heard'[p] = Append(heard[p], record)
      /\ over'[p] = over[p] \cup {record.span}
      /\ sink'[p] = s
      /\ \A q \in Pages \ {p} :
           sink'[q] = sink[q] /\ over'[q] = over[q] /\ heard'[q] = heard[q]
  BY DEF AuditInv, Typed, End
<1>2. Typed'
  BY <1>1 DEF AuditInv, Typed, End
<1>3. record.page = p /\ record.span \notin over[p]
  BY DEF Endable
<1>4. /\ Told(p, heard[p]) /\ Tabled(rows, p, heard[p], n)
      /\ \A j \in 1 .. Len(heard[p]) : heard[p][j].span \in over[p]
  BY DEF PageInv
<1>5. Told(p, heard'[p]) /\ Tabled(rows, p, heard'[p], n)
  <2>. DEFINE hist == heard[p]
  <2>1. \A j \in 1 .. Len(hist) : hist[j].span # record.span
    BY <1>3, <1>4
  <2>2. hist \in Seq(Records) /\ Told(p, hist) /\ Tabled(rows, p, hist, n)
    BY <1>1, <1>4
  <2>. HIDE DEF hist
  <2>3. Told(p, Append(hist, record)) /\ Tabled(rows, p, Append(hist, record), n)
    BY <1>3, <2>1, <2>2, HearMore
  <2>. QED  BY <1>1, <2>3 DEF hist
<1>6. \A j \in 1 .. Len(heard'[p]) : heard'[p][j].span \in over'[p]
  BY <1>1, <1>4
<1>7. PageInv(p, n)'
  BY <1>1, <1>5, <1>6 DEF PageInv
<1>. QED  BY <1>1, <1>2, <1>7, OnlyPage

-----------------------------------------------------------------------------
(* A sink does not begin to close, and gets no answer, by what it does itself. *)

Within(s, t) ==
  /\ t.reply \in {s.reply, "none"}
  /\ ~s.closing /\ ~s.closed => ~t.closing /\ ~t.closed

LEMMA FinishWithin ==
  ASSUME NEW s, SinkFields \subseteq DOMAIN s
  PROVE  /\ Within(s, FinishCloseIfSettled(s))
         /\ SinkFields \subseteq DOMAIN FinishCloseIfSettled(s)
<1>. DEFINE t == FinishCloseIfSettled(s)
<1>1. CASE t = s
  BY <1>1 DEF Within
<1>2. CASE t # s
  <2>1. t = [s EXCEPT !.closed = TRUE, !.closing = FALSE] /\ s.closing
    BY <1>2 DEF FinishCloseIfSettled
  <2>. HIDE DEF t
  <2>2. DOMAIN t = DOMAIN s /\ t.reply = s.reply
    BY <2>1 DEF SinkFields
  <2>. QED  BY <2>1, <2>2 DEF Within, t
<1>. QED  BY <1>1, <1>2

LEMMA KickWithin ==
  ASSUME NEW s, SinkFields \subseteq DOMAIN s
  PROVE  Within(s, Kick(s)) /\ SinkFields \subseteq DOMAIN Kick(s)
<1>. DEFINE t == Kick(s)
            idle == s.inFlight \/ s.timer \/ ~s.networkEnabled \/ s.queue = <<>>
<1>1. CASE idle
  BY <1>1, FinishWithin DEF Kick
<1>2. CASE ~idle
  <2>. DEFINE attempt == s.queue[1].attempts + 1
              post == [record |-> s.queue[1].record, attempt |-> attempt]
              queue == [s.queue EXCEPT ![1].attempts = attempt]
              wire == s.wire \cup {post}
  <2>1. t = [s EXCEPT !.queue = queue, !.inFlight = TRUE, !.reply = "none", !.wire = wire]
    BY <1>2 DEF Kick
  <2>. HIDE DEF queue, wire
  <2>2. /\ DOMAIN t = DOMAIN s /\ t.reply = "none"
        /\ t.closing = s.closing /\ t.closed = s.closed
    BY <2>1 DEF SinkFields
  <2>. HIDE DEF t
  <2>. QED  BY <2>2 DEF Within, t
<1>. QED  BY <1>1, <1>2

\* A change of other fields, with Kick after it
LEMMA KickedWithin ==
  ASSUME NEW s, NEW t, SinkFields \subseteq DOMAIN t, Within(s, t)
  PROVE  Within(s, Kick(t))
<1>1. Within(t, Kick(t))
  BY KickWithin
<1>. QED  BY <1>1 DEF Within

LEMMA ResumesWithin ==
  ASSUME NEW s, SinkFields \subseteq DOMAIN s
  PROVE  Within(s, Kick([s EXCEPT !.timer = FALSE]))
<1>. DEFINE t == [s EXCEPT !.timer = FALSE]
<1>1. /\ DOMAIN t = DOMAIN s /\ t.reply = s.reply
      /\ t.closing = s.closing /\ t.closed = s.closed
  BY DEF SinkFields
<1>. HIDE DEF t
<1>2. Within(s, Kick(t))
  BY <1>1, KickedWithin DEF Within
<1>. QED  BY <1>2 DEF t

LEMMA ObserveWithin ==
  ASSUME NEW s, SinkFields \subseteq DOMAIN s, NEW record
  PROVE  Within(s, Observe(s, record))
<1>. DEFINE queue == Append(s.queue, [record |-> record, attempts |-> 0])
            t == [s EXCEPT !.queue = queue]
            u == [s EXCEPT !.accepting = FALSE, !.overflowed = TRUE]
<1>. HIDE DEF queue
<1>1. Observe(s, record) \in {s, u, Kick(t)}
  BY DEF Observe, Enqueue, DisableInput, queue
<1>2. /\ DOMAIN t = DOMAIN s /\ t.reply = s.reply
      /\ t.closing = s.closing /\ t.closed = s.closed
  BY DEF SinkFields
<1>3. /\ u.reply = s.reply /\ u.closing = s.closing /\ u.closed = s.closed
  BY DEF SinkFields
<1>. HIDE DEF t, u
<1>4. Within(s, Kick(t))
  BY <1>2, KickedWithin DEF Within
<1>. QED  BY <1>1, <1>3, <1>4 DEF Within

LEMMA SettlesWithin ==
  ASSUME NEW s, SinkFields \subseteq DOMAIN s, NEW outcome \in Outcomes(s)
  PROVE  Within(s, HandleOutcome([s EXCEPT !.inFlight = FALSE, !.reply = "none"], outcome))
<1>. DEFINE t == [s EXCEPT !.inFlight = FALSE, !.reply = "none"]
            a == [t EXCEPT !.queue = Tail(t.queue)]
            b == [t EXCEPT !.closeRetryUsed = TRUE]
            c == [t EXCEPT !.timer = TRUE]
            d == [t EXCEPT !.accepting = FALSE, !.networkEnabled = FALSE, !.timer = FALSE,
                           !.queue = <<>>]
            after == HandleOutcome(t, outcome)
<1>1. after \in {Kick(a), Kick(b), c, FinishCloseIfSettled(d)}
  <2>. HIDE DEF t
  <2>1. outcome \in {"accepted", "permanent", "retryable"}
    BY DEF Outcomes
  <2>. QED  BY <2>1 DEF HandleOutcome, DisableNetwork, Retryable
<1>2. /\ DOMAIN t = DOMAIN s /\ t.reply = "none"
      /\ t.closing = s.closing /\ t.closed = s.closed
  BY DEF SinkFields
<1>. HIDE DEF t
<1>3. /\ DOMAIN a = DOMAIN s /\ a.reply = "none"
      /\ a.closing = s.closing /\ a.closed = s.closed
  BY <1>2 DEF SinkFields
<1>4. /\ DOMAIN b = DOMAIN s /\ b.reply = "none"
      /\ b.closing = s.closing /\ b.closed = s.closed
  BY <1>2 DEF SinkFields
<1>5. /\ DOMAIN c = DOMAIN s /\ c.reply = "none"
      /\ c.closing = s.closing /\ c.closed = s.closed
  BY <1>2 DEF SinkFields
<1>6. /\ DOMAIN d = DOMAIN s /\ d.reply = "none"
      /\ d.closing = s.closing /\ d.closed = s.closed
  BY <1>2 DEF SinkFields
<1>. HIDE DEF a, b, c, d
<1>7. Within(a, Kick(a)) /\ Within(b, Kick(b)) /\ Within(d, FinishCloseIfSettled(d))
  BY <1>3, <1>4, <1>6, KickWithin, FinishWithin
<1>8. /\ Within(s, Kick(a)) /\ Within(s, Kick(b)) /\ Within(s, c)
      /\ Within(s, FinishCloseIfSettled(d))
  BY <1>3, <1>4, <1>5, <1>6, <1>7 DEF Within
<1>9. Within(s, after)
  <2>. HIDE DEF after
  <2>. QED  BY <1>1, <1>8
<1>. QED  BY <1>9 DEF t

LEMMA CloseSinkWithin ==
  ASSUME NEW s, SinkFields \subseteq DOMAIN s
  PROVE  CloseSink(s).reply \in {s.reply, "none"}
<1>. DEFINE used == s.closeRetryUsed \/ s.timer
            t == [s EXCEPT !.accepting = FALSE, !.closing = TRUE, !.timer = FALSE,
                           !.closeRetryUsed = used]
<1>. HIDE DEF used
<1>1. DOMAIN t = DOMAIN s /\ t.reply = s.reply
  BY DEF SinkFields
<1>2. CloseSink(s) = FinishCloseIfSettled(Kick(t))
  BY DEF CloseSink, used
<1>. HIDE DEF t
<1>3. Within(t, Kick(t)) /\ Within(Kick(t), FinishCloseIfSettled(Kick(t)))
  BY <1>1, KickWithin, FinishWithin
<1>. QED  BY <1>1, <1>2, <1>3 DEF Within

-----------------------------------------------------------------------------
(* The actions *)

LEMMA ShowPageKeeps ==
  ASSUME AuditInv, NEW p \in Pages, ShowPage(p)
  PROVE  AuditInv'
<1>1. PICK n \in Nat : PageInv(p, n)
  BY DEF AuditInv
<1>2. Typed' /\ page'[p] = "shown" /\ \A q \in Pages \ {p} : page'[q] = page[q]
  BY DEF AuditInv, Typed, ShowPage
<1>3. PageInv(p, n)'
  BY <1>1, <1>2 DEF PageInv, ShowPage
<1>. QED  BY <1>2, <1>3, OnlyPage DEF ShowPage

LEMMA EndSpanKeeps ==
  ASSUME AuditInv, NEW p \in Pages, NEW record \in Records, EndSpan(p, record)
  PROVE  AuditInv'
<1>1. PICK n \in Nat : PageInv(p, n)
  BY DEF AuditInv
<1>. DEFINE s == sink[p]
            t == Observe(s, record)
<1>2. /\ page[p] = "shown" /\ page' = page /\ rows' = rows
      /\ sink' = [sink EXCEPT ![p] = t]
      /\ Endable(p, record) /\ End(p, record)
  BY DEF EndSpan
<1>3. /\ Works(s, heard[p], n) /\ SinkFields \subseteq DOMAIN s
      /\ ~s.closing /\ ~s.closed
      /\ n <= Len(heard[p]) /\ heard[p] \in Seq(Records)
  BY <1>1, <1>2 DEF AuditInv, Typed, PageInv, Tabled, Works, Flags
<1>. HIDE DEF s
<1>4. Works(t, Append(heard[p], record), n)
  BY <1>3, ObserveKeeps
<1>5. /\ ~t.closing /\ ~t.closed
      /\ t.reply = "refused" => s.reply = "refused"
  BY <1>3, ObserveWithin DEF Within
<1>. HIDE DEF t
<1>6. page'[p] = "shown" /\ page' \in [Pages -> {"unseen", "shown", "leaving", "gone"}]
  BY <1>2 DEF AuditInv, Typed
<1>. QED  BY <1>1, <1>2, <1>4, <1>5, <1>6, Ends DEF s

LEMMA HidePageKeeps ==
  ASSUME AuditInv, NEW p \in Pages, HidePage(p)
  PROVE  AuditInv'
<1>1. PICK n \in Nat : PageInv(p, n)
  BY DEF AuditInv
<1>. DEFINE s == sink[p]
            t == Expedite(s)
<1>2. /\ Works(s, heard[p], n) /\ SinkFields \subseteq DOMAIN s
      /\ ~s.closing /\ ~s.closed /\ Len(heard[p]) \in Nat
      /\ page[p] = "shown"
  BY <1>1 DEF AuditInv, Typed, PageInv, HidePage, Works, Flags
<1>3. Works(t, heard[p], n) /\ Within(s, t)
  <2>. HIDE DEF s
  <2>1. CASE t = s
    BY <1>2, <2>1 DEF Within
  <2>2. CASE t = Kick([s EXCEPT !.timer = FALSE])
    BY <1>2, <2>2, ResumesKeeps, ResumesWithin
  <2>. QED  BY <2>1, <2>2 DEF Expedite
<1>4. sink' = [sink EXCEPT ![p] = t] /\ UNCHANGED <<page, over, rows, heard>>
  BY DEF HidePage
<1>. HIDE DEF t
<1>. QED  BY <1>1, <1>2, <1>3, <1>4, SinkSteps DEF Within

LEMMA LeavePageKeeps ==
  ASSUME AuditInv, NEW p \in Pages, LeavePage(p)
  PROVE  AuditInv'
<1>1. PICK n \in Nat : PageInv(p, n)
  BY DEF AuditInv
<1>. DEFINE s == sink[p]
<1>2. /\ page[p] = "shown" /\ page'[p] = "leaving" /\ rows' = rows
      /\ page' \in [Pages -> {"unseen", "shown", "leaving", "gone"}]
      /\ \A q \in Pages \ {p} : page'[q] = page[q]
  BY DEF AuditInv, Typed, LeavePage
<1>3. /\ Works(s, heard[p], n) /\ SinkFields \subseteq DOMAIN s
      /\ ~s.closing /\ ~s.closed
      /\ n <= Len(heard[p]) /\ heard[p] \in Seq(Records)
  BY <1>1, <1>2 DEF AuditInv, Typed, PageInv, Tabled, Works, Flags
<1>4. CASE UNCHANGED <<over, sink, heard>>
  <2>1. Typed'
    BY <1>2, <1>4 DEF AuditInv, Typed
  <2>2. PageInv(p, n)'
    BY <1>1, <1>2, <1>4 DEF PageInv
  <2>. QED  BY <1>2, <1>4, <2>1, <2>2, OnlyPage
<1>5. ASSUME NEW record \in Records, Endable(p, record), End(p, record),
             sink' = [sink EXCEPT ![p] = Observe(@, record)]
      PROVE  AuditInv'
  <2>. DEFINE t == Observe(s, record)
  <2>1. sink' = [sink EXCEPT ![p] = t]
    BY <1>5
  <2>. HIDE DEF s
  <2>2. Works(t, Append(heard[p], record), n)
    BY <1>3, ObserveKeeps
  <2>3. t.reply = "refused" => s.reply = "refused"
    BY <1>3, ObserveWithin DEF Within
  <2>. HIDE DEF t
  <2>. QED  BY <1>1, <1>2, <1>5, <2>1, <2>2, <2>3, Ends DEF s
<1>. QED  BY <1>4, <1>5 DEF LeavePage

LEMMA CloseControllerKeeps ==
  ASSUME AuditInv, NEW p \in Pages, CloseController(p)
  PROVE  AuditInv'
<1>1. PICK n \in Nat : PageInv(p, n)
  BY DEF AuditInv
<1>. DEFINE s == sink[p]
<1>2. page[p] = "leaving" /\ page' = page /\ rows' = rows /\ ~s.closing /\ ~s.closed
  BY DEF CloseController
<1>3. /\ Works(s, heard[p], n) /\ SinkFields \subseteq DOMAIN s
      /\ n <= Len(heard[p]) /\ heard[p] \in Seq(Records) /\ Len(heard[p]) \in Nat
      /\ page \in [Pages -> {"unseen", "shown", "leaving", "gone"}]
  BY <1>1, <1>2 DEF AuditInv, Typed, PageInv, Tabled, Works, Flags
<1>4. ASSUME sink' = [sink EXCEPT ![p] = CloseSink(@)], UNCHANGED <<over, heard>>
      PROVE  AuditInv'
  <2>. DEFINE t == CloseSink(s)
  <2>1. sink' = [sink EXCEPT ![p] = t]
    BY <1>4
  <2>. HIDE DEF s
  <2>2. Works(t, heard[p], n) /\ t.reply \in {s.reply, "none"}
    BY <1>2, <1>3, CloseSinkKeeps, CloseSinkWithin
  <2>. HIDE DEF t
  <2>. QED  BY <1>1, <1>2, <1>4, <2>1, <2>2, SinkSteps DEF s
<1>5. ASSUME NEW record \in Records, Endable(p, record), End(p, record),
             sink' = [sink EXCEPT ![p] = CloseSink(Observe(@, record))]
      PROVE  AuditInv'
  <2>. DEFINE t == Observe(s, record)
              u == CloseSink(t)
  <2>1. sink' = [sink EXCEPT ![p] = u]
    BY <1>5
  <2>. HIDE DEF s
  <2>2. Works(t, Append(heard[p], record), n) /\ Len(Append(heard[p], record)) \in Nat
    BY <1>2, <1>3, ObserveKeeps
  <2>3. /\ SinkFields \subseteq DOMAIN t
        /\ ~t.closed /\ t.reply \in {s.reply, "none"}
    BY <1>2, <1>3, <2>2, ObserveWithin DEF Within, Works, Flags
  <2>. HIDE DEF t
  <2>4. Works(u, Append(heard[p], record), n) /\ u.reply \in {s.reply, "none"}
    BY <2>2, <2>3, CloseSinkKeeps, CloseSinkWithin
  <2>. HIDE DEF u
  <2>. QED  BY <1>1, <1>2, <1>3, <1>5, <2>1, <2>4, Ends DEF s
<1>. QED  BY <1>4, <1>5 DEF CloseController

\* The posts of a page that is gone are still on their way.
LEMMA PageDiesKeeps ==
  ASSUME AuditInv, NEW p \in Pages, PageDies(p)
  PROVE  AuditInv'
<1>1. PICK n \in Nat : PageInv(p, n)
  BY DEF AuditInv
<1>. DEFINE wire == sink[p].wire
            t == [NewSink EXCEPT !.wire = wire]
<1>2. /\ page[p] \in {"shown", "leaving"} /\ page' = [page EXCEPT ![p] = "gone"]
      /\ over' = [over EXCEPT ![p] = {}]
      /\ sink' = [sink EXCEPT ![p] = t] /\ UNCHANGED <<rows, heard>>
  BY DEF PageDies
<1>3. Works(sink[p], heard[p], n)
  BY <1>1, <1>2 DEF PageInv
<1>. HIDE DEF wire
<1>4. /\ SinkFields \subseteq DOMAIN t /\ t.wire = wire /\ t.closed = FALSE
      /\ t.closing = FALSE /\ t.inFlight = FALSE /\ t.reply = "none"
  BY DEF SinkFields, NewSink
<1>. HIDE DEF t
<1>5. IsLost(t, heard[p], n)
  BY <1>3, <1>4 DEF IsLost, Works, wire
<1>6. /\ Typed' /\ page'[p] = "gone" /\ sink'[p] = t
      /\ \A q \in Pages \ {p} : page'[q] = page[q] /\ over'[q] = over[q] /\ sink'[q] = sink[q]
  BY <1>2 DEF AuditInv, Typed
<1>7. PageInv(p, n)'
  BY <1>1, <1>2, <1>4, <1>5, <1>6 DEF PageInv
<1>. QED  BY <1>2, <1>6, <1>7, OnlyPage

LEMMA TimerFiresKeeps ==
  ASSUME AuditInv, NEW p \in Pages, TimerFires(p)
  PROVE  AuditInv'
<1>1. PICK n \in Nat : PageInv(p, n)
  BY DEF AuditInv
<1>. DEFINE s == sink[p]
            t == Kick([s EXCEPT !.timer = FALSE])
<1>2. /\ Works(s, heard[p], n) /\ SinkFields \subseteq DOMAIN s
      /\ page[p] = "shown" => ~s.closing /\ ~s.closed
      /\ Len(heard[p]) \in Nat
      /\ page[p] \in {"shown", "leaving"}
  BY <1>1 DEF AuditInv, Typed, PageInv, TimerFires, Alive, Works, Flags
<1>3. sink' = [sink EXCEPT ![p] = t] /\ UNCHANGED <<page, over, rows, heard>>
  BY DEF TimerFires
<1>. HIDE DEF s
<1>4. Works(t, heard[p], n) /\ Within(s, t)
  BY <1>2, ResumesKeeps, ResumesWithin
<1>. HIDE DEF t
<1>. QED  BY <1>1, <1>2, <1>3, <1>4, SinkSteps DEF Within, s

LEMMA FetchSettlesKeeps ==
  ASSUME AuditInv, NEW p \in Pages, FetchSettles(p)
  PROVE  AuditInv'
<1>1. PICK n \in Nat : PageInv(p, n)
  BY DEF AuditInv
<1>2. PICK outcome \in Outcomes(sink[p]) :
        sink' = [sink EXCEPT
          ![p] = HandleOutcome([@ EXCEPT !.inFlight = FALSE, !.reply = "none"], outcome)]
  BY DEF FetchSettles
<1>. DEFINE s == sink[p]
            t == HandleOutcome([s EXCEPT !.inFlight = FALSE, !.reply = "none"], outcome)
<1>3. /\ Works(s, heard[p], n) /\ SinkFields \subseteq DOMAIN s
      /\ page[p] = "shown" => ~s.closing /\ ~s.closed
      /\ Len(heard[p]) \in Nat
      /\ page[p] \in {"shown", "leaving"}
  BY <1>1 DEF AuditInv, Typed, PageInv, FetchSettles, Alive, Works, Flags
<1>4. sink' = [sink EXCEPT ![p] = t] /\ UNCHANGED <<page, over, rows, heard>>
  BY <1>2 DEF FetchSettles
<1>5. outcome \in Outcomes(s)
  BY <1>2
<1>. HIDE DEF s
<1>6. Works(t, heard[p], n) /\ Within(s, t)
  BY <1>3, <1>5, SettlesKeeps, SettlesWithin
<1>. HIDE DEF t
<1>. QED  BY <1>1, <1>3, <1>4, <1>6, SinkSteps DEF Within, s

\* A post that is served again changes nothing; the next record is added, unless the
\* table is full, and then it is the only one the database refuses.
LEMMA PersistKeeps ==
  ASSUME AuditInv, NEW p \in Pages, Persist(p)
  PROVE  AuditInv'
<1>. DEFINE s == sink[p]
            hist == heard[p]
<1>1. PICK n \in Nat : PageInv(p, n)
  BY DEF AuditInv
<1>2. PICK post \in s.wire :
        /\ sink' = [sink EXCEPT
             ![p].wire = @ \ {post},
             ![p].reply = IF s.inFlight /\ post = [record |-> s.queue[1].record,
                                                   attempt |-> s.queue[1].attempts]
                          THEN PersistVerdict(post.record) ELSE @]
        /\ rows' = RowsAfter(post.record)
  BY DEF Persist
<1>. DEFINE awaited == s.inFlight /\ post = [record |-> s.queue[1].record,
                                             attempt |-> s.queue[1].attempts]
            record == post.record
            verdict == PersistVerdict(record)
            wire == s.wire \ {post}
            reply == IF awaited THEN verdict ELSE s.reply
            t == [s EXCEPT !.wire = wire, !.reply = reply]
            fresh == ~Stored(record) /\ Len(rows) < RowLimit
<1>3. page' = page /\ over' = over /\ heard' = heard
  BY DEF Persist
<1>4. /\ Posts(s.wire, hist, n) /\ SinkFields \subseteq DOMAIN s
      /\ hist \in Seq(Records) /\ rows \in Seq(Records) /\ Len(hist) \in Nat /\ Len(rows) \in Nat
      /\ Tabled(rows, p, hist, n) /\ Told(p, hist)
      /\ n <= Len(hist)
  BY <1>1 DEF AuditInv, Typed, PageInv, Works, Flags, IsLost, Tabled
<1>5. PICK j \in 1 .. Len(hist) : j <= n + 1 /\ record = hist[j]
  BY <1>4 DEF Posts
<1>6. /\ record \in Records /\ record.page = p
      /\ ~Conflicts(record)
      /\ Stored(record) <=> j <= n
  BY <1>1, <1>5, ServedIs
<1>7. rows' = RowsAfter(record)
  BY <1>2
<1>8. /\ DOMAIN t = DOMAIN s /\ t.wire = wire /\ t.reply = reply
      /\ t.queue = s.queue /\ t.inFlight = s.inFlight /\ t.accepting = s.accepting
      /\ t.networkEnabled = s.networkEnabled /\ t.overflowed = s.overflowed
      /\ t.closing = s.closing /\ t.closed = s.closed
  <2>. HIDE DEF wire, reply
  <2>. QED  BY <1>4 DEF SinkFields
<1>9. sink' = [sink EXCEPT ![p] = t]
  BY <1>2 DEF AuditInv, Typed
<1>10. /\ sink'[p] = t /\ \A q \in Pages \ {p} : sink'[q] = sink[q]
       /\ DOMAIN sink' = Pages /\ sink' = [q \in Pages |-> sink'[q]]
  BY <1>9 DEF AuditInv, Typed
<1>. HIDE DEF t, s
<1>11. /\ rows' = IF fresh THEN Append(rows, record) ELSE rows
       /\ verdict = IF Stored(record) \/ fresh THEN "stored" ELSE "refused"
       /\ ~Stored(record) /\ ~fresh => Len(rows) >= RowLimit
  BY <1>4, <1>6, <1>7, LimitsAssumption DEF RowsAfter, PersistVerdict
<1>12. fresh => j = n + 1
  BY <1>5, <1>6
<1>. PICK m \in Nat : m = IF fresh THEN n + 1 ELSE n
  OBVIOUS
<1>13. /\ n <= m /\ (fresh => m = n + 1) /\ (~fresh => m = n)
       /\ Len(rows) >= RowLimit => ~fresh
  BY <1>4, LimitsAssumption
<1>. HIDE DEF verdict
<1>14. /\ rows' \in Seq(Records) /\ Len(rows') >= Len(rows)
       /\ \A i, k \in DOMAIN rows' : rows'[i] = rows'[k] => i = k
  <2>1. \A i, k \in DOMAIN rows : rows[i] = rows[k] => i = k
    BY DEF AuditInv
  <2>2. CASE fresh
    <3>. DEFINE r == Append(rows, record)
    <3>1. /\ r \in Seq(Records) /\ Len(r) = Len(rows) + 1
          /\ \A i \in DOMAIN r : \/ i \in DOMAIN rows /\ r[i] = rows[i]
                                 \/ i = Len(rows) + 1 /\ r[i] = record
      BY <1>4, <1>6
    <3>2. \A i \in DOMAIN rows : rows[i] # record
      BY <2>2 DEF Stored
    <3>. HIDE DEF r
    <3>3. \A i, k \in DOMAIN r : r[i] = r[k] => i = k
      BY <2>1, <3>1, <3>2
    <3>4. rows' = r
      BY <1>11, <2>2 DEF r
    <3>. QED  BY <1>4, <3>1, <3>3, <3>4
  <2>3. CASE ~fresh
    BY <1>4, <1>11, <2>1, <2>3
  <2>. QED  BY <2>2, <2>3
<1>15. Tabled(rows', p, hist, m)
  <2>1. CASE fresh
    <3>1. n + 1 <= Len(hist) /\ record = hist[n + 1]
      BY <1>5, <1>12, <2>1
    <3>2. Tabled(Append(rows, record), p, hist, IF record.page = p THEN n + 1 ELSE n)
      BY <1>4, <1>6, <3>1, TableGrows
    <3>. QED  BY <1>6, <1>11, <1>13, <2>1, <3>2
  <2>2. CASE ~fresh
    BY <1>4, <1>11, <1>13, <2>2
  <2>. QED  BY <2>1, <2>2
<1>16. ASSUME NEW q \in Pages \ {p}, NEW k \in Nat, Tabled(rows, q, heard[q], k)
       PROVE  Tabled(rows', q, heard[q], k)
  <2>1. CASE fresh
    <3>1. record.page # q /\ Len(heard[q]) \in Nat
      BY <1>6, <1>16 DEF AuditInv, Typed
    <3>2. Tabled(Append(rows, record), q, heard[q], IF record.page = q THEN k + 1 ELSE k)
      BY <1>4, <1>6, <1>16, <3>1, TableGrows
    <3>. QED  BY <1>11, <2>1, <3>1, <3>2
  <2>2. CASE ~fresh
    BY <1>11, <1>16, <2>2
  <2>. QED  BY <2>1, <2>2
<1>. HIDE DEF fresh, record
<1>17. Posts(wire, hist, m)
  <2>1. \A i \in Nat : i <= n + 1 => i <= m + 1
    BY <1>13
  <2>. QED  BY <1>4, <2>1 DEF Posts
<1>18. reply = "refused" => Len(rows') >= RowLimit
  BY <1>1, <1>4, <1>11, <1>14, LimitsAssumption DEF PageInv, s
<1>19. ASSUME page[p] = "gone" PROVE PageInv(p, m)'
  <2>1. IsLost(s, hist, n)
    BY <1>1, <1>19 DEF PageInv, s
  <2>2. IsLost(t, hist, m)
    BY <1>8, <1>17, <2>1 DEF IsLost
  <2>3. PageInv(p, m)'
    BY <1>1, <1>3, <1>4, <1>8, <1>10, <1>15, <1>18, <1>19, <2>2 DEF PageInv
  <2>. QED  BY <2>3
<1>20. ASSUME page[p] # "gone" PROVE PageInv(p, m)'
  <2>1. Works(s, hist, n)
    BY <1>1, <1>20 DEF PageInv, s
  <2>2. Flags(t)
    BY <1>8, <1>11, <2>1 DEF Works, Flags
  <2>3. PICK d \in Nat :
          /\ d <= n
          /\ d + Len(s.queue) <= Len(hist)
          /\ \A k \in 1 .. Len(s.queue) : s.queue[k].record = hist[d + k]
          /\ s.networkEnabled /\ ~s.overflowed => d + Len(s.queue) = Len(hist)
          /\ s.reply = "stored" => d < n
          /\ s.reply = "refused" => n <= d
    BY <2>1 DEF Works, Backlog
  <2>4. ASSUME awaited PROVE Backlog(t, hist, m)
    <3>1. s.queue # <<>> /\ Len(s.queue) \in Nat /\ Len(s.queue) >= 1
      BY <2>1, <2>4 DEF Works, Flags
    <3>2. record = s.queue[1].record
      BY <2>4 DEF record
    <3>3. d + 1 \in 1 .. Len(hist) /\ record = hist[d + 1]
      BY <1>4, <2>3, <3>1, <3>2
    <3>4. j = d + 1
      BY <1>4, <1>5, <3>3 DEF Told
    <3>5. reply = "stored" => d < m
      BY <1>6, <1>11, <1>12, <1>13, <2>4, <3>4
    <3>6. reply = "refused" => m <= d
      BY <1>6, <1>11, <1>13, <2>4, <3>4
    <3>7. d <= m
      BY <1>13, <2>3
    <3>. QED  BY <1>8, <2>3, <3>5, <3>6, <3>7 DEF Backlog
  <2>5. ASSUME ~awaited PROVE Backlog(t, hist, m)
    <3>1. reply = s.reply
      BY <2>5
    <3>2. s.reply = "refused" => m = n
      BY <1>1, <1>13 DEF PageInv, s
    <3>3. d <= m /\ (reply = "stored" => d < m) /\ (reply = "refused" => m <= d)
      BY <1>13, <2>3, <3>1, <3>2
    <3>. QED  BY <1>8, <2>3, <3>3 DEF Backlog
  <2>6. Works(t, hist, m)
    BY <1>8, <1>17, <2>2, <2>4, <2>5 DEF Works
  <2>7. PageInv(p, m)'
    BY <1>1, <1>3, <1>4, <1>8, <1>10, <1>15, <1>18, <1>20, <2>6 DEF PageInv, s
  <2>. QED  BY <2>7
<1>21. \E k \in Nat : PageInv(p, k)'
  BY <1>19, <1>20
<1>22. ASSUME NEW q \in Pages \ {p} PROVE \E k \in Nat : PageInv(q, k)'
  <2>1. PICK k \in Nat : PageInv(q, k)
    BY DEF AuditInv
  <2>2. Tabled(rows', q, heard[q], k)
    BY <1>16, <2>1 DEF PageInv
  <2>3. sink[q].reply = "refused" => Len(rows') >= RowLimit
    BY <1>4, <1>14, <2>1, LimitsAssumption DEF PageInv
  <2>4. PageInv(q, k)'
    BY <1>3, <1>10, <2>1, <2>2, <2>3 DEF PageInv
  <2>. QED  BY <2>4
<1>23. Typed'
  BY <1>3, <1>10, <1>14 DEF AuditInv, Typed
<1>. QED  BY <1>14, <1>21, <1>22, <1>23 DEF AuditInv

-----------------------------------------------------------------------------
(* The theorem *)

LEMMA AuditStarts == AuditInit => AuditInv
<1>. SUFFICES ASSUME AuditInit PROVE AuditInv
  OBVIOUS
<1>1. /\ \A p \in Pages : page[p] = "unseen" /\ sink[p] = NewSink /\ heard[p] = <<>>
      /\ rows = <<>>
  BY DEF AuditInit
<1>2. Typed
  BY DEF AuditInit, Typed
<1>3. <<>> \in Seq(Entries) /\ <<>> \in Seq(Records) /\ Len(<<>>) = 0
  OBVIOUS
<1>4. Works(NewSink, <<>>, 0)
  <2>1. Flags(NewSink)
    BY <1>3 DEF Flags, SinkFields, NewSink
  <2>2. NewSink.queue = <<>> /\ NewSink.wire = {} /\ NewSink.reply = "none"
    BY DEF NewSink
  <2>3. Backlog(NewSink, <<>>, 0) /\ Posts({}, <<>>, 0)
    BY <1>3, <2>2 DEF Backlog, Posts
  <2>. QED  BY <2>1, <2>2, <2>3 DEF Works
<1>5. ~NewSink.closing /\ ~NewSink.closed /\ NewSink.reply = "none"
  BY DEF NewSink
<1>6. ASSUME NEW p \in Pages PROVE PageInv(p, 0)
  <2>1. Told(p, <<>>) /\ Tabled(<<>>, p, <<>>, 0)
    BY <1>3 DEF Told, Tabled
  <2>. QED  BY <1>1, <1>3, <1>4, <1>5, <2>1 DEF PageInv
<1>. QED  BY <1>1, <1>2, <1>6 DEF AuditInv

LEMMA AuditContinues == AuditInv /\ [AuditNext]_auditVars => AuditInv'
<1>. SUFFICES ASSUME AuditInv, [AuditNext]_auditVars PROVE AuditInv'
  OBVIOUS
<1>1. CASE UNCHANGED <<page, over, sink, rows, heard>>
  BY <1>1 DEF AuditInv, Typed, PageInv, Tabled
<1>2. CASE UNCHANGED auditVars
  BY <1>1, <1>2 DEF auditVars
<1>3. CASE AuditNext
  <2>1. PICK p \in Pages :
          \/ ShowPage(p) \/ StartPlayback(p) \/ HidePage(p) \/ LeavePage(p)
          \/ CloseController(p) \/ PageDies(p) \/ TimerFires(p) \/ FetchSettles(p)
          \/ Persist(p)
          \/ \E clip \in Clips : RequestPlayback(p, clip)
          \/ \E utterance \in Utterances : StartSpeaking(p, utterance)
          \/ \E record \in Records : EndSpan(p, record)
    BY <1>3 DEF AuditNext
  <2>2. CASE ShowPage(p)
    BY <2>2, ShowPageKeeps
  <2>3. CASE StartPlayback(p)
    BY <1>1, <2>3 DEF StartPlayback
  <2>4. CASE HidePage(p)
    BY <2>4, HidePageKeeps
  <2>5. CASE LeavePage(p)
    BY <2>5, LeavePageKeeps
  <2>6. CASE CloseController(p)
    BY <2>6, CloseControllerKeeps
  <2>7. CASE PageDies(p)
    BY <2>7, PageDiesKeeps
  <2>8. CASE TimerFires(p)
    BY <2>8, TimerFiresKeeps
  <2>9. CASE FetchSettles(p)
    BY <2>9, FetchSettlesKeeps
  <2>10. CASE Persist(p)
    BY <2>10, PersistKeeps
  <2>11. CASE \E clip \in Clips : RequestPlayback(p, clip)
    BY <1>1, <2>11 DEF RequestPlayback
  <2>12. CASE \E utterance \in Utterances : StartSpeaking(p, utterance)
    BY <1>1, <2>12 DEF StartSpeaking
  <2>13. CASE \E record \in Records : EndSpan(p, record)
    BY <2>13, EndSpanKeeps
  <2>. QED
    BY <2>1, <2>2, <2>3, <2>4, <2>5, <2>6, <2>7, <2>8, <2>9, <2>10, <2>11, <2>12, <2>13
<1>. QED  BY <1>2, <1>3

LEMMA AuditInvSuffices == AuditInv => AuditIsExact
<1>. SUFFICES ASSUME AuditInv PROVE AuditIsExact
  OBVIOUS
<1>1. ASSUME NEW i \in DOMAIN rows
      PROVE  \E j \in DOMAIN heard[rows[i].page] :
               /\ rows[i] = heard[rows[i].page][j]
               /\ \A m \in 1 .. j - 1 : \E l \in 1 .. i - 1 :
                    rows[l] = heard[rows[i].page][m]
  <2>. DEFINE p == rows[i].page
  <2>0. rows \in Seq(Records) /\ rows[i] \in Records
    BY DEF AuditInv, Typed
  <2>1. p \in Pages
    BY <2>0 DEF Records
  <2>2. PICK n \in Nat : PageInv(p, n)
    BY <2>1 DEF AuditInv
  <2>3. /\ heard[p] \in Seq(Records) /\ DOMAIN heard[p] = 1 .. Len(heard[p])
        /\ n <= Len(heard[p]) /\ Len(heard[p]) \in Nat
    BY <2>1, <2>2 DEF AuditInv, Typed, PageInv, Tabled
  <2>4. PICK j \in 1 .. n :
          /\ rows[i] = heard[p][j]
          /\ \A m \in 1 .. j - 1 : \E l \in 1 .. i - 1 : rows[l] = heard[p][m]
    BY <2>2 DEF PageInv, Tabled
  <2>5. j \in DOMAIN heard[p]
    BY <2>3
  <2>. QED  BY <2>4, <2>5
<1>2. ASSUME NEW p \in Pages
      PROVE  /\ sink[p].closed /\ sink[p].networkEnabled /\ ~sink[p].overflowed
                  => \A j \in DOMAIN heard[p] : Stored(heard[p][j])
             /\ sink[p].reply = "refused" => ~Stored(sink[p].queue[1].record)
  <2>. DEFINE s == sink[p]
              hist == heard[p]
  <2>1. PICK n \in Nat : PageInv(p, n)
    BY DEF AuditInv
  <2>2. /\ hist \in Seq(Records) /\ Tabled(rows, p, hist, n) /\ Told(p, hist)
        /\ n <= Len(hist) /\ Len(hist) \in Nat
    BY <2>1 DEF AuditInv, Typed, PageInv, Tabled
  <2>3. CASE page[p] = "gone"
    BY <2>1, <2>3 DEF PageInv, IsLost
  <2>4. CASE page[p] # "gone"
    <3>1. Works(s, hist, n)
      BY <2>1, <2>4 DEF PageInv
    <3>. HIDE DEF s, hist
    <3>2. PICK d \in Nat :
            /\ d <= n
            /\ d + Len(s.queue) <= Len(hist)
            /\ \A k \in 1 .. Len(s.queue) : s.queue[k].record = hist[d + k]
            /\ s.networkEnabled /\ ~s.overflowed => d + Len(s.queue) = Len(hist)
            /\ s.reply = "refused" => n <= d
      BY <3>1 DEF Works, Backlog
    <3>3. Len(s.queue) \in Nat
      BY <3>1 DEF Works, Flags
    <3>4. ASSUME s.closed, s.networkEnabled, ~s.overflowed, NEW j \in DOMAIN hist
          PROVE  Stored(hist[j])
      <4>1. Len(s.queue) = 0
        BY <3>1, <3>4 DEF Works, Flags
      <4>2. j \in 1 .. n
        BY <2>2, <3>2, <3>4, <4>1
      <4>. QED  BY <2>2, <4>2 DEF Tabled, Stored
    <3>5. ASSUME s.reply = "refused" PROVE ~Stored(s.queue[1].record)
      <4>1. s.queue # <<>> /\ Len(s.queue) >= 1
        BY <3>1, <3>5 DEF Works, Flags
      <4>2. /\ d + 1 \in 1 .. Len(hist) /\ d + 1 <= n + 1 /\ d = n
            /\ s.queue[1].record = hist[d + 1]
        BY <2>2, <3>2, <3>3, <3>5, <4>1
      <4>3. Stored(s.queue[1].record) <=> d + 1 <= n
        BY <2>1, <4>2, ServedIs DEF hist
      <4>. QED  BY <4>2, <4>3
    <3>. QED  BY <3>4, <3>5 DEF s, hist
  <2>. QED  BY <2>3, <2>4
<1>3. \A i, k \in DOMAIN rows : rows[i] = rows[k] => i = k
  BY DEF AuditInv
<1>. QED  BY <1>1, <1>2, <1>3 DEF AuditIsExact

\* However often posts are repeated and overtaken, or served after their page has given
\* up on them or is gone: the table has what was heard, each record once, and of every
\* page the records in order (#kick and #handleOutcome of hearing-audio-audit-sink.ts
\* against persistHearingAudioAuditForOwner).
THEOREM AuditStaysExact == AuditSpec => []AuditIsExact
<1>. QED  BY AuditStarts, AuditContinues, AuditInvSuffices, PTL DEF AuditSpec

-----------------------------------------------------------------------------
(***************************************************************************)
(* That nothing is put to the court twice.                                 *)
(*                                                                         *)
(* Good(g) is about a browser in any state g, also in the middle of a task *)
(* (the operators of SpokenQuestion and CourtroomSpeech go from one to the *)
(* next), and about the court and the number of recordings as they are.    *)
(***************************************************************************)
Kinds == {"opening", "turn", "pending", "sustained", "overruled", "answer"}

\* u is on the record as a turn of the player.
Turned(u) == \E v \in 1 .. Version : court[v].kind = "turn" /\ court[v].of = u

Withdrawn(u) == u \in Questions => asked[u].withdrawn

CourtTyped ==
  /\ court \in Seq([kind : Kinds, of : Nat])
  /\ Version > 0
  /\ \A v \in 1 .. Version : court[v].kind = "opening" => court[v].of = NoUtterance
  /\ asked \in [Questions -> [head : Nat, withdrawn : BOOLEAN]]
  /\ spoken \in 0 .. MaxQuestions

\* There is one turn or one ruling for a recording, and a ruling only on a request
\* that was not withdrawn.
CourtInv ==
  \A u \in Questions :
    /\ \A v, w \in 1 .. Version :
         /\ court[v].of = u /\ court[v].kind # "answer"
         /\ court[w].of = u /\ court[w].kind # "answer"
         => v = w
    /\ RulingEntries(u) # {} => asked[u].head # 0 /\ ~asked[u].withdrawn

-----------------------------------------------------------------------------
HFields ==
  {"life", "link", "prep", "starting", "from", "mic", "rec", "co", "job", "clip", "speech",
   "after", "baseline", "delivered", "view", "queue", "busy", "sent", "kept", "recovery",
   "loading"}

RecFields ==
  {"u", "head", "finalHandled", "sealed", "commitStarted", "troubled", "stop", "complete",
   "failing", "reaction", "answer", "corrected", "localFailure"}

CoFields == {"u", "final", "retain", "reacted", "flight", "retried", "held"}

ClipKinds == {"objection", "correction", "ruling"}

Shaped(g) ==
  /\ HFields \subseteq DOMAIN g
  /\ RecFields \subseteq DOMAIN g.rec
  /\ CoFields \subseteq DOMAIN g.co
  /\ RecFields \subseteq DOMAIN g.co.held
  /\ {"unit", "wanted"} \subseteq DOMAIN g.clip
  /\ {"unit", "by", "audible"} \subseteq DOMAIN g.job
  /\ {"by", "u", "expected", "committed"} \subseteq DOMAIN g.kept
  /\ g.rec.head \in Nat /\ g.co.held.head \in Nat /\ g.kept.expected \in Nat
  /\ g.from \in Nat /\ g.view \in 0 .. Version
  /\ g.job = NoJob \/ g.job.by \in {"clip", "speech"}
  /\ g.job.by = "clip" => g.job.unit.is \in ClipKinds
  /\ g.clip.unit.is \in ClipKinds \/ (g.clip.unit = NoUnit /\ ~g.clip.wanted)

\* The recordings whose microphone has been on: of any other nothing is known.
Heard(g) == {u \in Questions : u < spoken \/ (u = spoken /\ g.starting = "no")}

Named(g) ==
  /\ {g.rec.u, g.co.u, g.co.held.u, g.kept.u} \subseteq Heard(g) \cup {NoUtterance}
  /\ \A u \in Questions \ Heard(g) : asked[u] = NotAsked /\ ~Turned(u)
  /\ g.starting # "no" => spoken \in Questions

\* The coordinator is about the recording the controller holds or, when that is over,
\* about the one it has kept.
Paired(g) ==
  /\ g.rec.u # NoUtterance =>
       g.co.u \in {NoUtterance, g.rec.u} /\ g.co.held.u = NoUtterance
  /\ g.co.u # NoUtterance => g.co.held.u \in {NoUtterance, g.co.u}
  /\ g.rec.failing => g.rec.u # NoUtterance
  /\ g.rec.complete # "no" => g.rec.u # NoUtterance /\ g.rec.finalHandled

\* Who acts on a withdrawal knows of one.
TakenBack(r) == r.answer.is = "withdrawn" => r.u # NoUtterance /\ Withdrawn(r.u)

Truthful(g) ==
  /\ TakenBack(g.rec) /\ TakenBack(g.co.held)
  /\ g.clip.unit.is = "correction" => Withdrawn(g.clip.unit.of)
  /\ g.job.by = "clip" /\ g.job.unit.is = "correction" => Withdrawn(g.job.unit.of)
  /\ g.co.flight = "reaction" => Of(g).answer.is = "ruling" \/ Withdrawn(g.co.u)

\* A recording that nobody has objected to, or that is being completed, was not asked about.
Plain(g, u) ==
  g.rec.u = u /\ (g.rec.reaction = "none" \/ g.rec.complete # "no") =>
    asked[u] = NotAsked /\ (g.co.u = u => g.co.flight = "none")

\* What has been submitted as a turn is not asked about any more.
Sent(g, u) == Turned(u) \/ g.kept.u = u

Closed(g, u) ==
  Sent(g, u) =>
    /\ asked[u].head = 0 \/ asked[u].withdrawn
    /\ g.co.u = u /\ g.co.flight # "none" => asked[u].withdrawn
    /\ g.rec.u = u => g.rec.finalHandled \/ g.rec.reaction # "none"

\* It is submitted once: the record has moved on from where it was said, or will have
\* when the page has the answer.
Spent(g, u) ==
  /\ g.kept.u = u /\ ~g.kept.committed => ~Turned(u)
  /\ \A r \in {g.rec, g.co.held} : r.u = u =>
       IF g.kept.u = u THEN r.head <= g.kept.expected ELSE Turned(u) => r.head < g.view

Good(g) ==
  /\ Shaped(g) /\ Named(g) /\ Paired(g) /\ Truthful(g)
  /\ g.kept.committed => g.kept.expected < Version
  /\ \A u \in Questions : Plain(g, u) /\ Closed(g, u) /\ Spent(g, u)

OnceInv == CourtTyped /\ CourtInv /\ Good(h)
-----------------------------------------------------------------------------
(* What a task does aside from the recording, its candidate and the command.  *)
Aside(g, f) ==
  /\ Shaped(f)
  /\ f.rec = g.rec /\ f.co = g.co /\ f.kept = g.kept /\ f.view = g.view
  /\ f.starting # "no" => g.starting # "no"
  /\ f.clip.unit \in {g.clip.unit, NoUnit}
  /\ f.job.by = "clip" => g.job.by = "clip" /\ f.job.unit = g.job.unit

LEMMA AsideIsGood ==
  ASSUME NEW g, NEW f, Good(g), Aside(g, f)
  PROVE  Good(f)
<1>1. Heard(g) \subseteq Heard(f)
  BY DEF Aside, Heard
<1>2. Shaped(f) /\ Named(f)
  BY <1>1 DEF Good, Aside, Named
<1>3. Paired(f)
  BY DEF Good, Aside, Paired
<1>4. Truthful(f)
  BY DEF Good, Aside, Truthful, Of, NoUnit
<1>5. f.kept.committed => f.kept.expected < Version
  BY DEF Good, Aside
<1>6. ASSUME NEW u \in Questions
      PROVE  Plain(f, u) /\ Closed(f, u) /\ Spent(f, u)
  BY DEF Good, Aside, Plain, Closed, Spent, Sent
<1> QED BY <1>2, <1>3, <1>4, <1>5, <1>6 DEF Good

LEMMA RecoverableIsGood ==
  ASSUME NEW g, Good(g)
  PROVE  Good(Recoverable(g)) /\ Aside(g, Recoverable(g))
<1>1. Aside(g, Recoverable(g))
  BY DEF Good, Aside, Shaped, HFields, Recoverable
<1> QED BY <1>1, AsideIsGood

LEMMA FencedIsGood ==
  ASSUME NEW g, Good(g)
  PROVE  Good(Fenced(g)) /\ Aside(g, Fenced(g)) /\ Fenced(g).job = NoJob
<1>1. Fenced(g).job = NoJob
  BY DEF Good, Shaped, HFields, Fenced
<1>2. Aside(g, Fenced(g))
  BY DEF Good, Aside, Shaped, HFields, Fenced, NoJob, NoUnit, NoClip
<1> QED BY <1>1, <1>2, AsideIsGood

LEMMA StopsMicIsGood ==
  ASSUME NEW g, Good(g)
  PROVE  Good(StopsMic(g)) /\ Aside(g, StopsMic(g))
<1>1. Aside(g, StopsMic(g))
  BY DEF Good, Aside, Shaped, HFields, StopsMic
<1> QED BY <1>1, AsideIsGood

-----------------------------------------------------------------------------
(* The coordinator gives up, and a recording fails.                           *)

\* The clip may be told that it is not wanted; what the coordinator is about stays.
Quits(g, f) ==
  /\ Shaped(f)
  /\ f.rec = g.rec /\ f.kept = g.kept /\ f.view = g.view /\ f.starting = g.starting
  /\ f.co.u = g.co.u /\ f.co.held = g.co.held /\ f.co.flight \in {g.co.flight, "none"}
  /\ f.clip.unit = g.clip.unit /\ f.job \in {g.job, NoJob}

LEMMA QuitsIsGood ==
  ASSUME NEW g, NEW f, Good(g), Quits(g, f)
  PROVE  Good(f)
<1>1. Heard(f) = Heard(g)
  BY DEF Quits, Heard
<1>2. Shaped(f) /\ Named(f)
  BY <1>1 DEF Good, Quits, Named
<1>3. Paired(f)
  BY DEF Good, Quits, Paired
<1>4. Truthful(f)
  BY DEF Good, Quits, Truthful, Of, NoJob
<1>5. f.kept.committed => f.kept.expected < Version
  BY DEF Good, Quits
<1>6. ASSUME NEW u \in Questions
      PROVE  Plain(f, u) /\ Closed(f, u) /\ Spent(f, u)
  BY DEF Good, Quits, Plain, Closed, Spent, Sent
<1> QED BY <1>2, <1>3, <1>4, <1>5, <1>6 DEF Good

LEMMA LandsIsGood ==
  ASSUME NEW g, Good(g)
  PROVE  Good(Lands(g)) /\ Quits(g, Lands(g)) /\ Lands(g).co.flight = "none"
<1>1. Quits(g, Lands(g)) /\ Lands(g).co.flight = "none"
  BY DEF Good, Quits, Shaped, HFields, CoFields, Lands
<1> QED BY <1>1, QuitsIsGood

LEMMA AbortedIsGood ==
  ASSUME NEW g, Good(g)
  PROVE  Good(Aborted(g)) /\ Quits(g, Aborted(g)) /\ Aborted(g).co.flight = "none"
<1>1. Quits(g, Aborted(g)) /\ Aborted(g).co.flight = "none"
  BY DEF Good, Quits, Shaped, HFields, CoFields, Aborted, NoJob
<1> QED BY <1>1, QuitsIsGood

LEMMA FinalizedIsGood ==
  ASSUME NEW g, Good(g)
  PROVE  Good(Finalized(g)) /\ Quits(g, Finalized(g))
<1>1. CASE g.co.final
  BY <1>1 DEF Good, Quits, Finalized
<1>2. CASE ~g.co.final
  <2> DEFINE f == [g EXCEPT !.co.final = TRUE, !.co.retain = FALSE]
  <2>1. Quits(g, f)
    BY DEF Good, Quits, Shaped, HFields, CoFields
  <2>2. Good(f)
    BY <2>1, QuitsIsGood
  <2>3. Finalized(g) = Aborted(f)
    BY <1>2 DEF Finalized
  <2> HIDE DEF f
  <2> QED BY <2>1, <2>2, <2>3, AbortedIsGood DEF Quits
<1> QED BY <1>1, <1>2

\* The recording that ends is kept by the coordinator, if it is about it.
LEMMA FailureEndsIsGood ==
  ASSUME NEW g, Good(g), g.rec.u # NoUtterance
  PROVE  /\ Good(FailureEnds(g))
         /\ FailureEnds(g).co.u = g.co.u /\ FailureEnds(g).view = g.view
<1> DEFINE r == Recoverable(g)
           b == [r EXCEPT !.rec = NoRecording, !.co.held = g.rec]
           f == FailureEnds(g)
<1>1. Good(r) /\ Aside(g, r)
  BY RecoverableIsGood
<1>2. Shaped(b) /\ b.rec = NoRecording /\ b.co = [g.co EXCEPT !.held = g.rec]
      /\ b.kept = g.kept /\ b.view = g.view /\ b.clip.unit \in {g.clip.unit, NoUnit}
      /\ (b.job.by = "clip" => g.job.by = "clip" /\ b.job.unit = g.job.unit)
      /\ (b.starting # "no" => g.starting # "no")
  <2> HIDE DEF r
  <2> QED BY <1>1
       DEF Good, Aside, Shaped, HFields, RecFields, CoFields, NoRecording, NoUtterance
<1>3. Aside(b, f)
  <2> HIDE DEF r
  <2>1. f = b \/ f = [b EXCEPT !.after = Clip("recover", g.rec.answer.view)]
    BY DEF FailureEnds, r
  <2> HIDE DEF f, b
  <2>2. /\ DOMAIN f = DOMAIN b /\ f.rec = b.rec /\ f.co = b.co /\ f.kept = b.kept
        /\ f.view = b.view /\ f.starting = b.starting /\ f.clip = b.clip /\ f.job = b.job
        /\ f.from = b.from
    BY <1>2, <2>1 DEF Shaped, HFields
  <2> QED BY <1>2, <2>2 DEF Aside, Shaped
<1>4. b.co.u = g.co.u /\ b.co.flight = g.co.flight /\ b.co.held = g.rec
  BY <1>2 DEF Good, Shaped, CoFields
<1> HIDE DEF b, f, r
<1>5. Good(b)
  <2>1. Heard(g) \subseteq Heard(b)
    BY <1>2 DEF Heard
  <2>2. Named(b)
    BY <1>2, <1>4, <2>1 DEF Good, Named, NoRecording
  <2>3. Paired(b)
    BY <1>2, <1>4 DEF Good, Paired, NoRecording
  <2>4. Truthful(b)
    <3>1. b.co.flight = "reaction" => Of(b).answer.is = "ruling" \/ Withdrawn(b.co.u)
      <4>1. CASE g.co.u = NoUtterance
        BY <4>1, <1>4 DEF Withdrawn, Questions, NoUtterance
      <4>2. CASE g.co.u # NoUtterance
        BY <4>2, <1>2, <1>4 DEF Good, Truthful, Paired, Of, NoRecording
      <4> QED BY <4>1, <4>2
    <3> QED BY <1>2, <1>4, <3>1 DEF Good, Truthful, TakenBack, NoRecording, NoAnswer, NoUnit
  <2>5. b.kept.committed => b.kept.expected < Version
    BY <1>2 DEF Good
  <2>6. ASSUME NEW u \in Questions
        PROVE  Plain(b, u) /\ Closed(b, u) /\ Spent(b, u)
    <3>1. u # NoUtterance
      BY DEF Questions, NoUtterance
    <3> QED BY <1>2, <1>4, <3>1 DEF Good, Plain, Closed, Spent, Sent, NoRecording
  <2> QED BY <1>2, <2>2, <2>3, <2>4, <2>5, <2>6 DEF Good
<1>6. Good(f)
  BY <1>3, <1>5, AsideIsGood
<1> QED BY <1>2, <1>3, <1>4, <1>6 DEF Aside, f

\* Notes made on a recording that only its end will look at.
Alike(r, s) ==
  /\ r.u = s.u /\ r.head = s.head /\ r.finalHandled = s.finalHandled /\ r.failing = s.failing
  /\ r.reaction = s.reaction /\ r.complete = s.complete /\ r.answer = s.answer

Marks(g, f) ==
  /\ Shaped(f) /\ Alike(f.rec, g.rec) /\ Alike(f.co.held, g.co.held)
  /\ f.co.u = g.co.u /\ f.co.flight = g.co.flight
  /\ f.kept = g.kept /\ f.view = g.view /\ f.starting = g.starting
  /\ f.clip.unit = g.clip.unit /\ f.job = g.job

LEMMA MarksIsGood ==
  ASSUME NEW g, NEW f, Good(g), Marks(g, f)
  PROVE  Good(f)
<1>1. Heard(f) = Heard(g)
  BY DEF Marks, Heard
<1>2. Shaped(f) /\ Named(f)
  BY <1>1 DEF Good, Marks, Alike, Named
<1>3. Paired(f)
  BY DEF Good, Marks, Alike, Paired
<1>4. Truthful(f)
  BY DEF Good, Marks, Alike, Truthful, TakenBack, Of
<1>5. f.kept.committed => f.kept.expected < Version
  BY DEF Good, Marks
<1>6. ASSUME NEW u \in Questions
      PROVE  Plain(f, u) /\ Closed(f, u) /\ Spent(f, u)
  BY DEF Good, Marks, Alike, Plain, Closed, Spent, Sent
<1> QED BY <1>2, <1>3, <1>4, <1>5, <1>6 DEF Good

LEMMA FailsIsGood ==
  ASSUME NEW g, Good(g)
  PROVE  Good(Fails(g))
<1>1. CASE ~Recording(g)
  BY <1>1 DEF Fails
<1>2. CASE Recording(g)
  <2> DEFINE a == IF g.rec.reaction # "none" /\ ~g.rec.sealed THEN Finalized(g) ELSE g
             b == IF a.job # NoJob THEN Fenced(a) ELSE a
             d == [b EXCEPT !.rec.finalHandled = TRUE, !.rec.failing = TRUE]
             c == StopsMic(d)
  <2>1. Good(a) /\ a.rec = g.rec
    BY FinalizedIsGood DEF Quits
  <2>2. Good(b) /\ b.rec = g.rec
    <3> HIDE DEF a
    <3> QED BY <2>1, FencedIsGood DEF Aside
  <2>3. Good(d) /\ d.rec.u = g.rec.u
    <3> HIDE DEF b
    <3>1. /\ Shaped(d) /\ d.rec = [b.rec EXCEPT !.finalHandled = TRUE, !.failing = TRUE]
          /\ d.co = b.co /\ d.kept = b.kept /\ d.view = b.view /\ d.starting = b.starting
          /\ d.clip = b.clip /\ d.job = b.job
      BY <2>2 DEF Good, Shaped, HFields, RecFields
    <3> HIDE DEF d
    <3>2. /\ d.rec.u = b.rec.u /\ d.rec.head = b.rec.head /\ d.rec.answer = b.rec.answer
          /\ d.rec.reaction = b.rec.reaction /\ d.rec.complete = b.rec.complete
          /\ d.rec.finalHandled = TRUE
      BY <2>2, <3>1 DEF Good, Shaped, RecFields
    <3>3. Heard(d) = Heard(b)
      BY <3>1 DEF Heard
    <3>4. Named(d) /\ Paired(d)
      BY <1>2, <2>2, <3>1, <3>2, <3>3 DEF Good, Named, Paired, Recording
    <3>5. Truthful(d)
      BY <2>2, <3>1, <3>2 DEF Good, Truthful, TakenBack, Of
    <3>6. ASSUME NEW u \in Questions
          PROVE  Plain(d, u) /\ Closed(d, u) /\ Spent(d, u)
      BY <2>2, <3>1, <3>2 DEF Good, Plain, Closed, Spent, Sent
    <3> QED BY <2>2, <3>1, <3>2, <3>4, <3>5, <3>6 DEF Good
  <2>4. Good(c) /\ c.rec.u = g.rec.u
    <3> HIDE DEF d
    <3> QED BY <2>3, StopsMicIsGood DEF Aside
  <2>5. Fails(g) = IF c.mic = "off" THEN FailureEnds(c) ELSE c
    <3>1. c = StopsMic([b EXCEPT !.rec.finalHandled = TRUE, !.rec.failing = TRUE])
      OBVIOUS
    <3> QED BY <1>2 DEF Fails
  <2> HIDE DEF c
  <2> QED BY <1>2, <2>4, <2>5, FailureEndsIsGood DEF Recording
<1> QED BY <1>1, <1>2

-----------------------------------------------------------------------------
(* The withdrawal of an objection, and the ruling on it.                      *)

\* A word from the clerk's side of an interruption: a flight goes on as this or that clip.
LEMMA DispatchesIsGood ==
  ASSUME NEW g, Good(g), NEW kind \in ClipKinds,
         kind = "correction" => Withdrawn(g.co.u),
         kind = "ruling" => g.co.flight # "none"
  PROVE  Good(Dispatches(g, kind))
<1> DEFINE f == Dispatches(g, kind)
<1>1. /\ Shaped(f) /\ f.rec = g.rec /\ f.kept = g.kept /\ f.view = g.view
      /\ f.starting = g.starting /\ f.job = g.job
      /\ f.clip.unit = [is |-> kind, of |-> g.co.u]
      /\ f.co.u = g.co.u /\ f.co.held = g.co.held
      /\ f.co.flight = IF kind = "objection" THEN g.co.flight ELSE kind
  <2>1. /\ HFields \subseteq DOMAIN f /\ f.rec = g.rec /\ f.kept = g.kept
        /\ f.view = g.view /\ f.starting = g.starting /\ f.job = g.job /\ f.from = g.from
        /\ f.clip = [unit |-> [is |-> kind, of |-> g.co.u], wanted |-> TRUE]
        /\ f.co = [g.co EXCEPT !.flight = IF kind = "objection" THEN @ ELSE kind]
    BY DEF Good, Shaped, HFields, Dispatches, Clip
  <2> HIDE DEF f
  <2> QED BY <2>1 DEF Good, Shaped, CoFields
<1> HIDE DEF f
<1>2. Heard(f) = Heard(g)
  BY <1>1 DEF Heard
<1>3. Named(f) /\ Paired(f)
  BY <1>1, <1>2 DEF Good, Named, Paired
<1>4. Truthful(f)
  BY <1>1 DEF Good, Truthful, Of, ClipKinds
<1>5. f.kept.committed => f.kept.expected < Version
  BY <1>1 DEF Good
<1>6. ASSUME NEW u \in Questions
      PROVE  Plain(f, u) /\ Closed(f, u) /\ Spent(f, u)
  <2>1. Closed(f, u) /\ Spent(f, u)
    BY <1>1 DEF Good, Closed, Spent, Sent, Withdrawn, ClipKinds
  <2>2. Named(g) /\ (asked[u].withdrawn => asked[u] # NotAsked)
    BY DEF Good, NotAsked
  <2>3. Plain(f, u)
    BY <1>1, <2>2 DEF Good, Plain, Withdrawn, ClipKinds
  <2> QED BY <2>1, <2>3
<1> QED BY <1>1, <1>3, <1>4, <1>5, <1>6 DEF Good, f

\* The command is made for the head the recording was made at.
LEMMA CommitsWithdrawnIsGood ==
  ASSUME NEW g, Good(g), CourtTyped, CourtInv, Withdrawn(g.co.u)
  PROVE  Good(CommitsWithdrawn(g))
<1> DEFINE r == Of(g)
<1>1. r.u \in {NoUtterance, g.co.u} /\ r \in {g.rec, g.co.held}
  BY DEF Good, Paired, Of, NoUtterance
<1>2. CASE MayCommit(g, r)
  <2> DEFINE f == [Submits(g, r.u) EXCEPT !.co.flight = "committing"]
  <2>1. /\ Shaped(f) /\ f.rec = g.rec /\ f.view = g.view
        /\ f.starting = g.starting /\ f.job = g.job /\ f.clip = g.clip
        /\ f.kept = [by |-> "voice", u |-> r.u, expected |-> g.view, committed |-> FALSE]
        /\ f.co.u = g.co.u /\ f.co.held = g.co.held /\ f.co.flight = "committing"
    <3> HIDE DEF r
    <3> QED BY DEF Good, Shaped, HFields, CoFields, Submits
  <2>2. g.kept = NoCommand /\ g.view = r.head
    BY <1>2 DEF MayCommit, Pending
  <2> HIDE DEF f
  <2>3. Heard(f) = Heard(g)
    BY <2>1 DEF Heard
  <2>4. Named(f) /\ Paired(f)
    <3> HIDE DEF r
    <3> QED BY <1>1, <2>1, <2>3 DEF Good, Named, Paired
  <2>5. Truthful(f)
    BY <2>1 DEF Good, Truthful, Of
  <2>6. ASSUME NEW u \in Questions
        PROVE  Plain(f, u) /\ Closed(f, u) /\ Spent(f, u)
    <3> HIDE DEF r
    <3>0. /\ u # NoUtterance /\ g.kept.u = NoUtterance
          /\ f.kept.u = r.u /\ f.kept.expected = g.view /\ ~f.kept.committed
      BY <2>1, <2>2 DEF Questions, NoUtterance, NoCommand
    <3>1. Plain(g, u) /\ Closed(g, u) /\ Spent(g, u) /\ (r.u = u => asked[u].withdrawn)
      BY <1>1, <3>0 DEF Good, Withdrawn
    <3>2. asked[u].withdrawn => asked[u] # NotAsked
      BY DEF NotAsked
    <3>3. Plain(f, u)
      BY <2>1, <3>1, <3>2 DEF Plain, Good, Withdrawn
    <3>4. Closed(f, u)
      BY <1>1, <2>1, <3>0, <3>1, <3>2 DEF Closed, Sent, Plain, Withdrawn, Good
    <3>5. Spent(f, u)
      <4>1. CASE r.u = u
        <5>1. ~Turned(u)
          BY <1>1, <2>2, <3>0, <3>1, <4>1 DEF Spent, Good, Shaped
        <5>2. \A q \in {g.rec, g.co.held} : q.u = u => q.head <= g.view
          <6>1. g.rec.u # u \/ g.co.held.u # u
            BY <3>0 DEF Good, Paired
          <6>2. r.head = g.view
            BY <2>2
          <6> QED BY <1>1, <4>1, <6>1, <6>2 DEF Good, Shaped
        <5> QED BY <2>1, <3>0, <4>1, <5>1, <5>2 DEF Spent
      <4>2. CASE r.u # u
        BY <2>1, <3>0, <3>1, <4>2 DEF Spent
      <4> QED BY <4>1, <4>2
    <3> QED BY <3>3, <3>4, <3>5
  <2>7. Good(f)
    BY <2>1, <2>4, <2>5, <2>6 DEF Good
  <2> QED BY <1>2, <2>7 DEF CommitsWithdrawn, f
<1>3. CASE ~MayCommit(g, r)
  <2> DEFINE f == [g EXCEPT !.co.retried = TRUE, !.rec.localFailure = FALSE]
  <2>1. Good(Lands(g)) /\ Good(Fails(Lands(g)))
    BY LandsIsGood, FailsIsGood
  <2>2. Good(Dispatches(f, "correction"))
    <3>1. /\ Shaped(f) /\ f.kept = g.kept /\ f.view = g.view /\ f.starting = g.starting
          /\ f.clip = g.clip /\ f.job = g.job
          /\ f.rec = [g.rec EXCEPT !.localFailure = FALSE]
          /\ f.co = [g.co EXCEPT !.retried = TRUE]
      BY DEF Good, Shaped, HFields, RecFields, CoFields
    <3> HIDE DEF f
    <3>2. Marks(g, f)
      BY <3>1 DEF Good, Shaped, RecFields, CoFields, Marks, Alike
    <3> QED BY <3>2, MarksIsGood, DispatchesIsGood DEF ClipKinds, Marks
  <2> QED BY <1>3, <2>1, <2>2 DEF CommitsWithdrawn
<1> QED BY <1>2, <1>3

LEMMA DespiteIsGood ==
  ASSUME NEW g, Good(g), CourtTyped, CourtInv, Withdrawn(g.co.u)
  PROVE  Good(Despite(g))
<1> DEFINE f == IF Orphaned(g) THEN [g EXCEPT !.co.held.localFailure = TRUE]
                               ELSE [g EXCEPT !.rec.localFailure = TRUE]
<1>1. Marks(g, f)
  <2>1. CASE Orphaned(g)
    <3>1. f = [g EXCEPT !.co.held.localFailure = TRUE]
      BY <2>1
    <3> HIDE DEF f
    <3>2. /\ Shaped(f) /\ f.rec = g.rec /\ f.kept = g.kept /\ f.view = g.view
          /\ f.starting = g.starting /\ f.clip = g.clip /\ f.job = g.job
          /\ f.co.u = g.co.u /\ f.co.flight = g.co.flight
          /\ f.co.held = [g.co.held EXCEPT !.localFailure = TRUE]
      BY <3>1 DEF Good, Shaped, HFields, RecFields, CoFields
    <3> QED BY <3>2 DEF Good, Shaped, RecFields, Marks, Alike
  <2>2. CASE ~Orphaned(g)
    <3>1. f = [g EXCEPT !.rec.localFailure = TRUE]
      BY <2>2
    <3> HIDE DEF f
    <3>2. /\ Shaped(f) /\ f.co = g.co /\ f.kept = g.kept /\ f.view = g.view
          /\ f.starting = g.starting /\ f.clip = g.clip /\ f.job = g.job
          /\ f.rec = [g.rec EXCEPT !.localFailure = TRUE]
      BY <3>1 DEF Good, Shaped, HFields, RecFields, CoFields
    <3> QED BY <3>2 DEF Good, Shaped, RecFields, Marks, Alike
  <2> QED BY <2>1, <2>2
<1>2. Despite(g) = CommitsWithdrawn(f)
  BY DEF Despite
<1> HIDE DEF f
<1> QED BY <1>1, <1>2, MarksIsGood, CommitsWithdrawnIsGood DEF Marks

\* The controller lets go of a recording that no flight is about.
LEMMA DropsIsGood ==
  ASSUME NEW g, Good(g), g.co.u = g.rec.u => g.co.flight = "none",
         NEW f, Aside([g EXCEPT !.rec = NoRecording], f)
  PROVE  Good(f)
<1> DEFINE b == [g EXCEPT !.rec = NoRecording]
<1>1. /\ Shaped(b) /\ b.rec = NoRecording /\ b.co = g.co /\ b.kept = g.kept
      /\ b.view = g.view /\ b.starting = g.starting /\ b.clip = g.clip /\ b.job = g.job
  BY DEF Good, Shaped, HFields, RecFields, NoRecording, NoUtterance
<1> SUFFICES Good(b)
  BY AsideIsGood
<1> HIDE DEF b
<1>2. Heard(b) = Heard(g)
  BY <1>1 DEF Heard
<1>3. Named(b) /\ Paired(b)
  BY <1>1, <1>2 DEF Good, Named, Paired, NoRecording
<1>4. Truthful(b)
  <2>1. b.co.flight = "reaction" => Of(b).answer.is = "ruling" \/ Withdrawn(b.co.u)
    <3>1. CASE g.co.u = NoUtterance
      BY <3>1, <1>1 DEF Withdrawn, Questions, NoUtterance
    <3>2. CASE g.co.u # NoUtterance
      BY <3>2, <1>1 DEF Good, Truthful, Of, NoRecording
    <3> QED BY <3>1, <3>2
  <2> QED BY <1>1, <2>1 DEF Good, Truthful, TakenBack, NoRecording, NoAnswer
<1>5. ASSUME NEW u \in Questions
      PROVE  Plain(b, u) /\ Closed(b, u) /\ Spent(b, u)
  <2>1. u # NoUtterance
    BY DEF Questions, NoUtterance
  <2> QED BY <1>1, <2>1 DEF Good, Plain, Closed, Spent, Sent, NoRecording
<1> QED BY <1>1, <1>3, <1>4, <1>5 DEF Good

LEMMA CompletedIsGood ==
  ASSUME NEW g, Good(g)
  PROVE  Good(Completed(g))
<1> DEFINE l == Lands(g)
           b == [l EXCEPT !.rec = NoRecording]
           f == Completed(g)
<1>1. Good(l) /\ l.co.flight = "none"
  BY LandsIsGood
<1>2. f = Recoverable(b) \/ f = [b EXCEPT !.life = "ready"]
  BY DEF Completed
<1> HIDE DEF l, f
<1>3. Shaped(b)
  BY <1>1 DEF Good, Shaped, HFields, RecFields, NoRecording, NoUtterance
<1>4. Aside(b, f)
  <2> HIDE DEF b
  <2> QED BY <1>2, <1>3 DEF Recoverable, Aside, Shaped, HFields
<1>5. Good(f)
  BY <1>1, <1>4, DropsIsGood
<1> QED BY <1>5 DEF f

\* The same candidate, in a flight that goes on.
LEMMA FlightGoesOn ==
  ASSUME NEW g, NEW f, Good(g), Shaped(f), Alike(f.rec, g.rec), Alike(f.co.held, g.co.held),
         f.co.u = g.co.u, g.co.flight # "none" \/ Withdrawn(g.co.u),
         f.co.flight = "reaction" => Of(g).answer.is = "ruling" \/ Withdrawn(g.co.u),
         f.kept = g.kept, f.view = g.view, f.starting = g.starting,
         f.clip.unit = g.clip.unit, f.job = g.job
  PROVE  Good(f)
<1>1. Heard(f) = Heard(g)
  BY DEF Heard
<1>2. Named(f) /\ Paired(f)
  BY <1>1 DEF Good, Alike, Named, Paired
<1>3. Truthful(f)
  BY DEF Good, Alike, Truthful, TakenBack, Of
<1>4. f.kept.committed => f.kept.expected < Version
  BY DEF Good
<1>5. ASSUME NEW u \in Questions
      PROVE  Plain(f, u) /\ Closed(f, u) /\ Spent(f, u)
  <2>1. Plain(g, u) /\ Closed(g, u) /\ Spent(g, u)
    BY DEF Good
  <2>2. asked[u].withdrawn => asked[u] # NotAsked
    BY DEF NotAsked
  <2>3. Plain(f, u)
    BY <2>1, <2>2 DEF Plain, Alike, Withdrawn
  <2> QED BY <2>1, <2>3 DEF Closed, Spent, Sent, Alike, Withdrawn
<1> QED BY <1>2, <1>3, <1>4, <1>5 DEF Good

LEMMA DeliversWithdrawalIsGood ==
  ASSUME NEW g, Good(g), CourtTyped, CourtInv, Withdrawn(g.co.u)
  PROVE  Good(DeliversWithdrawal(g))
<1> DEFINE f == [g EXCEPT !.rec.localFailure = FALSE, !.co.flight = "reaction"]
<1>1. /\ Shaped(f) /\ f.rec = [g.rec EXCEPT !.localFailure = FALSE]
      /\ f.co = [g.co EXCEPT !.flight = "reaction"] /\ f.kept = g.kept
      /\ f.view = g.view /\ f.starting = g.starting /\ f.clip = g.clip /\ f.job = g.job
  BY DEF Good, Shaped, HFields, RecFields, CoFields
<1>2. DeliversWithdrawal(g) \in
        {f, Despite(f), CommitsWithdrawn(f), Dispatches(f, "correction")}
  BY DEF DeliversWithdrawal
<1> HIDE DEF f
<1>3. Good(f) /\ f.co.u = g.co.u
  <2>1. /\ Alike(f.rec, g.rec) /\ f.co.u = g.co.u /\ f.co.held = g.co.held
    BY <1>1 DEF Good, Shaped, RecFields, CoFields, Alike
  <2> QED BY <1>1, <2>1, FlightGoesOn DEF Alike
<1> QED BY <1>2, <1>3, DespiteIsGood, CommitsWithdrawnIsGood, DispatchesIsGood DEF ClipKinds

LEMMA RulesIsGood ==
  ASSUME NEW g, Good(g), g.co.flight # "none"
  PROVE  Good(Rules(g))
BY CompletedIsGood, DispatchesIsGood DEF Rules, ClipKinds

LEMMA DeliversRulingIsGood ==
  ASSUME NEW g, Good(g), g.co.flight # "none", g.rec.u = g.co.u, g.rec.answer.is = "ruling"
  PROVE  Good(DeliversRuling(g))
<1> DEFINE f == [g EXCEPT !.baseline = g.rec.answer.view, !.co.flight = "reaction"]
<1>1. /\ Shaped(f) /\ f.rec = g.rec
      /\ f.co = [g.co EXCEPT !.flight = "reaction"] /\ f.kept = g.kept
      /\ f.view = g.view /\ f.starting = g.starting /\ f.clip = g.clip /\ f.job = g.job
  BY DEF Good, Shaped, HFields, CoFields
<1>2. DeliversRuling(g) \in {f, Fails(Lands(f)), Rules(f)}
  BY DEF DeliversRuling
<1> HIDE DEF f
<1>3. f.co.u = g.co.u /\ f.co.held = g.co.held /\ f.co.flight = "reaction"
  BY <1>1 DEF Good, Shaped, CoFields
<1>4. Good(f)
  BY <1>1, <1>3, FlightGoesOn DEF Alike, Of
<1> QED BY <1>2, <1>3, <1>4, LandsIsGood, FailsIsGood, RulesIsGood

LEMMA DeliversIsGood ==
  ASSUME NEW g, Good(g), CourtTyped, CourtInv, g.co.flight # "none", g.rec.u = g.co.u
  PROVE  Good(Delivers(g))
<1>1. CASE g.rec.answer.is = "withdrawn" /\ g.view = g.rec.head
  <2>1. Withdrawn(g.co.u)
    BY <1>1 DEF Good, Truthful, TakenBack
  <2> QED BY <1>1, <2>1, DeliversWithdrawalIsGood DEF Delivers
<1>2. CASE g.rec.answer.is = "ruling" /\ g.view = g.rec.answer.view
  BY <1>2, DeliversRulingIsGood DEF Delivers
<1>3. CASE ~(g.rec.answer.is = "withdrawn" /\ g.view = g.rec.head)
           /\ ~(g.rec.answer.is = "ruling" /\ g.view = g.rec.answer.view)
  BY <1>3, LandsIsGood, FailsIsGood DEF Delivers
<1> QED BY <1>1, <1>2, <1>3

LEMMA AsksIsGood ==
  ASSUME NEW g, Good(g), CourtTyped, CourtInv, g.co.flight # "none", g.rec.u = g.co.u
  PROVE  Good(Asks(g))
<1> DEFINE f == [g EXCEPT !.rec.commitStarted = TRUE, !.co.flight = "asking"]
<1>1. /\ Shaped(f) /\ f.rec = [g.rec EXCEPT !.commitStarted = TRUE]
      /\ f.co = [g.co EXCEPT !.flight = "asking"] /\ f.kept = g.kept
      /\ f.view = g.view /\ f.starting = g.starting /\ f.clip = g.clip /\ f.job = g.job
  BY DEF Good, Shaped, HFields, RecFields, CoFields
<1>2. Asks(g) \in {Delivers(g), Fails(Lands(g)), f}
  BY DEF Asks
<1> HIDE DEF f
<1>3. Good(f)
  <2>1. /\ Alike(f.rec, g.rec) /\ f.co.u = g.co.u /\ f.co.held = g.co.held
        /\ f.co.flight = "asking"
    BY <1>1 DEF Good, Shaped, RecFields, CoFields, Alike
  <2> QED BY <1>1, <2>1, FlightGoesOn DEF Alike
<1> QED BY <1>2, <1>3, DeliversIsGood, LandsIsGood, FailsIsGood

LEMMA PursuesIsGood ==
  ASSUME NEW g, Good(g), CourtTyped, CourtInv
  PROVE  Good(Pursues(g))
BY AsksIsGood, LandsIsGood DEF Pursues, Orphaned

LEMMA FlightFailsIsGood ==
  ASSUME NEW g, Good(g), CourtTyped, CourtInv, g.co.flight # "none"
  PROVE  Good(FlightFails(g))
<1> DEFINE f == [g EXCEPT !.co.retried = TRUE]
<1>1. Marks(g, f) /\ f.rec.u = g.rec.u
  <2>1. /\ Shaped(f) /\ f.rec = g.rec
        /\ f.co = [g.co EXCEPT !.retried = TRUE] /\ f.kept = g.kept
        /\ f.view = g.view /\ f.starting = g.starting /\ f.clip = g.clip /\ f.job = g.job
    BY DEF Good, Shaped, HFields, CoFields
  <2> HIDE DEF f
  <2> QED BY <2>1 DEF Good, Shaped, CoFields, Marks, Alike
<1>2. FlightFails(g) = IF Orphaned(g) THEN Lands(g)
                       ELSE IF g.co.retried THEN Fails(Lands(g)) ELSE Asks(f)
  BY DEF FlightFails
<1> HIDE DEF f
<1>3. Good(f)
  BY <1>1, MarksIsGood
<1> QED BY <1>1, <1>2, <1>3, LandsIsGood, FailsIsGood, AsksIsGood DEF Marks, Orphaned

-----------------------------------------------------------------------------
(* Clips: what awaited one goes on, or learns that it was not played.         *)

\* The reaction to the recording has come to something.
Reacts(g, f) ==
  /\ Shaped(f)
  /\ f.rec.u = g.rec.u /\ f.rec.head = g.rec.head /\ f.rec.finalHandled = g.rec.finalHandled
  /\ f.rec.failing = g.rec.failing /\ f.rec.complete = g.rec.complete
  /\ f.rec.answer = g.rec.answer /\ f.rec.reaction # "none"
  /\ f.co.u = g.co.u /\ f.co.flight = g.co.flight /\ f.co.held = g.co.held
  /\ f.kept = g.kept /\ f.view = g.view /\ f.starting = g.starting
  /\ f.clip.unit \in {g.clip.unit, NoUnit} /\ f.job \in {g.job, NoJob}

LEMMA ReactsIsGood ==
  ASSUME NEW g, NEW f, Good(g), Reacts(g, f)
  PROVE  Good(f)
<1>1. Heard(f) = Heard(g)
  BY DEF Reacts, Heard
<1>2. Shaped(f) /\ Named(f)
  BY <1>1 DEF Good, Reacts, Named
<1>3. Paired(f)
  BY DEF Good, Reacts, Paired
<1>4. Truthful(f)
  BY DEF Good, Reacts, Truthful, TakenBack, Of, NoJob, NoUnit
<1>5. f.kept.committed => f.kept.expected < Version
  BY DEF Good, Reacts
<1>6. ASSUME NEW u \in Questions
      PROVE  Plain(f, u) /\ Closed(f, u) /\ Spent(f, u)
  BY DEF Good, Reacts, Plain, Closed, Spent, Sent
<1> QED BY <1>2, <1>3, <1>4, <1>5, <1>6 DEF Good

LEMMA ReactionIsGood ==
  ASSUME NEW g, Good(g), NEW x \in {"playing", "ok", "failed"}
  PROVE  /\ Good([g EXCEPT !.rec.reaction = x])
         /\ [g EXCEPT !.rec.reaction = x].co = g.co
<1> DEFINE f == [g EXCEPT !.rec.reaction = x]
<1>1. /\ Shaped(f) /\ f.rec = [g.rec EXCEPT !.reaction = x]
      /\ f.co = g.co /\ f.kept = g.kept
      /\ f.view = g.view /\ f.starting = g.starting /\ f.clip = g.clip /\ f.job = g.job
  BY DEF Good, Shaped, HFields, RecFields
<1> HIDE DEF f
<1>2. Reacts(g, f)
  BY <1>1 DEF Good, Shaped, RecFields, Reacts
<1> QED BY <1>1, <1>2, ReactsIsGood DEF f

\* Whose answer is a withdrawal is about something that was withdrawn.
LEMMA AnswerIsTrue ==
  ASSUME NEW g, Good(g), Of(g).answer.is = "withdrawn"
  PROVE  Withdrawn(g.co.u)
BY DEF Good, Truthful, TakenBack, Paired, Of

LEMMA ClipFailsIsGood ==
  ASSUME NEW g, Good(g), CourtTyped, CourtInv, NEW unit
  PROVE  Good(ClipFails(g, unit))
<1> DEFINE f == IF unit.is = "objection" /\ g.rec.u = unit.of
                THEN [g EXCEPT !.rec.reaction = "failed"] ELSE g
<1>1. Good(f)
  BY ReactionIsGood
<1>2. ClipFails(g, unit) =
        IF f.co.u # unit.of \/ f.co.flight \notin {"reaction", "ruling", "correction"} THEN f
        ELSE IF Of(f).answer.is = "withdrawn" THEN Despite(f)
        ELSE FlightFails(f)
  BY DEF ClipFails
<1> HIDE DEF f
<1> QED BY <1>1, <1>2, AnswerIsTrue, DespiteIsGood, FlightFailsIsGood

LEMMA CutsOffIsGood ==
  ASSUME NEW g, Good(g), CourtTyped, CourtInv
  PROVE  Good(CutsOff(g))
BY FencedIsGood, ClipFailsIsGood DEF CutsOff

LEMMA FailsRecordingIsGood ==
  ASSUME NEW g, Good(g), CourtTyped, CourtInv
  PROVE  Good(FailsRecording(g))
BY FailsIsGood, ClipFailsIsGood DEF FailsRecording

LEMMA ClipEndsIsGood ==
  ASSUME NEW g, Good(g), CourtTyped, CourtInv, g.job.by = "clip"
  PROVE  Good(ClipEnds(g))
<1> DEFINE unit == g.job.unit
           b == [g EXCEPT !.job = NoJob]
           stale == unit.of # b.co.u \/ unit.is # b.co.flight
<1>1. Aside(g, b) /\ b.co = g.co /\ b.rec = g.rec
  BY DEF Good, Aside, Shaped, HFields, NoJob, NoUnit
<1>2. Good(b)
  BY <1>1, AsideIsGood
<1>3. unit.is \in ClipKinds
  BY DEF Good, Shaped
<1>4. CASE unit.is = "objection"
  <2> DEFINE p == [b EXCEPT !.rec.reaction = IF g.rec.u = unit.of THEN "ok" ELSE @]
  <2>1. Good(p) /\ p.co = g.co /\ Of(p).answer = Of(b).answer
    <3>1. CASE g.rec.u = unit.of
      <4>1. p = [b EXCEPT !.rec.reaction = "ok"]
        BY <3>1
      <4>2. p.rec = [b.rec EXCEPT !.reaction = "ok"]
        BY <1>2, <4>1 DEF Good, Shaped, HFields
      <4> HIDE DEF b, p
      <4>3. Good(p) /\ p.co = g.co
        BY <1>1, <1>2, <4>1, ReactionIsGood
      <4> QED BY <1>2, <4>2, <4>3, <1>1 DEF Of, Good, Shaped, RecFields
    <3>2. CASE g.rec.u # unit.of
      <4>1. p = [b EXCEPT !.rec.reaction = @]
        BY <3>2
      <4> HIDE DEF b
      <4>2. p.rec = [b.rec EXCEPT !.reaction = @] /\ p.co = b.co /\ Shaped(p) /\ p.kept = b.kept
            /\ p.view = b.view /\ p.starting = b.starting /\ p.clip = b.clip /\ p.job = b.job
        BY <1>2, <4>1 DEF Good, Shaped, HFields, RecFields
      <4> HIDE DEF p
      <4>3. Marks(b, p)
        BY <1>2, <4>2 DEF Good, Shaped, RecFields, Marks, Alike
      <4> QED BY <1>1, <1>2, <4>2, <4>3, MarksIsGood DEF Marks, Alike, Of
    <3> QED BY <3>1, <3>2
  <2>2. ClipEnds(g) = IF unit.of # p.co.u \/ p.co.flight # "reaction" THEN p
                      ELSE IF Of(b).answer.is = "ruling" THEN Rules(p)
                      ELSE Dispatches(p, "correction")
    BY <1>4 DEF ClipEnds
  <2> HIDE DEF p, b
  <2>3. p.co.flight = "reaction" => Of(p).answer.is = "ruling" \/ Withdrawn(p.co.u)
    BY <2>1 DEF Good, Truthful
  <2> QED BY <2>1, <2>2, <2>3, RulesIsGood, DispatchesIsGood DEF ClipKinds
<1>5. CASE unit.is = "correction"
  <2> DEFINE f == [b EXCEPT !.rec.corrected = g.rec.u = unit.of \/ @]
  <2>1. ClipEnds(g) = IF stale THEN b ELSE CommitsWithdrawn(f)
    BY <1>5 DEF ClipEnds
  <2>2. ~stale => Withdrawn(b.co.u)
    BY <1>5 DEF Good, Truthful
  <2> HIDE DEF b
  <2>3. \E x : f.rec = [b.rec EXCEPT !.corrected = x]
    <3>1. f.rec = [b.rec EXCEPT !.corrected = g.rec.u = unit.of \/ @]
      BY <1>2 DEF Good, Shaped, HFields
    <3> QED BY <3>1
  <2>4. f.co = b.co /\ Shaped(f) /\ f.kept = b.kept
        /\ f.view = b.view /\ f.starting = b.starting /\ f.clip = b.clip /\ f.job = b.job
    BY <1>2 DEF Good, Shaped, HFields, RecFields
  <2> HIDE DEF f
  <2>5. Marks(b, f)
    BY <1>2, <2>3, <2>4 DEF Good, Shaped, RecFields, Marks, Alike
  <2> QED BY <1>2, <2>1, <2>2, <2>4, <2>5, MarksIsGood, CommitsWithdrawnIsGood
<1>6. CASE unit.is = "ruling"
  <2> DEFINE f == [b EXCEPT !.delivered = @ \union {unit.of}]
             d == Completed(f)
  <2>1. \/ ClipEnds(g) \in {b, d}
        \/ \E x : ClipEnds(g) = [d EXCEPT !.after = x]
    BY <1>6 DEF ClipEnds
  <2> HIDE DEF b
  <2>2. Aside(b, f)
    BY <1>2 DEF Good, Aside, Shaped, HFields
  <2>3. Good(d)
    BY <1>2, <2>2, AsideIsGood, CompletedIsGood
  <2> HIDE DEF d, f
  <2>4. ASSUME NEW x PROVE Aside(d, [d EXCEPT !.after = x])
    BY <2>3 DEF Good, Aside, Shaped, HFields
  <2> QED BY <1>2, <2>1, <2>3, <2>4, AsideIsGood
<1> QED BY <1>3, <1>4, <1>5, <1>6 DEF ClipKinds

LEMMA ClipActivatesIsGood ==
  ASSUME NEW g, Good(g), CourtTyped, CourtInv
  PROVE  Good(ClipActivates(g))
<1> DEFINE unit == g.clip.unit
           b == [g EXCEPT !.clip = NoClip]
           current == g.clip.wanted /\ g.rec.u = unit.of
           q == [b EXCEPT !.rec.reaction = "playing", !.co.reacted = TRUE]
           sent == IF unit.is = "objection" THEN Pursues(q) ELSE b
           f == IF g.rec.u = unit.of THEN [b EXCEPT !.rec.reaction = "failed"] ELSE b
           c == IF g.co.u = unit.of THEN [f EXCEPT !.co.reacted = TRUE] ELSE f
<1>1. Aside(g, b)
  BY DEF Good, Aside, Shaped, HFields, NoClip, NoUnit
<1>2. Good(b)
  BY <1>1, AsideIsGood
<1>3. Good(q)
  <2> HIDE DEF b
  <2>1. /\ Shaped(q) /\ q.rec = [b.rec EXCEPT !.reaction = "playing"]
        /\ q.co = [b.co EXCEPT !.reacted = TRUE]
        /\ q.kept = b.kept
        /\ q.view = b.view /\ q.starting = b.starting /\ q.clip = b.clip /\ q.job = b.job
    BY <1>2 DEF Good, Shaped, HFields, RecFields, CoFields
  <2> HIDE DEF q
  <2>2. Reacts(b, q)
    BY <1>2, <2>1 DEF Good, Shaped, RecFields, CoFields, Reacts
  <2> QED BY <1>2, <2>2, ReactsIsGood
<1>4. Good(sent)
  <2> HIDE DEF q, b
  <2> QED BY <1>2, <1>3, PursuesIsGood
<1>5. Good(c)
  <2> HIDE DEF b
  <2>1. Good(f)
    BY <1>2, ReactionIsGood
  <2> HIDE DEF f
  <2> DEFINE e == [f EXCEPT !.co.reacted = TRUE]
  <2>2. /\ Shaped(e) /\ e.rec = f.rec /\ e.co = [f.co EXCEPT !.reacted = TRUE]
        /\ e.kept = f.kept
        /\ e.view = f.view /\ e.starting = f.starting /\ e.clip = f.clip /\ e.job = f.job
    BY <2>1 DEF Good, Shaped, HFields, CoFields
  <2> HIDE DEF e
  <2>3. Marks(f, e)
    BY <2>1, <2>2 DEF Good, Shaped, CoFields, Marks, Alike
  <2>4. c \in {f, e}
    BY DEF e
  <2> HIDE DEF c
  <2> QED BY <2>1, <2>3, <2>4, MarksIsGood
<1>6. \/ /\ current
         /\ ClipActivates(g) = [sent EXCEPT !.job = [unit |-> unit, by |-> "clip",
                                                     audible |-> FALSE]]
      \/ ClipActivates(g) \in {ClipFails(b, unit), c, Pursues(FailsRecording(c))}
  BY DEF ClipActivates
<1> HIDE DEF sent, c, b
<1>7. ASSUME current
      PROVE  Good([sent EXCEPT !.job = [unit |-> unit, by |-> "clip", audible |-> FALSE]])
  <2> DEFINE k == [sent EXCEPT !.job = [unit |-> unit, by |-> "clip", audible |-> FALSE]]
  <2>0. unit.is \in ClipKinds /\ (unit.is = "correction" => Withdrawn(unit.of))
    BY <1>7 DEF Good, Shaped, Truthful
  <2>1. /\ Shaped(k) /\ k.rec = sent.rec /\ k.co = sent.co /\ k.kept = sent.kept
        /\ k.view = sent.view /\ k.starting = sent.starting /\ k.clip = sent.clip
        /\ k.job.unit = unit
    BY <1>4, <2>0 DEF Good, Shaped, HFields
  <2> HIDE DEF k
  <2>2. Heard(k) = Heard(sent)
    BY <2>1 DEF Heard
  <2>3. Named(k) /\ Paired(k)
    BY <1>4, <2>1, <2>2 DEF Good, Named, Paired
  <2>4. Truthful(k)
    BY <1>4, <2>0, <2>1 DEF Good, Truthful, Of
  <2>5. ASSUME NEW u \in Questions
        PROVE  Plain(k, u) /\ Closed(k, u) /\ Spent(k, u)
    BY <1>4, <2>1 DEF Good, Plain, Closed, Spent, Sent
  <2> QED BY <1>4, <2>1, <2>3, <2>4, <2>5 DEF Good, k
<1> QED BY <1>2, <1>5, <1>6, <1>7, ClipFailsIsGood, FailsRecordingIsGood, PursuesIsGood

-----------------------------------------------------------------------------
(* Recording.                                                                 *)

LEMMA StopsRecordingIsGood ==
  ASSUME NEW g, Good(g)
  PROVE  /\ Good(StopsRecording(g))
         /\ StopsRecording(g).rec.u = g.rec.u /\ StopsRecording(g).co = g.co
<1> DEFINE b == [g EXCEPT !.rec.stop = "mic"]
           c == StopsMic(b)
           d == [c EXCEPT !.rec.stop = "final"]
<1>1. ASSUME NEW x, Good(x), NEW to
      PROVE  Marks(x, [x EXCEPT !.rec.stop = to]) /\ [x EXCEPT !.rec.stop = to].co = x.co
  <2> DEFINE y == [x EXCEPT !.rec.stop = to]
  <2>1. /\ Shaped(y) /\ y.rec = [x.rec EXCEPT !.stop = to] /\ y.co = x.co /\ y.kept = x.kept
        /\ y.view = x.view /\ y.starting = x.starting /\ y.clip = x.clip /\ y.job = x.job
    BY <1>1 DEF Good, Shaped, HFields, RecFields
  <2> HIDE DEF y
  <2>2. Marks(x, y)
    BY <1>1, <2>1 DEF Good, Shaped, RecFields, Marks, Alike
  <2> QED BY <2>1, <2>2 DEF y
<1>2. Good(b) /\ b.rec.u = g.rec.u /\ b.co = g.co
  <2>1. Marks(g, b) /\ b.co = g.co
    BY <1>1
  <2> HIDE DEF b
  <2>2. Good(b)
    BY <2>1, MarksIsGood
  <2> QED BY <2>1, <2>2 DEF Marks, Alike
<1> HIDE DEF b
<1>3. Good(c) /\ c.rec.u = g.rec.u /\ c.co = g.co
  BY <1>2, StopsMicIsGood DEF Aside
<1>4. StopsRecording(g) \in {c, d}
  BY DEF StopsRecording, b
<1> HIDE DEF c
<1>5. Good(d) /\ d.rec.u = g.rec.u /\ d.co = g.co
  <2>1. Marks(c, d) /\ d.co = c.co
    BY <1>1, <1>3
  <2> HIDE DEF d
  <2>2. Good(d)
    BY <1>3, <2>1, MarksIsGood
  <2> QED BY <1>3, <2>1, <2>2 DEF Marks, Alike
<1> QED BY <1>3, <1>4, <1>5

\* A recording that begins is of an utterance nothing is known of.
LEMMA RecordingStartsIsGood ==
  ASSUME NEW g, Good(g), CourtTyped, g.starting # "no"
  PROVE  Good(RecordingStarts(g, spoken))
<1> DEFINE b == [g EXCEPT !.starting = "no", !.from = 0]
           a == Aborted(b)
           f == [a EXCEPT !.life = "recording", !.mic = "on",
                          !.rec = [NoRecording EXCEPT !.u = spoken, !.head = g.from],
                          !.co = [NoCandidate EXCEPT !.u = spoken]]
<1>1. Aside(g, b)
  BY DEF Good, Aside, Shaped, HFields
<1>2. Good(b) /\ b.starting = "no"
  BY <1>1, AsideIsGood DEF Good, Shaped, HFields
<1>3. RecordingStarts(g, spoken) \in {f, Recoverable(b)}
  BY DEF RecordingStarts
<1> HIDE DEF b
<1>4. Good(a) /\ a.starting = "no" /\ a.kept = g.kept
  BY <1>1, <1>2, AbortedIsGood DEF Quits, Aside
<1>5. /\ spoken \in Questions /\ asked[spoken] = NotAsked /\ ~Turned(spoken)
      /\ a.kept.u # spoken /\ spoken # NoUtterance
  <2>1. spoken \in Questions /\ spoken \notin Heard(g)
    BY DEF Good, Named, Heard, CourtTyped, Questions
  <2>2. spoken # NoUtterance
    BY <2>1 DEF Questions, NoUtterance
  <2> QED BY <1>4, <2>1, <2>2 DEF Good, Named
<1> HIDE DEF a
<1>6. /\ Shaped(f) /\ f.co.u = spoken /\ f.co.flight = "none" /\ f.co.held = NoRecording
      /\ f.rec.u = spoken /\ f.rec.answer = NoAnswer /\ f.rec.failing = FALSE
      /\ f.rec.complete = "no" /\ f.rec.reaction = "none"
      /\ f.kept = a.kept /\ f.view = a.view /\ f.starting = "no" /\ f.clip = a.clip
      /\ f.job = a.job
  <2>1. /\ DOMAIN f = DOMAIN a
        /\ f.rec = [NoRecording EXCEPT !.u = spoken, !.head = g.from]
        /\ f.co = [NoCandidate EXCEPT !.u = spoken]
        /\ f.kept = a.kept /\ f.view = a.view /\ f.starting = "no" /\ f.clip = a.clip
        /\ f.job = a.job /\ f.from = a.from
    BY <1>4 DEF Good, Shaped, HFields
  <2> HIDE DEF f
  <2>2. g.from \in Nat
    BY DEF Good, Shaped
  <2>3. /\ f.rec.u = spoken /\ f.rec.answer = NoAnswer /\ f.rec.failing = FALSE
        /\ f.rec.complete = "no" /\ f.rec.reaction = "none" /\ f.rec.head = g.from
        /\ RecFields \subseteq DOMAIN f.rec
    BY <2>1 DEF NoRecording, RecFields
  <2>4. /\ f.co.u = spoken /\ f.co.flight = "none" /\ f.co.held = NoRecording
        /\ CoFields \subseteq DOMAIN f.co /\ RecFields \subseteq DOMAIN f.co.held
        /\ f.co.held.head = 0
    BY <2>1 DEF NoCandidate, CoFields, NoRecording, RecFields
  <2> QED BY <1>4, <2>1, <2>2, <2>3, <2>4 DEF Good, Shaped
<1> HIDE DEF f
<1>7. Heard(f) = Heard(a)
  BY <1>4, <1>6 DEF Heard
<1>8. Named(f) /\ Paired(f)
  <2>1. /\ a.kept.u \in Heard(a) \cup {NoUtterance}
        /\ \A u \in Questions \ Heard(a) : asked[u] = NotAsked /\ ~Turned(u)
    BY <1>4 DEF Good, Named
  <2>2. f.rec.u \in Heard(f) /\ f.co.u \in Heard(f) /\ f.co.held.u = NoUtterance
    BY <1>5, <1>6 DEF Heard, NoRecording
  <2>3. f.kept = a.kept /\ f.starting = "no"
    BY <1>6
  <2>4. Named(f)
    BY <1>7, <2>1, <2>2, <2>3 DEF Named
  <2>5. Paired(f)
    BY <1>6 DEF Paired, NoRecording, NoUtterance
  <2> QED BY <2>4, <2>5
<1>9. Truthful(f)
  BY <1>4, <1>6 DEF Good, Truthful, TakenBack, NoRecording, NoAnswer
<1>10. ASSUME NEW u \in Questions
       PROVE  Plain(f, u) /\ Closed(f, u) /\ Spent(f, u)
  <2>1. u # NoUtterance
    BY DEF Questions, NoUtterance
  <2>2. CASE u = spoken
    BY <1>5, <1>6, <2>1, <2>2 DEF Plain, Closed, Spent, Sent, NotAsked, NoRecording
  <2>3. CASE u # spoken
    BY <1>4, <1>6, <2>1, <2>3 DEF Good, Plain, Closed, Spent, Sent, NoRecording
  <2> QED BY <2>2, <2>3
<1>11. Good(f)
  BY <1>4, <1>6, <1>8, <1>9, <1>10 DEF Good
<1> QED BY <1>2, <1>3, <1>11, RecoverableIsGood

\* Its candidate is given up, with whatever flight it was on.
LEMMA ForgetsIsGood ==
  ASSUME NEW g, Good(g), NEW f, Aside([g EXCEPT !.co = NoCandidate], f)
  PROVE  Good(f)
<1> DEFINE b == [g EXCEPT !.co = NoCandidate]
<1> SUFFICES Good(b)
  BY AsideIsGood
<1>1. /\ DOMAIN b = DOMAIN g /\ b.rec = g.rec /\ b.co = NoCandidate /\ b.kept = g.kept
      /\ b.view = g.view /\ b.starting = g.starting /\ b.clip = g.clip /\ b.job = g.job
      /\ b.from = g.from
  BY DEF Good, Shaped, HFields
<1>2. /\ b.co.u = NoUtterance /\ b.co.flight = "none" /\ b.co.held = NoRecording
      /\ CoFields \subseteq DOMAIN b.co /\ RecFields \subseteq DOMAIN b.co.held
      /\ b.co.held.head = 0
  <2> HIDE DEF b
  <2> QED BY <1>1 DEF NoCandidate, CoFields, NoRecording, RecFields
<1> HIDE DEF b
<1>3. Heard(b) = Heard(g)
  BY <1>1 DEF Heard
<1>4. Shaped(b) /\ Named(b) /\ Paired(b)
  BY <1>1, <1>2, <1>3 DEF Good, Shaped, Named, Paired, NoRecording
<1>5. Truthful(b)
  BY <1>1, <1>2 DEF Good, Truthful, TakenBack, NoRecording, NoAnswer
<1>6. ASSUME NEW u \in Questions
      PROVE  Plain(b, u) /\ Closed(b, u) /\ Spent(b, u)
  <2>1. u # NoUtterance
    BY DEF Questions, NoUtterance
  <2> QED BY <1>1, <1>2, <2>1 DEF Good, Plain, Closed, Spent, Sent, NoRecording
<1> QED BY <1>1, <1>4, <1>5, <1>6 DEF Good

\* Nothing was submitted of a recording whose first objection is only now heard.
LEMMA HearsPartialIsGood ==
  ASSUME NEW g, Good(g), CourtTyped, g.rec.u # NoUtterance
  PROVE  Good(HearsPartial(g))
<1>1. CASE g.rec.finalHandled \/ g.rec.reaction # "none"
  BY <1>1 DEF HearsPartial
<1>2. CASE ~(g.rec.finalHandled \/ g.rec.reaction # "none") /\ g.view # g.rec.head
  <2> DEFINE a == Aborted(g)
             f == [a EXCEPT !.co = NoCandidate]
  <2>1. HearsPartial(g) = f
    BY <1>2 DEF HearsPartial
  <2>2. Good(a)
    BY AbortedIsGood
  <2> HIDE DEF a
  <2>3. Shaped(f)
    BY <2>2 DEF Good, Shaped, HFields, NoCandidate, CoFields, NoRecording, RecFields
  <2>4. Aside(f, f)
    BY <2>3 DEF Aside
  <2> QED BY <2>1, <2>2, <2>4, ForgetsIsGood
<1>3. CASE /\ ~(g.rec.finalHandled \/ g.rec.reaction # "none") /\ g.view = g.rec.head
           /\ (g.co.u # g.rec.u \/ g.co.final)
  BY <1>3 DEF HearsPartial
<1>4. CASE /\ ~(g.rec.finalHandled \/ g.rec.reaction # "none") /\ g.view = g.rec.head
           /\ ~(g.co.u # g.rec.u \/ g.co.final)
  <2> DEFINE b == [g EXCEPT !.rec.reaction = "dispatching", !.co.flight = "waiting",
                            !.life = "processing"]
             s == IF b.rec.stop = "no" THEN StopsRecording(b) ELSE b
  <2>1. HearsPartial(g) = Dispatches(s, "objection")
    BY <1>4 DEF HearsPartial
  <2>2. /\ Shaped(b) /\ b.rec = [g.rec EXCEPT !.reaction = "dispatching"]
        /\ b.co = [g.co EXCEPT !.flight = "waiting"] /\ b.kept = g.kept
        /\ b.view = g.view /\ b.starting = g.starting /\ b.clip = g.clip /\ b.job = g.job
    BY DEF Good, Shaped, HFields, RecFields, CoFields
  <2> HIDE DEF b
  <2>3. /\ b.rec.u = g.rec.u /\ b.rec.head = g.rec.head /\ b.rec.complete = g.rec.complete
        /\ b.rec.failing = g.rec.failing /\ b.rec.answer = g.rec.answer
        /\ b.rec.finalHandled = g.rec.finalHandled /\ b.rec.reaction = "dispatching"
        /\ b.co.u = g.co.u /\ b.co.flight = "waiting" /\ b.co.held = g.co.held
    BY <2>2 DEF Good, Shaped, RecFields, CoFields
  <2>4. Heard(b) = Heard(g)
    BY <2>2 DEF Heard
  <2>5. Named(b) /\ Paired(b)
    BY <2>2, <2>3, <2>4 DEF Good, Named, Paired
  <2>6. Truthful(b)
    BY <2>2, <2>3 DEF Good, Truthful, TakenBack
  <2>7. ASSUME NEW u \in Questions
        PROVE  Plain(b, u) /\ Closed(b, u) /\ Spent(b, u)
    <3>1. Plain(g, u) /\ Closed(g, u) /\ Spent(g, u) /\ Paired(g)
      BY DEF Good
    <3>2. Plain(b, u)
      BY <1>4, <2>3, <3>1 DEF Plain, Paired
    <3>3. Closed(b, u)
      BY <1>4, <2>2, <2>3, <3>1 DEF Closed, Sent
    <3> QED BY <2>2, <2>3, <3>1, <3>2, <3>3 DEF Spent
  <2>8. Good(b)
    BY <2>2, <2>5, <2>6, <2>7 DEF Good
  <2>9. Good(s)
    BY <2>8, StopsRecordingIsGood
  <2> QED BY <2>1, <2>9, DispatchesIsGood DEF ClipKinds
<1> QED BY <1>1, <1>2, <1>3, <1>4

\* A question that nobody objected to is submitted as it was said.
LEMMA CompletesIsGood ==
  ASSUME NEW g, Good(g), CourtTyped, CourtInv, g.rec.complete # "no"
  PROVE  Good(Completes(g))
<1>1. /\ g.rec.u \in Questions /\ g.rec.finalHandled /\ g.co.held.u = NoUtterance
      /\ asked[g.rec.u] = NotAsked /\ (g.co.u = g.rec.u => g.co.flight = "none")
  <2>1. g.rec.u \in Questions /\ g.rec.finalHandled /\ g.co.held.u = NoUtterance
    BY DEF Good, Paired, Named, Heard
  <2> QED BY <2>1 DEF Good, Plain
<1>2. CASE MayCommit(g, g.rec)
  <2> DEFINE w == Submits(g, g.rec.u)
             f == [w EXCEPT !.rec.commitStarted = TRUE, !.rec.complete = "commit"]
  <2>1. /\ Shaped(f) /\ f.rec = [g.rec EXCEPT !.commitStarted = TRUE, !.complete = "commit"]
        /\ f.view = g.view /\ f.co = g.co
        /\ f.starting = g.starting /\ f.job = g.job /\ f.clip = g.clip
        /\ f.kept = [by |-> "voice", u |-> g.rec.u, expected |-> g.view, committed |-> FALSE]
    <3>1. /\ DOMAIN w = DOMAIN g /\ w.rec = g.rec /\ w.co = g.co /\ w.view = g.view
          /\ w.starting = g.starting /\ w.job = g.job /\ w.clip = g.clip /\ w.from = g.from
          /\ w.kept = [by |-> "voice", u |-> g.rec.u, expected |-> g.view, committed |-> FALSE]
      BY DEF Good, Shaped, HFields, Submits
    <3> HIDE DEF w
    <3>2. /\ DOMAIN f = DOMAIN g
          /\ f.rec = [w.rec EXCEPT !.commitStarted = TRUE, !.complete = "commit"]
          /\ f.co = w.co /\ f.view = w.view /\ f.kept = w.kept /\ f.from = w.from
          /\ f.starting = w.starting /\ f.job = w.job /\ f.clip = w.clip
      BY <3>1 DEF Good, Shaped, HFields
    <3> HIDE DEF f
    <3> QED BY <3>1, <3>2 DEF Good, Shaped, RecFields
  <2>2. g.kept = NoCommand /\ g.view = g.rec.head
    BY <1>2 DEF MayCommit, Pending
  <2>3. Completes(g) = f
    BY <1>2 DEF Completes
  <2> HIDE DEF f
  <2>4. /\ f.rec.u = g.rec.u /\ f.rec.head = g.rec.head /\ f.rec.complete = "commit"
        /\ f.rec.failing = g.rec.failing /\ f.rec.answer = g.rec.answer
        /\ f.rec.finalHandled = g.rec.finalHandled /\ f.rec.reaction = g.rec.reaction
        /\ f.kept.u = g.rec.u /\ f.kept.expected = g.view /\ ~f.kept.committed
    BY <2>1 DEF Good, Shaped, RecFields
  <2>5. Heard(f) = Heard(g)
    BY <2>1 DEF Heard
  <2>6. Named(f) /\ Paired(f)
    BY <1>1, <2>1, <2>4, <2>5 DEF Good, Named, Paired
  <2>7. Truthful(f)
    BY <2>1, <2>4 DEF Good, Truthful, TakenBack, Of
  <2>8. ASSUME NEW u \in Questions
        PROVE  Plain(f, u) /\ Closed(f, u) /\ Spent(f, u)
    <3>1. /\ u # NoUtterance /\ g.kept.u = NoUtterance
          /\ Plain(g, u) /\ Closed(g, u) /\ Spent(g, u)
      BY <2>2 DEF Good, Questions, NoUtterance, NoCommand
    <3>2. Plain(f, u)
      BY <1>1, <2>1, <2>4, <3>1 DEF Plain
    <3>3. Closed(f, u)
      BY <1>1, <2>1, <2>4, <3>1 DEF Closed, Sent, NotAsked
    <3>4. Spent(f, u)
      <4>1. CASE u = g.rec.u
        <5>1. ~Turned(u)
          BY <2>2, <3>1, <4>1 DEF Spent, Good, Shaped
        <5> QED BY <1>1, <2>1, <2>2, <2>4, <3>1, <4>1, <5>1 DEF Spent, Good, Shaped
      <4>2. CASE u # g.rec.u
        BY <2>1, <2>4, <3>1, <4>2 DEF Spent
      <4> QED BY <4>1, <4>2
    <3> QED BY <3>2, <3>3, <3>4
  <2> QED BY <2>1, <2>3, <2>4, <2>6, <2>7, <2>8 DEF Good
<1>3. CASE ~MayCommit(g, g.rec)
  <2> DEFINE b == [g EXCEPT !.rec = NoRecording]
  <2>1. Completes(g) = Recoverable(b)
    BY <1>3 DEF Completes
  <2>2. Shaped(b)
    BY DEF Good, Shaped, HFields, RecFields, NoRecording, NoUtterance
  <2>3. Aside(b, Recoverable(b))
    <3> HIDE DEF b
    <3> QED BY <2>2 DEF Aside, Shaped, HFields, Recoverable
  <2> QED BY <1>1, <2>1, <2>3, DropsIsGood
<1> QED BY <1>2, <1>3

LEMMA HearsFinalIsGood ==
  ASSUME NEW g, Good(g), CourtTyped, CourtInv, g.rec.u # NoUtterance
  PROVE  Good(HearsFinal(g))
<1> DEFINE b == [g EXCEPT !.rec.finalHandled = TRUE]
           p == [b EXCEPT !.rec.sealed = TRUE, !.co.final = TRUE, !.co.retain = TRUE,
                          !.life = "processing"]
           q == [b EXCEPT !.rec.sealed = TRUE]
           m == [Finalized(b) EXCEPT !.life = "processing", !.rec.complete = "mic"]
           s == StopsMic(m)
<1>1. Good(b) /\ b.rec.u = g.rec.u /\ b.rec.finalHandled = TRUE
      /\ b.rec.reaction = g.rec.reaction
  <2>1. /\ Shaped(b) /\ b.rec = [g.rec EXCEPT !.finalHandled = TRUE]
        /\ b.co = g.co /\ b.kept = g.kept
        /\ b.view = g.view /\ b.starting = g.starting /\ b.clip = g.clip /\ b.job = g.job
    BY DEF Good, Shaped, HFields, RecFields
  <2> HIDE DEF b
  <2>2. /\ b.rec.u = g.rec.u /\ b.rec.head = g.rec.head /\ b.rec.complete = g.rec.complete
        /\ b.rec.failing = g.rec.failing /\ b.rec.answer = g.rec.answer
        /\ b.rec.finalHandled = TRUE /\ b.rec.reaction = g.rec.reaction
    BY <2>1 DEF Good, Shaped, RecFields
  <2>3. Heard(b) = Heard(g)
    BY <2>1 DEF Heard
  <2>4. Named(b) /\ Paired(b)
    BY <2>1, <2>2, <2>3 DEF Good, Named, Paired
  <2>5. Truthful(b)
    BY <2>1, <2>2 DEF Good, Truthful, TakenBack, Of
  <2>6. ASSUME NEW u \in Questions
        PROVE  Plain(b, u) /\ Closed(b, u) /\ Spent(b, u)
    BY <2>1, <2>2 DEF Good, Plain, Closed, Spent, Sent
  <2> QED BY <2>1, <2>2, <2>4, <2>5, <2>6 DEF Good
<1>2. HearsFinal(g) =
        IF g.rec.finalHandled THEN g
        ELSE IF b.rec.reaction # "none"
        THEN IF g.co.u = g.rec.u /\ ~g.co.final /\ g.co.flight # "none"
             THEN Pursues(p) ELSE FailsRecording(q)
        ELSE IF s.mic = "off" THEN Completes(s) ELSE s
  <2>1. b.rec.reaction = g.rec.reaction
    BY <1>1
  <2> QED BY <2>1 DEF HearsFinal
<1> HIDE DEF b
<1>3. Good(p)
  <2>1. /\ Shaped(p) /\ p.rec = [b.rec EXCEPT !.sealed = TRUE]
        /\ p.co = [b.co EXCEPT !.final = TRUE, !.retain = TRUE] /\ p.kept = b.kept
        /\ p.view = b.view /\ p.starting = b.starting /\ p.clip = b.clip /\ p.job = b.job
    BY <1>1 DEF Good, Shaped, HFields, RecFields, CoFields
  <2> HIDE DEF p
  <2>2. Marks(b, p)
    BY <1>1, <2>1 DEF Good, Shaped, RecFields, CoFields, Marks, Alike
  <2> QED BY <1>1, <2>2, MarksIsGood
<1>4. Good(q)
  <2>1. /\ Shaped(q) /\ q.rec = [b.rec EXCEPT !.sealed = TRUE]
        /\ q.co = b.co /\ q.kept = b.kept
        /\ q.view = b.view /\ q.starting = b.starting /\ q.clip = b.clip /\ q.job = b.job
    BY <1>1 DEF Good, Shaped, HFields, RecFields
  <2> HIDE DEF q
  <2>2. Marks(b, q)
    BY <1>1, <2>1 DEF Good, Shaped, RecFields, Marks, Alike
  <2> QED BY <1>1, <2>2, MarksIsGood
<1>5. ASSUME b.rec.reaction = "none"
      PROVE  Good(m) /\ m.rec.complete = "mic"
  <2> DEFINE z == Finalized(b)
  <2>1. Good(z) /\ z.rec = b.rec
    BY <1>1, FinalizedIsGood DEF Quits
  <2> HIDE DEF z
  <2>2. /\ Shaped(m) /\ m.rec = [z.rec EXCEPT !.complete = "mic"]
        /\ m.co = z.co /\ m.kept = z.kept
        /\ m.view = z.view /\ m.starting = z.starting /\ m.clip = z.clip /\ m.job = z.job
    BY <2>1 DEF Good, Shaped, HFields, RecFields, z
  <2> HIDE DEF m
  <2>3. /\ m.rec.u = z.rec.u /\ m.rec.head = z.rec.head /\ m.rec.complete = "mic"
        /\ m.rec.failing = z.rec.failing /\ m.rec.answer = z.rec.answer
        /\ m.rec.finalHandled = TRUE /\ m.rec.reaction = "none" /\ m.rec.u # NoUtterance
    BY <1>1, <1>5, <2>1, <2>2 DEF Good, Shaped, RecFields
  <2>4. Heard(m) = Heard(z)
    BY <2>2 DEF Heard
  <2>5. Named(m) /\ Paired(m)
    BY <2>1, <2>2, <2>3, <2>4 DEF Good, Named, Paired
  <2>6. Truthful(m)
    BY <2>1, <2>2, <2>3 DEF Good, Truthful, TakenBack, Of
  <2>7. ASSUME NEW u \in Questions
        PROVE  Plain(m, u) /\ Closed(m, u) /\ Spent(m, u)
    BY <1>5, <2>1, <2>2, <2>3 DEF Good, Plain, Closed, Spent, Sent
  <2> QED BY <2>1, <2>2, <2>3, <2>5, <2>6, <2>7 DEF Good
<1>6. ASSUME b.rec.reaction = "none"
      PROVE  Good(s) /\ s.rec.complete = "mic"
  <2> HIDE DEF m
  <2> QED BY <1>5, <1>6, StopsMicIsGood DEF Aside
<1> HIDE DEF p, q, s
<1> QED BY <1>2, <1>3, <1>4, <1>6, PursuesIsGood, FailsRecordingIsGood, CompletesIsGood

LEMMA MicStopsIsGood ==
  ASSUME NEW g, Good(g), CourtTyped, CourtInv, NEW ok
  PROVE  Good(MicStops(g, ok))
<1> DEFINE b == [g EXCEPT !.mic = "off"]
           o == [b EXCEPT !.rec.stop = "over"]
           t == [b EXCEPT !.rec.stop = "final",
                          !.life = IF b.rec.finalHandled THEN @ ELSE "processing"]
           s == IF b.rec.stop # "mic" THEN b
                ELSE IF ~ok THEN FailsRecording(o) ELSE t
           e == Recoverable([s EXCEPT !.rec = NoRecording])
           c == IF s.rec.complete # "mic" THEN s ELSE IF ok THEN Completes(s) ELSE e
<1>1. Good(b)
  <2>1. Aside(g, b)
    BY DEF Good, Aside, Shaped, HFields
  <2> QED BY <2>1, AsideIsGood
<1>2. MicStops(g, ok) = IF c.rec.failing THEN FailureEnds(c) ELSE c
  BY DEF MicStops
<1> HIDE DEF b
<1>3. Good(o)
  <2>1. /\ Shaped(o) /\ o.rec = [b.rec EXCEPT !.stop = "over"]
        /\ o.co = b.co /\ o.kept = b.kept
        /\ o.view = b.view /\ o.starting = b.starting /\ o.clip = b.clip /\ o.job = b.job
    BY <1>1 DEF Good, Shaped, HFields, RecFields
  <2> HIDE DEF o
  <2>2. Marks(b, o)
    BY <1>1, <2>1 DEF Good, Shaped, RecFields, Marks, Alike
  <2> QED BY <1>1, <2>2, MarksIsGood
<1>4. Good(t)
  <2>1. /\ Shaped(t) /\ t.rec = [b.rec EXCEPT !.stop = "final"]
        /\ t.co = b.co /\ t.kept = b.kept
        /\ t.view = b.view /\ t.starting = b.starting /\ t.clip = b.clip /\ t.job = b.job
    BY <1>1 DEF Good, Shaped, HFields, RecFields
  <2> HIDE DEF t
  <2>2. Marks(b, t)
    BY <1>1, <2>1 DEF Good, Shaped, RecFields, Marks, Alike
  <2> QED BY <1>1, <2>2, MarksIsGood
<1>5. Good(s)
  <2> HIDE DEF o, t
  <2> QED BY <1>1, <1>3, <1>4, FailsRecordingIsGood
<1> HIDE DEF s
<1>6. s.rec.complete = "mic" => Good(e)
  <2> SUFFICES ASSUME s.rec.complete = "mic" PROVE Good(e)
    OBVIOUS
  <2> DEFINE n == [s EXCEPT !.rec = NoRecording]
  <2>1. Shaped(n)
    BY <1>5 DEF Good, Shaped, HFields, RecFields, NoRecording, NoUtterance
  <2>2. Aside(n, e)
    <3> HIDE DEF n
    <3> QED BY <2>1 DEF Aside, Shaped, HFields, Recoverable, n
  <2>3. s.rec.u \in Questions
    BY <1>5 DEF Good, Paired, Named, Heard
  <2>4. s.co.u = s.rec.u => s.co.flight = "none"
    BY <1>5, <2>3 DEF Good, Plain
  <2> HIDE DEF e
  <2> QED BY <1>5, <2>2, <2>4, DropsIsGood
<1> HIDE DEF e
<1>7. Good(c)
  BY <1>5, <1>6, CompletesIsGood
<1> HIDE DEF c
<1>8. c.rec.failing => c.rec.u # NoUtterance
  BY <1>7 DEF Good, Paired
<1> QED BY <1>2, <1>7, <1>8, FailureEndsIsGood

LEMMA FinalMissesIsGood ==
  ASSUME NEW g, Good(g), CourtTyped, CourtInv
  PROVE  Good(FinalMisses(g))
<1> DEFINE o == [g EXCEPT !.rec.stop = "over"]
<1>1. /\ Shaped(o) /\ o.rec = [g.rec EXCEPT !.stop = "over"]
      /\ o.co = g.co /\ o.kept = g.kept
      /\ o.view = g.view /\ o.starting = g.starting /\ o.clip = g.clip /\ o.job = g.job
  BY DEF Good, Shaped, HFields, RecFields
<1>2. FinalMisses(g) \in {g, FailsRecording(o)}
  BY DEF FinalMisses
<1> HIDE DEF o
<1>3. Marks(g, o)
  BY <1>1 DEF Good, Shaped, RecFields, Marks, Alike
<1> QED BY <1>2, <1>3, MarksIsGood, FailsRecordingIsGood

-----------------------------------------------------------------------------
(* The voice of the courtroom, and the connection to the service.             *)

LEMMA SpeaksIsGood ==
  ASSUME NEW g, Good(g), NEW by, NEW units
  PROVE  Good(Speaks(g, by, units))
<1>1. Aside(g, Speaks(g, by, units))
  BY DEF Good, Aside, Shaped, HFields, Speaks
<1> QED BY <1>1, AsideIsGood

LEMMA SpeechActivatesIsGood ==
  ASSUME NEW g, Good(g), NEW ok
  PROVE  Good(SpeechActivates(g, ok))
<1> DEFINE b == [g EXCEPT !.speech = Silent]
           f == [g EXCEPT !.speech.activating = FALSE,
                          !.job = [unit |-> Head(g.speech.units), by |-> "speech",
                                   audible |-> FALSE]]
<1>1. SpeechActivates(g, ok) \in {b, Recoverable(Fenced(b)), f}
  BY DEF SpeechActivates
<1>2. Good(b)
  <2>1. Aside(g, b)
    BY DEF Good, Aside, Shaped, HFields
  <2> QED BY <2>1, AsideIsGood
<1>3. Good(f)
  <2>1. Aside(g, f)
    BY DEF Good, Aside, Shaped, HFields
  <2> QED BY <2>1, AsideIsGood
<1> HIDE DEF b, f
<1> QED BY <1>1, <1>2, <1>3, FencedIsGood, RecoverableIsGood

LEMMA JobEndsIsGood ==
  ASSUME NEW g, Good(g), CourtTyped, CourtInv, g.job # NoJob
  PROVE  Good(JobEnds(g))
<1>1. CASE g.job.by = "speech"
  <2>1. Aside(g, UnitEnds(g))
    BY DEF Good, Aside, Shaped, HFields, UnitEnds, NoJob, NoUnit
  <2> QED BY <1>1, <2>1, AsideIsGood DEF JobEnds
<1>2. CASE g.job.by = "clip"
  BY <1>2, ClipEndsIsGood DEF JobEnds
<1> QED BY <1>1, <1>2 DEF Good, Shaped

LEMMA JobFailsIsGood ==
  ASSUME NEW g, Good(g), CourtTyped, CourtInv
  PROVE  Good(JobFails(g)) /\ Good(JobIsCancelled(g))
BY FencedIsGood, RecoverableIsGood, CutsOffIsGood, ClipFailsIsGood DEF JobFails, JobIsCancelled

LEMMA InterruptsIsGood ==
  ASSUME NEW g, Good(g)
  PROVE  Good(Interrupts(g)) /\ Interrupts(g).kept = g.kept
<1> DEFINE b == Fenced(g)
           f == [b EXCEPT !.life = "ready"]
<1>1. Good(b) /\ b.kept = g.kept
  BY FencedIsGood DEF Aside
<1>2. Interrupts(g) \in {f, g}
  BY DEF Interrupts
<1> HIDE DEF b
<1>3. Aside(b, f) /\ f.kept = b.kept
  BY <1>1 DEF Good, Aside, Shaped, HFields
<1> QED BY <1>1, <1>2, <1>3, AsideIsGood

LEMMA PreparesIsGood ==
  ASSUME NEW g, Good(g)
  PROVE  Good(Prepares(g))
<1> DEFINE b == [g EXCEPT !.co.held.head = 0]
           f == Prepares(g)
<1>1. /\ DOMAIN b = DOMAIN g /\ b.rec = g.rec /\ b.co = [g.co EXCEPT !.held.head = 0]
      /\ b.kept = g.kept /\ b.view = g.view /\ b.starting = g.starting /\ b.clip = g.clip
      /\ b.job = g.job /\ b.from = g.from
  BY DEF Good, Shaped, HFields
<1>2. /\ DOMAIN f = DOMAIN g /\ f.rec = g.rec /\ f.co = [g.co EXCEPT !.held.head = 0]
      /\ f.kept = g.kept /\ f.view = g.view
      /\ f.starting = (IF g.starting = "yes" THEN "stale" ELSE g.starting) /\ f.clip = g.clip
      /\ f.job = NoJob /\ f.from = g.from
  BY DEF Good, Shaped, HFields, Prepares
<1> HIDE DEF b, f
<1>3. /\ b.co.u = g.co.u /\ b.co.flight = g.co.flight /\ CoFields \subseteq DOMAIN b.co
      /\ b.co.held = [g.co.held EXCEPT !.head = 0]
  BY <1>1 DEF Good, Shaped, CoFields
<1>4. /\ b.co.held.u = g.co.held.u /\ b.co.held.head = 0 /\ b.co.held.answer = g.co.held.answer
      /\ RecFields \subseteq DOMAIN b.co.held
  BY <1>3 DEF Good, Shaped, RecFields
<1>5. Heard(b) = Heard(g)
  BY <1>1 DEF Heard
<1>6. Shaped(b) /\ Named(b) /\ Paired(b)
  BY <1>1, <1>3, <1>4, <1>5 DEF Good, Shaped, Named, Paired
<1>7. Truthful(b)
  BY <1>1, <1>3, <1>4 DEF Good, Truthful, TakenBack, Of
<1>8. ASSUME NEW u \in Questions
      PROVE  Plain(b, u) /\ Closed(b, u) /\ Spent(b, u)
  <2>1. Plain(b, u) /\ Closed(b, u)
    BY <1>1, <1>3 DEF Good, Plain, Closed, Sent
  <2>2. Spent(b, u)
    <3>1. Spent(g, u)
      BY DEF Good
    <3>2. g.co.held.head \in Nat /\ g.view \in Nat /\ g.kept.expected \in Nat
      BY DEF Good, Shaped
    <3> QED BY <1>1, <1>4, <3>1, <3>2 DEF Spent
  <2> QED BY <2>1, <2>2
<1>9. Good(b)
  BY <1>1, <1>6, <1>7, <1>8 DEF Good
<1>10. Aside(b, f)
  BY <1>1, <1>2, <1>3, <1>6 DEF Aside, Shaped, NoJob, Good
<1> QED BY <1>9, <1>10, AsideIsGood DEF f

LEMMA PreparedIsGood ==
  ASSUME NEW g, Good(g), NEW ok
  PROVE  Good(Prepared(g, ok))
<1> DEFINE b == [g EXCEPT !.prep = "no"]
           f == [b EXCEPT !.life = "ready", !.link = TRUE]
<1>1. Aside(g, b) /\ Aside(g, f)
  BY DEF Good, Aside, Shaped, HFields
<1>2. Prepared(g, ok) \in {f, Recoverable(b)}
  BY DEF Prepared
<1> HIDE DEF b, f
<1> QED BY <1>1, <1>2, AsideIsGood, RecoverableIsGood

LEMMA TroublesIsGood ==
  ASSUME NEW g, Good(g), CourtTyped, CourtInv
  PROVE  Good(Troubles(g))
<1> DEFINE b == [g EXCEPT !.rec.troubled = TRUE]
<1>1. /\ Shaped(b) /\ b.rec = [g.rec EXCEPT !.troubled = TRUE]
      /\ b.co = g.co /\ b.kept = g.kept
      /\ b.view = g.view /\ b.starting = g.starting /\ b.clip = g.clip /\ b.job = g.job
  BY DEF Good, Shaped, HFields, RecFields
<1>2. Troubles(g) \in {g, CutsOff(g), FailsRecording(g), b, CutsOff(b)}
  BY DEF Troubles
<1> HIDE DEF b
<1>3. Marks(g, b)
  BY <1>1 DEF Good, Shaped, RecFields, Marks, Alike
<1> QED BY <1>2, <1>3, MarksIsGood, CutsOffIsGood, FailsRecordingIsGood

LEMMA ServiceErrsIsGood ==
  ASSUME NEW g, Good(g), CourtTyped, CourtInv
  PROVE  Good(ServiceErrs(g))
<1> DEFINE b == [g EXCEPT !.prep = IF @ = "yes" THEN "failed" ELSE @]
<1>1. Aside(g, b)
  BY DEF Good, Aside, Shaped, HFields
<1>2. ServiceErrs(g) \in {Troubles(b), Recoverable(Troubles(b))}
  BY DEF ServiceErrs
<1> HIDE DEF b
<1> QED BY <1>1, <1>2, AsideIsGood, TroublesIsGood, RecoverableIsGood

LEMMA DisconnectsIsGood ==
  ASSUME NEW g, Good(g), CourtTyped, CourtInv
  PROVE  Good(Disconnects(g))
<1> DEFINE b == [g EXCEPT !.link = FALSE, !.prep = IF @ = "yes" THEN "failed" ELSE @]
<1>1. Aside(g, b)
  BY DEF Good, Aside, Shaped, HFields
<1>2. Disconnects(g) \in {Troubles(b), Troubles(Recoverable(b))}
  BY DEF Disconnects
<1> HIDE DEF b
<1> QED BY <1>1, <1>2, AsideIsGood, TroublesIsGood, RecoverableIsGood

LEMMA DiesIsGood ==
  ASSUME NEW g, Good(g), CourtTyped, CourtInv
  PROVE  Good(Dies(g))
<1> DEFINE b == ServiceErrs(g)
           f == [b EXCEPT !.life = "fatal"]
<1>1. Good(b)
  BY ServiceErrsIsGood
<1>2. Dies(g) = Disconnects(f)
  BY DEF Dies
<1> HIDE DEF b
<1>3. Aside(b, f)
  BY <1>1 DEF Good, Aside, Shaped, HFields
<1> HIDE DEF f
<1> QED BY <1>1, <1>2, <1>3, AsideIsGood, DisconnectsIsGood

LEMMA UtteranceIsCancelledIsGood ==
  ASSUME NEW g, Good(g), CourtTyped, CourtInv
  PROVE  Good(UtteranceIsCancelled(g))
BY FailsRecordingIsGood DEF UtteranceIsCancelled

\* A page that has just been opened, or is left.
LEMMA AnewIsGood ==
  ASSUME CourtTyped, NEW f, f \in {Opened, Closes},
         \A u \in Questions :
           /\ u > spoken => asked[u] = NotAsked /\ ~Turned(u)
           /\ Turned(u) => asked[u].head = 0 \/ asked[u].withdrawn
  PROVE  Good(f)
<1>1. /\ DOMAIN f = DOMAIN Opened /\ f.starting = "no" /\ f.from = 0 /\ f.rec = NoRecording
      /\ f.co = NoCandidate /\ f.job = NoJob /\ f.clip = NoClip /\ f.view = 0
      /\ f.kept = NoCommand
  BY DEF Opened, Closes
<1>2. HFields \subseteq DOMAIN f
  BY <1>1 DEF Opened, HFields
<1>3. Shaped(f)
  BY <1>1, <1>2 DEF Shaped, RecFields, CoFields, NoRecording, NoCandidate, NoJob, NoClip,
                    NoCommand, NoUtterance, CourtTyped, Version, NoUnit
<1>4. Named(f)
  BY <1>1 DEF Named, Heard, NoRecording, NoCandidate, NoCommand, CourtTyped, Questions
<1>5. Paired(f)
  BY <1>1 DEF Paired, NoRecording, NoCandidate
<1>6. Truthful(f)
  BY <1>1 DEF Truthful, TakenBack, NoRecording, NoCandidate, NoAnswer, NoClip, NoJob, NoUnit
<1>7. ASSUME NEW u \in Questions
      PROVE  Plain(f, u) /\ Closed(f, u) /\ Spent(f, u)
  <2>1. u # NoUtterance
    BY DEF Questions, NoUtterance
  <2> QED BY <1>1, <2>1 DEF Plain, Closed, Spent, Sent, NoRecording, NoCandidate, NoCommand
<1> QED BY <1>1, <1>3, <1>4, <1>5, <1>6, <1>7 DEF Good, NoCommand

LEMMA TidyIsGood ==
  ASSUME NEW g, Good(g)
  PROVE  Good(Tidy(g))
<1> DEFINE n == [g EXCEPT !.co = NoCandidate]
           f == Tidy(g)
<1>1. f.co \in {g.co, NoCandidate}
  BY DEF Good, Shaped, HFields, Tidy
<1>2. /\ DOMAIN f = DOMAIN g /\ f.rec = g.rec /\ f.kept = g.kept /\ f.view = g.view
      /\ f.starting = g.starting /\ f.clip = g.clip /\ f.job = g.job /\ f.from = g.from
  BY DEF Good, Shaped, HFields, Tidy
<1>3. /\ DOMAIN n = DOMAIN g /\ n.rec = g.rec /\ n.kept = g.kept /\ n.view = g.view
      /\ n.starting = g.starting /\ n.clip = g.clip /\ n.job = g.job /\ n.from = g.from
      /\ n.co = NoCandidate
  BY DEF Good, Shaped, HFields
<1> HIDE DEF f
<1>4. CASE f.co = g.co
  <2>1. Aside(g, f)
    BY <1>2, <1>4 DEF Good, Aside, Shaped
  <2> QED BY <2>1, AsideIsGood DEF f
<1>5. CASE f.co = NoCandidate
  <2>1. Aside(n, f)
    <3> HIDE DEF n
    <3> QED BY <1>2, <1>3, <1>5 DEF Good, Aside, Shaped, NoCandidate, CoFields, NoRecording,
                                    RecFields
  <2> QED BY <2>1, ForgetsIsGood DEF f
<1> QED BY <1>1, <1>4, <1>5


-----------------------------------------------------------------------------
(* The page: views are published and adopted, a command comes to its end.     *)

\* Only the view changes, and it is the record as it is.
LEMMA GrowsIsGood ==
  ASSUME NEW g, NEW f, Good(g), CourtTyped, Shaped(f), f.view = Version,
         f.rec = g.rec, f.co = g.co, f.kept = g.kept, f.starting = g.starting,
         f.clip.unit = g.clip.unit, f.job = g.job
  PROVE  Good(f)
<1>1. Heard(f) = Heard(g)
  BY DEF Heard
<1>2. Named(f) /\ Paired(f)
  BY <1>1 DEF Good, Named, Paired
<1>3. Truthful(f)
  BY DEF Good, Truthful, TakenBack, Of
<1>4. f.kept.committed => f.kept.expected < Version
  BY DEF Good
<1>5. ASSUME NEW u \in Questions
      PROVE  Plain(f, u) /\ Closed(f, u) /\ Spent(f, u)
  <2>1. Plain(f, u) /\ Closed(f, u)
    BY DEF Good, Plain, Closed, Sent
  <2>2. g.view \in Nat /\ g.view <= Version /\ Version \in Nat
        /\ g.rec.head \in Nat /\ g.co.held.head \in Nat
    BY DEF Good, Shaped, CourtTyped, Version
  <2>3. Spent(f, u)
    BY <2>2 DEF Good, Spent
  <2> QED BY <2>1, <2>3
<1> QED BY <1>2, <1>3, <1>4, <1>5 DEF Good

LEMMA PublishesIsGood ==
  ASSUME NEW g, Good(g), CourtTyped, NEW a
  PROVE  Good(Publishes(g, Version, a))
<1> DEFINE f == Publishes(g, Version, a)
<1>1. /\ Shaped(f) /\ f.view = Version /\ f.rec = g.rec /\ f.co = g.co /\ f.kept = g.kept
      /\ f.starting = g.starting /\ f.clip = g.clip /\ f.job = g.job
  BY DEF Good, Shaped, HFields, Publishes, CourtTyped, Version
<1> HIDE DEF f
<1> QED BY <1>1, GrowsIsGood DEF f

LEMMA InvalidatesIsGood ==
  ASSUME NEW g, Good(g), NEW head
  PROVE  Good(Invalidates(g, head))
<1> DEFINE b == Aborted(g)
           f == [b EXCEPT !.co = NoCandidate]
<1>1. Good(b)
  BY AbortedIsGood
<1>2. Invalidates(g, head) \in {f, g}
  BY DEF Invalidates
<1> HIDE DEF b
<1>3. Shaped(f)
  BY <1>1 DEF Good, Shaped, HFields, CoFields, RecFields, NoCandidate, NoRecording
<1>4. Aside(f, f)
  BY <1>3 DEF Aside
<1> QED BY <1>1, <1>2, <1>4, ForgetsIsGood

LEMMA AdoptsIsGood ==
  ASSUME NEW g, Good(g)
  PROVE  Good(Adopts(g, court))
<1> DEFINE a == Head(g.queue)
           b == [g EXCEPT !.queue = Tail(@)]
           c == [b EXCEPT !.baseline = a.next]
           units == Units(g, court, a)
<1>1. Adopts(g, court) \in {Recoverable(b), Speaks(Invalidates(c, a.next), "drain", units)}
  BY DEF Adopts
<1>2. Aside(g, b) /\ Aside(g, c)
  BY DEF Good, Aside, Shaped, HFields
<1> HIDE DEF b, c, a, units
<1>3. Good(b) /\ Good(c)
  BY <1>2, AsideIsGood
<1>4. Good(Speaks(Invalidates(c, a.next), "drain", units))
  BY <1>3, InvalidatesIsGood, SpeaksIsGood
<1> QED BY <1>1, <1>3, <1>4, RecoverableIsGood

LEMMA RecoversIsGood ==
  ASSUME NEW g, Good(g), NEW expected
  PROVE  Good(Recovers(g, expected))
<1>1. Aside(g, Recovers(g, expected))
  BY DEF Good, Aside, Shaped, HFields, Recovers
<1> QED BY <1>1, AsideIsGood

LEMMA RecoveryEndsIsGood ==
  ASSUME NEW g, Good(g)
  PROVE  Good(RecoveryEnds(g))
<1>1. Aside(g, RecoveryEnds(g))
  BY DEF Good, Aside, Shaped, HFields, RecoveryEnds
<1> QED BY <1>1, AsideIsGood

LEMMA RecoveryAnswersIsGood ==
  ASSUME NEW g, Good(g), CourtTyped, NEW answer, answer.view = Version
  PROVE  Good(RecoveryAnswers(g, answer))
<1> DEFINE a == Adoption("interruption", g.recovery.expected, Version, answer)
           p == Publishes(g, Version, a)
           f == [p EXCEPT !.recovery = [on |-> TRUE, expected |-> answer.view, attempt |-> 1]]
<1>1. Good(p)
  BY PublishesIsGood
<1>2. RecoveryAnswers(g, answer) \in {RecoveryEnds(g), f, RecoveryEnds(p)}
  BY DEF RecoveryAnswers
<1> HIDE DEF p
<1>3. Aside(p, f)
  BY <1>1 DEF Good, Aside, Shaped, HFields
<1> HIDE DEF f
<1> QED BY <1>1, <1>2, <1>3, AsideIsGood, RecoveryEndsIsGood

LEMMA ContinuationAnswersIsGood ==
  ASSUME NEW g, Good(g), CourtTyped
  PROVE  Good(ContinuationAnswers(g, Version))
<1> DEFINE b == [g EXCEPT !.busy = "no"]
           a == Adoption("view", g.sent, Version, NoAnswer)
<1>1. Aside(g, b)
  BY DEF Good, Aside, Shaped, HFields
<1>2. ContinuationAnswers(g, Version) \in {b, Publishes(b, Version, a)}
  BY DEF ContinuationAnswers
<1> HIDE DEF b, a
<1> QED BY <1>1, <1>2, AsideIsGood, PublishesIsGood

LEMMA CommittedIsGood ==
  ASSUME NEW g, Good(g), CourtTyped, CourtInv, NEW u, NEW ok
  PROVE  Good(Committed(g, u, ok))
<1>1. CASE u = NoUtterance
  BY <1>1 DEF Committed
<1>2. CASE u # NoUtterance /\ g.co.u = u /\ g.co.flight = "committing"
  BY <1>2, CompletedIsGood, FlightFailsIsGood DEF Committed
<1>3. CASE /\ u # NoUtterance /\ ~(g.co.u = u /\ g.co.flight = "committing")
           /\ g.rec.u = u /\ g.rec.complete = "commit"
  <2> DEFINE b == [g EXCEPT !.rec = NoRecording]
             f == [b EXCEPT !.life = "ready"]
  <2>1. Committed(g, u, ok) \in {Recoverable(b), b, f}
    BY <1>3 DEF Committed
  <2>2. Shaped(b)
    BY DEF Good, Shaped, HFields, RecFields, NoRecording, NoUtterance
  <2>3. Aside(b, b) /\ Aside(b, f)
    <3> HIDE DEF b
    <3> QED BY <2>2 DEF Aside, Shaped, HFields
  <2>4. g.co.u = g.rec.u => g.co.flight = "none"
    BY <1>3 DEF Good, Named, Heard, Plain
  <2>5. Good(b) /\ Good(f)
    <3> HIDE DEF f
    <3> QED BY <2>3, <2>4, DropsIsGood
  <2> HIDE DEF b, f
  <2> QED BY <2>1, <2>5, RecoverableIsGood
<1>4. CASE /\ u # NoUtterance /\ ~(g.co.u = u /\ g.co.flight = "committing")
           /\ ~(g.rec.u = u /\ g.rec.complete = "commit")
  BY <1>4 DEF Committed
<1> QED BY <1>1, <1>2, <1>3, <1>4

\* The record has moved on from where the command was made for, and its turn is there.
LEMMA CommandAnswersIsGood ==
  ASSUME NEW g, Good(g), CourtTyped, CourtInv, g.kept.committed
  PROVE  Good(CommandAnswers(g, Version))
<1> DEFINE b == [g EXCEPT !.busy = "no", !.kept = NoCommand]
           a == Adoption("view", g.sent, Version, NoAnswer)
           f == Publishes(b, Version, a)
           u == IF g.kept.by = "voice" THEN g.kept.u ELSE NoUtterance
<1>1. CommandAnswers(g, Version) = Committed(f, u, TRUE)
  BY DEF CommandAnswers
<1>2. /\ Shaped(f) /\ f.view = Version /\ f.rec = g.rec /\ f.co = g.co /\ f.kept = NoCommand
      /\ f.starting = g.starting /\ f.clip = g.clip /\ f.job = g.job
  BY DEF Good, Shaped, HFields, Publishes, CourtTyped, Version, NoCommand
<1> HIDE DEF f, u
<1>3. Heard(f) = Heard(g)
  BY <1>2 DEF Heard
<1>4. Named(f) /\ Paired(f)
  BY <1>2, <1>3 DEF Good, Named, Paired, NoCommand
<1>5. Truthful(f)
  BY <1>2 DEF Good, Truthful, TakenBack, Of
<1>6. ASSUME NEW v \in Questions
      PROVE  Plain(f, v) /\ Closed(f, v) /\ Spent(f, v)
  <2>1. v # NoUtterance
    BY DEF Questions, NoUtterance
  <2>2. Plain(f, v) /\ Closed(f, v)
    BY <1>2, <2>1 DEF Good, Plain, Closed, Sent, NoCommand
  <2>3. /\ g.view \in Nat /\ g.view <= Version /\ Version \in Nat
        /\ g.rec.head \in Nat /\ g.co.held.head \in Nat
        /\ g.kept.expected \in Nat /\ g.kept.expected < Version
    BY DEF Good, Shaped, CourtTyped, Version
  <2>4. Spent(f, v)
    BY <1>2, <2>1, <2>3 DEF Good, Spent, NoCommand
  <2> QED BY <2>2, <2>4
<1>7. Good(f)
  BY <1>2, <1>4, <1>5, <1>6 DEF Good, NoCommand
<1> QED BY <1>1, <1>7, CommittedIsGood

LEMMA CommandFailsIsGood ==
  ASSUME NEW g, Good(g), CourtTyped, CourtInv, NEW refreshed
  PROVE  Good(CommandFails(g, Version, refreshed))
<1> DEFINE b == [g EXCEPT !.busy = "no"]
           a == Adoption("view", g.sent, Version, NoAnswer)
           p == Publishes(b, Version, a)
           u == IF g.kept.by = "voice" THEN g.kept.u ELSE NoUtterance
<1>1. Aside(g, b)
  BY DEF Good, Aside, Shaped, HFields
<1>2. CommandFails(g, Version, refreshed) \in {Committed(p, u, FALSE), Committed(b, u, FALSE)}
  BY DEF CommandFails
<1> HIDE DEF b, a, u
<1>3. Good(b) /\ Good(p)
  BY <1>1, AsideIsGood, PublishesIsGood
<1> HIDE DEF p
<1> QED BY <1>2, <1>3, CommittedIsGood

\* A typed action is about no recording.
LEMMA TypesIsGood ==
  ASSUME NEW g, Good(g), ~Pending(g)
  PROVE  Good([Submits(g, NoUtterance) EXCEPT !.kept.by = "typed"])
<1> DEFINE f == [Submits(g, NoUtterance) EXCEPT !.kept.by = "typed"]
<1>1. /\ DOMAIN f = DOMAIN g /\ f.view = g.view /\ f.rec = g.rec /\ f.co = g.co
      /\ f.kept = [by |-> "typed", u |-> NoUtterance, expected |-> g.view, committed |-> FALSE]
      /\ f.starting = g.starting /\ f.clip = g.clip /\ f.job = g.job /\ f.from = g.from
  BY DEF Good, Shaped, HFields, Submits
<1> HIDE DEF f
<1>2. g.kept.u = NoUtterance /\ ~g.kept.committed
  BY DEF Pending, NoCommand
<1>3. Shaped(f)
  BY <1>1 DEF Good, Shaped
<1>4. Heard(f) = Heard(g)
  BY <1>1 DEF Heard
<1>5. Named(f) /\ Paired(f)
  BY <1>1, <1>4 DEF Good, Named, Paired
<1>6. Truthful(f)
  BY <1>1 DEF Good, Truthful, TakenBack, Of
<1>7. ASSUME NEW u \in Questions
      PROVE  Plain(f, u) /\ Closed(f, u) /\ Spent(f, u)
  <2>1. u # NoUtterance
    BY DEF Questions, NoUtterance
  <2> QED BY <1>1, <1>2, <2>1 DEF Good, Plain, Closed, Spent, Sent
<1> QED BY <1>1, <1>3, <1>5, <1>6, <1>7 DEF Good, f

LEMMA SoundsIsGood ==
  ASSUME NEW g, Good(g), g.job # NoJob
  PROVE  Good([g EXCEPT !.job.audible = TRUE])
<1> DEFINE f == [g EXCEPT !.job.audible = TRUE]
<1>1. /\ HFields \subseteq DOMAIN f /\ f.rec = g.rec /\ f.co = g.co /\ f.kept = g.kept
      /\ f.view = g.view /\ f.starting = g.starting /\ f.clip = g.clip /\ f.from = g.from
      /\ f.job = [g.job EXCEPT !.audible = TRUE]
  BY DEF Good, Shaped, HFields
<1> HIDE DEF f
<1>2. Aside(g, f)
  <2>1. /\ f.job.unit = g.job.unit /\ f.job.by = g.job.by
        /\ {"unit", "by", "audible"} \subseteq DOMAIN f.job
    BY <1>1 DEF Good, Shaped
  <2> QED BY <1>1, <2>1 DEF Good, Shaped, Aside
<1> QED BY <1>2, AsideIsGood DEF f

-----------------------------------------------------------------------------
(* The steps.                                                                 *)

LEMMA InitIsGood ==
  ASSUME Init, BoundsAssumption
  PROVE  OnceInv
<1>1. CASE court = NewHearing
  <2>1. court = <<[kind |-> "opening", of |-> 0]>>
    BY <1>1 DEF NewHearing, Entry, NoUtterance
  <2>2. CourtTyped
    BY <2>1 DEF Init, CourtTyped, Version, NotAsked, Kinds, NoUtterance, BoundsAssumption
  <2>3. \A u \in Questions : ~Turned(u) /\ RulingEntries(u) = {} /\ asked[u] = NotAsked
    BY <2>1 DEF Init, Turned, RulingEntries, Questions, Version
  <2>4. CourtInv
    BY <2>1, <2>3 DEF CourtInv, Questions, Version
  <2> QED BY <2>2, <2>3, <2>4, AnewIsGood DEF Init, OnceInv, NotAsked
<1>2. CASE court = Append(NewHearing, Entry("pending", NoUtterance))
  <2>1. /\ court \in Seq([kind : Kinds, of : Nat]) /\ Len(court) = 2
        /\ court[1] = [kind |-> "opening", of |-> 0]
        /\ court[2] = [kind |-> "pending", of |-> 0]
    <3> DEFINE one == [kind |-> "opening", of |-> 0]
               two == [kind |-> "pending", of |-> 0]
               S   == [kind : Kinds, of : Nat]
    <3>1. court = Append(<<one>>, two)
      BY <1>2 DEF NewHearing, Entry, NoUtterance
    <3>2. one \in S /\ two \in S
      BY DEF Kinds
    <3> HIDE DEF one, two, S
    <3>3. <<one>> \in Seq(S) /\ Len(<<one>>) = 1 /\ <<one>>[1] = one
      BY <3>2
    <3>4. court \in Seq(S) /\ Len(court) = 2 /\ court[1] = one /\ court[2] = two
      BY <3>1, <3>2, <3>3
    <3> QED BY <3>4 DEF one, two, S
  <2>2. CourtTyped
    BY <2>1 DEF Init, CourtTyped, Version, NotAsked, Kinds, NoUtterance, BoundsAssumption
  <2>3. \A u \in Questions : ~Turned(u) /\ RulingEntries(u) = {} /\ asked[u] = NotAsked
    BY <2>1 DEF Init, Turned, RulingEntries, Questions, Version
  <2>4. CourtInv
    BY <2>1, <2>3 DEF CourtInv, Questions, Version
  <2> QED BY <2>2, <2>3, <2>4, AnewIsGood DEF Init, OnceInv, NotAsked
<1> QED BY <1>1, <1>2 DEF Init, Openings

\* A step of the browser alone
LEMMA BrowserSteps ==
  ASSUME OnceInv, NEW g, Good(g), h' = g, UNCHANGED <<court, asked, spoken>>
  PROVE  OnceInv'
<1>1. CourtTyped'
  BY DEF OnceInv, CourtTyped, Version
<1>2. CourtInv'
  BY DEF OnceInv, CourtInv, RulingEntries, Version
<1>3. Shaped(h)' /\ Paired(h)' /\ (h.kept.committed => h.kept.expected < Version)'
  BY DEF Good, Shaped, Paired, Version
<1>4. Heard(h)' = Heard(g)
  BY DEF Heard
<1>5. \A u \in Questions : Turned(u)' = Turned(u) /\ asked'[u] = asked[u]
  BY DEF Turned, Version
<1>6. Named(h)'
  BY <1>4, <1>5 DEF Good, Named
<1>7. Truthful(h)'
  BY DEF Good, Truthful, TakenBack, Withdrawn, Of
<1>8. ASSUME NEW u \in Questions
      PROVE  Plain(h, u)' /\ Closed(h, u)' /\ Spent(h, u)'
  BY <1>5 DEF Good, Plain, Closed, Spent, Sent
<1> QED BY <1>1, <1>2, <1>3, <1>6, <1>7, <1>8 DEF OnceInv, Good

LEMMA BecomesGood ==
  ASSUME OnceInv, NEW g, Good(g), Becomes(g) \/ h' = Tidy(g), UNCHANGED <<court, asked, spoken>>
  PROVE  OnceInv'
BY TidyIsGood, BrowserSteps DEF Becomes

\* The record gets an entry that is not a turn of the player.
LEMMA RecordGrows ==
  ASSUME OnceInv, NEW e \in [kind : Kinds, of : Nat], court' = Append(court, e),
         e.kind # "opening"
  PROVE  /\ Version' = Version + 1 /\ Version \in Nat
         /\ \A v \in 1 .. Version : court'[v] = court[v]
         /\ court'[Version + 1] = e
         /\ UNCHANGED <<asked, spoken>> => CourtTyped'
         /\ court' \in Seq([kind : Kinds, of : Nat])
         /\ \A v \in 1 .. Version' : court'[v].kind = "opening" => court'[v].of = NoUtterance
<1>1. /\ Version' = Version + 1 /\ Version \in Nat /\ Version > 0
      /\ \A v \in 1 .. Version : court'[v] = court[v]
      /\ court'[Version + 1] = e
      /\ court' \in Seq([kind : Kinds, of : Nat])
  BY DEF OnceInv, CourtTyped, Version
<1>2. \A v \in 1 .. Version' : v \in 1 .. Version \/ v = Version + 1
  BY <1>1
<1>3. \A v \in 1 .. Version' : court'[v].kind = "opening" => court'[v].of = NoUtterance
  BY <1>1, <1>2 DEF OnceInv, CourtTyped
<1>4. Version' > 0
  BY <1>1
<1>5. UNCHANGED <<asked, spoken>> => CourtTyped'
  BY <1>1, <1>3, <1>4 DEF OnceInv, CourtTyped
<1> QED BY <1>1, <1>3, <1>5

\* What is on the record is an entry.
LEMMA EntriesAreTyped ==
  ASSUME OnceInv, NEW v \in 1 .. Version
  PROVE  /\ court[v].kind \in Kinds /\ court[v].of \in Nat
         /\ court[v].kind = "opening" => court[v].of = NoUtterance
<1>1. court[v] \in [kind : Kinds, of : Nat]
  <2> DEFINE S == [kind : Kinds, of : Nat]
  <2>1. court \in Seq(S) /\ v \in 1 .. Len(court)
    BY DEF OnceInv, CourtTyped, Version
  <2> HIDE DEF S
  <2>2. court[v] \in S
    BY <2>1
  <2> QED BY <2>2 DEF S
<1> QED BY <1>1 DEF OnceInv, CourtTyped

LEMMA TurnsGrow ==
  ASSUME OnceInv, NEW e \in [kind : Kinds, of : Nat], court' = Append(court, e),
         e.kind # "opening", NEW u
  PROVE  /\ Turned(u)' <=> Turned(u) \/ (e.kind = "turn" /\ e.of = u)
         /\ RulingEntries(u)' = RulingEntries(u) \cup
              {v \in {Version + 1} : e.of = u /\ e.kind \in {"sustained", "overruled", "pending"}}
<1>1. /\ Version' = Version + 1 /\ Version \in Nat
      /\ \A v \in 1 .. Version : court'[v] = court[v]
      /\ court'[Version + 1] = e
  BY RecordGrows
<1>2. 1 .. Version' = (1 .. Version) \cup {Version + 1}
  BY <1>1
<1>3. Turned(u)' <=> Turned(u) \/ (e.kind = "turn" /\ e.of = u)
  BY <1>1, <1>2 DEF Turned
<1>4. RulingEntries(u)' = {v \in 1 .. Version' : court'[v].of = u
                             /\ court'[v].kind \in {"sustained", "overruled", "pending"}}
  BY DEF RulingEntries
<1> QED BY <1>1, <1>2, <1>3, <1>4 DEF RulingEntries

\* What the browser holds stays true of a record with an entry that puts nothing of
\* the player on it.
LEMMA EntryIsGood ==
  ASSUME OnceInv, NEW e \in [kind : Kinds, of : Nat], court' = Append(court, e),
         e.kind # "opening", e.kind = "turn" => e.of \notin Questions,
         UNCHANGED <<h, asked, spoken>>
  PROVE  Good(h)' /\ CourtTyped'
<1>1. /\ Version' = Version + 1 /\ Version \in Nat /\ CourtTyped'
  BY RecordGrows
<1>2. \A u \in Questions : Turned(u)' = Turned(u) /\ asked'[u] = asked[u]
  <2> SUFFICES ASSUME NEW u \in Questions
               PROVE  Turned(u)' = Turned(u)
    OBVIOUS
  <2>1. Turned(u)' <=> Turned(u)
    BY TurnsGrow
  <2> QED BY <2>1 DEF Turned
<1>3. Good(h)
  BY DEF OnceInv
<1>4. h.kept.expected \in Nat /\ h.view \in Nat /\ h.view <= Version
  BY <1>1, <1>3 DEF Good, Shaped
<1>5. Shaped(h)' /\ Paired(h)' /\ (h.kept.committed => h.kept.expected < Version)'
  BY <1>1, <1>3, <1>4 DEF Good, Shaped, Paired
<1>6. Heard(h)' = Heard(h)
  BY DEF Heard
<1>7. Named(h)'
  BY <1>2, <1>3, <1>6 DEF Good, Named
<1>8. Truthful(h)'
  BY <1>3 DEF Good, Truthful, TakenBack, Withdrawn, Of
<1>9. ASSUME NEW u \in Questions
      PROVE  Plain(h, u)' /\ Closed(h, u)' /\ Spent(h, u)'
  BY <1>2, <1>3 DEF Good, Plain, Closed, Spent, Sent
<1> QED BY <1>1, <1>5, <1>7, <1>8, <1>9 DEF Good

\* There is nothing else of a recording on the record, for a first turn or ruling.
LEMMA EntryIsFirst ==
  ASSUME OnceInv, NEW e \in [kind : Kinds, of : Nat], court' = Append(court, e),
         e.kind # "opening", UNCHANGED asked,
         e.kind # "answer" /\ e.of \in Questions => ~Turned(e.of) /\ RulingEntries(e.of) = {},
         e.kind \in {"sustained", "overruled", "pending"} /\ e.of \in Questions =>
           asked[e.of].head # 0 /\ ~asked[e.of].withdrawn
  PROVE  CourtInv'
<1>1. /\ Version' = Version + 1 /\ Version \in Nat
      /\ \A v \in 1 .. Version : court'[v] = court[v]
      /\ court'[Version + 1] = e
  BY RecordGrows
<1>2. \A v \in 1 .. Version' : v \in 1 .. Version \/ v = Version + 1
  BY <1>1
<1>3. ASSUME NEW u \in Questions
      PROVE  \A v, w \in 1 .. Version' :
               /\ court'[v].of = u /\ court'[v].kind # "answer"
               /\ court'[w].of = u /\ court'[w].kind # "answer"
               => v = w
  <2>1. CASE e.of = u /\ e.kind # "answer"
    <3>1. \A v \in 1 .. Version : court[v].of = u => court[v].kind = "answer"
      <4> SUFFICES ASSUME NEW v \in 1 .. Version, court[v].of = u
                   PROVE  court[v].kind = "answer"
        OBVIOUS
      <4>1. court[v].kind \in Kinds /\ court[v].kind # "opening"
        BY EntriesAreTyped DEF Questions, NoUtterance
      <4>2. court[v].kind # "turn"
        BY <2>1 DEF Turned
      <4>3. court[v].kind \notin {"sustained", "overruled", "pending"}
        BY <2>1 DEF RulingEntries
      <4> QED BY <4>1, <4>2, <4>3 DEF Kinds
    <3>2. \A v \in 1 .. Version' :
            court'[v].of = u /\ court'[v].kind # "answer" => v = Version + 1
      BY <1>1, <1>2, <3>1
    <3> QED BY <3>2
  <2>2. CASE ~(e.of = u /\ e.kind # "answer")
    <3>1. \A v, w \in 1 .. Version :
            /\ court[v].of = u /\ court[v].kind # "answer"
            /\ court[w].of = u /\ court[w].kind # "answer"
            => v = w
      BY DEF OnceInv, CourtInv
    <3>2. \A v \in 1 .. Version' :
            court'[v].of = u /\ court'[v].kind # "answer" => v \in 1 .. Version
      BY <1>1, <1>2, <2>2
    <3> QED BY <1>1, <3>1, <3>2
  <2> QED BY <2>1, <2>2
<1>4. ASSUME NEW u \in Questions, RulingEntries(u)' # {}
      PROVE  asked[u].head # 0 /\ ~asked[u].withdrawn
  <2>1. RulingEntries(u) # {}
        \/ (e.of = u /\ e.kind \in {"sustained", "overruled", "pending"})
    BY <1>4, TurnsGrow
  <2> QED BY <2>1 DEF OnceInv, CourtInv
<1> QED BY <1>3, <1>4 DEF CourtInv

LEMMA CourtCommitsStep ==
  ASSUME OnceInv, CourtCommits
  PROVE  OnceInv'
<1> DEFINE e == Entry("turn", h.kept.u)
           k == h.kept.u
<1>1. /\ Good(h) /\ h.kept.expected = Version /\ ~h.kept.committed
      /\ h' = [h EXCEPT !.kept.committed = TRUE]
      /\ court' = Append(court, e) /\ UNCHANGED <<asked, spoken>>
  BY DEF OnceInv, CourtCommits, Enters
<1>2. /\ h'.kept = [h.kept EXCEPT !.committed = TRUE] /\ h'.rec = h.rec /\ h'.co = h.co
      /\ DOMAIN h' = DOMAIN h /\ h'.view = h.view /\ h'.starting = h.starting
      /\ h'.clip = h.clip /\ h'.job = h.job /\ h'.from = h.from
  BY <1>1 DEF Good, Shaped, HFields
<1>3. /\ h'.kept.u = k /\ h'.kept.expected = h.kept.expected /\ h'.kept.committed = TRUE
      /\ {"by", "u", "expected", "committed"} \subseteq DOMAIN h'.kept
  BY <1>1, <1>2 DEF Good, Shaped
<1>4. k \in Heard(h) \cup {NoUtterance}
  BY <1>1 DEF Good, Named
<1>5. e \in [kind : Kinds, of : Nat] /\ e.kind = "turn" /\ e.of = k
  BY <1>4 DEF Entry, Kinds, Heard, Questions, NoUtterance
<1>6. \A u \in Questions : Turned(u)' <=> Turned(u) \/ u = k
  BY <1>1, <1>5, TurnsGrow
<1>7. k \in Questions => ~Turned(k) /\ RulingEntries(k) = {}
  BY <1>1 DEF Good, Closed, Spent, Sent, OnceInv, CourtInv
<1>8. Version' = Version + 1 /\ Version \in Nat /\ CourtTyped'
  BY <1>1, <1>5, RecordGrows
<1>9. CourtInv'
  BY <1>1, <1>5, <1>7, EntryIsFirst
<1> HIDE DEF e, k
<1>10. Shaped(h)' /\ (h.kept.committed => h.kept.expected < Version)'
  BY <1>1, <1>2, <1>3, <1>8 DEF Good, Shaped
<1>11. Heard(h)' = Heard(h)
  BY <1>1, <1>2 DEF Heard
<1>12. Named(h)' /\ Paired(h)'
  <2>1. /\ {h.rec.u, h.co.u, h.co.held.u, k} \subseteq Heard(h) \cup {NoUtterance}
        /\ \A u \in Questions \ Heard(h) : asked[u] = NotAsked /\ ~Turned(u)
        /\ h.starting # "no" => spoken \in Questions
    BY <1>1 DEF Good, Named, k
  <2>2. \A u \in Questions \ Heard(h) : u # k
    BY <1>4 DEF Questions, NoUtterance
  <2>3. {h'.rec.u, h'.co.u, h'.co.held.u, h'.kept.u} \subseteq Heard(h)' \cup {NoUtterance}
    BY <1>2, <1>3, <1>11, <2>1
  <2>4. \A u \in Questions \ Heard(h)' : asked'[u] = NotAsked /\ ~Turned(u)'
    BY <1>1, <1>6, <1>11, <2>1, <2>2
  <2>5. h'.starting # "no" => spoken' \in Questions
    BY <1>1, <1>2, <2>1
  <2>6. Named(h)'
    BY <2>3, <2>4, <2>5 DEF Named
  <2>7. Paired(h)'
    BY <1>1, <1>2 DEF Good, Paired
  <2> QED BY <2>6, <2>7
<1>13. Truthful(h)'
  BY <1>1, <1>2 DEF Good, Truthful, TakenBack, Withdrawn, Of
<1>14. ASSUME NEW u \in Questions
       PROVE  Plain(h, u)' /\ Closed(h, u)' /\ Spent(h, u)'
  <2>1. Plain(h, u) /\ Closed(h, u) /\ Spent(h, u)
    BY <1>1 DEF Good
  <2>2. Sent(h, u)' => Sent(h, u)
    BY <1>3, <1>6 DEF Sent, k
  <2>3. Plain(h, u)' /\ Closed(h, u)'
    BY <1>1, <1>2, <2>1, <2>2 DEF Plain, Closed
  <2>4. Spent(h, u)'
    BY <1>1, <1>2, <1>3, <1>6, <2>1 DEF Spent, k
  <2> QED BY <2>3, <2>4
<1> QED BY <1>8, <1>9, <1>10, <1>12, <1>13, <1>14 DEF OnceInv, Good

LEMMA CourtRulesStep ==
  ASSUME OnceInv, NEW u \in Questions, NEW kind \in {"sustained", "overruled", "pending"},
         CourtRules(u, kind)
  PROVE  OnceInv'
<1> DEFINE e == Entry(kind, u)
<1>1. /\ Good(h) /\ Open(u) /\ court' = Append(court, e) /\ UNCHANGED <<h, asked, spoken>>
  BY DEF OnceInv, CourtRules, Enters
<1>2. e \in [kind : Kinds, of : Nat] /\ e.kind = kind /\ e.of = u
  BY DEF Entry, Kinds, Questions
<1>3. asked[u].head # 0 /\ ~asked[u].withdrawn /\ RulingEntries(u) = {}
  BY <1>1 DEF Open, Requested
<1>4. ~Turned(u)
  BY <1>1, <1>3 DEF Good, Closed, Sent
<1> HIDE DEF e
<1> QED BY <1>1, <1>2, <1>3, <1>4, EntryIsFirst, EntryIsGood DEF OnceInv

LEMMA CourtSpeaksStep ==
  ASSUME OnceInv, CourtResumes \/ CourtContinues
  PROVE  OnceInv'
<1>1. PICK e \in {Entry("answer", court[Version].of), Entry("turn", NoUtterance)} :
        court' = Append(court, e) /\ UNCHANGED <<h, asked, spoken>>
  BY DEF CourtResumes, CourtContinues, Enters
<1>2. court[Version].of \in Nat
  <2>1. Version \in 1 .. Version
    BY DEF OnceInv, CourtTyped, Version
  <2> QED BY <2>1, EntriesAreTyped
<1>3. /\ e \in [kind : Kinds, of : Nat] /\ e.kind \in {"answer", "turn"}
      /\ (e.kind = "turn" => e.of = NoUtterance)
  BY <1>2 DEF Entry, Kinds, NoUtterance
<1>4. NoUtterance \notin Questions
  BY DEF Questions, NoUtterance
<1> QED BY <1>1, <1>3, <1>4, EntryIsFirst, EntryIsGood DEF OnceInv

\* A request is made, or taken back: of no other recording anything becomes known.
LEMMA RequestIsGood ==
  ASSUME OnceInv, NEW g, Good(g), h' = g,
         NEW u \in Questions, NEW a \in [head : Nat, withdrawn : BOOLEAN],
         asked' = [asked EXCEPT ![u] = a], UNCHANGED <<court, spoken>>,
         u \in Heard(g), asked[u].withdrawn => a.withdrawn,
         \/ a.head = asked[u].head /\ asked[u].head # 0 /\ RulingEntries(u) = {}
         \/ asked[u] = NotAsked /\ ~a.withdrawn /\ g.co.u = u /\ g.co.flight # "none"
  PROVE  OnceInv'
<1>1. /\ \A v \in Questions \ {u} : asked'[v] = asked[v]
      /\ asked'[u] = a
  BY DEF OnceInv, CourtTyped
<1>2. CourtTyped'
  BY DEF OnceInv, CourtTyped, Version
<1>3. CourtInv'
  <2> SUFFICES ASSUME NEW v \in Questions, RulingEntries(v) # {}
               PROVE  asked'[v].head # 0 /\ ~asked'[v].withdrawn
    BY DEF OnceInv, CourtInv, RulingEntries, Version
  <2>1. asked[v].head # 0 /\ ~asked[v].withdrawn
    BY DEF OnceInv, CourtInv
  <2>2. v # u
    BY <2>1 DEF NotAsked
  <2> QED BY <1>1, <2>1, <2>2
<1>4. Shaped(h)' /\ Paired(h)' /\ (h.kept.committed => h.kept.expected < Version)'
  BY DEF Good, Shaped, Paired, Version
<1>5. Heard(h)' = Heard(g)
  BY DEF Heard
<1>6. \A v \in Questions : Turned(v)' = Turned(v)
  BY DEF Turned, Version
<1>7. Named(h)'
  BY <1>1, <1>5, <1>6 DEF Good, Named
<1>8. \A v : Withdrawn(v) => Withdrawn(v)'
  BY <1>1 DEF Withdrawn
<1>9. Truthful(h)'
  BY <1>8 DEF Good, Truthful, TakenBack, Of
<1>10. ASSUME NEW v \in Questions
       PROVE  Plain(h, v)' /\ Closed(h, v)' /\ Spent(h, v)'
  <2>1. Plain(g, v) /\ Closed(g, v) /\ Spent(g, v)
    BY DEF Good
  <2>2. CASE v # u
    BY <1>1, <1>6, <2>1, <2>2 DEF Plain, Closed, Spent, Sent
  <2>3. CASE v = u
    <3>1. Spent(h, v)'
      BY <1>6, <2>1 DEF Spent
    <3>2. Plain(h, v)'
      BY <2>1, <2>3 DEF Plain, NotAsked
    <3>3. Closed(h, v)'
      BY <1>1, <1>6, <2>1, <2>3 DEF Closed, Sent, NotAsked
    <3> QED BY <3>1, <3>2, <3>3
  <2> QED BY <2>2, <2>3
<1> QED BY <1>2, <1>3, <1>4, <1>7, <1>9, <1>10 DEF OnceInv, Good

LEMMA CourtWithdrawsStep ==
  ASSUME OnceInv, NEW u \in Questions, CourtWithdraws(u)
  PROVE  OnceInv'
<1> DEFINE a == [asked[u] EXCEPT !.withdrawn = TRUE]
<1>1. asked[u] \in [head : Nat, withdrawn : BOOLEAN]
  BY DEF OnceInv, CourtTyped
<1>2. a \in [head : Nat, withdrawn : BOOLEAN] /\ a.head = asked[u].head /\ a.withdrawn
  BY <1>1
<1>3. asked' = [asked EXCEPT ![u] = a] /\ UNCHANGED <<h, court, spoken>>
  BY DEF CourtWithdraws
<1>4. asked[u].head # 0 /\ RulingEntries(u) = {}
  BY DEF CourtWithdraws, Open, Requested
<1>5. u \in Heard(h)
  BY <1>4 DEF OnceInv, Good, Named, NotAsked
<1> HIDE DEF a
<1> QED BY <1>2, <1>3, <1>4, <1>5, RequestIsGood DEF OnceInv

LEMMA InterruptStep ==
  ASSUME OnceInv, Interrupt
  PROVE  OnceInv'
<1> DEFINE g == Tidy(h)
           u == h.co.u
           a == [head |-> Of(h).head, withdrawn |-> FALSE]
<1>1. /\ h' = g /\ h.co.flight = "asking" /\ asked[u] = NotAsked
      /\ asked' = [asked EXCEPT ![u].head = Of(h).head] /\ UNCHANGED <<court, spoken>>
  BY DEF Interrupt, Becomes
<1>2. Good(g)
  BY TidyIsGood DEF OnceInv
<1>3. g.co = h.co /\ g.starting = h.starting
  BY <1>1 DEF OnceInv, Good, Shaped, HFields, Tidy
<1>4. Of(h).head \in Nat
  BY DEF OnceInv, Good, Shaped, Of
<1> HIDE DEF g
<1>5. CASE u \in Questions
  <2>1. u \in Heard(g)
    BY <1>3, <1>5 DEF OnceInv, Good, Named, Heard, NoUtterance, Questions
  <2>2. a \in [head : Nat, withdrawn : BOOLEAN] /\ ~a.withdrawn
    BY <1>4
  <2>3. asked' = [asked EXCEPT ![u] = a]
    <3> DEFINE n == Of(h).head
    <3>1. asked' = [asked EXCEPT ![u] = [asked[u] EXCEPT !.head = n]]
      BY <1>1
    <3> HIDE DEF n
    <3>2. \A y : [[head |-> 0, withdrawn |-> y] EXCEPT !.head = n] = [head |-> n, withdrawn |-> y]
      OBVIOUS
    <3>3. [NotAsked EXCEPT !.head = n] = [head |-> n, withdrawn |-> FALSE]
      BY <3>2 DEF NotAsked
    <3> QED BY <1>1, <3>1, <3>3 DEF n
  <2>4. ~asked[u].withdrawn
    BY <1>1 DEF NotAsked
  <2> HIDE DEF a
  <2> QED BY <1>1, <1>2, <1>3, <1>5, <2>1, <2>2, <2>3, <2>4, RequestIsGood
<1>6. CASE u \notin Questions
  <2>1. asked' = asked
    BY <1>1, <1>6 DEF OnceInv, CourtTyped
  <2> QED BY <1>1, <1>2, <2>1, BrowserSteps
<1> QED BY <1>5, <1>6

\* From here on the next number stands for the recording that is starting.
LEMMA RecordStep ==
  ASSUME OnceInv, BoundsAssumption, Record
  PROVE  OnceInv'
<1> DEFINE w == [h EXCEPT !.life = "preparing"]
           b == Fenced(w)
           c == [b EXCEPT !.from = h.view]
           d == [b EXCEPT !.life = "recoverable"]
           f == StartsRecording(h)
<1>1. /\ h' = Tidy(f) /\ spoken' = spoken + 1 /\ spoken < MaxQuestions
      /\ UNCHANGED <<asked, court>>
  BY DEF Record, Becomes
<1>2. Good(w)
  <2>1. Aside(h, w)
    BY DEF OnceInv, Good, Aside, Shaped, HFields
  <2> QED BY <2>1, AsideIsGood DEF OnceInv
<1>3. f \in {[b EXCEPT !.starting = "yes", !.from = h.view], d}
  BY DEF StartsRecording
<1>4. h.view \in Nat
  BY DEF OnceInv, Good, Shaped, CourtTyped, Version
<1> HIDE DEF w
<1>5. Good(b)
  BY <1>2, FencedIsGood
<1> HIDE DEF b, f
<1>6. Good(c) /\ Good(d)
  <2>1. Aside(b, c) /\ Aside(b, d)
    BY <1>4, <1>5 DEF Good, Aside, Shaped, HFields
  <2> QED BY <1>5, <2>1, AsideIsGood
<1>7. PICK e \in {c, d} : Good(e) /\ f \in {[e EXCEPT !.starting = "yes"], e}
  <2>1. [b EXCEPT !.starting = "yes", !.from = h.view] = [c EXCEPT !.starting = "yes"]
    OBVIOUS
  <2> QED BY <1>3, <1>6, <2>1
<1> DEFINE t == Tidy(e)
<1>8. Good(t)
  BY <1>7, TidyIsGood
<1>9. /\ DOMAIN h' = DOMAIN t /\ h'.rec = t.rec /\ h'.co = t.co /\ h'.kept = t.kept
      /\ h'.view = t.view /\ h'.clip = t.clip /\ h'.job = t.job /\ h'.from = t.from
  BY <1>1, <1>7 DEF Good, Shaped, HFields, Tidy
<1> HIDE DEF t, c, d
<1>10. spoken \in Nat /\ spoken' \in 0 .. MaxQuestions /\ spoken' \in Questions
  BY <1>1 DEF OnceInv, CourtTyped, Questions, BoundsAssumption
<1>11. CourtTyped' /\ CourtInv'
  BY <1>1, <1>10 DEF OnceInv, CourtTyped, CourtInv, RulingEntries, Version
<1>12. Heard(t) \subseteq Heard(h)'
  BY <1>1, <1>10 DEF Heard, Questions
<1>13. \A u \in Questions : Turned(u)' = Turned(u) /\ asked'[u] = asked[u]
  BY <1>1 DEF Turned, Version
<1>14. Shaped(h)' /\ Paired(h)' /\ (h.kept.committed => h.kept.expected < Version)'
  BY <1>1, <1>8, <1>9 DEF Good, Shaped, Paired, Version
<1>15. Named(h)'
  BY <1>8, <1>9, <1>10, <1>12, <1>13 DEF Good, Named
<1>16. Truthful(h)'
  BY <1>1, <1>8, <1>9 DEF Good, Truthful, TakenBack, Withdrawn, Of
<1>17. ASSUME NEW u \in Questions
       PROVE  Plain(h, u)' /\ Closed(h, u)' /\ Spent(h, u)'
  BY <1>8, <1>9, <1>13 DEF Good, Plain, Closed, Spent, Sent
<1> QED BY <1>11, <1>14, <1>15, <1>16, <1>17 DEF OnceInv, Good

LEMMA CloseStep ==
  ASSUME OnceInv, Close
  PROVE  OnceInv'
<1>1. ASSUME NEW u \in Questions
      PROVE  /\ u > spoken => asked[u] = NotAsked /\ ~Turned(u)
             /\ Turned(u) => asked[u].head = 0 \/ asked[u].withdrawn
  BY DEF OnceInv, CourtTyped, Good, Named, Heard, Closed, Sent, Questions
<1>2. Good(Closes)
  BY <1>1, AnewIsGood DEF OnceInv
<1> QED BY <1>2, BecomesGood DEF Close

\* The answer that the controller is given is the court's.
LEMMA AnsweredIsGood ==
  ASSUME NEW g, Good(g), g.co.flight = "asking", NEW a, a.is \in {"withdrawn", "ruling"},
         a.is = "withdrawn" => g.rec.u # NoUtterance /\ Withdrawn(g.rec.u)
  PROVE  /\ Good([g EXCEPT !.rec.answer = a])
         /\ [g EXCEPT !.rec.answer = a].co = g.co /\ [g EXCEPT !.rec.answer = a].rec.u = g.rec.u
<1> DEFINE f == [g EXCEPT !.rec.answer = a]
<1>1. /\ HFields \subseteq DOMAIN f /\ f.rec = [g.rec EXCEPT !.answer = a] /\ f.co = g.co
      /\ f.kept = g.kept /\ f.view = g.view /\ f.starting = g.starting /\ f.clip = g.clip
      /\ f.job = g.job /\ f.from = g.from
  BY DEF Good, Shaped, HFields
<1> HIDE DEF f
<1>2. /\ RecFields \subseteq DOMAIN f.rec /\ f.rec.u = g.rec.u /\ f.rec.head = g.rec.head
      /\ f.rec.finalHandled = g.rec.finalHandled /\ f.rec.failing = g.rec.failing
      /\ f.rec.complete = g.rec.complete /\ f.rec.reaction = g.rec.reaction
      /\ f.rec.answer = a
  BY <1>1 DEF Good, Shaped, RecFields
<1>3. Heard(f) = Heard(g)
  BY <1>1 DEF Heard
<1>4. Shaped(f) /\ Named(f) /\ Paired(f)
  BY <1>1, <1>2, <1>3 DEF Good, Shaped, Named, Paired
<1>5. Truthful(f)
  BY <1>1, <1>2 DEF Good, Truthful, TakenBack
<1>6. ASSUME NEW u \in Questions
      PROVE  Plain(f, u) /\ Closed(f, u) /\ Spent(f, u)
  BY <1>1, <1>2 DEF Good, Plain, Closed, Spent, Sent
<1> QED BY <1>1, <1>2, <1>4, <1>5, <1>6 DEF Good, f

LEMMA FlightAnsweredStep ==
  ASSUME OnceInv, FlightAnswered
  PROVE  OnceInv'
<1> DEFINE u == h.co.u
           current == h.view = asked[u].head
           withdrawn == [NoAnswer EXCEPT !.is = "withdrawn", !.u = u]
           grown == [h EXCEPT !.view = Version]
           b == [h EXCEPT !.rec.answer = withdrawn]
           c == [h EXCEPT !.view = Version, !.rec.answer = Answer(u)]
           d == [grown EXCEPT !.rec.answer = Answer(u)]
           g == IF ~current THEN FlightFails(h)
                ELSE IF asked[u].withdrawn
                THEN IF Orphaned(h) THEN Lands(h) ELSE Delivers(b)
                ELSE IF Orphaned(h) THEN Lands(grown) ELSE Delivers(c)
<1>1. /\ CourtTyped /\ CourtInv /\ Good(h) /\ UNCHANGED <<asked, court, spoken>>
      /\ h.co.flight = "asking" /\ u \in Questions
  BY DEF OnceInv, FlightAnswered, Requested
<1>2. Becomes(g)
  BY DEF FlightAnswered
<1>3. Good(FlightFails(h)) /\ Good(Lands(h))
  BY <1>1, FlightFailsIsGood, LandsIsGood
<1>4. ASSUME asked[u].withdrawn, ~Orphaned(h)
      PROVE  Good(Delivers(b))
  <2>1. withdrawn.is = "withdrawn"
    BY DEF NoAnswer
  <2>2. h.rec.u = u /\ u # NoUtterance /\ Withdrawn(u)
    BY <1>1, <1>4 DEF Orphaned, Withdrawn, Questions, NoUtterance
  <2> HIDE DEF withdrawn
  <2>3. Good(b) /\ b.co = h.co /\ b.rec.u = h.rec.u
    BY <1>1, <2>1, <2>2, AnsweredIsGood
  <2> HIDE DEF b
  <2> QED BY <1>1, <2>2, <2>3, DeliversIsGood
<1>5. Good(grown) /\ grown.co = h.co /\ grown.rec = h.rec
  <2>1. /\ Shaped(grown) /\ grown.view = Version /\ grown.rec = h.rec /\ grown.co = h.co
        /\ grown.kept = h.kept /\ grown.starting = h.starting /\ grown.clip = h.clip
        /\ grown.job = h.job
    BY <1>1 DEF Good, Shaped, HFields, CourtTyped, Version
  <2> HIDE DEF grown
  <2> QED BY <1>1, <2>1, GrowsIsGood
<1>6. Good(Lands(grown))
  <2> HIDE DEF grown
  <2> QED BY <1>5, LandsIsGood
<1>7. ASSUME ~Orphaned(h)
      PROVE  Good(Delivers(d))
  <2> DEFINE a == Answer(u)
  <2>1. a.is = "ruling"
    BY DEF Answer
  <2> HIDE DEF a, grown
  <2>2. Good(d) /\ d.co = h.co /\ d.rec.u = h.rec.u
    BY <1>1, <1>5, <2>1, AnsweredIsGood DEF a
  <2> HIDE DEF d
  <2> QED BY <1>1, <1>7, <2>2, DeliversIsGood DEF Orphaned
<1>8. c = d
  <2> DEFINE a == Answer(u)
  <2>1. [h EXCEPT !.view = Version, !.rec.answer = a] = [grown EXCEPT !.rec.answer = a]
    <3> HIDE DEF a
    <3> QED OBVIOUS
  <2> QED BY <2>1
<1>9. Good(g)
  <2> HIDE DEF b, c, d, grown, current
  <2> QED BY <1>3, <1>4, <1>6, <1>7, <1>8
<1> HIDE DEF g
<1> QED BY <1>1, <1>2, <1>9, BecomesGood

\* The browser on its own
LEMMA PlayerSteps ==
  ASSUME OnceInv,
         \/ Begin \/ Load \/ Prepare \/ Stop \/ SpeakerTest \/ Retry \/ Recover
         \/ \E objects \in BOOLEAN : Type(objects)
  PROVE  OnceInv'
<1>1. CourtTyped /\ CourtInv /\ Good(h)
  BY DEF OnceInv
<1> SUFFICES \E g : Good(g) /\ Becomes(g) /\ UNCHANGED <<court, asked, spoken>>
  BY BecomesGood
<1>2. CASE Begin
  BY <1>1, <1>2, PublishesIsGood DEF Begin
<1>3. CASE Load
  <2> DEFINE b == [h EXCEPT !.view = Version, !.baseline = Version, !.loading = TRUE]
  <2>1. /\ Shaped(b) /\ b.view = Version /\ b.rec = h.rec /\ b.co = h.co /\ b.kept = h.kept
        /\ b.starting = h.starting /\ b.clip = h.clip /\ b.job = h.job
    BY <1>1 DEF Good, Shaped, HFields, CourtTyped, Version
  <2>2. Becomes(Recovers(b, Version)) /\ UNCHANGED <<court, asked, spoken>>
    BY <1>3 DEF Load
  <2> HIDE DEF b
  <2> QED BY <1>1, <2>1, <2>2, GrowsIsGood, RecoversIsGood
<1>4. CASE Prepare
  BY <1>1, <1>4, PreparesIsGood DEF Prepare
<1>5. CASE Stop
  BY <1>1, <1>5, StopsRecordingIsGood DEF Stop
<1>6. CASE SpeakerTest
  BY <1>1, <1>6, SpeaksIsGood DEF SpeakerTest
<1>7. CASE Retry
  <2> DEFINE b == [h EXCEPT !.busy = "command", !.sent = h.view]
  <2>1. Aside(h, b)
    BY <1>1 DEF Good, Aside, Shaped, HFields
  <2>2. Becomes(b) /\ UNCHANGED <<court, asked, spoken>>
    BY <1>7 DEF Retry
  <2> HIDE DEF b
  <2> QED BY <1>1, <2>1, <2>2, AsideIsGood
<1>8. CASE Recover
  BY <1>1, <1>8, RecoversIsGood DEF Recover
<1>9. ASSUME NEW objects \in BOOLEAN, Type(objects)
      PROVE  \E g : Good(g) /\ Becomes(g) /\ UNCHANGED <<court, asked, spoken>>
  <2> DEFINE b == IF objects THEN Interrupts(h) ELSE h
             f == [Submits(b, NoUtterance) EXCEPT !.kept.by = "typed"]
  <2>1. Good(b) /\ b.kept = h.kept
    BY <1>1, InterruptsIsGood
  <2>2. Becomes(f) /\ UNCHANGED <<court, asked, spoken>> /\ ~Pending(h)
    BY <1>9 DEF Type
  <2> HIDE DEF b
  <2>3. Good(f)
    BY <2>1, <2>2, TypesIsGood DEF Pending
  <2> HIDE DEF f
  <2> QED BY <2>2, <2>3
<1> QED BY <1>2, <1>3, <1>4, <1>5, <1>6, <1>7, <1>8, <1>9

\* What the browser is told
LEMMA AnswerSteps ==
  ASSUME OnceInv,
         \/ Partial \/ Final \/ ServiceFails \/ JobErrs
         \/ CommandAnswered \/ FlightLost \/ RecoveryAnswered \/ RecoveryFailed
         \/ \E refreshed \in BOOLEAN : CommandFailed(refreshed)
         \/ \E ok \in BOOLEAN : ContinuationAnswered(ok)
  PROVE  OnceInv'
<1>1. CourtTyped /\ CourtInv /\ Good(h)
  BY DEF OnceInv
<1> SUFFICES \E g : Good(g) /\ Becomes(g) /\ UNCHANGED <<court, asked, spoken>>
  BY BecomesGood
<1>2. CASE Partial
  BY <1>1, <1>2, HearsPartialIsGood DEF Partial, Recording
<1>3. CASE Final
  BY <1>1, <1>3, HearsFinalIsGood DEF Final, Recording
<1>4. CASE ServiceFails
  BY <1>1, <1>4, DisconnectsIsGood, ServiceErrsIsGood, DiesIsGood, UtteranceIsCancelledIsGood
     DEF ServiceFails
<1>5. CASE JobErrs
  BY <1>1, <1>5, JobFailsIsGood DEF JobErrs
<1>6. CASE CommandAnswered
  BY <1>1, <1>6, CommandAnswersIsGood DEF CommandAnswered
<1>7. CASE FlightLost
  BY <1>1, <1>7, FlightFailsIsGood DEF FlightLost
<1>8. CASE RecoveryAnswered
  <2> DEFINE a == Answer(court[Version].of)
  <2>1. a.view = Version
    BY DEF Answer
  <2>2. /\ Becomes(RecoveryEnds(h)) \/ Becomes(RecoveryAnswers(h, a))
        /\ UNCHANGED <<court, asked, spoken>>
    BY <1>8 DEF RecoveryAnswered
  <2> HIDE DEF a
  <2> QED BY <1>1, <2>1, <2>2, RecoveryEndsIsGood, RecoveryAnswersIsGood
<1>9. CASE RecoveryFailed
  BY <1>1, <1>9, RecoveryEndsIsGood DEF RecoveryFailed
<1>10. CASE \E refreshed \in BOOLEAN : CommandFailed(refreshed)
  BY <1>1, <1>10, CommandFailsIsGood DEF CommandFailed
<1>11. ASSUME NEW ok \in BOOLEAN, ContinuationAnswered(ok)
       PROVE  \E g : Good(g) /\ Becomes(g) /\ UNCHANGED <<court, asked, spoken>>
  <2> DEFINE b == [h EXCEPT !.busy = "no"]
  <2>1. Aside(h, b)
    BY <1>1 DEF Good, Aside, Shaped, HFields
  <2>2. Becomes(IF ok THEN ContinuationAnswers(h, Version) ELSE b)
        /\ UNCHANGED <<court, asked, spoken>>
    BY <1>11 DEF ContinuationAnswered
  <2> HIDE DEF b
  <2> QED BY <1>1, <2>1, <2>2, AsideIsGood, ContinuationAnswersIsGood
<1> QED BY <1>2, <1>3, <1>4, <1>5, <1>6, <1>7, <1>8, <1>9, <1>10, <1>11

\* What the browser goes on with
LEMMA DeviceSteps ==
  ASSUME OnceInv, Device
  PROVE  OnceInv'
<1>1. CourtTyped /\ CourtInv /\ Good(h)
  BY DEF OnceInv
<1> SUFFICES \E g : /\ Good(g)
                    /\ \/ Becomes(g)
                       \/ h' = Tidy(g)
                       \/ h' = g
                    /\ UNCHANGED <<court, asked, spoken>>
  BY BecomesGood, BrowserSteps
<1>2. CASE Drain
  BY <1>1, <1>2, AdoptsIsGood DEF Drain
<1>3. CASE GoOn
  <2> DEFINE b == [h EXCEPT !.after = NoUnit]
  <2>1. Aside(h, b)
    BY <1>1 DEF Good, Aside, Shaped, HFields
  <2>2. /\ \/ h' = Speaks(b, "resume", <<Turn(h.after.of)>>)
           \/ h' = Recovers(b, h.after.of)
        /\ UNCHANGED <<court, asked, spoken>>
    BY <1>3 DEF GoOn
  <2> HIDE DEF b
  <2> QED BY <1>1, <2>1, <2>2, AsideIsGood, SpeaksIsGood, RecoversIsGood
<1>4. CASE FinalTimesOut
  BY <1>1, <1>4, FinalMissesIsGood DEF FinalTimesOut
<1>5. CASE ClipActivated
  BY <1>1, <1>5, ClipActivatesIsGood DEF ClipActivated
<1>6. CASE JobSounds
  BY <1>1, <1>6, SoundsIsGood DEF JobSounds
<1>7. CASE JobCompletes
  BY <1>1, <1>7, JobEndsIsGood DEF JobCompletes, NoJob
<1>8. CASE \E ok \in BOOLEAN : PrepareEnds(ok)
  BY <1>1, <1>8, PreparedIsGood DEF PrepareEnds
<1>9. ASSUME NEW ok \in BOOLEAN, MicStarts(ok)
      PROVE  \E g : Good(g) /\ Becomes(g) /\ UNCHANGED <<court, asked, spoken>>
  <2> DEFINE b == [h EXCEPT !.starting = "no", !.from = 0]
  <2>1. Aside(h, b)
    BY <1>1 DEF Good, Aside, Shaped, HFields
  <2>2. /\ Becomes(IF ok THEN RecordingStarts(h, spoken) ELSE Recoverable(b))
        /\ h.starting # "no" /\ UNCHANGED <<court, asked, spoken>>
    BY <1>9 DEF MicStarts
  <2> HIDE DEF b
  <2> QED BY <1>1, <2>1, <2>2, AsideIsGood, RecoverableIsGood, RecordingStartsIsGood
<1>10. CASE \E ok \in BOOLEAN : MicStopped(ok)
  BY <1>1, <1>10, MicStopsIsGood DEF MicStopped
<1>11. CASE \E ok \in BOOLEAN : SpeechActivated(ok)
  BY <1>1, <1>11, SpeechActivatesIsGood DEF SpeechActivated
<1> QED BY <1>2, <1>3, <1>4, <1>5, <1>6, <1>7, <1>8, <1>9, <1>10, <1>11 DEF Device

\* Whatever the court, the player, the service and the devices do keeps the invariant.
LEMMA StepIsGood ==
  ASSUME OnceInv, BoundsAssumption, [Next]_vars
  PROVE  OnceInv'
<1>1. CASE CourtStep
  BY <1>1, CourtCommitsStep, CourtRulesStep, CourtSpeaksStep, CourtWithdrawsStep DEF CourtStep
<1>2. CASE Player
  BY <1>2, PlayerSteps, RecordStep, CloseStep DEF Player
<1>3. CASE Service
  BY <1>3, AnswerSteps DEF Service
<1>4. CASE Answers
  BY <1>4, AnswerSteps, InterruptStep, FlightAnsweredStep DEF Answers
<1>5. CASE Device
  BY <1>5, DeviceSteps
<1>6. CASE UNCHANGED vars
  BY <1>6, BrowserSteps DEF vars, OnceInv
<1> QED BY <1>1, <1>2, <1>3, <1>4, <1>5, <1>6 DEF Next

LEMMA OnceInvIsEnough ==
  ASSUME OnceInv
  PROVE  PutToCourtOnce
<1> SUFFICES ASSUME NEW u \in Questions
             PROVE  Cardinality({v \in 1 .. Version :
                                   court[v].of = u /\ court[v].kind # "answer"}) <= 1
  BY DEF PutToCourtOnce
<1> DEFINE S == {v \in 1 .. Version : court[v].of = u /\ court[v].kind # "answer"}
<1>1. \A v, w \in S : v = w
  BY DEF OnceInv, CourtInv
<1> HIDE DEF S
<1>2. Cardinality(S) <= 1
  <2>1. CASE S = {}
    <3>1. Cardinality(S) = 0
      BY <2>1, FS_EmptySet
    <3> QED BY <3>1
  <2>2. CASE S # {}
    <3>1. PICK v \in S : TRUE
      BY <2>2
    <3>2. S = {v}
      BY <1>1, <3>1
    <3>3. Cardinality(S) = 1
      BY <3>2, FS_Singleton
    <3> QED BY <3>3
  <2> QED BY <2>1, <2>2
<1> QED BY <1>2 DEF S

\* What the player said once is on the record at most once, whatever becomes of the
\* objection to it, of its request and of the answer to that, in a hearing of any length
\* and with any number of faults.
THEOREM SpokenHearingPutsOnce == Spec => []PutToCourtOnce
<1>1. Init => OnceInv
  BY InitIsGood, BoundsAssumption
<1>2. OnceInv /\ [Next]_vars => OnceInv'
  BY StepIsGood, BoundsAssumption
<1>3. OnceInv => PutToCourtOnce
  BY OnceInvIsEnough
<1> QED BY <1>1, <1>2, <1>3, PTL DEF Spec
=============================================================================
