--------------------- MODULE SpeechTranscriptionProofs ----------------------
(***************************************************************************)
(* That the safety properties of SpeechTranscription hold for any number  *)
(* of utterances, frames, credits, recognizers and faults.                *)
(*                                                                         *)
(* A handler is a function from the service, or the browser, before to    *)
(* the one after, so the invariant is an operator of both, SpeechInv, and *)
(* each handler has a lemma that it keeps it.  Its last argument is the   *)
(* set of utterances for which the parts that break off in the middle of  *)
(* a handler hold: what a handler does first takes its utterance out of   *)
(* the set, and what it does in the end brings it back.  The sections     *)
(* below are, in order: the invariant; facts about queues, batches and    *)
(* the line of events to the browser; what a change must leave alone for  *)
(* each part of the invariant; the handlers; that an end which is taken   *)
(* up is answered, for which each handler has a second lemma, that it     *)
(* Progresses; the steps; the theorems.                                   *)
(***************************************************************************)
EXTENDS SpeechTranscription, TLAPS, FiniteSetTheorems, SequenceTheorems, WellFoundedInduction

-----------------------------------------------------------------------------
(* Types *)

Ids        == Utterances \cup {Nobody}
Frames     == Utterances \X Nat
Kinds      == {"partial", "final", "ended", "cancelled"}
Spoken     == [kind : Kinds, id : Utterances] \cup [kind : {"error"}, id : Ids]
FlowEvents == [kind : {"flow"}, id : Ids, through : Int, available : Int]
Events     == Spoken \cup FlowEvents
Some(S)    == {q \in Seq(S) : q # <<>>}
Batches    == [id : {Nobody}, events : Some(Events), cut : BOOLEAN]
                \cup [id : Utterances, events : Some(Spoken), cut : BOOLEAN]
Orders     == [kind : {"end", "cancel"}, id : Utterances]
Messages   == [kind : {"start", "binary"}, id : Utterances] \cup Orders
                \cup [kind : {"header"}, id : Utterances, sequence : Nat]

UtteranceRecords ==
  [status    : {"none", "listening", "finalizing", "final", "cancelled"},
   next      : Nat,
   pending   : Int,
   heard     : Nat,
   reason    : {"none", "client_end", "vad_end"},
   finalizer : {"none", "running", "late", "done"}]

Statuses  == {"none", "listening", "finalizing", "final", "cancelled", "failed"}
Terminals == {"none", "final", "cancelled"}
Sessions  == {"none", "creating", "open", "cancelling", "released", "abandoned"}
Fences    == {"none", "receive", "worker", "finalizer", "idle"}

ServiceFields ==
  {"closed", "active", "utterance", "terminal", "header", "frames", "reserved", "credited",
   "through", "worker", "creating", "fence", "outbound", "current", "leases", "lane",
   "session", "overrun", "outgoing"}

IsService(s) ==
  /\ ServiceFields \subseteq DOMAIN s
  /\ s.closed \in BOOLEAN /\ s.overrun \in BOOLEAN
  /\ s.active \in Ids /\ s.creating \in Ids /\ s.credited \in Ids
  /\ s.through \in Int
  /\ s.utterance \in [Utterances -> UtteranceRecords]
  /\ s.terminal \in [Utterances -> Terminals]
  /\ s.session \in [Utterances -> Sessions]
  /\ s.fence \in [Utterances -> Fences]
  /\ s.header \in Frames \cup {NoFrame}
  /\ s.worker \in Frames \cup {NoFrame}
  /\ s.frames \in Seq(Frames)
  /\ s.reserved \subseteq Frames /\ IsFiniteSet(s.reserved)
  /\ s.outbound \in Seq(Batches)
  /\ s.current \in [id : Ids, events : Seq(Spoken), cut : BOOLEAN]
  /\ s.outgoing \in Seq(Events)

BrowserFields ==
  {"state", "status", "active", "sent", "debits", "watermark", "available", "recording",
   "forwarding", "outgoing"}

IsBrowser(b) ==
  /\ BrowserFields \subseteq DOMAIN b
  /\ b.state \in {"ready", "closed"}
  /\ b.status \in [Utterances -> Statuses]
  /\ b.active \in Ids /\ b.recording \in Ids
  /\ b.sent \in [Utterances -> Nat]
  /\ b.debits \subseteq Frames /\ IsFiniteSet(b.debits)
  /\ b.watermark \in [Utterances -> Int]
  /\ b.available \in Int
  /\ b.forwarding \in BOOLEAN
  /\ b.forwarding => b.recording # Nobody
  /\ b.outgoing \in Seq(Messages)

-----------------------------------------------------------------------------
(* The recognizers *)

Unborn(s, u) == s.session[u] \in {"none", "creating"}

HoldsRecognizer(s, u) ==
  /\ s.session[u] \in {"creating", "open", "cancelling", "abandoned"} => u \in s.leases
  /\ s.utterance[u].finalizer \in {"running", "late"} => s.session[u] \in {"open", "cancelling"}
  /\ ~s.closed /\ s.worker[1] = u =>
       s.session[u] \in {"open", "cancelling"} /\ s.utterance[u].finalizer = "none"
  /\ s.creating = u => s.session[u] = "creating" /\ s.active = Nobody
  /\ s.session[u] = "creating" => s.creating = u
  /\ s.active = u =>
       /\ s.session[u] \in {"open", "released"}
       /\ s.utterance[u].status \in {"listening", "finalizing"}
  /\ s.fence[u] # "none" => s.active # u

StillSilent(s, u) ==
  Unborn(s, u) =>
    /\ s.utterance[u] = Fresh
    /\ s.terminal[u] = "none" /\ s.fence[u] = "none"
    /\ s.worker[1] # u /\ s.header[1] # u /\ s.credited # u
    /\ \A i \in 1 .. Len(s.frames) : s.frames[i][1] # u

HeardInOrder(s, u) ==
  LET utterance == s.utterance[u]
      from == IF s.worker[1] = u THEN s.worker[2] + 1 ELSE utterance.heard
  IN
  s.active = u =>
    /\ utterance.pending = utterance.next - utterance.heard /\ utterance.heard <= utterance.next
    /\ s.worker[1] = u => s.worker[2] \in utterance.heard .. utterance.next - 1
    /\ \A i \in 1 .. Len(s.frames) : s.frames[i][1] = u =>
         /\ s.frames[i][2] \in from .. utterance.next - 1
         /\ \A j \in 1 .. Len(s.frames) :
              i < j /\ s.frames[j][1] = u => s.frames[i][2] < s.frames[j][2]
    /\ utterance.finalizer # "none" =>
         utterance.pending = 0 /\ utterance.status = "finalizing" /\ s.header[1] # u
    /\ s.header[1] = u => s.header[2] = utterance.next

IsWhole(s, u) ==
  s.terminal[u] = "final" =>
    s.active # u /\ s.worker[1] # u /\ s.utterance[u].heard = s.utterance[u].next

WorkInv(s, open) ==
  /\ s.closed => s.active = Nobody /\ s.creating = Nobody
  /\ s.active \in open =>
       s.session[s.active] = "open" /\ s.utterance[s.active].finalizer # "late"
  /\ \A f \in s.reserved : f[2] < s.utterance[f[1]].next
  /\ \A u \in Utterances :
       HoldsRecognizer(s, u) /\ StillSilent(s, u) /\ IsWhole(s, u)
  /\ \A u \in open : HeardInOrder(s, u)

-----------------------------------------------------------------------------
(* What is sent of an utterance *)

IsFenced(s, t, u) ==
  /\ t[u] \in {"open", "ended"}
  /\ ~s.closed =>
       /\ s.active = u \/ Unborn(s, u) =>
            /\ t[u] = "open"
            /\ s.current.id = u => ~Ends(s.current)
            /\ \A i \in 1 .. Len(s.outbound) : s.outbound[i].id = u => ~Ends(s.outbound[i])
       /\ t[u] = "ended" =>
            s.current.id # u /\ \A i \in 1 .. Len(s.outbound) : s.outbound[i].id # u
       /\ s.current.id = u /\ Ends(s.current) => \A i \in 1 .. Len(s.outbound) : s.outbound[i].id # u
       /\ \A i, j \in 1 .. Len(s.outbound) :
            i < j /\ s.outbound[i].id = u /\ s.outbound[j].id = u => ~Ends(s.outbound[i])

FenceInv(s, t) == DOMAIN t = Utterances /\ \A u \in Utterances : IsFenced(s, t, u)

\* The first batch that waits is about an utterance, or it would be out.
Sorted(s) ==
  s.current = NoBatch /\ s.outbound # <<>> => s.outbound[1].id # Nobody

-----------------------------------------------------------------------------
(* What the browser sends *)

\* The frames of u that are sent now will be accepted, unless something fails.
Awaited(s, b, u) ==
  \/ s.session[u] = "none" /\ \E i \in 1 .. Len(b.outgoing) :
       b.outgoing[i].kind = "start" /\ b.outgoing[i].id = u
  \/ s.session[u] = "creating"
  \/ Listening(s, u)

Due(s, u) == s.utterance[u].next + (IF s.header[1] = u THEN 1 ELSE 0)

\* w counts the frames up to each message
Counts(s, b, u, w) ==
  LET c == b.outgoing
  IN
  /\ w \in [1 .. Len(c) + 1 -> 0 .. b.sent[u]]
  /\ w[1] = Due(s, u) /\ w[Len(c) + 1] = b.sent[u]
  /\ \A i \in 1 .. Len(c) :
       IF c[i].kind = "header" /\ c[i].id = u
         THEN c[i].sequence = w[i] /\ w[i + 1] = w[i] + 1
         ELSE w[i + 1] = w[i]
  /\ \A i \in 1 .. Len(c) : c[i].kind = "end" /\ c[i].id = u => w[i] = b.sent[u]

IsTracked(s, b, u) == \E w \in [1 .. Len(b.outgoing) + 1 -> 0 .. b.sent[u]] : Counts(s, b, u, w)

IsUnknown(s, b, u) ==
  /\ s.session[u] = "none"
  /\ b.sent[u] = 0
  /\ b.recording # u
  /\ \A i \in 1 .. Len(b.outgoing) : b.outgoing[i].id # u

Ended(s, b, u) ==
  \/ s.utterance[u].reason = "client_end"
  \/ \E i \in 1 .. Len(b.outgoing) : b.outgoing[i].kind = "end" /\ b.outgoing[i].id = u

IsCalled(s, b, u) ==
  /\ b.status[u] = "none" => IsUnknown(s, b, u)
  /\ \A i \in 1 .. Len(b.outgoing) :
       b.outgoing[i].kind = "start" /\ b.outgoing[i].id = u =>
         /\ s.session[u] = "none"
         /\ \A j \in 1 .. Len(b.outgoing) : b.outgoing[j].id = u => i <= j
  /\ Ended(s, b, u) => ~(b.forwarding /\ b.recording = u)
  /\ s.utterance[u].reason = "client_end" =>
       ~Listening(s, u) /\ s.header[1] # u /\ s.utterance[u].next = b.sent[u]
  /\ s.utterance[u].next <= b.sent[u]
  /\ s.active = u /\ s.header[1] = u => s.utterance[u].next < b.sent[u]

ChannelInv(s, b, tracked) ==
  /\ b.state # "ready" => b.outgoing = <<>>
  /\ b.state = "ready" =>
       /\ ~s.closed
       /\ s.header # NoFrame => b.outgoing # <<>> /\ b.outgoing[1].kind = "binary"
       /\ \A i \in 1 .. Len(b.outgoing) : b.outgoing[i].kind = "header" =>
            i < Len(b.outgoing) /\ b.outgoing[i + 1].kind = "binary"
       /\ \A u \in Utterances : IsCalled(s, b, u)
       /\ \A u \in tracked : Awaited(s, b, u) => IsTracked(s, b, u)

-----------------------------------------------------------------------------
(* Credit *)

\* The frames under way that may yet be accepted, and those that are
UnderWay(s, b) ==
  {f \in Frames : /\ Unborn(s, f[1]) \/ s.active = f[1]
                  /\ s.utterance[f[1]].next <= f[2] /\ f[2] < b.sent[f[1]]}

Taken(s, b) == s.reserved \cup UnderWay(s, b)

\* What the browser has yet to hear, but for the batch being sent
Line(s) == s.outgoing \o [i \in 1 .. Len(s.outbound) |-> s.outbound[i].events[1]]

IsFlow(e) == e.kind = "flow"

\* The frames that the browser will not count on its own after the k-th of the line
Uncounted(s, b, line, k) ==
  {f \in Taken(s, b) :
     \/ f \notin b.debits
     \/ \E j \in 1 .. k : IsFlow(line[j]) /\ line[j].id = f[1] /\ line[j].through >= f[2]}

IsCredible(s, b, line, k) ==
  LET e == line[k]
  IN
  /\ Cardinality(Uncounted(s, b, line, k)) + e.available <= InputFrames
  /\ e.id # Nobody =>
       /\ b.status[e.id] # "none"
       /\ b.watermark[e.id] <= e.through /\ e.through < s.utterance[e.id].next
       /\ \A j \in 1 .. k :
            IsFlow(line[j]) /\ line[j].id = e.id => line[j].through <= e.through

CreditInv(s, b) ==
  /\ s.overrun = FALSE
  /\ s.credited # Nobody => s.through = s.utterance[s.credited].next - 1
  /\ s.active # Nobody => s.credited = s.active
  /\ b.state = "ready" =>
       /\ s.credited # Nobody => b.status[s.credited] # "none"
       /\ UnderWay(s, b) \subseteq b.debits
       /\ Cardinality(Taken(s, b)) <= InputFrames
       /\ Cardinality(Taken(s, b) \ b.debits) + b.available <= InputFrames
       /\ \A u \in Utterances : b.watermark[u] < s.utterance[u].next
       /\ \A k \in 1 .. Len(Line(s)) : IsFlow(Line(s)[k]) => IsCredible(s, b, Line(s), k)

-----------------------------------------------------------------------------
SpeechInv(s, b, t, settled) ==
  /\ IsService(s) /\ IsBrowser(b)
  /\ WorkInv(s, settled)
  /\ FenceInv(s, t)
  /\ ChannelInv(s, b, settled)
  /\ CreditInv(s, b)

TranscriptionInv ==
  SpeechInv(service, browser, told, Utterances) /\ Sorted(service)

-----------------------------------------------------------------------------
(* The places that are kept *)

LEMMA LeastNumber ==
  ASSUME NEW S, S \subseteq Nat, S # {}
  PROVE  \E x \in S : \A y \in S : x <= y
<1>1. PICK x \in S : \A y \in S : ~ (<<y, x>> \in OpToRel(<, Nat))
  BY NatLessThanWellFounded, WFMin
<1>2. ASSUME NEW y \in S, ~ (x <= y)
      PROVE  FALSE
  <2>1. <<y, x>> \in Nat \X Nat /\ y < x
    BY <1>2
  <2>2. <<y, x>> \in OpToRel(<, Nat)
    BY <2>1 DEF OpToRel
  <2> QED BY <1>1, <2>2
<1> QED BY <1>2

Below(places, i) == {j \in places : j < i}

HasRank(places, k) == \E i \in places : Cardinality(Below(places, i)) = k - 1

LEMMA PlacesAreFinite ==
  ASSUME NEW n \in Nat, NEW places \in SUBSET (1 .. n)
  PROVE  /\ IsFiniteSet(places) /\ Cardinality(places) \in Nat
         /\ \A i : IsFiniteSet(Below(places, i)) /\ Cardinality(Below(places, i)) \in Nat
<1>1. IsFiniteSet(1 .. n)
  BY FS_Interval
<1>2. \A S \in SUBSET (1 .. n) : IsFiniteSet(S) /\ Cardinality(S) \in Nat
  BY <1>1, FS_Subset, FS_CardinalityType
<1> QED BY <1>2 DEF Below

LEMMA PlacesHaveRanks ==
  ASSUME NEW n \in Nat, NEW places \in SUBSET (1 .. n)
  PROVE  \A k \in 1 .. Cardinality(places) : HasRank(places, k)
<1> DEFINE Fails(m) == \E I \in SUBSET (1 .. m) : \E k \in 1 .. Cardinality(I) : ~HasRank(I, k)
           S == {m \in Nat : Fails(m)}
<1>1. SUFFICES S = {}
  BY <1>1
<1>2. SUFFICES ASSUME S # {} PROVE FALSE
  OBVIOUS
<1>3. PICK m \in S : \A l \in S : m <= l
  BY <1>2, LeastNumber
<1>4. PICK I \in SUBSET (1 .. m) : \E k \in 1 .. Cardinality(I) : ~HasRank(I, k)
  BY <1>3
<1>5. PICK k \in 1 .. Cardinality(I) : ~HasRank(I, k)
  BY <1>4
<1>6. m \in Nat /\ IsFiniteSet(I) /\ Cardinality(I) \in Nat
  BY <1>3, PlacesAreFinite
<1>7. m # 0
  <2>1. CASE m = 0
    <3>1. I = {}
      BY <2>1
    <3> QED BY <1>5, <3>1, FS_EmptySet
  <2> QED BY <2>1
<1>8. m - 1 \in Nat /\ m - 1 \notin S
  BY <1>3, <1>6, <1>7
<1>9. m \in I
  BY <1>6, <1>5, <1>8
<1> DEFINE J == I \ {m}
<1>10. J \in SUBSET (1 .. m - 1)
  BY <1>6
<1>11. Cardinality(J) = Cardinality(I) - 1
  BY <1>6, <1>9, FS_RemoveElement
<1>12. CASE k = Cardinality(I)
  <2>1. \A j \in I : j \in Int /\ (j < m <=> j # m)
    BY <1>4, <1>6
  <2>2. Below(I, m) = J
    BY <2>1 DEF Below
  <2> QED BY <1>5, <1>9, <1>11, <1>12, <2>2 DEF HasRank
<1>13. CASE k # Cardinality(I)
  <2>1. k \in 1 .. Cardinality(J)
    BY <1>6, <1>11, <1>13
  <2>2. HasRank(J, k)
    BY <1>8, <1>10, <2>1
  <2>3. PICK i \in J : Cardinality(Below(J, i)) = k - 1
    BY <2>2 DEF HasRank
  <2>4. Below(I, i) = Below(J, i)
    BY <1>6, <1>10 DEF Below
  <2> QED BY <1>5, <2>3, <2>4 DEF HasRank
<1> QED BY <1>12, <1>13

\* Where each entry of what is kept comes from
Origins(kept, queue, places, h) ==
  /\ \A k \in 1 .. Len(kept) : h[k] \in places /\ kept[k] = queue[h[k]]
  /\ \A j, k \in 1 .. Len(kept) : j < k => h[j] < h[k]

LEMMA KeptIs ==
  ASSUME NEW T, NEW queue \in Seq(T), NEW places \in SUBSET (1 .. Len(queue))
  PROVE  /\ Kept(queue, places) \in Seq(T)
         /\ \E h \in [1 .. Len(Kept(queue, places)) -> places] :
              Origins(Kept(queue, places), queue, places, h)
<1> DEFINE n == Cardinality(places)
           at(k) == CHOOSE i \in places : Cardinality(Below(places, i)) = k - 1
           h == [k \in 1 .. n |-> at(k)]
<1>0. Len(queue) \in Nat
  OBVIOUS
<1>1. Len(queue) \in Nat /\ n \in Nat
  BY <1>0, PlacesAreFinite
<1>2. \A k \in 1 .. n : at(k) \in places /\ Cardinality(Below(places, at(k))) = k - 1
  BY <1>1, PlacesHaveRanks DEF HasRank
<1>3. Kept(queue, places) = [k \in 1 .. n |-> queue[at(k)]]
  BY DEF Kept, Below
<1> HIDE DEF at
<1>4. \A k \in 1 .. n : queue[at(k)] \in T
  <2>1. \A i \in 1 .. Len(queue) : queue[i] \in T
    OBVIOUS
  <2> QED BY <1>2, <2>1
<1>5. Kept(queue, places) \in Seq(T) /\ Len(Kept(queue, places)) = n
  BY <1>1, <1>3, <1>4
<1>6. ASSUME NEW j \in 1 .. n, NEW k \in 1 .. n, j < k
      PROVE  at(j) < at(k)
  <2>1. SUFFICES ASSUME ~(at(j) < at(k)) PROVE FALSE
    OBVIOUS
  <2>2. Below(places, at(k)) \in SUBSET Below(places, at(j))
    <3>1. at(j) \in places /\ at(k) \in places /\ \A i \in places : i \in Int
      BY <1>2, <1>6
    <3>2. at(j) \in Int /\ at(k) \in Int
      BY <3>1
    <3>3. at(k) <= at(j)
      BY <2>1, <3>2
    <3>4. \A i \in places : i < at(k) => i < at(j)
      BY <3>1, <3>2, <3>3
    <3> QED BY <3>4 DEF Below
  <2>3. Cardinality(Below(places, at(k))) <= Cardinality(Below(places, at(j)))
    BY <1>1, <2>2, PlacesAreFinite, FS_Subset
  <2> QED BY <1>2, <1>6, <2>3
<1>7. Origins(Kept(queue, places), queue, places, h)
  BY <1>2, <1>3, <1>5, <1>6 DEF Origins
<1>8. h \in [1 .. Len(Kept(queue, places)) -> places]
  BY <1>2, <1>5
<1> QED BY <1>5, <1>7, <1>8

-----------------------------------------------------------------------------
(* Queues *)

\* The entries of r are entries of q, in their order.
IsPartOf(r, q) ==
  /\ \A k \in 1 .. Len(r) : \E i \in 1 .. Len(q) : r[k] = q[i]
  /\ \A j, k \in 1 .. Len(r) : j < k =>
       \E i, l \in 1 .. Len(q) : i < l /\ r[j] = q[i] /\ r[k] = q[l]

LEMMA OriginsMakePart ==
  ASSUME NEW T, NEW q \in Seq(T), NEW r \in Seq(T), NEW places \in SUBSET (1 .. Len(q)), NEW h,
         Origins(r, q, places, h)
  PROVE  IsPartOf(r, q)
  BY DEF Origins, IsPartOf

LEMMA FramesWithoutIs ==
  ASSUME NEW frames \in Seq(Frames), NEW u
  PROVE  /\ FramesWithout(frames, u) \in Seq(Frames)
         /\ IsPartOf(FramesWithout(frames, u), frames)
         /\ \A k \in 1 .. Len(FramesWithout(frames, u)) : FramesWithout(frames, u)[k][1] # u
<1> DEFINE places == {i \in 1 .. Len(frames) : frames[i][1] # u}
           r == FramesWithout(frames, u)
<1>1. r = Kept(frames, places)
  BY DEF FramesWithout
<1>2. places \in SUBSET (1 .. Len(frames))
  OBVIOUS
<1>2a. \A i \in places : frames[i][1] # u
  OBVIOUS
<1> HIDE DEF r, places
<1>3. r \in Seq(Frames) /\ \E h \in [1 .. Len(r) -> places] : Origins(r, frames, places, h)
  BY <1>1, <1>2, KeptIs
<1>4. PICK h \in [1 .. Len(r) -> places] : Origins(r, frames, places, h)
  BY <1>3
<1>5. IsPartOf(r, frames)
  BY <1>2, <1>3, <1>4, OriginsMakePart
<1>6. \A k \in 1 .. Len(r) : r[k][1] # u
  BY <1>2a, <1>4 DEF Origins
<1> QED BY <1>3, <1>5, <1>6 DEF r

\* The flow events of l are flow events of m, in their order.
Embeds(l, m) ==
  \E h \in [1 .. Len(l) -> Nat] :
    \A k \in 1 .. Len(l) : IsFlow(l[k]) =>
      /\ h[k] \in 1 .. Len(m) /\ m[h[k]] = l[k]
      /\ \A j \in 1 .. k : IsFlow(l[j]) => h[j] <= h[k]

\* The line of what was sent and of the batches that wait
LineOf(outgoing, outbound) == outgoing \o [i \in 1 .. Len(outbound) |-> outbound[i].events[1]]

LEMMA LineOfIs ==
  ASSUME NEW outgoing \in Seq(Events), NEW outbound \in Seq(Batches)
  PROVE  /\ Len(outgoing) \in Nat /\ Len(outbound) \in Nat
         /\ Len(LineOf(outgoing, outbound)) = Len(outgoing) + Len(outbound)
         /\ \A k \in 1 .. Len(outgoing) : LineOf(outgoing, outbound)[k] = outgoing[k]
         /\ \A k \in 1 .. Len(outgoing) + Len(outbound) : k > Len(outgoing) =>
              /\ k - Len(outgoing) \in 1 .. Len(outbound)
              /\ LineOf(outgoing, outbound)[k] = outbound[k - Len(outgoing)].events[1]
<1> DEFINE firsts == [i \in 1 .. Len(outbound) |-> outbound[i].events[1]]
<1>1. Len(outgoing) \in Nat /\ Len(outbound) \in Nat
  OBVIOUS
<1>2. firsts \in Seq({firsts[i] : i \in 1 .. Len(outbound)}) /\ Len(firsts) = Len(outbound)
  BY <1>1
<1>3. \A i \in 1 .. Len(outbound) : firsts[i] = outbound[i].events[1]
  OBVIOUS
<1>4. LineOf(outgoing, outbound) = outgoing \o firsts
  BY DEF LineOf
<1> HIDE DEF firsts
<1>5. /\ Len(outgoing \o firsts) = Len(outgoing) + Len(outbound)
      /\ \A k \in 1 .. Len(outgoing) : (outgoing \o firsts)[k] = outgoing[k]
      /\ \A k \in 1 .. Len(outgoing) + Len(outbound) : k > Len(outgoing) =>
            (outgoing \o firsts)[k] = firsts[k - Len(outgoing)]
  BY <1>1, <1>2
<1>6. \A k \in 1 .. Len(outgoing) + Len(outbound) : k > Len(outgoing) =>
            k - Len(outgoing) \in 1 .. Len(outbound)
  BY <1>1
<1> QED BY <1>1, <1>3, <1>4, <1>5, <1>6

LEMMA LineIsOfEvents ==
  ASSUME NEW outgoing \in Seq(Events), NEW outbound \in Seq(Batches)
  PROVE  LineOf(outgoing, outbound) \in Seq(Events)
  BY DEF Batches, Some, Events, LineOf

LEMMA LineReaches ==
  ASSUME NEW outgoing \in Seq(Events), NEW outbound \in Seq(Batches)
  PROVE  \A i \in 1 .. Len(outbound) :
            /\ Len(outgoing) + i \in 1 .. Len(LineOf(outgoing, outbound))
            /\ LineOf(outgoing, outbound)[Len(outgoing) + i] = outbound[i].events[1]
  BY LineOfIs

LEMMA PurgedIs ==
  ASSUME NEW outbound \in Seq(Batches), NEW u
  PROVE  /\ Purged(outbound, u) \in Seq(Batches)
         /\ IsPartOf(Purged(outbound, u), outbound)
         /\ \A k \in 1 .. Len(Purged(outbound, u)) : Purged(outbound, u)[k].id # u
         /\ \A outgoing \in Seq(Events) :
              Embeds(LineOf(outgoing, Purged(outbound, u)), LineOf(outgoing, outbound))
<1> DEFINE places == {i \in 1 .. Len(outbound) : outbound[i].id # u}
           r == Purged(outbound, u)
<1>1. r = Kept(outbound, places)
  BY DEF Purged
<1>2. places \in SUBSET (1 .. Len(outbound))
  OBVIOUS
<1>2a. \A i \in places : outbound[i].id # u
  OBVIOUS
<1> HIDE DEF r, places
<1>3. r \in Seq(Batches) /\ \E g \in [1 .. Len(r) -> places] : Origins(r, outbound, places, g)
  BY <1>1, <1>2, KeptIs
<1>4. PICK g \in [1 .. Len(r) -> places] : Origins(r, outbound, places, g)
  BY <1>3
<1>5. IsPartOf(r, outbound)
  BY <1>2, <1>3, <1>4, OriginsMakePart
<1>6. \A k \in 1 .. Len(r) : r[k].id # u
  BY <1>2a, <1>4 DEF Origins
<1>7. ASSUME NEW outgoing \in Seq(Events)
      PROVE  Embeds(LineOf(outgoing, r), LineOf(outgoing, outbound))
  <2> DEFINE l == LineOf(outgoing, r)
             m == LineOf(outgoing, outbound)
             n == Len(outgoing)
             h == [k \in 1 .. Len(l) |-> IF k <= n THEN k ELSE n + g[k - n]]
  <2>1. /\ n \in Nat /\ Len(r) \in Nat /\ Len(outbound) \in Nat
        /\ Len(l) = n + Len(r) /\ Len(m) = n + Len(outbound)
    BY <1>3, LineOfIs
  <2>2. \A k \in 1 .. Len(l) : k <= n => l[k] = m[k]
    BY <1>3, <2>1, LineOfIs
  <2>3. \A k \in 1 .. Len(l) : k > n =>
          /\ k - n \in 1 .. Len(r) /\ g[k - n] \in 1 .. Len(outbound)
          /\ l[k] = m[n + g[k - n]]
    <3>1. TAKE k \in 1 .. Len(l)
    <3>2. HAVE k > n
    <3>3. k - n \in 1 .. Len(r) /\ l[k] = r[k - n].events[1]
      BY <1>3, <2>1, <3>2, LineOfIs
    <3>4. g[k - n] \in 1 .. Len(outbound) /\ r[k - n] = outbound[g[k - n]]
      BY <1>2, <1>4, <3>3 DEF Origins
    <3> QED BY <3>3, <3>4, LineReaches
  <2> HIDE DEF l, m
  <2>4. ASSUME NEW k \in 1 .. Len(l)
        PROVE  h[k] \in 1 .. Len(m) /\ m[h[k]] = l[k]
    BY <2>1, <2>2, <2>3
  <2>5. ASSUME NEW k \in 1 .. Len(l), NEW j \in 1 .. k
        PROVE  h[j] <= h[k]
    <3>1. j \in 1 .. Len(l) /\ j <= k /\ j \in Int /\ k \in Int
      BY <2>1
    <3>2. CASE k <= n
      BY <2>1, <3>1, <3>2
    <3>3. CASE k > n /\ j <= n
      BY <2>1, <2>3, <3>1, <3>3
    <3>4. CASE k > n /\ j > n
      <4>1. /\ j - n \in 1 .. Len(r) /\ k - n \in 1 .. Len(r)
            /\ g[j - n] \in 1 .. Len(outbound) /\ g[k - n] \in 1 .. Len(outbound)
        BY <2>3, <3>1, <3>4
      <4>2. j = k \/ j - n < k - n
        BY <2>1, <3>1
      <4>3. g[j - n] <= g[k - n]
        <5>1. CASE j = k
          BY <4>1, <5>1
        <5>2. CASE j - n < k - n
          BY <1>4, <4>1, <5>2 DEF Origins
        <5> QED BY <4>2, <5>1, <5>2
      <4> QED BY <2>1, <3>1, <3>4, <4>1, <4>3
    <3> QED BY <2>1, <3>1, <3>2, <3>3, <3>4
  <2>6. h \in [1 .. Len(l) -> Nat]
    BY <2>1, <2>4
  <2>7. Embeds(l, m)
    BY <2>4, <2>5, <2>6 DEF Embeds
  <2> QED BY <2>7 DEF l, m
<1> QED BY <1>3, <1>5, <1>6, <1>7 DEF r

LEMMA EmbedsItself ==
  ASSUME NEW l, Len(l) \in Nat
  PROVE  Embeds(l, l)
<1> DEFINE h == [k \in 1 .. Len(l) |-> k]
<1>1. h \in [1 .. Len(l) -> Nat]
  OBVIOUS
<1>2. \A k \in 1 .. Len(l) : h[k] \in 1 .. Len(l) /\ l[h[k]] = l[k] /\ \A j \in 1 .. k : h[j] <= h[k]
  OBVIOUS
<1> QED BY <1>1, <1>2 DEF Embeds

LEMMA SendingEmbeds ==
  ASSUME NEW outgoing \in Seq(Events), NEW outbound \in Seq(Batches), NEW events \in Seq(Spoken)
  PROVE  Embeds(LineOf(outgoing \o events, outbound), LineOf(outgoing, outbound))
<1> DEFINE sent == outgoing \o events
           l == LineOf(sent, outbound)
           m == LineOf(outgoing, outbound)
           n == Len(outgoing)
           c == Len(events)
           h == [k \in 1 .. Len(l) |-> IF k <= n THEN k ELSE IF k <= n + c THEN n ELSE k - c]
<1>1. /\ n \in Nat /\ c \in Nat /\ Len(outbound) \in Nat
      /\ sent \in Seq(Events) /\ Len(sent) = n + c
  BY DEF Events
<1>2. /\ \A k \in 1 .. n : sent[k] = outgoing[k]
      /\ \A k \in 1 .. n + c : k > n => sent[k] \in Spoken
  BY <1>1
<1> HIDE DEF sent
<1>3. /\ Len(l) = n + c + Len(outbound)
      /\ \A k \in 1 .. n + c : l[k] = sent[k]
      /\ \A k \in 1 .. n + c + Len(outbound) : k > n + c =>
           k - (n + c) \in 1 .. Len(outbound) /\ l[k] = outbound[k - (n + c)].events[1]
  <2>1. /\ Len(l) = Len(sent) + Len(outbound)
        /\ \A k \in 1 .. Len(sent) : l[k] = sent[k]
        /\ \A k \in 1 .. Len(sent) + Len(outbound) : k > Len(sent) =>
             k - Len(sent) \in 1 .. Len(outbound) /\ l[k] = outbound[k - Len(sent)].events[1]
    BY <1>1, LineOfIs
  <2> HIDE DEF l
  <2> QED BY <1>1, <2>1
<1>4. /\ Len(m) = n + Len(outbound) /\ \A k \in 1 .. n : m[k] = outgoing[k]
      /\ \A i \in 1 .. Len(outbound) : n + i \in 1 .. Len(m) /\ m[n + i] = outbound[i].events[1]
  BY <1>1, LineOfIs, LineReaches
<1> HIDE DEF l, m, n, c
<1>5. \A k \in 1 .. Len(l) : k <= n => k \in 1 .. Len(m) /\ l[k] = m[k]
  <2>1. TAKE k \in 1 .. Len(l)
  <2>2. HAVE k <= n
  <2>3. k \in 1 .. n /\ k \in 1 .. n + c /\ k \in 1 .. Len(m)
    BY <1>1, <1>3, <1>4, <2>1, <2>2
  <2> QED BY <1>2, <1>3, <1>4, <2>3
<1>6. \A k \in 1 .. Len(l) : k > n /\ k <= n + c => ~IsFlow(l[k])
  <2>1. TAKE k \in 1 .. Len(l)
  <2>2. HAVE k > n /\ k <= n + c
  <2>3. k \in 1 .. n + c
    BY <1>1, <1>3, <2>1, <2>2
  <2>4. l[k] = sent[k] /\ sent[k] \in Spoken
    BY <1>2, <1>3, <2>2, <2>3
  <2> QED BY <2>4 DEF IsFlow, Spoken, Kinds
<1>7. \A k \in 1 .. Len(l) : k > n + c => k - c \in 1 .. Len(m) /\ l[k] = m[k - c]
  <2>1. TAKE k \in 1 .. Len(l)
  <2>2. HAVE k > n + c
  <2>3. /\ l[k] = outbound[k - (n + c)].events[1]
        /\ k - (n + c) \in 1 .. Len(outbound)
    BY <1>1, <1>3, <2>1, <2>2
  <2>4. n + (k - (n + c)) = k - c
    BY <1>1, <1>3, <2>1
  <2> QED BY <1>4, <2>3, <2>4
<1>8. h \in [1 .. Len(l) -> Nat]
  BY <1>1, <1>3
<1>9. ASSUME NEW k \in 1 .. Len(l), IsFlow(l[k])
      PROVE  h[k] \in 1 .. Len(m) /\ m[h[k]] = l[k]
  BY <1>1, <1>3, <1>5, <1>6, <1>7, <1>9
<1>10. ASSUME NEW k \in 1 .. Len(l), NEW j \in 1 .. k
       PROVE  h[j] <= h[k]
  BY <1>1, <1>3
<1>11. Embeds(l, m)
  BY <1>8, <1>9, <1>10 DEF Embeds
<1> QED BY <1>11 DEF sent, l, m

LEMMA TailEmbeds ==
  ASSUME NEW outgoing \in Seq(Events), NEW outbound \in Seq(Batches), outbound # <<>>
  PROVE  /\ Tail(outbound) \in Seq(Batches) /\ IsPartOf(Tail(outbound), outbound)
         /\ Embeds(LineOf(outgoing, Tail(outbound)), LineOf(outgoing, outbound))
<1> DEFINE rest == Tail(outbound)
           l == LineOf(outgoing, rest)
           m == LineOf(outgoing, outbound)
           n == Len(outgoing)
           h == [k \in 1 .. Len(l) |-> IF k <= n THEN k ELSE k + 1]
<1>1. /\ n \in Nat /\ Len(outbound) \in Nat
      /\ rest \in Seq(Batches) /\ Len(rest) = Len(outbound) - 1
      /\ \A i \in 1 .. Len(rest) : i + 1 \in 1 .. Len(outbound) /\ rest[i] = outbound[i + 1]
  OBVIOUS
<1> HIDE DEF rest
<1>2. IsPartOf(rest, outbound)
  <2>1. \A j, k \in 1 .. Len(rest) : j < k => j + 1 < k + 1
    BY <1>1
  <2> QED BY <1>1, <2>1 DEF IsPartOf
<1>3. Len(l) = n + Len(rest) /\ Len(m) = n + Len(outbound)
  BY <1>1, LineOfIs
<1>4. \A k \in 1 .. Len(l) : k <= n => k \in 1 .. Len(m) /\ l[k] = m[k]
  BY <1>1, <1>3, LineOfIs
<1>5. \A k \in 1 .. Len(l) : k > n => k + 1 \in 1 .. Len(m) /\ l[k] = m[k + 1]
  <2>1. TAKE k \in 1 .. Len(l)
  <2>2. HAVE k > n
  <2>3. l[k] = rest[k - n].events[1] /\ k - n \in 1 .. Len(rest)
    BY <1>1, <1>3, <2>2, LineOfIs
  <2>4. n + ((k - n) + 1) = k + 1
    BY <1>1
  <2>5. rest[k - n] = outbound[(k - n) + 1] /\ (k - n) + 1 \in 1 .. Len(outbound)
    BY <1>1, <2>3
  <2> QED BY <1>3, <2>3, <2>4, <2>5, LineReaches
<1> HIDE DEF l, m
<1>6. h \in [1 .. Len(l) -> Nat]
  BY <1>1
<1>7. ASSUME NEW k \in 1 .. Len(l)
      PROVE  h[k] \in 1 .. Len(m) /\ m[h[k]] = l[k]
  <2>1. CASE k <= n
    BY <2>1, <1>4
  <2>2. CASE k > n
    BY <1>1, <1>3, <2>2, <1>5
  <2> QED BY <1>1, <1>3, <2>1, <2>2
<1>7a. ASSUME NEW k \in 1 .. Len(l), NEW j \in 1 .. k
      PROVE  h[j] <= h[k]
  BY <1>1, <1>3
<1>8. Embeds(l, m)
  BY <1>6, <1>7, <1>7a DEF Embeds
<1> QED BY <1>1, <1>2, <1>8 DEF rest, l, m

\* A service that differs in some of its fields only
DiffersIn(t, s, fields) ==
  /\ DOMAIN t = DOMAIN s
  /\ \A f \in ServiceFields \ fields : t[f] = s[f]

\* The plain batches in front of s are sent in t, and the others are left.
Splits(s, t, plain) ==
  /\ DiffersIn(t, s, {"outgoing", "outbound"})
  /\ t.outgoing = s.outgoing \o [i \in 1 .. plain |-> s.outbound[i].events[1]]
  /\ \A i \in 1 .. plain : s.outbound[i].id = Nobody
  /\ s.current = NoBatch /\ plain < Len(s.outbound) => s.outbound[plain + 1].id # Nobody
  /\ t.outbound \in Seq(Batches) /\ Len(t.outbound) = Len(s.outbound) - plain
  /\ \A i \in 1 .. Len(t.outbound) :
       plain + i \in 1 .. Len(s.outbound) /\ t.outbound[i] = s.outbound[plain + i]

LEMMA PlainSentSplits ==
  ASSUME NEW s, IsService(s)
  PROVE  \E plain \in 0 .. Len(s.outbound) : Splits(s, PlainSent(s), plain)
<1> DEFINE q == s.outbound
           scoped == {i \in 1 .. Len(q) : q[i].id # Nobody}
           plain == IF s.current # NoBatch THEN 0
                    ELSE IF scoped = {} THEN Len(q)
                    ELSE (CHOOSE i \in scoped : \A j \in scoped : i <= j) - 1
           firsts == [i \in 1 .. plain |-> q[i].events[1]]
           rest == SubSeq(q, plain + 1, Len(q))
           t == PlainSent(s)
<1>1. q \in Seq(Batches) /\ Len(q) \in Nat /\ s.outgoing \in Seq(Events)
  BY DEF IsService
<1>2. /\ plain \in 0 .. Len(q)
      /\ \A i \in 1 .. plain : q[i].id = Nobody
      /\ s.current = NoBatch /\ plain < Len(q) => q[plain + 1].id # Nobody
  <2>1. CASE scoped = {}
    BY <1>1, <2>1
  <2>2. CASE scoped # {}
    <3> DEFINE first == CHOOSE i \in scoped : \A j \in scoped : i <= j
    <3>1. scoped \subseteq Nat
      BY <1>1
    <3>2. \E i \in scoped : \A j \in scoped : i <= j
      BY <2>2, <3>1, LeastNumber
    <3>3. first \in scoped /\ \A j \in scoped : first <= j
      BY <3>2
    <3> HIDE DEF first
    <3>4. first \in 1 .. Len(q) /\ q[first].id # Nobody
      BY <3>3
    <3>5. \A i \in 1 .. first - 1 : q[i].id = Nobody
      BY <1>1, <3>4, <3>3
    <3>6. plain = IF s.current # NoBatch THEN 0 ELSE first - 1
      BY <2>2 DEF first
    <3> HIDE DEF plain, scoped
    <3> QED BY <1>1, <3>4, <3>5, <3>6
  <2> QED BY <2>1, <2>2
<1>3. t = [s EXCEPT !.outgoing = s.outgoing \o firsts, !.outbound = rest]
  BY DEF PlainSent
<1> HIDE DEF plain, t
<1>4. ServiceFields \subseteq DOMAIN s
  BY DEF IsService
<1>5. /\ DiffersIn(t, s, {"outgoing", "outbound"})
      /\ t.outgoing = s.outgoing \o firsts /\ t.outbound = rest
      /\ t.current = s.current
  BY <1>3, <1>4 DEF DiffersIn, ServiceFields
<1>6. /\ rest \in Seq(Batches) /\ Len(rest) = Len(q) - plain
      /\ \A i \in 1 .. Len(rest) : plain + i \in 1 .. Len(q) /\ rest[i] = q[plain + i]
  <2>1. CASE plain = Len(q)
    BY <1>1, <2>1
  <2>2. CASE plain < Len(q)
    <3>1. plain + 1 \in 1 .. Len(q) /\ Len(q) \in 1 .. Len(q)
      BY <1>1, <1>2, <2>2
    <3>2. /\ rest \in Seq(Batches) /\ Len(rest) = Len(q) - (plain + 1) + 1
          /\ \A i \in 1 .. Len(q) - (plain + 1) + 1 : rest[i] = q[(plain + 1) + i - 1]
      BY <1>1, <1>2, <2>2, <3>1, SubSeqProperties
    <3> QED BY <1>1, <1>2, <3>2
  <2> QED BY <1>1, <1>2, <2>1, <2>2
<1>7. Splits(s, t, plain)
  BY <1>2, <1>5, <1>6 DEF Splits
<1> QED BY <1>2, <1>7 DEF t

LEMMA PlainSentIs ==
  ASSUME NEW s, IsService(s)
  PROVE  /\ DiffersIn(PlainSent(s), s, {"outgoing", "outbound"})
         /\ PlainSent(s).outgoing \in Seq(Events)
         /\ PlainSent(s).outbound \in Seq(Batches)
         /\ IsPartOf(PlainSent(s).outbound, s.outbound)
         /\ Line(PlainSent(s)) = Line(s)
         /\ Sorted(PlainSent(s))
<1> DEFINE q == s.outbound
           t == PlainSent(s)
<1>0. PICK plain \in 0 .. Len(q) : Splits(s, t, plain)
  BY PlainSentSplits
<1> DEFINE firsts == [i \in 1 .. plain |-> q[i].events[1]]
           rest == t.outbound
<1>1. q \in Seq(Batches) /\ Len(q) \in Nat /\ s.outgoing \in Seq(Events)
  BY DEF IsService
<1> HIDE DEF t
<1>2. /\ plain \in 0 .. Len(q)
      /\ \A i \in 1 .. plain : q[i].id = Nobody
      /\ s.current = NoBatch /\ plain < Len(q) => q[plain + 1].id # Nobody
  BY <1>0 DEF Splits
<1>5. /\ DiffersIn(t, s, {"outgoing", "outbound"})
      /\ t.outgoing = s.outgoing \o firsts /\ t.outbound = rest
      /\ t.current = s.current
  BY <1>0 DEF Splits, DiffersIn, ServiceFields
<1>6. /\ rest \in Seq(Batches) /\ Len(rest) = Len(q) - plain
      /\ \A i \in 1 .. Len(rest) : plain + i \in 1 .. Len(q) /\ rest[i] = q[plain + i]
  BY <1>0 DEF Splits
<1>7. IsPartOf(rest, q)
  <2> HIDE DEF rest, q
  <2>1. \A j, k \in 1 .. Len(rest) : j < k => plain + j < plain + k
    BY <1>1, <1>2, <1>6
  <2> QED BY <1>6, <2>1 DEF IsPartOf
<1>8. firsts \in Seq(Events) /\ Len(firsts) = plain
  <2>1. \A i \in 1 .. plain : q[i].events[1] \in Events
    BY <1>1, <1>2 DEF Batches, Some, Events
  <2> QED BY <1>2, <2>1
<1>9. t.outgoing \in Seq(Events) /\ Len(t.outgoing) = Len(s.outgoing) + plain
  <2>1. t.outgoing = s.outgoing \o firsts
    BY <1>5
  <2> HIDE DEF firsts
  <2> QED
    <3>1. s.outgoing \in Seq(Events) /\ firsts \in Seq(Events)
      BY <1>1, <1>8
    <3>2. s.outgoing \o firsts \in Seq(Events) /\ Len(s.outgoing \o firsts) = Len(s.outgoing) + Len(firsts)
      BY <3>1
    <3> QED BY <1>8, <2>1, <3>2
<1>10. Line(t) = Line(s)
  <2> DEFINE old == LineOf(s.outgoing, q)
             new == LineOf(t.outgoing, rest)
             n == Len(s.outgoing)
  <2>1. Line(t) = new /\ Line(s) = old
    BY <1>5 DEF Line, LineOf
  <2> SUFFICES new = old
    BY <2>1
  <2>2. /\ new \in Seq(Events) /\ old \in Seq(Events)
        /\ Len(new) = n + plain + (Len(q) - plain) /\ Len(old) = n + Len(q)
    BY <1>1, <1>6, <1>9, LineIsOfEvents, LineOfIs
  <2>3. \A k \in 1 .. plain : t.outgoing[n + k] = q[k].events[1]
    <3>1. \A k \in 1 .. plain : firsts[k] = q[k].events[1]
      OBVIOUS
    <3> HIDE DEF firsts
    <3>2. \A k \in 1 .. plain : (s.outgoing \o firsts)[n + k] = firsts[k]
      BY <1>1, <1>2, <1>8
    <3> QED BY <1>5, <3>1, <3>2
  <2>4. \A k \in 1 .. n : t.outgoing[k] = s.outgoing[k]
    <3> HIDE DEF firsts
    <3>1. \A k \in 1 .. n : (s.outgoing \o firsts)[k] = s.outgoing[k]
      BY <1>1, <1>2, <1>8
    <3> QED BY <1>5, <3>1
  <2>5. ASSUME NEW k \in 1 .. Len(q), k > plain
        PROVE  /\ k - plain \in 1 .. Len(rest)
               /\ rest[k - plain] = q[k]
    BY <1>1, <1>2, <1>6, <2>5
  <2> HIDE DEF firsts, rest, q
  <2>6. ASSUME NEW k \in 1 .. n + Len(q)
        PROVE  new[k] = old[k]
    <3>1. n \in Nat
      BY <1>1
    <3>2. CASE k <= n
      <4>1. k \in 1 .. n /\ k \in 1 .. Len(t.outgoing)
        BY <1>2, <1>9, <3>1, <3>2
      <4> QED BY <1>1, <1>6, <1>9, <2>4, <4>1, LineOfIs
    <3>3. CASE k > n /\ k <= n + plain
      <4>1. k \in 1 .. Len(t.outgoing) /\ k - n \in 1 .. plain /\ n + (k - n) = k
        BY <1>2, <1>9, <3>1, <3>3
      <4>2. new[k] = t.outgoing[k] /\ old[k] = q[k - n].events[1]
        BY <1>1, <1>6, <1>9, <3>3, <4>1, LineOfIs
      <4> QED BY <2>3, <4>1, <4>2
    <3>4. CASE k > n + plain
      <4>1. /\ k > n /\ k - n \in 1 .. Len(q) /\ k - n > plain
            /\ k - (n + plain) = (k - n) - plain
            /\ k \in 1 .. (n + plain) + Len(rest)
        BY <1>1, <1>2, <1>6, <3>1, <3>4
      <4>2. old[k] = q[k - n].events[1]
        BY <1>1, <4>1, LineOfIs
      <4>3. new[k] = rest[k - (n + plain)].events[1]
        <5>1. Len(t.outgoing) = n + plain
          BY <1>9
        <5>2. k \in 1 .. Len(t.outgoing) + Len(rest) /\ k > Len(t.outgoing)
          BY <3>4, <4>1, <5>1
        <5>3. new[k] = rest[k - Len(t.outgoing)].events[1]
          BY <1>6, <1>9, <5>2, LineOfIs
        <5> QED BY <5>1, <5>3
      <4> QED BY <2>5, <4>1, <4>2, <4>3
    <3> QED BY <1>2, <3>1, <3>2, <3>3, <3>4
  <2>7. Len(new) = Len(old) /\ Len(old) = n + Len(q)
    BY <1>1, <1>2, <2>2
  <2> HIDE DEF new, old
  <2> QED BY <2>2, <2>6, <2>7, SeqEqual
<1>11. Sorted(t)
  BY <1>1, <1>2, <1>5, <1>6 DEF Sorted
<1> QED BY <1>5, <1>6, <1>7, <1>9, <1>10, <1>11 DEF t

Batch(u, events) == [id |-> u, events |-> events, cut |-> FALSE]

LEMMA DiffersKeepsType ==
  ASSUME NEW s, NEW t, IsService(s), DiffersIn(t, s, {"outgoing", "outbound"}),
         t.outgoing \in Seq(Events), t.outbound \in Seq(Batches)
  PROVE  IsService(t)
  BY DEF IsService, DiffersIn, ServiceFields

LEMMA AppendTo ==
  ASSUME NEW T, NEW q \in Seq(T), NEW r \in Seq(T), NEW e \in T
  PROVE  q \o Append(r, e) = Append(q \o r, e)
<1>1. /\ Len(q) \in Nat /\ Len(r) \in Nat /\ Append(r, e) \in Seq(T) /\ Len(Append(r, e)) = Len(r) + 1
      /\ q \o r \in Seq(T) /\ Len(q \o r) = Len(q) + Len(r)
  OBVIOUS
<1>2. /\ q \o Append(r, e) \in Seq(T) /\ Len(q \o Append(r, e)) = Len(q) + Len(r) + 1
      /\ Append(q \o r, e) \in Seq(T) /\ Len(Append(q \o r, e)) = Len(q) + Len(r) + 1
  BY <1>1
<1>3. ASSUME NEW i \in 1 .. Len(q) + Len(r) + 1
      PROVE  (q \o Append(r, e))[i] = Append(q \o r, e)[i]
  BY <1>1
<1> QED BY <1>2, <1>3, SeqEqual

LEMMA QueuedIs ==
  ASSUME NEW s, IsService(s), NEW u, NEW events, Batch(u, events) \in Batches
  PROVE  /\ IsService(Queued(s, u, events))
         /\ DiffersIn(Queued(s, u, events), s, {"outbound"})
         /\ s.closed => Queued(s, u, events) = s
         /\ ~s.closed => /\ Queued(s, u, events).outbound = Append(s.outbound, Batch(u, events))
                         /\ Line(Queued(s, u, events)) = Append(Line(s), events[1])
<1> DEFINE t == Queued(s, u, events)
<1>1. CASE s.closed
  BY <1>1 DEF Queued, DiffersIn
<1>2. CASE ~s.closed
  <2>1. t = [s EXCEPT !.outbound = Append(s.outbound, Batch(u, events))]
    BY <1>2 DEF Queued, Batch
  <2>2. ServiceFields \subseteq DOMAIN s
    BY DEF IsService
  <2> HIDE DEF t
  <2>3. /\ DiffersIn(t, s, {"outbound"})
        /\ t.outbound = Append(s.outbound, Batch(u, events))
        /\ t.outgoing = s.outgoing
    BY <2>1, <2>2 DEF DiffersIn, ServiceFields
  <2>4. s.outbound \in Seq(Batches) /\ s.outgoing \in Seq(Events)
    BY DEF IsService
  <2>5. t.outbound \in Seq(Batches)
    BY <2>3, <2>4
  <2>6. IsService(t)
    BY <2>3, <2>4, <2>5, DiffersKeepsType DEF DiffersIn
  <2>7. Line(t) = Append(Line(s), events[1])
    <3> DEFINE firsts == [i \in 1 .. Len(s.outbound) |-> s.outbound[i].events[1]]
               after == [i \in 1 .. Len(t.outbound) |-> t.outbound[i].events[1]]
    <3>1. after = Append(firsts, events[1])
      <4>1. Len(t.outbound) = Len(s.outbound) + 1 /\ Len(s.outbound) \in Nat
        BY <2>3, <2>4
      <4>2. \A i \in 1 .. Len(s.outbound) : t.outbound[i] = s.outbound[i]
        BY <2>3, <2>4
      <4>3. t.outbound[Len(s.outbound) + 1] = Batch(u, events)
        BY <2>3, <2>4
      <4>4. Append(firsts, events[1]) =
              [i \in 1 .. Len(s.outbound) + 1 |->
                 IF i <= Len(s.outbound) THEN firsts[i] ELSE events[1]]
        BY <4>1
      <4>5. \A i \in 1 .. Len(s.outbound) + 1 :
              t.outbound[i].events[1] = IF i <= Len(s.outbound) THEN firsts[i] ELSE events[1]
        BY <4>1, <4>2, <4>3 DEF Batch
      <4> HIDE DEF firsts
      <4> QED BY <4>1, <4>4, <4>5
    <3>2. firsts \in Seq(Events) /\ events[1] \in Events
      BY <2>4 DEF Batches, Some, Events, Batch
    <3>3. Line(t) = s.outgoing \o after /\ Line(s) = s.outgoing \o firsts
      BY <2>3 DEF Line
    <3> HIDE DEF firsts, after
    <3>4. s.outgoing \o Append(firsts, events[1]) = Append(s.outgoing \o firsts, events[1])
      <4>1. s.outgoing \in Seq(Events) /\ firsts \in Seq(Events) /\ events[1] \in Events
        BY <2>4, <3>2
      <4> DEFINE q == s.outgoing
                 r == firsts
                 e == events[1]
      <4>2. q \in Seq(Events) /\ r \in Seq(Events) /\ e \in Events
        BY <4>1
      <4> HIDE DEF q, r, e
      <4>3. q \o Append(r, e) = Append(q \o r, e)
        BY <4>2, AppendTo
      <4> QED BY <4>3 DEF q, r, e
    <3> QED BY <3>1, <3>3, <3>4
  <2> QED BY <1>2, <2>3, <2>6, <2>7 DEF t
<1> QED BY <1>1, <1>2

LEMMA LineTyped ==
  ASSUME NEW s, IsService(s)
  PROVE  Line(s) \in Seq(Events) /\ Len(Line(s)) \in Nat
  BY LineIsOfEvents DEF IsService, Line, LineOf

-----------------------------------------------------------------------------
(* What a step leaves of an invariant that hardly concerns it *)

LEMMA WorkKeeps ==
  ASSUME NEW s, NEW t, NEW settled, IsService(s), WorkInv(s, settled),
         DiffersIn(t, s, {"outgoing", "outbound", "current", "lane", "overrun", "through"})
  PROVE  WorkInv(t, settled)
<1>1. /\ t.closed = s.closed /\ t.active = s.active /\ t.creating = s.creating
      /\ t.session = s.session /\ t.reserved = s.reserved /\ t.utterance = s.utterance
      /\ t.leases = s.leases /\ t.worker = s.worker /\ t.fence = s.fence
      /\ t.terminal = s.terminal /\ t.header = s.header /\ t.credited = s.credited
      /\ t.frames = s.frames
  BY DEF DiffersIn, ServiceFields
<1> QED BY <1>1 DEF WorkInv, HoldsRecognizer, StillSilent, HeardInOrder, IsWhole, Unborn

LEMMA NobodyIsNone == Nobody \notin Utterances
  BY DEF Nobody, Utterances

LEMMA FenceShrinks ==
  ASSUME NEW s, NEW t, NEW said, IsService(s), FenceInv(s, said),
         t.closed = s.closed,
         \A u \in Utterances : t.active = u \/ Unborn(t, u) => s.active = u \/ Unborn(s, u),
         \/ t.current.id = Nobody
         \/ t.current.id = s.current.id /\ t.current.events = s.current.events,
         IsPartOf(t.outbound, s.outbound)
  PROVE  FenceInv(t, said)
<1> SUFFICES ASSUME NEW u \in Utterances PROVE IsFenced(t, said, u)
  BY DEF FenceInv
<1>1. IsFenced(s, said, u) /\ u # Nobody
  BY NobodyIsNone DEF FenceInv
<1>2. t.current.id = u => s.current.id = u /\ (Ends(t.current) <=> Ends(s.current))
  BY <1>1 DEF Ends
<1>3. t.active = u \/ Unborn(t, u) => s.active = u \/ Unborn(s, u)
  OBVIOUS
<1> DEFINE r == t.outbound
           q == s.outbound
<1>3a. IsPartOf(r, q)
  OBVIOUS
<1> HIDE DEF r, q
<1>4. ASSUME NEW i \in 1 .. Len(r), r[i].id = u
      PROVE  \E k \in 1 .. Len(q) : q[k].id = u /\ q[k] = r[i]
  BY <1>3a, <1>4 DEF IsPartOf
<1>5. ASSUME NEW i \in 1 .. Len(r), NEW j \in 1 .. Len(r), i < j, r[i].id = u, r[j].id = u
      PROVE  \E k, l \in 1 .. Len(q) : k < l /\ q[k] = r[i] /\ q[k].id = u /\ q[l].id = u
  <2>1. PICK k \in 1 .. Len(q), l \in 1 .. Len(q) : k < l /\ r[i] = q[k] /\ r[j] = q[l]
    BY <1>3a, <1>5 DEF IsPartOf
  <2> QED BY <1>5, <2>1
<1> QED BY <1>1, <1>2, <1>3, <1>4, <1>5 DEF IsFenced, r, q

LEMMA FenceKeeps ==
  ASSUME NEW s, NEW t, NEW said, IsService(s), FenceInv(s, said),
         t.closed = s.closed, t.active = s.active, t.session = s.session, t.current = s.current,
         IsPartOf(t.outbound, s.outbound)
  PROVE  FenceInv(t, said)
  BY FenceShrinks DEF Unborn

\* A batch about no utterance says nothing of one.
LEMMA FenceKeepsWithPlain ==
  ASSUME NEW s, NEW t, NEW said, IsService(s), FenceInv(s, said),
         t.closed = s.closed, t.active = s.active, t.session = s.session, t.current = s.current,
         NEW batch \in Batches, batch.id = Nobody, t.outbound = Append(s.outbound, batch)
  PROVE  FenceInv(t, said)
<1> SUFFICES ASSUME NEW u \in Utterances PROVE IsFenced(t, said, u)
  BY DEF FenceInv
<1>1. IsFenced(s, said, u)
  BY DEF FenceInv
<1>2. s.outbound \in Seq(Batches)
  BY DEF IsService
<1>3. u # Nobody
  BY DEF Utterances, Nobody
<1>4. \A i \in 1 .. Len(t.outbound) : t.outbound[i].id = u =>
        i \in 1 .. Len(s.outbound) /\ t.outbound[i] = s.outbound[i]
  BY <1>2, <1>3
<1> HIDE DEF IsService
<1> QED BY <1>1, <1>4 DEF IsFenced, Unborn

\* The service is no nearer to the utterance than before.
IsQuieter(t, s, u) ==
  /\ t.session[u] = "none" <=> s.session[u] = "none"
  /\ t.session[u] = "creating" => s.session[u] = "creating"
  /\ t.utterance[u].next = s.utterance[u].next
  /\ t.utterance[u].reason = "client_end" => s.utterance[u].reason = "client_end"
  /\ t.active = u => s.active = u
  /\ Listening(t, u) => Listening(s, u)
  /\ t.header[1] = u => s.header[1] = u

LEMMA ChannelShrinks ==
  ASSUME NEW s, NEW t, NEW b, NEW tracked, NEW settled, ChannelInv(s, b, tracked),
         t.closed = s.closed, t.header # NoFrame => s.header # NoFrame,
         \A u \in Utterances : IsQuieter(t, s, u),
         \A u \in settled : Awaited(t, b, u) =>
           u \in tracked /\ u \in Utterances /\ (t.header[1] = u <=> s.header[1] = u)
  PROVE  ChannelInv(t, b, settled)
<1>1. CASE b.state # "ready"
  BY <1>1 DEF ChannelInv
<1>2. CASE b.state = "ready"
  <2>1. ASSUME NEW u \in Utterances, IsCalled(s, b, u)
        PROVE  IsCalled(t, b, u)
    BY <2>1 DEF IsUnknown, IsQuieter, Ended, IsCalled
  <2>2. ASSUME NEW u \in settled, Awaited(t, b, u)
        PROVE  IsTracked(t, b, u)
    <3>1. u \in tracked /\ u \in Utterances /\ (t.header[1] = u <=> s.header[1] = u)
      BY <2>2
    <3>2. IsQuieter(t, s, u)
      BY <3>1
    <3>3. Awaited(s, b, u)
      BY <2>2, <3>2 DEF Awaited, IsQuieter
    <3>4. IsTracked(s, b, u)
      BY <1>2, <3>1, <3>3 DEF ChannelInv
    <3>5. Due(t, u) = Due(s, u)
      BY <3>1, <3>2 DEF Due, IsQuieter
    <3>6. \A w : Counts(s, b, u, w) => Counts(t, b, u, w)
      BY <3>5 DEF Counts
    <3> QED BY <3>4, <3>6 DEF IsTracked
  <2> QED BY <1>2, <2>1, <2>2 DEF ChannelInv
<1> QED BY <1>1, <1>2

LEMMA ChannelKeeps ==
  ASSUME NEW s, NEW t, NEW b, NEW settled, settled \subseteq Utterances, ChannelInv(s, b, settled),
         t.closed = s.closed, t.active = s.active, t.session = s.session,
         t.utterance = s.utterance, t.header = s.header
  PROVE  ChannelInv(t, b, settled)
  BY ChannelShrinks DEF IsQuieter, Listening

LEMMA TakenIsFinite ==
  ASSUME NEW s, NEW b, IsService(s), IsBrowser(b), UnderWay(s, b) \subseteq b.debits
  PROVE  /\ IsFiniteSet(Taken(s, b)) /\ Cardinality(Taken(s, b)) \in Nat
         /\ \A S \in SUBSET Taken(s, b) :
              /\ IsFiniteSet(S) /\ Cardinality(S) \in Nat
              /\ Cardinality(S) <= Cardinality(Taken(s, b))
<1>1. IsFiniteSet(s.reserved) /\ IsFiniteSet(b.debits)
  BY DEF IsService, IsBrowser
<1>2. IsFiniteSet(UnderWay(s, b))
  BY <1>1, FS_Subset
<1>3. IsFiniteSet(Taken(s, b))
  BY <1>1, <1>2, FS_Union DEF Taken
<1>4. \A S \in SUBSET Taken(s, b) :
        IsFiniteSet(S) /\ Cardinality(S) <= Cardinality(Taken(s, b))
  BY <1>3, FS_Subset
<1> QED BY <1>3, <1>4, FS_CardinalityType

-----------------------------------------------------------------------------
(* Credit, when less is taken and less is said *)

LEMMA FlowIs ==
  ASSUME NEW e \in Events, IsFlow(e)
  PROVE  e.id \in Ids /\ e.through \in Int /\ e.available \in Int
  BY DEF Events, FlowEvents, Spoken, Kinds, IsFlow

LEMMA AppendEmbeds ==
  ASSUME NEW l \in Seq(Events), NEW e \in Events, ~IsFlow(e)
  PROVE  Embeds(Append(l, e), l)
<1> DEFINE m == Append(l, e)
           h == [k \in 1 .. Len(m) |-> k]
<1>1. /\ Len(l) \in Nat /\ Len(m) = Len(l) + 1 /\ m[Len(l) + 1] = e
      /\ \A k \in 1 .. Len(l) : m[k] = l[k]
  OBVIOUS
<1> HIDE DEF m
<1>2. h \in [1 .. Len(m) -> Nat]
  BY <1>1
<1>3. \A k \in 1 .. Len(m) : IsFlow(m[k]) => k \in 1 .. Len(l)
  BY <1>1
<1>3a. ASSUME NEW k \in 1 .. Len(m), IsFlow(m[k])
       PROVE  /\ h[k] \in 1 .. Len(l) /\ l[h[k]] = m[k]
              /\ \A j \in 1 .. k : IsFlow(m[j]) => h[j] <= h[k]
  BY <1>1, <1>3, <1>3a
<1>4. Embeds(m, l)
  BY <1>2, <1>3a DEF Embeds
<1> QED BY <1>4 DEF m

LEMMA CreditShrinks ==
  ASSUME NEW s, NEW t, NEW b, IsService(s), IsService(t), IsBrowser(b), CreditInv(s, b),
         t.overrun = FALSE,
         t.reserved \subseteq s.reserved,
         \A u \in Utterances :
           /\ t.utterance[u].next = s.utterance[u].next
           /\ Unborn(t, u) \/ t.active = u => Unborn(s, u) \/ s.active = u,
         t.credited # Nobody => t.through = t.utterance[t.credited].next - 1,
         t.credited # Nobody /\ b.state = "ready" => b.status[t.credited] # "none",
         t.active # Nobody => t.credited = t.active,
         Embeds(Line(t), Line(s))
  PROVE  CreditInv(t, b)
<1>1. CASE b.state # "ready"
  BY <1>1 DEF CreditInv
<1>2. CASE b.state = "ready"
  <2>1. /\ UnderWay(s, b) \subseteq b.debits
        /\ Cardinality(Taken(s, b)) <= InputFrames
        /\ Cardinality(Taken(s, b) \ b.debits) + b.available <= InputFrames
        /\ \A u \in Utterances : b.watermark[u] < s.utterance[u].next
        /\ \A k \in 1 .. Len(Line(s)) : IsFlow(Line(s)[k]) => IsCredible(s, b, Line(s), k)
    BY <1>2 DEF CreditInv
  <2>2. UnderWay(t, b) \subseteq UnderWay(s, b)
    BY DEF Frames, UnderWay
  <2>3. Taken(t, b) \subseteq Taken(s, b)
    BY <2>2 DEF Taken
  <2>4. /\ Cardinality(Taken(s, b)) \in Nat /\ b.available \in Int /\ InputFrames \in Int
        /\ \A S \in SUBSET Taken(s, b) :
             /\ IsFiniteSet(S) /\ Cardinality(S) \in Nat
             /\ Cardinality(S) <= Cardinality(Taken(s, b))
             /\ \A R \in SUBSET S : Cardinality(R) <= Cardinality(S)
    BY <2>1, TakenIsFinite, FS_Subset, ServiceAssumption DEF IsBrowser
  <2>5. Cardinality(Taken(t, b)) <= InputFrames
    BY <2>3, <2>4, <2>1
  <2>6. Cardinality(Taken(t, b) \ b.debits) + b.available <= InputFrames
    BY <2>3, <2>4, <2>1
  <2>7. ASSUME NEW k \in 1 .. Len(Line(t)), IsFlow(Line(t)[k])
        PROVE  IsCredible(t, b, Line(t), k)
    <3> DEFINE l == Line(t)
               m == Line(s)
    <3>0. /\ l \in Seq(Events) /\ Len(l) \in Nat /\ m \in Seq(Events) /\ Len(m) \in Nat
      BY LineTyped
    <3>1. PICK h \in [1 .. Len(l) -> Nat] :
            \A i \in 1 .. Len(l) : IsFlow(l[i]) =>
              /\ h[i] \in 1 .. Len(m) /\ m[h[i]] = l[i]
              /\ \A j \in 1 .. i : IsFlow(l[j]) => h[j] <= h[i]
      BY DEF Embeds
    <3>2. h[k] \in 1 .. Len(m) /\ m[h[k]] = l[k] /\ IsCredible(s, b, m, h[k])
      BY <2>1, <2>7, <3>1
    <3>3. \A j \in 1 .. k : j \in 1 .. Len(l)
      BY <3>0
    <3>4. \A j \in 1 .. k : IsFlow(l[j]) => h[j] \in 1 .. h[k] /\ m[h[j]] = l[j]
      BY <2>7, <3>1, <3>3, <3>0, <3>2
    <3> HIDE DEF l, m
    <3>5. Uncounted(t, b, l, k) \in SUBSET Uncounted(s, b, m, h[k])
      BY <2>3, <3>4 DEF Uncounted
    <3>6. Uncounted(s, b, m, h[k]) \in SUBSET Taken(s, b)
      BY DEF Uncounted
    <3>7. /\ Cardinality(Uncounted(t, b, l, k)) <= Cardinality(Uncounted(s, b, m, h[k]))
          /\ Cardinality(Uncounted(t, b, l, k)) \in Nat
          /\ Cardinality(Uncounted(s, b, m, h[k])) \in Nat
      BY <3>5, <3>6, <2>4
    <3>8. l[k].available \in Int /\ l[k].id \in Ids
      BY <2>7, <3>0, <3>3, FlowIs DEF l
    <3>9. Cardinality(Uncounted(t, b, l, k)) + l[k].available <= InputFrames
      BY <3>2, <2>4, <3>7, <3>8 DEF IsCredible
    <3>10. l[k].id # Nobody =>
             /\ b.status[l[k].id] # "none"
             /\ b.watermark[l[k].id] <= l[k].through
             /\ l[k].through < t.utterance[l[k].id].next
             /\ \A j \in 1 .. k : IsFlow(l[j]) /\ l[j].id = l[k].id => l[j].through <= l[k].through
      <4>1. HAVE l[k].id # Nobody
      <4>2. l[k].id \in Utterances
        BY <3>8, <4>1 DEF Ids
      <4>3. /\ b.status[l[k].id] # "none"
            /\ b.watermark[l[k].id] <= l[k].through
            /\ l[k].through < s.utterance[l[k].id].next
            /\ \A i \in 1 .. h[k] :
                 IsFlow(m[i]) /\ m[i].id = l[k].id => m[i].through <= l[k].through
        BY <3>2, <4>1 DEF IsCredible
      <4> HIDE DEF l, m
      <4> QED BY <3>4, <4>2, <4>3
    <3> QED BY <3>9, <3>10 DEF IsCredible, l
  <2>8. \A u \in Utterances : b.watermark[u] < t.utterance[u].next
    BY <2>1
  <2> QED BY <1>2, <2>1, <2>2, <2>5, <2>6, <2>7, <2>8 DEF CreditInv
<1> QED BY <1>1, <1>2

LEMMA CreditKeeps ==
  ASSUME NEW s, NEW t, NEW b, IsService(s), IsService(t), IsBrowser(b), CreditInv(s, b),
         DiffersIn(t, s, {"outgoing", "outbound", "current", "lane", "fence", "frames", "leases",
                          "terminal", "header", "worker", "creating"}),
         Embeds(Line(t), Line(s))
  PROVE  CreditInv(t, b)
  BY CreditShrinks DEF DiffersIn, ServiceFields, CreditInv, Unborn

-----------------------------------------------------------------------------
(* What is queued, and what is sent at once *)

LEMMA PlainSentKeeps ==
  ASSUME NEW s, NEW b, NEW said, NEW settled \in SUBSET Utterances, SpeechInv(s, b, said, settled)
  PROVE  SpeechInv(PlainSent(s), b, said, settled) /\ Sorted(PlainSent(s))
<1> DEFINE t == PlainSent(s)
<1>0. /\ IsService(s) /\ IsBrowser(b) /\ WorkInv(s, settled) /\ FenceInv(s, said)
      /\ ChannelInv(s, b, settled) /\ CreditInv(s, b)
  BY DEF SpeechInv
<1>1. /\ DiffersIn(t, s, {"outgoing", "outbound"})
      /\ t.outgoing \in Seq(Events) /\ t.outbound \in Seq(Batches)
      /\ IsPartOf(t.outbound, s.outbound)
      /\ Line(t) = Line(s) /\ Sorted(t)
  BY <1>0, PlainSentIs
<1> HIDE DEF t
<1>2. IsService(t)
  BY <1>0, <1>1, DiffersKeepsType
<1>3. /\ DiffersIn(t, s, {"outgoing", "outbound", "current", "lane", "overrun", "through"})
      /\ DiffersIn(t, s, {"outgoing", "outbound", "current", "lane", "fence", "frames", "leases",
                          "terminal", "header", "worker", "creating"})
  BY <1>1 DEF DiffersIn
<1>4. /\ t.closed = s.closed /\ t.active = s.active /\ t.session = s.session
      /\ t.current = s.current /\ t.utterance = s.utterance /\ t.header = s.header
  BY <1>1 DEF DiffersIn, ServiceFields
<1>5. WorkInv(t, settled)
  BY <1>0, <1>3, WorkKeeps
<1>6. FenceInv(t, said)
  BY <1>0, <1>1, <1>4, FenceKeeps
<1>7. ChannelInv(t, b, settled)
  BY <1>0, <1>4, ChannelKeeps
<1>8. Embeds(Line(t), Line(s))
  BY <1>0, <1>1, LineTyped, EmbedsItself
<1>9. CreditInv(t, b)
  BY <1>0, <1>2, <1>3, <1>8, CreditKeeps
<1>10. SpeechInv(t, b, said, settled) /\ Sorted(t)
  BY <1>0, <1>1, <1>2, <1>5, <1>6, <1>7, <1>9 DEF SpeechInv
<1> QED BY <1>10 DEF t

LEMMA SpokenKinds ==
  /\ \A u \in Ids : Event("error", u) \in Spoken
  /\ \A u \in Utterances : /\ u \in Ids /\ Event("error", u) \in Spoken
                           /\ Event("cancelled", u) \in Spoken /\ Event("ended", u) \in Spoken
                           /\ Event("final", u) \in Spoken /\ Event("partial", u) \in Spoken
  BY DEF Ids, Event, Spoken, Kinds

LEMMA QueueingKeeps ==
  ASSUME NEW s, NEW b, NEW said, NEW settled \in SUBSET Utterances, SpeechInv(s, b, said, settled),
         NEW u \in Ids, NEW events, Batch(u, events) \in Batches, ~s.closed,
         FenceInv(Queued(s, u, events), said), CreditInv(Queued(s, u, events), b)
  PROVE  SpeechInv(Queued(s, u, events), b, said, settled)
<1> DEFINE t == Queued(s, u, events)
<1>0. /\ IsService(s) /\ IsBrowser(b) /\ WorkInv(s, settled) /\ ChannelInv(s, b, settled)
  BY DEF SpeechInv
<1>1. IsService(t) /\ DiffersIn(t, s, {"outbound"})
  BY <1>0, QueuedIs
<1>1a. FenceInv(t, said) /\ CreditInv(t, b)
  OBVIOUS
<1> HIDE DEF t
<1>2. /\ DiffersIn(t, s, {"outgoing", "outbound", "current", "lane", "overrun", "through"})
      /\ t.closed = s.closed /\ t.active = s.active /\ t.session = s.session
      /\ t.utterance = s.utterance /\ t.header = s.header
  BY <1>1 DEF DiffersIn, ServiceFields
<1>3. WorkInv(t, settled) /\ ChannelInv(t, b, settled)
  BY <1>0, <1>2, WorkKeeps, ChannelKeeps
<1>4. SpeechInv(t, b, said, settled)
  BY <1>0, <1>1, <1>1a, <1>3 DEF SpeechInv
<1> QED BY <1>4 DEF t

LEMMA SpokenKeepsCredit ==
  ASSUME NEW s, NEW b, IsService(s), IsBrowser(b), CreditInv(s, b), ~s.closed,
         NEW u \in Ids, NEW events, Batch(u, events) \in Batches, events[1] \in Spoken
  PROVE  CreditInv(Queued(s, u, events), b)
<1> DEFINE t == Queued(s, u, events)
<1>1. /\ IsService(t) /\ DiffersIn(t, s, {"outbound"}) /\ Line(t) = Append(Line(s), events[1])
  BY QueuedIs
<1> HIDE DEF t
<1>2. ~IsFlow(events[1]) /\ events[1] \in Events
  BY DEF IsFlow, Spoken, Kinds, Events
<1>3. Embeds(Line(t), Line(s))
  BY <1>1, <1>2, LineTyped, AppendEmbeds
<1>4. DiffersIn(t, s, {"outgoing", "outbound", "current", "lane", "fence", "frames", "leases",
                          "terminal", "header", "worker", "creating"})
  BY <1>1 DEF DiffersIn
<1>5. CreditInv(t, b)
  BY <1>1, <1>3, <1>4, CreditKeeps
<1> QED BY <1>5 DEF t

LEMMA PlainKeeps ==
  ASSUME NEW s, NEW b, NEW said, NEW settled \in SUBSET Utterances, SpeechInv(s, b, said, settled), NEW e \in Spoken
  PROVE  SpeechInv(Queued(s, Nobody, <<e>>), b, said, settled)
<1> DEFINE t == Queued(s, Nobody, <<e>>)
<1>0. IsService(s) /\ IsBrowser(b) /\ FenceInv(s, said) /\ CreditInv(s, b)
  BY DEF SpeechInv
<1>1. CASE s.closed
  BY <1>1 DEF Queued
<1>2. CASE ~s.closed
  <2>1. Batch(Nobody, <<e>>) \in Batches /\ Nobody \in Ids /\ <<e>>[1] \in Spoken
    BY DEF Some, Events, Ids, Batch, Batches
  <2>2. CreditInv(t, b)
    BY <1>0, <1>2, <2>1, SpokenKeepsCredit
  <2>3. /\ IsService(t) /\ DiffersIn(t, s, {"outbound"})
        /\ t.outbound = Append(s.outbound, Batch(Nobody, <<e>>))
    BY <1>0, <1>2, <2>1, QueuedIs
  <2>4. Batch(Nobody, <<e>>).id = Nobody
    BY DEF Batch
  <2> HIDE DEF t
  <2>5. t.closed = s.closed /\ t.active = s.active /\ t.session = s.session /\ t.current = s.current
    BY <2>3 DEF DiffersIn, ServiceFields
  <2>6. FenceInv(t, said)
    BY <1>0, <2>1, <2>3, <2>4, <2>5, FenceKeepsWithPlain
  <2> QED BY <1>2, <2>1, <2>2, <2>6, QueueingKeeps DEF t
<1> QED BY <1>1, <1>2

LEMMA RefusedKeeps ==
  ASSUME NEW s, NEW b, NEW said, NEW settled \in SUBSET Utterances, SpeechInv(s, b, said, settled), NEW u \in Ids
  PROVE  SpeechInv(Refused(s, u), b, said, settled)
  BY SpokenKinds, PlainKeeps DEF Refused

Flow(s) == [kind |-> "flow", id |-> s.credited, through |-> s.through,
            available |-> InputFrames - Cardinality(s.reserved)]

\* A frame that the browser does not count on its own is one the service counts.
LEMMA FlowIsCredible ==
  ASSUME NEW s, NEW b, IsService(s), IsBrowser(b), CreditInv(s, b), b.state = "ready",
         NEW line, line = Append(Line(s), Flow(s))
  PROVE  \A k \in 1 .. Len(line) : IsFlow(line[k]) => IsCredible(s, b, line, k)
<1> DEFINE m == Line(s)
           n == Len(m) + 1
<1>1. m \in Seq(Events) /\ Len(m) \in Nat
  BY LineTyped
<1>2. /\ UnderWay(s, b) \subseteq b.debits
      /\ \A u \in Utterances : b.watermark[u] < s.utterance[u].next
      /\ \A k \in 1 .. Len(m) : IsFlow(m[k]) => IsCredible(s, b, m, k)
      /\ s.credited # Nobody =>
           b.status[s.credited] # "none" /\ s.through = s.utterance[s.credited].next - 1
  BY DEF CreditInv
<1>3. /\ IsFiniteSet(s.reserved) /\ Cardinality(s.reserved) \in Nat /\ InputFrames \in Nat
      /\ s.credited \in Ids /\ s.through \in Int
  BY FS_CardinalityType, ServiceAssumption DEF IsService
<1>4. Flow(s) \in Events /\ IsFlow(Flow(s))
  BY <1>3 DEF Flow, Events, FlowEvents, IsFlow
<1>4a. line = Append(m, Flow(s))
  OBVIOUS
<1> HIDE DEF m
<1>5. /\ line \in Seq(Events) /\ Len(line) = n /\ line[n] = Flow(s)
      /\ \A k \in 1 .. Len(m) : line[k] = m[k]
  BY <1>1, <1>4, <1>4a, AppendProperties
<1>6. ASSUME NEW k \in 1 .. Len(m), IsFlow(line[k])
      PROVE  IsCredible(s, b, line, k)
  <2>1. \A j \in 1 .. k : line[j] = m[j]
    BY <1>1, <1>5
  <2>2. line[k] = m[k]
    BY <1>5
  <2>3. Uncounted(s, b, line, k) = Uncounted(s, b, m, k)
    BY <2>1 DEF Uncounted
  <2>4. IsCredible(s, b, m, k)
    BY <1>2, <1>6, <2>2
  <2> QED BY <2>1, <2>2, <2>3, <2>4 DEF IsCredible
<1>7. \A j \in 1 .. Len(m) : IsFlow(line[j]) /\ line[j].id \in Utterances =>
        line[j].through \in Int /\ line[j].through < s.utterance[line[j].id].next
  BY <1>1, <1>5, <1>6, NobodyIsNone, FlowIs DEF IsCredible
<1>8. \A u \in Utterances : s.utterance[u].next \in Nat
  BY DEF IsService, UtteranceRecords
<1>9. \A j \in 1 .. n : IsFlow(line[j]) /\ line[j].id \in Utterances =>
        line[j].through \in Int /\ line[j].through < s.utterance[line[j].id].next
  <2>1. TAKE j \in 1 .. n
  <2>2. HAVE IsFlow(line[j]) /\ line[j].id \in Utterances
  <2>3. CASE j \in 1 .. Len(m)
    BY <1>7, <2>2, <2>3
  <2>4. CASE j = n
    BY <1>5, <2>4, <2>2, <1>2, <1>3, <1>8, NobodyIsNone DEF Flow
  <2>5. j \in 1 .. Len(m) \/ j = n
    BY <1>1, <2>1
  <2> QED BY <2>3, <2>4, <2>5
<1>10. Uncounted(s, b, line, n) \subseteq s.reserved
  <2>1. SUFFICES ASSUME NEW f \in Uncounted(s, b, line, n), f \notin s.reserved
                 PROVE  FALSE
    OBVIOUS
  <2>2. f \in UnderWay(s, b)
    BY <2>1 DEF Uncounted, Taken
  <2>3. PICK j \in 1 .. n : IsFlow(line[j]) /\ line[j].id = f[1] /\ line[j].through >= f[2]
    BY <1>2, <2>1, <2>2 DEF Uncounted
  <2>4. f \in Frames /\ s.utterance[f[1]].next <= f[2]
    BY <2>2 DEF UnderWay
  <2>5. f[1] \in Utterances /\ f[2] \in Nat
    BY <2>4 DEF Frames
  <2>6. line[j].through \in Int /\ line[j].through < s.utterance[f[1]].next
    BY <1>9, <2>3, <2>5
  <2>7. s.utterance[f[1]].next \in Nat
    BY <1>8, <2>5
  <2>8. line[j].through >= f[2] /\ f[2] >= s.utterance[f[1]].next
    BY <2>3, <2>4, <2>5, <2>7
  <2> DEFINE through == line[j].through
             next == s.utterance[f[1]].next
             frame == f[2]
  <2>9. through \in Int /\ through < next
    BY <2>6
  <2>10. next \in Int /\ frame \in Int
    BY <2>5, <2>7
  <2>11. through >= frame /\ frame >= next
    BY <2>8
  <2> HIDE DEF through, next, frame
  <2> QED BY <2>9, <2>10, <2>11
<1>11. IsCredible(s, b, line, n)
  <2>1. /\ line[n].id = s.credited /\ line[n].through = s.through
        /\ line[n].available = InputFrames - Cardinality(s.reserved)
    BY <1>5 DEF Flow
  <2>2. /\ Cardinality(Uncounted(s, b, line, n)) \in Nat
        /\ Cardinality(Uncounted(s, b, line, n)) <= Cardinality(s.reserved)
    BY <1>3, <1>10, FS_Subset, FS_CardinalityType
  <2>3. Cardinality(Uncounted(s, b, line, n)) + line[n].available <= InputFrames
    BY <1>3, <2>1, <2>2
  <2>4. ASSUME s.credited # Nobody
        PROVE  /\ b.watermark[s.credited] <= s.through
               /\ s.through < s.utterance[s.credited].next
               /\ \A j \in 1 .. n :
                    IsFlow(line[j]) /\ line[j].id = s.credited => line[j].through <= s.through
    <3>1. s.credited \in Utterances
      BY <1>3, <2>4 DEF Ids
    <3>2. b.watermark[s.credited] \in Int /\ s.utterance[s.credited].next \in Nat
      BY <1>8, <3>1 DEF IsBrowser
    <3>3. s.through = s.utterance[s.credited].next - 1
      BY <1>2, <2>4
    <3>4. b.watermark[s.credited] < s.utterance[s.credited].next
      BY <1>2, <3>1
    <3>5. \A j \in 1 .. n : IsFlow(line[j]) /\ line[j].id = s.credited =>
            line[j].through \in Int /\ line[j].through < s.utterance[s.credited].next
      BY <1>9, <3>1
    <3> DEFINE next == s.utterance[s.credited].next
               mark == b.watermark[s.credited]
    <3>6. next \in Nat /\ mark \in Int /\ s.through = next - 1 /\ mark < next
      BY <3>2, <3>3, <3>4
    <3> HIDE DEF next, mark
    <3>7. \A i \in Int : i < next => i <= s.through
      BY <3>6
    <3>8. s.through < next /\ mark <= s.through
      BY <3>6
    <3> QED BY <3>5, <3>7, <3>8 DEF next, mark
  <2> QED BY <1>2, <2>1, <2>3, <2>4 DEF IsCredible
<1>12. \A k \in 1 .. n : k \in 1 .. Len(m) \/ k = n
  BY <1>1
<1> QED BY <1>5, <1>6, <1>11, <1>12

LEMMA FlowSentKeeps ==
  ASSUME NEW s, NEW b, NEW said, NEW settled \in SUBSET Utterances, SpeechInv(s, b, said, settled)
  PROVE  SpeechInv(FlowSent(s), b, said, settled)
<1> DEFINE t == FlowSent(s)
           flow == Flow(s)
<1>0. IsService(s) /\ IsBrowser(b) /\ FenceInv(s, said) /\ CreditInv(s, b)
  BY DEF SpeechInv
<1>1. t = Queued(s, Nobody, <<flow>>)
  BY DEF FlowSent, Flow
<1>2. CASE s.closed
  BY <1>2 DEF FlowSent, Queued
<1>3. CASE ~s.closed
  <2>1. /\ Batch(Nobody, <<flow>>) \in Batches /\ Batch(Nobody, <<flow>>).id = Nobody
        /\ Nobody \in Ids /\ <<flow>>[1] = flow
    <3>1. IsFiniteSet(s.reserved) /\ Cardinality(s.reserved) \in Nat /\ InputFrames \in Nat
      BY <1>0, FS_CardinalityType, ServiceAssumption DEF IsService
    <3>2. s.credited \in Ids /\ s.through \in Int
      BY <1>0 DEF IsService
    <3>3. flow \in Events
      BY <3>1, <3>2 DEF Flow, Events, FlowEvents
    <3> HIDE DEF flow
    <3>4. <<flow>> \in Some(Events) /\ Nobody \in Ids /\ <<flow>>[1] = flow
      BY <3>3 DEF Some, Ids
    <3> QED BY <3>4 DEF Batch, Batches
  <2> HIDE DEF t, flow
  <2>2. /\ IsService(t) /\ DiffersIn(t, s, {"outbound"})
        /\ t.outbound = Append(s.outbound, Batch(Nobody, <<flow>>))
        /\ Line(t) = Append(Line(s), flow)
    <3> DEFINE events == <<flow>>
    <3>1. Batch(Nobody, events) \in Batches /\ events[1] = flow /\ t = Queued(s, Nobody, events)
      BY <1>1, <2>1
    <3> HIDE DEF events
    <3>2. /\ IsService(t) /\ DiffersIn(t, s, {"outbound"})
          /\ t.outbound = Append(s.outbound, Batch(Nobody, events))
          /\ Line(t) = Append(Line(s), events[1])
      BY <1>0, <1>3, <3>1, QueuedIs
    <3> QED BY <3>1, <3>2 DEF events
  <2>3. /\ t.closed = s.closed /\ t.active = s.active /\ t.session = s.session
        /\ t.current = s.current /\ t.utterance = s.utterance /\ t.header = s.header
        /\ t.overrun = s.overrun /\ t.reserved = s.reserved /\ t.credited = s.credited
        /\ t.through = s.through
    BY <2>2 DEF DiffersIn, ServiceFields
  <2>4. FenceInv(t, said)
    BY <1>0, <2>1, <2>2, <2>3, FenceKeepsWithPlain
  <2>5. CreditInv(t, b)
    <3>1. CASE b.state # "ready"
      BY <1>0, <2>3, <3>1 DEF CreditInv
    <3>2. CASE b.state = "ready"
      <4>1. \A k \in 1 .. Len(Line(t)) : IsFlow(Line(t)[k]) => IsCredible(s, b, Line(t), k)
        BY <1>0, <2>2, <3>2, FlowIsCredible DEF flow
      <4>2. UnderWay(t, b) = UnderWay(s, b)
        BY <2>3 DEF UnderWay, Unborn
      <4>3. Taken(t, b) = Taken(s, b)
        BY <2>3, <4>2 DEF Taken
      <4>4. \A l, k : Uncounted(t, b, l, k) = Uncounted(s, b, l, k)
        BY <4>3 DEF Uncounted
      <4>5. \A l, k : IsCredible(t, b, l, k) <=> IsCredible(s, b, l, k)
        BY <2>3, <4>4 DEF IsCredible
      <4> QED BY <1>0, <2>3, <3>2, <4>1, <4>2, <4>3, <4>5 DEF CreditInv
    <3> QED BY <3>1, <3>2
  <2>6. FenceInv(Queued(s, Nobody, <<flow>>), said) /\ CreditInv(Queued(s, Nobody, <<flow>>), b)
    BY <1>1, <2>4, <2>5
  <2>7. SpeechInv(Queued(s, Nobody, <<flow>>), b, said, settled)
    BY <1>3, <2>1, <2>6, QueueingKeeps
  <2> QED BY <1>1, <2>7 DEF t
<1> QED BY <1>2, <1>3

\* Nothing has been said yet that ends the utterance.
IsOpen(s, said, u) ==
  /\ said[u] = "open"
  /\ s.current.id = u => ~Ends(s.current)
  /\ \A i \in 1 .. Len(s.outbound) : s.outbound[i].id = u => ~Ends(s.outbound[i])

LEMMA ScopedKeeps ==
  ASSUME NEW s, NEW b, NEW said, NEW settled \in SUBSET Utterances, SpeechInv(s, b, said, settled),
         NEW u \in Utterances, NEW events \in Some(Spoken),
         ~s.closed => IsOpen(s, said, u),
         Ends(Batch(u, events)) => s.active # u /\ ~Unborn(s, u)
  PROVE  SpeechInv(Queued(s, u, events), b, said, settled)
<1> DEFINE t == Queued(s, u, events)
<1>0. IsService(s) /\ IsBrowser(b) /\ FenceInv(s, said) /\ CreditInv(s, b)
  BY DEF SpeechInv
<1>1. CASE s.closed
  BY <1>1 DEF Queued
<1>2. CASE ~s.closed
  <2>1. Batch(u, events) \in Batches /\ u \in Ids /\ events[1] \in Spoken
    BY DEF Some, Ids, Batch, Batches
  <2>2. CreditInv(t, b)
    BY <1>0, <1>2, <2>1, SpokenKeepsCredit
  <2>3. /\ IsService(t) /\ DiffersIn(t, s, {"outbound"})
        /\ t.outbound = Append(s.outbound, Batch(u, events))
    BY <1>0, <1>2, <2>1, QueuedIs
  <2> HIDE DEF t
  <2>4. t.closed = s.closed /\ t.active = s.active /\ t.session = s.session /\ t.current = s.current
    BY <2>3 DEF DiffersIn, ServiceFields
  <2>5. /\ s.outbound \in Seq(Batches) /\ Len(s.outbound) \in Nat
        /\ Len(t.outbound) = Len(s.outbound) + 1
        /\ t.outbound[Len(s.outbound) + 1] = Batch(u, events)
        /\ \A i \in 1 .. Len(s.outbound) : t.outbound[i] = s.outbound[i]
    BY <1>0, <2>1, <2>3, AppendProperties DEF IsService
  <2>6. Batch(u, events).id = u
    BY DEF Batch
  <2>7. FenceInv(t, said)
    <3> SUFFICES ASSUME NEW v \in Utterances PROVE IsFenced(t, said, v)
      BY <1>0 DEF FenceInv
    <3>1. IsFenced(s, said, v)
      BY <1>0 DEF FenceInv
    <3>2. CASE v # u
      <4>1. \A i \in 1 .. Len(t.outbound) : t.outbound[i].id = v =>
              i \in 1 .. Len(s.outbound) /\ t.outbound[i] = s.outbound[i]
        BY <2>5, <2>6, <3>2
      <4> QED BY <2>4, <3>1, <4>1 DEF IsFenced, Unborn
    <3>3. CASE v = u
      <4>1. IsOpen(s, said, v)
        BY <1>2, <3>3
      <4>2. \A i \in 1 .. Len(t.outbound) :
              \/ i \in 1 .. Len(s.outbound) /\ t.outbound[i] = s.outbound[i]
              \/ i = Len(t.outbound) /\ t.outbound[i] = Batch(u, events)
        BY <2>5
      <4>3. s.active = v \/ Unborn(s, v) => ~Ends(Batch(u, events))
        BY <3>3
      <4>4. \A i, j \in 1 .. Len(t.outbound) : i < j => i \in 1 .. Len(s.outbound)
        BY <2>5
      <4>5. s.active = v \/ Unborn(s, v) =>
              \A i \in 1 .. Len(t.outbound) : t.outbound[i].id = v => ~Ends(t.outbound[i])
        BY <4>1, <4>2, <4>3 DEF IsOpen
      <4>6. \A i, j \in 1 .. Len(t.outbound) :
              i < j /\ t.outbound[i].id = v => ~Ends(t.outbound[i])
        BY <2>5, <4>1, <4>4 DEF IsOpen
      <4> QED BY <2>4, <4>1, <4>5, <4>6 DEF IsFenced, IsOpen, Unborn
    <3> QED BY <3>2, <3>3
  <2> QED BY <1>2, <2>1, <2>2, <2>7, QueueingKeeps DEF t
<1> QED BY <1>1, <1>2

-----------------------------------------------------------------------------
(* What a step leaves of the work for the utterances it is not about *)

IsPartFor(r, q, u) ==
  /\ \A k \in 1 .. Len(r) : r[k][1] = u => \E i \in 1 .. Len(q) : r[k] = q[i]
  /\ \A j, k \in 1 .. Len(r) : j < k /\ r[j][1] = u /\ r[k][1] = u =>
       \E i, l \in 1 .. Len(q) : i < l /\ r[j] = q[i] /\ r[k] = q[l]

IsApart(t, s, u) ==
  /\ t.session[u] = s.session[u] /\ t.utterance[u] = s.utterance[u]
  /\ t.terminal[u] = s.terminal[u] /\ t.fence[u] \in {s.fence[u], "none"}
  /\ u \in s.leases => u \in t.leases
  /\ t.active = u => s.active = u
  /\ t.creating = u <=> s.creating = u
  /\ t.creating = u => t.active = Nobody
  /\ t.worker[1] = u <=> s.worker[1] = u
  /\ t.worker[1] = u => t.worker = s.worker
  /\ t.header[1] = u => t.header = s.header
  /\ IsPartFor(t.frames, s.frames, u)
  /\ t.credited = u => s.credited = u \/ ~Unborn(t, u)
  /\ s.closed => t.closed

WorksFor(s, u) == HoldsRecognizer(s, u) /\ StillSilent(s, u) /\ IsWhole(s, u)

LEMMA WorkOthers ==
  ASSUME NEW s, NEW t, NEW u, WorksFor(s, u), IsApart(t, s, u)
  PROVE  WorksFor(t, u) /\ (HeardInOrder(s, u) => HeardInOrder(t, u))
<1>1. HoldsRecognizer(t, u)
  BY DEF WorksFor, HoldsRecognizer, IsApart
<1>2. \A k \in 1 .. Len(t.frames) : t.frames[k][1] = u =>
        \E i \in 1 .. Len(s.frames) : s.frames[i][1] = u /\ t.frames[k] = s.frames[i]
  BY DEF IsApart, IsPartFor
<1>3. StillSilent(t, u)
  BY <1>2 DEF WorksFor, StillSilent, IsApart, Unborn
<1>4. IsWhole(t, u)
  BY DEF WorksFor, IsWhole, IsApart
<1>5. ASSUME HeardInOrder(s, u), t.active = u
      PROVE  HeardInOrder(t, u)
  <2>1. \A j, k \in 1 .. Len(t.frames) : j < k /\ t.frames[j][1] = u /\ t.frames[k][1] = u =>
          \E i, l \in 1 .. Len(s.frames) :
            i < l /\ s.frames[i] = t.frames[j] /\ s.frames[l] = t.frames[k]
    BY DEF IsApart, IsPartFor
  <2>2. /\ t.utterance[u] = s.utterance[u] /\ s.active = u
        /\ t.worker[1] = u <=> s.worker[1] = u
        /\ t.worker[1] = u => t.worker = s.worker
        /\ t.header[1] = u => t.header = s.header
    BY <1>5 DEF IsApart
  <2> DEFINE from == IF s.worker[1] = u THEN s.worker[2] + 1 ELSE s.utterance[u].heard
             next == s.utterance[u].next
  <2>3. /\ s.utterance[u].pending = next - s.utterance[u].heard /\ s.utterance[u].heard <= next
        /\ s.worker[1] = u => s.worker[2] \in s.utterance[u].heard .. next - 1
        /\ s.utterance[u].finalizer # "none" =>
             s.utterance[u].pending = 0 /\ s.utterance[u].status = "finalizing" /\ s.header[1] # u
        /\ s.header[1] = u => s.header[2] = next
    BY <1>5, <2>2 DEF HeardInOrder
  <2>4. \A i \in 1 .. Len(s.frames) : s.frames[i][1] = u => s.frames[i][2] \in from .. next - 1
    BY <1>5, <2>2 DEF HeardInOrder
  <2>5. \A i, j \in 1 .. Len(s.frames) :
          s.frames[i][1] = u /\ i < j /\ s.frames[j][1] = u => s.frames[i][2] < s.frames[j][2]
    BY <1>5, <2>2 DEF HeardInOrder
  <2> HIDE DEF from, next
  <2>6. \A i \in 1 .. Len(t.frames) : t.frames[i][1] = u => t.frames[i][2] \in from .. next - 1
    BY <1>2, <2>4
  <2>7. \A i, j \in 1 .. Len(t.frames) :
          t.frames[i][1] = u /\ i < j /\ t.frames[j][1] = u => t.frames[i][2] < t.frames[j][2]
    BY <2>1, <2>5
  <2>8. from = IF t.worker[1] = u THEN t.worker[2] + 1 ELSE t.utterance[u].heard
    BY <2>2 DEF from
  <2>9. next = t.utterance[u].next
    BY <2>2 DEF next
  <2> QED BY <2>2, <2>3, <2>6, <2>7, <2>8, <2>9 DEF HeardInOrder
<1>6. t.active # u => HeardInOrder(t, u)
  BY DEF HeardInOrder
<1> QED BY <1>1, <1>3, <1>4, <1>5, <1>6 DEF WorksFor

LEMMA PartForAll ==
  ASSUME NEW r, NEW q, IsPartOf(r, q)
  PROVE  \A u : IsPartFor(r, q, u)
  BY DEF IsPartOf, IsPartFor

LEMMA PartOfItself ==
  ASSUME NEW q
  PROVE  IsPartOf(q, q)
  BY DEF IsPartOf

-----------------------------------------------------------------------------
(* Cancellation *)

LEMMA EndCancelKeeps ==
  ASSUME NEW s, NEW b, NEW said, NEW settled \in SUBSET Utterances, SpeechInv(s, b, said, settled),
         NEW u \in Utterances, s.active # u, ~Unborn(s, u)
  PROVE  SpeechInv(EndCancel(s, u), b, said, settled)
<1>0. /\ IsService(s) /\ IsBrowser(b) /\ WorkInv(s, settled) /\ FenceInv(s, said)
      /\ ChannelInv(s, b, settled) /\ CreditInv(s, b)
  BY DEF SpeechInv
<1> DEFINE p == [s EXCEPT !.frames   = FramesWithout(@, u),
                          !.reserved = {f \in @ : f[1] # u},
                          !.fence[u] = "none"]
           t == Disposed(p, u)
<1>1. EndCancel(s, u) = FlowSent(t)
  BY DEF EndCancel
<1>2. ServiceFields \subseteq DOMAIN s
  BY <1>0 DEF IsService
<1>3. /\ s.frames \in Seq(Frames) /\ s.session \in [Utterances -> Sessions]
      /\ s.fence \in [Utterances -> Fences] /\ s.reserved \subseteq Frames
      /\ IsFiniteSet(s.reserved)
  BY <1>0 DEF IsService
<1>4. /\ FramesWithout(s.frames, u) \in Seq(Frames)
      /\ IsPartOf(FramesWithout(s.frames, u), s.frames)
  BY <1>3, FramesWithoutIs
<1>5. /\ DiffersIn(p, s, {"frames", "reserved", "fence"})
      /\ p.frames = FramesWithout(s.frames, u) /\ p.reserved = {f \in s.reserved : f[1] # u}
      /\ p.fence = [s.fence EXCEPT ![u] = "none"]
  BY <1>2 DEF DiffersIn, ServiceFields
<1> HIDE DEF p
<1>6. /\ DiffersIn(t, s, {"frames", "reserved", "fence", "session"})
      /\ t.frames = FramesWithout(s.frames, u) /\ t.reserved = {f \in s.reserved : f[1] # u}
      /\ t.fence = [s.fence EXCEPT ![u] = "none"]
      /\ t.session = IF s.session[u] = "open" THEN [s.session EXCEPT ![u] = "cancelling"]
                     ELSE s.session
  <2>1. ServiceFields \subseteq DOMAIN p /\ p.session = s.session
    BY <1>2, <1>5 DEF DiffersIn, ServiceFields
  <2>2. CASE s.session[u] = "open"
    <3>1. t = [p EXCEPT !.session = [s.session EXCEPT ![u] = "cancelling"]]
      BY <2>1, <2>2 DEF Disposed
    <3> HIDE DEF t
    <3>2. DiffersIn(t, p, {"session"}) /\ t.session = [s.session EXCEPT ![u] = "cancelling"]
      BY <2>1, <3>1 DEF DiffersIn, ServiceFields
    <3> QED BY <1>5, <2>2, <3>2 DEF DiffersIn, ServiceFields
  <2>3. CASE s.session[u] # "open"
    BY <2>1, <2>3, <1>5 DEF Disposed, DiffersIn, ServiceFields
  <2> QED BY <2>2, <2>3
<1> HIDE DEF t
<1>7. /\ t.closed = s.closed /\ t.active = s.active /\ t.utterance = s.utterance
      /\ t.terminal = s.terminal /\ t.header = s.header /\ t.credited = s.credited
      /\ t.through = s.through /\ t.worker = s.worker /\ t.creating = s.creating
      /\ t.outbound = s.outbound /\ t.current = s.current /\ t.leases = s.leases
      /\ t.overrun = s.overrun /\ t.outgoing = s.outgoing /\ ServiceFields \subseteq DOMAIN t
  BY <1>2, <1>6 DEF DiffersIn, ServiceFields
<1>8. /\ \A v \in Utterances : v # u => t.session[v] = s.session[v] /\ t.fence[v] = s.fence[v]
      /\ s.session[u] = "open" => t.session[u] = "cancelling"
      /\ s.session[u] # "open" => t.session[u] = s.session[u]
      /\ t.fence[u] = "none"
      /\ t.session \in [Utterances -> Sessions] /\ t.fence \in [Utterances -> Fences]
  BY <1>3, <1>6 DEF Sessions, Fences
<1>9. IsService(t)
  BY <1>3, <1>6, <1>4, <1>0, <1>7, <1>8, FS_Subset DEF IsService
<1>10. \A v \in Utterances : Unborn(t, v) <=> Unborn(s, v)
  BY <1>8 DEF Unborn
<1>11. WorkInv(t, settled)
  <2>1. ASSUME NEW v \in Utterances, v # u
        PROVE  IsApart(t, s, v)
    <3>1. IsPartFor(t.frames, s.frames, v)
      BY <1>4, <1>6, PartForAll
    <3>2. s.creating = v => s.active = Nobody
      BY <1>0 DEF WorkInv, HoldsRecognizer
    <3> QED BY <1>7, <1>8, <2>1, <3>1, <3>2 DEF IsApart
  <2>2. \A v \in Utterances : WorksFor(s, v)
    BY <1>0 DEF WorkInv, WorksFor
  <2>3. \A v \in Utterances : v # u => WorksFor(t, v) /\ (HeardInOrder(s, v) => HeardInOrder(t, v))
    BY <2>1, <2>2, WorkOthers
  <2>4. HoldsRecognizer(t, u) /\ IsWhole(t, u)
    BY <1>7, <1>8, <2>2 DEF WorksFor, HoldsRecognizer, IsWhole
  <2>5. StillSilent(t, u) /\ HeardInOrder(t, u)
    BY <1>7, <1>10 DEF StillSilent, HeardInOrder
  <2>6. \A f \in t.reserved : f[2] < t.utterance[f[1]].next
    BY <1>0, <1>6, <1>7 DEF WorkInv
  <2>7. t.active \in settled => t.session[t.active] = "open" /\ t.utterance[t.active].finalizer # "late"
    BY <1>7, <1>0, <1>8 DEF WorkInv
  <2> QED BY <1>0, <1>7, <2>3, <2>4, <2>5, <2>6, <2>7 DEF WorkInv, WorksFor
<1>12. FenceInv(t, said)
  BY <1>0, <1>7, <1>10, PartOfItself, FenceShrinks
<1>13. ChannelInv(t, b, settled)
  BY <1>7, <1>8, <1>0, ChannelShrinks DEF IsQuieter, Listening
<1>14. CreditInv(t, b)
  <2>1. Line(t) = Line(s)
    BY <1>7 DEF Line
  <2>2. Embeds(Line(t), Line(s))
    BY <1>0, <2>1, LineTyped, EmbedsItself
  <2>3. t.reserved \subseteq s.reserved
    BY <1>6
  <2>4. /\ s.overrun = FALSE
        /\ s.credited # Nobody => s.through = s.utterance[s.credited].next - 1
        /\ s.credited # Nobody /\ b.state = "ready" => b.status[s.credited] # "none"
        /\ s.active # Nobody => s.credited = s.active
    BY <1>0 DEF CreditInv
  <2> QED BY <1>0, <1>7, <1>9, <1>10, <2>2, <2>3, <2>4, CreditShrinks
<1>15. SpeechInv(t, b, said, settled)
  BY <1>0, <1>9, <1>11, <1>12, <1>13, <1>14 DEF SpeechInv
<1> QED BY <1>1, <1>15, FlowSentKeeps

LEMMA CancelActiveKeeps ==
  ASSUME NEW s, NEW b, NEW said, NEW u \in Utterances, s.active = u,
         SpeechInv(s, b, said, Utterances \ {u}),
         NEW task \in Fences, NEW errors \in Seq(Spoken)
  PROVE  SpeechInv(CancelActive(s, u, task, errors), b, said, Utterances)
<1>0. /\ IsService(s) /\ IsBrowser(b) /\ WorkInv(s, Utterances \ {u}) /\ FenceInv(s, said)
      /\ ChannelInv(s, b, Utterances \ {u}) /\ CreditInv(s, b)
  BY DEF SpeechInv
<1> DEFINE fenced == s.current.id = u
           e == [s EXCEPT !.active = Nobody,
                          !.utterance[u].status = "cancelled",
                          !.terminal[u] = "cancelled",
                          !.header = IF @[1] = u THEN NoFrame ELSE @,
                          !.outbound = Purged(@, u),
                          !.current.cut = @ \/ fenced,
                          !.fence[u] = IF fenced THEN task ELSE "none"]
           events == errors \o <<Event("ended", u), Event("cancelled", u)>>
           q == Queued(e, u, events)
<1>1. CancelActive(s, u, task, errors) = IF fenced THEN q ELSE EndCancel(q, u)
  BY DEF CancelActive
<1>2. /\ ServiceFields \subseteq DOMAIN s
      /\ s.utterance \in [Utterances -> UtteranceRecords]
      /\ s.terminal \in [Utterances -> Terminals] /\ s.fence \in [Utterances -> Fences]
      /\ s.session \in [Utterances -> Sessions]
      /\ s.outbound \in Seq(Batches) /\ s.outgoing \in Seq(Events)
      /\ s.current \in [id : Ids, events : Seq(Spoken), cut : BOOLEAN]
      /\ s.header \in Frames \cup {NoFrame}
  BY <1>0 DEF IsService
<1>3. /\ Purged(s.outbound, u) \in Seq(Batches)
      /\ IsPartOf(Purged(s.outbound, u), s.outbound)
      /\ \A k \in 1 .. Len(Purged(s.outbound, u)) : Purged(s.outbound, u)[k].id # u
      /\ Embeds(LineOf(s.outgoing, Purged(s.outbound, u)), LineOf(s.outgoing, s.outbound))
  BY <1>2, PurgedIs
<1>4. /\ DiffersIn(e, s, {"active", "utterance", "terminal", "header", "outbound", "current", "fence"})
      /\ e.active = Nobody
      /\ e.utterance = [s.utterance EXCEPT ![u].status = "cancelled"]
      /\ e.terminal = [s.terminal EXCEPT ![u] = "cancelled"]
      /\ e.header = IF s.header[1] = u THEN NoFrame ELSE s.header
      /\ e.outbound = Purged(s.outbound, u)
      /\ e.current = [s.current EXCEPT !.cut = s.current.cut \/ fenced]
      /\ e.fence = [s.fence EXCEPT ![u] = IF fenced THEN task ELSE "none"]
  BY <1>2 DEF DiffersIn, ServiceFields
<1> HIDE DEF e
<1>5. /\ e.closed = s.closed /\ e.credited = s.credited /\ e.through = s.through
      /\ e.worker = s.worker /\ e.creating = s.creating /\ e.leases = s.leases
      /\ e.overrun = s.overrun /\ e.outgoing = s.outgoing /\ e.session = s.session
      /\ e.reserved = s.reserved /\ e.frames = s.frames /\ ServiceFields \subseteq DOMAIN e
  BY <1>2, <1>4 DEF DiffersIn, ServiceFields
<1>6. /\ e.utterance \in [Utterances -> UtteranceRecords]
      /\ \A v \in Utterances : v # u => e.utterance[v] = s.utterance[v]
      /\ e.utterance[u].next = s.utterance[u].next
      /\ e.utterance[u].reason = s.utterance[u].reason
      /\ e.utterance[u].finalizer = s.utterance[u].finalizer
      /\ e.utterance[u].status = "cancelled"
  <2>1. s.utterance[u] \in UtteranceRecords
    BY <1>2
  <2>2. e.utterance[u] = [s.utterance[u] EXCEPT !.status = "cancelled"]
    BY <1>2, <1>4
  <2>3. /\ e.utterance[u] \in UtteranceRecords
        /\ e.utterance[u].next = s.utterance[u].next
        /\ e.utterance[u].reason = s.utterance[u].reason
        /\ e.utterance[u].finalizer = s.utterance[u].finalizer
        /\ e.utterance[u].status = "cancelled"
    BY <2>1, <2>2 DEF UtteranceRecords
  <2>4. \A v \in Utterances : v # u => e.utterance[v] = s.utterance[v]
    BY <1>2, <1>4
  <2>5. e.utterance = [v \in Utterances |-> IF v = u THEN e.utterance[u] ELSE s.utterance[v]]
    BY <1>2, <1>4
  <2>6. e.utterance \in [Utterances -> UtteranceRecords]
    BY <1>2, <2>3, <2>5
  <2> QED BY <2>3, <2>4, <2>6
<1>7. /\ e.terminal \in [Utterances -> Terminals] /\ e.fence \in [Utterances -> Fences]
      /\ \A v \in Utterances : v # u => e.terminal[v] = s.terminal[v] /\ e.fence[v] = s.fence[v]
      /\ e.terminal[u] = "cancelled"
  BY <1>2, <1>4 DEF Terminals, Fences
<1>8. /\ e.current \in [id : Ids, events : Seq(Spoken), cut : BOOLEAN]
      /\ e.current.id = s.current.id /\ e.current.events = s.current.events
  BY <1>2, <1>4
<1>9. /\ e.header \in Frames \cup {NoFrame}
      /\ e.header[1] # u
      /\ \A v \in Utterances : v # u => (e.header[1] = v <=> s.header[1] = v)
      /\ \A v \in Utterances : e.header[1] = v => e.header = s.header
      /\ e.header # NoFrame => s.header # NoFrame
  BY <1>2, <1>4, NobodyIsNone DEF NoFrame
<1>10. IsService(e)
  BY <1>0, <1>3, <1>4, <1>5, <1>6, <1>7, <1>8, <1>9 DEF IsService, Ids
<1>11. ~s.closed /\ s.session[u] \in {"open", "released"} /\ ~Unborn(s, u)
  BY <1>0, NobodyIsNone DEF WorkInv, HoldsRecognizer, Unborn
<1>12. WorkInv(e, Utterances)
  <2>1. ASSUME NEW v \in Utterances, v # u
        PROVE  IsApart(e, s, v)
    <3>1. IsPartFor(e.frames, s.frames, v)
      BY <1>5, PartOfItself, PartForAll
    <3>2. e.active # v
      BY <1>4, NobodyIsNone
    <3> QED BY <1>4, <1>5, <1>6, <1>7, <1>9, <2>1, <3>1, <3>2 DEF IsApart
  <2>2. \A v \in Utterances : WorksFor(s, v)
    BY <1>0 DEF WorkInv, WorksFor
  <2>3. \A v \in Utterances : v # u => WorksFor(e, v)
    BY <2>1, <2>2, WorkOthers
  <2>4. e.active # u
    BY <1>4, NobodyIsNone
  <2>5. HoldsRecognizer(e, u) /\ IsWhole(e, u)
    BY <1>4, <1>5, <1>6, <1>7, <1>11, <2>2, <2>4 DEF WorksFor, HoldsRecognizer, IsWhole
  <2>6. StillSilent(e, u)
    BY <1>5, <1>11 DEF StillSilent, Unborn
  <2>7. \A v \in Utterances : HeardInOrder(e, v)
    BY <1>4, NobodyIsNone DEF HeardInOrder
  <2>8. \A f \in e.reserved : f[2] < e.utterance[f[1]].next
    <3>1. \A f \in Frames : f[1] \in Utterances
      BY DEF Frames
    <3>2. s.reserved \subseteq Frames
      BY <1>0 DEF IsService
    <3> QED BY <1>0, <1>5, <1>6, <3>1, <3>2 DEF WorkInv
  <2> QED
    BY <1>0, <1>4, <1>5, <1>11, <2>3, <2>5, <2>6, <2>7, <2>8, NobodyIsNone DEF WorkInv, WorksFor
<1>13. FenceInv(e, said)
  BY <1>4, <1>5, <1>0, <1>3, <1>8, NobodyIsNone, FenceShrinks DEF Unborn
<1>14. ChannelInv(e, b, Utterances)
  <2>1. \A v \in Utterances : IsQuieter(e, s, v)
    BY <1>4, <1>5, <1>6, <1>9, NobodyIsNone DEF IsQuieter, Listening
  <2>2. ~Awaited(e, b, u)
    BY <1>4, <1>5, <1>11, NobodyIsNone DEF Awaited, Listening
  <2> QED BY <1>0, <1>5, <1>9, <2>1, <2>2, ChannelShrinks
<1>15. CreditInv(e, b)
  <2>1. Line(e) = LineOf(s.outgoing, Purged(s.outbound, u)) /\ Line(s) = LineOf(s.outgoing, s.outbound)
    BY <1>4, <1>5 DEF Line, LineOf
  <2>2. \A v \in Utterances :
          /\ e.utterance[v].next = s.utterance[v].next
          /\ Unborn(e, v) \/ e.active = v => Unborn(s, v) \/ s.active = v
    BY <1>4, <1>5, <1>6, NobodyIsNone DEF Unborn
  <2>3. /\ s.overrun = FALSE
        /\ s.credited # Nobody => s.through = s.utterance[s.credited].next - 1
        /\ s.credited # Nobody /\ b.state = "ready" => b.status[s.credited] # "none"
    BY <1>0 DEF CreditInv
  <2>4. s.credited # Nobody => s.credited \in Utterances
    BY <1>0 DEF IsService, Ids
  <2>5. e.credited # Nobody => e.through = e.utterance[e.credited].next - 1
    BY <1>5, <2>2, <2>3, <2>4
  <2>6. Embeds(Line(e), Line(s))
    BY <1>3, <2>1
  <2>7. /\ e.credited # Nobody /\ b.state = "ready" => b.status[e.credited] # "none"
        /\ e.overrun = FALSE /\ e.reserved \subseteq s.reserved
    BY <1>5, <2>3
  <2> QED BY <1>0, <1>4, <1>10, <2>2, <2>5, <2>6, <2>7, CreditShrinks
<1>16. SpeechInv(e, b, said, Utterances)
  BY <1>0, <1>10, <1>12, <1>13, <1>14, <1>15 DEF SpeechInv
<1>17. IsOpen(e, said, u)
  BY <1>0, <1>11, <1>8, <1>3, <1>4 DEF FenceInv, IsFenced, Ends, IsOpen
<1>18. events \in Some(Spoken)
  <2>1. Event("ended", u) \in Spoken /\ Event("cancelled", u) \in Spoken
    BY SpokenKinds DEF Ids
  <2>2. /\ <<Event("ended", u), Event("cancelled", u)>> \in Seq(Spoken)
        /\ Len(<<Event("ended", u), Event("cancelled", u)>>) = 2
    BY <2>1
  <2>3. events \in Seq(Spoken) /\ Len(events) = Len(errors) + 2 /\ Len(errors) \in Nat
    BY <2>2, ConcatProperties
  <2> HIDE DEF events
  <2>4. events # <<>>
    BY <2>3
  <2> QED BY <2>3, <2>4 DEF Some
<1> HIDE DEF events
<1>19. SpeechInv(q, b, said, Utterances)
  BY <1>4, <1>5, <1>11, <1>16, <1>17, <1>18, NobodyIsNone, ScopedKeeps DEF Unborn
<1>20. q.active # u /\ ~Unborn(q, u)
  BY <1>5, <1>11, <1>4, NobodyIsNone DEF Queued, Unborn
<1> HIDE DEF q
<1>21. SpeechInv(EndCancel(q, u), b, said, Utterances)
  BY <1>19, <1>20, EndCancelKeeps
<1> QED BY <1>1, <1>19, <1>21

LEMMA FailedKeeps ==
  ASSUME NEW s, NEW b, NEW said, NEW u \in Utterances, s.active = u,
         SpeechInv(s, b, said, Utterances \ {u}), NEW task \in Fences
  PROVE  SpeechInv(Failed(s, u, task), b, said, Utterances)
<1>1. <<Event("error", u)>> \in Seq(Spoken)
  BY SpokenKinds DEF Ids
<1> QED BY <1>1, CancelActiveKeeps DEF Failed

\* What is settled for all is settled for some.
LEMMA SettledShrinks ==
  ASSUME NEW s, NEW b, NEW said, SpeechInv(s, b, said, Utterances), NEW settled \in SUBSET Utterances
  PROVE  SpeechInv(s, b, said, settled)
  BY DEF WorkInv, ChannelInv, SpeechInv

LEMMA CancelledKeeps ==
  ASSUME NEW s, NEW b, NEW said, NEW u \in Utterances, SpeechInv(s, b, said, Utterances)
  PROVE  SpeechInv(Cancelled(s, u), b, said, Utterances)
<1>1. u \in Ids /\ Event("cancelled", u) \in Spoken
  BY SpokenKinds DEF Ids
<1>2. CASE s.active = u
  <2>1. SpeechInv(s, b, said, Utterances \ {u})
    BY SettledShrinks
  <2>2. <<>> \in Seq(Spoken) /\ "receive" \in Fences
    BY DEF Fences
  <2> QED BY <1>2, <2>1, <2>2, CancelActiveKeeps DEF Cancelled
<1>3. CASE s.active # u
  BY <1>1, <1>3, RefusedKeeps, PlainKeeps DEF Cancelled
<1> QED BY <1>2, <1>3

-----------------------------------------------------------------------------
(* The browser *)

IsHeader(m, u) == m.kind = "header" /\ m.id = u
IsEnd(m, u)    == m.kind = "end" /\ m.id = u

LEMMA TrackedGrows ==
  ASSUME NEW s, NEW b, NEW c, NEW u \in Utterances, NEW m \in Messages, IsTracked(s, b, u),
         b.outgoing \in Seq(Messages), b.sent[u] \in Nat,
         c.outgoing = Append(b.outgoing, m),
         IF IsHeader(m, u) THEN m.sequence = b.sent[u] /\ c.sent[u] = b.sent[u] + 1
                           ELSE c.sent[u] = b.sent[u],
         \A i \in 1 .. Len(b.outgoing) : IsEnd(b.outgoing[i], u) => ~IsHeader(m, u)
  PROVE  IsTracked(s, c, u)
<1> DEFINE n == Len(b.outgoing)
<1>1. PICK w \in [1 .. n + 1 -> 0 .. b.sent[u]] : Counts(s, b, u, w)
  BY DEF IsTracked
<1>2. /\ n \in Nat /\ c.outgoing \in Seq(Messages) /\ Len(c.outgoing) = n + 1
      /\ \A i \in 1 .. n : c.outgoing[i] = b.outgoing[i]
      /\ c.outgoing[n + 1] = m
  BY AppendProperties
<1> DEFINE x == [i \in 1 .. n + 2 |-> IF i <= n + 1 THEN w[i] ELSE c.sent[u]]
<1>3. /\ w[1] = Due(s, u) /\ w[n + 1] = b.sent[u]
      /\ \A i \in 1 .. n :
           IF IsHeader(b.outgoing[i], u)
             THEN b.outgoing[i].sequence = w[i] /\ w[i + 1] = w[i] + 1
             ELSE w[i + 1] = w[i]
      /\ \A i \in 1 .. n : IsEnd(b.outgoing[i], u) => w[i] = b.sent[u]
  BY <1>1 DEF Counts, IsHeader, IsEnd
<1> HIDE DEF n
<1>4. c.sent[u] \in Nat /\ b.sent[u] <= c.sent[u]
  BY DEF IsHeader
<1>5. x \in [1 .. n + 2 -> 0 .. c.sent[u]]
  BY <1>1, <1>2, <1>4
<1>6. x[1] = Due(s, u) /\ x[n + 2] = c.sent[u]
  BY <1>2, <1>3
<1>7. \A i \in 1 .. n : x[i] = w[i] /\ x[i + 1] = w[i + 1]
  BY <1>2
<1>8. x[n + 1] = b.sent[u]
  BY <1>2, <1>3
<1> HIDE DEF x
<1>9. ASSUME NEW i \in 1 .. n + 1
      PROVE  /\ IF IsHeader(c.outgoing[i], u)
                  THEN c.outgoing[i].sequence = x[i] /\ x[i + 1] = x[i] + 1
                  ELSE x[i + 1] = x[i]
             /\ IsEnd(c.outgoing[i], u) => x[i] = c.sent[u]
  <2>1. CASE i = n + 1
    BY <1>2, <1>6, <1>8, <2>1 DEF IsHeader, IsEnd
  <2>2. CASE i \in 1 .. n
    BY <1>2, <1>7, <2>2, <1>3 DEF n
  <2> QED BY <1>2, <2>1, <2>2
<1>10. (n + 1) + 1 = n + 2
  BY <1>2
<1>11. Counts(s, c, u, x)
  BY <1>2, <1>5, <1>6, <1>9, <1>10 DEF Counts, IsHeader, IsEnd
<1> QED BY <1>2, <1>5, <1>10, <1>11 DEF IsTracked

LEMMA CreditSeen ==
  ASSUME NEW s, NEW b, NEW c, IsService(s), IsBrowser(b), CreditInv(s, b),
         c.state = b.state, c.sent = b.sent, c.debits = b.debits,
         c.watermark = b.watermark, c.available = b.available,
         \A u \in Utterances : c.status[u] = "none" => b.status[u] = "none"
  PROVE  CreditInv(s, c)
<1>1. UnderWay(s, c) = UnderWay(s, b)
  BY DEF UnderWay
<1>2. Taken(s, c) = Taken(s, b)
  BY <1>1 DEF Taken
<1>3. \A l, k : Uncounted(s, c, l, k) = Uncounted(s, b, l, k)
  BY <1>2 DEF Uncounted
<1>4. ASSUME NEW k \in 1 .. Len(Line(s)), IsFlow(Line(s)[k]), IsCredible(s, b, Line(s), k)
      PROVE  IsCredible(s, c, Line(s), k)
  BY <1>4, <1>3, LineTyped, FlowIs DEF IsCredible, Ids
<1>5. s.credited # Nobody => s.credited \in Utterances
  BY DEF IsService, Ids
<1> QED BY <1>1, <1>2, <1>4, <1>5 DEF CreditInv

\* The browser sends no more than the end of an utterance it knows.
Moves(c, b) ==
  /\ IsBrowser(c)
  /\ c.state = b.state /\ c.sent = b.sent /\ c.debits = b.debits
  /\ c.watermark = b.watermark /\ c.available = b.available
  /\ \A u \in Utterances : c.status[u] = "none" => b.status[u] = "none"
  /\ c.recording \in {b.recording, Nobody}
  /\ c.forwarding => b.forwarding /\ c.recording = b.recording
  /\ \/ c.outgoing = b.outgoing
     \/ \E m \in Orders :
          /\ c.outgoing = Append(b.outgoing, m)
          /\ c.status[m.id] # "none"
          /\ m.kind = "end" => ~(c.forwarding /\ c.recording = m.id)

LEMMA BrowserMoves ==
  ASSUME NEW s, NEW b, NEW c, NEW said, SpeechInv(s, b, said, Utterances),
         b.state = "ready", Moves(c, b)
  PROVE  SpeechInv(s, c, said, Utterances)
<1>0. /\ IsService(s) /\ IsBrowser(b) /\ IsBrowser(c) /\ ChannelInv(s, b, Utterances)
      /\ CreditInv(s, b) /\ WorkInv(s, Utterances) /\ FenceInv(s, said)
  BY DEF SpeechInv, Moves
<1>1. /\ c.state = "ready" /\ c.sent = b.sent /\ c.debits = b.debits
      /\ c.watermark = b.watermark /\ c.available = b.available
      /\ \A u \in Utterances : c.status[u] = "none" => b.status[u] = "none"
      /\ c.recording \in {b.recording, Nobody}
      /\ c.forwarding => b.forwarding /\ c.recording = b.recording
  BY DEF Moves
<1>2. b.outgoing \in Seq(Messages) /\ Len(b.outgoing) \in Nat /\ b.sent \in [Utterances -> Nat]
  BY <1>0 DEF IsBrowser
<1>3. CreditInv(s, c)
  BY <1>0, <1>1, CreditSeen
<1>4. CASE c.outgoing = b.outgoing
  <2>1. ASSUME NEW u \in Utterances, IsCalled(s, b, u)
        PROVE  IsCalled(s, c, u)
    BY <1>1, <1>4, <2>1, NobodyIsNone DEF IsCalled, IsUnknown, Ended
  <2>2. \A u \in Utterances : IsTracked(s, b, u) => IsTracked(s, c, u)
    BY <1>1, <1>4 DEF IsTracked, Counts
  <2>3. \A u \in Utterances : Awaited(s, c, u) => Awaited(s, b, u)
    BY <1>4 DEF Awaited
  <2>4. ChannelInv(s, c, Utterances)
    BY <1>0, <1>1, <1>4, <2>1, <2>2, <2>3 DEF ChannelInv
  <2> QED BY <1>0, <1>3, <2>4 DEF SpeechInv
<1>5. ASSUME NEW m \in Orders, c.outgoing = Append(b.outgoing, m), c.status[m.id] # "none",
             m.kind = "end" => ~(c.forwarding /\ c.recording = m.id)
      PROVE  ChannelInv(s, c, Utterances)
  <2>1. m \in Messages /\ m.kind \in {"end", "cancel"} /\ m.id \in Utterances
    BY DEF Messages, Orders
  <2>2. /\ Len(c.outgoing) = Len(b.outgoing) + 1
        /\ \A i \in 1 .. Len(b.outgoing) : c.outgoing[i] = b.outgoing[i]
        /\ c.outgoing[Len(b.outgoing) + 1] = m
    BY <1>2, <1>5, <2>1, AppendProperties
  <2>3. \A i \in 1 .. Len(c.outgoing) :
          \/ i \in 1 .. Len(b.outgoing) /\ c.outgoing[i] = b.outgoing[i]
          \/ i = Len(b.outgoing) + 1 /\ c.outgoing[i] = m
    BY <1>2, <2>2
  <2>4. ASSUME NEW u \in Utterances, IsCalled(s, b, u)
        PROVE  IsCalled(s, c, u)
    <3>1. c.status[u] = "none" => IsUnknown(s, c, u)
      BY <1>1, <1>5, <2>4, <2>3, NobodyIsNone DEF IsCalled, IsUnknown
    <3>2. ASSUME NEW i \in 1 .. Len(c.outgoing), c.outgoing[i].kind = "start", c.outgoing[i].id = u
          PROVE  /\ s.session[u] = "none"
                 /\ \A j \in 1 .. Len(c.outgoing) : c.outgoing[j].id = u => i <= j
      <4>1. i \in 1 .. Len(b.outgoing) /\ b.outgoing[i].kind = "start" /\ b.outgoing[i].id = u
        BY <2>1, <2>3, <3>2
      <4>2. /\ s.session[u] = "none"
            /\ \A j \in 1 .. Len(b.outgoing) : b.outgoing[j].id = u => i <= j
        BY <2>4, <4>1 DEF IsCalled
      <4>3. i <= Len(b.outgoing) + 1
        BY <1>2, <4>1
      <4> QED BY <2>3, <4>2, <4>3
    <3>3. Ended(s, c, u) => ~(c.forwarding /\ c.recording = u)
      BY <2>3, <1>1, <1>5, <2>4 DEF Ended, IsCalled
    <3> QED BY <1>1, <2>4, <3>1, <3>2, <3>3 DEF IsCalled
  <2>5. ASSUME NEW u \in Utterances, IsTracked(s, b, u)
        PROVE  IsTracked(s, c, u)
    BY <2>1, <1>1, <1>2, <1>5, <2>5, TrackedGrows DEF IsHeader
  <2>6. \A u \in Utterances : Awaited(s, c, u) => Awaited(s, b, u)
    BY <2>1, <2>3 DEF Awaited
  <2>7. ASSUME NEW i \in 1 .. Len(c.outgoing), c.outgoing[i].kind = "header"
        PROVE  i < Len(c.outgoing) /\ c.outgoing[i + 1].kind = "binary"
    <3>1. i \in 1 .. Len(b.outgoing) /\ b.outgoing[i].kind = "header"
      BY <2>1, <2>3, <2>7
    <3>2. i < Len(b.outgoing) /\ b.outgoing[i + 1].kind = "binary"
      BY <1>0, <1>1, <3>1 DEF ChannelInv
    <3>3. i + 1 \in 1 .. Len(b.outgoing) /\ i < Len(c.outgoing)
      BY <1>2, <2>2, <3>1, <3>2
    <3> QED BY <2>2, <3>2, <3>3
  <2>8. s.header # NoFrame => c.outgoing # <<>> /\ c.outgoing[1].kind = "binary"
    BY <1>0, <1>2, <1>5, <2>1, <2>2, AppendProperties DEF ChannelInv
  <2> QED BY <1>0, <1>1, <2>4, <2>5, <2>6, <2>7, <2>8 DEF ChannelInv
<1>6. \/ c.outgoing = b.outgoing
      \/ \E m \in Orders :
           /\ c.outgoing = Append(b.outgoing, m)
           /\ c.status[m.id] # "none"
           /\ m.kind = "end" => ~(c.forwarding /\ c.recording = m.id)
  BY DEF Moves
<1>7. c.outgoing # b.outgoing => ChannelInv(s, c, Utterances)
  BY <1>5, <1>6
<1> QED BY <1>0, <1>3, <1>4, <1>7 DEF SpeechInv

LEMMA RecordingFailedMoves ==
  ASSUME NEW b, IsBrowser(b), b.recording # Nobody
  PROVE  Moves(RecordingFailed(b), b)
<1> DEFINE u == b.recording
           p == [b EXCEPT !.recording = Nobody, !.forwarding = FALSE]
           c == UtteranceCancelled(p, u)
<1>1. RecordingFailed(b) = c
  BY DEF RecordingFailed
<1>2. /\ u \in Utterances /\ BrowserFields \subseteq DOMAIN b
      /\ b.status \in [Utterances -> Statuses] /\ b.outgoing \in Seq(Messages)
      /\ b.active \in Ids
  BY DEF IsBrowser, Ids
<1>3. /\ p.recording = Nobody /\ p.forwarding = FALSE /\ DOMAIN p = DOMAIN b
      /\ \A f \in BrowserFields \ {"recording", "forwarding"} : p[f] = b[f]
  BY <1>2 DEF BrowserFields
<1>4. /\ p.state = b.state /\ p.sent = b.sent /\ p.debits = b.debits /\ p.watermark = b.watermark
      /\ p.available = b.available /\ p.status = b.status /\ p.active = b.active
      /\ p.outgoing = b.outgoing
  BY <1>3 DEF BrowserFields
<1> HIDE DEF p, u
<1>5. CASE b.status[u] \notin Live
  BY <1>4, <1>5, <1>3, <1>1 DEF UtteranceCancelled, IsBrowser, Ids, Moves
<1>6. CASE b.status[u] \in Live
  <2> DEFINE m == Event("cancel", u)
  <2>1. m \in Orders /\ m.id = u /\ m.kind = "cancel"
    BY <1>2 DEF Orders, Event
  <2>2. c = [p EXCEPT !.status[u] = "cancelled",
                      !.active = IF p.active = u THEN Nobody ELSE p.active,
                      !.outgoing = p.outgoing \o <<m>>]
    BY <1>3, <1>4, <1>6 DEF UtteranceCancelled, Sending, BrowserFields
  <2> HIDE DEF c, m
  <2>3. /\ c.status = [b.status EXCEPT ![u] = "cancelled"]
        /\ c.active = IF b.active = u THEN Nobody ELSE b.active
        /\ c.outgoing = b.outgoing \o <<m>>
        /\ DOMAIN c = DOMAIN b
        /\ \A f \in BrowserFields \ {"status", "active", "outgoing"} : c[f] = p[f]
    BY <1>2, <1>3, <1>4, <2>2 DEF BrowserFields
  <2>4. /\ c.state = b.state /\ c.sent = b.sent /\ c.debits = b.debits /\ c.watermark = b.watermark
        /\ c.available = b.available /\ c.recording = Nobody /\ c.forwarding = FALSE
    BY <1>3, <1>4, <2>3 DEF BrowserFields
  <2>5. /\ c.status \in [Utterances -> Statuses] /\ c.status[u] = "cancelled"
        /\ \A v \in Utterances : c.status[v] = "none" => b.status[v] = "none"
    BY <1>2, <2>3 DEF Statuses
  <2>6. m \in Messages
    BY <2>1 DEF Messages
  <2>7. c.outgoing = Append(b.outgoing, m) /\ c.outgoing \in Seq(Messages)
    BY <1>2, <2>3, <2>6, AppendIsConcat, AppendProperties
  <2>8. IsBrowser(c)
    BY <1>2, <2>3, <2>4, <2>5, <2>7 DEF IsBrowser, Ids
  <2>9. Moves(c, b)
    BY <2>1, <2>4, <2>5, <2>7, <2>8 DEF Moves
  <2> QED BY <1>1, <2>9 DEF c
<1> QED BY <1>5, <1>6

LEMMA RecordingFailedKeeps ==
  ASSUME NEW s, NEW b, NEW said, SpeechInv(s, b, said, Utterances), b.state = "ready",
         b.recording # Nobody
  PROVE  SpeechInv(s, RecordingFailed(b), said, Utterances)
  BY RecordingFailedMoves, BrowserMoves DEF SpeechInv

LEMMA UtteranceEndedKeeps ==
  ASSUME NEW s, NEW b, NEW said, SpeechInv(s, b, said, Utterances), b.state = "ready", b.forwarding
  PROVE  SpeechInv(s, UtteranceEnded(b), said, Utterances)
<1> DEFINE u == b.recording
           m == Event("end", u)
           c == UtteranceEnded(b)
<1>1. /\ IsBrowser(b) /\ u \in Utterances /\ BrowserFields \subseteq DOMAIN b
      /\ b.status \in [Utterances -> Statuses] /\ b.outgoing \in Seq(Messages)
  BY DEF SpeechInv, IsBrowser, Ids
<1>2. m \in Orders /\ m \in Messages /\ m.id = u
  BY <1>1 DEF Orders, Messages, Event
<1>3. c = [b EXCEPT !.status[u] = "finalizing", !.forwarding = FALSE,
                    !.outgoing = b.outgoing \o <<m>>]
  BY <1>1 DEF UtteranceEnded, Sending, BrowserFields
<1> HIDE DEF c, m
<1>4. /\ c.status = [b.status EXCEPT ![u] = "finalizing"] /\ c.forwarding = FALSE
      /\ c.outgoing = b.outgoing \o <<m>> /\ DOMAIN c = DOMAIN b
      /\ \A f \in BrowserFields \ {"status", "forwarding", "outgoing"} : c[f] = b[f]
  BY <1>1, <1>3 DEF BrowserFields
<1>5. /\ c.state = b.state /\ c.sent = b.sent /\ c.debits = b.debits /\ c.watermark = b.watermark
      /\ c.available = b.available /\ c.recording = b.recording /\ c.active = b.active
  BY <1>4 DEF BrowserFields
<1>6. /\ c.status \in [Utterances -> Statuses] /\ c.status[u] = "finalizing"
      /\ \A v \in Utterances : c.status[v] = "none" => b.status[v] = "none"
  BY <1>1, <1>4 DEF Statuses
<1>7. c.outgoing = Append(b.outgoing, m) /\ c.outgoing \in Seq(Messages)
  BY <1>1, <1>2, <1>4, AppendIsConcat, AppendProperties
<1>8. IsBrowser(c)
  BY <1>1, <1>4, <1>5, <1>6, <1>7 DEF IsBrowser
<1>9. Moves(c, b)
  BY <1>2, <1>4, <1>5, <1>6, <1>7, <1>8 DEF Moves
<1>10. SpeechInv(s, c, said, Utterances)
  BY <1>9, BrowserMoves
<1> QED BY <1>10 DEF c

LEMMA MarkedOverMoves ==
  ASSUME NEW b, IsBrowser(b), NEW u \in Utterances, NEW status \in {"cancelled", "failed"}, NEW over
  PROVE  Moves(MarkedOver(b, u, status, over), b) /\ MarkedOver(b, u, status, over).recording = b.recording
<1> DEFINE c == MarkedOver(b, u, status, over)
<1>1. CASE b.status[u] \in over
  BY <1>1 DEF MarkedOver, Moves
<1>2. CASE b.status[u] \notin over
  <2>1. /\ BrowserFields \subseteq DOMAIN b
        /\ b.status \in [Utterances -> Statuses] /\ b.active \in Ids
    BY DEF IsBrowser
  <2>2. c = [b EXCEPT !.status[u] = status, !.active = IF b.active = u THEN Nobody ELSE b.active]
    BY <1>2 DEF MarkedOver
  <2> HIDE DEF c
  <2>3. /\ c.status = [b.status EXCEPT ![u] = status] /\ DOMAIN c = DOMAIN b
        /\ c.active = IF b.active = u THEN Nobody ELSE b.active
        /\ \A f \in BrowserFields \ {"status", "active"} : c[f] = b[f]
    BY <2>1, <2>2 DEF BrowserFields
  <2>4. /\ c.state = b.state /\ c.sent = b.sent /\ c.debits = b.debits /\ c.watermark = b.watermark
        /\ c.available = b.available /\ c.recording = b.recording /\ c.forwarding = b.forwarding
        /\ c.outgoing = b.outgoing
    BY <2>3 DEF BrowserFields
  <2>5. /\ c.status \in [Utterances -> Statuses]
        /\ \A v \in Utterances : c.status[v] = "none" => b.status[v] = "none"
    BY <2>1, <2>3 DEF Statuses
  <2>6. IsBrowser(c)
    BY <2>1, <2>3, <2>4, <2>5 DEF IsBrowser, Ids
  <2>7. Moves(c, b)
    BY <2>4, <2>5, <2>6 DEF Moves
  <2> QED BY <2>4, <2>7 DEF c
<1> QED BY <1>1, <1>2

LEMMA FinalHeardMoves ==
  ASSUME NEW b, IsBrowser(b), NEW u \in Utterances
  PROVE  Moves(FinalHeard(b, u), b)
<1> DEFINE c == FinalHeard(b, u)
<1>1. CASE b.active # u \/ b.status[u] \notin Live
  BY <1>1 DEF FinalHeard, Moves
<1>2. CASE ~(b.active # u \/ b.status[u] \notin Live)
  <2>1. /\ BrowserFields \subseteq DOMAIN b /\ b.recording \in Ids /\ b.forwarding \in BOOLEAN
        /\ b.status \in [Utterances -> Statuses]
        /\ b.forwarding => b.recording # Nobody
    BY DEF IsBrowser
  <2>2. c = [b EXCEPT !.status[u] = "final", !.active = Nobody,
                      !.recording = IF b.recording = u THEN Nobody ELSE b.recording,
                      !.forwarding = b.forwarding /\ b.recording # u]
    BY <1>2 DEF FinalHeard
  <2> HIDE DEF c
  <2>3. /\ c.status = [b.status EXCEPT ![u] = "final"] /\ DOMAIN c = DOMAIN b
        /\ c.active = Nobody
        /\ c.recording = IF b.recording = u THEN Nobody ELSE b.recording
        /\ c.forwarding = (b.forwarding /\ b.recording # u)
        /\ \A f \in BrowserFields \ {"status", "active", "recording", "forwarding"} : c[f] = b[f]
    BY <2>1, <2>2 DEF BrowserFields
  <2>4. /\ c.state = b.state /\ c.sent = b.sent /\ c.debits = b.debits /\ c.watermark = b.watermark
        /\ c.available = b.available /\ c.outgoing = b.outgoing
    BY <2>3 DEF BrowserFields
  <2>5. /\ c.status \in [Utterances -> Statuses]
        /\ \A v \in Utterances : c.status[v] = "none" => b.status[v] = "none"
    BY <2>1, <2>3 DEF Statuses
  <2>6. /\ c.recording \in {b.recording, Nobody} /\ c.recording \in Ids
        /\ c.forwarding \in BOOLEAN
        /\ c.forwarding => b.forwarding /\ c.recording = b.recording /\ c.recording # Nobody
    BY <2>1, <2>3 DEF Ids
  <2>7. IsBrowser(c)
    BY <2>1, <2>3, <2>4, <2>5, <2>6 DEF IsBrowser, Ids
  <2>8. Moves(c, b)
    BY <2>4, <2>5, <2>6, <2>7 DEF Moves
  <2> QED BY <2>8 DEF c
<1> QED BY <1>1, <1>2

LEMMA SpokenHeard ==
  ASSUME NEW s, NEW b, NEW said, SpeechInv(s, b, said, Utterances), b.state = "ready",
         NEW e \in Spoken
  PROVE  SpeechInv(s, Heard(b, e), said, Utterances)
<1>0. IsBrowser(b)
  BY DEF SpeechInv
<1>1. \/ e.kind \in Kinds /\ e.id \in Utterances
      \/ e.kind = "error" /\ e.id \in Ids
  BY DEF Spoken
<1>2. ASSUME NEW u \in Utterances, NEW status \in {"cancelled", "failed"}, NEW over
      PROVE  /\ SpeechInv(s, MarkedOver(b, u, status, over), said, Utterances)
             /\ MarkedOver(b, u, status, over).state = "ready"
             /\ MarkedOver(b, u, status, over).recording = b.recording
  BY <1>0, MarkedOverMoves, BrowserMoves DEF Moves
<1>3. CASE e.kind = "partial"
  BY <1>3 DEF Heard
<1>4. CASE e.kind = "final"
  BY <1>1, <1>4, <1>0, FinalHeardMoves, BrowserMoves DEF Heard
<1>5. CASE e.kind = "ended"
  BY <1>1, <1>5, <1>2 DEF Heard
<1>6. CASE e.kind = "cancelled"
  <2>1. Heard(b, e) = CancellationHeard(b, e.id) /\ e.id \in Utterances
    BY <1>1, <1>6 DEF Heard
  <2> DEFINE c == MarkedOver(b, e.id, "cancelled", {"final"})
  <2>2. SpeechInv(s, c, said, Utterances) /\ c.state = "ready" /\ c.recording = b.recording
    BY <1>2, <2>1
  <2>3. CancellationHeard(b, e.id) = IF b.recording = e.id THEN RecordingFailed(c) ELSE c
    BY DEF CancellationHeard
  <2> HIDE DEF c
  <2>4. b.recording = e.id => SpeechInv(s, RecordingFailed(c), said, Utterances)
    BY <2>1, <2>2, RecordingFailedKeeps, NobodyIsNone
  <2> QED BY <2>1, <2>2, <2>3, <2>4
<1>7. CASE e.kind = "error"
  <2>1. Heard(b, e) = ErrorHeard(b, e.id) /\ e.id \in Ids
    BY <1>1, <1>7 DEF Heard, Kinds
  <2> DEFINE c == IF e.id = Nobody THEN b ELSE MarkedOver(b, e.id, "failed", {"final"})
  <2>2. SpeechInv(s, c, said, Utterances) /\ c.state = "ready" /\ c.recording = b.recording
    BY <1>2, <2>1 DEF Ids
  <2>3. ErrorHeard(b, e.id) = IF b.recording # Nobody /\ e.id \in {Nobody, b.recording}
                              THEN RecordingFailed(c) ELSE c
    BY DEF ErrorHeard
  <2> HIDE DEF c
  <2>4. b.recording # Nobody => SpeechInv(s, RecordingFailed(c), said, Utterances)
    BY <2>2, RecordingFailedKeeps
  <2> QED BY <2>1, <2>2, <2>3, <2>4
<1> QED BY <1>1, <1>3, <1>4, <1>5, <1>6, <1>7 DEF Kinds

\* What the browser sends of an utterance leaves the calls of the others.
LEMMA CalledKeeps ==
  ASSUME NEW s, NEW b, NEW c, NEW u \in Utterances, NEW m \in Messages, m.id # u,
         IsCalled(s, b, u), b.outgoing \in Seq(Messages), c.outgoing = Append(b.outgoing, m),
         c.status[u] = b.status[u], c.sent[u] = b.sent[u], c.recording = u => b.recording = u,
         c.forwarding /\ c.recording = u => b.forwarding
  PROVE  IsCalled(s, c, u)
  BY AppendProperties DEF IsUnknown, Ended, IsCalled

LEMMA UtteranceStartedKeeps ==
  ASSUME NEW s, NEW b, NEW said, SpeechInv(s, b, said, Utterances), b.state = "ready",
         NEW u \in Utterances, b.status[u] = "none", b.recording = Nobody
  PROVE  SpeechInv(s, UtteranceStarted(b, u), said, Utterances)
<1> DEFINE m == Event("start", u)
           c == UtteranceStarted(b, u)
<1>0. /\ IsService(s) /\ IsBrowser(b) /\ ChannelInv(s, b, Utterances)
      /\ CreditInv(s, b) /\ WorkInv(s, Utterances) /\ FenceInv(s, said)
  BY DEF SpeechInv
<1>1. /\ BrowserFields \subseteq DOMAIN b
      /\ b.status \in [Utterances -> Statuses] /\ b.outgoing \in Seq(Messages)
      /\ Len(b.outgoing) \in Nat /\ b.sent \in [Utterances -> Nat]
  BY <1>0 DEF IsBrowser
<1>2. m \in Messages /\ m.id = u /\ m.kind = "start"
  BY DEF Messages, Event
<1>3. c = [b EXCEPT !.status[u] = "listening", !.active = u, !.recording = u, !.forwarding = TRUE,
                    !.outgoing = b.outgoing \o <<m>>]
  BY <1>1 DEF UtteranceStarted, Sending, BrowserFields
<1> HIDE DEF c, m
<1>4. /\ c.status = [b.status EXCEPT ![u] = "listening"] /\ c.forwarding = TRUE
      /\ c.active = u /\ c.recording = u
      /\ c.outgoing = b.outgoing \o <<m>> /\ DOMAIN c = DOMAIN b
      /\ \A f \in BrowserFields \ {"status", "active", "recording", "forwarding", "outgoing"} :
           c[f] = b[f]
  BY <1>1, <1>3 DEF BrowserFields
<1>5. /\ c.state = b.state /\ c.sent = b.sent /\ c.debits = b.debits /\ c.watermark = b.watermark
      /\ c.available = b.available
  BY <1>4 DEF BrowserFields
<1>6. /\ c.status \in [Utterances -> Statuses] /\ c.status[u] = "listening"
      /\ \A v \in Utterances : v # u => c.status[v] = b.status[v]
  BY <1>1, <1>4 DEF Statuses
<1>7. c.outgoing = Append(b.outgoing, m) /\ c.outgoing \in Seq(Messages)
  BY <1>1, <1>2, <1>4, AppendIsConcat, AppendProperties
<1>8. /\ Len(c.outgoing) = Len(b.outgoing) + 1
      /\ \A i \in 1 .. Len(b.outgoing) : c.outgoing[i] = b.outgoing[i]
      /\ c.outgoing[Len(b.outgoing) + 1] = m
  BY <1>1, <1>2, <1>7, AppendProperties
<1>9. \A i \in 1 .. Len(c.outgoing) :
        \/ i \in 1 .. Len(b.outgoing) /\ c.outgoing[i] = b.outgoing[i]
        \/ i = Len(b.outgoing) + 1 /\ c.outgoing[i] = m
  BY <1>1, <1>8
<1>10. IsBrowser(c)
  BY <1>0, <1>4, <1>5, <1>6, <1>7, NobodyIsNone DEF IsBrowser, Ids
<1>11. CreditInv(s, c)
  BY <1>0, <1>5, <1>6, CreditSeen
<1>12. /\ s.session[u] = "none" /\ b.sent[u] = 0
       /\ \A i \in 1 .. Len(b.outgoing) : b.outgoing[i].id # u
       /\ IsCalled(s, b, u)
  BY <1>0 DEF ChannelInv, IsCalled, IsUnknown
<1>13. /\ s.utterance[u].next = 0 /\ s.utterance[u].reason = "none" /\ s.header[1] # u
       /\ Due(s, u) = 0
  BY <1>12, <1>0 DEF Unborn, WorkInv, StillSilent, Fresh, Due
<1>14. ASSUME NEW v \in Utterances
       PROVE  IsCalled(s, c, v)
  <2>1. IsCalled(s, b, v)
    BY <1>0 DEF ChannelInv
  <2>2. CASE v # u
    BY <1>1, <1>2, <1>4, <1>5, <1>6, <1>7, <2>1, <2>2, CalledKeeps
  <2>3. CASE v = u
    <3>1. \A i \in 1 .. Len(c.outgoing) : c.outgoing[i].id = u =>
            i = Len(b.outgoing) + 1 /\ c.outgoing[i].kind = "start"
      BY <1>2, <1>9, <1>12
    <3>2. ~Ended(s, c, u)
      BY <1>13, <3>1 DEF Ended
    <3>3. \A i, j \in 1 .. Len(c.outgoing) :
            c.outgoing[i].id = u /\ c.outgoing[j].id = u => i <= j
      BY <1>1, <3>1
    <3> QED BY <1>5, <1>6, <1>12, <1>13, <2>3, <3>2, <3>3 DEF IsCalled
  <2> QED BY <2>2, <2>3
<1>15. ASSUME NEW v \in Utterances, Awaited(s, c, v)
       PROVE  IsTracked(s, c, v)
  <2>1. IsTracked(s, b, v)
    <3>1. CASE v # u
      BY <1>2, <1>9, <1>15, <3>1, <1>0, <1>5 DEF Awaited, ChannelInv
    <3>2. CASE v = u
      <4> DEFINE w == [i \in 1 .. Len(b.outgoing) + 1 |-> 0]
      <4>1. w \in [1 .. Len(b.outgoing) + 1 -> 0 .. b.sent[u]] /\ w[1] = 0 /\ w[Len(b.outgoing) + 1] = 0
            /\ \A i \in 1 .. Len(b.outgoing) : w[i] = 0 /\ w[i + 1] = 0
        BY <1>1, <1>12
      <4> HIDE DEF w
      <4>2. Counts(s, b, u, w)
        BY <1>12, <1>13, <4>1 DEF Counts
      <4> QED BY <3>2, <4>1, <4>2 DEF IsTracked
    <3> QED BY <3>1, <3>2
  <2>2. ~IsHeader(m, v)
    BY <1>2 DEF IsHeader
  <2>3. c.sent[v] = b.sent[v] /\ b.sent[v] \in Nat
    BY <1>1, <1>5
  <2> QED BY <1>1, <1>2, <1>7, <2>1, <2>2, <2>3, TrackedGrows
<1>16. ASSUME NEW i \in 1 .. Len(c.outgoing), c.outgoing[i].kind = "header"
       PROVE  i < Len(c.outgoing) /\ c.outgoing[i + 1].kind = "binary"
  <2>1. i \in 1 .. Len(b.outgoing) /\ b.outgoing[i].kind = "header"
    BY <1>2, <1>9, <1>16
  <2>2. i < Len(b.outgoing) /\ b.outgoing[i + 1].kind = "binary"
    BY <1>0, <1>5, <2>1 DEF ChannelInv
  <2>3. i + 1 \in 1 .. Len(b.outgoing) /\ i < Len(c.outgoing)
    BY <1>1, <1>8, <2>1, <2>2
  <2> QED BY <1>8, <2>2, <2>3
<1>17. s.header # NoFrame => c.outgoing # <<>> /\ c.outgoing[1].kind = "binary"
  BY <1>0, <1>5, <1>1, <1>2, <1>7, <1>8, AppendProperties DEF ChannelInv
<1>18. ChannelInv(s, c, Utterances)
  BY <1>0, <1>5, <1>14, <1>15, <1>16, <1>17 DEF ChannelInv
<1>19. SpeechInv(s, c, said, Utterances)
  BY <1>0, <1>10, <1>11, <1>18 DEF SpeechInv
<1> QED BY <1>19 DEF c

LEMMA TwoAppended ==
  ASSUME NEW T, NEW q \in Seq(T), NEW x \in T, NEW y \in T
  PROVE  q \o <<x, y>> = Append(Append(q, x), y)
<1>1. /\ Len(q) \in Nat /\ <<x, y>> \in Seq(T) /\ Len(<<x, y>>) = 2
      /\ <<x, y>>[1] = x /\ <<x, y>>[2] = y
  OBVIOUS
<1>2. /\ q \o <<x, y>> \in Seq(T) /\ Len(q \o <<x, y>>) = Len(q) + 2
      /\ Append(q, x) \in Seq(T) /\ Len(Append(q, x)) = Len(q) + 1
      /\ Append(Append(q, x), y) \in Seq(T) /\ Len(Append(Append(q, x), y)) = Len(q) + 2
  BY <1>1
<1>3. ASSUME NEW i \in 1 .. Len(q) + 2
      PROVE  (q \o <<x, y>>)[i] = Append(Append(q, x), y)[i]
  BY <1>1, <1>2
<1> QED BY <1>2, <1>3, SeqEqual

\* A frame for which there is credit is one the service has room for.
LEMMA FrameIsCredible ==
  ASSUME NEW s, NEW b, NEW c, IsService(s), IsBrowser(b), CreditInv(s, b), b.state = "ready",
         NEW u \in Utterances, s.utterance[u].next <= b.sent[u], EffectiveCredit(b) >= 1,
         c.state = b.state, c.watermark = b.watermark, c.available = b.available,
         c.status = b.status, c.debits = b.debits \cup {<<u, b.sent[u]>>},
         c.sent = [b.sent EXCEPT ![u] = b.sent[u] + 1]
  PROVE  CreditInv(s, c)
<1> DEFINE f == <<u, b.sent[u]>>
<1>1. /\ UnderWay(s, b) \subseteq b.debits
      /\ Cardinality(Taken(s, b)) <= InputFrames
      /\ Cardinality(Taken(s, b) \ b.debits) + b.available <= InputFrames
      /\ \A k \in 1 .. Len(Line(s)) : IsFlow(Line(s)[k]) => IsCredible(s, b, Line(s), k)
  BY DEF CreditInv
<1>2. /\ b.sent \in [Utterances -> Nat] /\ b.available \in Int
      /\ IsFiniteSet(b.debits) /\ Cardinality(b.debits) \in Nat /\ InputFrames \in Nat
  BY FS_CardinalityType, ServiceAssumption DEF IsBrowser
<1>3. b.available > Cardinality(b.debits)
  BY <1>2 DEF EffectiveCredit
<1>4. UnderWay(s, c) \subseteq UnderWay(s, b) \cup {f}
  <2>1. SUFFICES ASSUME NEW g \in UnderWay(s, c), g # f PROVE g \in UnderWay(s, b)
    OBVIOUS
  <2>2. /\ g \in Frames /\ (Unborn(s, g[1]) \/ s.active = g[1])
        /\ s.utterance[g[1]].next <= g[2] /\ g[2] < c.sent[g[1]]
    BY <2>1 DEF UnderWay
  <2>3. g[1] \in Utterances /\ g[2] \in Nat /\ g = <<g[1], g[2]>>
    BY <2>2 DEF Frames
  <2>4. g[2] < b.sent[g[1]]
    <3>1. CASE g[1] # u
      BY <1>2, <2>2, <2>3, <3>1
    <3>2. CASE g[1] = u
      BY <1>2, <2>1, <2>3, <3>2, <2>2
    <3> QED BY <3>1, <3>2
  <2> QED BY <2>2, <2>4 DEF UnderWay
<1>5. Taken(s, c) \subseteq Taken(s, b) \cup {f}
  BY <1>4 DEF Taken
<1>6. /\ IsFiniteSet(Taken(s, b)) /\ Cardinality(Taken(s, b)) \in Nat
      /\ \A S \in SUBSET Taken(s, b) : IsFiniteSet(S) /\ Cardinality(S) \in Nat
  BY <1>1, TakenIsFinite
<1>7. Cardinality(Taken(s, c)) <= InputFrames
  <2> DEFINE T == Taken(s, b)
             D == b.debits
  <2>1. /\ Cardinality(T \ D) = Cardinality(T) - Cardinality(T \cap D)
        /\ Cardinality(T \cap D) <= Cardinality(D)
        /\ Cardinality(T \ D) \in Nat /\ Cardinality(T \cap D) \in Nat
    BY <1>2, <1>6, FS_Difference, FS_Intersection
  <2>2. Cardinality(T) + 1 <= InputFrames
    BY <1>1, <1>2, <1>3, <1>6, <2>1
  <2>3. /\ IsFiniteSet(T \cup {f}) /\ Cardinality(T \cup {f}) \in Nat
        /\ Cardinality(T \cup {f}) <= Cardinality(T) + 1
    <3>1. IsFiniteSet(T) /\ Cardinality(T) \in Nat
      BY <1>6
    <3> HIDE DEF T, f
    <3>2. /\ IsFiniteSet(T \cup {f})
          /\ Cardinality(T \cup {f}) = IF f \in T THEN Cardinality(T) ELSE Cardinality(T) + 1
      BY <3>1, FS_AddElement
    <3> QED BY <3>1, <3>2
  <2>4. Cardinality(Taken(s, c)) \in Nat /\ Cardinality(Taken(s, c)) <= Cardinality(T \cup {f})
    BY <1>5, <2>3, FS_Subset, FS_CardinalityType
  <2> QED BY <1>2, <1>6, <2>2, <2>3, <2>4
<1>8. Cardinality(Taken(s, c) \ c.debits) + c.available <= InputFrames
  BY <1>5, <1>6, <1>1, <1>2, FS_Subset, FS_CardinalityType
<1>9. ASSUME NEW k \in 1 .. Len(Line(s)), IsFlow(Line(s)[k])
      PROVE  IsCredible(s, c, Line(s), k)
  <2> DEFINE l == Line(s)
  <2>1. IsCredible(s, b, l, k) /\ l \in Seq(Events) /\ Len(l) \in Nat
    BY <1>1, <1>9, LineTyped
  <2>2. l[k] \in Events /\ l[k].available \in Int /\ l[k].id \in Ids
    BY <1>9, <2>1, FlowIs
  <2>3. \A j \in 1 .. k : j \in 1 .. Len(l)
    BY <2>1
  <2> HIDE DEF l
  <2>4. ASSUME NEW g \in Uncounted(s, c, l, k)
        PROVE  g \in Uncounted(s, b, l, k)
    <3>1. CASE g # f
      BY <1>5, <3>1 DEF Uncounted
    <3>2. CASE g = f
      <4>1. PICK j \in 1 .. k : IsFlow(l[j]) /\ l[j].id = u /\ l[j].through >= b.sent[u]
        BY <2>4, <3>2 DEF Uncounted
      <4>2. l[j] \in Events /\ l[j].through \in Int /\ IsCredible(s, b, l, j)
        BY <1>1, <2>1, <2>3, <4>1, FlowIs DEF l
      <4>3. l[j].through < s.utterance[u].next
        BY <4>1, <4>2, NobodyIsNone DEF IsCredible
      <4>4. s.utterance[u].next \in Nat /\ b.sent[u] \in Nat
        BY <1>2 DEF IsService, UtteranceRecords
      <4> DEFINE through == l[j].through
                 next == s.utterance[u].next
                 sent == b.sent[u]
      <4>5. through \in Int /\ next \in Int /\ sent \in Int
        BY <4>2, <4>4
      <4>6. through >= sent /\ through < next /\ next <= sent
        BY <4>1, <4>3
      <4> HIDE DEF through, next, sent
      <4> QED BY <4>5, <4>6
    <3> QED BY <3>1, <3>2
  <2>5. Uncounted(s, b, l, k) \in SUBSET Taken(s, b)
    BY DEF Uncounted
  <2>6. Uncounted(s, c, l, k) \in SUBSET Uncounted(s, b, l, k)
    BY <2>4
  <2>7. /\ Cardinality(Uncounted(s, c, l, k)) <= Cardinality(Uncounted(s, b, l, k))
        /\ Cardinality(Uncounted(s, c, l, k)) \in Nat /\ Cardinality(Uncounted(s, b, l, k)) \in Nat
    BY <1>6, <2>5, <2>6, FS_Subset, FS_CardinalityType
  <2>8. Cardinality(Uncounted(s, c, l, k)) + l[k].available <= InputFrames
    BY <2>1, <1>2, <2>2, <2>7 DEF IsCredible
  <2> QED BY <2>1, <2>8 DEF IsCredible, l
<1>10. UnderWay(s, c) \subseteq c.debits
  BY <1>1, <1>4
<1> QED BY <1>7, <1>8, <1>9, <1>10 DEF CreditInv

LEMMA FrameCapturedKeeps ==
  ASSUME NEW s, NEW b, NEW said, SpeechInv(s, b, said, Utterances), b.state = "ready", b.forwarding
  PROVE  SpeechInv(s, FrameCaptured(b), said, Utterances)
<1> DEFINE u == b.recording
           n == b.sent[u]
           h == [kind |-> "header", id |-> u, sequence |-> n]
           m == Event("binary", u)
           c == FrameCaptured(b)
           d == [b EXCEPT !.sent[u] = n + 1, !.outgoing = Append(b.outgoing, h)]
<1>0. /\ IsService(s) /\ IsBrowser(b) /\ ChannelInv(s, b, Utterances)
      /\ CreditInv(s, b) /\ WorkInv(s, Utterances) /\ FenceInv(s, said)
  BY DEF SpeechInv
<1>1. /\ BrowserFields \subseteq DOMAIN b /\ u \in Utterances
      /\ b.status \in [Utterances -> Statuses] /\ b.outgoing \in Seq(Messages)
      /\ Len(b.outgoing) \in Nat /\ b.sent \in [Utterances -> Nat] /\ n \in Nat
      /\ b.debits \subseteq Frames /\ IsFiniteSet(b.debits)
  BY <1>0 DEF IsBrowser, Ids
<1>2. CASE EffectiveCredit(b) < 1
  BY <1>1, <1>2, NobodyIsNone, RecordingFailedKeeps DEF FrameCaptured
<1>3. ASSUME ~(EffectiveCredit(b) < 1)
      PROVE  SpeechInv(s, c, said, Utterances)
  <2>1. /\ h \in Messages /\ h.id = u /\ h.kind = "header" /\ h.sequence = n
        /\ m \in Messages /\ m.id = u /\ m.kind = "binary"
    BY <1>1 DEF Messages, Event
  <2>2. c = [b EXCEPT !.debits = b.debits \cup {<<u, n>>}, !.sent[u] = n + 1,
                      !.outgoing = b.outgoing \o <<h, m>>]
    BY <1>1, <1>3 DEF FrameCaptured, Sending, BrowserFields
  <2>3. EffectiveCredit(b) >= 1
    BY <1>0, <1>1, <1>3, FS_CardinalityType DEF EffectiveCredit, IsBrowser
  <2> HIDE DEF c, h, m
  <2>4. /\ c.sent = [b.sent EXCEPT ![u] = n + 1] /\ c.debits = b.debits \cup {<<u, n>>}
        /\ c.outgoing = b.outgoing \o <<h, m>> /\ DOMAIN c = DOMAIN b
        /\ \A f \in BrowserFields \ {"sent", "debits", "outgoing"} : c[f] = b[f]
        /\ d.sent = [b.sent EXCEPT ![u] = n + 1] /\ d.outgoing = Append(b.outgoing, h)
        /\ \A f \in BrowserFields \ {"sent", "outgoing"} : d[f] = b[f]
    BY <1>1, <2>2 DEF BrowserFields
  <2> HIDE DEF d
  <2>5. /\ c.state = b.state /\ c.status = b.status /\ c.watermark = b.watermark
        /\ c.available = b.available /\ c.recording = b.recording /\ c.active = b.active
        /\ c.forwarding = b.forwarding
        /\ d.status = b.status /\ d.recording = b.recording /\ d.forwarding = b.forwarding
    BY <2>4 DEF BrowserFields
  <2>6. /\ d.outgoing \in Seq(Messages) /\ Len(d.outgoing) = Len(b.outgoing) + 1
        /\ \A i \in 1 .. Len(b.outgoing) : d.outgoing[i] = b.outgoing[i]
        /\ d.outgoing[Len(b.outgoing) + 1] = h
    BY <1>1, <2>1, <2>4, AppendProperties
  <2>7. c.outgoing = Append(d.outgoing, m)
    BY <1>1, <2>1, <2>4, TwoAppended
  <2>8. /\ c.outgoing \in Seq(Messages) /\ Len(c.outgoing) = Len(b.outgoing) + 2
        /\ \A i \in 1 .. Len(b.outgoing) : c.outgoing[i] = b.outgoing[i]
        /\ c.outgoing[Len(b.outgoing) + 1] = h
        /\ c.outgoing[Len(b.outgoing) + 2] = m
    BY <2>1, <2>6, <2>7, <1>1, AppendProperties
  <2>9. \A i \in 1 .. Len(c.outgoing) :
          \/ i \in 1 .. Len(b.outgoing) /\ c.outgoing[i] = b.outgoing[i]
          \/ i = Len(b.outgoing) + 1 /\ c.outgoing[i] = h
          \/ i = Len(b.outgoing) + 2 /\ c.outgoing[i] = m
    BY <1>1, <2>8
  <2>10. /\ c.sent \in [Utterances -> Nat] /\ c.sent[u] = n + 1 /\ d.sent[u] = n + 1
         /\ \A v \in Utterances : v # u => c.sent[v] = b.sent[v] /\ d.sent[v] = b.sent[v]
         /\ \A v \in Utterances : c.sent[v] = d.sent[v] /\ d.sent[v] \in Nat
    BY <1>1, <2>4
  <2>11. c.debits \subseteq Frames /\ IsFiniteSet(c.debits)
    <3> DEFINE f == <<u, n>>
    <3>1. f \in Frames
      BY <1>1 DEF Frames
    <3>2. c.debits = b.debits \cup {f}
      BY <2>4
    <3> HIDE DEF f
    <3> DEFINE D == b.debits
    <3>3. D \subseteq Frames /\ IsFiniteSet(D) /\ c.debits = D \cup {f}
      BY <1>1, <3>2
    <3> HIDE DEF D
    <3>4. IsFiniteSet(D \cup {f})
      BY <3>3, FS_AddElement
    <3> QED BY <3>1, <3>3, <3>4
  <2>12. IsBrowser(c)
    BY <1>0, <2>4, <2>5, <2>8, <2>10, <2>11 DEF IsBrowser
  <2>13. IsCalled(s, b, u) /\ ~Ended(s, b, u) /\ s.utterance[u].next <= n
    BY <1>0, <1>1 DEF ChannelInv, IsCalled
  <2>14. CreditInv(s, c)
    BY <1>0, <1>1, <2>3, <2>4, <2>5, <2>13, FrameIsCredible
  <2>15. ASSUME NEW v \in Utterances
         PROVE  IsCalled(s, c, v)
    <3>1. IsCalled(s, b, v)
      BY <1>0 DEF ChannelInv
    <3>2. CASE v # u
      <4>1. IsCalled(s, d, v)
        BY <1>1, <2>1, <2>4, <2>5, <2>10, <3>1, <3>2, CalledKeeps
      <4> QED BY <2>1, <2>5, <2>6, <2>7, <2>10, <3>2, <4>1, CalledKeeps
    <3>3. CASE v = u
      <4>1. b.status[u] # "none"
        BY <2>13 DEF IsCalled, IsUnknown
      <4>2. ~Ended(s, c, u)
        BY <2>1, <2>9, <2>13 DEF Ended
      <4>3. ASSUME NEW i \in 1 .. Len(c.outgoing), c.outgoing[i].kind = "start", c.outgoing[i].id = u
            PROVE  /\ s.session[u] = "none"
                   /\ \A j \in 1 .. Len(c.outgoing) : c.outgoing[j].id = u => i <= j
        <5>1. i \in 1 .. Len(b.outgoing) /\ b.outgoing[i].kind = "start" /\ b.outgoing[i].id = u
          BY <2>1, <2>9, <4>3
        <5>2. /\ s.session[u] = "none"
              /\ \A j \in 1 .. Len(b.outgoing) : b.outgoing[j].id = u => i <= j
          BY <2>13, <5>1 DEF IsCalled
        <5>3. i <= Len(b.outgoing) + 1 /\ i <= Len(b.outgoing) + 2
          BY <1>1, <5>1
        <5> QED BY <2>9, <5>2, <5>3
      <4>4. s.utterance[u].next \in Nat
        BY <1>0, <1>1 DEF IsService, UtteranceRecords
      <4>5. s.utterance[u].next <= c.sent[u] /\ s.utterance[u].next < c.sent[u]
        BY <1>1, <2>10, <2>13, <4>4
      <4>6. s.utterance[u].reason # "client_end"
        BY <2>13 DEF Ended
      <4> QED BY <2>5, <3>3, <4>1, <4>2, <4>3, <4>5, <4>6 DEF IsCalled
    <3> QED BY <3>2, <3>3
  <2>16. ASSUME NEW v \in Utterances, Awaited(s, c, v)
         PROVE  IsTracked(s, c, v)
    <3>1. Awaited(s, b, v)
      BY <2>1, <2>9, <2>16 DEF Awaited
    <3>2. IsTracked(s, b, v)
      BY <1>0, <2>5, <3>1 DEF ChannelInv
    <3>3. IsHeader(h, v) <=> v = u
      BY <2>1 DEF IsHeader
    <3>4. IF IsHeader(h, v) THEN h.sequence = b.sent[v] /\ d.sent[v] = b.sent[v] + 1
                            ELSE d.sent[v] = b.sent[v]
      BY <2>1, <2>10, <3>3
    <3>5. \A i \in 1 .. Len(b.outgoing) : IsEnd(b.outgoing[i], v) => ~IsHeader(h, v)
      BY <2>13, <3>3 DEF Ended, IsEnd
    <3>6. b.sent[v] \in Nat
      BY <1>1
    <3>7. IsTracked(s, d, v)
      BY <1>1, <2>1, <2>4, <3>2, <3>4, <3>5, <3>6, TrackedGrows
    <3>8. ~IsHeader(m, v)
      BY <2>1 DEF IsHeader
    <3> QED BY <2>1, <2>6, <2>7, <2>10, <3>7, <3>8, TrackedGrows
  <2>17. ASSUME NEW i \in 1 .. Len(c.outgoing), c.outgoing[i].kind = "header"
         PROVE  i < Len(c.outgoing) /\ c.outgoing[i + 1].kind = "binary"
    <3>1. CASE i \in 1 .. Len(b.outgoing) /\ c.outgoing[i] = b.outgoing[i]
      <4>1. i < Len(b.outgoing) /\ b.outgoing[i + 1].kind = "binary"
        BY <1>0, <2>5, <2>17, <3>1 DEF ChannelInv
      <4>2. i + 1 \in 1 .. Len(b.outgoing) /\ i < Len(c.outgoing)
        BY <1>1, <2>8, <3>1, <4>1
      <4> QED BY <2>8, <4>1, <4>2
    <3>2. CASE i = Len(b.outgoing) + 1
      BY <1>1, <2>8, <3>2, <2>1
    <3> QED BY <2>1, <2>9, <2>17, <3>1, <3>2
  <2>18. s.header # NoFrame => c.outgoing # <<>> /\ c.outgoing[1].kind = "binary"
    BY <1>0, <2>5, <1>1, <2>1, <2>6, <2>7, <2>8, AppendProperties DEF ChannelInv
  <2>19. ChannelInv(s, c, Utterances)
    BY <1>0, <2>5, <2>15, <2>16, <2>17, <2>18 DEF ChannelInv
  <2> QED BY <1>0, <2>12, <2>14, <2>19 DEF SpeechInv
<1> QED BY <1>2, <1>3

-----------------------------------------------------------------------------
(* What the browser hears *)

LEMMA TailOfLine ==
  ASSUME NEW s, NEW t, IsService(s), s.outgoing # <<>>, t.outgoing = Tail(s.outgoing),
         t.outbound = s.outbound
  PROVE  /\ t.outgoing \in Seq(Events)
         /\ Len(Line(t)) = Len(Line(s)) - 1 /\ Len(Line(s)) \in Nat /\ Len(Line(t)) \in Nat
         /\ 1 \in 1 .. Len(Line(s)) /\ Line(s)[1] = Head(s.outgoing)
         /\ \A k \in 1 .. Len(Line(t)) : k + 1 \in 1 .. Len(Line(s)) /\ Line(t)[k] = Line(s)[k + 1]
<1> DEFINE q == s.outgoing
           r == t.outgoing
           w == s.outbound
<1>1. q \in Seq(Events) /\ q # <<>> /\ w \in Seq(Batches)
  BY DEF IsService
<1>2. /\ r \in Seq(Events) /\ Len(r) = Len(q) - 1 /\ Len(q) \in Nat /\ Len(r) \in Nat /\ Len(w) \in Nat
      /\ Head(q) = q[1] /\ 1 \in 1 .. Len(q)
      /\ \A i \in 1 .. Len(r) : i + 1 \in 1 .. Len(q) /\ r[i] = q[i + 1]
  BY <1>1
<1>3. Line(s) = LineOf(q, w) /\ Line(t) = LineOf(r, w)
  BY DEF Line, LineOf
<1> HIDE DEF q, r, w
<1>4. /\ Len(LineOf(q, w)) = Len(q) + Len(w) /\ Len(LineOf(r, w)) = Len(r) + Len(w)
      /\ LineOf(q, w)[1] = q[1]
  BY <1>1, <1>2, LineOfIs
<1>5. ASSUME NEW k \in 1 .. Len(r) + Len(w)
      PROVE  k + 1 \in 1 .. Len(q) + Len(w) /\ LineOf(r, w)[k] = LineOf(q, w)[k + 1]
  <2>1. k + 1 \in 1 .. Len(q) + Len(w)
    BY <1>2
  <2>2. CASE k <= Len(r)
    BY <1>2, <2>2, <1>1, <2>1, LineOfIs
  <2>3. CASE k > Len(r)
    BY <1>2, <2>3, <1>1, <2>1, LineOfIs
  <2> QED BY <1>2, <2>2, <2>3
<1>6. Len(q) + Len(w) \in Nat /\ Len(r) + Len(w) = (Len(q) + Len(w)) - 1 /\ Len(r) + Len(w) \in Nat
      /\ 1 \in 1 .. Len(q) + Len(w)
  BY <1>2
<1>7. r \in Seq(Events) /\ Head(q) = q[1]
  BY <1>2
<1> QED BY <1>3, <1>4, <1>5, <1>6, <1>7 DEF q, r

LEMMA FlowIsHonoured ==
  ASSUME NEW s, NEW t, NEW b, NEW c, IsService(s), IsBrowser(b), CreditInv(s, b), b.state = "ready",
         s.outgoing # <<>>, DiffersIn(t, s, {"outgoing"}), t.outgoing = Tail(s.outgoing),
         IsService(t), NEW e, e = Head(s.outgoing), IsFlow(e),
         c.state = b.state, c.sent = b.sent, c.status = b.status, c.available = e.available,
         c.debits \subseteq b.debits,
         \A f \in b.debits : f \notin c.debits => e.id # Nobody /\ f[1] = e.id /\ f[2] <= e.through,
         \A v \in Utterances : c.watermark[v] = IF v = e.id THEN e.through ELSE b.watermark[v]
  PROVE  CreditInv(t, c)
<1> DEFINE l == Line(s)
           m == Line(t)
<1>1. /\ t.closed = s.closed /\ t.active = s.active /\ t.session = s.session
      /\ t.utterance = s.utterance /\ t.reserved = s.reserved /\ t.credited = s.credited
      /\ t.through = s.through /\ t.overrun = s.overrun /\ t.outbound = s.outbound
  BY DEF DiffersIn, ServiceFields
<1>2. /\ l \in Seq(Events) /\ Len(m) = Len(l) - 1 /\ Len(l) \in Nat /\ Len(m) \in Nat
      /\ 1 \in 1 .. Len(l) /\ l[1] = e
      /\ \A k \in 1 .. Len(m) : k + 1 \in 1 .. Len(l) /\ m[k] = l[k + 1]
  BY <1>1, LineTyped, TailOfLine
<1>3. /\ UnderWay(s, b) \subseteq b.debits
      /\ Cardinality(Taken(s, b)) <= InputFrames
      /\ \A u \in Utterances : b.watermark[u] < s.utterance[u].next
      /\ \A k \in 1 .. Len(l) : IsFlow(l[k]) => IsCredible(s, b, l, k)
  BY DEF CreditInv
<1> HIDE DEF l, m
<1>4. /\ e \in Events /\ e.id \in Ids /\ e.through \in Int /\ e.available \in Int
      /\ IsCredible(s, b, l, 1) /\ InputFrames \in Nat
  BY <1>2, <1>3, FlowIs, ServiceAssumption
<1>5. e.id # Nobody => e.id \in Utterances /\ e.through < s.utterance[e.id].next
  BY <1>2, <1>4 DEF IsCredible, Ids
<1>6. UnderWay(t, c) = UnderWay(s, b) /\ Taken(t, c) = Taken(s, b)
  BY <1>1 DEF UnderWay, Unborn, Taken
<1>7. \A u \in Utterances : s.utterance[u].next \in Nat
  BY DEF IsService, UtteranceRecords
<1>8. ASSUME NEW f \in UnderWay(s, b), f \notin c.debits
      PROVE  FALSE
  <2>1. f \in b.debits /\ e.id # Nobody /\ f[1] = e.id /\ f[2] <= e.through
    BY <1>3, <1>8
  <2>2. f \in Frames /\ s.utterance[f[1]].next <= f[2]
    BY DEF UnderWay
  <2> DEFINE next == s.utterance[e.id].next
             frame == f[2]
             through == e.through
  <2>3. next \in Nat /\ frame \in Nat /\ through \in Int
    BY <1>4, <1>5, <1>7, <2>1, <2>2 DEF Frames
  <2>4. next <= frame /\ frame <= through /\ through < next
    BY <1>5, <2>1, <2>2
  <2> HIDE DEF next, frame, through
  <2> QED BY <2>3, <2>4
<1>9. UnderWay(t, c) \subseteq c.debits
  BY <1>6, <1>8
<1>10. /\ \A S \in SUBSET Taken(s, b) : IsFiniteSet(S) /\ Cardinality(S) \in Nat
  BY <1>3, TakenIsFinite
<1>11. ASSUME NEW f \in Taken(s, b), f \notin c.debits
       PROVE  f \in Uncounted(s, b, l, 1)
  BY <1>11, <1>2 DEF Uncounted
<1>12. Cardinality(Taken(t, c) \ c.debits) + c.available <= InputFrames
  <2>1. Uncounted(s, b, l, 1) \in SUBSET Taken(s, b)
    BY DEF Uncounted
  <2>2. (Taken(t, c) \ c.debits) \in SUBSET Uncounted(s, b, l, 1)
    BY <1>6, <1>11
  <2>3. /\ Cardinality(Taken(t, c) \ c.debits) <= Cardinality(Uncounted(s, b, l, 1))
        /\ Cardinality(Taken(t, c) \ c.debits) \in Nat /\ Cardinality(Uncounted(s, b, l, 1)) \in Nat
    BY <1>10, <2>1, <2>2, FS_Subset, FS_CardinalityType
  <2>4. Cardinality(Uncounted(s, b, l, 1)) + e.available <= InputFrames
    BY <1>2, <1>4 DEF IsCredible
  <2> QED BY <1>4, <2>3, <2>4
<1>13. \A u \in Utterances : c.watermark[u] < t.utterance[u].next
  BY <1>1, <1>3, <1>5, NobodyIsNone
<1>14. ASSUME NEW k \in 1 .. Len(m), IsFlow(m[k])
       PROVE  IsCredible(t, c, m, k)
  <2>1. k + 1 \in 1 .. Len(l) /\ m[k] = l[k + 1] /\ IsCredible(s, b, l, k + 1) /\ 1 \in 1 .. k + 1
    BY <1>2, <1>3, <1>14
  <2>2. m[k].available \in Int /\ m[k].id \in Ids
    BY <1>2, <1>14, <2>1, FlowIs
  <2>3. \A j \in 1 .. k : j + 1 \in 1 .. k + 1 /\ m[j] = l[j + 1]
    BY <1>2
  <2>4. ASSUME NEW f \in Uncounted(t, c, m, k)
        PROVE  f \in Uncounted(s, b, l, k + 1)
    <3>1. f \in Taken(s, b)
      BY <1>6 DEF Uncounted
    <3>2. CASE f \notin c.debits
      BY <1>2, <3>2, <2>1, <3>1 DEF Uncounted
    <3>3. CASE f \in c.debits
      <4>1. PICK j \in 1 .. k : IsFlow(m[j]) /\ m[j].id = f[1] /\ m[j].through >= f[2]
        BY <3>3 DEF Uncounted
      <4>2. j + 1 \in 1 .. k + 1 /\ IsFlow(l[j + 1]) /\ l[j + 1].id = f[1] /\ l[j + 1].through >= f[2]
        BY <2>3, <4>1
      <4> QED BY <3>1, <4>2 DEF Uncounted
    <3> QED BY <3>2, <3>3
  <2>5. Uncounted(s, b, l, k + 1) \in SUBSET Taken(s, b)
    BY DEF Uncounted
  <2>6. Uncounted(t, c, m, k) \in SUBSET Uncounted(s, b, l, k + 1)
    BY <2>4
  <2>7. /\ Cardinality(Uncounted(t, c, m, k)) <= Cardinality(Uncounted(s, b, l, k + 1))
        /\ Cardinality(Uncounted(t, c, m, k)) \in Nat
        /\ Cardinality(Uncounted(s, b, l, k + 1)) \in Nat
    BY <1>10, <2>5, <2>6, FS_Subset, FS_CardinalityType
  <2>8. Cardinality(Uncounted(t, c, m, k)) + m[k].available <= InputFrames
    BY <2>1, <1>4, <2>2, <2>7 DEF IsCredible
  <2>9. ASSUME m[k].id # Nobody
        PROVE  /\ c.status[m[k].id] # "none"
               /\ c.watermark[m[k].id] <= m[k].through /\ m[k].through < t.utterance[m[k].id].next
               /\ \A j \in 1 .. k : IsFlow(m[j]) /\ m[j].id = m[k].id => m[j].through <= m[k].through
    <3>1. m[k].id \in Utterances
      BY <2>2, <2>9 DEF Ids
    <3>2. /\ b.status[m[k].id] # "none"
          /\ b.watermark[m[k].id] <= m[k].through /\ m[k].through < s.utterance[m[k].id].next
          /\ \A j \in 1 .. k + 1 :
               IsFlow(l[j]) /\ l[j].id = m[k].id => l[j].through <= m[k].through
      BY <2>1, <2>9 DEF IsCredible
    <3>3. c.watermark[m[k].id] <= m[k].through
      BY <1>2, <2>1, <3>1, <3>2
    <3> QED BY <1>1, <2>3, <3>2, <3>3
  <2> QED BY <2>8, <2>9 DEF IsCredible
<1>15. /\ s.overrun = FALSE
       /\ s.credited # Nobody => s.through = s.utterance[s.credited].next - 1
       /\ s.active # Nobody => s.credited = s.active
       /\ s.credited # Nobody => b.status[s.credited] # "none"
  BY DEF CreditInv
<1>16. Cardinality(Taken(t, c)) <= InputFrames
  BY <1>3, <1>6
<1> QED BY <1>1, <1>9, <1>12, <1>13, <1>14, <1>15, <1>16 DEF CreditInv, m

LEMMA EventHeardKeeps ==
  ASSUME NEW s, NEW b, NEW said, SpeechInv(s, b, said, Utterances), b.state = "ready",
         s.outgoing # <<>>
  PROVE  SpeechInv([s EXCEPT !.outgoing = Tail(@)], Heard(b, Head(s.outgoing)), said, Utterances)
<1> DEFINE t == [s EXCEPT !.outgoing = Tail(@)]
           e == Head(s.outgoing)
<1>0. /\ IsService(s) /\ IsBrowser(b) /\ ChannelInv(s, b, Utterances)
      /\ CreditInv(s, b) /\ WorkInv(s, Utterances) /\ FenceInv(s, said)
  BY DEF SpeechInv
<1>1. ServiceFields \subseteq DOMAIN s /\ s.outgoing \in Seq(Events) /\ s.outbound \in Seq(Batches)
  BY <1>0 DEF IsService
<1>2. e \in Events
  BY <1>1
<1> HIDE DEF e
<1>3. DiffersIn(t, s, {"outgoing"}) /\ t.outgoing = Tail(s.outgoing)
  BY <1>1 DEF DiffersIn, ServiceFields
<1> HIDE DEF t
<1>4. /\ t.closed = s.closed /\ t.active = s.active /\ t.session = s.session
      /\ t.current = s.current /\ t.utterance = s.utterance /\ t.header = s.header
      /\ t.outbound = s.outbound
      /\ DiffersIn(t, s, {"outgoing", "outbound"})
      /\ DiffersIn(t, s, {"outgoing", "outbound", "current", "lane", "overrun", "through"})
      /\ DiffersIn(t, s, {"outgoing", "outbound", "current", "lane", "fence", "frames", "leases",
                          "terminal", "header", "worker", "creating"})
  BY <1>3 DEF DiffersIn, ServiceFields
<1>5. /\ t.outgoing \in Seq(Events)
      /\ Len(Line(t)) = Len(Line(s)) - 1 /\ Len(Line(s)) \in Nat /\ Len(Line(t)) \in Nat
      /\ \A k \in 1 .. Len(Line(t)) : k + 1 \in 1 .. Len(Line(s)) /\ Line(t)[k] = Line(s)[k + 1]
      /\ 1 \in 1 .. Len(Line(s)) /\ Line(s)[1] = e
  BY <1>0, <1>3, <1>4, TailOfLine DEF e
<1>6. IsService(t)
  BY <1>0, <1>1, <1>4, <1>5, DiffersKeepsType
<1>7. WorkInv(t, Utterances) /\ FenceInv(t, said) /\ ChannelInv(t, b, Utterances)
  BY <1>0, <1>4, PartOfItself, WorkKeeps, FenceKeeps, ChannelKeeps
<1>8. ASSUME e \in Spoken
      PROVE  SpeechInv(t, Heard(b, e), said, Utterances)
  <2> DEFINE h == [k \in 1 .. Len(Line(t)) |-> k + 1]
  <2>1. h \in [1 .. Len(Line(t)) -> Nat]
    BY <1>5
  <2>2. \A k \in 1 .. Len(Line(t)) :
          /\ h[k] \in 1 .. Len(Line(s)) /\ Line(s)[h[k]] = Line(t)[k]
          /\ \A j \in 1 .. k : h[j] <= h[k]
    BY <1>5
  <2>3. Embeds(Line(t), Line(s))
    BY <2>1, <2>2 DEF Embeds
  <2>4. CreditInv(t, b)
    BY <1>0, <1>4, <1>6, <2>3, CreditKeeps
  <2>5. SpeechInv(t, b, said, Utterances)
    BY <1>0, <1>6, <1>7, <2>4 DEF SpeechInv
  <2> QED BY <1>8, <2>5, SpokenHeard
<1>9. ASSUME IsFlow(e)
      PROVE  SpeechInv(t, Heard(b, e), said, Utterances)
  <2> DEFINE c == Heard(b, e)
  <2>1. c = FlowApplied(b, e)
    BY <1>9 DEF Heard, IsFlow
  <2>2. e.id \in Ids /\ e.through \in Int /\ e.available \in Int
    BY <1>2, <1>9, FlowIs
  <2>3. /\ BrowserFields \subseteq DOMAIN b /\ b.debits \subseteq Frames /\ IsFiniteSet(b.debits)
        /\ b.watermark \in [Utterances -> Int] /\ b.sent \in [Utterances -> Nat]
    BY <1>0 DEF IsBrowser
  <2>4. IsCredible(s, b, Line(s), 1)
    BY <1>0, <1>5, <1>9 DEF CreditInv
  <2> HIDE DEF c
  <2>5. /\ DOMAIN c = DOMAIN b
        /\ \A f \in BrowserFields \ {"debits", "watermark", "available"} : c[f] = b[f]
        /\ c.available = e.available
        /\ c.debits \subseteq b.debits
        /\ \A f \in b.debits : f \notin c.debits => e.id # Nobody /\ f[1] = e.id /\ f[2] <= e.through
        /\ \A v \in Utterances : c.watermark[v] = IF v = e.id THEN e.through ELSE b.watermark[v]
        /\ c.watermark \in [Utterances -> Int]
    <3>1. CASE e.id = Nobody
      BY <2>1, <3>1, <2>3, NobodyIsNone DEF FlowApplied, BrowserFields
    <3>2. CASE e.id # Nobody
      <4>1. e.id \in Utterances
        BY <2>2, <3>2 DEF Ids
      <4>2. /\ b.status[e.id] # "none" /\ b.watermark[e.id] <= e.through
            /\ e.through < s.utterance[e.id].next
        BY <1>5, <2>4, <3>2 DEF IsCredible
      <4>3. s.utterance[e.id].next <= b.sent[e.id]
        BY <1>0, <4>1 DEF ChannelInv, IsCalled
      <4> DEFINE next == s.utterance[e.id].next
                 sent == b.sent[e.id]
                 mark == b.watermark[e.id]
                 through == e.through
      <4>4. next \in Nat /\ sent \in Nat /\ mark \in Int /\ through \in Int
        BY <1>0, <2>2, <2>3, <4>1 DEF IsService, UtteranceRecords
      <4>5. through < next /\ next <= sent /\ mark <= through
        BY <4>2, <4>3
      <4> HIDE DEF next, sent, mark, through
      <4>6. ~(through >= sent) /\ ~(through < mark)
        BY <4>4, <4>5
      <4>7. c = [b EXCEPT !.debits = {d \in b.debits : d[1] # e.id \/ d[2] > e.through},
                          !.watermark = [b.watermark EXCEPT ![e.id] = e.through],
                          !.available = e.available]
        BY <2>1, <2>3, <3>2, <4>2, <4>6 DEF FlowApplied, through, sent, mark, BrowserFields
      <4>8. /\ DOMAIN c = DOMAIN b /\ c.available = e.available
            /\ \A f \in BrowserFields \ {"debits", "watermark", "available"} : c[f] = b[f]
            /\ c.debits = {d \in b.debits : d[1] # e.id \/ d[2] > e.through}
            /\ c.watermark = [b.watermark EXCEPT ![e.id] = e.through]
        BY <2>3, <4>7 DEF BrowserFields
      <4>9. \A f \in b.debits : f[2] \in Nat
        BY <2>3 DEF Frames
      <4>10. \A f \in b.debits : f \notin c.debits => f[1] = e.id /\ f[2] <= e.through
        BY <2>2, <4>8, <4>9
      <4>11. /\ c.watermark \in [Utterances -> Int]
             /\ \A v \in Utterances : c.watermark[v] = IF v = e.id THEN e.through ELSE b.watermark[v]
        BY <2>2, <2>3, <4>1, <4>8
      <4> QED BY <3>2, <4>8, <4>10, <4>11
    <3> QED BY <3>1, <3>2
  <2>6. /\ c.state = b.state /\ c.sent = b.sent /\ c.status = b.status
        /\ c.recording = b.recording /\ c.forwarding = b.forwarding /\ c.active = b.active
        /\ c.outgoing = b.outgoing
    BY <2>5 DEF BrowserFields
  <2>7. IsFiniteSet(c.debits) /\ c.debits \subseteq Frames
    BY <2>3, <2>5, FS_Subset
  <2>8. IsBrowser(c)
    BY <1>0, <2>2, <2>5, <2>6, <2>7 DEF IsBrowser
  <2>9. CreditInv(t, c)
    BY <1>0, <1>3, <1>6, <1>9, <2>5, <2>6, FlowIsHonoured DEF e
  <2>10. ChannelInv(t, c, Utterances)
    BY <2>6, <1>7 DEF IsCalled, IsUnknown, Ended, Awaited, IsTracked, Counts,
       ChannelInv
  <2>11. SpeechInv(t, c, said, Utterances)
    BY <1>6, <1>7, <2>8, <2>9, <2>10 DEF SpeechInv
  <2> QED BY <2>11 DEF c
<1>10. e \in Spoken \/ IsFlow(e)
  BY <1>2 DEF Events, FlowEvents, IsFlow
<1> QED BY <1>8, <1>9, <1>10 DEF t, e

-----------------------------------------------------------------------------
(* A step of the service about one utterance, which says nothing *)

LEMMA AboutOne ==
  ASSUME NEW s, NEW t, NEW b, NEW said,
         NEW settled \in SUBSET Utterances, NEW after \in SUBSET Utterances, NEW u \in Utterances,
         SpeechInv(s, b, said, settled), after \subseteq settled \cup {u}, IsService(t),
         t.closed = s.closed, t.outbound = s.outbound, t.current = s.current,
         t.outgoing = s.outgoing, t.overrun = s.overrun, t.header = s.header,
         t.reserved \subseteq s.reserved,
         t.closed => t.active = Nobody /\ t.creating = Nobody,
         \A v \in Utterances : v # u => IsApart(t, s, v),
         WorksFor(t, u),
         u \in after =>
           /\ HeardInOrder(t, u)
           /\ t.active = u => t.session[u] = "open" /\ t.utterance[u].finalizer # "late",
         t.utterance[u].next = s.utterance[u].next,
         Unborn(t, u) \/ t.active = u => Unborn(s, u) \/ s.active = u,
         \/ IsQuieter(t, s, u) /\ (u \in after /\ Awaited(t, b, u) => u \in settled)
         \/ ChannelInv(t, b, after),
         \/ t.active \in {s.active, Nobody} /\ t.credited = s.credited /\ t.through = s.through
         \/ t.active = u /\ CreditInv(t, b)
  PROVE  SpeechInv(t, b, said, after)
<1>0. /\ IsService(s) /\ IsBrowser(b) /\ WorkInv(s, settled) /\ FenceInv(s, said)
      /\ ChannelInv(s, b, settled) /\ CreditInv(s, b)
  BY DEF SpeechInv
<1>1. ASSUME IsQuieter(t, s, u)
      PROVE  \A v \in Utterances : IsQuieter(t, s, v)
  <2>1. TAKE v \in Utterances
  <2>2. CASE v = u
    BY <1>1, <2>2
  <2>3. CASE v # u
    BY <2>3 DEF IsApart, IsQuieter, Listening
  <2> QED BY <2>2, <2>3
<1>2. \A v \in Utterances : Unborn(t, v) \/ t.active = v => Unborn(s, v) \/ s.active = v
  BY NobodyIsNone DEF IsApart, Unborn
<1>3. \A v \in Utterances : t.utterance[v].next = s.utterance[v].next
  BY DEF IsApart
<1>4. WorkInv(t, after)
  <2>1. \A v \in Utterances : WorksFor(s, v)
    BY <1>0 DEF WorkInv, WorksFor
  <2>2. \A v \in Utterances : v # u =>
          WorksFor(t, v) /\ (HeardInOrder(s, v) => HeardInOrder(t, v))
    BY <2>1, WorkOthers
  <2>3. \A v \in after : v \in Utterances /\ HeardInOrder(t, v)
    BY <1>0, <2>2 DEF WorkInv
  <2>4. t.active \in after => t.session[t.active] = "open" /\ t.utterance[t.active].finalizer # "late"
    <3>1. HAVE t.active \in after
    <3>2. CASE t.active = u
      BY <3>1, <3>2
    <3>3. CASE t.active # u
      <4>1. t.active \in Utterances /\ t.active = s.active /\ s.active \in settled
        BY <3>1, <3>3 DEF IsApart
      <4>2. IsApart(t, s, s.active)
        BY <3>3, <4>1
      <4> QED BY <1>0, <4>1, <4>2 DEF WorkInv, IsApart
    <3> QED BY <3>2, <3>3
  <2>5. \A f \in t.reserved : f[2] < t.utterance[f[1]].next
    BY <1>0, <1>3 DEF Frames, IsService, WorkInv
  <2>6. \A v \in Utterances : WorksFor(t, v)
    BY <2>2
  <2> QED BY <2>3, <2>4, <2>5, <2>6 DEF WorkInv, WorksFor
<1>5. FenceInv(t, said)
  BY <1>2, <1>0, PartOfItself, FenceShrinks
<1>6. ChannelInv(t, b, after)
  <2>1. CASE IsQuieter(t, s, u) /\ (u \in after /\ Awaited(t, b, u) => u \in settled)
    BY <2>1, <1>0, <1>1, ChannelShrinks
  <2> QED BY <2>1
<1>7. CreditInv(t, b)
  <2>1. CASE t.active \in {s.active, Nobody} /\ t.credited = s.credited /\ t.through = s.through
    <3>1. Line(t) = Line(s)
      BY DEF Line
    <3>2. Embeds(Line(t), Line(s))
      BY <1>0, <3>1, LineTyped, EmbedsItself
    <3>3. /\ s.overrun = FALSE
          /\ s.credited # Nobody => s.through = s.utterance[s.credited].next - 1
          /\ s.credited # Nobody /\ b.state = "ready" => b.status[s.credited] # "none"
          /\ s.active # Nobody => s.credited = s.active
      BY <1>0 DEF CreditInv
    <3>4. s.credited # Nobody => s.credited \in Utterances
      BY <1>0 DEF IsService, Ids
    <3>5. t.credited # Nobody => t.through = t.utterance[t.credited].next - 1
      BY <1>3, <2>1, <3>3, <3>4
    <3> QED BY <1>0, <1>2, <1>3, <2>1, <3>2, <3>3, <3>5, CreditShrinks
  <2> QED BY <2>1
<1> QED BY <1>0, <1>4, <1>5, <1>6, <1>7 DEF SpeechInv

\* An utterance that is over has nothing left to settle.
LEMMA SettledWhenOver ==
  ASSUME NEW s, NEW b, NEW said, NEW u \in Utterances,
         SpeechInv(s, b, said, Utterances \ {u}), s.active # u, ~Unborn(s, u)
  PROVE  SpeechInv(s, b, said, Utterances)
  BY DEF SpeechInv, HeardInOrder, Awaited, Unborn, Listening, WorkInv, ChannelInv

-----------------------------------------------------------------------------
(* The end of an utterance *)

LEMMA FinalizerSpawnedKeeps ==
  ASSUME NEW s, NEW b, NEW said, NEW u \in Utterances, s.active = u,
         SpeechInv(s, b, said, Utterances)
  PROVE  SpeechInv(FinalizerSpawned(s, u), b, said, Utterances)
<1> DEFINE r == [s.utterance[u] EXCEPT !.finalizer = "running"]
           t == [s EXCEPT !.utterance = [s.utterance EXCEPT ![u] = r]]
<1>0. IsService(s) /\ WorkInv(s, Utterances)
  BY DEF SpeechInv
<1>1. /\ ServiceFields \subseteq DOMAIN s
      /\ s.utterance \in [Utterances -> UtteranceRecords] /\ s.utterance[u] \in UtteranceRecords
      /\ s.worker \in Frames \cup {NoFrame}
  BY <1>0 DEF IsService
<1>2. CASE ~(/\ s.utterance[u].status = "finalizing" /\ s.utterance[u].pending = 0
             /\ s.utterance[u].finalizer = "none" /\ s.header[1] # u)
  BY <1>2 DEF FinalizerSpawned
<1>3. ASSUME s.utterance[u].status = "finalizing", s.utterance[u].pending = 0,
             s.utterance[u].finalizer = "none", s.header[1] # u
      PROVE  SpeechInv(FinalizerSpawned(s, u), b, said, Utterances)
  <2>1. FinalizerSpawned(s, u) = t
    BY <1>1, <1>3 DEF FinalizerSpawned, ServiceFields
  <2>2. DiffersIn(t, s, {"utterance"}) /\ t.utterance = [s.utterance EXCEPT ![u] = r]
    BY <1>1 DEF DiffersIn, ServiceFields
  <2>3. /\ r \in UtteranceRecords /\ r.finalizer = "running"
        /\ r.status = s.utterance[u].status /\ r.next = s.utterance[u].next
        /\ r.pending = s.utterance[u].pending /\ r.heard = s.utterance[u].heard
        /\ r.reason = s.utterance[u].reason
    BY <1>1 DEF UtteranceRecords
  <2> HIDE DEF t, r
  <2>4. /\ t.utterance \in [Utterances -> UtteranceRecords] /\ t.utterance[u] = r
        /\ \A v \in Utterances : v # u => t.utterance[v] = s.utterance[v]
    BY <1>1, <2>2, <2>3
  <2>5. /\ t.closed = s.closed /\ t.active = s.active /\ t.creating = s.creating
        /\ t.session = s.session /\ t.reserved = s.reserved /\ t.leases = s.leases
        /\ t.worker = s.worker /\ t.fence = s.fence /\ t.terminal = s.terminal
        /\ t.header = s.header /\ t.credited = s.credited /\ t.through = s.through
        /\ t.frames = s.frames /\ t.outbound = s.outbound /\ t.current = s.current
        /\ t.outgoing = s.outgoing /\ t.overrun = s.overrun /\ ServiceFields \subseteq DOMAIN t
    BY <1>1, <2>2 DEF DiffersIn, ServiceFields
  <2>6. IsService(t)
    BY <1>0, <2>4, <2>5 DEF IsService
  <2>7. \A v \in Utterances : v # u => IsApart(t, s, v)
    <3>1. \A v \in Utterances : IsPartFor(t.frames, s.frames, v)
      BY <2>5, PartOfItself, PartForAll
    <3>2. \A v \in Utterances : s.creating = v => s.active = Nobody
      BY <1>0 DEF WorkInv, HoldsRecognizer
    <3> QED BY <2>4, <2>5, <3>1, <3>2 DEF IsApart
  <2>8. /\ HeardInOrder(s, u) /\ WorksFor(s, u) /\ s.session[u] = "open"
        /\ ~s.closed
    BY <1>0, NobodyIsNone DEF WorkInv, WorksFor
  <2>9. s.worker[1] # u
    <3>1. SUFFICES ASSUME s.worker[1] = u PROVE FALSE
      OBVIOUS
    <3> DEFINE n == s.utterance[u].next
               h == s.utterance[u].heard
    <3>2. 0 = n - h /\ s.worker[2] \in h .. n - 1 /\ n \in Nat /\ h \in Nat
      BY <1>1, <1>3, <2>8, <3>1 DEF HeardInOrder, UtteranceRecords
    <3> HIDE DEF n, h
    <3> QED BY <3>2
  <2>10. WorksFor(t, u)
    <3>1. HoldsRecognizer(t, u)
      BY <2>3, <2>4, <2>5, <2>8, <2>9 DEF WorksFor, HoldsRecognizer
    <3>2. StillSilent(t, u)
      BY <2>5, <2>8 DEF StillSilent, Unborn
    <3>3. IsWhole(t, u)
      BY <2>3, <2>4, <2>5, <2>8 DEF WorksFor, IsWhole
    <3> QED BY <3>1, <3>2, <3>3 DEF WorksFor
  <2>11. HeardInOrder(t, u)
    BY <1>3, <2>3, <2>4, <2>5, <2>8 DEF HeardInOrder
  <2>12. IsQuieter(t, s, u)
    BY <2>3, <2>4, <2>5 DEF IsQuieter, Listening
  <2>13. /\ t.closed => t.active = Nobody /\ t.creating = Nobody
         /\ t.session[u] = "open" /\ t.utterance[u].finalizer # "late"
         /\ t.utterance[u].next = s.utterance[u].next
         /\ t.reserved \subseteq s.reserved /\ t.active \in {s.active, Nobody}
         /\ Unborn(t, u) \/ t.active = u => Unborn(s, u) \/ s.active = u
    BY <2>3, <2>4, <2>5, <2>8
  <2>14. SpeechInv(t, b, said, Utterances)
    BY <2>5, <2>6, <2>7, <2>10, <2>11, <2>12, <2>13, AboutOne
  <2> QED BY <2>1, <2>14
<1> QED BY <1>2, <1>3

\* The utterance the browser has ended is all there.
AllSent(s, b, u) ==
  /\ b.state = "ready"
  /\ ~(b.forwarding /\ b.recording = u)
  /\ s.header[1] # u /\ s.utterance[u].next = b.sent[u]

LEMMA FinalizeRequestedKeeps ==
  ASSUME NEW s, NEW b, NEW said, NEW u \in Utterances, s.active = u,
         SpeechInv(s, b, said, Utterances), NEW reason \in {"client_end", "vad_end"},
         reason = "client_end" /\ Listening(s, u) => AllSent(s, b, u)
  PROVE  SpeechInv(FinalizeRequested(s, u, reason), b, said, Utterances)
<1> DEFINE r == [s.utterance[u] EXCEPT !.status = "finalizing", !.reason = reason]
           t == [s EXCEPT !.utterance = [s.utterance EXCEPT ![u] = r]]
<1>0. /\ IsService(s) /\ WorkInv(s, Utterances) /\ ChannelInv(s, b, Utterances) /\ IsBrowser(b)
  BY DEF SpeechInv
<1>1. /\ ServiceFields \subseteq DOMAIN s
      /\ s.utterance \in [Utterances -> UtteranceRecords] /\ s.utterance[u] \in UtteranceRecords
  BY <1>0 DEF IsService
<1>2. CASE s.utterance[u].status # "listening"
  BY <1>2, FinalizerSpawnedKeeps DEF FinalizeRequested
<1>3. ASSUME s.utterance[u].status = "listening"
      PROVE  SpeechInv(FinalizeRequested(s, u, reason), b, said, Utterances)
  <2>1. FinalizeRequested(s, u, reason) = FinalizerSpawned(t, u)
    <3>1. t = [s EXCEPT !.utterance[u].status = "finalizing", !.utterance[u].reason = reason]
      BY <1>1 DEF ServiceFields
    <3> HIDE DEF t
    <3> QED BY <1>3, <3>1 DEF FinalizeRequested
  <2>2. DiffersIn(t, s, {"utterance"}) /\ t.utterance = [s.utterance EXCEPT ![u] = r]
    BY <1>1 DEF DiffersIn, ServiceFields
  <2>3. /\ r \in UtteranceRecords /\ r.finalizer = s.utterance[u].finalizer
        /\ r.status = "finalizing" /\ r.next = s.utterance[u].next
        /\ r.pending = s.utterance[u].pending /\ r.heard = s.utterance[u].heard
        /\ r.reason = reason
    BY <1>1 DEF UtteranceRecords
  <2> HIDE DEF t, r
  <2>4. /\ t.utterance \in [Utterances -> UtteranceRecords] /\ t.utterance[u] = r
        /\ \A v \in Utterances : v # u => t.utterance[v] = s.utterance[v]
    BY <1>1, <2>2, <2>3
  <2>5. /\ t.closed = s.closed /\ t.active = s.active /\ t.creating = s.creating
        /\ t.session = s.session /\ t.reserved = s.reserved /\ t.leases = s.leases
        /\ t.worker = s.worker /\ t.fence = s.fence /\ t.terminal = s.terminal
        /\ t.header = s.header /\ t.credited = s.credited /\ t.through = s.through
        /\ t.frames = s.frames /\ t.outbound = s.outbound /\ t.current = s.current
        /\ t.outgoing = s.outgoing /\ t.overrun = s.overrun /\ ServiceFields \subseteq DOMAIN t
    BY <1>1, <2>2 DEF DiffersIn, ServiceFields
  <2>6. IsService(t)
    BY <1>0, <2>4, <2>5 DEF IsService
  <2>7. \A v \in Utterances : v # u => IsApart(t, s, v)
    BY <2>5, <1>0, <2>4, PartOfItself, PartForAll DEF WorkInv, HoldsRecognizer, IsApart
  <2>8. /\ HeardInOrder(s, u) /\ WorksFor(s, u) /\ s.session[u] = "open"
        /\ ~s.closed /\ s.utterance[u].finalizer # "late"
    BY <1>0, NobodyIsNone DEF WorkInv, WorksFor
  <2>9. s.utterance[u].finalizer = "none"
    BY <1>3, <2>8 DEF HeardInOrder
  <2>10. WorksFor(t, u)
    <3>1. HoldsRecognizer(t, u)
      BY <2>3, <2>4, <2>5, <2>8, <2>9 DEF WorksFor, HoldsRecognizer
    <3>2. StillSilent(t, u)
      BY <2>5, <2>8 DEF StillSilent, Unborn
    <3>3. IsWhole(t, u)
      BY <2>3, <2>4, <2>5, <2>8 DEF WorksFor, IsWhole
    <3> QED BY <3>1, <3>2, <3>3 DEF WorksFor
  <2>11. HeardInOrder(t, u)
    BY <2>3, <2>4, <2>5, <2>8, <2>9 DEF HeardInOrder
  <2>12. IsQuieter(t, s, u) \/ ChannelInv(t, b, Utterances)
    <3>1. CASE reason # "client_end"
      BY <2>3, <2>4, <2>5, <3>1 DEF IsQuieter, Listening
    <3>2. CASE reason = "client_end"
      <4>1. AllSent(s, b, u)
        BY <1>3, <3>2 DEF Listening
      <4>2. ASSUME NEW v \in Utterances
            PROVE  IsCalled(t, b, v)
        <5>1. IsCalled(s, b, v)
          BY <1>0, <4>1 DEF ChannelInv, AllSent
        <5>2. CASE v # u
          BY <2>4, <5>2, <2>5, <5>1 DEF IsCalled, IsUnknown, Ended, Listening
        <5>3. CASE v = u
          <6>1. ~(b.forwarding /\ b.recording = u)
            BY <4>1 DEF AllSent
          <6>2. ~Listening(t, u)
            BY <2>3, <2>4 DEF Listening
          <6> QED
            BY <2>3, <2>4, <2>5, <4>1, <5>1, <5>3, <6>1, <6>2 DEF IsCalled, IsUnknown, AllSent
        <5> QED BY <5>2, <5>3
      <4>3. ASSUME NEW v \in Utterances, Awaited(t, b, v)
            PROVE  IsTracked(t, b, v)
        <5>1. v # u
          BY <2>3, <2>4, <2>5, <2>8, <4>3 DEF Awaited, Listening
        <5>2. t.utterance[v] = s.utterance[v]
          BY <2>4, <5>1
        <5>3. Awaited(s, b, v)
          BY <2>5, <4>3, <5>2 DEF Awaited, Listening
        <5>4. IsTracked(s, b, v)
          BY <1>0, <4>1, <5>3 DEF ChannelInv, AllSent
        <5>5. Due(t, v) = Due(s, v)
          BY <2>5, <5>2 DEF Due
        <5> QED BY <5>4, <5>5 DEF IsTracked, Counts
      <4> QED BY <1>0, <2>5, <4>1, <4>2, <4>3 DEF ChannelInv, AllSent
    <3> QED BY <3>1, <3>2
  <2>13. /\ t.closed => t.active = Nobody /\ t.creating = Nobody
         /\ t.session[u] = "open" /\ t.utterance[u].finalizer # "late"
         /\ t.utterance[u].next = s.utterance[u].next
         /\ t.reserved \subseteq s.reserved /\ t.active \in {s.active, Nobody}
         /\ Unborn(t, u) \/ t.active = u => Unborn(s, u) \/ s.active = u
    BY <2>3, <2>4, <2>5, <2>8
  <2>14. SpeechInv(t, b, said, Utterances)
    BY <2>5, <2>6, <2>7, <2>10, <2>11, <2>12, <2>13, AboutOne
  <2> QED BY <2>1, <2>5, <2>14, FinalizerSpawnedKeeps
<1> QED BY <1>2, <1>3

\* The step changes nothing of the others.
IsAbout(t, s, u) ==
  /\ DiffersIn(t, s, {"utterance", "session", "terminal", "leases", "lane", "creating", "active"})
  /\ \A v \in Utterances : v # u =>
       /\ t.utterance[v] = s.utterance[v] /\ t.session[v] = s.session[v]
       /\ t.terminal[v] = s.terminal[v]
       /\ v \in s.leases => v \in t.leases
       /\ t.creating = v <=> s.creating = v
  /\ t.active \in {s.active, Nobody}

LEMMA AboutLeaves ==
  ASSUME NEW s, NEW t, NEW settled \in SUBSET Utterances, NEW u \in Utterances,
         IsService(s), WorkInv(s, settled), IsAbout(t, s, u)
  PROVE  /\ \A v \in Utterances : v # u => IsApart(t, s, v)
         /\ t.closed = s.closed /\ t.reserved = s.reserved /\ t.worker = s.worker
         /\ t.fence = s.fence /\ t.header = s.header /\ t.credited = s.credited
         /\ t.through = s.through /\ t.frames = s.frames /\ t.outbound = s.outbound
         /\ t.current = s.current /\ t.outgoing = s.outgoing /\ t.overrun = s.overrun
         /\ ServiceFields \subseteq DOMAIN t
<1>1. ServiceFields \subseteq DOMAIN s
  BY DEF IsService
<1>2. /\ t.closed = s.closed /\ t.reserved = s.reserved /\ t.worker = s.worker
      /\ t.fence = s.fence /\ t.header = s.header /\ t.credited = s.credited
      /\ t.through = s.through /\ t.frames = s.frames /\ t.outbound = s.outbound
      /\ t.current = s.current /\ t.outgoing = s.outgoing /\ t.overrun = s.overrun
      /\ ServiceFields \subseteq DOMAIN t
  BY <1>1 DEF IsAbout, DiffersIn, ServiceFields
<1>3. \A v \in Utterances : IsPartFor(t.frames, s.frames, v)
  BY <1>2, PartOfItself, PartForAll
<1>4. \A v \in Utterances : s.creating = v => s.active = Nobody
  BY DEF WorkInv, HoldsRecognizer
<1>5. \A v \in Utterances : t.active = v => s.active = v
  BY NobodyIsNone DEF IsAbout
<1>6. \A v \in Utterances : v # u => IsApart(t, s, v)
  BY <1>2, <1>3, <1>4, <1>5 DEF IsAbout, IsApart
<1> QED BY <1>2, <1>6

\* A finish that is over leaves the utterance settled, but for its recognizer.
LEMMA FinishOverKeeps ==
  ASSUME NEW s, NEW b, NEW said, SpeechInv(s, b, said, Utterances),
         NEW u \in Utterances, s.utterance[u].finalizer \in {"running", "late"},
         NEW raised
  PROVE  /\ SpeechInv(FinishOver(s, u, raised), b, said, Utterances \ {u})
         /\ FinishOver(s, u, raised).active = s.active
         /\ FinishOver(s, u, raised).closed = s.closed
         /\ FinishOver(s, u, raised).worker = s.worker
         /\ FinishOver(s, u, raised).terminal = s.terminal
         /\ FinishOver(s, u, raised).header = s.header
         /\ FinishOver(s, u, raised).utterance[u].status = s.utterance[u].status
         /\ FinishOver(s, u, raised).utterance[u].heard = s.utterance[u].heard
         /\ FinishOver(s, u, raised).utterance[u].next = s.utterance[u].next
         /\ FinishOver(s, u, raised).session[u] \in {"released", "cancelling"}
<1> DEFINE r == [s.utterance[u] EXCEPT !.finalizer = "done"]
           lane == IF s.lane = u /\ ~raised THEN Nobody ELSE s.lane
           over == [s EXCEPT !.utterance = [s.utterance EXCEPT ![u] = r], !.lane = lane]
           t == FinishOver(s, u, raised)
<1>0. IsService(s) /\ WorkInv(s, Utterances)
  BY DEF SpeechInv
<1>1. /\ ServiceFields \subseteq DOMAIN s
      /\ s.utterance \in [Utterances -> UtteranceRecords] /\ s.utterance[u] \in UtteranceRecords
      /\ s.session \in [Utterances -> Sessions]
  BY <1>0 DEF IsService
<1>2. over = [s EXCEPT !.utterance[u].finalizer = "done",
                       !.lane = IF @ = u /\ ~raised THEN Nobody ELSE @]
  BY <1>1 DEF ServiceFields
<1>3. t = IF s.session[u] = "open"
          THEN [over EXCEPT !.session[u] = "released", !.leases = @ \ {u}] ELSE over
  BY <1>2 DEF FinishOver
<1>4. DiffersIn(over, s, {"utterance", "lane"}) /\ over.utterance = [s.utterance EXCEPT ![u] = r]
  BY <1>1 DEF DiffersIn, ServiceFields
<1> HIDE DEF t, over, lane
<1>5. /\ ServiceFields \subseteq DOMAIN over
      /\ over.session = s.session /\ over.leases = s.leases
  BY <1>1, <1>4 DEF DiffersIn, ServiceFields
<1>6. WorksFor(s, u) /\ s.session[u] \in {"open", "cancelling"}
  BY <1>0 DEF WorkInv, WorksFor, HoldsRecognizer
<1>7. /\ DiffersIn(t, s, {"utterance", "lane", "session", "leases"})
      /\ t.utterance = [s.utterance EXCEPT ![u] = r]
      /\ \/ s.session[u] = "open" /\ t.session = [s.session EXCEPT ![u] = "released"]
            /\ t.leases = s.leases \ {u}
         \/ s.session[u] = "cancelling" /\ t.session = s.session /\ t.leases = s.leases
  <2>1. CASE s.session[u] = "open"
    BY <1>3, <1>5, <2>1, <1>4 DEF DiffersIn, ServiceFields
  <2>2. CASE s.session[u] # "open"
    BY <1>3, <1>6, <2>2, <1>4, <1>5 DEF DiffersIn, ServiceFields
  <2> QED BY <2>1, <2>2
<1>8. /\ r \in UtteranceRecords /\ r.finalizer = "done"
      /\ r.status = s.utterance[u].status /\ r.next = s.utterance[u].next
      /\ r.pending = s.utterance[u].pending /\ r.heard = s.utterance[u].heard
      /\ r.reason = s.utterance[u].reason
  BY <1>1 DEF UtteranceRecords
<1>9. /\ t.utterance \in [Utterances -> UtteranceRecords] /\ t.utterance[u] = r
      /\ \A v \in Utterances : v # u => t.utterance[v] = s.utterance[v]
  BY <1>1, <1>7, <1>8 DEF r
<1> HIDE DEF r
<1>10. /\ t.active = s.active /\ t.creating = s.creating /\ t.terminal = s.terminal
  BY <1>1, <1>7 DEF DiffersIn, ServiceFields
<1>11. /\ t.session \in [Utterances -> Sessions] /\ t.session[u] \in {"released", "cancelling"}
       /\ \A v \in Utterances : v # u =>
            t.session[v] = s.session[v] /\ (v \in s.leases => v \in t.leases)
       /\ t.session[u] = "cancelling" => s.session[u] = "cancelling" /\ t.leases = s.leases
  BY <1>1, <1>7 DEF Sessions
<1>12. IsAbout(t, s, u)
  BY <1>7, <1>9, <1>10, <1>11 DEF IsAbout, DiffersIn
<1>13. /\ \A v \in Utterances : v # u => IsApart(t, s, v)
       /\ t.closed = s.closed /\ t.reserved = s.reserved /\ t.worker = s.worker
       /\ t.fence = s.fence /\ t.header = s.header /\ t.credited = s.credited
       /\ t.through = s.through /\ t.frames = s.frames /\ t.outbound = s.outbound
       /\ t.current = s.current /\ t.outgoing = s.outgoing /\ t.overrun = s.overrun
       /\ ServiceFields \subseteq DOMAIN t
  BY <1>0, <1>12, AboutLeaves
<1>14. IsService(t)
  BY <1>0, <1>9, <1>10, <1>11, <1>13 DEF IsService
<1>15. WorksFor(t, u)
  <2>1. s.active = u => s.session[u] = "open"
    BY <1>0 DEF WorkInv
  <2>2. HoldsRecognizer(t, u)
    BY <1>6, <1>8, <1>9, <1>10, <1>11, <1>13, <1>7, <2>1 DEF WorksFor, HoldsRecognizer
  <2>3. StillSilent(t, u)
    BY <1>11 DEF StillSilent, Unborn
  <2>4. IsWhole(t, u)
    BY <1>6, <1>8, <1>9, <1>10, <1>13 DEF WorksFor, IsWhole
  <2> QED BY <2>2, <2>3, <2>4 DEF WorksFor
<1>16. /\ IsQuieter(t, s, u) /\ t.utterance[u].next = s.utterance[u].next
       /\ t.closed => t.active = Nobody /\ t.creating = Nobody
       /\ Unborn(t, u) \/ t.active = u => Unborn(s, u) \/ s.active = u
       /\ t.active \in {s.active, Nobody} /\ t.reserved \subseteq s.reserved
       /\ u \notin Utterances \ {u} /\ Utterances \ {u} \in SUBSET Utterances
       /\ Utterances \ {u} \subseteq Utterances \cup {u}
  BY <1>0, <1>6, <1>8, <1>9, <1>10, <1>11, <1>13 DEF IsQuieter, Listening, Unborn, WorkInv
<1>17. SpeechInv(t, b, said, Utterances \ {u})
  BY <1>13, <1>14, <1>15, <1>16, AboutOne
<1> QED BY <1>8, <1>9, <1>10, <1>11, <1>13, <1>17 DEF t

\* The finalizer is done with an utterance that was cancelled meanwhile.
LEMMA OverWhenLate ==
  ASSUME NEW s, NEW b, NEW said, SpeechInv(s, b, said, Utterances),
         NEW u \in Utterances, s.utterance[u].finalizer \in {"running", "late"},
         s.active # u, NEW raised
  PROVE  SpeechInv(FinishOver(s, u, raised), b, said, Utterances)
<1>1. /\ SpeechInv(FinishOver(s, u, raised), b, said, Utterances \ {u})
      /\ FinishOver(s, u, raised).active = s.active
      /\ FinishOver(s, u, raised).session[u] \in {"released", "cancelling"}
  BY FinishOverKeeps
<1> DEFINE t == FinishOver(s, u, raised)
<1> HIDE DEF t
<1>2. ~Unborn(t, u)
  BY <1>1 DEF Unborn, t
<1>3. SpeechInv(t, b, said, Utterances)
  BY <1>1, <1>2, SettledWhenOver DEF t
<1> QED BY <1>3 DEF t

LEMMA LateFinishKeeps ==
  ASSUME NEW s, NEW b, NEW said, SpeechInv(s, b, said, Utterances),
         NEW u \in Utterances, s.utterance[u].finalizer = "late"
  PROVE  SpeechInv(FinishOver(s, u, FALSE), b, said, Utterances)
<1>1. s.active # u
  BY DEF SpeechInv, WorkInv
<1> QED BY <1>1, OverWhenLate

LEMMA FinalizeFailedKeeps ==
  ASSUME NEW s, NEW b, NEW said, NEW u \in Utterances, SpeechInv(s, b, said, Utterances \ {u}),
         ~Unborn(s, u)
  PROVE  SpeechInv(FinalizeFailed(s, u), b, said, Utterances)
  BY FailedKeeps, SettledWhenOver DEF FinalizeFailed, Fences

LEMMA PairIsSome ==
  ASSUME NEW T, NEW x \in T, NEW y \in T
  PROVE  <<x, y>> \in Some(T)
  BY DEF Some

LEMMA FinalizedKeeps ==
  ASSUME NEW s, NEW b, NEW said, SpeechInv(s, b, said, Utterances), NEW raised,
         NEW u \in Utterances, s.utterance[u].finalizer = "running"
  PROVE  SpeechInv(Finalized(FinishOver(s, u, raised), u), b, said, Utterances)
<1>0. IsService(s) /\ WorkInv(s, Utterances)
  BY DEF SpeechInv
<1>0a. /\ SpeechInv(FinishOver(s, u, raised), b, said, Utterances \ {u})
       /\ FinishOver(s, u, raised).active = s.active
       /\ FinishOver(s, u, raised).closed = s.closed
       /\ FinishOver(s, u, raised).worker = s.worker
       /\ FinishOver(s, u, raised).utterance[u].status = s.utterance[u].status
       /\ FinishOver(s, u, raised).utterance[u].heard = s.utterance[u].heard
       /\ FinishOver(s, u, raised).utterance[u].next = s.utterance[u].next
       /\ FinishOver(s, u, raised).session[u] \in {"released", "cancelling"}
  BY FinishOverKeeps
<1>1. CASE s.active # u
  BY <1>1, <1>0a, OverWhenLate DEF Finalized, IsCurrent
<1>2. CASE s.active = u
  <2> DEFINE t == FinishOver(s, u, raised)
             r == [t.utterance[u] EXCEPT !.status = "final"]
             e == [t EXCEPT !.active = Nobody, !.utterance = [t.utterance EXCEPT ![u] = r],
                            !.terminal = [t.terminal EXCEPT ![u] = "final"]]
             events == <<Event("final", u), Event("ended", u)>>
  <2> HIDE DEF t
  <2>2. /\ SpeechInv(t, b, said, Utterances \ {u}) /\ t.active = u /\ t.closed = s.closed
        /\ t.worker = s.worker /\ t.utterance[u].status = s.utterance[u].status
        /\ t.utterance[u].heard = s.utterance[u].heard
        /\ t.utterance[u].next = s.utterance[u].next
        /\ t.session[u] \in {"released", "cancelling"}
    BY <1>0a, <1>2 DEF t
  <2>3. /\ IsService(t) /\ WorkInv(t, Utterances \ {u}) /\ FenceInv(t, said)
        /\ ServiceFields \subseteq DOMAIN t
        /\ t.utterance \in [Utterances -> UtteranceRecords] /\ t.utterance[u] \in UtteranceRecords
        /\ t.terminal \in [Utterances -> Terminals]
    BY <2>2 DEF SpeechInv, IsService
  <2>4. WorksFor(t, u) /\ ~t.closed /\ t.active # Nobody /\ t.utterance[u].status \in {"listening", "finalizing"}
    BY <2>2, <2>3, NobodyIsNone DEF WorkInv, WorksFor, HoldsRecognizer
  <2>5. Finalized(t, u) = FinalCommitted(t, u)
    BY <2>2, <2>4 DEF Finalized, IsCurrent
  <2>6. FinalCommitted(t, u) = Queued(e, u, events)
    <3>1. e = [t EXCEPT !.active = Nobody, !.utterance[u].status = "final",
                        !.terminal[u] = "final"]
      BY <2>3 DEF ServiceFields
    <3> HIDE DEF e
    <3> QED BY <3>1 DEF FinalCommitted
  <2>7. /\ DiffersIn(e, t, {"active", "utterance", "terminal"}) /\ e.active = Nobody
        /\ e.utterance = [t.utterance EXCEPT ![u] = r]
        /\ e.terminal = [t.terminal EXCEPT ![u] = "final"]
    BY <2>3 DEF DiffersIn, ServiceFields
  <2>8. /\ r \in UtteranceRecords /\ r.status = "final" /\ r.next = t.utterance[u].next
        /\ r.heard = t.utterance[u].heard /\ r.finalizer = t.utterance[u].finalizer
        /\ r.reason = t.utterance[u].reason
    BY <2>3 DEF UtteranceRecords
  <2> HIDE DEF e
  <2>9. /\ e.utterance \in [Utterances -> UtteranceRecords] /\ e.utterance[u] = r
        /\ e.terminal \in [Utterances -> Terminals]
        /\ \A v \in Utterances : v # u =>
             e.utterance[v] = t.utterance[v] /\ e.terminal[v] = t.terminal[v]
    BY <2>3, <2>7, <2>8 DEF Terminals
  <2> HIDE DEF r
  <2>10. e.creating = t.creating /\ e.session = t.session /\ e.leases = t.leases
    BY <2>7 DEF DiffersIn, ServiceFields
  <2>11. IsAbout(e, t, u)
    BY <2>7, <2>9, <2>10 DEF IsAbout, DiffersIn
  <2>12. /\ \A v \in Utterances : v # u => IsApart(e, t, v)
         /\ e.closed = t.closed /\ e.reserved = t.reserved /\ e.worker = t.worker
         /\ e.fence = t.fence /\ e.header = t.header /\ e.credited = t.credited
         /\ e.through = t.through /\ e.frames = t.frames /\ e.outbound = t.outbound
         /\ e.current = t.current /\ e.outgoing = t.outgoing /\ e.overrun = t.overrun
         /\ ServiceFields \subseteq DOMAIN e
    BY <2>3, <2>11, AboutLeaves
  <2>13. IsService(e)
    BY <2>3, <2>7, <2>9, <2>10, <2>12 DEF IsService, Ids
  <2>14. HeardInOrder(s, u) /\ HoldsRecognizer(s, u) /\ ~s.closed
    BY <1>0, <2>2, <2>4 DEF WorkInv
  <2>15. s.worker[1] # u
    BY <2>14 DEF HoldsRecognizer
  <2>16. s.utterance[u].heard = s.utterance[u].next
    <3> DEFINE n == s.utterance[u].next
               h == s.utterance[u].heard
    <3>1. s.utterance[u].pending = n - h /\ s.utterance[u].pending = 0
      BY <1>2, <2>14 DEF HeardInOrder
    <3>2. n \in Nat /\ h \in Nat
      BY <1>0 DEF IsService, UtteranceRecords
    <3> HIDE DEF n, h
    <3>3. h = n
      BY <3>1, <3>2
    <3> QED BY <3>3 DEF h, n
  <2>17. WorksFor(e, u)
    <3>1. e.active # u
      BY <2>7, NobodyIsNone
    <3>2. HoldsRecognizer(e, u)
      BY <2>4, <2>8, <2>9, <2>10, <2>12, <3>1, <2>2 DEF WorksFor, HoldsRecognizer
    <3>3. StillSilent(e, u)
      BY <2>2, <2>10 DEF StillSilent, Unborn
    <3>4. IsWhole(e, u)
      BY <2>2, <2>8, <2>9, <2>12, <2>15, <2>16, <3>1 DEF IsWhole
    <3> QED BY <3>2, <3>3, <3>4 DEF WorksFor
  <2>18. /\ e.active # u /\ ~Listening(e, u) /\ ~Unborn(e, u) /\ ~Awaited(e, b, u)
         /\ HeardInOrder(e, u)
    BY <2>2, <2>7, <2>10, NobodyIsNone DEF Listening, Unborn, Awaited, HeardInOrder
  <2>19. /\ IsQuieter(e, t, u) /\ e.utterance[u].next = t.utterance[u].next
         /\ e.closed => e.active = Nobody /\ e.creating = Nobody
         /\ e.active \in {t.active, Nobody} /\ e.reserved \subseteq t.reserved
         /\ Utterances \ {u} \in SUBSET Utterances /\ Utterances \in SUBSET Utterances
         /\ Utterances \subseteq (Utterances \ {u}) \cup {u}
    BY <2>4, <2>7, <2>8, <2>9, <2>10, <2>12, <2>18 DEF IsQuieter
  <2>20. SpeechInv(e, b, said, Utterances)
    BY <2>2, <2>12, <2>13, <2>17, <2>18, <2>19, AboutOne
  <2>21. IsOpen(e, said, u)
    BY <2>3, <2>2, <2>4, <2>12 DEF FenceInv, IsFenced, IsOpen
  <2>22. events \in Some(Spoken)
    BY SpokenKinds, PairIsSome
  <2> HIDE DEF events
  <2>23. SpeechInv(Queued(e, u, events), b, said, Utterances)
    BY <2>18, <2>20, <2>21, <2>22, ScopedKeeps
  <2> QED BY <2>5, <2>6, <2>23 DEF t
<1> QED BY <1>1, <1>2

LEMMA FinishFailedKeeps ==
  ASSUME NEW s, NEW b, NEW said, SpeechInv(s, b, said, Utterances), NEW raised,
         NEW u \in Utterances, s.utterance[u].finalizer = "running"
  PROVE  SpeechInv(FinalizeFailed(FinishOver(s, u, raised), u), b, said, Utterances)
  BY FinishOverKeeps, FinalizeFailedKeeps DEF Unborn

LEMMA GiveUpKeeps ==
  ASSUME NEW s, NEW b, NEW said, SpeechInv(s, b, said, Utterances),
         NEW u \in Utterances, s.utterance[u].finalizer = "running"
  PROVE  SpeechInv(FinalizeFailed([s EXCEPT !.utterance[u].finalizer = "late"], u),
                   b, said, Utterances)
<1> DEFINE r == [s.utterance[u] EXCEPT !.finalizer = "late"]
           t == [s EXCEPT !.utterance = [s.utterance EXCEPT ![u] = r]]
<1>0. IsService(s) /\ WorkInv(s, Utterances)
  BY DEF SpeechInv
<1>1. /\ ServiceFields \subseteq DOMAIN s
      /\ s.utterance \in [Utterances -> UtteranceRecords] /\ s.utterance[u] \in UtteranceRecords
  BY <1>0 DEF IsService
<1>2. t = [s EXCEPT !.utterance[u].finalizer = "late"]
  BY <1>1 DEF ServiceFields
<1>3. DiffersIn(t, s, {"utterance"}) /\ t.utterance = [s.utterance EXCEPT ![u] = r]
  BY <1>1 DEF DiffersIn, ServiceFields
<1>4. /\ r \in UtteranceRecords /\ r.finalizer = "late"
      /\ r.status = s.utterance[u].status /\ r.next = s.utterance[u].next
      /\ r.heard = s.utterance[u].heard /\ r.reason = s.utterance[u].reason
  BY <1>1 DEF UtteranceRecords
<1> HIDE DEF t
<1>5. /\ t.utterance \in [Utterances -> UtteranceRecords] /\ t.utterance[u] = r
      /\ \A v \in Utterances : v # u => t.utterance[v] = s.utterance[v]
  BY <1>1, <1>3, <1>4
<1> HIDE DEF r
<1>6. /\ t.active = s.active /\ t.creating = s.creating /\ t.terminal = s.terminal
      /\ t.session = s.session /\ t.leases = s.leases
  BY <1>3 DEF DiffersIn, ServiceFields
<1>7. IsAbout(t, s, u)
  BY <1>3, <1>5, <1>6 DEF IsAbout, DiffersIn
<1>8. /\ \A v \in Utterances : v # u => IsApart(t, s, v)
      /\ t.closed = s.closed /\ t.reserved = s.reserved /\ t.worker = s.worker
      /\ t.fence = s.fence /\ t.header = s.header /\ t.credited = s.credited
      /\ t.through = s.through /\ t.frames = s.frames /\ t.outbound = s.outbound
      /\ t.current = s.current /\ t.outgoing = s.outgoing /\ t.overrun = s.overrun
      /\ ServiceFields \subseteq DOMAIN t
  BY <1>0, <1>7, AboutLeaves
<1>9. IsService(t)
  BY <1>0, <1>5, <1>6, <1>8 DEF IsService
<1>10. WorksFor(s, u) /\ ~Unborn(s, u)
  BY <1>0 DEF WorkInv, WorksFor, HoldsRecognizer, Unborn
<1>11. WorksFor(t, u)
  BY <1>4, <1>5, <1>6, <1>8, <1>10
     DEF WorksFor, HoldsRecognizer, StillSilent, IsWhole, Unborn
<1>12. /\ IsQuieter(t, s, u) /\ t.utterance[u].next = s.utterance[u].next
       /\ t.closed => t.active = Nobody /\ t.creating = Nobody
       /\ Unborn(t, u) \/ t.active = u => Unborn(s, u) \/ s.active = u
       /\ t.active \in {s.active, Nobody} /\ t.reserved \subseteq s.reserved
       /\ u \notin Utterances \ {u} /\ Utterances \ {u} \in SUBSET Utterances
       /\ Utterances \ {u} \subseteq Utterances \cup {u} /\ ~Unborn(t, u)
  BY <1>0, <1>4, <1>5, <1>6, <1>8, <1>10 DEF IsQuieter, Listening, Unborn, WorkInv
<1>13. SpeechInv(t, b, said, Utterances \ {u})
  BY <1>8, <1>9, <1>11, <1>12, AboutOne
<1> QED BY <1>2, <1>12, <1>13, FinalizeFailedKeeps

-----------------------------------------------------------------------------
(* The recognizers come and go *)

LEMMA SessionKeeps ==
  ASSUME NEW s, NEW t, NEW b, NEW said, SpeechInv(s, b, said, Utterances),
         NEW u \in Utterances, NEW x \in {"released", "abandoned"},
         DiffersIn(t, s, {"session", "leases", "lane", "creating"}),
         t.session = [s.session EXCEPT ![u] = x],
         t.leases = IF x = "released" THEN s.leases \ {u} ELSE s.leases,
         t.creating = IF s.creating = u THEN Nobody ELSE s.creating,
         s.session[u] \in {"creating", "abandoned", "cancelling"},
         s.utterance[u].finalizer \notin {"running", "late"},
         s.closed \/ s.worker[1] # u
  PROVE  SpeechInv(t, b, said, Utterances)
<1>0. IsService(s) /\ WorkInv(s, Utterances)
  BY DEF SpeechInv
<1>1. s.session \in [Utterances -> Sessions]
  BY <1>0 DEF IsService
<1>2. /\ t.session \in [Utterances -> Sessions] /\ t.session[u] = x
      /\ \A v \in Utterances : v # u => t.session[v] = s.session[v]
  BY <1>1 DEF Sessions
<1>3. t.active = s.active /\ t.terminal = s.terminal /\ t.utterance = s.utterance
  BY DEF DiffersIn, ServiceFields
<1>4. /\ \A v \in Utterances : v # u => (v \in s.leases => v \in t.leases)
      /\ \A v \in Utterances : v # u => (t.creating = v <=> s.creating = v)
      /\ t.creating # u
  BY NobodyIsNone
<1>5. IsAbout(t, s, u)
  BY <1>2, <1>3, <1>4 DEF IsAbout, DiffersIn
<1>6. /\ \A v \in Utterances : v # u => IsApart(t, s, v)
      /\ t.closed = s.closed /\ t.reserved = s.reserved /\ t.worker = s.worker
      /\ t.fence = s.fence /\ t.header = s.header /\ t.credited = s.credited
      /\ t.through = s.through /\ t.frames = s.frames /\ t.outbound = s.outbound
      /\ t.current = s.current /\ t.outgoing = s.outgoing /\ t.overrun = s.overrun
      /\ ServiceFields \subseteq DOMAIN t
  BY <1>0, <1>5, AboutLeaves
<1>7. t.creating \in Ids
  BY <1>0 DEF IsService, Ids
<1>8. IsService(t)
  BY <1>0, <1>2, <1>3, <1>6, <1>7 DEF IsService
<1>9. WorksFor(s, u) /\ s.active # u
  BY <1>0 DEF WorkInv, WorksFor, HoldsRecognizer
<1>10. WorksFor(t, u)
  <2>1. HoldsRecognizer(t, u)
    BY <1>2, <1>3, <1>4, <1>6, <1>9 DEF WorksFor, HoldsRecognizer
  <2>2. StillSilent(t, u) /\ IsWhole(t, u)
    BY <1>2, <1>3, <1>6, <1>9 DEF WorksFor, StillSilent, IsWhole, Unborn
  <2> QED BY <2>1, <2>2 DEF WorksFor
<1>11. /\ t.active # u /\ ~Listening(t, u) /\ ~Unborn(t, u) /\ ~Awaited(t, b, u)
       /\ HeardInOrder(t, u)
  BY <1>2, <1>3, <1>9 DEF Listening, Unborn, Awaited, HeardInOrder
<1>12. t.closed => t.active = Nobody /\ t.creating = Nobody
  BY <1>0, <1>3, <1>6 DEF WorkInv
<1>13. /\ IsQuieter(t, s, u) /\ t.utterance[u].next = s.utterance[u].next
       /\ t.active \in {s.active, Nobody} /\ t.reserved \subseteq s.reserved
       /\ Utterances \in SUBSET Utterances /\ Utterances \subseteq Utterances \cup {u}
  BY <1>2, <1>3, <1>6, <1>11 DEF IsQuieter
<1> QED BY <1>3, <1>6, <1>8, <1>10, <1>11, <1>12, <1>13, AboutOne

LEMMA StartingIsFresh ==
  ASSUME NEW s, NEW u \in Utterances, WorkInv(s, Utterances), s.session[u] = "creating"
  PROVE  /\ s.utterance[u].finalizer \notin {"running", "late"} /\ s.worker[1] # u
         /\ s.utterance[u] = Fresh /\ s.header[1] # u /\ s.terminal[u] = "none"
         /\ s.fence[u] = "none" /\ s.credited # u
         /\ \A i \in 1 .. Len(s.frames) : s.frames[i][1] # u
         /\ s.active # u
  BY DEF WorkInv, HoldsRecognizer, StillSilent, Unborn, Fresh

LEMMA CreationFailedKeeps ==
  ASSUME NEW s, NEW b, NEW said, SpeechInv(s, b, said, Utterances),
         NEW u \in Utterances, s.creating = u
  PROVE  /\ SpeechInv(CreationFailed(s, u), b, said, Utterances)
         /\ SpeechInv(CreationAbandoned(s, u), b, said, Utterances)
<1> DEFINE t == [s EXCEPT !.creating = Nobody, !.session[u] = "released", !.leases = @ \ {u}]
           e == [s EXCEPT !.creating = Nobody, !.session[u] = "abandoned"]
<1>0. IsService(s) /\ WorkInv(s, Utterances) /\ ServiceFields \subseteq DOMAIN s
  BY DEF SpeechInv, IsService
<1>1. s.session[u] = "creating" /\ u \in Ids
  BY <1>0 DEF WorkInv, HoldsRecognizer, Ids
<1>2. s.utterance[u].finalizer \notin {"running", "late"} /\ s.worker[1] # u
  BY <1>0, <1>1, StartingIsFresh
<1>3. /\ DiffersIn(t, s, {"session", "leases", "lane", "creating"})
      /\ t.session = [s.session EXCEPT ![u] = "released"]
      /\ t.leases = s.leases \ {u} /\ t.creating = Nobody
      /\ DiffersIn(e, s, {"session", "leases", "lane", "creating"})
      /\ e.session = [s.session EXCEPT ![u] = "abandoned"]
      /\ e.leases = s.leases /\ e.creating = Nobody
  BY <1>0 DEF DiffersIn, ServiceFields
<1> HIDE DEF t, e
<1>4. SpeechInv(t, b, said, Utterances) /\ SpeechInv(e, b, said, Utterances)
  BY <1>1, <1>2, <1>3, SessionKeeps
<1>5. SpeechInv(Refused(t, u), b, said, Utterances) /\ SpeechInv(Refused(e, u), b, said, Utterances)
  BY <1>1, <1>4, RefusedKeeps
<1> QED BY <1>5 DEF CreationFailed, CreationAbandoned, t, e

LEMMA AbandonedCreatedKeeps ==
  ASSUME NEW s, NEW b, NEW said, SpeechInv(s, b, said, Utterances),
         NEW u \in Utterances, s.session[u] = "abandoned"
  PROVE  SpeechInv(AbandonedCreated(s, u), b, said, Utterances)
<1> DEFINE t == AbandonedCreated(s, u)
<1>0. IsService(s) /\ WorkInv(s, Utterances) /\ ServiceFields \subseteq DOMAIN s
  BY DEF SpeechInv, IsService
<1>1. HoldsRecognizer(s, u)
  BY <1>0 DEF WorkInv
<1>2. /\ s.utterance[u].finalizer \notin {"running", "late"} /\ s.creating # u
      /\ s.closed \/ s.worker[1] # u
  BY <1>1 DEF HoldsRecognizer
<1>3. /\ DiffersIn(t, s, {"session", "leases", "lane", "creating"})
      /\ t.session = [s.session EXCEPT ![u] = "released"]
      /\ t.leases = s.leases \ {u} /\ t.creating = s.creating
  BY <1>0 DEF AbandonedCreated, DiffersIn, ServiceFields
<1> HIDE DEF t
<1>4. SpeechInv(t, b, said, Utterances)
  BY <1>2, <1>3, SessionKeeps
<1> QED BY <1>4 DEF t

LEMMA ReleasedKeeps ==
  ASSUME NEW s, NEW b, NEW said, SpeechInv(s, b, said, Utterances),
         NEW u \in Utterances, MayRelease(s, u)
  PROVE  SpeechInv(Released(s, u), b, said, Utterances)
<1> DEFINE t == Released(s, u)
<1>0. IsService(s) /\ WorkInv(s, Utterances) /\ ServiceFields \subseteq DOMAIN s
  BY DEF SpeechInv, IsService
<1>1. HoldsRecognizer(s, u) /\ s.session[u] = "cancelling"
  BY <1>0 DEF WorkInv, MayRelease
<1>2. /\ s.utterance[u].finalizer \notin {"running", "late"} /\ s.creating # u
      /\ s.worker[1] # u
  BY <1>1 DEF HoldsRecognizer, MayRelease
<1>3. /\ DiffersIn(t, s, {"session", "leases", "lane", "creating"})
      /\ t.session = [s.session EXCEPT ![u] = "released"]
      /\ t.leases = s.leases \ {u} /\ t.creating = s.creating
  BY <1>0 DEF Released, DiffersIn, ServiceFields
<1> HIDE DEF t
<1>4. SpeechInv(t, b, said, Utterances)
  BY <1>1, <1>2, <1>3, SessionKeeps
<1> QED BY <1>4 DEF t

\* The start is accepted: the frames that were awaited are those of the active utterance.
LEMMA AdoptedKeeps ==
  ASSUME NEW s, NEW b, NEW said, SpeechInv(s, b, said, Utterances),
         NEW u \in Utterances, s.creating = u
  PROVE  SpeechInv(Adopted(s, u), b, said, Utterances)
<1> DEFINE r == [s.utterance[u] EXCEPT !.status = "listening"]
           t == Adopted(s, u)
<1>0. /\ IsService(s) /\ WorkInv(s, Utterances) /\ ChannelInv(s, b, Utterances)
      /\ CreditInv(s, b) /\ IsBrowser(b) /\ ServiceFields \subseteq DOMAIN s
      /\ s.utterance \in [Utterances -> UtteranceRecords] /\ s.utterance[u] \in UtteranceRecords
      /\ s.session \in [Utterances -> Sessions]
  BY DEF SpeechInv, IsService
<1>1. s.session[u] = "creating" /\ s.active = Nobody /\ HoldsRecognizer(s, u) /\ ~s.closed
  BY <1>0, NobodyIsNone DEF WorkInv, HoldsRecognizer
<1>2. /\ s.utterance[u] = Fresh /\ s.header[1] # u /\ s.terminal[u] = "none"
      /\ s.fence[u] = "none" /\ s.credited # u /\ s.worker[1] # u
      /\ \A i \in 1 .. Len(s.frames) : s.frames[i][1] # u
  BY <1>0, <1>1, StartingIsFresh
<1>3. t = [s EXCEPT !.creating = Nobody, !.session = [s.session EXCEPT ![u] = "open"],
                    !.lane = u, !.active = u, !.utterance = [s.utterance EXCEPT ![u] = r],
                    !.credited = u, !.through = -1]
  BY <1>0 DEF Adopted, ServiceFields
<1>4. /\ DiffersIn(t, s, {"creating", "session", "lane", "active", "utterance", "credited", "through"})
      /\ t.creating = Nobody /\ t.session = [s.session EXCEPT ![u] = "open"] /\ t.active = u
      /\ t.utterance = [s.utterance EXCEPT ![u] = r] /\ t.credited = u /\ t.through = -1
  <2> HIDE DEF t, r
  <2> QED BY <1>0, <1>3 DEF DiffersIn, ServiceFields
<1>5. /\ r \in UtteranceRecords /\ r.status = "listening" /\ r.next = 0 /\ r.pending = 0
      /\ r.heard = 0 /\ r.reason = "none" /\ r.finalizer = "none" /\ s.utterance[u].next = 0
  BY <1>0, <1>2 DEF UtteranceRecords, Fresh
<1> HIDE DEF t, r
<1>6. /\ t.utterance \in [Utterances -> UtteranceRecords] /\ t.utterance[u] = r
      /\ t.session \in [Utterances -> Sessions] /\ t.session[u] = "open"
      /\ \A v \in Utterances : v # u =>
           t.utterance[v] = s.utterance[v] /\ t.session[v] = s.session[v]
  BY <1>0, <1>4, <1>5 DEF Sessions
<1>7. /\ t.closed = s.closed /\ t.terminal = s.terminal /\ t.header = s.header
      /\ t.frames = s.frames /\ t.reserved = s.reserved /\ t.worker = s.worker
      /\ t.fence = s.fence /\ t.outbound = s.outbound /\ t.current = s.current
      /\ t.leases = s.leases /\ t.overrun = s.overrun /\ t.outgoing = s.outgoing
      /\ ServiceFields \subseteq DOMAIN t
  BY <1>0, <1>4 DEF DiffersIn, ServiceFields
<1>8. IsService(t)
  BY <1>0, <1>4, <1>6, <1>7 DEF IsService, Ids
<1>9. \A v \in Utterances : v # u => IsApart(t, s, v)
  BY <1>7, <1>4, <1>6, PartOfItself, PartForAll, NobodyIsNone DEF IsApart
<1>10. WorksFor(t, u)
  <2>1. HoldsRecognizer(t, u)
    BY <1>1, <1>2, <1>4, <1>5, <1>6, <1>7, NobodyIsNone DEF HoldsRecognizer
  <2>2. StillSilent(t, u) /\ IsWhole(t, u)
    BY <1>2, <1>6, <1>7 DEF StillSilent, IsWhole, Unborn
  <2> QED BY <2>1, <2>2 DEF WorksFor
<1>11. HeardInOrder(t, u)
  BY <1>2, <1>5, <1>6, <1>7 DEF HeardInOrder
<1>12. ASSUME b.state = "ready"
       PROVE  /\ b.status[u] # "none"
              /\ \A v \in Utterances : IsCalled(t, b, v)
  <2>1. \A v \in Utterances : IsCalled(s, b, v)
    BY <1>0, <1>12 DEF ChannelInv
  <2>2. b.status[u] # "none"
    BY <1>1, <2>1 DEF IsCalled, IsUnknown
  <2>3. \A i \in 1 .. Len(b.outgoing) : b.outgoing[i].kind = "start" => b.outgoing[i].id # u
    BY <1>1, <2>1 DEF IsCalled
  <2>4. IsCalled(t, b, u)
    <3>1. IsCalled(s, b, u) /\ s.utterance[u].reason = "none"
      BY <1>2, <2>1 DEF Fresh
    <3>2. Ended(t, b, u) => Ended(s, b, u)
      BY <1>5, <1>6 DEF Ended
    <3> QED BY <1>2, <1>5, <1>6, <1>7, <2>2, <2>3, <3>1, <3>2 DEF IsCalled
  <2>5. ASSUME NEW v \in Utterances, v # u
        PROVE  IsCalled(t, b, v)
    <3>1. /\ IsCalled(s, b, v) /\ t.utterance[v] = s.utterance[v]
          /\ t.session[v] = s.session[v] /\ t.active # v /\ s.active # v
      BY <1>1, <1>4, <1>6, <2>1, <2>5, NobodyIsNone
    <3> QED BY <1>7, <3>1 DEF IsCalled, IsUnknown, Ended, Listening
  <2> QED BY <2>2, <2>4, <2>5
<1>13. ChannelInv(t, b, Utterances)
  <2>1. ASSUME NEW v \in Utterances, Awaited(t, b, v), b.state = "ready"
        PROVE  IsTracked(t, b, v)
    <3>1. Awaited(s, b, v)
      BY <1>1, <1>4, <1>6, <2>1 DEF Awaited, Listening
    <3>2. IsTracked(s, b, v)
      BY <1>0, <2>1, <3>1 DEF ChannelInv
    <3>3. Due(t, v) = Due(s, v)
      BY <1>5, <1>6, <1>7 DEF Due
    <3> QED BY <3>2, <3>3 DEF IsTracked, Counts
  <2> QED BY <1>0, <1>7, <1>12, <2>1 DEF ChannelInv
<1>14. CreditInv(t, b)
  <2>1. Line(t) = Line(s)
    BY <1>7 DEF Line
  <2>2. Embeds(Line(t), Line(s))
    BY <1>0, <2>1, LineTyped, EmbedsItself
  <2>3. s.overrun = FALSE
    BY <1>0 DEF CreditInv
  <2>4. \A v \in Utterances :
          /\ t.utterance[v].next = s.utterance[v].next
          /\ Unborn(t, v) \/ t.active = v => Unborn(s, v) \/ s.active = v
    BY <1>1, <1>4, <1>5, <1>6 DEF Unborn
  <2>5. /\ t.credited # Nobody => t.through = t.utterance[t.credited].next - 1
        /\ t.credited # Nobody /\ b.state = "ready" => b.status[t.credited] # "none"
        /\ t.active # Nobody => t.credited = t.active
    BY <1>4, <1>5, <1>6, <1>12
  <2> QED BY <1>0, <1>7, <1>8, <2>2, <2>3, <2>4, <2>5, CreditShrinks
<1>15. /\ t.closed => t.active = Nobody /\ t.creating = Nobody
       /\ t.session[u] = "open" /\ t.utterance[u].finalizer # "late"
       /\ t.utterance[u].next = s.utterance[u].next
       /\ t.reserved \subseteq s.reserved /\ t.active = u
       /\ Unborn(t, u) \/ t.active = u => Unborn(s, u) \/ s.active = u
  BY <1>1, <1>4, <1>5, <1>6, <1>7 DEF Unborn
<1>16. SpeechInv(t, b, said, Utterances)
  BY <1>7, <1>8, <1>9, <1>10, <1>11, <1>13, <1>14, <1>15, AboutOne
<1> QED BY <1>16 DEF t

-----------------------------------------------------------------------------
(* The recognition task *)

LEMMA FrameDoneKeeps ==
  ASSUME NEW s, NEW t, NEW b, NEW said, SpeechInv(s, b, said, Utterances),
         NEW f \in Frames, NEW u \in Utterances, f[1] = u,
         DiffersIn(t, s, {"worker", "reserved", "utterance", "frames"}),
         t.worker = NoFrame, t.reserved \subseteq s.reserved,
         t.frames \in Seq(Frames), IsPartOf(t.frames, s.frames),
         t.utterance \in [Utterances -> UtteranceRecords],
         \A v \in Utterances : v # u => t.utterance[v] = s.utterance[v],
         t.utterance[u].status = s.utterance[u].status,
         t.utterance[u].next = s.utterance[u].next,
         t.utterance[u].reason = s.utterance[u].reason,
         t.utterance[u].finalizer = s.utterance[u].finalizer,
         s.terminal[u] = "final" => t.utterance[u].heard = s.utterance[u].heard,
         s.worker \in {f, NoFrame}, ~Unborn(s, u),
         NEW after \in SUBSET Utterances, u \in after => HeardInOrder(t, u)
  PROVE  SpeechInv(t, b, said, after)
<1>0. /\ IsService(s) /\ WorkInv(s, Utterances) /\ s.utterance \in [Utterances -> UtteranceRecords]
  BY DEF SpeechInv, IsService
<1>1. /\ t.utterance \in [Utterances -> UtteranceRecords]
      /\ \A v \in Utterances : v # u => t.utterance[v] = s.utterance[v]
  OBVIOUS
<1>2. /\ t.closed = s.closed /\ t.active = s.active /\ t.creating = s.creating
      /\ t.session = s.session /\ t.leases = s.leases /\ t.fence = s.fence
      /\ t.terminal = s.terminal /\ t.header = s.header /\ t.credited = s.credited
      /\ t.through = s.through /\ t.outbound = s.outbound /\ t.current = s.current
      /\ t.outgoing = s.outgoing /\ t.overrun = s.overrun
  BY DEF DiffersIn, ServiceFields
<1>3. IsService(t)
  BY <1>0, <1>1, <1>2, FS_Subset DEF IsService, DiffersIn
<1>4. \A v \in Utterances : v # u => IsApart(t, s, v)
  BY <1>0, <1>1, <1>2, PartForAll, NobodyIsNone DEF WorkInv, HoldsRecognizer, NoFrame,
     IsApart
<1>5. WorksFor(s, u) /\ t.worker[1] # u
  BY <1>0, NobodyIsNone DEF WorkInv, WorksFor, NoFrame
<1>6. WorksFor(t, u)
  BY <1>1, <1>2, <1>5 DEF WorksFor, HoldsRecognizer, StillSilent, Unborn, IsWhole
<1>7. /\ IsQuieter(t, s, u) /\ t.utterance[u].next = s.utterance[u].next
      /\ t.closed => t.active = Nobody /\ t.creating = Nobody
      /\ Unborn(t, u) \/ t.active = u => Unborn(s, u) \/ s.active = u
      /\ t.active \in {s.active, Nobody} /\ t.reserved \subseteq s.reserved
      /\ Utterances \in SUBSET Utterances /\ after \subseteq Utterances \cup {u}
  BY <1>0, <1>1, <1>2 DEF IsQuieter, Listening, Unborn, WorkInv
<1>8. u \in after =>
        /\ HeardInOrder(t, u)
        /\ t.active = u => t.session[u] = "open" /\ t.utterance[u].finalizer # "late"
  BY <1>0, <1>1, <1>2 DEF WorkInv
<1> QED BY <1>2, <1>3, <1>4, <1>6, <1>7, <1>8, AboutOne

LEMMA TailIsPart ==
  ASSUME NEW T, NEW q \in Seq(T), q # <<>>
  PROVE  /\ Tail(q) \in Seq(T) /\ IsPartOf(Tail(q), q) /\ Head(q) = q[1] /\ q[1] \in T
         /\ 1 \in 1 .. Len(q)
         /\ \A k \in 1 .. Len(Tail(q)) :
              k + 1 \in 1 .. Len(q) /\ Tail(q)[k] = q[k + 1] /\ 1 < k + 1
<1> DEFINE r == Tail(q)
<1>1. /\ Len(q) \in Nat /\ r \in Seq(T) /\ Len(r) = Len(q) - 1
      /\ \A k \in 1 .. Len(r) : k + 1 \in 1 .. Len(q) /\ r[k] = q[k + 1] /\ 1 < k + 1
      /\ Head(q) = q[1] /\ q[1] \in T /\ 1 \in 1 .. Len(q)
  OBVIOUS
<1> HIDE DEF r
<1>2. \A j, k \in 1 .. Len(r) : j < k => j + 1 < k + 1
  BY <1>1
<1>3. IsPartOf(r, q)
  BY <1>1, <1>2 DEF IsPartOf
<1> QED BY <1>1, <1>3 DEF r

LEMMA FrameTakenKeeps ==
  ASSUME NEW s, NEW b, NEW said, SpeechInv(s, b, said, Utterances),
         WorkerIsFree(s), s.frames # <<>>
  PROVE  SpeechInv(FrameTaken(s), b, said, Utterances)
<1> DEFINE f == Head(s.frames)
           u == f[1]
           rest == [s EXCEPT !.frames = Tail(@)]
<1>0. /\ IsService(s) /\ WorkInv(s, Utterances) /\ ServiceFields \subseteq DOMAIN s
      /\ s.utterance \in [Utterances -> UtteranceRecords] /\ s.frames \in Seq(Frames)
      /\ s.worker = NoFrame
  BY DEF SpeechInv, IsService, WorkerIsFree
<1>1. /\ Tail(s.frames) \in Seq(Frames) /\ IsPartOf(Tail(s.frames), s.frames)
      /\ f \in Frames /\ f = s.frames[1] /\ 1 \in 1 .. Len(s.frames)
      /\ \A k \in 1 .. Len(Tail(s.frames)) :
           /\ k + 1 \in 1 .. Len(s.frames) /\ Tail(s.frames)[k] = s.frames[k + 1]
           /\ 1 < k + 1
  BY <1>0, TailIsPart
<1>2. /\ FrameTaken(s) = IF IsCurrent(s, u) THEN [rest EXCEPT !.worker = f]
                         ELSE FlowSent(FrameDone(rest, f))
      /\ rest = [s EXCEPT !.frames = Tail(s.frames)]
  BY DEF FrameTaken
<1> HIDE DEF f
<1>3. u \in Utterances /\ f[2] \in Nat /\ s.utterance[u] \in UtteranceRecords /\ f[1] = u
  BY <1>0, <1>1 DEF Frames
<1> HIDE DEF u
<1>4. /\ DiffersIn(rest, s, {"frames"}) /\ rest.frames = Tail(s.frames)
      /\ ServiceFields \subseteq DOMAIN rest
  BY <1>0 DEF DiffersIn, ServiceFields
<1>5. /\ rest.reserved = s.reserved /\ rest.utterance = s.utterance /\ rest.worker = NoFrame
  BY <1>0, <1>4 DEF DiffersIn, ServiceFields
<1> HIDE DEF rest
<1>6. WorksFor(s, u) /\ ~Unborn(s, u)
  BY <1>0, <1>3, <1>1 DEF WorkInv, WorksFor, StillSilent
<1>7. ASSUME ~IsCurrent(s, u)
      PROVE  SpeechInv(FrameTaken(s), b, said, Utterances)
  <2> DEFINE r == [s.utterance[u] EXCEPT !.pending = s.utterance[u].pending - 1]
             t == FrameDone(rest, f)
  <2>1. /\ r \in UtteranceRecords /\ r.status = s.utterance[u].status
        /\ r.next = s.utterance[u].next /\ r.reason = s.utterance[u].reason
        /\ r.finalizer = s.utterance[u].finalizer /\ r.heard = s.utterance[u].heard
    BY <1>3 DEF UtteranceRecords
  <2>2. t = [rest EXCEPT !.worker = NoFrame, !.reserved = s.reserved \ {f},
                         !.utterance = [s.utterance EXCEPT ![u] = r]]
    BY <1>3, <1>4, <1>5 DEF FrameDone, ServiceFields
  <2> HIDE DEF t, r
  <2>3. /\ DiffersIn(t, s, {"worker", "reserved", "utterance", "frames"})
        /\ t.worker = NoFrame /\ t.reserved = s.reserved \ {f}
        /\ t.utterance = [s.utterance EXCEPT ![u] = r] /\ t.frames = Tail(s.frames)
    BY <1>4, <2>2 DEF DiffersIn, ServiceFields
  <2>4. t.active # u
    <3>1. s.active # u
      BY <1>6, <1>7 DEF IsCurrent, WorksFor, HoldsRecognizer
    <3> QED BY <2>3, <3>1 DEF DiffersIn, ServiceFields
  <2>5. HeardInOrder(t, u) /\ s.worker \in {f, NoFrame} /\ Utterances \in SUBSET Utterances
    BY <1>0, <2>4 DEF HeardInOrder
  <2>6. /\ t.utterance \in [Utterances -> UtteranceRecords] /\ t.utterance[u] = r
        /\ \A v \in Utterances : v # u => t.utterance[v] = s.utterance[v]
    BY <1>0, <1>3, <2>1, <2>3
  <2>6a. t.reserved \subseteq s.reserved /\ t.frames \in Seq(Frames) /\ IsPartOf(t.frames, s.frames)
    BY <1>1, <2>3
  <2>7. SpeechInv(t, b, said, Utterances)
    BY <1>1, <1>3, <1>6, <2>1, <2>3, <2>5, <2>6, <2>6a, FrameDoneKeeps
  <2> QED BY <1>2, <1>7, <2>7, FlowSentKeeps DEF t
<1>8. ASSUME IsCurrent(s, u)
      PROVE  SpeechInv(FrameTaken(s), b, said, Utterances)
  <2> DEFINE t == [rest EXCEPT !.worker = f]
  <2>1. DiffersIn(t, s, {"frames", "worker"}) /\ t.frames = Tail(s.frames) /\ t.worker = f
    BY <1>4 DEF DiffersIn, ServiceFields
  <2> HIDE DEF t
  <2>2. /\ t.closed = s.closed /\ t.active = s.active /\ t.creating = s.creating
        /\ t.session = s.session /\ t.leases = s.leases /\ t.fence = s.fence
        /\ t.terminal = s.terminal /\ t.header = s.header /\ t.credited = s.credited
        /\ t.through = s.through /\ t.outbound = s.outbound /\ t.current = s.current
        /\ t.outgoing = s.outgoing /\ t.overrun = s.overrun /\ t.utterance = s.utterance
        /\ t.reserved = s.reserved /\ ServiceFields \subseteq DOMAIN t
    BY <1>0, <2>1 DEF DiffersIn, ServiceFields
  <2>3. IsService(t)
    BY <1>0, <1>1, <2>1, <2>2 DEF IsService
  <2>4. \A v \in Utterances : v # u => IsApart(t, s, v)
    <3>1. \A v \in Utterances : IsPartFor(t.frames, s.frames, v)
      BY <1>1, <2>1, PartForAll
    <3>2. \A v \in Utterances : s.creating = v => s.active = Nobody
      BY <1>0 DEF WorkInv, HoldsRecognizer
    <3>3. \A v \in Utterances : v # u => s.worker[1] # v /\ t.worker[1] # v
      BY <1>0, <1>3, <2>1, NobodyIsNone DEF NoFrame
    <3> QED BY <2>2, <3>1, <3>2, <3>3 DEF IsApart
  <2>5. /\ s.active = u /\ HeardInOrder(s, u) /\ s.worker[1] # u
        /\ s.session[u] = "open" /\ s.utterance[u].finalizer # "late"
    BY <1>0, <1>3, <1>8, NobodyIsNone DEF WorkInv, IsCurrent, NoFrame
  <2> DEFINE n == s.utterance[u].next
             h == s.utterance[u].heard
             k == f[2]
  <2>6. /\ n \in Nat /\ h \in Nat /\ k \in Nat
        /\ s.utterance[u].pending = n - h /\ h <= n
        /\ s.header[1] = u => s.header[2] = n
        /\ s.utterance[u].finalizer # "none" => s.utterance[u].pending = 0
        /\ \A i \in 1 .. Len(s.frames) : s.frames[i][1] = u =>
             /\ s.frames[i][2] \in h .. n - 1
             /\ \A j \in 1 .. Len(s.frames) :
                  i < j /\ s.frames[j][1] = u => s.frames[i][2] < s.frames[j][2]
    BY <1>3, <2>5 DEF HeardInOrder, UtteranceRecords
  <2>7. k \in h .. n - 1
    BY <1>1, <1>3, <2>6
  <2> HIDE DEF n, h
  <2>8. s.utterance[u].finalizer = "none"
    BY <2>6, <2>7
  <2>9. \A i \in 1 .. Len(t.frames) : t.frames[i][1] = u =>
             /\ t.frames[i][2] \in k + 1 .. n - 1
             /\ \A j \in 1 .. Len(t.frames) :
                  i < j /\ t.frames[j][1] = u => t.frames[i][2] < t.frames[j][2]
    <3>1. TAKE i \in 1 .. Len(t.frames)
    <3>2. HAVE t.frames[i][1] = u
    <3>3. /\ i + 1 \in 1 .. Len(s.frames) /\ t.frames[i] = s.frames[i + 1] /\ 1 < i + 1
      BY <1>1, <2>1, <3>1
    <3>4. t.frames[i][2] \in h .. n - 1 /\ k < t.frames[i][2]
      BY <1>1, <1>3, <2>6, <3>2, <3>3
    <3>5. t.frames[i][2] \in k + 1 .. n - 1
      BY <2>6, <3>4
    <3>6. \A j \in 1 .. Len(t.frames) :
            i < j /\ t.frames[j][1] = u => t.frames[i][2] < t.frames[j][2]
      BY <1>1, <2>1, <3>1, <2>6, <3>2, <3>3
    <3> QED BY <3>5, <3>6
  <2>10. HeardInOrder(t, u)
    BY <1>3, <2>1, <2>2, <2>6, <2>7, <2>8, <2>9 DEF HeardInOrder, n, h
  <2>11. WorksFor(t, u)
    BY <1>6, <2>2, <2>5, <2>8 DEF WorksFor, HoldsRecognizer, StillSilent, IsWhole,
       Unborn
  <2>12. /\ IsQuieter(t, s, u) /\ t.utterance[u].next = s.utterance[u].next
         /\ t.closed => t.active = Nobody /\ t.creating = Nobody
         /\ Unborn(t, u) \/ t.active = u => Unborn(s, u) \/ s.active = u
         /\ t.active \in {s.active, Nobody} /\ t.reserved \subseteq s.reserved
         /\ Utterances \in SUBSET Utterances /\ Utterances \subseteq Utterances \cup {u}
         /\ t.session[u] = "open" /\ t.utterance[u].finalizer # "late"
    BY <1>0, <2>2, <2>5 DEF IsQuieter, Listening, Unborn, WorkInv
  <2>13. SpeechInv(t, b, said, Utterances)
    BY <1>3, <2>2, <2>3, <2>4, <2>10, <2>11, <2>12, AboutOne
  <2> QED BY <1>2, <1>8, <2>13 DEF t
<1> QED BY <1>7, <1>8

LEMMA FrameHeardKeeps ==
  ASSUME NEW s, NEW b, NEW said, SpeechInv(s, b, said, Utterances),
         s.worker # NoFrame, NEW silence
  PROVE  SpeechInv(FrameHeard(s, silence), b, said, Utterances)
<1> DEFINE f == s.worker
           u == f[1]
           first == IsCurrent(s, u) /\ s.utterance[u].heard = 0
           q == IF first THEN Queued(s, u, <<Event("partial", u)>>) ELSE s
           left == s.utterance[u].pending - 1
           more == s.utterance[u].heard + 1
           r == [s.utterance[u] EXCEPT !.pending = left, !.heard = more]
           done == [FrameDone(q, f) EXCEPT !.utterance[u].heard = @ + 1]
<1>0. /\ IsService(s) /\ WorkInv(s, Utterances) /\ FenceInv(s, said)
      /\ ServiceFields \subseteq DOMAIN s /\ s.worker \in Frames \cup {NoFrame}
      /\ s.utterance \in [Utterances -> UtteranceRecords] /\ s.frames \in Seq(Frames)
  BY DEF SpeechInv, IsService
<1>1. f \in Frames /\ u \in Utterances /\ f[1] = u
  BY <1>0 DEF Frames
<1>2. FrameHeard(s, silence) =
        FlowSent(IF s.active # u THEN done
                 ELSE IF silence THEN FinalizeRequested(done, u, "vad_end")
                 ELSE FinalizerSpawned(done, u))
  BY DEF FrameHeard
<1> HIDE DEF f, u
<1>3. WorksFor(s, u) /\ ~Unborn(s, u) /\ s.terminal[u] # "final"
  BY <1>0, <1>1 DEF WorkInv, WorksFor, StillSilent, IsWhole, f
<1>4. SpeechInv(q, b, said, Utterances) /\ DiffersIn(q, s, {"outbound"})
  <2>1. CASE ~first
    BY <1>0, <2>1 DEF DiffersIn
  <2>2. CASE first
    <3> DEFINE e == Event("partial", u)
    <3>1. s.active = u
      BY <2>2 DEF IsCurrent
    <3>2. ~s.closed /\ u # Nobody
      BY <1>0, <1>1, <3>1, NobodyIsNone DEF WorkInv
    <3>3. IsOpen(s, said, u)
      BY <1>0, <1>1, <3>1, <3>2 DEF FenceInv, IsFenced, IsOpen
    <3>4. e \in Spoken /\ e.kind = "partial"
      BY <1>1, SpokenKinds DEF Event
    <3> HIDE DEF e
    <3>5. <<e>> \in Some(Spoken) /\ Batch(u, <<e>>) \in Batches
      BY <3>4, <1>1 DEF Some, Batch, Batches
    <3>6. ~Ends(Batch(u, <<e>>))
      BY <3>4 DEF Ends, Batch
    <3>7. SpeechInv(Queued(s, u, <<e>>), b, said, Utterances)
      BY <1>1, <3>3, <3>5, <3>6, ScopedKeeps
    <3>8. DiffersIn(Queued(s, u, <<e>>), s, {"outbound"})
      BY <1>0, <3>5, QueuedIs
    <3> QED BY <2>2, <3>7, <3>8 DEF e
  <2> QED BY <2>1, <2>2
<1> HIDE DEF q
<1>5. /\ q.active = s.active /\ q.session = s.session /\ q.utterance = s.utterance
      /\ q.terminal = s.terminal /\ q.worker = f /\ q.frames = s.frames
      /\ q.header = s.header /\ ServiceFields \subseteq DOMAIN q
      /\ q.utterance[u] \in UtteranceRecords
  BY <1>0, <1>1, <1>4 DEF DiffersIn, ServiceFields, f
<1>6. /\ r \in UtteranceRecords /\ r.status = s.utterance[u].status
      /\ r.next = s.utterance[u].next /\ r.reason = s.utterance[u].reason
      /\ r.finalizer = s.utterance[u].finalizer
      /\ r.pending = s.utterance[u].pending - 1 /\ r.heard = s.utterance[u].heard + 1
  <2>1. s.utterance[u] \in UtteranceRecords
    BY <1>0, <1>1
  <2>2. left \in Int /\ more \in Nat
    BY <2>1 DEF UtteranceRecords
  <2>3. left = s.utterance[u].pending - 1 /\ more = s.utterance[u].heard + 1
    OBVIOUS
  <2> HIDE DEF left, more
  <2> QED BY <2>1, <2>2, <2>3 DEF UtteranceRecords
<1>7. done = [q EXCEPT !.worker = NoFrame, !.reserved = q.reserved \ {f},
                       !.utterance = [s.utterance EXCEPT ![u] = r]]
  <2> DEFINE half == FrameDone(q, f)
             pending == [s.utterance EXCEPT ![u].pending = @ - 1]
  <2>1. half = [q EXCEPT !.worker = NoFrame, !.reserved = q.reserved \ {f},
                         !.utterance = pending]
    BY <1>1, <1>5 DEF FrameDone, ServiceFields
  <2>2. [pending EXCEPT ![u].heard = @ + 1] = [s.utterance EXCEPT ![u] = r]
    <3>1. s.utterance[u] \in UtteranceRecords
      BY <1>0, <1>1
    <3> QED BY <1>0, <1>1, <3>1 DEF UtteranceRecords
  <2>3. done = [half EXCEPT !.utterance = [pending EXCEPT ![u].heard = @ + 1]]
    <3>1. half.utterance = pending
      BY <1>5, <2>1 DEF ServiceFields
    <3> HIDE DEF half, pending
    <3> QED BY <3>1 DEF half
  <2> HIDE DEF half, pending, done
  <2> QED BY <1>5, <2>1, <2>2, <2>3 DEF ServiceFields
<1> HIDE DEF done, r
<1>8. /\ DiffersIn(done, q, {"worker", "reserved", "utterance", "frames"})
      /\ done.worker = NoFrame /\ done.reserved = q.reserved \ {f}
      /\ done.utterance = [s.utterance EXCEPT ![u] = r]
      /\ done.frames = s.frames /\ done.active = s.active /\ done.header = s.header
  BY <1>5, <1>7 DEF DiffersIn, ServiceFields
<1>9. /\ done.utterance \in [Utterances -> UtteranceRecords] /\ done.utterance[u] = r
      /\ \A v \in Utterances : v # u => done.utterance[v] = q.utterance[v]
  BY <1>0, <1>1, <1>5, <1>6, <1>8
<1>10. HeardInOrder(done, u)
  <2>1. CASE s.active # u
    BY <1>8, <2>1 DEF HeardInOrder
  <2>2. CASE s.active = u
    <3> DEFINE n == s.utterance[u].next
               h == s.utterance[u].heard
               k == f[2]
               p == s.utterance[u].pending
    <3>1. HeardInOrder(s, u)
      BY <1>0, <1>1 DEF WorkInv
    <3>2. /\ n \in Nat /\ h \in Nat /\ p \in Int /\ p = n - h /\ k \in h .. n - 1
          /\ s.header[1] = u => s.header[2] = n
          /\ \A i \in 1 .. Len(s.frames) : s.frames[i][1] = u =>
               /\ s.frames[i][2] \in k + 1 .. n - 1
               /\ \A j \in 1 .. Len(s.frames) :
                    i < j /\ s.frames[j][1] = u => s.frames[i][2] < s.frames[j][2]
      BY <1>0, <1>1, <2>2, <3>1 DEF HeardInOrder, UtteranceRecords, f
    <3>3. r.finalizer = "none"
      <4>1. ~s.closed
        BY <1>0, <1>1, <2>2, NobodyIsNone DEF WorkInv
      <4> QED BY <1>1, <1>3, <1>6, <4>1 DEF WorksFor, HoldsRecognizer, f
    <3>4. r.pending = p - 1 /\ r.heard = h + 1 /\ r.next = n
      BY <1>6
    <3>5. done.worker[1] # u
      BY <1>1, <1>8, NobodyIsNone DEF NoFrame
    <3> HIDE DEF n, h, k, p
    <3>6. /\ p - 1 = n - (h + 1) /\ h + 1 <= n
          /\ \A i \in 1 .. Len(s.frames) : s.frames[i][1] = u => s.frames[i][2] \in h + 1 .. n - 1
      BY <3>2
    <3> QED BY <1>8, <1>9, <3>2, <3>3, <3>4, <3>5, <3>6 DEF HeardInOrder
  <2> QED BY <2>1, <2>2
<1>11. SpeechInv(done, b, said, Utterances)
  <2>1. /\ done.reserved \subseteq q.reserved /\ done.frames \in Seq(Frames)
        /\ IsPartOf(done.frames, q.frames) /\ ~Unborn(q, u) /\ q.worker \in {f, NoFrame}
        /\ q.terminal[u] # "final"
    BY <1>0, <1>3, <1>5, <1>8, PartOfItself DEF Unborn
  <2>2. /\ done.utterance[u].status = q.utterance[u].status
        /\ done.utterance[u].next = q.utterance[u].next
        /\ done.utterance[u].reason = q.utterance[u].reason
        /\ done.utterance[u].finalizer = q.utterance[u].finalizer
    BY <1>5, <1>6, <1>9
  <2> QED BY <1>1, <1>4, <1>8, <1>9, <1>10, <2>1, <2>2, FrameDoneKeeps
<1>12. CASE s.active # u
  BY <1>2, <1>11, <1>12, FlowSentKeeps
<1>13. CASE s.active = u
  BY <1>8, <1>13, <1>1, <1>11, <1>2, FinalizeRequestedKeeps, FinalizerSpawnedKeeps,
     FlowSentKeeps
<1> QED BY <1>12, <1>13

LEMMA FrameFailedKeeps ==
  ASSUME NEW s, NEW b, NEW said, SpeechInv(s, b, said, Utterances), s.worker # NoFrame
  PROVE  SpeechInv(FrameFailed(s), b, said, Utterances)
<1> DEFINE f == s.worker
           u == f[1]
           r == [s.utterance[u] EXCEPT !.pending = s.utterance[u].pending - 1]
           t == FrameDone(s, f)
<1>0. /\ IsService(s) /\ WorkInv(s, Utterances)
      /\ ServiceFields \subseteq DOMAIN s /\ s.worker \in Frames \cup {NoFrame}
      /\ s.utterance \in [Utterances -> UtteranceRecords] /\ s.frames \in Seq(Frames)
  BY DEF SpeechInv, IsService
<1>1. f \in Frames /\ u \in Utterances /\ f[1] = u
  BY <1>0 DEF Frames
<1>2. FrameFailed(s) = IF s.active = u THEN Failed(t, u, "worker") ELSE t
  BY DEF FrameFailed
<1> HIDE DEF f, u
<1>3. WorksFor(s, u) /\ ~Unborn(s, u) /\ s.terminal[u] # "final"
  BY <1>0, <1>1 DEF WorkInv, WorksFor, StillSilent, IsWhole, f
<1>4. /\ r \in UtteranceRecords /\ r.status = s.utterance[u].status
      /\ r.next = s.utterance[u].next /\ r.reason = s.utterance[u].reason
      /\ r.finalizer = s.utterance[u].finalizer
  BY <1>0, <1>1 DEF UtteranceRecords
<1>5. t = [s EXCEPT !.worker = NoFrame, !.reserved = s.reserved \ {f},
                    !.utterance = [s.utterance EXCEPT ![u] = r]]
  BY <1>0, <1>1 DEF FrameDone, ServiceFields
<1> HIDE DEF t, r
<1>6. /\ DiffersIn(t, s, {"worker", "reserved", "utterance", "frames"})
      /\ t.worker = NoFrame /\ t.reserved = s.reserved \ {f}
      /\ t.utterance = [s.utterance EXCEPT ![u] = r]
      /\ t.frames = s.frames /\ t.active = s.active /\ t.session = s.session
  BY <1>0, <1>5 DEF DiffersIn, ServiceFields
<1>7. /\ t.utterance \in [Utterances -> UtteranceRecords] /\ t.utterance[u] = r
      /\ \A v \in Utterances : v # u => t.utterance[v] = s.utterance[v]
  BY <1>0, <1>1, <1>4, <1>6
<1>8. SpeechInv(t, b, said, Utterances \ {u})
  BY <1>0, <1>6, <1>4, <1>7, <1>1, <1>3, PartOfItself, FrameDoneKeeps DEF f
<1>9. CASE s.active = u
  BY <1>1, <1>2, <1>6, <1>8, <1>9, FailedKeeps DEF Fences
<1>10. CASE s.active # u
  BY <1>3, <1>6, <1>1, <1>2, <1>8, <1>10, SettledWhenOver DEF Unborn
<1> QED BY <1>9, <1>10

-----------------------------------------------------------------------------
(* What the service receives *)

\* c is the browser b without the first of its messages
IsPopped(c, b) ==
  /\ IsBrowser(c)
  /\ c.state = b.state /\ c.status = b.status /\ c.active = b.active
  /\ c.sent = b.sent /\ c.debits = b.debits /\ c.watermark = b.watermark
  /\ c.available = b.available /\ c.recording = b.recording
  /\ c.forwarding = b.forwarding
  /\ b.outgoing[1] \in Messages /\ Head(b.outgoing) = b.outgoing[1]
  /\ Len(b.outgoing) \in Nat /\ 1 \in 1 .. Len(b.outgoing)
  /\ Len(c.outgoing) = Len(b.outgoing) - 1
  /\ \A i \in 1 .. Len(c.outgoing) :
       i + 1 \in 1 .. Len(b.outgoing) /\ c.outgoing[i] = b.outgoing[i + 1]

LEMMA PoppedIs ==
  ASSUME NEW b, IsBrowser(b), b.outgoing # <<>>,
         NEW c, c = [b EXCEPT !.outgoing = Tail(@)]
  PROVE  IsPopped(c, b)
<1>1. BrowserFields \subseteq DOMAIN b /\ b.outgoing \in Seq(Messages)
  BY DEF IsBrowser
<1>2. /\ c.outgoing = Tail(b.outgoing) /\ DOMAIN c = DOMAIN b
      /\ c.state = b.state /\ c.status = b.status /\ c.active = b.active
      /\ c.sent = b.sent /\ c.debits = b.debits /\ c.watermark = b.watermark
      /\ c.available = b.available /\ c.recording = b.recording
      /\ c.forwarding = b.forwarding
  BY <1>1 DEF BrowserFields
<1> DEFINE q == b.outgoing
           r == Tail(q)
<1>3. /\ r \in Seq(Messages) /\ q[1] \in Messages /\ Head(q) = q[1]
      /\ Len(q) \in Nat /\ 1 \in 1 .. Len(q) /\ Len(r) = Len(q) - 1
      /\ \A i \in 1 .. Len(r) : i + 1 \in 1 .. Len(q) /\ r[i] = q[i + 1]
  BY <1>1
<1>4. IsBrowser(c)
  BY <1>2, <1>3 DEF IsBrowser
<1> QED BY <1>2, <1>3, <1>4 DEF IsPopped

\* Where the count of the frames of u stands, with the next message and without.
LEMMA HeadOfTracked ==
  ASSUME NEW s, NEW b, NEW u, IsTracked(s, b, u), 1 \in 1 .. Len(b.outgoing), b.sent[u] \in Nat,
         Len(b.outgoing) \in Nat
  PROVE  /\ Due(s, u) \in Nat
         /\ IsHeader(b.outgoing[1], u) =>
              b.outgoing[1].sequence = Due(s, u) /\ Due(s, u) + 1 <= b.sent[u]
         /\ IsEnd(b.outgoing[1], u) => Due(s, u) = b.sent[u]
<1> DEFINE n == Len(b.outgoing)
           sent == b.sent[u]
<1>1. PICK w \in [1 .. n + 1 -> 0 .. sent] : Counts(s, b, u, w)
  BY DEF IsTracked
<1>2. /\ w[1] = Due(s, u)
      /\ IF b.outgoing[1].kind = "header" /\ b.outgoing[1].id = u
           THEN b.outgoing[1].sequence = w[1] /\ w[1 + 1] = w[1] + 1
           ELSE w[1 + 1] = w[1]
      /\ b.outgoing[1].kind = "end" /\ b.outgoing[1].id = u => w[1] = sent
  BY <1>1 DEF Counts
<1>3. n \in Nat /\ sent \in Nat /\ 1 \in 1 .. n
  OBVIOUS
<1> HIDE DEF n, sent
<1>4. 1 \in 1 .. n + 1 /\ 1 + 1 \in 1 .. n + 1
  BY <1>3
<1>5. w[1] \in 0 .. sent /\ w[1 + 1] \in 0 .. sent
  BY <1>1, <1>4
<1>6. w[1 + 1] = w[1] + 1 => w[1] + 1 <= sent
  BY <1>3, <1>5
<1> QED BY <1>2, <1>3, <1>5, <1>6 DEF IsHeader, IsEnd, sent

LEMMA TrackedPopped ==
  ASSUME NEW s, NEW t, NEW b, NEW c, NEW u, IsTracked(s, b, u), b.sent[u] \in Nat,
         Len(b.outgoing) \in Nat, 1 \in 1 .. Len(b.outgoing),
         Len(c.outgoing) = Len(b.outgoing) - 1, c.sent = b.sent,
         \A i \in 1 .. Len(c.outgoing) : c.outgoing[i] = b.outgoing[i + 1],
         IsHeader(b.outgoing[1], u) => Due(t, u) = Due(s, u) + 1,
         ~IsHeader(b.outgoing[1], u) => Due(t, u) = Due(s, u)
  PROVE  IsTracked(t, c, u)
<1> DEFINE n == Len(c.outgoing)
           sent == b.sent[u]
<1>1. PICK w \in [1 .. Len(b.outgoing) + 1 -> 0 .. sent] : Counts(s, b, u, w)
  BY DEF IsTracked
<1>2. n \in Nat /\ Len(b.outgoing) = n + 1
  OBVIOUS
<1>3. /\ w[1] = Due(s, u) /\ w[Len(b.outgoing) + 1] = sent
      /\ \A i \in 1 .. Len(b.outgoing) :
           IF IsHeader(b.outgoing[i], u)
             THEN b.outgoing[i].sequence = w[i] /\ w[i + 1] = w[i] + 1
             ELSE w[i + 1] = w[i]
      /\ \A i \in 1 .. Len(b.outgoing) : IsEnd(b.outgoing[i], u) => w[i] = sent
  BY <1>1 DEF Counts, IsHeader, IsEnd
<1> DEFINE x == [i \in 1 .. n + 1 |-> w[i + 1]]
<1> HIDE DEF n
<1>4. \A i \in 1 .. n : i + 1 \in 1 .. Len(b.outgoing) /\ i + 1 \in 1 .. n + 1 /\ i \in 1 .. n + 1
  BY <1>2
<1>5. x \in [1 .. n + 1 -> 0 .. sent]
  BY <1>2, <1>1
<1>6. x[1] = Due(t, u) /\ x[n + 1] = sent
  BY <1>2, <1>3
<1>7. \A i \in 1 .. n : x[i] = w[i + 1] /\ x[i + 1] = w[(i + 1) + 1]
  BY <1>4
<1> HIDE DEF x
<1>8. \A i \in 1 .. n :
        /\ IF IsHeader(c.outgoing[i], u)
             THEN c.outgoing[i].sequence = x[i] /\ x[i + 1] = x[i] + 1
             ELSE x[i + 1] = x[i]
        /\ IsEnd(c.outgoing[i], u) => x[i] = sent
  <2>1. TAKE i \in 1 .. n
  <2>2. i + 1 \in 1 .. Len(b.outgoing) /\ c.outgoing[i] = b.outgoing[i + 1]
    BY <1>4, <2>1 DEF n
  <2>3. x[i] = w[i + 1] /\ x[i + 1] = w[(i + 1) + 1]
    BY <1>7, <2>1
  <2>4. /\ IF IsHeader(b.outgoing[i + 1], u)
             THEN b.outgoing[i + 1].sequence = w[i + 1] /\ w[(i + 1) + 1] = w[i + 1] + 1
             ELSE w[(i + 1) + 1] = w[i + 1]
        /\ IsEnd(b.outgoing[i + 1], u) => w[i + 1] = sent
    BY <1>3, <2>2
  <2> QED BY <2>2, <2>3, <2>4
<1>9. Counts(t, c, u, x)
  BY <1>5, <1>6, <1>8 DEF Counts, IsHeader, IsEnd, n
<1> QED BY <1>5, <1>9 DEF IsTracked, n

\* The next message is taken from the channel, and the header with it.
LEMMA MessageTaken ==
  ASSUME NEW s, NEW b, NEW said, SpeechInv(s, b, said, Utterances),
         NEW c, IsPopped(c, b),
         NEW t, DiffersIn(t, s, {"header"}), t.header = NoFrame
  PROVE  SpeechInv(t, c, said, {u \in Utterances : ~IsHeader(b.outgoing[1], u) /\ s.header[1] # u})
<1> DEFINE settled == {u \in Utterances : ~IsHeader(b.outgoing[1], u) /\ s.header[1] # u}
<1>0. /\ IsService(s) /\ IsBrowser(b) /\ WorkInv(s, Utterances) /\ FenceInv(s, said)
      /\ ChannelInv(s, b, Utterances) /\ CreditInv(s, b) /\ ServiceFields \subseteq DOMAIN s
      /\ b.sent \in [Utterances -> Nat]
  BY DEF SpeechInv, IsService, IsBrowser
<1>1. /\ IsBrowser(c)
      /\ c.state = b.state /\ c.status = b.status
      /\ c.sent = b.sent /\ c.debits = b.debits /\ c.watermark = b.watermark
      /\ c.available = b.available /\ c.recording = b.recording
      /\ c.forwarding = b.forwarding
      /\ b.outgoing[1] \in Messages
      /\ Len(b.outgoing) \in Nat /\ 1 \in 1 .. Len(b.outgoing)
      /\ Len(c.outgoing) = Len(b.outgoing) - 1
      /\ \A i \in 1 .. Len(c.outgoing) :
           i + 1 \in 1 .. Len(b.outgoing) /\ c.outgoing[i] = b.outgoing[i + 1]
  BY DEF IsPopped
<1>2. b.state = "ready"
  BY <1>0, <1>1 DEF ChannelInv
<1>3. DiffersIn(t, s, {"header"}) /\ t.header = NoFrame
  OBVIOUS
<1>4. /\ t.closed = s.closed /\ t.active = s.active /\ t.creating = s.creating
      /\ t.session = s.session /\ t.leases = s.leases /\ t.fence = s.fence
      /\ t.terminal = s.terminal /\ t.credited = s.credited /\ t.worker = s.worker
      /\ t.through = s.through /\ t.outbound = s.outbound /\ t.current = s.current
      /\ t.outgoing = s.outgoing /\ t.overrun = s.overrun /\ t.utterance = s.utterance
      /\ t.reserved = s.reserved /\ t.frames = s.frames /\ ServiceFields \subseteq DOMAIN t
  BY <1>0, <1>3 DEF DiffersIn, ServiceFields
<1>5. IsService(t)
  BY <1>0, <1>3, <1>4 DEF IsService
<1>6. \A u \in Utterances : t.header[1] # u
  BY <1>3, NobodyIsNone DEF NoFrame
<1>7. WorkInv(t, settled)
  BY <1>0, <1>4, <1>6 DEF WorkInv, HoldsRecognizer, StillSilent, IsWhole, Unborn,
     HeardInOrder
<1>8. FenceInv(t, said)
  BY <1>0, <1>4, PartOfItself, FenceKeeps
<1>9. CreditInv(t, c)
  <2>1. Line(t) = Line(s)
    BY <1>4 DEF Line
  <2>2. Embeds(Line(t), Line(s))
    BY <1>0, <2>1, LineTyped, EmbedsItself
  <2>3. DiffersIn(t, s, {"outgoing", "outbound", "current", "lane", "fence", "frames", "leases",
                          "terminal", "header", "worker", "creating"})
    BY <1>3 DEF DiffersIn
  <2>4. CreditInv(t, b)
    BY <1>0, <1>5, <2>2, <2>3, CreditKeeps
  <2>5. \A u \in Utterances : c.status[u] = "none" => b.status[u] = "none"
    BY <1>1
  <2>6. /\ c.state = b.state /\ c.sent = b.sent /\ c.debits = b.debits
        /\ c.watermark = b.watermark /\ c.available = b.available
    BY <1>1
  <2> QED BY <1>0, <1>5, <2>4, <2>5, <2>6, CreditSeen
<1>10. ASSUME NEW u \in Utterances
       PROVE  IsCalled(t, c, u)
  <2>1. IsCalled(s, b, u)
    BY <1>0, <1>2 DEF ChannelInv
  <2>2. c.status[u] = "none" => IsUnknown(t, c, u)
    BY <1>1, <1>4, <2>1 DEF IsCalled, IsUnknown
  <2>3. ASSUME NEW i \in 1 .. Len(c.outgoing), c.outgoing[i].kind = "start", c.outgoing[i].id = u
        PROVE  /\ t.session[u] = "none"
               /\ \A j \in 1 .. Len(c.outgoing) : c.outgoing[j].id = u => i <= j
    <3>1. /\ i + 1 \in 1 .. Len(b.outgoing)
          /\ b.outgoing[i + 1].kind = "start" /\ b.outgoing[i + 1].id = u
      BY <1>1, <2>3
    <3>2. /\ s.session[u] = "none"
          /\ \A j \in 1 .. Len(b.outgoing) : b.outgoing[j].id = u => i + 1 <= j
      BY <2>1, <3>1 DEF IsCalled
    <3>3. \A j \in 1 .. Len(c.outgoing) : c.outgoing[j].id = u => i + 1 <= j + 1
      BY <1>1, <3>2
    <3>4. \A j \in 1 .. Len(c.outgoing) : i + 1 <= j + 1 => i <= j
      OBVIOUS
    <3> QED BY <1>4, <3>2, <3>3, <3>4
  <2>4. Ended(t, c, u) => Ended(s, b, u)
    BY <1>1, <1>4 DEF Ended
  <2> QED BY <1>1, <1>4, <1>6, <2>1, <2>2, <2>3, <2>4 DEF IsCalled, Listening
<1>11. ASSUME NEW u \in settled, Awaited(t, c, u)
       PROVE  IsTracked(t, c, u)
  <2>1. Awaited(s, b, u)
    BY <1>1, <1>4, <1>11 DEF Awaited, Listening
  <2>2. IsTracked(s, b, u)
    BY <1>0, <1>2, <2>1 DEF ChannelInv
  <2>3. ~IsHeader(b.outgoing[1], u) /\ Due(t, u) = Due(s, u)
    BY <1>4, <1>6 DEF Due
  <2>4. b.sent[u] \in Nat
    BY <1>0
  <2>5. /\ Len(b.outgoing) \in Nat /\ 1 \in 1 .. Len(b.outgoing)
        /\ Len(c.outgoing) = Len(b.outgoing) - 1 /\ c.sent = b.sent
        /\ \A i \in 1 .. Len(c.outgoing) : c.outgoing[i] = b.outgoing[i + 1]
    BY <1>1
  <2> QED BY <2>2, <2>3, <2>4, <2>5, TrackedPopped
<1>12. ASSUME NEW i \in 1 .. Len(c.outgoing), c.outgoing[i].kind = "header"
       PROVE  i < Len(c.outgoing) /\ c.outgoing[i + 1].kind = "binary"
  <2>1. i + 1 \in 1 .. Len(b.outgoing) /\ b.outgoing[i + 1].kind = "header"
    BY <1>1, <1>12
  <2>2. i + 1 < Len(b.outgoing) /\ b.outgoing[(i + 1) + 1].kind = "binary"
    BY <1>0, <1>2, <2>1 DEF ChannelInv
  <2>3. i < Len(c.outgoing) /\ i + 1 \in 1 .. Len(c.outgoing)
    BY <1>1, <2>2
  <2> QED BY <1>1, <2>2, <2>3
<1>13. ChannelInv(t, c, settled)
  BY <1>0, <1>1, <1>2, <1>3, <1>4, <1>10, <1>11, <1>12 DEF ChannelInv
<1> QED BY <1>1, <1>5, <1>7, <1>8, <1>9, <1>13 DEF SpeechInv

\* Only the sound of a frame follows its header.
LEMMA OtherMessage ==
  ASSUME NEW s, NEW b, NEW said, SpeechInv(s, b, said, Utterances),
         NEW c, IsPopped(c, b), b.outgoing[1].kind # "binary"
  PROVE  /\ s.header = NoFrame /\ \A u \in Utterances : s.header[1] # u
         /\ SpeechInv(s, c, said, {u \in Utterances : ~IsHeader(b.outgoing[1], u)})
         /\ b.outgoing[1].kind # "header" => SpeechInv(s, c, said, Utterances)
<1>1. ChannelInv(s, b, Utterances) /\ Len(b.outgoing) # 0
  BY DEF SpeechInv, IsPopped
<1>2. Len(<<>>) = 0
  OBVIOUS
<1>3. s.header = NoFrame
  BY <1>1, <1>2 DEF ChannelInv
<1>4. \A u \in Utterances : s.header[1] # u
  BY <1>3, NobodyIsNone DEF NoFrame
<1>5. DiffersIn(s, s, {"header"})
  BY DEF DiffersIn
<1>6. SpeechInv(s, c, said,
                {u \in Utterances : ~IsHeader(b.outgoing[1], u) /\ s.header[1] # u})
  BY <1>3, <1>5, MessageTaken
<1>7. {u \in Utterances : ~IsHeader(b.outgoing[1], u) /\ s.header[1] # u} =
        {u \in Utterances : ~IsHeader(b.outgoing[1], u)}
  BY <1>4
<1>8. b.outgoing[1].kind # "header" => {u \in Utterances : ~IsHeader(b.outgoing[1], u)} = Utterances
  BY DEF IsHeader
<1> QED BY <1>3, <1>4, <1>6, <1>7, <1>8

LEMMA StartRequestedKeeps ==
  ASSUME NEW s, NEW b, NEW said, SpeechInv(s, b, said, Utterances), Receives(s),
         NEW c, IsPopped(c, b), NEW u \in Utterances,
         b.outgoing[1].kind = "start", b.outgoing[1].id = u
  PROVE  SpeechInv(StartRequested(s, u), c, said, Utterances)
<1> DEFINE t == [s EXCEPT !.creating = u, !.leases = s.leases \cup {u},
                          !.session = [s.session EXCEPT ![u] = "creating"]]
<1>1. SpeechInv(s, c, said, Utterances) /\ s.header = NoFrame
  BY OtherMessage
<1>2. /\ IsService(s) /\ IsBrowser(c) /\ WorkInv(s, Utterances) /\ ServiceFields \subseteq DOMAIN s
      /\ ChannelInv(s, b, Utterances) /\ ChannelInv(s, c, Utterances)
      /\ b.sent \in [Utterances -> Nat] /\ u \in Ids
  BY <1>1 DEF SpeechInv, IsService, IsBrowser, IsPopped, Ids
<1>3. /\ c.state = b.state /\ c.status = b.status /\ c.sent = b.sent
      /\ c.recording = b.recording /\ c.forwarding = b.forwarding
      /\ Len(b.outgoing) \in Nat /\ 1 \in 1 .. Len(b.outgoing)
      /\ Len(c.outgoing) = Len(b.outgoing) - 1
      /\ \A i \in 1 .. Len(c.outgoing) :
           i + 1 \in 1 .. Len(b.outgoing) /\ c.outgoing[i] = b.outgoing[i + 1]
  BY DEF IsPopped
<1>4. b.state = "ready" /\ ~s.closed /\ s.creating = Nobody
  BY <1>2, <1>3 DEF ChannelInv, Receives
<1>5. IsCalled(s, b, u)
  BY <1>2, <1>4 DEF ChannelInv
<1>6. /\ s.session[u] = "none" /\ b.status[u] # "none"
      /\ \A j \in 1 .. Len(b.outgoing) : b.outgoing[j].id = u => 1 <= j
  BY <1>3, <1>5 DEF IsCalled, IsUnknown
<1>7. \A i \in 1 .. Len(c.outgoing) : ~(c.outgoing[i].kind = "start" /\ c.outgoing[i].id = u)
  BY <1>3, <1>5 DEF IsCalled
<1>8. IsTracked(s, c, u)
  BY <1>3, <1>6, <1>2, <1>4, TrackedPopped DEF Awaited, ChannelInv, IsHeader
<1>9. CASE s.active # Nobody \/ Cardinality(s.leases) >= Recognizers
  BY <1>9, <1>1, <1>2, RefusedKeeps DEF StartRequested
<1>10. CASE s.active = Nobody /\ ~(Cardinality(s.leases) >= Recognizers)
  <2>1. StartRequested(s, u) = t
    BY <1>2, <1>10 DEF StartRequested, ServiceFields
  <2>2. /\ DiffersIn(t, s, {"creating", "leases", "session"})
        /\ t.creating = u /\ t.leases = s.leases \cup {u}
        /\ t.session = [s.session EXCEPT ![u] = "creating"]
    BY <1>2 DEF DiffersIn, ServiceFields
  <2> HIDE DEF t
  <2>3. s.session \in [Utterances -> Sessions]
    BY <1>2 DEF IsService
  <2>4. /\ t.session \in [Utterances -> Sessions] /\ t.session[u] = "creating"
        /\ \A v \in Utterances : v # u => t.session[v] = s.session[v]
    BY <2>2, <2>3 DEF Sessions
  <2>5. /\ t.closed = s.closed /\ t.active = s.active /\ t.utterance = s.utterance
        /\ t.terminal = s.terminal /\ t.header = s.header /\ t.frames = s.frames
        /\ t.reserved = s.reserved /\ t.credited = s.credited /\ t.through = s.through
        /\ t.worker = s.worker /\ t.fence = s.fence /\ t.outbound = s.outbound
        /\ t.current = s.current /\ t.overrun = s.overrun /\ t.outgoing = s.outgoing
        /\ ServiceFields \subseteq DOMAIN t
    BY <1>2, <2>2 DEF DiffersIn, ServiceFields
  <2>6. IsService(t)
    BY <1>2, <2>2, <2>4, <2>5 DEF IsService, Ids
  <2>7. \A v \in Utterances : v # u => IsApart(t, s, v)
    BY <2>5, <1>4, <1>10, <2>2, <2>4, PartOfItself, PartForAll, NobodyIsNone DEF
       IsApart
  <2>8. WorksFor(t, u)
    <3>1. HoldsRecognizer(s, u) /\ StillSilent(s, u) /\ Unborn(s, u)
      BY <1>2, <1>6 DEF WorkInv, Unborn
    <3>2. /\ s.utterance[u].finalizer \notin {"running", "late"} /\ s.worker[1] # u
          /\ s.terminal[u] # "final" /\ s.fence[u] = "none" /\ s.active # u
      BY <1>6, <1>10, <3>1, NobodyIsNone DEF HoldsRecognizer, StillSilent
    <3>3. HoldsRecognizer(t, u)
      BY <1>10, <2>2, <2>4, <2>5, <3>2 DEF HoldsRecognizer
    <3>4. StillSilent(t, u) /\ IsWhole(t, u)
      BY <2>5, <3>1, <3>2 DEF StillSilent, IsWhole
    <3> QED BY <3>3, <3>4 DEF WorksFor
  <2>9. ASSUME NEW v \in Utterances
        PROVE  IsCalled(t, c, v)
    <3>1. IsCalled(s, c, v)
      BY <1>2, <1>3, <1>4 DEF ChannelInv
    <3>2. CASE v = u
      BY <1>3, <1>6, <1>7, <2>5, <3>1, <3>2 DEF IsCalled, Ended, Listening
    <3>3. CASE v # u
      BY <2>4, <2>5, <3>1, <3>3 DEF IsCalled, IsUnknown, Ended, Listening
    <3> QED BY <3>2, <3>3
  <2>10. ASSUME NEW v \in Utterances, Awaited(t, c, v)
         PROVE  IsTracked(t, c, v)
    <3>1. IsTracked(s, c, v)
      <4>1. CASE v = u
        BY <1>8, <4>1
      <4>2. CASE v # u
        <5>1. Awaited(s, c, v)
          BY <2>4, <2>5, <2>10, <4>2 DEF Awaited, Listening
        <5> QED BY <1>2, <1>3, <1>4, <5>1 DEF ChannelInv
      <4> QED BY <4>1, <4>2
    <3>2. Due(t, v) = Due(s, v)
      BY <2>5 DEF Due
    <3> QED BY <3>1, <3>2 DEF IsTracked, Counts
  <2>11. ChannelInv(t, c, Utterances)
    BY <1>2, <2>5, <2>9, <2>10 DEF ChannelInv
  <2>12. HeardInOrder(t, u)
    BY <1>2, <1>10, <2>5, NobodyIsNone DEF HeardInOrder
  <2>13. /\ t.closed => t.active = Nobody /\ t.creating = Nobody
         /\ t.active # u /\ t.utterance[u].next = s.utterance[u].next
         /\ t.reserved \subseteq s.reserved
         /\ Unborn(t, u) \/ t.active = u => Unborn(s, u) \/ s.active = u
    BY <1>4, <1>6, <1>10, <2>5, NobodyIsNone DEF Unborn
  <2>14. SpeechInv(t, c, said, Utterances)
    BY <1>1, <2>5, <2>6, <2>7, <2>8, <2>11, <2>12, <2>13, AboutOne
  <2> QED BY <2>1, <2>14
<1> QED BY <1>9, <1>10

\* The player has ended the recording, and every frame of it is here.
LEMMA EndRequestedKeeps ==
  ASSUME NEW s, NEW b, NEW said, SpeechInv(s, b, said, Utterances),
         NEW c, IsPopped(c, b), NEW u \in Utterances,
         b.outgoing[1].kind = "end", b.outgoing[1].id = u
  PROVE  SpeechInv(EndRequested(s, u), c, said, Utterances)
<1>1. /\ SpeechInv(s, c, said, Utterances) /\ s.header = NoFrame
      /\ \A v \in Utterances : s.header[1] # v
  BY OtherMessage
<1>2. /\ ChannelInv(s, b, Utterances) /\ b.sent \in [Utterances -> Nat] /\ u \in Ids
      /\ s.utterance[u].next \in Nat
  BY DEF SpeechInv, IsService, IsBrowser, Ids, UtteranceRecords
<1>3. /\ c.state = b.state /\ c.sent = b.sent
      /\ c.recording = b.recording /\ c.forwarding = b.forwarding
      /\ Len(b.outgoing) \in Nat /\ 1 \in 1 .. Len(b.outgoing)
  BY DEF IsPopped
<1>4. b.state = "ready"
  BY <1>2, <1>3 DEF ChannelInv
<1>5. CASE s.active # u
  BY <1>5, <1>1, <1>2, RefusedKeeps DEF EndRequested
<1>6. CASE s.active = u
  <2>1. EndRequested(s, u) = FinalizeRequested(s, u, "client_end")
    BY <1>6 DEF EndRequested
  <2>2. IsCalled(s, b, u) /\ Ended(s, b, u)
    BY <1>2, <1>3, <1>4 DEF ChannelInv, Ended
  <2>3. ~(c.forwarding /\ c.recording = u)
    BY <1>3, <2>2 DEF IsCalled
  <2>4. ASSUME Listening(s, u)
        PROVE  AllSent(s, c, u)
    <3>1. Awaited(s, b, u)
      BY <2>4 DEF Awaited
    <3>2. IsTracked(s, b, u) /\ b.sent[u] \in Nat
      BY <1>2, <1>4, <3>1 DEF ChannelInv
    <3>3. IsEnd(b.outgoing[1], u)
      BY DEF IsEnd
    <3>4. Due(s, u) = b.sent[u]
      BY <1>3, <3>2, <3>3, HeadOfTracked
    <3>5. s.utterance[u].next = b.sent[u]
      BY <1>1, <1>2, <3>4 DEF Due
    <3> QED BY <1>1, <1>3, <1>4, <2>3, <3>5 DEF AllSent
  <2>5. SpeechInv(FinalizeRequested(s, u, "client_end"), c, said, Utterances)
    BY <1>1, <1>6, <2>4, FinalizeRequestedKeeps
  <2> QED BY <2>1, <2>5
<1> QED BY <1>5, <1>6

\* A header is of the next frame of an utterance that is being heard, and its
\* sound is the next message.
LEMMA HeaderAcceptedKeeps ==
  ASSUME NEW s, NEW b, NEW said, SpeechInv(s, b, said, Utterances), Receives(s),
         NEW c, IsPopped(c, b), NEW u \in Utterances, NEW n \in Nat,
         b.outgoing[1].kind = "header", b.outgoing[1].id = u, b.outgoing[1].sequence = n
  PROVE  SpeechInv(HeaderAccepted(s, u, n), c, said, Utterances)
<1> DEFINE t == [s EXCEPT !.header = <<u, n>>]
<1>1. /\ SpeechInv(s, c, said, Utterances \ {u}) /\ s.header = NoFrame
      /\ \A v \in Utterances : s.header[1] # v
  BY OtherMessage DEF IsHeader
<1>2. /\ IsService(s) /\ IsBrowser(c) /\ WorkInv(s, Utterances) /\ FenceInv(s, said)
      /\ ServiceFields \subseteq DOMAIN s /\ CreditInv(s, c)
      /\ ChannelInv(s, b, Utterances) /\ ChannelInv(s, c, Utterances \ {u})
      /\ b.sent \in [Utterances -> Nat] /\ u \in Ids
      /\ s.utterance[u] \in UtteranceRecords
  BY <1>1 DEF SpeechInv, IsService, IsBrowser, Ids
<1>3. /\ c.state = b.state /\ c.sent = b.sent
      /\ Len(b.outgoing) \in Nat /\ 1 \in 1 .. Len(b.outgoing)
      /\ Len(c.outgoing) = Len(b.outgoing) - 1
      /\ \A i \in 1 .. Len(c.outgoing) :
           i + 1 \in 1 .. Len(b.outgoing) /\ c.outgoing[i] = b.outgoing[i + 1]
  BY DEF IsPopped
<1>4. b.state = "ready" /\ ~s.closed /\ s.creating = Nobody
  BY <1>2, <1>3 DEF ChannelInv, Receives
<1>5. IsCalled(s, b, u) /\ HoldsRecognizer(s, u)
  BY <1>2, <1>4 DEF ChannelInv, WorkInv
<1>6. CASE ~Listening(s, u)
  <2>1. \A i \in 1 .. Len(c.outgoing) : ~(c.outgoing[i].kind = "start" /\ c.outgoing[i].id = u)
    BY <1>3, <1>5 DEF IsCalled
  <2>2. ~Awaited(s, c, u)
    BY <1>4, <1>5, <1>6, <2>1, NobodyIsNone DEF Awaited, HoldsRecognizer
  <2>3. ChannelInv(s, c, Utterances)
    BY <1>2, <2>2 DEF ChannelInv
  <2>4. SpeechInv(s, c, said, Utterances)
    BY <1>2, <2>3 DEF SpeechInv
  <2>5. SpeechInv(Refused(s, u), c, said, Utterances)
    BY <1>2, <2>4, RefusedKeeps
  <2> QED BY <1>6, <2>5 DEF HeaderAccepted
<1>7. CASE Listening(s, u) /\ n # s.utterance[u].next
  BY <1>7, <1>1, FailedKeeps DEF Listening, Fences, HeaderAccepted
<1>8. CASE Listening(s, u) /\ n = s.utterance[u].next
  <2>1. HeaderAccepted(s, u, n) = t
    BY <1>8 DEF HeaderAccepted
  <2>2. DiffersIn(t, s, {"header"}) /\ t.header = <<u, n>>
    BY <1>2 DEF DiffersIn, ServiceFields
  <2> HIDE DEF t
  <2>3. /\ t.header \in Frames /\ t.header[1] = u /\ t.header[2] = n
        /\ \A v \in Utterances : v # u => t.header[1] # v
    BY <2>2 DEF Frames
  <2>4. /\ t.closed = s.closed /\ t.active = s.active /\ t.creating = s.creating
        /\ t.session = s.session /\ t.leases = s.leases /\ t.fence = s.fence
        /\ t.terminal = s.terminal /\ t.credited = s.credited /\ t.worker = s.worker
        /\ t.through = s.through /\ t.outbound = s.outbound /\ t.current = s.current
        /\ t.outgoing = s.outgoing /\ t.overrun = s.overrun /\ t.utterance = s.utterance
        /\ t.reserved = s.reserved /\ t.frames = s.frames /\ ServiceFields \subseteq DOMAIN t
    BY <1>2, <2>2 DEF DiffersIn, ServiceFields
  <2>5. IsService(t)
    BY <1>2, <2>3, <2>4 DEF IsService
  <2>6. /\ s.active = u /\ s.utterance[u].status = "listening" /\ ~Unborn(s, u)
        /\ s.utterance[u].finalizer = "none" /\ u # Nobody
    BY <1>2, <1>8, <1>5, NobodyIsNone DEF WorkInv, Listening, HeardInOrder,
       HoldsRecognizer, Unborn
  <2>7. WorkInv(t, Utterances)
    <3>1. ASSUME NEW v \in Utterances
          PROVE  /\ HoldsRecognizer(t, v) /\ StillSilent(t, v) /\ IsWhole(t, v)
                 /\ HeardInOrder(t, v)
      <4>1. HoldsRecognizer(s, v) /\ StillSilent(s, v) /\ IsWhole(s, v) /\ HeardInOrder(s, v)
        BY <1>2 DEF WorkInv
      <4>2. HoldsRecognizer(t, v) /\ IsWhole(t, v)
        BY <2>4, <4>1 DEF HoldsRecognizer, IsWhole
      <4>3. StillSilent(t, v)
        BY <2>3, <2>4, <2>6, <4>1 DEF StillSilent, Unborn
      <4>4. HeardInOrder(t, v)
        BY <1>8, <2>3, <2>4, <2>6, <4>1 DEF HeardInOrder
      <4> QED BY <4>2, <4>3, <4>4
    <3> QED BY <1>2, <2>4, <3>1 DEF WorkInv
  <2>8. FenceInv(t, said)
    BY <1>2, <2>4, PartOfItself, FenceKeeps
  <2>9. CreditInv(t, c)
    BY <2>4, <1>2, <2>2, <2>5, LineTyped, EmbedsItself, CreditKeeps DEF Line, DiffersIn
  <2>10. s.utterance[u].next \in Nat /\ Due(s, u) = s.utterance[u].next
         /\ Due(t, u) = s.utterance[u].next + 1
    BY <1>1, <1>2, <2>3, <2>4 DEF UtteranceRecords, Due
  <2>11. IsTracked(s, b, u) /\ b.sent[u] \in Nat /\ IsHeader(b.outgoing[1], u)
    BY <1>2, <1>4, <1>8 DEF ChannelInv, Awaited, IsHeader
  <2>12. s.utterance[u].next + 1 <= b.sent[u]
    BY <1>3, <2>10, <2>11, HeadOfTracked
  <2>13. IsTracked(t, c, u)
    BY <1>3, <2>10, <2>11, TrackedPopped
  <2>14. c.outgoing # <<>> /\ c.outgoing[1].kind = "binary"
    BY <1>2, <1>3, <1>4 DEF ChannelInv
  <2>15. ASSUME NEW v \in Utterances
         PROVE  IsCalled(t, c, v)
    <3>1. IsCalled(s, c, v)
      BY <1>2, <1>3, <1>4 DEF ChannelInv
    <3>2. Listening(t, v) <=> Listening(s, v)
      BY <2>4 DEF Listening
    <3>3. IsUnknown(t, c, v) <=> IsUnknown(s, c, v)
      BY <2>4 DEF IsUnknown
    <3>4. Ended(t, c, v) <=> Ended(s, c, v)
      BY <2>4 DEF Ended
    <3>5. CASE v = u
      BY <1>3, <1>8, <2>4, <2>10, <2>12, <3>1, <3>2, <3>3, <3>4, <3>5, <1>2 DEF IsCalled
    <3>6. CASE v # u
      BY <2>3, <2>4, <3>1, <3>2, <3>3, <3>4, <3>6 DEF IsCalled
    <3> QED BY <3>5, <3>6
  <2>16. ASSUME NEW v \in Utterances, Awaited(t, c, v)
         PROVE  IsTracked(t, c, v)
    <3>1. CASE v = u
      BY <2>13, <3>1
    <3>2. CASE v # u
      <4>1. Awaited(s, c, v)
        BY <2>4, <2>16 DEF Awaited, Listening
      <4>2. IsTracked(s, c, v)
        BY <1>2, <1>3, <1>4, <3>2, <4>1 DEF ChannelInv
      <4>3. Due(t, v) = Due(s, v)
        BY <1>1, <2>3, <2>4, <3>2 DEF Due
      <4> QED BY <4>2, <4>3 DEF IsTracked, Counts
    <3> QED BY <3>1, <3>2
  <2>17. ChannelInv(t, c, Utterances)
    BY <1>2, <2>4, <2>14, <2>15, <2>16 DEF ChannelInv
  <2>18. SpeechInv(t, c, said, Utterances)
    BY <1>2, <2>5, <2>7, <2>8, <2>9, <2>17 DEF SpeechInv
  <2> QED BY <2>1, <2>18
<1> QED BY <1>6, <1>7, <1>8

\* A frame under way is one the service has room for, and stays one of those
\* that are taken when it is accepted.
LEMMA FrameAcceptedKeeps ==
  ASSUME NEW s, NEW b, NEW said, NEW u \in Utterances, NEW n \in Nat,
         SpeechInv(s, b, said, Utterances \ {u}), s.header = NoFrame, b.state = "ready",
         s.active = u, s.session[u] = "open", n = s.utterance[u].next, HeardInOrder(s, u),
         s.utterance[u].finalizer = "none", s.utterance[u].reason # "client_end",
         n < b.sent[u],
         NEW r, Listening(s, u) => IsTracked(r, b, u) /\ Due(r, u) = n + 1
  PROVE  SpeechInv(FrameAccepted(s, u, n), b, said, Utterances)
<1> DEFINE f == <<u, n>>
           more == n + 1
           left == s.utterance[u].pending + 1
           x == [s.utterance[u] EXCEPT !.next = more, !.pending = left]
           t == [s EXCEPT !.reserved = s.reserved \cup {f}, !.frames = Append(s.frames, f),
                          !.utterance = [s.utterance EXCEPT ![u] = x], !.through = n]
<1>0. /\ IsService(s) /\ IsBrowser(b) /\ WorkInv(s, Utterances \ {u}) /\ FenceInv(s, said)
      /\ ChannelInv(s, b, Utterances \ {u}) /\ CreditInv(s, b) /\ ServiceFields \subseteq DOMAIN s
      /\ s.utterance \in [Utterances -> UtteranceRecords] /\ s.frames \in Seq(Frames)
      /\ s.reserved \subseteq Frames /\ IsFiniteSet(s.reserved)
      /\ b.sent \in [Utterances -> Nat]
  BY DEF SpeechInv, IsService, IsBrowser
<1>1. f \in Frames /\ f[1] = u /\ f[2] = n
  BY DEF Frames
<1>2. /\ s.utterance[u] \in UtteranceRecords /\ s.utterance[u].pending \in Int
      /\ s.utterance[u].heard \in Nat /\ more \in Nat /\ left \in Int
      /\ more = n + 1 /\ left = s.utterance[u].pending + 1
  BY <1>0 DEF UtteranceRecords
<1>3. FrameAccepted(s, u, n) = FlowSent(t)
  <2> DEFINE p == s.utterance[u].pending + 1
             y == [s.utterance EXCEPT ![u].next = @ + 1]
             z == [y EXCEPT ![u].pending = p]
             e == [s EXCEPT !.reserved = @ \cup {<<u, n>>}, !.frames = Append(@, <<u, n>>)]
  <2>1. z = [s.utterance EXCEPT ![u] = x]
    BY <1>0, <1>2 DEF UtteranceRecords
  <2>2. [s EXCEPT !.reserved = @ \cup {<<u, n>>}, !.frames = Append(@, <<u, n>>),
                  !.utterance[u].next = @ + 1, !.utterance[u].pending = @ + 1,
                  !.through = n] =
        [[[e EXCEPT !.utterance[u].next = s.utterance[u].next + 1]
             EXCEPT !.utterance[u].pending = p] EXCEPT !.through = n]
    OBVIOUS
  <2>3. e.utterance = s.utterance /\ DOMAIN e = DOMAIN s
    BY <1>0 DEF ServiceFields
  <2>4. [e EXCEPT !.utterance[u].next = s.utterance[u].next + 1] = [e EXCEPT !.utterance = y]
    BY <1>0, <2>3 DEF ServiceFields
  <2>5. [e EXCEPT !.utterance = y].utterance = y
    BY <1>0, <2>3 DEF ServiceFields
  <2> HIDE DEF e, y, p
  <2>6. [[e EXCEPT !.utterance = y] EXCEPT !.utterance[u].pending = p] =
          [e EXCEPT !.utterance = z]
    BY <1>0, <2>3, <2>5 DEF ServiceFields
  <2>7. [[[e EXCEPT !.utterance[u].next = s.utterance[u].next + 1]
             EXCEPT !.utterance[u].pending = p] EXCEPT !.through = n] =
          [[e EXCEPT !.utterance = z] EXCEPT !.through = n]
    BY <2>4, <2>6
  <2>8. [[e EXCEPT !.utterance = z] EXCEPT !.through = n] =
        [s EXCEPT !.reserved = s.reserved \cup {<<u, n>>}, !.frames = Append(s.frames, <<u, n>>),
                  !.utterance = z, !.through = n]
    BY <1>0 DEF ServiceFields, e
  <2> HIDE DEF z
  <2>9. [s EXCEPT !.reserved = @ \cup {<<u, n>>}, !.frames = Append(@, <<u, n>>),
                  !.utterance[u].next = @ + 1, !.utterance[u].pending = @ + 1,
                  !.through = n] =
        [s EXCEPT !.reserved = s.reserved \cup {<<u, n>>}, !.frames = Append(s.frames, <<u, n>>),
                  !.utterance = z, !.through = n]
    BY <2>2, <2>7, <2>8
  <2> QED BY <2>1, <2>9 DEF FrameAccepted
<1> HIDE DEF f, more, left
<1>4. /\ DiffersIn(t, s, {"reserved", "frames", "utterance", "through"})
      /\ t.reserved = s.reserved \cup {f} /\ t.frames = Append(s.frames, f)
      /\ t.utterance = [s.utterance EXCEPT ![u] = x] /\ t.through = n
  BY <1>0 DEF DiffersIn, ServiceFields
<1> HIDE DEF t
<1>5. /\ x \in UtteranceRecords /\ x.status = s.utterance[u].status
      /\ x.next = n + 1 /\ x.pending = s.utterance[u].pending + 1
      /\ x.heard = s.utterance[u].heard /\ x.reason = s.utterance[u].reason
      /\ x.finalizer = "none"
  BY <1>2 DEF UtteranceRecords
<1> HIDE DEF x
<1>6. /\ t.utterance \in [Utterances -> UtteranceRecords] /\ t.utterance[u] = x
      /\ \A v \in Utterances : v # u => t.utterance[v] = s.utterance[v]
  BY <1>0, <1>4, <1>5
<1>7. /\ t.closed = s.closed /\ t.active = s.active /\ t.creating = s.creating
      /\ t.session = s.session /\ t.leases = s.leases /\ t.fence = s.fence
      /\ t.terminal = s.terminal /\ t.credited = s.credited /\ t.worker = s.worker
      /\ t.outbound = s.outbound /\ t.current = s.current /\ t.header = s.header
      /\ t.outgoing = s.outgoing /\ t.overrun = s.overrun /\ ServiceFields \subseteq DOMAIN t
  BY <1>0, <1>4 DEF DiffersIn, ServiceFields
<1>8. /\ t.frames \in Seq(Frames) /\ Len(s.frames) \in Nat /\ Len(t.frames) = Len(s.frames) + 1
      /\ \A i \in 1 .. Len(s.frames) : t.frames[i] = s.frames[i]
      /\ t.frames[Len(s.frames) + 1] = f
  BY <1>0, <1>1, <1>4
<1>9. t.reserved \subseteq Frames /\ IsFiniteSet(t.reserved)
  <2>1. IsFiniteSet(s.reserved \cup {f})
    BY <1>0, FS_AddElement
  <2> QED BY <1>0, <1>1, <1>4, <2>1
<1>10. IsService(t)
  BY <1>0, <1>4, <1>6, <1>7, <1>8, <1>9 DEF IsService
<1>11. \A v \in Utterances : v # u => s.active # v /\ f[1] # v
  BY <1>1
<1>12. ~Unborn(s, u) /\ u # Nobody
  BY NobodyIsNone DEF Unborn
<1>13. \A v \in Utterances : t.header[1] # v
  BY <1>7, NobodyIsNone DEF NoFrame
<1>14. HeardInOrder(t, u)
  <2> DEFINE h == s.utterance[u].heard
             p == s.utterance[u].pending
             from == IF s.worker[1] = u THEN s.worker[2] + 1 ELSE h
             k == Len(s.frames)
  <2>1. /\ p = n - h /\ h <= n
        /\ s.worker[1] = u => s.worker[2] \in h .. n - 1
        /\ \A i \in 1 .. k : s.frames[i][1] = u =>
             /\ s.frames[i][2] \in from .. n - 1
             /\ \A j \in 1 .. k :
                  i < j /\ s.frames[j][1] = u => s.frames[i][2] < s.frames[j][2]
    BY DEF HeardInOrder
  <2>2. h \in Nat /\ p \in Int /\ k \in Nat
    BY <1>2, <1>8
  <2> HIDE DEF h, p, k
  <2>3. s.worker[1] = u => s.worker[2] \in Int
    BY <2>1, <2>2
  <2>4. from \in Int /\ from <= n
    BY <2>1, <2>2, <2>3
  <2> HIDE DEF from
  <2>5. /\ \A i \in 1 .. k : t.frames[i] = s.frames[i]
        /\ t.frames[k + 1] = f /\ Len(t.frames) = k + 1
    BY <1>8 DEF k
  <2>6. ASSUME NEW i \in 1 .. k + 1, t.frames[i][1] = u
        PROVE  /\ t.frames[i][2] \in from .. n
               /\ \A j \in 1 .. k + 1 :
                    i < j /\ t.frames[j][1] = u => t.frames[i][2] < t.frames[j][2]
    <3>1. CASE i = k + 1
      BY <1>1, <2>5, <3>1, <2>2, <2>4
    <3>2. CASE i # k + 1
      <4>1. i \in 1 .. k
        BY <2>2, <3>2
      <4>2. s.frames[i][1] = u /\ t.frames[i] = s.frames[i]
        BY <2>5, <2>6, <4>1
      <4>3. /\ s.frames[i][2] \in from .. n - 1
            /\ \A j \in 1 .. k : i < j /\ s.frames[j][1] = u => s.frames[i][2] < s.frames[j][2]
        BY <2>1, <4>1, <4>2
      <4>4. t.frames[i][2] \in from .. n /\ t.frames[i][2] < n
        BY <2>4, <4>2, <4>3
      <4>5. ASSUME NEW j \in 1 .. k + 1, i < j, t.frames[j][1] = u
            PROVE  t.frames[i][2] < t.frames[j][2]
        <5>1. CASE j = k + 1
          BY <1>1, <2>5, <4>4, <5>1
        <5>2. CASE j # k + 1
          BY <2>2, <5>2, <2>5, <4>2, <4>3, <4>5
        <5> QED BY <5>1, <5>2
      <4> QED BY <4>4, <4>5
    <3> QED BY <3>1, <3>2
  <2>7. /\ p + 1 = (n + 1) - h /\ h <= n + 1 /\ (n + 1) - 1 = n
        /\ s.worker[1] = u => s.worker[2] \in h .. n
    BY <2>1, <2>2
  <2>8. /\ t.utterance[u].pending = p + 1 /\ t.utterance[u].next = n + 1
        /\ t.utterance[u].heard = h /\ t.utterance[u].finalizer = "none"
        /\ (IF t.worker[1] = u THEN t.worker[2] + 1 ELSE t.utterance[u].heard) = from
    BY <1>5, <1>6, <1>7 DEF h, p, from
  <2> QED BY <1>7, <1>13, <2>5, <2>6, <2>7, <2>8 DEF HeardInOrder
<1>15. WorkInv(t, Utterances)
  <2>1. ASSUME NEW v \in Utterances
        PROVE  HoldsRecognizer(t, v) /\ StillSilent(t, v) /\ IsWhole(t, v)
    <3>1. HoldsRecognizer(s, v) /\ StillSilent(s, v) /\ IsWhole(s, v)
      BY <1>0 DEF WorkInv
    <3>2. /\ t.utterance[v].status = s.utterance[v].status
          /\ t.utterance[v].finalizer = s.utterance[v].finalizer
      BY <1>5, <1>6
    <3>3. HoldsRecognizer(t, v)
      BY <1>7, <3>1, <3>2 DEF HoldsRecognizer
    <3>4. StillSilent(t, v)
      <4>1. CASE v = u
        BY <1>7, <1>12, <4>1 DEF StillSilent, Unborn
      <4>2. CASE v # u
        <5>1. \A i \in 1 .. Len(t.frames) : i \in 1 .. Len(s.frames) \/ i = Len(s.frames) + 1
          BY <1>8
        <5>2. (\A i \in 1 .. Len(s.frames) : s.frames[i][1] # v) =>
                \A i \in 1 .. Len(t.frames) : t.frames[i][1] # v
          BY <1>1, <1>8, <4>2, <5>1
        <5> QED BY <1>6, <1>7, <1>13, <3>1, <4>2, <5>2 DEF StillSilent, Unborn
      <4> QED BY <4>1, <4>2
    <3>5. IsWhole(t, v)
      BY <1>6, <1>7, <3>1 DEF IsWhole
    <3> QED BY <3>3, <3>4, <3>5
  <2>2. ASSUME NEW v \in Utterances
        PROVE  HeardInOrder(t, v)
    BY <1>14, <1>7 DEF HeardInOrder
  <2>3. ASSUME NEW g \in t.reserved
        PROVE  g[2] < t.utterance[g[1]].next
    <3>1. CASE g = f
      BY <1>1, <1>2, <1>5, <1>6, <3>1
    <3>2. CASE g # f
      BY <1>0, <1>4, <2>3, <3>2, <1>2, <1>5, <1>6 DEF Frames, WorkInv
    <3> QED BY <3>1, <3>2
  <2>4. t.active \in Utterances =>
          t.session[t.active] = "open" /\ t.utterance[t.active].finalizer # "late"
    BY <1>5, <1>6, <1>7
  <2>5. t.closed => t.active = Nobody /\ t.creating = Nobody
    BY <1>0, <1>7 DEF WorkInv
  <2> QED BY <2>1, <2>2, <2>3, <2>4, <2>5 DEF WorkInv
<1>16. FenceInv(t, said)
  BY <1>0, <1>7, PartOfItself, FenceKeeps
<1>17. ChannelInv(t, b, Utterances)
  <2>1. ASSUME NEW v \in Utterances
        PROVE  IsCalled(t, b, v)
    <3>1. IsCalled(s, b, v)
      BY <1>0 DEF ChannelInv
    <3>2. /\ t.utterance[v].status = s.utterance[v].status
          /\ t.utterance[v].reason = s.utterance[v].reason
      BY <1>5, <1>6
    <3>3. Listening(t, v) <=> Listening(s, v)
      BY <1>7, <3>2 DEF Listening
    <3>4. IsUnknown(t, b, v) <=> IsUnknown(s, b, v)
      BY <1>7 DEF IsUnknown
    <3>5. Ended(t, b, v) <=> Ended(s, b, v)
      BY <3>2 DEF Ended
    <3>6. CASE v = u
      <4>1. t.utterance[v].next <= b.sent[v]
        BY <1>0, <1>5, <1>6, <3>6
      <4>2. t.utterance[v].reason # "client_end"
        BY <3>2, <3>6
      <4> QED BY <1>7, <1>13, <3>1, <3>4, <3>5, <4>1, <4>2 DEF IsCalled
    <3>7. CASE v # u
      BY <1>6, <1>7, <1>13, <3>1, <3>3, <3>4, <3>5, <3>7 DEF IsCalled
    <3> QED BY <3>6, <3>7
  <2>2. ASSUME NEW v \in Utterances, Awaited(t, b, v)
        PROVE  IsTracked(t, b, v)
    <3>1. t.utterance[v].status = s.utterance[v].status
      BY <1>5, <1>6
    <3>2. Awaited(s, b, v)
      BY <1>7, <2>2, <3>1 DEF Awaited, Listening
    <3>3. CASE v = u
      <4>1. Listening(s, u)
        BY <3>2, <3>3 DEF Awaited
      <4>2. IsTracked(r, b, u) /\ Due(r, u) = n + 1
        BY <4>1
      <4>3. Due(t, u) = n + 1
        BY <1>5, <1>6, <1>13 DEF Due
      <4>4. Due(t, u) = Due(r, u)
        BY <4>2, <4>3
      <4>5. IsTracked(t, b, u)
        BY <4>2, <4>4 DEF IsTracked, Counts
      <4> QED BY <3>3, <4>5
    <3>4. CASE v # u
      BY <1>0, <3>2, <3>4, <1>6, <1>7 DEF ChannelInv, Due, IsTracked, Counts
    <3> QED BY <3>3, <3>4
  <2> QED BY <1>0, <1>7, <2>1, <2>2 DEF ChannelInv
<1>18. CreditInv(t, b)
  <2>1. /\ s.credited = u /\ s.overrun = FALSE /\ b.status[u] # "none"
        /\ UnderWay(s, b) \subseteq b.debits
        /\ Cardinality(Taken(s, b)) <= InputFrames
        /\ Cardinality(Taken(s, b) \ b.debits) + b.available <= InputFrames
        /\ \A v \in Utterances : b.watermark[v] < s.utterance[v].next
        /\ \A k \in 1 .. Len(Line(s)) : IsFlow(Line(s)[k]) => IsCredible(s, b, Line(s), k)
    BY <1>0, <1>12 DEF CreditInv
  <2>2. \A g \in Frames : g \in UnderWay(t, b) <=> g \in UnderWay(s, b) /\ g # f
    <3>1. SUFFICES ASSUME NEW g \in Frames
                   PROVE  g \in UnderWay(t, b) <=> g \in UnderWay(s, b) /\ g # f
      OBVIOUS
    <3>2. g[1] \in Utterances /\ g[2] \in Nat /\ g = <<g[1], g[2]>>
      BY DEF Frames
    <3>3. CASE g[1] = u
      BY <1>5, <1>6, <3>2, <3>3, <1>7 DEF f, UnderWay, Unborn
    <3>4. CASE g[1] # u
      BY <1>1, <1>6, <1>7, <3>2, <3>4 DEF UnderWay, Unborn
    <3> QED BY <3>3, <3>4
  <2>3. f \in UnderWay(s, b)
    BY <1>1 DEF UnderWay
  <2>4. UnderWay(t, b) \subseteq Frames /\ UnderWay(s, b) \subseteq Frames
    BY DEF UnderWay
  <2>5. Taken(t, b) = Taken(s, b) /\ UnderWay(t, b) \subseteq b.debits
    BY <1>4, <2>1, <2>2, <2>3, <2>4 DEF Taken
  <2>6. Line(t) = Line(s)
    BY <1>7 DEF Line
  <2>7. ASSUME NEW v \in Utterances
        PROVE  /\ s.utterance[v].next \in Nat /\ t.utterance[v].next \in Nat
               /\ s.utterance[v].next <= t.utterance[v].next
    <3>1. s.utterance[v].next \in Nat
      BY <1>0 DEF UtteranceRecords
    <3>2. CASE v = u
      BY <1>5, <1>6, <3>2
    <3>3. CASE v # u
      BY <1>6, <3>1, <3>3
    <3> QED BY <3>2, <3>3
  <2>8. \A v \in Utterances : b.watermark[v] < t.utterance[v].next
    BY <1>0, <2>1, <2>7 DEF IsBrowser
  <2>9. ASSUME NEW k \in 1 .. Len(Line(s)), IsFlow(Line(s)[k])
        PROVE  IsCredible(t, b, Line(s), k)
    <3> DEFINE l == Line(s)
               e == l[k]
    <3>1. IsCredible(s, b, l, k)
      BY <2>1, <2>9
    <3>2. Uncounted(t, b, l, k) = Uncounted(s, b, l, k)
      BY <2>5 DEF Uncounted
    <3>3. e \in Events
      BY <1>0, LineTyped
    <3>4. e.id \in Ids /\ e.through \in Int
      BY <2>9, <3>3, FlowIs
    <3>5. ASSUME e.id # Nobody
          PROVE  e.through < t.utterance[e.id].next
      <4>1. e.id \in Utterances /\ e.through < s.utterance[e.id].next
        BY <3>1, <3>4, <3>5 DEF Ids, IsCredible
      <4> HIDE DEF e
      <4> QED BY <2>7, <3>4, <4>1
    <3> HIDE DEF l
    <3> QED BY <3>1, <3>2, <3>5 DEF IsCredible, l
  <2>10. t.through = t.utterance[t.credited].next - 1
    BY <1>4, <1>5, <1>6, <1>7, <2>1
  <2> QED BY <1>7, <2>1, <2>5, <2>6, <2>8, <2>9, <2>10 DEF CreditInv
<1>19. SpeechInv(t, b, said, Utterances)
  BY <1>0, <1>10, <1>15, <1>16, <1>17, <1>18 DEF SpeechInv
<1>20. SpeechInv(FlowSent(t), b, said, Utterances)
  BY <1>19, FlowSentKeeps
<1> QED BY <1>3, <1>20

LEMMA BinaryAcceptedKeeps ==
  ASSUME NEW s, NEW b, NEW said, SpeechInv(s, b, said, Utterances),
         NEW c, IsPopped(c, b), b.outgoing[1].kind = "binary"
  PROVE  SpeechInv(BinaryAccepted(s), c, said, Utterances)
<1> DEFINE u == s.header[1]
           n == s.header[2]
           t == [s EXCEPT !.header = NoFrame]
<1>1. /\ IsService(s) /\ IsBrowser(b) /\ WorkInv(s, Utterances) /\ ServiceFields \subseteq DOMAIN s
      /\ ChannelInv(s, b, Utterances) /\ CreditInv(s, b)
      /\ b.sent \in [Utterances -> Nat] /\ s.active \in Ids
      /\ s.header \in Frames \cup {NoFrame} /\ s.reserved \subseteq Frames
      /\ IsFiniteSet(s.reserved)
  BY DEF SpeechInv, IsService, IsBrowser
<1>2. /\ c.state = b.state /\ c.sent = b.sent
      /\ Len(b.outgoing) \in Nat /\ 1 \in 1 .. Len(b.outgoing)
      /\ Len(c.outgoing) = Len(b.outgoing) - 1
      /\ \A i \in 1 .. Len(c.outgoing) :
           i + 1 \in 1 .. Len(b.outgoing) /\ c.outgoing[i] = b.outgoing[i + 1]
  BY DEF IsPopped
<1>3. b.state = "ready"
  BY <1>1, <1>2 DEF ChannelInv
<1>4. \A v : ~IsHeader(b.outgoing[1], v)
  BY DEF IsHeader
<1>5. DiffersIn(t, s, {"header"}) /\ t.header = NoFrame
  BY <1>1 DEF DiffersIn, ServiceFields
<1>6. BinaryAccepted(s) =
        IF u = Nobody /\ s.active # Nobody THEN Failed(t, s.active, "receive")
        ELSE IF u = Nobody THEN Refused(t, Nobody)
        ELSE IF ~IsCurrent(s, u) \/ s.utterance[u].next # n THEN Refused(t, u)
        ELSE IF n + 1 > UtteranceLimit THEN Failed(t, u, "receive")
        ELSE IF Cardinality(s.reserved) >= InputFrames
          THEN Failed([t EXCEPT !.overrun = TRUE], u, "receive")
        ELSE FrameAccepted(t, u, n)
  BY DEF BinaryAccepted
<1>7. /\ u = Nobody \/ (u \in Utterances /\ n \in Nat /\ s.header = <<u, n>> /\ <<u, n>> \in Frames)
      /\ "receive" \in Fences /\ Nobody \in Ids
  BY <1>1 DEF Frames, NoFrame, Fences, Ids
<1> HIDE DEF t
<1>8. SpeechInv(t, c, said, Utterances \ {u})
  BY <1>5, <1>4, MessageTaken
<1>9. /\ t.active = s.active /\ t.session = s.session /\ t.utterance = s.utterance
      /\ t.worker = s.worker /\ t.frames = s.frames
  BY <1>5 DEF DiffersIn, ServiceFields
<1> HIDE DEF u, n
<1>10. CASE u = Nobody
  <2>1. SpeechInv(t, c, said, Utterances)
    BY <1>10, <1>8, NobodyIsNone
  <2>2. CASE s.active # Nobody
    <3> DEFINE v == s.active
    <3>1. v \in Utterances /\ t.active = v
      BY <1>1, <1>9, <2>2 DEF Ids
    <3> HIDE DEF v
    <3>2. SpeechInv(t, c, said, Utterances \ {v})
      BY <2>1, SettledShrinks
    <3>3. SpeechInv(Failed(t, v, "receive"), c, said, Utterances)
      BY <1>7, <3>1, <3>2, FailedKeeps
    <3> QED BY <1>6, <1>10, <2>2, <3>3 DEF v
  <2>3. CASE s.active = Nobody
    BY <1>7, <2>1, <1>6, <1>10, <2>3, RefusedKeeps
  <2> QED BY <2>2, <2>3
<1>11. CASE u # Nobody
  <2>1. /\ u \in Utterances /\ n \in Nat /\ u \in Ids /\ <<u, n>> \in Frames
        /\ s.header[1] = u /\ s.header[2] = n
    BY <1>7, <1>11 DEF Ids, u, n
  <2>2. HoldsRecognizer(s, u) /\ StillSilent(s, u) /\ HeardInOrder(s, u) /\ IsCalled(s, b, u)
    BY <1>1, <1>3, <2>1 DEF WorkInv, ChannelInv
  <2>3. ~Unborn(s, u)
    BY <2>1, <2>2 DEF StillSilent
  <2>4. CASE ~IsCurrent(s, u)
    <3>1. t.active # u /\ ~Unborn(t, u)
      BY <1>9, <2>2, <2>3, <2>4 DEF IsCurrent, HoldsRecognizer, Unborn
    <3>2. SpeechInv(t, c, said, Utterances)
      BY <1>8, <2>1, <3>1, SettledWhenOver
    <3>3. SpeechInv(Refused(t, u), c, said, Utterances)
      BY <2>1, <3>2, RefusedKeeps
    <3> QED BY <1>6, <1>11, <2>4, <3>3
  <2>5. CASE IsCurrent(s, u)
    <3>1. /\ s.active = u /\ n = s.utterance[u].next /\ s.utterance[u].finalizer = "none"
          /\ n < b.sent[u] /\ s.utterance[u].reason # "client_end" /\ t.active = u
      BY <1>9, <2>1, <2>2, <2>5 DEF IsCurrent, HeardInOrder, IsCalled
    <3>2. CASE n + 1 > UtteranceLimit
      BY <1>7, <1>8, <2>1, <3>1, <1>6, <1>11, <2>5, <3>2, FailedKeeps
    <3>3. CASE ~(n + 1 > UtteranceLimit)
      <4>1. ~(Cardinality(s.reserved) >= InputFrames)
        <5> DEFINE f == <<u, n>>
        <5>1. f \in Frames /\ f[1] = u /\ f[2] = n
          BY <2>1
        <5> HIDE DEF f
        <5>2. f \notin s.reserved
          BY <1>1, <3>1, <5>1, <2>1 DEF WorkInv
        <5>3. f \in UnderWay(s, b)
          BY <2>1, <3>1, <5>1 DEF UnderWay
        <5>4. /\ Cardinality(Taken(s, b)) <= InputFrames /\ InputFrames \in Nat
              /\ UnderWay(s, b) \subseteq b.debits
          BY <1>1, <1>3, ServiceAssumption DEF CreditInv
        <5>5. /\ IsFiniteSet(Taken(s, b)) /\ Cardinality(Taken(s, b)) \in Nat
              /\ \A S \in SUBSET Taken(s, b) : Cardinality(S) <= Cardinality(Taken(s, b))
          BY <1>1, <5>4, TakenIsFinite
        <5>6. s.reserved \cup {f} \in SUBSET Taken(s, b)
          BY <5>3 DEF Taken
        <5>7. Cardinality(s.reserved \cup {f}) = Cardinality(s.reserved) + 1
          BY <1>1, <5>2, FS_AddElement
        <5>8. Cardinality(s.reserved) \in Nat
          BY <1>1, FS_CardinalityType
        <5> QED BY <5>4, <5>5, <5>6, <5>7, <5>8
      <4>2. BinaryAccepted(s) = FrameAccepted(t, u, n)
        BY <1>6, <1>11, <2>5, <3>1, <3>3, <4>1
      <4>3. /\ t.utterance[u].finalizer = "none" /\ t.utterance[u].reason # "client_end"
            /\ n = t.utterance[u].next /\ t.session[u] = "open"
            /\ c.state = "ready" /\ n < c.sent[u]
        BY <1>1, <1>2, <1>3, <1>9, <2>1, <3>1 DEF WorkInv
      <4>4. HeardInOrder(t, u)
        BY <1>5, <1>11, <1>9, <2>2 DEF NoFrame, HeardInOrder
      <4>5. ASSUME Listening(t, u)
            PROVE  IsTracked(s, c, u) /\ Due(s, u) = n + 1
        <5>1. Listening(s, u)
          BY <1>9, <4>5 DEF Listening
        <5>2. IsTracked(s, b, u) /\ b.sent[u] \in Nat
          BY <1>1, <1>3, <2>1, <5>1 DEF ChannelInv, Awaited
        <5>3. ~IsHeader(b.outgoing[1], u)
          BY <1>4
        <5>4. IsTracked(s, c, u)
          BY <1>2, <5>2, <5>3, TrackedPopped
        <5>5. Due(s, u) = n + 1
          BY <2>1, <3>1 DEF Due
        <5> QED BY <5>4, <5>5
      <4>6. SpeechInv(FrameAccepted(t, u, n), c, said, Utterances)
        BY <1>5, <1>8, <2>1, <3>1, <4>3, <4>4, <4>5, FrameAcceptedKeeps
      <4> QED BY <4>2, <4>6
    <3> QED BY <3>2, <3>3
  <2> QED BY <2>4, <2>5
<1> QED BY <1>10, <1>11

-----------------------------------------------------------------------------
(* The outbound task *)

LEMMA BatchTakenKeeps ==
  ASSUME NEW s, NEW b, NEW said, SpeechInv(s, b, said, Utterances), Sorted(s),
         s.current = NoBatch, s.outbound # <<>>
  PROVE  SpeechInv(BatchTaken(s), b, said, Utterances)
<1> DEFINE t == BatchTaken(s)
           q == s.outbound
           r == Tail(q)
<1>1. /\ IsService(s) /\ IsBrowser(b) /\ WorkInv(s, Utterances) /\ FenceInv(s, said)
      /\ ChannelInv(s, b, Utterances) /\ CreditInv(s, b) /\ ServiceFields \subseteq DOMAIN s
      /\ q \in Seq(Batches) /\ s.outgoing \in Seq(Events)
  BY DEF SpeechInv, IsService
<1>2. DiffersIn(t, s, {"outbound", "current"}) /\ t.outbound = r /\ t.current = Head(q)
  BY <1>1 DEF DiffersIn, ServiceFields, BatchTaken
<1> HIDE DEF t
<1>3. /\ Len(q) \in Nat /\ 1 \in 1 .. Len(q) /\ Head(q) = q[1] /\ q[1] \in Batches
      /\ Len(r) = Len(q) - 1
      /\ \A i \in 1 .. Len(r) : i + 1 \in 1 .. Len(q) /\ r[i] = q[i + 1]
  BY <1>1
<1>4. /\ r \in Seq(Batches) /\ IsPartOf(r, q)
      /\ Embeds(LineOf(s.outgoing, r), LineOf(s.outgoing, q))
  BY <1>1, TailEmbeds
<1>5. q[1].id # Nobody
  BY DEF Sorted
<1> HIDE DEF q, r
<1>6. t.current = q[1] /\ q[1] \in [id : Utterances, events : Some(Spoken), cut : BOOLEAN]
  BY <1>2, <1>3, <1>5 DEF Batches
<1>7. t.current \in [id : Ids, events : Seq(Spoken), cut : BOOLEAN]
  BY <1>6 DEF Some, Ids
<1>8. /\ t.closed = s.closed /\ t.active = s.active /\ t.creating = s.creating
      /\ t.session = s.session /\ t.leases = s.leases /\ t.fence = s.fence
      /\ t.terminal = s.terminal /\ t.credited = s.credited /\ t.worker = s.worker
      /\ t.through = s.through /\ t.header = s.header
      /\ t.outgoing = s.outgoing /\ t.overrun = s.overrun /\ t.utterance = s.utterance
      /\ t.reserved = s.reserved /\ t.frames = s.frames /\ ServiceFields \subseteq DOMAIN t
  BY <1>1, <1>2 DEF DiffersIn, ServiceFields
<1>9. IsService(t)
  BY <1>1, <1>2, <1>4, <1>7, <1>8 DEF IsService
<1>10. WorkInv(t, Utterances)
  BY <1>2, <1>1, WorkKeeps DEF DiffersIn
<1>11. FenceInv(t, said)
  <2>1. ASSUME NEW u \in Utterances
        PROVE  IsFenced(t, said, u)
    <3>1. IsFenced(s, said, u)
      BY <1>1 DEF FenceInv
    <3>2. SUFFICES ASSUME ~s.closed
                   PROVE  IsFenced(t, said, u)
      BY <1>8, <3>1 DEF IsFenced
    <3>3. /\ s.active = u \/ Unborn(s, u) =>
               /\ said[u] = "open"
               /\ \A i \in 1 .. Len(q) : q[i].id = u => ~Ends(q[i])
          /\ said[u] = "ended" => \A i \in 1 .. Len(q) : q[i].id # u
          /\ \A i, j \in 1 .. Len(q) :
               i < j /\ q[i].id = u /\ q[j].id = u => ~Ends(q[i])
          /\ said[u] \in {"open", "ended"}
      BY <3>1, <3>2 DEF IsFenced, q
    <3>4. /\ t.active = u \/ Unborn(t, u) =>
               /\ said[u] = "open"
               /\ t.current.id = u => ~Ends(t.current)
               /\ \A i \in 1 .. Len(r) : r[i].id = u => ~Ends(r[i])
          /\ said[u] = "ended" => t.current.id # u /\ \A i \in 1 .. Len(r) : r[i].id # u
      BY <1>3, <1>6, <1>8, <3>3 DEF Unborn
    <3>5. t.current.id = u /\ Ends(t.current) => \A i \in 1 .. Len(r) : r[i].id # u
      BY <1>6, <1>3, <3>3
    <3>6. \A i, j \in 1 .. Len(r) : i < j /\ r[i].id = u /\ r[j].id = u => ~Ends(r[i])
      BY <1>3, <3>3
    <3> QED BY <1>2, <3>3, <3>4, <3>5, <3>6 DEF IsFenced
  <2> QED BY <1>1, <2>1 DEF FenceInv
<1>12. ChannelInv(t, b, Utterances)
  BY <1>1, <1>8, ChannelKeeps
<1>13. CreditInv(t, b)
  <2>1. Embeds(Line(t), Line(s))
    BY <1>2, <1>4, <1>8 DEF Line, LineOf, q
  <2>2. DiffersIn(t, s, {"outgoing", "outbound", "current", "lane", "fence", "frames",
                          "leases", "terminal", "header", "worker", "creating"})
    BY <1>2 DEF DiffersIn
  <2> QED BY <1>1, <1>9, <2>1, <2>2, CreditKeeps
<1>14. SpeechInv(t, b, said, Utterances)
  BY <1>1, <1>9, <1>10, <1>11, <1>12, <1>13 DEF SpeechInv
<1> QED BY <1>14 DEF t

\* A batch is out, or is dropped: what was said of its utterance before is open.
LEMMA BatchOverKeeps ==
  ASSUME NEW s, NEW b, NEW said, SpeechInv(s, b, said, Utterances),
         NEW t, DiffersIn(t, s, {"outgoing", "current"}), t.current = NoBatch,
         t.outgoing = s.outgoing \/ t.outgoing = s.outgoing \o s.current.events,
         NEW after, DOMAIN after = DOMAIN said,
         \A u \in Utterances :
           \/ after[u] = said[u]
           \/ /\ s.current.id = u /\ ~s.closed /\ said[u] = "open"
              /\ after[u] \in {"open", "ended"} /\ (after[u] = "ended" => Ends(s.current))
  PROVE  SpeechInv(t, b, after, Utterances)
<1>1. /\ IsService(s) /\ IsBrowser(b) /\ WorkInv(s, Utterances) /\ FenceInv(s, said)
      /\ ChannelInv(s, b, Utterances) /\ CreditInv(s, b) /\ ServiceFields \subseteq DOMAIN s
      /\ s.outbound \in Seq(Batches) /\ s.outgoing \in Seq(Events)
      /\ s.current.events \in Seq(Spoken)
  BY DEF SpeechInv, IsService
<1>2. /\ t.closed = s.closed /\ t.active = s.active /\ t.creating = s.creating
      /\ t.session = s.session /\ t.leases = s.leases /\ t.fence = s.fence
      /\ t.terminal = s.terminal /\ t.credited = s.credited /\ t.worker = s.worker
      /\ t.through = s.through /\ t.header = s.header /\ t.outbound = s.outbound
      /\ t.overrun = s.overrun /\ t.utterance = s.utterance
      /\ t.reserved = s.reserved /\ t.frames = s.frames /\ ServiceFields \subseteq DOMAIN t
  BY <1>1 DEF DiffersIn, ServiceFields
<1>3. t.outgoing \in Seq(Events) /\ Embeds(Line(t), Line(s))
  <2>1. CASE t.outgoing = s.outgoing
    BY <1>2, <2>1, <1>1, LineTyped, EmbedsItself DEF Line
  <2>2. CASE t.outgoing = s.outgoing \o s.current.events
    <3>1. s.current.events \in Seq(Events)
      BY <1>1 DEF Events
    <3>2. s.outgoing \o s.current.events \in Seq(Events)
      BY <1>1, <3>1
    <3>3. Embeds(LineOf(s.outgoing \o s.current.events, s.outbound), LineOf(s.outgoing, s.outbound))
      BY <1>1, SendingEmbeds
    <3> QED BY <1>2, <2>2, <3>2, <3>3 DEF Line, LineOf
  <2> QED BY <2>1, <2>2
<1>4. NoBatch \in [id : Ids, events : Seq(Spoken), cut : BOOLEAN] /\ NoBatch.id = Nobody
  BY DEF NoBatch, Ids
<1>5. IsService(t)
  BY <1>1, <1>2, <1>3, <1>4 DEF IsService
<1>6. WorkInv(t, Utterances)
  BY <1>1, WorkKeeps DEF DiffersIn
<1>7. FenceInv(t, after)
  <2>1. ASSUME NEW u \in Utterances
        PROVE  IsFenced(t, after, u)
    BY <1>1, <1>4, <1>2, NobodyIsNone DEF FenceInv, IsFenced, Unborn
  <2> QED BY <1>1, <2>1 DEF FenceInv
<1>8. ChannelInv(t, b, Utterances)
  BY <1>1, <1>2, ChannelKeeps
<1>9. CreditInv(t, b)
  BY <1>1, <1>3, <1>5, CreditKeeps DEF DiffersIn
<1> QED BY <1>1, <1>5, <1>6, <1>7, <1>8, <1>9 DEF SpeechInv

LEMMA BatchDroppedKeeps ==
  ASSUME NEW s, NEW b, NEW said, SpeechInv(s, b, said, Utterances)
  PROVE  SpeechInv(BatchDropped(s), b, said, Utterances)
<1> DEFINE t == BatchDropped(s)
<1>1. ServiceFields \subseteq DOMAIN s
  BY DEF SpeechInv, IsService
<1>2. /\ DiffersIn(t, s, {"outgoing", "current"}) /\ t.current = NoBatch
      /\ t.outgoing = s.outgoing
  BY <1>1 DEF DiffersIn, ServiceFields, BatchDropped
<1> HIDE DEF t
<1>3. SpeechInv(t, b, said, Utterances)
  BY <1>2, BatchOverKeeps
<1> QED BY <1>3 DEF t

LEMMA BatchSentKeeps ==
  ASSUME NEW s, NEW b, NEW said, SpeechInv(s, b, said, Utterances),
         NEW after, s.closed => after = said,
         ~s.closed => after = [said EXCEPT ![s.current.id] =
                                 IF @ # "open" THEN "late"
                                 ELSE IF Ends(s.current) THEN "ended" ELSE @]
  PROVE  SpeechInv(BatchSent(s), b, after, Utterances)
<1> DEFINE t == BatchSent(s)
           u == s.current.id
<1>1. /\ ServiceFields \subseteq DOMAIN s /\ FenceInv(s, said) /\ DOMAIN said = Utterances
      /\ \A v \in Utterances : IsFenced(s, said, v)
  BY DEF SpeechInv, IsService, FenceInv
<1>2. /\ DiffersIn(t, s, {"outgoing", "current"}) /\ t.current = NoBatch
      /\ t.outgoing = IF s.closed THEN s.outgoing ELSE s.outgoing \o s.current.events
  BY <1>1 DEF DiffersIn, ServiceFields, BatchSent
<1>3. t.outgoing = s.outgoing \/ t.outgoing = s.outgoing \o s.current.events
  BY <1>2
<1> HIDE DEF t
<1>4. DOMAIN after = DOMAIN said
  OBVIOUS
<1>5. ASSUME NEW v \in Utterances
      PROVE  \/ after[v] = said[v]
             \/ /\ s.current.id = v /\ ~s.closed /\ said[v] = "open"
                /\ after[v] \in {"open", "ended"} /\ (after[v] = "ended" => Ends(s.current))
  <2>1. CASE s.closed \/ u # v
    BY <1>1, <2>1
  <2>2. CASE ~s.closed /\ u = v
    BY <1>1, <2>2 DEF IsFenced
  <2> QED BY <2>1, <2>2
<1>6. SpeechInv(t, b, after, Utterances)
  <2> HIDE DEF u
  <2> QED BY <1>2, <1>3, <1>4, <1>5, BatchOverKeeps
<1> QED BY <1>6 DEF t

\* What waited for a batch is of an utterance that is over.
LEMMA ResumeKeeps ==
  ASSUME NEW s, NEW b, NEW said, SpeechInv(s, b, said, Utterances),
         NEW u \in Utterances, s.fence[u] # "none"
  PROVE  SpeechInv(EndCancel(s, u), b, said, Utterances)
  BY EndCancelKeeps DEF SpeechInv, WorkInv, HoldsRecognizer, StillSilent

-----------------------------------------------------------------------------
(* The end of the connection *)

IsShutDown(t, s) ==
  /\ t.closed = TRUE /\ t.active = Nobody /\ t.creating = Nobody
  /\ t.header = NoFrame /\ t.frames = <<>> /\ t.reserved = {} /\ t.outbound = <<>>
  /\ t.terminal = s.terminal /\ t.credited = s.credited /\ t.through = s.through
  /\ t.worker = s.worker /\ t.leases = s.leases /\ t.overrun = s.overrun
  /\ \A v \in Utterances :
       /\ t.fence[v] \in {s.fence[v], "none"}
       /\ \/ t.session[v] = s.session[v] /\ v # s.creating
          \/ v = s.creating /\ t.session[v] = "abandoned"
          \/ v = s.active /\ s.session[v] = "open" /\ t.session[v] = "cancelling"
       /\ v # s.active => t.utterance[v] = s.utterance[v]
       /\ t.utterance[v].next = s.utterance[v].next
       /\ t.utterance[v].heard = s.utterance[v].heard
       /\ t.utterance[v].finalizer = s.utterance[v].finalizer

LEMMA ShutDownIs ==
  ASSUME NEW s, IsService(s), WorkInv(s, Utterances)
  PROVE  IsService(ShutDown(s)) /\ IsShutDown(ShutDown(s), s)
<1> DEFINE t == ShutDown(s)
           u == s.active
           current == [s.current EXCEPT !.cut = TRUE]
           fence == [x \in Utterances |-> IF s.fence[x] = "idle" THEN "none" ELSE s.fence[x]]
           session == IF s.creating = Nobody THEN s.session
                      ELSE [s.session EXCEPT ![s.creating] = "abandoned"]
           y == [s.utterance[u] EXCEPT !.status = "cancelled"]
           halted == [s EXCEPT !.closed = TRUE, !.active = Nobody, !.header = NoFrame,
                               !.frames = <<>>, !.reserved = {}, !.outbound = <<>>,
                               !.current = current, !.outgoing = <<>>, !.creating = Nobody,
                               !.fence = fence]
           starting == [halted EXCEPT !.session = session]
           over == [starting EXCEPT !.utterance = [s.utterance EXCEPT ![u] = y]]
<1>1. /\ ServiceFields \subseteq DOMAIN s /\ s.creating \in Ids /\ u \in Ids
      /\ s.session \in [Utterances -> Sessions] /\ s.fence \in [Utterances -> Fences]
      /\ s.utterance \in [Utterances -> UtteranceRecords]
      /\ s.current \in [id : Ids, events : Seq(Spoken), cut : BOOLEAN]
  BY DEF IsService
<1>2. t = IF u = Nobody THEN starting ELSE Disposed(over, u)
  <2> DEFINE h == [s EXCEPT !.closed = TRUE, !.active = Nobody, !.header = NoFrame,
                            !.frames = <<>>, !.reserved = {}, !.outbound = <<>>,
                            !.current.cut = TRUE, !.outgoing = <<>>, !.creating = Nobody,
                            !.fence = [x \in Utterances |->
                                         IF @[x] = "idle" THEN "none" ELSE @[x]]]
             g == IF s.creating = Nobody THEN h
                  ELSE [h EXCEPT !.session[s.creating] = "abandoned"]
  <2>1. h = halted
    BY <1>1 DEF ServiceFields
  <2>2. t = IF u = Nobody THEN g
            ELSE Disposed([g EXCEPT !.utterance[u].status = "cancelled"], u)
    BY DEF ShutDown
  <2>3. halted.session = s.session /\ halted.utterance = s.utterance
    BY <1>1 DEF ServiceFields
  <2> HIDE DEF h
  <2>4. g = starting
    <3> HIDE DEF halted
    <3>1. halted = [halted EXCEPT !.session = halted.session]
      BY DEF halted
    <3> QED BY <1>1, <2>1, <2>3, <3>1
  <2>5. starting.utterance = s.utterance
    BY <1>1, <2>3 DEF ServiceFields
  <2> HIDE DEF halted, session, g
  <2>6. u # Nobody => [starting EXCEPT !.utterance[u].status = "cancelled"] = over
    BY <1>1, <2>5 DEF Ids
  <2> QED BY <2>2, <2>4, <2>6
<1> HIDE DEF t
<1>3. /\ current \in [id : Ids, events : Seq(Spoken), cut : BOOLEAN]
      /\ fence \in [Utterances -> Fences]
      /\ \A v \in Utterances : fence[v] \in {s.fence[v], "none"}
  BY <1>1 DEF Fences
<1>4. /\ session \in [Utterances -> Sessions]
      /\ \A v \in Utterances : \/ session[v] = s.session[v] /\ v # s.creating
                               \/ v = s.creating /\ session[v] = "abandoned"
  BY <1>1, NobodyIsNone DEF Ids, Sessions
<1>5. u # Nobody => y \in UtteranceRecords /\ u \in Utterances /\ s.creating # u
  <2>1. SUFFICES ASSUME u # Nobody
                 PROVE  y \in UtteranceRecords /\ u \in Utterances /\ s.creating # u
    OBVIOUS
  <2>2. u \in Utterances /\ s.utterance[u] \in UtteranceRecords
    BY <1>1, <2>1 DEF Ids
  <2>3. HoldsRecognizer(s, u)
    BY <2>2 DEF WorkInv
  <2>4. s.creating # u
    BY <2>1, <2>3 DEF HoldsRecognizer
  <2> QED BY <2>2, <2>4 DEF UtteranceRecords
<1>6. u # Nobody => /\ y.next = s.utterance[u].next /\ y.heard = s.utterance[u].heard
                    /\ y.finalizer = s.utterance[u].finalizer
  BY <1>1 DEF UtteranceRecords, Ids
<1>7. /\ starting.closed = TRUE /\ starting.active = Nobody /\ starting.creating = Nobody
      /\ starting.header = NoFrame /\ starting.frames = <<>> /\ starting.reserved = {}
      /\ starting.outbound = <<>> /\ starting.outgoing = <<>> /\ starting.current = current
      /\ starting.terminal = s.terminal /\ starting.credited = s.credited
      /\ starting.through = s.through /\ starting.worker = s.worker
      /\ starting.leases = s.leases /\ starting.overrun = s.overrun
      /\ starting.fence = fence /\ starting.session = session
      /\ starting.utterance = s.utterance /\ ServiceFields \subseteq DOMAIN starting
  BY <1>1 DEF ServiceFields
<1> HIDE DEF starting, y, current, fence, session
<1>8. <<>> \in Seq(Frames) /\ <<>> \in Seq(Batches) /\ <<>> \in Seq(Events) /\ IsFiniteSet({})
  BY FS_EmptySet
<1>9. CASE u = Nobody
  <2>1. t = starting
    BY <1>2, <1>9
  <2>2. /\ t.closed = TRUE /\ t.active = Nobody /\ t.creating = Nobody
        /\ t.header = NoFrame /\ t.frames = <<>> /\ t.reserved = {} /\ t.outbound = <<>>
        /\ t.outgoing = <<>> /\ t.current = current /\ t.fence = fence
        /\ t.terminal = s.terminal /\ t.credited = s.credited /\ t.through = s.through
        /\ t.worker = s.worker /\ t.leases = s.leases /\ t.overrun = s.overrun
        /\ t.session = session /\ t.utterance = s.utterance /\ ServiceFields \subseteq DOMAIN t
    BY <1>7, <2>1
  <2>3. IsService(t)
    BY <1>3, <1>4, <1>8, <2>2 DEF IsService, Ids
  <2>4. IsShutDown(t, s)
    BY <1>3, <1>4, <2>2 DEF IsShutDown
  <2> QED BY <2>3, <2>4 DEF t
<1>10. CASE u # Nobody
  <2> DEFINE utterance == [s.utterance EXCEPT ![u] = y]
             ends == s.session[u] = "open"
  <2>1. /\ utterance \in [Utterances -> UtteranceRecords] /\ utterance[u] = y
        /\ \A v \in Utterances : v # u => utterance[v] = s.utterance[v]
    BY <1>1, <1>5, <1>10
  <2> HIDE DEF utterance
  <2>2. DiffersIn(over, starting, {"utterance"}) /\ over.utterance = utterance
    BY <1>7 DEF DiffersIn, ServiceFields, utterance
  <2> HIDE DEF over
  <2>3. over.session = session /\ ServiceFields \subseteq DOMAIN over
    BY <1>7, <2>2 DEF DiffersIn, ServiceFields
  <2>4. session[u] = s.session[u]
    BY <1>4, <1>5, <1>10
  <2>5. DiffersIn(t, over, {"session"})
    BY <1>2, <1>10, <2>3 DEF Disposed, DiffersIn, ServiceFields
  <2>6. /\ t.session \in [Utterances -> Sessions]
        /\ \A v \in Utterances : v # u => t.session[v] = session[v]
        /\ t.session[u] = IF ends THEN "cancelling" ELSE s.session[u]
    <3>1. t = IF over.session[u] = "open" THEN [over EXCEPT !.session[u] = "cancelling"]
              ELSE over
      BY <1>2, <1>10 DEF Disposed
    <3>2. CASE ends
      BY <2>3, <2>4, <3>1, <3>2, <1>4, <1>5, <1>10 DEF ServiceFields, Sessions
    <3>3. CASE ~ends
      BY <2>3, <2>4, <3>1, <3>3, <1>4
    <3> QED BY <3>2, <3>3
  <2>7. /\ t.closed = TRUE /\ t.active = Nobody /\ t.creating = Nobody
        /\ t.header = NoFrame /\ t.frames = <<>> /\ t.reserved = {} /\ t.outbound = <<>>
        /\ t.outgoing = <<>> /\ t.current = current /\ t.fence = fence
        /\ t.terminal = s.terminal /\ t.credited = s.credited /\ t.through = s.through
        /\ t.worker = s.worker /\ t.leases = s.leases /\ t.overrun = s.overrun
        /\ t.utterance = utterance /\ ServiceFields \subseteq DOMAIN t
    BY <1>7, <2>2, <2>3, <2>5 DEF DiffersIn, ServiceFields
  <2>8. IsService(t)
    BY <1>3, <1>8, <2>1, <2>6, <2>7 DEF IsService, Ids
  <2>9. ASSUME NEW v \in Utterances
        PROVE  /\ t.fence[v] \in {s.fence[v], "none"}
               /\ \/ t.session[v] = s.session[v] /\ v # s.creating
                  \/ v = s.creating /\ t.session[v] = "abandoned"
                  \/ v = s.active /\ s.session[v] = "open" /\ t.session[v] = "cancelling"
               /\ v # s.active => t.utterance[v] = s.utterance[v]
               /\ t.utterance[v].next = s.utterance[v].next
               /\ t.utterance[v].heard = s.utterance[v].heard
               /\ t.utterance[v].finalizer = s.utterance[v].finalizer
    BY <1>3, <1>5, <1>6, <1>10, <2>1, <2>6, <2>7, <1>4
  <2>10. IsShutDown(t, s)
    BY <2>7, <2>9 DEF IsShutDown
  <2> QED BY <2>8, <2>10 DEF t
<1> QED BY <1>9, <1>10

LEMMA HangUpKeeps ==
  ASSUME NEW s, NEW b, NEW said, SpeechInv(s, b, said, Utterances)
  PROVE  SpeechInv(ShutDown(s), Disconnected("closed"), said, Utterances) /\ Sorted(ShutDown(s))
<1> DEFINE t == ShutDown(s)
           c == Disconnected("closed")
<1>0. /\ IsService(s) /\ WorkInv(s, Utterances) /\ FenceInv(s, said) /\ CreditInv(s, b)
      /\ s.active \in Ids /\ s.credited \in Ids
  BY DEF SpeechInv, IsService
<1>1. IsService(t) /\ IsShutDown(t, s)
  BY <1>0, ShutDownIs
<1> HIDE DEF t
<1>2. /\ IsBrowser(c) /\ c.state = "closed" /\ c.outgoing = <<>>
  <2>1. 0 \in Nat /\ -1 \in Int /\ IsFiniteSet({}) /\ <<>> \in Seq(Messages)
    BY FS_EmptySet
  <2>2. /\ c.state = "closed" /\ c.status = [u \in Utterances |-> "none"]
        /\ c.active = Nobody /\ c.sent = [u \in Utterances |-> 0] /\ c.debits = {}
        /\ c.watermark = [u \in Utterances |-> -1] /\ c.available = 0
        /\ c.recording = Nobody /\ c.forwarding = FALSE /\ c.outgoing = <<>>
        /\ BrowserFields \subseteq DOMAIN c
    BY DEF Disconnected, SilentClient, BrowserFields
  <2> HIDE DEF c
  <2>3. /\ c.status \in [Utterances -> Statuses] /\ c.sent \in [Utterances -> Nat]
        /\ c.watermark \in [Utterances -> Int]
    BY <2>2 DEF Statuses
  <2>4. c.debits \subseteq Frames /\ IsFiniteSet(c.debits)
    BY <2>1, <2>2
  <2>5. /\ c.active \in Ids /\ c.recording \in Ids /\ c.available \in Int
        /\ c.state \in {"ready", "closed"} /\ c.outgoing \in Seq(Messages)
        /\ BrowserFields \subseteq DOMAIN c
    BY <2>1, <2>2 DEF Ids
  <2>6. c.forwarding \in BOOLEAN /\ ~c.forwarding
    BY <2>2
  <2>7. IsBrowser(c)
    BY <2>3, <2>4, <2>5, <2>6 DEF IsBrowser
  <2> QED BY <2>2, <2>7
<1> HIDE DEF c
<1>3. \A v \in Utterances : v # Nobody /\ NoFrame[1] # v
  BY NobodyIsNone DEF NoFrame
<1>4. ASSUME NEW v \in Utterances
      PROVE  /\ HoldsRecognizer(t, v) /\ StillSilent(t, v) /\ IsWhole(t, v)
             /\ HeardInOrder(t, v)
  <2>1. HoldsRecognizer(s, v) /\ StillSilent(s, v) /\ IsWhole(s, v)
    BY <1>0 DEF WorkInv
  <2>2. t.active # v /\ t.creating # v /\ t.header[1] # v
    BY <1>1, <1>3 DEF IsShutDown
  <2>3. HoldsRecognizer(t, v)
    BY <1>1, <2>1, <2>2 DEF IsShutDown, HoldsRecognizer
  <2>4. StillSilent(t, v)
    BY <1>1, <2>1, <2>2 DEF StillSilent, IsShutDown, Unborn, HoldsRecognizer
  <2>5. IsWhole(t, v)
    BY <1>1, <2>1, <2>2 DEF IsShutDown, IsWhole
  <2>6. HeardInOrder(t, v)
    BY <2>2 DEF HeardInOrder
  <2> QED BY <2>3, <2>4, <2>5, <2>6
<1>5. WorkInv(t, Utterances)
  BY <1>1, <1>4, NobodyIsNone DEF IsShutDown, WorkInv
<1>6. FenceInv(t, said)
  BY <1>0, <1>1 DEF IsShutDown, FenceInv, IsFenced
<1>7. ChannelInv(t, c, Utterances)
  BY <1>2 DEF ChannelInv
<1>8. CreditInv(t, c)
  BY <1>0, <1>1, <1>2 DEF IsShutDown, CreditInv, Ids
<1>9. SpeechInv(t, c, said, Utterances)
  BY <1>1, <1>2, <1>5, <1>6, <1>7, <1>8 DEF SpeechInv
<1>10. Sorted(t)
  BY <1>1 DEF IsShutDown, Sorted
<1> QED BY <1>9, <1>10 DEF t, c

-----------------------------------------------------------------------------
(* An answer to every end *)

\* What is ever queued of an utterance
Shapes(u) ==
  {<<Event("partial", u)>>,
   <<Event("final", u), Event("ended", u)>>,
   <<Event("ended", u), Event("cancelled", u)>>,
   <<Event("error", u), Event("ended", u), Event("cancelled", u)>>}

IsShaped(batch) ==
  IF batch.id = Nobody THEN Len(batch.events) = 1 /\ batch.events[1].kind # "ended"
                       ELSE batch.events \in Shapes(batch.id)

ShapeInv(s) ==
  /\ \A i \in 1 .. Len(s.outbound) : IsShaped(s.outbound[i]) /\ ~s.outbound[i].cut
  /\ s.current.id = Nobody => s.current.events = <<>>
  /\ s.current.id # Nobody => IsShaped(s.current)

\* What is between s and t breaks no word: what was sent is on its way, no end of
\* an utterance is added to it, and whoever would have been answered will be.
KeepsWord(s, t) ==
  /\ ShapeInv(t)
  /\ Len(s.outgoing) <= Len(t.outgoing)
  /\ \A i \in 1 .. Len(t.outgoing) :
       IF i <= Len(s.outgoing) THEN t.outgoing[i] = s.outgoing[i]
                               ELSE t.outgoing[i].kind # "ended"
  /\ \A u \in Utterances :
       /\ Event("cancelled", u) \in ToBeHeard(s) => Event("cancelled", u) \in ToBeHeard(t)
       /\ IsAnswered(s, u) => IsAnswered(t, u)

LEMMA KeptHas ==
  ASSUME NEW T, NEW queue \in Seq(T), NEW places \in SUBSET (1 .. Len(queue)), NEW i \in places
  PROVE  \E k \in 1 .. Len(Kept(queue, places)) : Kept(queue, places)[k] = queue[i]
<1> DEFINE n == Cardinality(places)
           at(k) == CHOOSE j \in places : Cardinality(Below(places, j)) = k - 1
           k == Cardinality(Below(places, i)) + 1
<1>0. Len(queue) \in Nat
  OBVIOUS
<1>1. /\ IsFiniteSet(places) /\ n \in Nat
      /\ \A j : IsFiniteSet(Below(places, j)) /\ Cardinality(Below(places, j)) \in Nat
  BY <1>0, PlacesAreFinite
<1>2. \A j \in places : j \in Int
  BY <1>0
<1>3. ASSUME NEW p \in places, NEW q \in places, p < q
      PROVE  Cardinality(Below(places, p)) < Cardinality(Below(places, q))
  <2>0. \A j \in places : j < p => j < q /\ j # p
    BY <1>2, <1>3
  <2>1. Below(places, p) \subseteq Below(places, q) \ {p} /\ p \in Below(places, q)
    BY <1>3, <2>0 DEF Below
  <2>2. /\ Cardinality(Below(places, p)) <= Cardinality(Below(places, q) \ {p})
        /\ Cardinality(Below(places, q) \ {p}) = Cardinality(Below(places, q)) - 1
    BY <1>1, <2>1, FS_Subset, FS_RemoveElement
  <2> QED BY <1>1, <2>2
<1>4. k \in 1 .. n
  <2>1. Below(places, i) \subseteq places \ {i}
    BY <1>2 DEF Below
  <2>2. /\ IsFiniteSet(places \ {i}) /\ Cardinality(places \ {i}) = n - 1
    BY <1>1, FS_RemoveElement
  <2>3. Cardinality(Below(places, i)) <= Cardinality(places \ {i})
    BY <2>1, <2>2, FS_Subset
  <2> QED BY <1>1, <2>2, <2>3
<1>5. at(k) \in places /\ Cardinality(Below(places, at(k))) = k - 1
  BY <1>1
<1>6. Kept(queue, places) = [l \in 1 .. n |-> queue[at(l)]]
  BY DEF Kept, Below
<1> HIDE DEF at
<1>7. at(k) = i
  <2>1. ASSUME NEW p \in places, NEW q \in places,
               Cardinality(Below(places, p)) = Cardinality(Below(places, q))
        PROVE  p = q
    BY <1>1, <1>2, <1>3, <2>1
  <2>2. Cardinality(Below(places, at(k))) = Cardinality(Below(places, i))
    BY <1>1, <1>5
  <2> QED BY <1>5, <2>1, <2>2
<1>8. Len(Kept(queue, places)) = n
  BY <1>1, <1>6
<1> QED BY <1>4, <1>6, <1>7, <1>8

LEMMA OtherFramesAreLeft ==
  ASSUME NEW u, NEW frames \in Seq(Frames), NEW i \in 1 .. Len(frames), frames[i][1] # u
  PROVE  \E k \in 1 .. Len(FramesWithout(frames, u)) : FramesWithout(frames, u)[k] = frames[i]
<1> DEFINE places == {j \in 1 .. Len(frames) : frames[j][1] # u}
<1>1. places \in SUBSET (1 .. Len(frames)) /\ i \in places
  OBVIOUS
<1>2. FramesWithout(frames, u) = Kept(frames, places)
  BY DEF FramesWithout
<1> HIDE DEF places
<1> QED BY <1>1, <1>2, KeptHas

LEMMA OtherBatchesAreLeft ==
  ASSUME NEW u, NEW outbound \in Seq(Batches), NEW i \in 1 .. Len(outbound), outbound[i].id # u
  PROVE  \E k \in 1 .. Len(Purged(outbound, u)) : Purged(outbound, u)[k] = outbound[i]
<1> DEFINE places == {j \in 1 .. Len(outbound) : outbound[j].id # u}
<1>1. places \in SUBSET (1 .. Len(outbound)) /\ i \in places
  OBVIOUS
<1>2. Purged(outbound, u) = Kept(outbound, places)
  BY DEF Purged
<1> HIDE DEF places
<1> QED BY <1>1, <1>2, KeptHas

\* Where an event may be on its way
Sent(s, e)   == \E i \in 1 .. Len(s.outgoing) : s.outgoing[i] = e
Said(batch, e) == \E i \in 1 .. Len(batch.events) : batch.events[i] = e
Queues(s, e) == \E j \in 1 .. Len(s.outbound) : Said(s.outbound[j], e)

\* What the service says is of its types, whatever it is in the middle of.
IsLine(s) ==
  /\ ServiceFields \subseteq DOMAIN s
  /\ s.outbound \in Seq(Batches) /\ s.outgoing \in Seq(Events)
  /\ s.current \in [id : Ids, events : Seq(Spoken), cut : BOOLEAN]
  /\ s.credited \in Ids /\ s.through \in Int /\ IsFiniteSet(s.reserved)

LEMMA ServiceIsLine ==
  ASSUME NEW s, IsService(s)
  PROVE  IsLine(s)
  BY DEF IsService, IsLine

LEMMA BatchIs ==
  ASSUME NEW s, IsLine(s)
  PROVE  /\ s.outbound \in Seq(Batches) /\ Len(s.outbound) \in Nat
         /\ s.outgoing \in Seq(Events) /\ Len(s.outgoing) \in Nat
         /\ s.current.events \in Seq(Spoken) /\ Len(s.current.events) \in Nat
         /\ \A j \in 1 .. Len(s.outbound) : /\ s.outbound[j] \in Batches
                                            /\ s.outbound[j].events \in Seq(Events)
                                            /\ Len(s.outbound[j].events) \in Nat \ {0}
<1>1. s.outbound \in Seq(Batches) /\ s.outgoing \in Seq(Events) /\ s.current.events \in Seq(Spoken)
  BY DEF IsLine
<1>2. \A b \in Batches : b.events \in Seq(Events) /\ b.events # <<>>
  <2>1. ASSUME NEW q \in Some(Spoken)
        PROVE  q \in Seq(Events)
    BY DEF Some, Events
  <2> QED BY <2>1 DEF Batches, Some
<1>3. \A j \in 1 .. Len(s.outbound) : s.outbound[j] \in Batches
  BY <1>1
<1> QED BY <1>1, <1>2, <1>3

LEMMA ComingIs ==
  ASSUME NEW s, IsLine(s), NEW e
  PROVE  e \in ToBeHeard(s) <=>
           \/ Sent(s, e)
           \/ ~s.current.cut /\ Said(s.current, e)
           \/ Queues(s, e)
<1>1. /\ DOMAIN s.outgoing = 1 .. Len(s.outgoing)
      /\ DOMAIN s.outbound = 1 .. Len(s.outbound)
      /\ DOMAIN s.current.events = 1 .. Len(s.current.events)
      /\ \A j \in 1 .. Len(s.outbound) :
           DOMAIN s.outbound[j].events = 1 .. Len(s.outbound[j].events)
  BY BatchIs
<1>2. e \in Range(s.outgoing) <=> Sent(s, e)
  BY <1>1 DEF Range, Sent
<1>3. e \in Range(s.current.events) <=> Said(s.current, e)
  BY <1>1 DEF Range, Said
<1>4. e \in UNION {Range(batch.events) : batch \in Range(s.outbound)} <=> Queues(s, e)
  <2>1. Range(s.outbound) = {s.outbound[j] : j \in 1 .. Len(s.outbound)}
    BY <1>1 DEF Range
  <2>2. \A j \in 1 .. Len(s.outbound) : e \in Range(s.outbound[j].events) <=> Said(s.outbound[j], e)
    BY <1>1 DEF Range, Said
  <2> QED BY <2>1, <2>2 DEF Queues
<1> QED BY <1>2, <1>3, <1>4 DEF ToBeHeard

\* The three kinds of an answer
LEMMA AnsweredIs ==
  ASSUME NEW s, NEW u
  PROVE  IsAnswered(s, u) <=> \/ Event("final", u) \in ToBeHeard(s)
                              \/ Event("cancelled", u) \in ToBeHeard(s)
                              \/ Event("error", u) \in ToBeHeard(s)
  BY DEF IsAnswered

LEMMA MoreIsComing ==
  ASSUME NEW s, NEW t, ShapeInv(t), t.outgoing = s.outgoing, IsLine(s),
         ToBeHeard(s) \subseteq ToBeHeard(t)
  PROVE  KeepsWord(s, t)
<1>1. Len(s.outgoing) \in Nat
  BY BatchIs
<1> QED BY <1>1, AnsweredIs DEF KeepsWord

LEMMA SameWord ==
  ASSUME NEW s, NEW t, IsLine(s), ShapeInv(s),
         t.outgoing = s.outgoing, t.outbound = s.outbound, t.current = s.current
  PROVE  KeepsWord(s, t) /\ ToBeHeard(t) = ToBeHeard(s)
  BY MoreIsComing DEF ShapeInv, ToBeHeard

LEMMA WordLasts ==
  ASSUME NEW r, NEW s, NEW t, IsLine(r), IsLine(s), IsLine(t),
         KeepsWord(r, s), KeepsWord(s, t)
  PROVE  KeepsWord(r, t)
<1>1. Len(r.outgoing) \in Nat /\ Len(s.outgoing) \in Nat /\ Len(t.outgoing) \in Nat
  BY BatchIs
<1>2. Len(r.outgoing) <= Len(s.outgoing) /\ Len(s.outgoing) <= Len(t.outgoing)
  BY DEF KeepsWord
<1>3. ASSUME NEW i \in 1 .. Len(t.outgoing)
      PROVE  IF i <= Len(r.outgoing) THEN t.outgoing[i] = r.outgoing[i]
                                     ELSE t.outgoing[i].kind # "ended"
  <2>1. CASE i <= Len(s.outgoing)
    BY <1>1, <2>1 DEF KeepsWord
  <2>2. CASE ~(i <= Len(s.outgoing))
    BY <1>1, <1>2, <2>2 DEF KeepsWord
  <2> QED BY <2>1, <2>2
<1> QED BY <1>1, <1>2, <1>3 DEF KeepsWord

LEMMA QueuedWord ==
  ASSUME NEW s, IsLine(s), ShapeInv(s), NEW u, NEW events,
         Batch(u, events) \in Batches, IsShaped(Batch(u, events))
  PROVE  /\ IsLine(Queued(s, u, events))
         /\ DiffersIn(Queued(s, u, events), s, {"outbound"})
         /\ KeepsWord(s, Queued(s, u, events))
         /\ ~s.closed => \A i \in 1 .. Len(events) : events[i] \in ToBeHeard(Queued(s, u, events))
<1> DEFINE t == Queued(s, u, events)
           n == Len(s.outbound)
<1>1. CASE s.closed
  BY <1>1, SameWord DEF Queued, DiffersIn
<1>2. CASE ~s.closed
  <2>1. t = [s EXCEPT !.outbound = Append(s.outbound, Batch(u, events))]
    BY <1>2 DEF Queued, Batch
  <2>2. s.outbound \in Seq(Batches) /\ n \in Nat
    BY BatchIs
  <2> HIDE DEF t
  <2>3. /\ DiffersIn(t, s, {"outbound"}) /\ t.outbound = Append(s.outbound, Batch(u, events))
        /\ t.outgoing = s.outgoing /\ t.current = s.current
    BY <2>1 DEF DiffersIn, ServiceFields, IsLine
  <2>4. IsLine(t)
    BY <2>2, <2>3 DEF IsLine, DiffersIn, ServiceFields
  <2>5. /\ Len(t.outbound) = n + 1 /\ t.outbound[n + 1] = Batch(u, events)
        /\ \A j \in 1 .. n : t.outbound[j] = s.outbound[j]
    BY <2>2, <2>3
  <2>6. ShapeInv(t)
    <3>1. ASSUME NEW j \in 1 .. n + 1
          PROVE  IsShaped(t.outbound[j]) /\ ~t.outbound[j].cut
      <4>1. CASE j = n + 1
        BY <2>5, <4>1 DEF Batch
      <4>2. CASE j # n + 1
        BY <2>2, <4>2, <2>5 DEF ShapeInv
      <4> QED BY <4>1, <4>2
    <3> QED BY <2>3, <2>5, <3>1 DEF ShapeInv
  <2>7. ToBeHeard(s) \subseteq ToBeHeard(t)
    <3>1. ASSUME NEW e, Queues(s, e)
          PROVE  Queues(t, e)
      BY <3>1, <2>2, <2>5 DEF Queues
    <3>2. ASSUME NEW e, Sent(s, e)
          PROVE  Sent(t, e)
      BY <2>3, <3>2 DEF Sent
    <3> QED BY <2>3, <2>4, <3>1, <3>2, ComingIs
  <2>8. ASSUME NEW i \in 1 .. Len(events)
        PROVE  events[i] \in ToBeHeard(t)
    <3>1. Said(t.outbound[n + 1], events[i]) /\ n + 1 \in 1 .. Len(t.outbound)
      BY <2>2, <2>5 DEF Said, Batch
    <3>2. Queues(t, events[i])
      BY <3>1 DEF Queues
    <3> QED BY <2>4, <3>2, ComingIs
  <2>9. KeepsWord(s, t)
    BY <2>3, <2>6, <2>7, MoreIsComing
  <2> QED BY <2>3, <2>4, <2>8, <2>9 DEF t
<1> QED BY <1>1, <1>2

LEMMA Joined ==
  ASSUME NEW T, NEW q \in Seq(T), NEW r \in Seq(T), NEW w, w = q \o r
  PROVE  /\ w \in Seq(T) /\ Len(w) = Len(q) + Len(r) /\ Len(q) \in Nat /\ Len(r) \in Nat
         /\ \A i \in 1 .. Len(q) : i \in 1 .. Len(w) /\ w[i] = q[i]
         /\ \A i \in 1 .. Len(r) : Len(q) + i \in 1 .. Len(w) /\ w[Len(q) + i] = r[i]
         /\ \A i \in 1 .. Len(w) : ~(i <= Len(q)) =>
              i - Len(q) \in 1 .. Len(r) /\ w[i] = r[i - Len(q)]
<1>1. w \in Seq(T) /\ Len(w) = Len(q) + Len(r) /\ Len(q) \in Nat /\ Len(r) \in Nat
  OBVIOUS
<1>2. \A i \in 1 .. Len(q) : i \in 1 .. Len(w) /\ w[i] = q[i]
  BY <1>1
<1>3. \A i \in 1 .. Len(w) : ~(i <= Len(q)) => i - Len(q) \in 1 .. Len(r) /\ w[i] = r[i - Len(q)]
  BY <1>1
<1>4. \A i \in 1 .. Len(r) : Len(q) + i \in 1 .. Len(w) /\ w[Len(q) + i] = r[i]
  BY <1>1, <1>3
<1> QED BY <1>1, <1>2, <1>3, <1>4

LEMMA PlainSentWord ==
  ASSUME NEW s, IsService(s), ShapeInv(s)
  PROVE  KeepsWord(s, PlainSent(s))
<1> DEFINE t == PlainSent(s)
           q == s.outbound
           n == Len(s.outgoing)
<1>1. PICK plain \in 0 .. Len(q) : Splits(s, t, plain)
  BY PlainSentSplits
<1>2. IsService(t)
  BY PlainSentIs, DiffersKeepsType
<1> HIDE DEF t
<1> DEFINE firsts == [i \in 1 .. plain |-> q[i].events[1]]
<1>3. /\ n \in Nat /\ Len(q) \in Nat /\ s.outgoing \in Seq(Events)
      /\ \A i \in 1 .. Len(q) : q[i].events[1] \in Events
  <2>1. ASSUME NEW i \in 1 .. Len(q)
        PROVE  q[i].events[1] \in Events
    <3>1. q[i].events \in Seq(Events) /\ Len(q[i].events) \in Nat \ {0}
      BY BatchIs, ServiceIsLine
    <3> QED BY <3>1
  <2> QED BY <2>1, BatchIs, ServiceIsLine
<1>4. /\ t.current = s.current /\ t.outgoing = s.outgoing \o firsts
      /\ \A i \in 1 .. plain : q[i].id = Nobody
      /\ Len(t.outbound) = Len(q) - plain
      /\ \A i \in 1 .. Len(t.outbound) :
           plain + i \in 1 .. Len(q) /\ t.outbound[i] = q[plain + i]
  BY <1>1 DEF Splits, DiffersIn, ServiceFields
<1>5. /\ Len(t.outgoing) = n + plain
      /\ \A i \in 1 .. n : t.outgoing[i] = s.outgoing[i]
      /\ \A i \in 1 .. plain : t.outgoing[n + i] = q[i].events[1]
  <2>1. firsts \in Seq(Events) /\ Len(firsts) = plain /\ plain \in Nat
    BY <1>1, <1>3
  <2>2. \A i \in 1 .. plain : firsts[i] = q[i].events[1]
    BY <1>1
  <2> HIDE DEF firsts
  <2>3. t.outgoing = s.outgoing \o firsts
    BY <1>4
  <2>4. /\ Len(t.outgoing) = n + Len(firsts)
        /\ \A i \in 1 .. n : t.outgoing[i] = s.outgoing[i]
        /\ \A i \in 1 .. Len(firsts) : t.outgoing[n + i] = firsts[i]
    <3>1. s.outgoing \in Seq(Events) /\ firsts \in Seq(Events)
      BY <1>3, <2>1
    <3> QED BY <2>3, <3>1, Joined
  <2> QED BY <2>1, <2>2, <2>4
<1> HIDE DEF firsts
<1>6. \A i \in 1 .. plain : Len(q[i].events) = 1 /\ q[i].events[1].kind # "ended"
  BY <1>1, <1>3, <1>4 DEF ShapeInv, IsShaped
<1>7. ShapeInv(t)
  BY <1>4 DEF ShapeInv
<1>8. ASSUME NEW i \in 1 .. Len(t.outgoing)
      PROVE  IF i <= n THEN t.outgoing[i] = s.outgoing[i] ELSE t.outgoing[i].kind # "ended"
  <2>1. CASE ~(i <= n)
    <3>1. i - n \in 1 .. plain /\ n + (i - n) = i
      BY <1>1, <1>3, <1>5, <2>1
    <3> QED BY <1>5, <1>6, <2>1, <3>1
  <2> QED BY <1>3, <1>5, <2>1
<1>9. ToBeHeard(s) \subseteq ToBeHeard(t)
  <2>1. ASSUME NEW e, Sent(s, e)
        PROVE  Sent(t, e)
    <3>1. PICK i \in 1 .. n : s.outgoing[i] = e
      BY <2>1 DEF Sent
    <3>2. i \in 1 .. Len(t.outgoing) /\ t.outgoing[i] = e
      BY <1>1, <1>3, <1>5, <3>1
    <3> QED BY <3>2 DEF Sent
  <2>2. ASSUME NEW e, Queues(s, e)
        PROVE  Sent(t, e) \/ Queues(t, e)
    <3>1. PICK j \in 1 .. Len(q) : Said(q[j], e)
      BY <2>2 DEF Queues
    <3>2. CASE j <= plain
      <4>1. j \in 1 .. plain /\ e = q[j].events[1]
        BY <1>1, <1>3, <1>6, <3>1, <3>2 DEF Said
      <4>2. n + j \in 1 .. Len(t.outgoing) /\ t.outgoing[n + j] = e
        BY <1>1, <1>3, <1>5, <4>1
      <4> QED BY <4>2 DEF Sent
    <3>3. CASE ~(j <= plain)
      <4>1. j - plain \in 1 .. Len(t.outbound) /\ plain + (j - plain) = j
        BY <1>1, <1>3, <1>4, <3>3
      <4>2. t.outbound[j - plain] = q[j]
        BY <1>4, <4>1
      <4> QED BY <3>1, <4>1, <4>2 DEF Queues
    <3> QED BY <3>2, <3>3
  <2> QED BY <1>2, <1>4, <2>1, <2>2, ComingIs, ServiceIsLine
<1>10. Len(s.outgoing) <= Len(t.outgoing)
  BY <1>1, <1>3, <1>5
<1>11. KeepsWord(s, t)
  BY <1>7, <1>8, <1>9, <1>10, AnsweredIs DEF KeepsWord
<1> QED BY <1>11 DEF t

LEMMA RefusedWord ==
  ASSUME NEW s, IsLine(s), ShapeInv(s), NEW e \in Spoken, e.kind # "ended"
  PROVE  /\ IsLine(Queued(s, Nobody, <<e>>))
         /\ DiffersIn(Queued(s, Nobody, <<e>>), s, {"outbound"})
         /\ KeepsWord(s, Queued(s, Nobody, <<e>>))
         /\ ~s.closed => e \in ToBeHeard(Queued(s, Nobody, <<e>>))
<1>1. /\ Batch(Nobody, <<e>>).id = Nobody /\ Batch(Nobody, <<e>>).events = <<e>>
      /\ Len(<<e>>) = 1 /\ <<e>>[1] = e /\ 1 \in 1 .. Len(<<e>>)
  BY DEF Batch
<1>2. Batch(Nobody, <<e>>) \in Batches
  BY DEF Some, Events, Batch, Batches
<1>3. IsShaped(Batch(Nobody, <<e>>))
  BY <1>1 DEF IsShaped
<1> QED BY <1>1, <1>2, <1>3, QueuedWord

LEMMA FlowWord ==
  ASSUME NEW s, IsLine(s), ShapeInv(s)
  PROVE  /\ IsLine(FlowSent(s))
         /\ DiffersIn(FlowSent(s), s, {"outbound"})
         /\ KeepsWord(s, FlowSent(s))
<1> DEFINE e == Flow(s)
<1>1. e \in FlowEvents /\ e.kind = "flow"
  BY ServiceAssumption, FS_CardinalityType DEF IsLine, Flow, FlowEvents
<1>2. FlowSent(s) = Queued(s, Nobody, <<e>>)
  BY DEF FlowSent, Flow
<1> HIDE DEF e
<1>3. /\ Batch(Nobody, <<e>>).id = Nobody /\ Batch(Nobody, <<e>>).events = <<e>>
      /\ Len(<<e>>) = 1 /\ <<e>>[1] = e
  BY DEF Batch
<1>4. Batch(Nobody, <<e>>) \in Batches
  BY <1>1 DEF Some, Events, Batch, Batches
<1>5. IsShaped(Batch(Nobody, <<e>>))
  BY <1>1, <1>3 DEF IsShaped
<1> QED BY <1>2, <1>4, <1>5, QueuedWord

\* What is queued of an utterance is about it.
LEMMA ShapesAre ==
  ASSUME NEW u \in Utterances, NEW events \in Shapes(u)
  PROVE  /\ Batch(u, events) \in Batches /\ IsShaped(Batch(u, events))
         /\ \A i \in 1 .. Len(events) : events[i].id = u
<1>1. /\ \A i \in 1 .. Len(events) : events[i] \in Spoken /\ events[i].id = u
      /\ events # <<>> /\ events \in Seq(Spoken)
  <2>1. /\ Event("partial", u) \in Spoken /\ Event("final", u) \in Spoken
        /\ Event("ended", u) \in Spoken /\ Event("cancelled", u) \in Spoken
        /\ Event("error", u) \in Spoken /\ \A kind : Event(kind, u).id = u
    BY SpokenKinds DEF Event
  <2> HIDE DEF Event
  <2>2. CASE events = <<Event("partial", u)>>
    BY <2>1, <2>2
  <2>3. CASE events = <<Event("final", u), Event("ended", u)>>
    BY <2>1, <2>3
  <2>4. CASE events = <<Event("ended", u), Event("cancelled", u)>>
    BY <2>1, <2>4
  <2>5. CASE events = <<Event("error", u), Event("ended", u), Event("cancelled", u)>>
    BY <2>1, <2>5
  <2> QED BY <2>2, <2>3, <2>4, <2>5 DEF Shapes
<1>2. Batch(u, events) \in Batches
  BY <1>1 DEF Batch, Batches, Some
<1>3. IsShaped(Batch(u, events))
  BY NobodyIsNone DEF Batch, IsShaped
<1> QED BY <1>1, <1>2, <1>3

\* Purging and cutting an utterance off leaves what is said of others.
LEMMA SilencedWord ==
  ASSUME NEW s, IsLine(s), ShapeInv(s), NEW u \in Utterances, NEW t, IsLine(t),
         t.outgoing = s.outgoing, t.outbound = Purged(s.outbound, u),
         t.current.id = s.current.id, t.current.events = s.current.events,
         t.current.cut # s.current.cut => s.current.id = u
  PROVE  /\ ShapeInv(t)
         /\ \A e \in ToBeHeard(s) : e.id # u => e \in ToBeHeard(t)
<1>1. /\ s.outbound \in Seq(Batches)
      /\ \A k \in 1 .. Len(t.outbound) : \E i \in 1 .. Len(s.outbound) : t.outbound[k] = s.outbound[i]
  <2>1. s.outbound \in Seq(Batches)
    BY BatchIs
  <2>2. IsPartOf(Purged(s.outbound, u), s.outbound)
    BY <2>1, PurgedIs
  <2> QED BY <2>1, <2>2 DEF IsPartOf
<1>2. ShapeInv(t)
  BY <1>1 DEF ShapeInv, IsShaped
<1>3. ASSUME NEW e, e.id # u, Queues(s, e)
      PROVE  Queues(t, e)
  <2>1. PICK j \in 1 .. Len(s.outbound) : Said(s.outbound[j], e)
    BY <1>3 DEF Queues
  <2>2. s.outbound[j].id # u
    BY <1>3, <2>1, NobodyIsNone, ShapesAre DEF ShapeInv, IsShaped, Said
  <2>3. \E k \in 1 .. Len(t.outbound) : t.outbound[k] = s.outbound[j]
    BY <1>1, <2>1, <2>2, OtherBatchesAreLeft
  <2> QED BY <2>1, <2>3 DEF Queues
<1>4. ASSUME NEW e, e.id # u, ~s.current.cut, Said(s.current, e)
      PROVE  ~t.current.cut /\ Said(t.current, e)
  <2>1. s.current.id # u
    BY <1>4, NobodyIsNone, ShapesAre DEF ShapeInv, IsShaped, Said
  <2>2. t.current.cut = s.current.cut
    BY <2>1
  <2> QED BY <1>4, <2>2 DEF Said
<1>5. \A e : Sent(s, e) => Sent(t, e)
  BY DEF Sent
<1> QED BY <1>2, <1>3, <1>4, <1>5, ComingIs

LEMMA PrefixedPair == \A x, y, z : <<x>> \o <<y, z>> = <<x, y, z>>
<1> SUFFICES ASSUME NEW x, NEW y, NEW z
             PROVE  <<x>> \o <<y, z>> = <<x, y, z>>
  OBVIOUS
<1> DEFINE T == {x, y, z}
           q == <<x>>
           r == <<y, z>>
           w == q \o r
<1>1. /\ q \in Seq(T) /\ Len(q) = 1 /\ q[1] = x
      /\ r \in Seq(T) /\ Len(r) = 2 /\ r[1] = y /\ r[2] = z
      /\ <<x, y, z>> \in Seq(T) /\ Len(<<x, y, z>>) = 3
  OBVIOUS
<1> HIDE DEF q, r, T
<1>2. /\ w \in Seq(T) /\ Len(w) = 3
      /\ w[1] = q[1] /\ w[2] = r[1] /\ w[3] = r[2]
  <2>0. w = q \o r
    OBVIOUS
  <2> HIDE DEF w
  <2>1. /\ w \in Seq(T) /\ Len(w) = Len(q) + Len(r)
        /\ \A i \in 1 .. Len(q) : w[i] = q[i]
        /\ \A i \in 1 .. Len(r) : w[Len(q) + i] = r[i]
    <3>1. q \in Seq(T) /\ r \in Seq(T)
      BY <1>1
    <3> QED BY <2>0, <3>1, Joined
  <2> QED BY <1>1, <2>1
<1> HIDE DEF w
<1>3. \A i \in 1 .. 3 : w[i] = <<x, y, z>>[i]
  BY <1>1, <1>2
<1>4. w = <<x, y, z>>
  BY <1>1, <1>2, <1>3, SeqEqual
<1> QED BY <1>4 DEF w, q, r

LEMMA CancelActiveWord ==
  ASSUME NEW s, IsLine(s), ShapeInv(s), ~s.closed, NEW u \in Utterances, NEW task,
         NEW errors \in {<<>>, <<Event("error", u)>>}
  PROVE  /\ KeepsWord(s, CancelActive(s, u, task, errors))
         /\ Event("cancelled", u) \in ToBeHeard(CancelActive(s, u, task, errors))
         /\ CancelActive(s, u, task, errors).active = Nobody
<1> DEFINE fenced == s.current.id = u
           e == [s EXCEPT !.active = Nobody,
                          !.utterance[u].status = "cancelled",
                          !.terminal[u] = "cancelled",
                          !.header = IF @[1] = u THEN NoFrame ELSE @,
                          !.outbound = Purged(@, u),
                          !.current.cut = @ \/ fenced,
                          !.fence[u] = IF fenced THEN task ELSE "none"]
           events == errors \o <<Event("ended", u), Event("cancelled", u)>>
           q == Queued(e, u, events)
           p == [q EXCEPT !.frames   = FramesWithout(@, u),
                          !.reserved = {f \in @ : f[1] # u},
                          !.fence[u] = "none"]
           d == Disposed(p, u)
           t == CancelActive(s, u, task, errors)
<1>1. t = IF fenced THEN q ELSE FlowSent(d)
  BY DEF CancelActive, EndCancel
<1>2. IsLine(s)
  OBVIOUS
<1>3. /\ DOMAIN e = DOMAIN s /\ e.closed = s.closed /\ e.active = Nobody
      /\ e.outbound = Purged(s.outbound, u) /\ e.outgoing = s.outgoing
      /\ e.current = [s.current EXCEPT !.cut = s.current.cut \/ fenced]
      /\ e.credited = s.credited /\ e.through = s.through /\ e.reserved = s.reserved
  BY <1>2 DEF IsLine, ServiceFields
<1>4. events \in Shapes(u) /\ \E i \in 1 .. Len(events) : events[i] = Event("cancelled", u)
  <2>1. CASE errors = <<>>
    BY <2>1 DEF Shapes
  <2>2. CASE errors = <<Event("error", u)>>
    BY <2>2, PrefixedPair DEF Shapes
  <2> QED BY <2>1, <2>2
<1> HIDE DEF e, events
<1>5. /\ IsLine(e)
      /\ e.current.id = s.current.id /\ e.current.events = s.current.events
      /\ e.current.cut # s.current.cut => s.current.id = u
  <2>1. Purged(s.outbound, u) \in Seq(Batches)
    BY <1>2, PurgedIs DEF IsLine
  <2>2. s.current \in [id : Ids, events : Seq(Spoken), cut : BOOLEAN]
    BY <1>2 DEF IsLine
  <2>3. /\ e.current \in [id : Ids, events : Seq(Spoken), cut : BOOLEAN]
        /\ e.current.id = s.current.id /\ e.current.events = s.current.events
        /\ e.current.cut = (s.current.cut \/ fenced)
    BY <1>3, <2>2
  <2>4. s.current.cut \in BOOLEAN
    BY <2>2
  <2> QED BY <1>2, <1>3, <2>1, <2>3, <2>4 DEF IsLine
<1>6. ShapeInv(e) /\ \A v \in ToBeHeard(s) : v.id # u => v \in ToBeHeard(e)
  BY <1>2, <1>3, <1>5, SilencedWord
<1>7. /\ IsLine(q) /\ DiffersIn(q, e, {"outbound"}) /\ KeepsWord(e, q)
      /\ Event("cancelled", u) \in ToBeHeard(q)
  BY <1>3, <1>4, <1>5, <1>6, ShapesAre, QueuedWord
<1> HIDE DEF q
<1>8. KeepsWord(s, q)
  <2>1. /\ q.outgoing = s.outgoing /\ ShapeInv(q)
    BY <1>3, <1>7 DEF DiffersIn, ServiceFields, KeepsWord
  <2>2. ASSUME NEW v \in Utterances
        PROVE  /\ Event("cancelled", v) \in ToBeHeard(s) => Event("cancelled", v) \in ToBeHeard(q)
               /\ IsAnswered(s, v) => IsAnswered(q, v)
    <3>1. CASE v = u
      BY <1>7, <3>1, AnsweredIs
    <3>2. CASE v # u
      BY <1>6, <3>2, <1>7, AnsweredIs DEF Event, KeepsWord
    <3> QED BY <3>1, <3>2
  <2>3. Len(s.outgoing) \in Nat
    BY <1>2, BatchIs
  <2> QED BY <2>1, <2>2, <2>3 DEF KeepsWord
<1>9. q.active = Nobody
  BY <1>3, <1>7 DEF DiffersIn, ServiceFields
<1>10. CASE fenced
  BY <1>1, <1>7, <1>8, <1>9, <1>10
<1>11. CASE ~fenced
  <2>1. /\ DiffersIn(p, q, {"frames", "reserved", "fence"})
        /\ p.reserved = {f \in q.reserved : f[1] # u}
    BY <1>7 DEF IsLine, DiffersIn, ServiceFields
  <2> HIDE DEF p
  <2>2. DiffersIn(d, q, {"frames", "reserved", "fence", "session"}) /\ d.reserved = p.reserved
    BY <1>7, <2>1 DEF IsLine, DiffersIn, Disposed, ServiceFields
  <2> HIDE DEF d
  <2>3. /\ IsLine(d) /\ d.outgoing = q.outgoing /\ d.outbound = q.outbound
        /\ d.current = q.current /\ d.active = Nobody
    <3>1. IsFiniteSet(d.reserved)
      BY <2>1, <2>2, <1>7, FS_Subset DEF IsLine
    <3> QED BY <1>7, <1>9, <2>2, <3>1 DEF IsLine, DiffersIn, ServiceFields
  <2>4. KeepsWord(q, d) /\ ShapeInv(d)
    BY <1>7, <2>3, SameWord DEF KeepsWord
  <2>5. IsLine(FlowSent(d)) /\ KeepsWord(d, FlowSent(d)) /\ DiffersIn(FlowSent(d), d, {"outbound"})
    BY <2>3, <2>4, FlowWord
  <2>6. KeepsWord(q, FlowSent(d))
    BY <1>7, <2>3, <2>4, <2>5, WordLasts
  <2>7. KeepsWord(s, FlowSent(d))
    BY <1>2, <1>7, <1>8, <2>5, <2>6, WordLasts
  <2>8. FlowSent(d).active = Nobody
    BY <2>3, <2>5 DEF DiffersIn, ServiceFields
  <2>9. Event("cancelled", u) \in ToBeHeard(FlowSent(d))
    BY <1>7, <2>6 DEF KeepsWord
  <2> QED BY <1>1, <1>11, <2>7, <2>8, <2>9
<1> QED BY <1>10, <1>11

-----------------------------------------------------------------------------
(* What is left to do for the active utterance *)

Awaits(s, u, n) == s.worker = <<u, n>> \/ \E i \in 1 .. Len(s.frames) : s.frames[i] = <<u, n>>

WorkLeft(s) ==
  LET utterance == s.utterance[s.active]
  IN
  s.active # Nobody =>
    /\ utterance.finalizer \in {"none", "running"}
    /\ utterance.status = "finalizing" /\ utterance.finalizer = "none" =>
         utterance.pending > 0 \/ s.header[1] = s.active
    /\ \A n \in utterance.heard .. utterance.next - 1 : Awaits(s, s.active, n)

\* The end of u has been taken up.
Pursued(s, u) == s.active = u /\ s.utterance[u].status = "finalizing" /\ s.header[1] # u

SameWork(s, t) ==
  /\ t.active = s.active
  /\ s.active # Nobody =>
       /\ t.utterance[s.active] = s.utterance[s.active]
       /\ t.header[1] = s.active <=> s.header[1] = s.active
       /\ \A n : Awaits(s, s.active, n) => Awaits(t, s.active, n)

\* Whatever else the handler does from s to t, whoever waits is not forgotten.
Progresses(s, t) ==
  /\ KeepsWord(s, t)
  /\ WorkLeft(t)
  /\ \A u \in Utterances : Pursued(s, u) => Pursued(t, u) \/ IsAnswered(t, u)

InHand(s) == IsService(s) /\ WorkInv(s, Utterances) /\ ~s.closed /\ ShapeInv(s) /\ WorkLeft(s)

Aside == {"creating", "session", "leases", "lane", "overrun", "fence", "terminal"}

LEMMA ActiveIs ==
  ASSUME NEW s, InHand(s), s.active # Nobody
  PROVE  /\ s.active \in Utterances
         /\ s.utterance[s.active].status \in {"listening", "finalizing"}
         /\ s.utterance[s.active] \in UtteranceRecords
         /\ s.fence[s.active] = "none"
         /\ HeardInOrder(s, s.active)
  BY DEF InHand, IsService, Ids, WorkInv, HoldsRecognizer

LEMMA SameWorkIs ==
  ASSUME NEW s, NEW t, WorkLeft(s), SameWork(s, t)
  PROVE  WorkLeft(t) /\ \A u \in Utterances : Pursued(s, u) => Pursued(t, u)
  BY NobodyIsNone DEF SameWork, WorkLeft, Pursued

LEMMA Working ==
  ASSUME NEW s, NEW t, WorkLeft(s), KeepsWord(s, t), SameWork(s, t)
  PROVE  Progresses(s, t)
  BY SameWorkIs DEF Progresses

\* A change of what is neither said nor worked on
LEMMA AsideProgresses ==
  ASSUME NEW s, NEW t, InHand(s), DiffersIn(t, s, Aside)
  PROVE  /\ IsLine(t) /\ ~t.closed /\ Progresses(s, t)
<1>1. IsLine(s) /\ ShapeInv(s) /\ ~s.closed
  BY ServiceIsLine DEF InHand
<1>2. /\ t.outgoing = s.outgoing /\ t.outbound = s.outbound /\ t.current = s.current
      /\ t.closed = s.closed /\ IsLine(t)
  BY <1>1 DEF DiffersIn, Aside, ServiceFields, IsLine
<1>3. SameWork(s, t)
  BY DEF DiffersIn, Aside, ServiceFields, SameWork, Awaits
<1> QED BY <1>1, <1>2, <1>3, SameWord, Working DEF InHand

LEMMA QueuedIsSameWork ==
  ASSUME NEW s, NEW t, DiffersIn(t, s, {"outbound"})
  PROVE  SameWork(s, t) /\ t.closed = s.closed
  BY DEF DiffersIn, ServiceFields, SameWork, Awaits

\* What is progress stays so when something is said or sent after it.
LEMMA ProgressLasts ==
  ASSUME NEW r, NEW s, NEW t, IsLine(r), IsLine(s), IsLine(t),
         Progresses(r, s), KeepsWord(s, t), SameWork(s, t)
  PROVE  Progresses(r, t)
  BY WordLasts, SameWorkIs DEF Progresses, KeepsWord

LEMMA ThenQueued ==
  ASSUME NEW r, NEW s, IsLine(r), IsLine(s), Progresses(r, s), NEW e \in Spoken, e.kind # "ended"
  PROVE  /\ IsLine(Queued(s, Nobody, <<e>>))
         /\ Progresses(r, Queued(s, Nobody, <<e>>))
         /\ ~s.closed => e \in ToBeHeard(Queued(s, Nobody, <<e>>))
<1>1. ShapeInv(s)
  BY DEF Progresses, KeepsWord
<1> QED BY <1>1, RefusedWord, QueuedIsSameWork, ProgressLasts

LEMMA ThenRefused ==
  ASSUME NEW r, NEW s, IsLine(r), IsLine(s), Progresses(r, s), NEW u \in Ids
  PROVE  /\ IsLine(Refused(s, u))
         /\ Progresses(r, Refused(s, u))
         /\ ~s.closed => Event("error", u) \in ToBeHeard(Refused(s, u))
  BY SpokenKinds, ThenQueued DEF Event, Refused

LEMMA ThenFlow ==
  ASSUME NEW r, NEW s, IsLine(r), IsLine(s), Progresses(r, s)
  PROVE  IsLine(FlowSent(s)) /\ Progresses(r, FlowSent(s))
<1>1. ShapeInv(s)
  BY DEF Progresses, KeepsWord
<1> QED BY <1>1, FlowWord, QueuedIsSameWork, ProgressLasts

\* Nothing is left to do for the active utterance once it is cancelled.
LEMMA CancelProgresses ==
  ASSUME NEW r, NEW s, IsLine(r), IsLine(s), KeepsWord(r, s), ~s.closed, NEW u \in Utterances,
         r.active = u, NEW task, NEW errors \in {<<>>, <<Event("error", u)>>},
         IsLine(CancelActive(s, u, task, errors))
  PROVE  Progresses(r, CancelActive(s, u, task, errors))
<1> DEFINE t == CancelActive(s, u, task, errors)
<1>1. ShapeInv(s)
  BY DEF KeepsWord
<1>2. KeepsWord(s, t) /\ Event("cancelled", u) \in ToBeHeard(t) /\ t.active = Nobody
  BY <1>1, CancelActiveWord
<1>3. IsLine(t)
  OBVIOUS
<1> HIDE DEF t
<1>4. KeepsWord(r, t)
  BY <1>2, <1>3, WordLasts
<1>5. WorkLeft(t)
  BY <1>2 DEF WorkLeft
<1>6. \A v \in Utterances : Pursued(r, v) => IsAnswered(t, v)
  BY <1>2, AnsweredIs DEF Pursued
<1>7. Progresses(r, t)
  BY <1>4, <1>5, <1>6 DEF Progresses
<1> QED BY <1>7 DEF t

LEMMA FailedProgresses ==
  ASSUME NEW r, NEW s, IsLine(r), IsLine(s), KeepsWord(r, s), ~s.closed, NEW u \in Utterances,
         r.active = u, NEW task, IsLine(Failed(s, u, task))
  PROVE  Progresses(r, Failed(s, u, task))
  BY CancelProgresses DEF Failed

\* A handler that says nothing, but goes on with the work
LEMMA WorkProgresses ==
  ASSUME NEW s, NEW t, InHand(s), IsLine(t), WorkLeft(t),
         t.outgoing = s.outgoing, t.outbound = s.outbound, t.current = s.current,
         \A u \in Utterances : Pursued(s, u) => Pursued(t, u)
  PROVE  Progresses(s, t)
  BY ServiceIsLine, SameWord DEF InHand, Progresses

LEMMA CancelledProgresses ==
  ASSUME NEW s, InHand(s), NEW u \in Utterances, IsLine(Cancelled(s, u))
  PROVE  Progresses(s, Cancelled(s, u))
<1>1. IsLine(s) /\ ~s.closed /\ Progresses(s, s) /\ KeepsWord(s, s)
  BY AsideProgresses DEF DiffersIn, Progresses
<1>2. CASE s.active = u
  BY <1>1, <1>2, CancelProgresses DEF Cancelled
<1>3. CASE s.active # u
  BY <1>1, <1>3, SpokenKinds, ThenRefused, ThenQueued DEF Event, Cancelled
<1> QED BY <1>2, <1>3

LEMMA CreationProgresses ==
  ASSUME NEW s, InHand(s), NEW u \in Utterances
  PROVE  /\ Progresses(s, StartRequested(s, u))
         /\ Progresses(s, CreationFailed(s, u))
         /\ Progresses(s, CreationAbandoned(s, u))
         /\ Progresses(s, AbandonedCreated(s, u))
         /\ Progresses(s, Released(s, u))
<1>0. ServiceFields \subseteq DOMAIN s /\ IsLine(s) /\ u \in Ids
  BY ServiceIsLine DEF InHand, IsService, Ids
<1>1. Progresses(s, s)
  BY AsideProgresses DEF DiffersIn
<1>2. Progresses(s, StartRequested(s, u))
  <2> DEFINE p == [s EXCEPT !.creating = u, !.leases = @ \cup {u}, !.session[u] = "creating"]
  <2>1. DiffersIn(p, s, Aside)
    BY <1>0 DEF DiffersIn, Aside, ServiceFields
  <2>2. Progresses(s, p)
    BY <2>1, AsideProgresses
  <2> QED BY <1>0, <1>1, <2>2, ThenRefused DEF StartRequested
<1>3. Progresses(s, CreationFailed(s, u))
  <2> DEFINE p == [s EXCEPT !.creating = Nobody, !.session[u] = "released", !.leases = @ \ {u}]
  <2>1. DiffersIn(p, s, Aside)
    BY <1>0 DEF DiffersIn, Aside, ServiceFields
  <2> HIDE DEF p
  <2>2. Progresses(s, Refused(p, u))
    BY <1>0, <2>1, AsideProgresses, ThenRefused
  <2> QED BY <2>2 DEF CreationFailed, p
<1>4. Progresses(s, CreationAbandoned(s, u))
  <2> DEFINE p == [s EXCEPT !.creating = Nobody, !.session[u] = "abandoned"]
  <2>1. DiffersIn(p, s, Aside)
    BY <1>0 DEF DiffersIn, Aside, ServiceFields
  <2> HIDE DEF p
  <2>2. Progresses(s, Refused(p, u))
    BY <1>0, <2>1, AsideProgresses, ThenRefused
  <2> QED BY <2>2 DEF CreationAbandoned, p
<1>5. Progresses(s, AbandonedCreated(s, u))
  BY <1>0, AsideProgresses DEF AbandonedCreated, DiffersIn, Aside, ServiceFields
<1>6. Progresses(s, Released(s, u))
  BY <1>0, AsideProgresses DEF Released, DiffersIn, Aside, ServiceFields
<1> QED BY <1>2, <1>3, <1>4, <1>5, <1>6

LEMMA AdoptedProgresses ==
  ASSUME NEW s, InHand(s), NEW u \in Utterances, s.creating = u, IsLine(Adopted(s, u))
  PROVE  Progresses(s, Adopted(s, u))
<1> DEFINE t == Adopted(s, u)
<1>1. s.active = Nobody /\ s.utterance[u] = Fresh
  BY DEF InHand, WorkInv, HoldsRecognizer, StillSilent, Unborn
<1>2. ServiceFields \subseteq DOMAIN s /\ s.utterance \in [Utterances -> UtteranceRecords]
  BY DEF InHand, IsService
<1>3. /\ t.outgoing = s.outgoing /\ t.outbound = s.outbound /\ t.current = s.current
      /\ t.active = u /\ t.utterance = [s.utterance EXCEPT ![u].status = "listening"]
  BY <1>2 DEF Adopted, ServiceFields
<1>4. IsLine(t)
  OBVIOUS
<1> HIDE DEF t
<1>5. /\ t.utterance[u].status = "listening" /\ t.utterance[u].finalizer = "none"
      /\ t.utterance[u].heard = 0 /\ t.utterance[u].next = 0
  BY <1>1, <1>2, <1>3 DEF Fresh
<1>6. WorkLeft(t)
  BY <1>3, <1>5 DEF WorkLeft
<1>7. \A v \in Utterances : ~Pursued(s, v)
  BY <1>1, NobodyIsNone DEF Pursued
<1>8. Progresses(s, t)
  BY <1>3, <1>4, <1>6, <1>7, WorkProgresses
<1> QED BY <1>8 DEF t

LEMMA ResumeProgresses ==
  ASSUME NEW s, InHand(s), NEW u \in Utterances, s.fence[u] # "none"
  PROVE  Progresses(s, EndCancel(s, u))
<1> DEFINE p == [s EXCEPT !.frames   = FramesWithout(@, u),
                          !.reserved = {f \in @ : f[1] # u},
                          !.fence[u] = "none"]
           d == Disposed(p, u)
<1>1. IsLine(s) /\ s.frames \in Seq(Frames) /\ s.active # u
  BY ServiceIsLine DEF InHand, WorkInv, IsService, HoldsRecognizer
<1>2. EndCancel(s, u) = FlowSent(d)
  BY DEF EndCancel
<1>3. /\ DiffersIn(p, s, {"frames", "reserved", "fence"})
      /\ p.frames = FramesWithout(s.frames, u) /\ p.reserved = {f \in s.reserved : f[1] # u}
  BY <1>1 DEF IsLine, DiffersIn, ServiceFields
<1> HIDE DEF p
<1>4. /\ DiffersIn(d, s, {"frames", "reserved", "fence", "session"})
      /\ d.frames = p.frames /\ d.reserved = p.reserved
  BY <1>1, <1>3 DEF IsLine, DiffersIn, Disposed, ServiceFields
<1> HIDE DEF d
<1>5. /\ IsLine(d) /\ d.outgoing = s.outgoing /\ d.outbound = s.outbound /\ d.current = s.current
  BY <1>3, <1>4, <1>1, FS_Subset DEF IsLine, DiffersIn, ServiceFields
<1>6. SameWork(s, d)
  <2>1. /\ d.active = s.active /\ d.utterance = s.utterance /\ d.header = s.header
        /\ d.worker = s.worker
    BY <1>4 DEF DiffersIn, ServiceFields
  <2>2. ASSUME NEW n, Awaits(s, s.active, n)
        PROVE  Awaits(d, s.active, n)
    <3>1. CASE s.worker = <<s.active, n>>
      BY <2>1, <3>1 DEF Awaits
    <3>2. CASE s.worker # <<s.active, n>>
      BY <2>2, <3>2, <1>1, <1>3, <1>4, OtherFramesAreLeft DEF Awaits
    <3> QED BY <3>1, <3>2
  <2> QED BY <2>1, <2>2 DEF SameWork
<1>7. Progresses(s, d)
  BY <1>1, <1>5, <1>6, SameWord, Working DEF InHand
<1> QED BY <1>1, <1>2, <1>5, <1>7, ThenFlow

LEMMA HeaderProgresses ==
  ASSUME NEW s, InHand(s), NEW u \in Utterances, NEW n, IsLine(HeaderAccepted(s, u, n))
  PROVE  Progresses(s, HeaderAccepted(s, u, n))
<1>1. IsLine(s) /\ ~s.closed /\ Progresses(s, s) /\ KeepsWord(s, s) /\ u \in Ids
  BY AsideProgresses DEF DiffersIn, Progresses, Ids
<1>2. CASE ~Listening(s, u)
  BY <1>1, <1>2, ThenRefused DEF HeaderAccepted
<1>3. CASE Listening(s, u) /\ n # s.utterance[u].next
  BY <1>1, <1>3, FailedProgresses DEF HeaderAccepted, Listening
<1>4. CASE Listening(s, u) /\ n = s.utterance[u].next
  <2> DEFINE t == [s EXCEPT !.header = <<u, n>>]
  <2>1. HeaderAccepted(s, u, n) = t /\ s.active = u /\ s.utterance[u].status = "listening"
    BY <1>4 DEF HeaderAccepted, Listening
  <2>2. /\ t.outgoing = s.outgoing /\ t.outbound = s.outbound /\ t.current = s.current
        /\ t.active = u /\ t.utterance = s.utterance /\ t.worker = s.worker /\ t.frames = s.frames
    BY <1>1, <2>1 DEF IsLine, ServiceFields
  <2>3. IsLine(t)
    BY <2>1
  <2> HIDE DEF t
  <2>4. WorkLeft(t)
    <3>1. \A k : Awaits(s, u, k) => Awaits(t, u, k)
      BY <2>2 DEF Awaits
    <3>2. WorkLeft(s)
      BY DEF InHand
    <3> QED BY <2>1, <2>2, <3>1, <3>2 DEF WorkLeft
  <2>5. \A v \in Utterances : ~Pursued(s, v)
    BY <2>1 DEF Pursued
  <2> QED BY <2>1, <2>2, <2>3, <2>4, <2>5, WorkProgresses
<1> QED BY <1>2, <1>3, <1>4

LEMMA FrameAcceptedProgresses ==
  ASSUME NEW r, NEW s, IsLine(r), IsLine(s), KeepsWord(r, s), NEW u \in Utterances, NEW n \in Nat,
         r.active = u, r.header[1] = u,
         s.active = u, s.utterance \in [Utterances -> UtteranceRecords], s.frames \in Seq(Frames),
         s.utterance[u].next = n, s.utterance[u].finalizer = "none", s.utterance[u].pending \in Nat,
         \A k \in s.utterance[u].heard .. n - 1 : Awaits(s, u, k)
  PROVE  Progresses(r, FrameAccepted(s, u, n))
<1> DEFINE p == [s EXCEPT !.reserved = @ \cup {<<u, n>>},
                          !.frames = Append(@, <<u, n>>),
                          !.utterance[u].next = @ + 1,
                          !.utterance[u].pending = @ + 1,
                          !.through = n]
<1>1. FrameAccepted(s, u, n) = FlowSent(p)
  BY DEF FrameAccepted
<1>2. /\ DiffersIn(p, s, {"reserved", "frames", "utterance", "through"})
      /\ p.reserved = s.reserved \cup {<<u, n>>} /\ p.frames = Append(s.frames, <<u, n>>)
      /\ p.utterance = [s.utterance EXCEPT ![u].next = @ + 1, ![u].pending = @ + 1]
      /\ p.through = n
  BY DEF IsLine, DiffersIn, ServiceFields
<1> HIDE DEF p
<1>3. /\ IsLine(p) /\ p.outgoing = s.outgoing /\ p.outbound = s.outbound /\ p.current = s.current
      /\ p.active = u /\ p.worker = s.worker
  <2>1. IsFiniteSet(p.reserved)
    <3>1. IsFiniteSet(s.reserved)
      BY DEF IsLine
    <3>2. IsFiniteSet(s.reserved \cup {<<u, n>>})
      BY <3>1, FS_AddElement
    <3> QED BY <1>2, <3>2
  <2>2. /\ DiffersIn(p, s, {"reserved", "frames", "utterance", "through"}) /\ p.through \in Int
    BY <1>2
  <2> QED BY <2>1, <2>2 DEF IsLine, DiffersIn, ServiceFields
<1>4. /\ p.utterance[u].next = n + 1 /\ p.utterance[u].pending = s.utterance[u].pending + 1
      /\ p.utterance[u].finalizer = "none" /\ p.utterance[u].heard = s.utterance[u].heard
      /\ s.utterance[u].heard \in Nat
  BY <1>2 DEF UtteranceRecords
<1>5. ASSUME NEW k \in p.utterance[u].heard .. n
      PROVE  Awaits(p, u, k)
  <2>1. <<u, n>> \in Frames /\ Len(s.frames) \in Nat
    BY DEF Frames
  <2>2. /\ Len(p.frames) = Len(s.frames) + 1 /\ p.frames[Len(s.frames) + 1] = <<u, n>>
        /\ \A i \in 1 .. Len(s.frames) : i \in 1 .. Len(p.frames) /\ p.frames[i] = s.frames[i]
    BY <1>2, <2>1
  <2>3. CASE k = n
    BY <2>1, <2>2, <2>3 DEF Awaits
  <2>4. CASE k # n
    <3>1. Awaits(s, u, k)
      BY <1>4, <1>5, <2>4
    <3> QED BY <1>3, <2>2, <3>1 DEF Awaits
  <2> QED BY <2>3, <2>4
<1>6. WorkLeft(p)
  BY <1>4, <1>3, <1>5 DEF WorkLeft
<1>7. KeepsWord(r, p)
  BY <1>3, SameWord, WordLasts DEF KeepsWord
<1>8. Progresses(r, p)
  BY <1>6, <1>7 DEF Progresses, Pursued
<1> QED BY <1>1, <1>3, <1>8, ThenFlow

LEMMA BinaryProgresses ==
  ASSUME NEW s, InHand(s), IsLine(BinaryAccepted(s))
  PROVE  Progresses(s, BinaryAccepted(s))
<1> DEFINE u == s.header[1]
           n == s.header[2]
           t == [s EXCEPT !.header = NoFrame]
           o == [t EXCEPT !.overrun = TRUE]
<1>1. IsLine(s) /\ ~s.closed /\ WorkLeft(s) /\ IsService(s)
  BY ServiceIsLine DEF InHand
<1>2. /\ DiffersIn(t, s, {"header"}) /\ t.header = NoFrame
      /\ DiffersIn(o, s, {"header", "overrun"})
  BY <1>1 DEF IsLine, DiffersIn, ServiceFields
<1> HIDE DEF t, o
<1>3. /\ IsLine(t) /\ KeepsWord(s, t) /\ ~t.closed /\ t.active = s.active
      /\ IsLine(o) /\ KeepsWord(s, o) /\ ~o.closed /\ o.active = s.active
  BY <1>1, <1>2, SameWord DEF IsLine, DiffersIn, ServiceFields, InHand
<1>4. /\ t.utterance = s.utterance /\ t.worker = s.worker /\ t.frames = s.frames
  BY <1>2 DEF DiffersIn, ServiceFields
<1>5. s.header \in Frames \cup {NoFrame} /\ s.active \in Ids
  BY <1>1 DEF IsService
<1>6. /\ u \in Ids /\ (u # Nobody => u \in Utterances /\ n \in Nat) /\ t.header[1] = Nobody
  BY <1>2, <1>5, NobodyIsNone DEF Frames, NoFrame, Ids
<1>7. BinaryAccepted(s) =
        IF u = Nobody /\ s.active # Nobody THEN Failed(t, s.active, "receive")
        ELSE IF u = Nobody THEN Refused(t, Nobody)
        ELSE IF ~IsCurrent(s, u) \/ s.utterance[u].next # n THEN Refused(t, u)
        ELSE IF n + 1 > UtteranceLimit THEN Failed(t, u, "receive")
        ELSE IF Cardinality(s.reserved) >= InputFrames THEN Failed(o, u, "receive")
        ELSE FrameAccepted(t, u, n)
  BY DEF BinaryAccepted, t, o
<1>8. CASE u = Nobody /\ s.active # Nobody
  BY <1>5, <1>7, <1>8, <1>1, <1>3, FailedProgresses DEF Ids
<1>9. ASSUME u # s.active \/ s.active = Nobody
      PROVE  Progresses(s, Refused(t, u))
  BY <1>3, <1>4, <1>6, <1>9, <1>1, Working, ThenRefused DEF SameWork, Awaits
<1>10. CASE u = Nobody /\ s.active = Nobody
  BY <1>7, <1>9, <1>10
<1>11. CASE u # Nobody /\ (~IsCurrent(s, u) \/ s.utterance[u].next # n)
  BY <1>11, <1>7, <1>9, ActiveIs DEF IsCurrent, HeardInOrder
<1>12. CASE u # Nobody /\ IsCurrent(s, u) /\ s.utterance[u].next = n
  <2>1. u \in Utterances /\ n \in Nat /\ s.active = u
    BY <1>6, <1>12 DEF IsCurrent
  <2>2. \/ BinaryAccepted(s) = Failed(t, u, "receive")
        \/ BinaryAccepted(s) = Failed(o, u, "receive")
        \/ BinaryAccepted(s) = FrameAccepted(t, u, n)
    BY <1>7, <1>12
  <2>3. CASE BinaryAccepted(s) = Failed(t, u, "receive")
    BY <1>1, <1>3, <2>1, <2>3, FailedProgresses
  <2>4. CASE BinaryAccepted(s) = Failed(o, u, "receive")
    BY <1>1, <1>3, <2>1, <2>4, FailedProgresses
  <2>5. CASE BinaryAccepted(s) = FrameAccepted(t, u, n)
    <3>1. /\ s.utterance[u] \in UtteranceRecords /\ HeardInOrder(s, u)
      BY <1>12, <2>1, ActiveIs
    <3>2. /\ s.utterance[u].pending = n - s.utterance[u].heard
          /\ s.utterance[u].heard <= n /\ s.utterance[u].finalizer = "none"
      BY <1>12, <2>1, <3>1 DEF HeardInOrder
    <3>3. s.utterance[u].pending \in Nat
      BY <2>1, <3>1, <3>2 DEF UtteranceRecords
    <3>4. \A k \in s.utterance[u].heard .. n - 1 : Awaits(t, u, k)
      BY <1>1, <1>4, <1>12, <2>1 DEF WorkLeft, Awaits
    <3>5. t.utterance \in [Utterances -> UtteranceRecords] /\ t.frames \in Seq(Frames)
      BY <1>1, <1>4 DEF IsService
    <3>6. Progresses(s, FrameAccepted(t, u, n))
      BY <1>1, <1>3, <1>4, <1>12, <2>1, <3>2, <3>3, <3>4, <3>5, FrameAcceptedProgresses
    <3> QED BY <2>5, <3>6
  <2> QED BY <2>2, <2>3, <2>4, <2>5
<1> QED BY <1>8, <1>10, <1>11, <1>12

\* The work of an utterance that may be ready for its finalizer
NearlyLeft(s, u) ==
  /\ s.active = u
  /\ s.utterance \in [Utterances -> UtteranceRecords]
  /\ s.utterance[u].finalizer \in {"none", "running"} /\ s.utterance[u].pending \in Nat
  /\ \A k \in s.utterance[u].heard .. s.utterance[u].next - 1 : Awaits(s, u, k)

LEMMA SpawnedIs ==
  ASSUME NEW s, IsLine(s), NEW u \in Utterances, NearlyLeft(s, u)
  PROVE  LET t == FinalizerSpawned(s, u)
         IN  /\ DiffersIn(t, s, {"utterance"}) /\ NearlyLeft(t, u) /\ WorkLeft(t)
             /\ t.utterance[u].status = s.utterance[u].status
<1> DEFINE t == FinalizerSpawned(s, u)
<1>1. u # Nobody
  BY NobodyIsNone
<1>2. CASE t = s
  <2>1. ~(/\ s.utterance[u].status = "finalizing" /\ s.utterance[u].pending = 0
          /\ s.utterance[u].finalizer = "none" /\ s.header[1] # u)
    <3>1. SUFFICES ASSUME /\ s.utterance[u].status = "finalizing" /\ s.utterance[u].pending = 0
                          /\ s.utterance[u].finalizer = "none" /\ s.header[1] # u
                   PROVE  FALSE
      OBVIOUS
    <3>2. t = [s EXCEPT !.utterance[u].finalizer = "running"]
      BY <3>1 DEF FinalizerSpawned
    <3> HIDE DEF t
    <3>3. t.utterance[u].finalizer = "running"
      BY <3>2 DEF IsLine, ServiceFields, NearlyLeft, UtteranceRecords
    <3> QED BY <1>2, <3>1, <3>3
  <2>2. WorkLeft(s)
    BY <2>1 DEF NearlyLeft, WorkLeft
  <2> QED BY <1>2, <2>2 DEF DiffersIn
<1>3. CASE t # s
  <2>1. t = [s EXCEPT !.utterance[u].finalizer = "running"]
    BY <1>3 DEF FinalizerSpawned
  <2> HIDE DEF t
  <2>2. /\ DiffersIn(t, s, {"utterance"})
        /\ t.utterance = [s.utterance EXCEPT ![u].finalizer = "running"]
    BY <2>1 DEF IsLine, DiffersIn, ServiceFields
  <2>3. /\ t.active = u /\ t.worker = s.worker /\ t.frames = s.frames
    BY <2>2 DEF DiffersIn, ServiceFields, NearlyLeft
  <2>4. /\ t.utterance \in [Utterances -> UtteranceRecords]
        /\ t.utterance[u].finalizer = "running"
        /\ t.utterance[u].pending = s.utterance[u].pending
        /\ t.utterance[u].heard = s.utterance[u].heard
        /\ t.utterance[u].next = s.utterance[u].next
        /\ t.utterance[u].status = s.utterance[u].status
    BY <2>2 DEF NearlyLeft, UtteranceRecords
  <2>5. NearlyLeft(t, u)
    BY <2>3, <2>4 DEF NearlyLeft, Awaits
  <2>6. WorkLeft(t)
    BY <1>1, <2>3, <2>4, <2>5 DEF NearlyLeft, WorkLeft
  <2>7. DiffersIn(t, s, {"utterance"}) /\ t.utterance[u].status = s.utterance[u].status
    BY <2>2, <2>4
  <2> HIDE DEF t
  <2> QED BY <2>5, <2>6, <2>7 DEF t
<1> QED BY <1>2, <1>3

LEMMA RequestedIs ==
  ASSUME NEW s, IsLine(s), NEW u \in Utterances, NearlyLeft(s, u),
         s.utterance[u].status \in {"listening", "finalizing"}, NEW reason \in {"client_end", "vad_end"}
  PROVE  LET t == FinalizeRequested(s, u, reason)
         IN  /\ DiffersIn(t, s, {"utterance"}) /\ WorkLeft(t)
             /\ t.utterance[u].status = "finalizing"
<1> DEFINE p == IF s.utterance[u].status = "listening"
                THEN [s EXCEPT !.utterance[u].status = "finalizing", !.utterance[u].reason = reason]
                ELSE s
<1>1. FinalizeRequested(s, u, reason) = FinalizerSpawned(p, u)
  BY DEF FinalizeRequested
<1>2. /\ DiffersIn(p, s, {"utterance"}) /\ IsLine(p)
      /\ NearlyLeft(p, u) /\ p.utterance[u].status = "finalizing"
  <2>1. CASE s.utterance[u].status # "listening"
    BY <2>1 DEF DiffersIn
  <2>2. CASE s.utterance[u].status = "listening"
    <3>1. p = [s EXCEPT !.utterance[u].status = "finalizing", !.utterance[u].reason = reason]
      BY <2>2
    <3> HIDE DEF p
    <3>2. /\ DiffersIn(p, s, {"utterance"})
          /\ p.utterance = [s.utterance EXCEPT ![u].status = "finalizing", ![u].reason = reason]
      BY <3>1 DEF IsLine, DiffersIn, ServiceFields
    <3>3. /\ p.active = u /\ p.worker = s.worker /\ p.frames = s.frames
          /\ IsLine(p)
      BY <3>2 DEF DiffersIn, ServiceFields, NearlyLeft, IsLine
    <3>4. /\ p.utterance \in [Utterances -> UtteranceRecords]
          /\ p.utterance[u].finalizer = s.utterance[u].finalizer
          /\ p.utterance[u].pending = s.utterance[u].pending
          /\ p.utterance[u].heard = s.utterance[u].heard
          /\ p.utterance[u].next = s.utterance[u].next
          /\ p.utterance[u].status = "finalizing"
      BY <3>2 DEF NearlyLeft, UtteranceRecords
    <3>5. \A k \in p.utterance[u].heard .. p.utterance[u].next - 1 : Awaits(p, u, k)
      BY <3>3, <3>4 DEF NearlyLeft, Awaits
    <3>6. NearlyLeft(p, u)
      BY <3>3, <3>4, <3>5 DEF NearlyLeft
    <3> QED BY <3>2, <3>3, <3>4, <3>6
  <2> QED BY <2>1, <2>2
<1> HIDE DEF p
<1> DEFINE t == FinalizerSpawned(p, u)
<1>3. /\ DiffersIn(t, p, {"utterance"}) /\ WorkLeft(t)
      /\ t.utterance[u].status = p.utterance[u].status
  BY <1>2, SpawnedIs
<1> HIDE DEF t
<1>4. DiffersIn(t, s, {"utterance"}) /\ WorkLeft(t) /\ t.utterance[u].status = "finalizing"
  BY <1>2, <1>3 DEF DiffersIn
<1> QED BY <1>1, <1>4 DEF t

LEMMA ActiveIsNearlyLeft ==
  ASSUME NEW s, InHand(s), NEW u \in Utterances, s.active = u
  PROVE  NearlyLeft(s, u) /\ s.utterance[u].status \in {"listening", "finalizing"}
<1>1. /\ u # Nobody /\ s.utterance \in [Utterances -> UtteranceRecords] /\ WorkLeft(s)
  BY NobodyIsNone DEF InHand, IsService
<1>2. /\ s.utterance[u].status \in {"listening", "finalizing"}
      /\ s.utterance[u].pending = s.utterance[u].next - s.utterance[u].heard
      /\ s.utterance[u].heard <= s.utterance[u].next
      /\ s.utterance[u] \in UtteranceRecords
  BY <1>1, ActiveIs DEF HeardInOrder
<1>3. s.utterance[u].pending \in Nat
  BY <1>2 DEF UtteranceRecords
<1> QED BY <1>1, <1>2, <1>3 DEF WorkLeft, NearlyLeft

\* The end of an utterance is taken up or refused.
LEMMA EndProgresses ==
  ASSUME NEW s, InHand(s), NEW u \in Utterances, s.header = NoFrame
  PROVE  LET t == EndRequested(s, u)
         IN  Progresses(s, t) /\ (Pursued(t, u) \/ IsAnswered(t, u))
<1> DEFINE t == EndRequested(s, u)
<1>1. IsLine(s) /\ ~s.closed /\ Progresses(s, s) /\ u \in Ids
  BY AsideProgresses DEF DiffersIn, Ids
<1>2. CASE s.active # u
  BY <1>2, <1>1, ThenRefused, AnsweredIs DEF EndRequested
<1>3. CASE s.active = u
  <2>1. t = FinalizeRequested(s, u, "client_end")
    BY <1>3 DEF EndRequested
  <2>2. /\ DiffersIn(t, s, {"utterance"}) /\ WorkLeft(t) /\ t.utterance[u].status = "finalizing"
    BY <1>1, <1>3, <2>1, ActiveIsNearlyLeft, RequestedIs
  <2> HIDE DEF t
  <2>3. /\ t.outgoing = s.outgoing /\ t.outbound = s.outbound /\ t.current = s.current
        /\ t.active = u /\ t.header = NoFrame /\ IsLine(t)
    BY <1>1, <1>3, <2>2 DEF IsLine, DiffersIn, ServiceFields
  <2>4. t.header[1] # u /\ Pursued(t, u)
    BY <2>2, <2>3, NobodyIsNone DEF NoFrame, Pursued
  <2>5. \A v \in Utterances : Pursued(s, v) => Pursued(t, v)
    BY <1>3, <2>4 DEF Pursued
  <2>6. Progresses(s, t)
    BY <2>2, <2>3, <2>5, WorkProgresses
  <2> QED BY <2>4, <2>6 DEF t
<1> QED BY <1>2, <1>3

LEMMA AsItWas ==
  ASSUME NEW s, InHand(s)
  PROVE  Progresses(s, s) /\ KeepsWord(s, s) /\ IsLine(s) /\ ~s.closed
  BY AsideProgresses, ServiceIsLine DEF DiffersIn, InHand, Progresses

\* A frame goes to the recognizer, or is given back with nothing done.
LEMMA FrameTakenProgresses ==
  ASSUME NEW s, InHand(s), WorkerIsFree(s), s.frames # <<>>
  PROVE  Progresses(s, FrameTaken(s))
<1> DEFINE f == Head(s.frames)
           u == f[1]
           q == [s EXCEPT !.frames = Tail(s.frames), !.worker = f]
           d == [s EXCEPT !.frames = Tail(s.frames), !.worker = NoFrame,
                          !.reserved = s.reserved \ {f},
                          !.utterance[u].pending = s.utterance[u].pending - 1]
<1>0. /\ IsLine(s) /\ s.frames \in Seq(Frames) /\ s.worker = NoFrame /\ ShapeInv(s)
      /\ s.utterance \in [Utterances -> UtteranceRecords] /\ WorkLeft(s)
  BY AsItWas DEF InHand, IsService, WorkerIsFree
<1>1. /\ f \in Frames /\ u \in Utterances /\ Len(s.frames) \in Nat
      /\ \A i \in 1 .. Len(s.frames) : s.frames[i] # f =>
           \E k \in 1 .. Len(Tail(s.frames)) : Tail(s.frames)[k] = s.frames[i]
  <2>1. f = s.frames[1] /\ f \in Frames
    BY <1>0
  <2>2. Len(s.frames) \in Nat /\ Len(Tail(s.frames)) = Len(s.frames) - 1
    BY <1>0
  <2>3. ASSUME NEW i \in 1 .. Len(s.frames), s.frames[i] # f
        PROVE  \E k \in 1 .. Len(Tail(s.frames)) : Tail(s.frames)[k] = s.frames[i]
    BY <2>1, <2>3, <1>0, <2>2
  <2> QED BY <2>1, <2>2, <2>3 DEF Frames
<1>2. FrameTaken(s) = IF IsCurrent(s, u) THEN q ELSE FlowSent(d)
  BY <1>0, <1>1 DEF FrameTaken, FrameDone, IsLine, ServiceFields
<1>3. /\ DiffersIn(q, s, {"frames", "worker"}) /\ q.frames = Tail(s.frames) /\ q.worker = f
      /\ DiffersIn(d, s, {"frames", "worker", "reserved", "utterance"})
      /\ d.frames = Tail(s.frames) /\ d.reserved = s.reserved \ {f}
      /\ d.utterance = [s.utterance EXCEPT ![u].pending = s.utterance[u].pending - 1]
  BY <1>0 DEF IsLine, DiffersIn, ServiceFields
<1> HIDE DEF q, d, f
<1>4. CASE IsCurrent(s, u)
  <2>1. /\ q.outgoing = s.outgoing /\ q.outbound = s.outbound /\ q.current = s.current
        /\ q.active = s.active /\ q.utterance = s.utterance /\ q.header = s.header /\ IsLine(q)
    BY <1>0, <1>3 DEF IsLine, DiffersIn, ServiceFields
  <2>2. s.worker # f
    BY <1>0, <1>1, NobodyIsNone DEF NoFrame
  <2>3. ASSUME NEW n, Awaits(s, s.active, n)
        PROVE  Awaits(q, s.active, n)
    <3>1. s.active = u
      BY <1>4 DEF IsCurrent
    <3>2. PICK i \in 1 .. Len(s.frames) : s.frames[i] = <<u, n>>
      BY <1>0, <1>1, <2>3, <3>1, NobodyIsNone DEF Awaits, NoFrame
    <3>3. CASE s.frames[i] = f
      BY <1>3, <3>1, <3>2, <3>3 DEF Awaits
    <3>4. CASE s.frames[i] # f
      <4>1. PICK k \in 1 .. Len(Tail(s.frames)) : Tail(s.frames)[k] = s.frames[i]
        BY <1>1, <3>4
      <4>2. k \in 1 .. Len(q.frames) /\ q.frames[k] = <<s.active, n>>
        BY <1>3, <3>1, <3>2, <4>1
      <4> QED BY <4>2 DEF Awaits
    <3> QED BY <3>3, <3>4
  <2>4. SameWork(s, q)
    BY <2>1, <2>3 DEF SameWork
  <2>5. Progresses(s, q)
    BY <1>0, <2>1, <2>4, SameWord, Working
  <2> QED BY <1>2, <1>4, <2>5
<1>5. CASE ~IsCurrent(s, u)
  <2>1. s.active # u
    BY <1>5, ActiveIs, NobodyIsNone, <1>1 DEF IsCurrent
  <2>2. IsLine(d)
    <3>1. IsFiniteSet(s.reserved \ {f})
      BY <1>0, FS_Subset DEF IsLine
    <3> QED BY <1>0, <1>3, <3>1 DEF IsLine, DiffersIn, ServiceFields
  <2>3. /\ d.outgoing = s.outgoing /\ d.outbound = s.outbound /\ d.current = s.current
        /\ d.active = s.active /\ d.header = s.header
    BY <1>3 DEF DiffersIn, ServiceFields
  <2>4. ASSUME NEW n, s.active # Nobody, Awaits(s, s.active, n)
        PROVE  Awaits(d, s.active, n)
    <3>1. PICK i \in 1 .. Len(s.frames) : s.frames[i] = <<s.active, n>>
      BY <1>0, <2>4 DEF Awaits, NoFrame
    <3>2. s.frames[i] # f
      BY <2>1, <3>1
    <3> QED BY <1>1, <1>3, <3>1, <3>2 DEF Awaits
  <2>5. SameWork(s, d)
    BY <1>0, <1>3, <2>1, <2>3, <2>4, ActiveIs DEF SameWork
  <2>6. Progresses(s, d)
    BY <1>0, <2>3, <2>5, SameWord, Working
  <2> QED BY <1>0, <1>2, <1>5, <2>2, <2>6, ThenFlow
<1> QED BY <1>4, <1>5

\* A frame has been heard: its partial transcript, if any, goes out, and the
\* finalizer that waited for it may run.
LEMMA FrameHeardProgresses ==
  ASSUME NEW s, InHand(s), s.worker # NoFrame, NEW silence, IsLine(FrameHeard(s, silence))
  PROVE  Progresses(s, FrameHeard(s, silence))
<1> DEFINE f == s.worker
           u == f[1]
           q == IF IsCurrent(s, u) /\ s.utterance[u].heard = 0
                THEN Queued(s, u, <<Event("partial", u)>>) ELSE s
           r == [s.utterance[u] EXCEPT !.pending = s.utterance[u].pending - 1,
                                       !.heard = s.utterance[u].heard + 1]
           done == [FrameDone(q, f) EXCEPT !.utterance[u].heard = @ + 1]
           over == IF s.active # u THEN done
                   ELSE IF silence THEN FinalizeRequested(done, u, "vad_end")
                   ELSE FinalizerSpawned(done, u)
<1>0. /\ IsLine(s) /\ s.frames \in Seq(Frames) /\ ShapeInv(s) /\ ~s.closed
      /\ s.utterance \in [Utterances -> UtteranceRecords] /\ WorkLeft(s)
  BY AsItWas DEF InHand, IsService
<1>1. f \in Frames /\ u \in Utterances /\ f[1] = u /\ u # Nobody /\ f = <<u, f[2]>>
  BY NobodyIsNone DEF InHand, IsService, Frames
<1>2. /\ IsLine(q) /\ DiffersIn(q, s, {"outbound"}) /\ KeepsWord(s, q)
  <2>1. <<Event("partial", u)>> \in Shapes(u)
    BY DEF Shapes
  <2>2. /\ IsLine(Queued(s, u, <<Event("partial", u)>>))
        /\ DiffersIn(Queued(s, u, <<Event("partial", u)>>), s, {"outbound"})
        /\ KeepsWord(s, Queued(s, u, <<Event("partial", u)>>))
    BY <1>0, <1>1, <2>1, ShapesAre, QueuedWord
  <2>3. DiffersIn(s, s, {"outbound"}) /\ KeepsWord(s, s)
    BY AsItWas DEF DiffersIn
  <2> QED BY <1>0, <2>2, <2>3
<1>3. FrameHeard(s, silence) = FlowSent(over) /\ q.active = s.active
  BY <1>2 DEF FrameHeard, DiffersIn, ServiceFields
<1> HIDE DEF q, f
<1>4. /\ DiffersIn(done, q, {"worker", "reserved", "utterance"})
      /\ done.worker = NoFrame /\ done.reserved = q.reserved \ {f}
      /\ done.utterance = [s.utterance EXCEPT ![u] = r]
  <2>1. q.utterance = s.utterance
    BY <1>2 DEF DiffersIn, ServiceFields
  <2>2. FrameDone(q, f) = [q EXCEPT !.worker = NoFrame, !.reserved = q.reserved \ {f},
                                    !.utterance = [s.utterance EXCEPT ![u].pending = @ - 1]]
    BY <1>2, <2>1 DEF FrameDone, IsLine, ServiceFields
  <2> DEFINE p == FrameDone(q, f)
             m == [s.utterance EXCEPT ![u].pending = @ - 1]
  <2>3. /\ DiffersIn(p, q, {"worker", "reserved", "utterance"})
        /\ p.worker = NoFrame /\ p.reserved = q.reserved \ {f} /\ p.utterance = m
    BY <1>2, <2>2 DEF IsLine, DiffersIn, ServiceFields
  <2>4. done = [p EXCEPT !.utterance[u].heard = @ + 1]
    OBVIOUS
  <2> HIDE DEF p, done
  <2>5. /\ DiffersIn(done, q, {"worker", "reserved", "utterance"})
        /\ done.worker = NoFrame /\ done.reserved = q.reserved \ {f}
        /\ done.utterance = [m EXCEPT ![u].heard = @ + 1]
    BY <1>2, <2>3, <2>4 DEF IsLine, DiffersIn, ServiceFields
  <2>6. [m EXCEPT ![u].heard = @ + 1] = [s.utterance EXCEPT ![u] = r]
    BY <1>0, <1>1 DEF UtteranceRecords
  <2> QED BY <2>5, <2>6
<1> HIDE DEF done, r
<1>5. /\ IsLine(done) /\ KeepsWord(s, done)
      /\ done.active = s.active /\ done.header = s.header /\ done.frames = s.frames
  <2>1. IsFiniteSet(done.reserved)
    BY <1>2, <1>4, FS_Subset DEF IsLine
  <2>2. /\ IsLine(done) /\ done.outgoing = q.outgoing /\ done.outbound = q.outbound
        /\ done.current = q.current
    BY <1>2, <1>4, <2>1 DEF IsLine, DiffersIn, ServiceFields
  <2>3. done.active = s.active /\ done.header = s.header /\ done.frames = s.frames
    BY <1>2, <1>4 DEF DiffersIn, ServiceFields
  <2>4. KeepsWord(q, done)
    BY <1>2, <2>2, SameWord DEF KeepsWord
  <2> QED BY <1>0, <1>2, <2>2, <2>3, <2>4, WordLasts
<1>6. CASE s.active # u
  <2>1. ASSUME NEW n, s.active # Nobody, Awaits(s, s.active, n)
        PROVE  Awaits(done, s.active, n)
    BY <1>1, <1>5, <1>6, <2>1 DEF Awaits, f
  <2>2. s.active # Nobody => done.utterance[s.active] = s.utterance[s.active]
    BY <1>0, <1>4, <1>6, ActiveIs
  <2>3. SameWork(s, done)
    BY <1>5, <2>1, <2>2 DEF SameWork
  <2>4. Progresses(s, done)
    BY <1>0, <1>5, <2>3, Working
  <2> QED BY <1>0, <1>3, <1>5, <1>6, <2>4, ThenFlow
<1>7. CASE s.active = u
  <2>1. /\ HeardInOrder(s, u) /\ s.utterance[u] \in UtteranceRecords
        /\ s.utterance[u].status \in {"listening", "finalizing"}
    BY <1>1, <1>7, ActiveIs
  <2> DEFINE h == s.utterance[u].heard
             x == s.utterance[u].next
  <2>2. /\ h \in Nat /\ x \in Nat /\ h < x /\ f[2] \in h .. x - 1
        /\ s.utterance[u].pending = x - h /\ s.utterance[u].finalizer = "none"
    BY <2>1, <1>1, <1>7 DEF UtteranceRecords, HeardInOrder, f
  <2>3. f[2] = h
    <3>1. h \in h .. x - 1
      BY <2>2
    <3>2. Awaits(s, u, h)
      BY <1>0, <1>1, <1>7, <2>2, <3>1 DEF WorkLeft
    <3>3. CASE s.worker = <<u, h>>
      BY <3>3 DEF f
    <3>4. CASE s.worker # <<u, h>>
      <4>1. PICK i \in 1 .. Len(s.frames) : s.frames[i] = <<u, h>>
        BY <3>2, <3>4 DEF Awaits
      <4>2. h \in s.worker[2] + 1 .. x - 1
        BY <1>1, <1>7, <2>1, <4>1 DEF HeardInOrder, f
      <4>3. s.worker[2] \in h .. x - 1
        BY <2>2 DEF f
      <4> QED BY <2>2, <4>2, <4>3
    <3> QED BY <3>3, <3>4
  <2>4. /\ done.utterance \in [Utterances -> UtteranceRecords]
        /\ done.utterance[u].pending = x - h - 1 /\ done.utterance[u].heard = h + 1
        /\ done.utterance[u].next = x /\ done.utterance[u].finalizer = "none"
        /\ done.utterance[u].status = s.utterance[u].status
    <3>1. /\ r \in UtteranceRecords /\ r.pending = x - h - 1 /\ r.heard = h + 1
          /\ r.next = x /\ r.finalizer = "none" /\ r.status = s.utterance[u].status
      <4>1. x - h - 1 \in Int /\ h + 1 \in Nat
        BY <2>2
      <4> QED BY <2>1, <2>2, <4>1 DEF UtteranceRecords, r
    <3>2. done.utterance[u] = r /\ done.utterance \in [Utterances -> UtteranceRecords]
      BY <1>0, <1>1, <1>4, <3>1
    <3> QED BY <3>1, <3>2
  <2>5. ASSUME NEW k \in h + 1 .. x - 1
        PROVE  Awaits(done, u, k)
    <3>1. k \in h .. x - 1 /\ k # h
      BY <2>2
    <3>2. Awaits(s, u, k)
      BY <1>0, <1>1, <1>7, <3>1 DEF WorkLeft
    <3>3. s.worker # <<u, k>>
      BY <2>3, <3>1 DEF f
    <3> QED BY <1>5, <3>2, <3>3 DEF Awaits
  <2>6. NearlyLeft(done, u)
    BY <2>2, <2>4, <1>5, <1>7, <2>5 DEF NearlyLeft
  <2>7. /\ DiffersIn(over, done, {"utterance"}) /\ WorkLeft(over)
        /\ over.utterance[u].status \in {done.utterance[u].status, "finalizing"}
    <3>1. CASE silence
      <4>1. over = FinalizeRequested(done, u, "vad_end")
        BY <1>7, <3>1
      <4> HIDE DEF over
      <4>2. done.utterance[u].status \in {"listening", "finalizing"}
        BY <2>1, <2>4
      <4> QED BY <1>1, <1>5, <2>6, <4>1, <4>2, RequestedIs
    <3>2. CASE ~silence
      <4>1. over = FinalizerSpawned(done, u)
        BY <1>7, <3>2
      <4> HIDE DEF over
      <4> QED BY <1>1, <1>5, <2>6, <4>1, SpawnedIs
    <3> QED BY <3>1, <3>2
  <2> HIDE DEF over
  <2>8. /\ IsLine(over) /\ over.outgoing = done.outgoing /\ over.outbound = done.outbound
        /\ over.current = done.current /\ over.active = s.active /\ over.header = s.header
    BY <1>5, <2>7 DEF IsLine, DiffersIn, ServiceFields
  <2>9. KeepsWord(s, over)
    BY <1>5, <2>8, <1>0, SameWord, WordLasts DEF KeepsWord
  <2>10. \A v \in Utterances : Pursued(s, v) => Pursued(over, v)
    BY <1>7, <2>4, <2>7, <2>8 DEF Pursued
  <2>11. Progresses(s, over)
    BY <2>7, <2>9, <2>10 DEF Progresses
  <2> QED BY <1>0, <1>3, <2>8, <2>11, ThenFlow
<1> QED BY <1>6, <1>7

LEMMA FrameFailedProgresses ==
  ASSUME NEW s, InHand(s), s.worker # NoFrame, IsLine(FrameFailed(s))
  PROVE  Progresses(s, FrameFailed(s))
<1> DEFINE f == s.worker
           u == f[1]
           t == FrameDone(s, f)
<1>0. /\ IsLine(s) /\ ShapeInv(s) /\ ~s.closed
      /\ s.utterance \in [Utterances -> UtteranceRecords] /\ WorkLeft(s)
  BY AsItWas DEF InHand, IsService
<1>1. u \in Utterances /\ f = <<u, f[2]>>
  BY DEF InHand, IsService, Frames
<1>2. FrameFailed(s) = IF s.active = u THEN Failed(t, u, "worker") ELSE t
  BY DEF FrameFailed
<1> HIDE DEF f
<1>3. /\ DiffersIn(t, s, {"worker", "reserved", "utterance"})
      /\ t.reserved = s.reserved \ {f}
      /\ t.utterance = [s.utterance EXCEPT ![u].pending = @ - 1]
  BY <1>0 DEF FrameDone, IsLine, DiffersIn, ServiceFields
<1> HIDE DEF t
<1>4. /\ IsLine(t) /\ KeepsWord(s, t) /\ ~t.closed
      /\ t.active = s.active /\ t.header = s.header /\ t.frames = s.frames
  <2>1. IsFiniteSet(t.reserved)
    BY <1>0, <1>3, FS_Subset DEF IsLine
  <2>2. /\ IsLine(t) /\ t.outgoing = s.outgoing /\ t.outbound = s.outbound
        /\ t.current = s.current
    BY <1>0, <1>3, <2>1 DEF IsLine, DiffersIn, ServiceFields
  <2>3. t.closed = s.closed /\ t.active = s.active /\ t.header = s.header /\ t.frames = s.frames
    BY <1>3 DEF DiffersIn, ServiceFields
  <2> QED BY <1>0, <2>2, <2>3, SameWord
<1>5. CASE s.active = u
  BY <1>2, <1>5, <1>0, <1>1, <1>4, FailedProgresses
<1>6. CASE s.active # u
  <2>1. ASSUME NEW n, s.active # Nobody, Awaits(s, s.active, n)
        PROVE  Awaits(t, s.active, n)
    BY <1>1, <1>4, <1>6, <2>1 DEF Awaits, f
  <2>2. s.active # Nobody => t.utterance[s.active] = s.utterance[s.active]
    BY <1>0, <1>3, <1>6, ActiveIs
  <2>3. SameWork(s, t)
    BY <1>4, <2>1, <2>2 DEF SameWork
  <2> QED BY <1>0, <1>2, <1>4, <1>6, <2>3, Working
<1> QED BY <1>5, <1>6

-----------------------------------------------------------------------------
\* A finalizer of u is over, or given up, from s to t.
IsReturned(t, s, u) ==
  /\ DiffersIn(t, s, {"utterance", "lane", "session", "leases"})
  /\ \E x : t.utterance = [s.utterance EXCEPT ![u].finalizer = x]

LEMMA ReturnedIs ==
  ASSUME NEW s, InHand(s), NEW u \in Utterances
  PROVE  /\ \A raised : IsReturned(FinishOver(s, u, raised), s, u)
         /\ IsReturned([s EXCEPT !.utterance[u].finalizer = "late"], s, u)
<1>1. ServiceFields \subseteq DOMAIN s
  BY DEF InHand, IsService
<1>2. ASSUME NEW raised
      PROVE  IsReturned(FinishOver(s, u, raised), s, u)
  <2> DEFINE over == [s EXCEPT !.utterance[u].finalizer = "done",
                               !.lane = IF @ = u /\ ~raised THEN Nobody ELSE @]
  <2>1. /\ DiffersIn(over, s, {"utterance", "lane"})
        /\ over.utterance = [s.utterance EXCEPT ![u].finalizer = "done"]
    BY <1>1 DEF DiffersIn, ServiceFields
  <2>2. FinishOver(s, u, raised) = IF s.session[u] = "open"
                                   THEN [over EXCEPT !.session[u] = "released", !.leases = @ \ {u}]
                                   ELSE over
    BY DEF FinishOver
  <2> HIDE DEF over
  <2>3. /\ DiffersIn(FinishOver(s, u, raised), s, {"utterance", "lane", "session", "leases"})
        /\ FinishOver(s, u, raised).utterance = over.utterance
    BY <1>1, <2>1, <2>2 DEF DiffersIn, ServiceFields
  <2> QED BY <2>1, <2>3 DEF IsReturned
<1>3. IsReturned([s EXCEPT !.utterance[u].finalizer = "late"], s, u)
  BY <1>1 DEF IsReturned, DiffersIn, ServiceFields
<1> QED BY <1>2, <1>3

LEMMA ReturnedProgresses ==
  ASSUME NEW s, InHand(s), NEW u \in Utterances, NEW t, IsReturned(t, s, u)
  PROVE  /\ IsLine(t) /\ KeepsWord(s, t) /\ ~t.closed /\ t.active = s.active
         /\ t.utterance[u].status = s.utterance[u].status
         /\ s.active # u => Progresses(s, t)
<1>0. /\ IsLine(s) /\ ShapeInv(s) /\ ~s.closed /\ WorkLeft(s)
      /\ s.utterance \in [Utterances -> UtteranceRecords]
  BY AsItWas DEF InHand, IsService
<1>1. /\ t.outgoing = s.outgoing /\ t.outbound = s.outbound /\ t.current = s.current
      /\ t.closed = s.closed /\ t.active = s.active /\ t.header = s.header
      /\ t.worker = s.worker /\ t.frames = s.frames /\ IsLine(t)
  BY <1>0 DEF IsReturned, IsLine, DiffersIn, ServiceFields
<1>2. /\ t.utterance[u].status = s.utterance[u].status
      /\ \A v \in Utterances : v # u => t.utterance[v] = s.utterance[v]
  BY <1>0 DEF IsReturned, UtteranceRecords
<1>3. KeepsWord(s, t)
  BY <1>0, <1>1, SameWord
<1>4. ASSUME s.active # u
      PROVE  Progresses(s, t)
  BY <1>2, <1>4, <1>1, <1>0, <1>3, ActiveIs, Working DEF SameWork, Awaits
<1> QED BY <1>0, <1>1, <1>2, <1>3, <1>4

LEMMA FinishFailedProgresses ==
  ASSUME NEW s, InHand(s), NEW u \in Utterances, NEW t, IsReturned(t, s, u),
         IsLine(FinalizeFailed(t, u))
  PROVE  Progresses(s, FinalizeFailed(t, u))
<1>1. /\ IsLine(t) /\ KeepsWord(s, t) /\ ~t.closed /\ t.active = s.active
      /\ s.active # u => Progresses(s, t)
  BY ReturnedProgresses
<1>2. CASE s.active = u
  BY <1>1, <1>2, FailedProgresses, AsItWas DEF FinalizeFailed
<1>3. CASE s.active # u
  BY <1>1, <1>3 DEF FinalizeFailed
<1> QED BY <1>2, <1>3

LEMMA FinalizedProgresses ==
  ASSUME NEW s, InHand(s), NEW u \in Utterances, NEW t, IsReturned(t, s, u)
  PROVE  Progresses(s, Finalized(t, u))
<1>1. /\ IsLine(t) /\ KeepsWord(s, t) /\ ~t.closed /\ t.active = s.active
      /\ t.utterance[u].status = s.utterance[u].status
      /\ s.active # u => Progresses(s, t)
  BY ReturnedProgresses
<1>2. CASE s.active # u
  BY <1>1, <1>2 DEF Finalized, IsCurrent
<1>3. CASE s.active = u
  <2> DEFINE events == <<Event("final", u), Event("ended", u)>>
             p == [t EXCEPT !.active = Nobody, !.utterance[u].status = "final",
                            !.terminal[u] = "final"]
             w == Queued(p, u, events)
  <2>1. Finalized(t, u) = w
    BY <1>1, <1>3, ActiveIs, NobodyIsNone DEF IsCurrent, Finalized, FinalCommitted
  <2>2. /\ IsLine(p) /\ p.outgoing = t.outgoing /\ p.outbound = t.outbound /\ p.current = t.current
        /\ p.closed = t.closed /\ p.active = Nobody
    BY <1>1 DEF IsLine, ServiceFields
  <2> HIDE DEF p
  <2>3. KeepsWord(t, p) /\ ShapeInv(p)
    BY <1>1, <2>2, SameWord DEF KeepsWord
  <2>4. events \in Shapes(u) /\ 1 \in 1 .. Len(events) /\ events[1] = Event("final", u)
    BY DEF Shapes
  <2> HIDE DEF events
  <2>5. /\ IsLine(w) /\ DiffersIn(w, p, {"outbound"}) /\ KeepsWord(p, w)
        /\ Event("final", u) \in ToBeHeard(w)
    BY <1>1, <2>2, <2>3, <2>4, ShapesAre, QueuedWord
  <2> HIDE DEF w
  <2>6. KeepsWord(s, w)
    BY <1>1, <2>2, <2>3, <2>5, WordLasts, AsItWas
  <2>7. w.active = Nobody
    BY <2>2, <2>5 DEF DiffersIn, ServiceFields
  <2>8. WorkLeft(w)
    BY <2>7 DEF WorkLeft
  <2>9. \A v \in Utterances : Pursued(s, v) => IsAnswered(w, v)
    BY <1>3, <2>5, AnsweredIs DEF Pursued
  <2>10. Progresses(s, w)
    BY <2>6, <2>8, <2>9 DEF Progresses
  <2> QED BY <2>1, <2>10
<1> QED BY <1>2, <1>3

LEMMA LateProgresses ==
  ASSUME NEW s, InHand(s), NEW u \in Utterances, s.utterance[u].finalizer = "late", NEW raised
  PROVE  Progresses(s, FinishOver(s, u, raised))
<1>1. s.active # u
  BY NobodyIsNone DEF InHand, WorkLeft
<1> QED BY <1>1, ReturnedIs, ReturnedProgresses

-----------------------------------------------------------------------------
\* The first batch is taken to be sent.
LEMMA BatchTakenProgresses ==
  ASSUME NEW s, InHand(s), Sorted(s), s.current = NoBatch, s.outbound # <<>>, IsLine(BatchTaken(s))
  PROVE  Progresses(s, BatchTaken(s))
<1> DEFINE t == BatchTaken(s)
           q == s.outbound
<1>0. IsLine(s) /\ ShapeInv(s) /\ ServiceFields \subseteq DOMAIN s /\ q \in Seq(Batches) /\ IsLine(t)
  BY AsItWas DEF InHand, IsService
<1>1. /\ DiffersIn(t, s, {"outbound", "current"}) /\ t.current = Head(q) /\ t.outbound = Tail(q)
  BY <1>0 DEF BatchTaken, DiffersIn, ServiceFields
<1> HIDE DEF t
<1>2. /\ Len(q) \in Nat /\ 1 \in 1 .. Len(q) /\ Len(Tail(q)) = Len(q) - 1 /\ t.current = q[1]
      /\ \A i \in 1 .. Len(t.outbound) : i + 1 \in 1 .. Len(q) /\ t.outbound[i] = q[i + 1]
      /\ Len(t.outbound) = Len(q) - 1
  BY <1>0, <1>1
<1>3. q[1].id # Nobody /\ IsShaped(q[1]) /\ ~q[1].cut
  BY <1>0, <1>2 DEF Sorted, ShapeInv
<1>4. ShapeInv(t)
  BY <1>0, <1>2, <1>3 DEF ShapeInv
<1>5. t.outgoing = s.outgoing /\ s.current.events = <<>>
  BY <1>1 DEF DiffersIn, ServiceFields, NoBatch
<1>6. ToBeHeard(s) \subseteq ToBeHeard(t)
  <2>1. ASSUME NEW e, Queues(s, e)
        PROVE  (~t.current.cut /\ Said(t.current, e)) \/ Queues(t, e)
    <3>1. PICK j \in 1 .. Len(q) : Said(q[j], e)
      BY <2>1 DEF Queues
    <3>2. CASE j = 1
      BY <1>2, <1>3, <3>1, <3>2
    <3>3. CASE j # 1
      <4>1. j - 1 \in 1 .. Len(t.outbound) /\ (j - 1) + 1 = j
        BY <1>2, <3>3
      <4>2. t.outbound[j - 1] = q[j]
        BY <1>2, <4>1
      <4> QED BY <3>1, <4>1, <4>2 DEF Queues
    <3> QED BY <3>2, <3>3
  <2>2. \A e : Sent(s, e) => Sent(t, e)
    BY <1>5 DEF Sent
  <2>3. \A e : ~Said(s.current, e)
    BY <1>5 DEF Said
  <2> QED BY <1>0, <2>1, <2>2, <2>3, ComingIs
<1>7. KeepsWord(s, t)
  BY <1>0, <1>4, <1>5, <1>6, MoreIsComing
<1>8. SameWork(s, t)
  BY <1>1 DEF DiffersIn, ServiceFields, SameWork, Awaits
<1>9. Progresses(s, t)
  BY <1>7, <1>8, Working DEF InHand
<1> QED BY <1>9 DEF t

LEMMA BatchDroppedProgresses ==
  ASSUME NEW s, InHand(s), s.current.cut, IsLine(BatchDropped(s))
  PROVE  Progresses(s, BatchDropped(s))
<1> DEFINE t == BatchDropped(s)
<1>0. IsLine(s) /\ ShapeInv(s) /\ ServiceFields \subseteq DOMAIN s /\ IsLine(t)
  BY AsItWas DEF InHand, IsService
<1>1. DiffersIn(t, s, {"current"}) /\ t.current = NoBatch
  BY <1>0 DEF BatchDropped, DiffersIn, ServiceFields
<1> HIDE DEF t
<1>2. /\ t.active = s.active /\ t.utterance = s.utterance /\ t.header = s.header
      /\ t.worker = s.worker /\ t.frames = s.frames
      /\ t.outgoing = s.outgoing /\ t.outbound = s.outbound
  BY <1>1 DEF DiffersIn, ServiceFields
<1>3. ShapeInv(t)
  BY <1>0, <1>1, <1>2 DEF ShapeInv, NoBatch
<1>4. ToBeHeard(s) \subseteq ToBeHeard(t)
  BY <1>0, <1>2, ComingIs DEF Sent, Queues
<1>5. KeepsWord(s, t)
  BY <1>0, <1>2, <1>3, <1>4, MoreIsComing
<1>6. SameWork(s, t)
  BY <1>2 DEF SameWork, Awaits
<1>7. Progresses(s, t)
  BY <1>5, <1>6, Working DEF InHand
<1> QED BY <1>7 DEF t

-----------------------------------------------------------------------------
(* The player who waits *)

\* No end of an utterance is out that the service has not told of.
SilentInv(s, said) ==
  \A u \in Utterances : said[u] = "open" =>
    \A i \in 1 .. Len(s.outgoing) : s.outgoing[i] # Event("ended", u)

\* The end of u is not all that is heard of it.
EndedInv(s, u) ==
  \A i \in 1 .. Len(s.outgoing) : s.outgoing[i] = Event("ended", u) =>
    \/ Event("cancelled", u) \in ToBeHeard(s)
    \/ \E j \in 1 .. i - 1 : s.outgoing[j] = Event("final", u)

\* A final of the recording will be taken for it, and its end leads to an answer.
WaitingInv(s, b) ==
  LET u == b.recording
  IN
  /\ (b.active = u /\ b.status[u] \in Live) \/ Event("cancelled", u) \in ToBeHeard(s)
  /\ ~b.forwarding =>
       Event("end", u) \in Range(b.outgoing) \/ Pursued(s, u) \/ IsAnswered(s, u)

Answers(s, b, said) ==
  b.state = "ready" =>
    /\ ShapeInv(s) /\ WorkLeft(s) /\ SilentInv(s, said)
    /\ b.recording # Nobody => EndedInv(s, b.recording) /\ WaitingInv(s, b)

AnswerInv == TranscriptionInv /\ Answers(service, browser, told)

LEMMA IsInHand ==
  ASSUME NEW s, NEW b, NEW said, SpeechInv(s, b, said, Utterances), Answers(s, b, said),
         b.state = "ready"
  PROVE  InHand(s) /\ IsLine(s) /\ IsBrowser(b)
  BY ServiceIsLine DEF SpeechInv, ChannelInv, Answers, InHand

\* The browser from b to c has at most sent something about others.
LooksOn(c, b) ==
  /\ c.state = b.state /\ c.status = b.status /\ c.active = b.active
  /\ c.recording = b.recording /\ c.forwarding = b.forwarding

\* No step of the service that makes progress leaves the player waiting.
LEMMA ProgressAnswers ==
  ASSUME NEW s, NEW t, NEW b, NEW c, NEW said, IsLine(s), IsLine(t), IsBrowser(b),
         Answers(s, b, said), b.state = "ready" => Progresses(s, t), LooksOn(c, b),
         Event("end", b.recording) \in Range(b.outgoing) =>
           \/ Event("end", b.recording) \in Range(c.outgoing)
           \/ Pursued(t, b.recording) \/ IsAnswered(t, b.recording)
  PROVE  Answers(t, c, said)
<1> SUFFICES ASSUME b.state = "ready" PROVE Answers(t, c, said)
  BY DEF Answers, LooksOn
<1> DEFINE u == b.recording
           n == Len(s.outgoing)
<1>1. KeepsWord(s, t) /\ WorkLeft(t) /\ ShapeInv(t)
  BY DEF Progresses, KeepsWord
<1>2. n \in Nat /\ Len(t.outgoing) \in Nat /\ n <= Len(t.outgoing)
  BY <1>1, BatchIs DEF KeepsWord
<1>3. /\ \A i \in 1 .. n : i \in 1 .. Len(t.outgoing) /\ t.outgoing[i] = s.outgoing[i]
      /\ \A v : \A i \in 1 .. Len(t.outgoing) :
           t.outgoing[i] = Event("ended", v) => i \in 1 .. n /\ s.outgoing[i] = Event("ended", v)
  BY <1>1, <1>2 DEF KeepsWord, Event
<1>4. SilentInv(t, said)
  BY <1>3 DEF Answers, SilentInv
<1>5. ASSUME u # Nobody
      PROVE  EndedInv(t, u) /\ WaitingInv(t, c)
  <2>1. u \in Utterances /\ EndedInv(s, u) /\ WaitingInv(s, b)
    BY <1>5 DEF IsBrowser, Ids, Answers
  <2>2. /\ Event("cancelled", u) \in ToBeHeard(s) => Event("cancelled", u) \in ToBeHeard(t)
        /\ IsAnswered(s, u) => IsAnswered(t, u)
        /\ Pursued(s, u) => Pursued(t, u) \/ IsAnswered(t, u)
    BY <1>1, <2>1 DEF Progresses, KeepsWord
  <2>3. EndedInv(t, u)
    BY <2>2, <1>3, <2>1, <1>2 DEF EndedInv
  <2>4. WaitingInv(t, c)
    BY <2>1, <2>2 DEF WaitingInv, LooksOn
  <2> QED BY <2>3, <2>4
<1> QED BY <1>1, <1>4, <1>5 DEF Answers, LooksOn

LEMMA PlainSentAnswers ==
  ASSUME NEW s, NEW b, NEW said, IsService(s), IsBrowser(b), Answers(s, b, said)
  PROVE  Answers(PlainSent(s), b, said)
<1> DEFINE t == PlainSent(s)
<1>1. DiffersIn(t, s, {"outgoing", "outbound"}) /\ IsLine(s)
  BY PlainSentIs, ServiceIsLine
<1>2. IsLine(t)
  BY PlainSentIs, DiffersKeepsType, ServiceIsLine
<1>3. b.state = "ready" => KeepsWord(s, t) /\ WorkLeft(s)
  BY PlainSentWord DEF Answers
<1> HIDE DEF t
<1>4. SameWork(s, t)
  BY <1>1 DEF DiffersIn, ServiceFields, SameWork, Awaits
<1>5. b.state = "ready" => Progresses(s, t)
  BY <1>3, <1>4, Working
<1>6. Answers(t, b, said)
  BY <1>1, <1>2, <1>5, ProgressAnswers DEF LooksOn
<1> QED BY <1>6 DEF t

\* A batch that is sent ends its utterance only for the browser to hear why.
LEMMA BatchSentAnswers ==
  ASSUME NEW s, NEW b, NEW said, SpeechInv(s, b, said, Utterances), Answers(s, b, said),
         NEW after,
         ~s.closed => after = [said EXCEPT ![s.current.id] =
                                 IF @ # "open" THEN "late"
                                 ELSE IF Ends(s.current) THEN "ended" ELSE @],
         IsLine(BatchSent(s))
  PROVE  Answers(BatchSent(s), b, after)
<1> SUFFICES ASSUME b.state = "ready" PROVE Answers(BatchSent(s), b, after)
  BY DEF Answers
<1> DEFINE t == BatchSent(s)
           v == s.current.id
           w == s.current.events
           n == Len(s.outgoing)
<1>0. /\ IsLine(s) /\ ~s.closed /\ ServiceFields \subseteq DOMAIN s /\ ShapeInv(s) /\ WorkLeft(s)
      /\ SilentInv(s, said) /\ DOMAIN said = Utterances /\ IsLine(t) /\ v \in Ids /\ IsBrowser(b)
  BY IsInHand DEF InHand, SpeechInv, IsService, FenceInv, Answers
<1>1. /\ DiffersIn(t, s, {"outgoing", "current"}) /\ t.outgoing = s.outgoing \o w
      /\ t.current = NoBatch
  BY <1>0 DEF BatchSent, DiffersIn, ServiceFields
<1> HIDE DEF t
<1>2. /\ t.active = s.active /\ t.utterance = s.utterance /\ t.header = s.header
      /\ t.worker = s.worker /\ t.frames = s.frames /\ t.outbound = s.outbound
  BY <1>1 DEF DiffersIn, ServiceFields
<1>3. /\ n \in Nat /\ Len(t.outgoing) \in Nat
      /\ \A i \in 1 .. n : i \in 1 .. Len(t.outgoing) /\ t.outgoing[i] = s.outgoing[i]
      /\ \A i \in 1 .. Len(w) : n + i \in 1 .. Len(t.outgoing) /\ t.outgoing[n + i] = w[i]
      /\ \A i \in 1 .. Len(t.outgoing) :
           i \notin 1 .. n => i - n \in 1 .. Len(w) /\ t.outgoing[i] = w[i - n]
  <2>1. s.outgoing \in Seq(Events) /\ w \in Seq(Events)
    BY <1>0, BatchIs DEF Events
  <2> DEFINE x == t.outgoing
  <2>2. x = s.outgoing \o w
    BY <1>1
  <2> HIDE DEF x, w
  <2>3. /\ Len(x) = n + Len(w) /\ n \in Nat /\ Len(w) \in Nat
        /\ \A i \in 1 .. n : i \in 1 .. Len(x) /\ x[i] = s.outgoing[i]
        /\ \A i \in 1 .. Len(w) : n + i \in 1 .. Len(x) /\ x[n + i] = w[i]
        /\ \A i \in 1 .. Len(x) : ~(i <= n) => i - n \in 1 .. Len(w) /\ x[i] = w[i - n]
    BY <2>1, <2>2, Joined
  <2> QED BY <2>3 DEF x
<1>4. v = Nobody => Len(w) = 0
  BY <1>0 DEF ShapeInv
<1>5. ASSUME NEW i \in 1 .. Len(w)
      PROVE  /\ v \in Utterances /\ w[i].id = v
             /\ w[i].kind = "ended" => /\ Ends(s.current)
                                       /\ \/ \E j \in 1 .. i - 1 : w[j] = Event("final", v)
                                          \/ \E j \in 1 .. Len(w) : w[j] = Event("cancelled", v)
  <2>1. v \in Utterances /\ w \in Shapes(v)
    BY <1>0, <1>4, NobodyIsNone DEF ShapeInv, IsShaped, Ids
  <2>2. w[i].id = v
    BY <2>1, ShapesAre
  <2>3. CASE w = <<Event("partial", v)>>
    BY <2>1, <2>2, <2>3 DEF Event
  <2>4. CASE w = <<Event("final", v), Event("ended", v)>>
    BY <2>4, <2>1, <2>2 DEF Event, Ends
  <2>5. CASE w = <<Event("ended", v), Event("cancelled", v)>>
    BY <2>5, <2>1, <2>2 DEF Event, Ends
  <2>6. CASE w = <<Event("error", v), Event("ended", v), Event("cancelled", v)>>
    BY <2>6, <2>1, <2>2 DEF Event, Ends
  <2> QED BY <2>1, <2>3, <2>4, <2>5, <2>6 DEF Shapes
<1> HIDE DEF w
<1>6. ToBeHeard(s) \subseteq ToBeHeard(t) /\ \A i \in 1 .. Len(w) : w[i] \in ToBeHeard(t)
  <2>1. \A e : Sent(s, e) \/ (\E i \in 1 .. Len(w) : w[i] = e) => Sent(t, e)
    BY <1>3 DEF Sent
  <2>2. \A e : Queues(s, e) => Queues(t, e)
    BY <1>2 DEF Queues
  <2>3. \A e : Said(s.current, e) => \E i \in 1 .. Len(w) : w[i] = e
    BY DEF Said, w
  <2> QED BY <1>0, <2>1, <2>2, <2>3, ComingIs
<1>7. ShapeInv(t) /\ WorkLeft(t)
  <2>1. ShapeInv(t)
    BY <1>0, <1>1, <1>2 DEF ShapeInv, NoBatch
  <2>2. SameWork(s, t)
    BY <1>2 DEF SameWork, Awaits
  <2> QED BY <1>0, <2>1, <2>2, SameWorkIs
<1>8. SilentInv(t, after)
  <2> SUFFICES ASSUME NEW u \in Utterances, after[u] = "open", NEW i \in 1 .. Len(t.outgoing),
                      t.outgoing[i] = Event("ended", u)
               PROVE  FALSE
    BY DEF SilentInv
  <2>1. CASE i \in 1 .. n
    BY <1>0, <1>3, <2>1 DEF SilentInv
  <2>2. CASE i \notin 1 .. n
    <3>1. i - n \in 1 .. Len(w) /\ w[i - n] = Event("ended", u)
      BY <1>3, <2>2
    <3>2. u = v /\ Ends(s.current)
      BY <1>5, <3>1 DEF Event
    <3> QED BY <1>0, <3>2
  <2> QED BY <2>1, <2>2
<1>9. ASSUME NEW u, u = b.recording, u # Nobody
      PROVE  EndedInv(t, u) /\ WaitingInv(t, b)
  <2>1. EndedInv(s, u) /\ WaitingInv(s, b)
    BY <1>9 DEF Answers
  <2>2. WaitingInv(t, b)
    BY <1>2, <1>6, <1>9, <2>1, AnsweredIs DEF Pursued, WaitingInv
  <2>3. ASSUME NEW i \in 1 .. Len(t.outgoing), t.outgoing[i] = Event("ended", u),
               Event("cancelled", u) \notin ToBeHeard(t)
        PROVE  \E j \in 1 .. i - 1 : t.outgoing[j] = Event("final", u)
    <3>1. CASE i \in 1 .. n
      <4>1. PICK j \in 1 .. i - 1 : s.outgoing[j] = Event("final", u)
        BY <1>3, <1>6, <2>1, <2>3, <3>1 DEF EndedInv
      <4> QED BY <1>3, <3>1, <4>1
    <3>2. CASE i \notin 1 .. n
      <4>1. i - n \in 1 .. Len(w) /\ w[i - n] = Event("ended", u)
        BY <1>3, <2>3, <3>2
      <4>2. u = v
        BY <1>5, <4>1 DEF Event
      <4>3. PICK j \in 1 .. (i - n) - 1 : w[j] = Event("final", u)
        <5>1. \A j \in 1 .. Len(w) : w[j] # Event("cancelled", u)
          BY <1>6, <2>3
        <5>2. w[i - n].kind = "ended"
          BY <4>1 DEF Event
        <5> QED BY <1>5, <4>1, <4>2, <5>1, <5>2
      <4>4. j \in 1 .. Len(w) /\ n + j \in 1 .. i - 1
        BY <1>3, <4>1
      <4>5. t.outgoing[n + j] = Event("final", u)
        BY <1>3, <4>3, <4>4
      <4> QED BY <4>4, <4>5
    <3> QED BY <3>1, <3>2
  <2> QED BY <2>2, <2>3 DEF EndedInv
<1>10. Answers(t, b, after)
  BY <1>7, <1>8, <1>9 DEF Answers
<1> QED BY <1>10 DEF t

\* The browser stops waiting, or waits for nothing yet.
LEMMA NobodyWaits ==
  ASSUME NEW s, NEW b, NEW c, NEW said, Answers(s, b, said), b.state = "ready",
         c.recording = Nobody
  PROVE  Answers(s, c, said)
  BY DEF Answers

LEMMA RecordingFailedIs ==
  ASSUME NEW b, IsBrowser(b)
  PROVE  RecordingFailed(b).recording = Nobody
<1> DEFINE u == b.recording
           p == [b EXCEPT !.recording = Nobody, !.forwarding = FALSE]
<1>1. BrowserFields \subseteq DOMAIN p /\ p.recording = Nobody
  BY DEF IsBrowser, BrowserFields
<1>2. RecordingFailed(b) = UtteranceCancelled(p, u)
  BY DEF RecordingFailed
<1> HIDE DEF p, u
<1> QED BY <1>1, <1>2 DEF UtteranceCancelled, Sending, BrowserFields

LEMMA StartAnswers ==
  ASSUME NEW s, NEW b, NEW said, SpeechInv(s, b, said, Utterances), Answers(s, b, said),
         b.state = "ready", NEW u \in Utterances, b.status[u] = "none"
  PROVE  Answers(s, UtteranceStarted(b, u), said)
<1> DEFINE c == UtteranceStarted(b, u)
<1>1. /\ BrowserFields \subseteq DOMAIN b /\ b.status \in [Utterances -> Statuses]
  BY DEF SpeechInv, IsBrowser
<1>2. /\ c.recording = u /\ c.active = u /\ c.status[u] = "listening" /\ c.forwarding = TRUE
  BY <1>1 DEF UtteranceStarted, Sending, BrowserFields
<1> HIDE DEF c
<1>3. said[u] = "open"
  BY DEF SpeechInv, ChannelInv, IsCalled, IsUnknown, FenceInv, IsFenced, Unborn
<1>4. EndedInv(s, u)
  BY <1>3 DEF Answers, SilentInv, EndedInv
<1>5. Answers(s, c, said)
  BY <1>2, <1>4 DEF Answers, WaitingInv, Live
<1> QED BY <1>5 DEF c

LEMMA CaptureAnswers ==
  ASSUME NEW s, NEW b, NEW said, IsBrowser(b), Answers(s, b, said), b.state = "ready", b.forwarding
  PROVE  Answers(s, FrameCaptured(b), said)
<1>1. CASE EffectiveCredit(b) < 1
  BY <1>1, NobodyWaits, RecordingFailedIs DEF FrameCaptured
<1>2. CASE ~(EffectiveCredit(b) < 1)
  <2> DEFINE c == FrameCaptured(b)
  <2>1. LooksOn(c, b)
    BY <1>2 DEF FrameCaptured, Sending, IsBrowser, BrowserFields, LooksOn
  <2> HIDE DEF c
  <2>2. Answers(s, c, said)
    BY <2>1 DEF LooksOn, Answers, WaitingInv
  <2> QED BY <2>2 DEF c
<1> QED BY <1>1, <1>2

LEMMA StopAnswers ==
  ASSUME NEW s, NEW b, NEW said, IsBrowser(b), Answers(s, b, said), b.state = "ready", b.forwarding
  PROVE  Answers(s, UtteranceEnded(b), said)
<1> DEFINE u == b.recording
           c == UtteranceEnded(b)
           e == Event("end", u)
<1>1. /\ BrowserFields \subseteq DOMAIN b /\ b.status \in [Utterances -> Statuses]
      /\ u \in Utterances /\ b.outgoing \in Seq(Messages) /\ e \in Messages
  BY DEF IsBrowser, Ids, Event, Messages, Orders
<1> HIDE DEF e
<1>2. /\ c.recording = u /\ c.active = b.active /\ c.status[u] = "finalizing"
      /\ c.outgoing = b.outgoing \o <<e>>
  BY <1>1 DEF UtteranceEnded, Sending, BrowserFields, e
<1> HIDE DEF c
<1>3. e \in Range(c.outgoing)
  <2>1. Len(b.outgoing) + 1 \in DOMAIN c.outgoing /\ c.outgoing[Len(b.outgoing) + 1] = e
    BY <1>1, <1>2
  <2> QED BY <2>1 DEF Range
<1>4. Answers(s, c, said)
  BY <1>1, <1>2, <1>3, NobodyIsNone DEF Answers, WaitingInv, Live, e
<1> QED BY <1>4 DEF c

LEMMA MarkedOverIs ==
  ASSUME NEW b, IsBrowser(b), NEW v \in Utterances, NEW u, NEW status \in {"cancelled", "failed"},
         NEW over
  PROVE  LET c == MarkedOver(b, v, status, over)
         IN  /\ IsBrowser(c) /\ c.recording = b.recording /\ c.forwarding = b.forwarding
             /\ c.outgoing = b.outgoing
             /\ v # u /\ b.active = u => c.active = u /\ c.status[u] = b.status[u]
<1> DEFINE c == MarkedOver(b, v, status, over)
<1>1. IsBrowser(c)
  BY MarkedOverMoves DEF Moves
<1>2. /\ c.recording = b.recording /\ c.forwarding = b.forwarding /\ c.outgoing = b.outgoing
      /\ v # u /\ b.active = u => c.active = u /\ c.status[u] = b.status[u]
  BY DEF MarkedOver, IsBrowser, BrowserFields
<1> QED BY <1>1, <1>2

\* A recording goes on from b to c, whatever the browser has heard.
GoesOn(c, b, e, u) ==
  /\ c.recording = u /\ c.forwarding = b.forwarding /\ c.outgoing = b.outgoing
  /\ e # Event("error", u) /\ e # Event("cancelled", u)
  /\ b.active = u /\ b.status[u] \in Live =>
       /\ e # Event("final", u)
       /\ e # Event("ended", u) => c.active = u /\ c.status[u] = b.status[u]

LEMMA HeardIs ==
  ASSUME NEW b, IsBrowser(b), NEW e \in Events, NEW u, b.recording = u
  PROVE  \/ Heard(b, e).state # "ready" \/ Heard(b, e).recording = Nobody
         \/ GoesOn(Heard(b, e), b, e, u)
<1> DEFINE c == Heard(b, e)
           v == e.id
<1>0. BrowserFields \subseteq DOMAIN b
  BY DEF IsBrowser
<1>1. CASE e \in FlowEvents
  <2>1. e.kind = "flow" /\ c = FlowApplied(b, e)
    BY <1>1 DEF FlowEvents, Heard
  <2>2. c.state # "ready" \/ (LooksOn(c, b) /\ c.outgoing = b.outgoing)
    <3>1. Disconnected("aborted").state = "aborted"
      BY DEF Disconnected, SilentClient
    <3>2. \A x, y, z : /\ LooksOn([b EXCEPT !.available = x], b)
                     /\ LooksOn([b EXCEPT !.debits = y, !.watermark = z, !.available = x], b)
                     /\ [b EXCEPT !.available = x].outgoing = b.outgoing
                     /\ [b EXCEPT !.debits = y, !.watermark = z, !.available = x].outgoing = b.outgoing
      BY <1>0 DEF LooksOn, BrowserFields
    <3>3. \/ c = Disconnected("aborted") \/ c = [b EXCEPT !.available = e.available]
          \/ \E y, z : c = [b EXCEPT !.debits = y, !.watermark = z, !.available = e.available]
      BY <1>0, <2>1 DEF FlowApplied, BrowserFields
    <3> HIDE DEF c
    <3>4. CASE c = Disconnected("aborted")
      BY <3>1, <3>4
    <3>5. CASE c = [b EXCEPT !.available = e.available]
      BY <3>2, <3>5
    <3>6. ASSUME NEW y, NEW z, c = [b EXCEPT !.debits = y, !.watermark = z, !.available = e.available]
          PROVE  LooksOn(c, b) /\ c.outgoing = b.outgoing
      BY <3>2, <3>6
    <3> QED BY <3>3, <3>4, <3>5, <3>6
  <2> QED BY <2>1, <2>2 DEF GoesOn, LooksOn, Event
<1>2. CASE e \in Spoken
  <2>0. \/ e.kind \in Kinds /\ v \in Utterances /\ e = Event(e.kind, v)
        \/ e.kind = "error" /\ v \in Ids /\ e = Event(e.kind, v)
    BY <1>2 DEF Spoken, Event
  <2>1. \A k, w : e = Event(k, w) => e.kind = k /\ v = w
    BY DEF Event
  <2> HIDE DEF v
  <2>2. CASE e.kind = "partial"
    BY <1>0, <2>1, <2>2 DEF Heard, GoesOn
  <2>3. CASE e.kind = "ended"
    <3>1. c = MarkedOver(b, v, "cancelled", {"final", "cancelled", "failed"}) /\ v \in Utterances
      BY <2>0, <2>3 DEF Heard, v
    <3> HIDE DEF c
    <3>2. /\ c.recording = b.recording /\ c.forwarding = b.forwarding /\ c.outgoing = b.outgoing
          /\ v # u /\ b.active = u => c.active = u /\ c.status[u] = b.status[u]
      BY <3>1, MarkedOverIs
    <3>3. v = u => e = Event("ended", u)
      BY <2>0, <2>3
    <3>4. GoesOn(c, b, e, u)
      BY <2>1, <2>3, <3>2, <3>3 DEF GoesOn
    <3> QED BY <3>4 DEF c
  <2>4. CASE e.kind = "final"
    <3>1. c = FinalHeard(b, v) /\ v \in Utterances /\ e = Event("final", v)
      BY <2>0, <2>4 DEF Heard, v
    <3>2. CASE b.active # v \/ b.status[v] \notin Live
      <4>1. c = b
        BY <3>1, <3>2 DEF FinalHeard
      <4> HIDE DEF c
      <4> QED BY <2>1, <2>4, <3>1, <3>2, <4>1 DEF GoesOn, c
    <3>3. CASE ~(b.active # v \/ b.status[v] \notin Live)
      <4>1. /\ c.recording = IF b.recording = v THEN Nobody ELSE b.recording
            /\ c.forwarding = (b.forwarding /\ b.recording # v) /\ c.outgoing = b.outgoing
        BY <1>0, <3>1, <3>3 DEF FinalHeard, BrowserFields
      <4>1a. c.recording = IF b.recording = v THEN Nobody ELSE b.recording
        BY <4>1
      <4> HIDE DEF c
      <4>2. b.forwarding \in BOOLEAN
        BY DEF IsBrowser
      <4>3. c.recording = Nobody \/ (v # u /\ c.recording = u /\ c.forwarding = b.forwarding)
        <5>1. CASE b.recording = v
          BY <4>1a, <5>1
        <5>2. CASE b.recording # v
          <6>1. v # u /\ c.recording = u
            BY <4>1a, <5>2
          <6>2. c.forwarding = b.forwarding
            BY <4>1, <4>2, <5>2, Zenon
          <6> QED BY <6>1, <6>2
        <5> QED BY <5>1, <5>2
      <4>4. c.recording = Nobody \/ GoesOn(c, b, e, u)
        BY <2>1, <2>4, <3>3, <4>1, <4>3 DEF GoesOn
      <4> QED BY <4>4 DEF c
    <3> QED BY <3>2, <3>3
  <2>5. CASE e.kind \in {"cancelled", "error"}
    <3> DEFINE d == IF v = Nobody THEN b
                    ELSE MarkedOver(b, v, IF e.kind = "error" THEN "failed" ELSE "cancelled", {"final"})
    <3>1. v \in Ids /\ (v = Nobody => e.kind = "error")
      BY <2>0, <2>5, NobodyIsNone DEF Ids
    <3>2. /\ IsBrowser(d)
          /\ d.recording = b.recording /\ d.forwarding = b.forwarding /\ d.outgoing = b.outgoing
          /\ v # u /\ b.active = u => d.active = u /\ d.status[u] = b.status[u]
      <4>1. CASE v = Nobody
        BY <4>1
      <4>2. CASE v # Nobody
        BY <3>1, <4>2, MarkedOverIs DEF Ids
      <4> QED BY <4>1, <4>2
    <3>3. \/ c = RecordingFailed(d)
          \/ c = d /\ (u # Nobody => v # u /\ v # Nobody)
      <4>1. CASE e.kind = "cancelled"
        BY <3>1, <4>1 DEF Heard, v, CancellationHeard
      <4>2. CASE e.kind = "error"
        BY <4>2, <3>2 DEF Heard, v, ErrorHeard
      <4> QED BY <2>5, <4>1, <4>2
    <3> HIDE DEF d, c
    <3>4. CASE c = RecordingFailed(d)
      BY <3>2, <3>4, RecordingFailedIs DEF c
    <3>5. CASE c = d /\ u # Nobody /\ v # u /\ v # Nobody
      BY <2>1, <2>5, <3>2, <3>5 DEF GoesOn, c
    <3>6. CASE c = d /\ u = Nobody
      BY <3>2, <3>6 DEF c
    <3> QED BY <3>3, <3>4, <3>5, <3>6
  <2> QED BY <2>0, <2>2, <2>3, <2>4, <2>5 DEF Kinds
<1> QED BY <1>1, <1>2 DEF Events

\* What the browser hears ends the wait of the player, or more is to be heard.
LEMMA HeardAnswers ==
  ASSUME NEW s, NEW b, NEW said, SpeechInv(s, b, said, Utterances), Answers(s, b, said),
         b.state = "ready", s.outgoing # <<>>
  PROVE  Answers([s EXCEPT !.outgoing = Tail(@)], Heard(b, Head(s.outgoing)), said)
<1> DEFINE t == [s EXCEPT !.outgoing = Tail(@)]
           q == s.outgoing
           e == Head(q)
           c == Heard(b, e)
<1>0. /\ IsLine(s) /\ ShapeInv(s) /\ WorkLeft(s) /\ SilentInv(s, said) /\ IsBrowser(b)
      /\ ServiceFields \subseteq DOMAIN s /\ q \in Seq(Events)
  BY IsInHand DEF InHand, IsService, Answers
<1>1. DiffersIn(t, s, {"outgoing"}) /\ t.outgoing = Tail(q)
  BY <1>0 DEF DiffersIn, ServiceFields
<1> HIDE DEF t
<1>2. /\ t.active = s.active /\ t.utterance = s.utterance /\ t.header = s.header
      /\ t.worker = s.worker /\ t.frames = s.frames
      /\ t.outbound = s.outbound /\ t.current = s.current
  BY <1>1 DEF DiffersIn, ServiceFields
<1>3. /\ Len(q) \in Nat /\ 1 \in 1 .. Len(q) /\ e = q[1] /\ e \in Events
      /\ Len(t.outgoing) = Len(q) - 1
      /\ \A i \in 1 .. Len(t.outgoing) : i + 1 \in 1 .. Len(q) /\ t.outgoing[i] = q[i + 1]
      /\ Tail(q) \in Seq(Events)
  BY <1>0, <1>1
<1> HIDE DEF e
<1>4. ASSUME NEW x \in ToBeHeard(s), x # e
      PROVE  x \in ToBeHeard(t)
  <2>1. IsLine(t)
    BY <1>0, <1>1, <1>3 DEF IsLine, DiffersIn, ServiceFields
  <2>2. ASSUME NEW i \in 1 .. Len(q), q[i] = x
        PROVE  Sent(t, x)
    <3>1. i - 1 \in 1 .. Len(t.outgoing) /\ (i - 1) + 1 = i
      BY <1>3, <1>4, <2>2
    <3> QED BY <1>3, <2>2, <3>1 DEF Sent
  <2>3. Queues(s, x) => Queues(t, x)
    BY <1>2 DEF Queues
  <2> QED BY <1>0, <1>2, <2>1, <2>2, <2>3, ComingIs DEF Sent
<1>5. ShapeInv(t) /\ WorkLeft(t)
  BY <1>0, <1>2, SameWorkIs DEF ShapeInv, SameWork, Awaits
<1>6. SilentInv(t, said)
  BY <1>0, <1>3 DEF SilentInv
<1>7. ASSUME NEW u, u = c.recording, u # Nobody, c.state = "ready"
      PROVE  EndedInv(t, u) /\ WaitingInv(t, c)
  <2>1. GoesOn(c, b, e, b.recording)
    BY <1>0, <1>3, <1>7, HeardIs
  <2>2. /\ b.recording = u /\ c.forwarding = b.forwarding /\ c.outgoing = b.outgoing
        /\ e # Event("error", u) /\ e # Event("cancelled", u)
        /\ b.active = u /\ b.status[u] \in Live =>
             /\ e # Event("final", u)
             /\ e # Event("ended", u) => c.active = u /\ c.status[u] = b.status[u]
    BY <1>7, <2>1 DEF GoesOn
  <2> HIDE DEF c
  <2>3. EndedInv(s, u) /\ WaitingInv(s, b)
    BY <1>7, <2>2 DEF Answers
  <2>4. /\ Event("cancelled", u) \in ToBeHeard(s) => Event("cancelled", u) \in ToBeHeard(t)
        /\ e = Event("ended", u) => Event("cancelled", u) \in ToBeHeard(t)
        /\ e = Event("final", u) => Event("cancelled", u) \in ToBeHeard(t)
    <3>1. Event("cancelled", u) \in ToBeHeard(s) => Event("cancelled", u) \in ToBeHeard(t)
      BY <1>4, <2>2
    <3>2. e = Event("ended", u) => Event("cancelled", u) \in ToBeHeard(s)
      <4>1. ASSUME q[1] = Event("ended", u), Event("cancelled", u) \notin ToBeHeard(s)
            PROVE  FALSE
        BY <1>3, <2>3, <4>1 DEF EndedInv
      <4> QED BY <1>3, <4>1
    <3>3. e = Event("final", u) => Event("cancelled", u) \in ToBeHeard(s)
      BY <2>2, <2>3 DEF WaitingInv
    <3> QED BY <3>1, <3>2, <3>3
  <2>5. IsAnswered(s, u) => IsAnswered(t, u)
    BY <1>4, <2>2, <2>4, AnsweredIs
  <2>6. Pursued(s, u) => Pursued(t, u)
    BY <1>2 DEF Pursued
  <2>7. WaitingInv(t, c)
    BY <1>7, <2>2, <2>3, <2>4, <2>5, <2>6 DEF WaitingInv
  <2>8. ASSUME NEW i \in 1 .. Len(t.outgoing), t.outgoing[i] = Event("ended", u),
               Event("cancelled", u) \notin ToBeHeard(t)
        PROVE  \E j \in 1 .. i - 1 : t.outgoing[j] = Event("final", u)
    <3>0. i + 1 \in 1 .. Len(q) /\ t.outgoing[i] = q[i + 1] /\ (i + 1) - 1 = i
      BY <1>3
    <3>1. i + 1 \in 1 .. Len(q) /\ q[i + 1] = Event("ended", u) /\ (i + 1) - 1 = i
      BY <2>8, <3>0
    <3>2. PICK j \in 1 .. i : q[j] = Event("final", u)
      BY <2>3, <2>4, <2>8, <3>1 DEF EndedInv
    <3>3. j # 1
      BY <1>3, <2>4, <2>8, <3>2
    <3>4. /\ j - 1 \in 1 .. i - 1 /\ j - 1 \in 1 .. Len(t.outgoing) /\ (j - 1) + 1 = j
      BY <1>3, <3>1, <3>3
    <3>5. t.outgoing[j - 1] = q[j]
      BY <1>3, <3>4
    <3> QED BY <3>2, <3>4, <3>5
  <2> QED BY <2>7, <2>8 DEF EndedInv
<1> QED BY <1>5, <1>6, <1>7 DEF Answers, t, e

-----------------------------------------------------------------------------
(* Every step *)

LEMMA SilenceIsInOrder == Init => TranscriptionInv
<1> SUFFICES ASSUME Init PROVE TranscriptionInv
  OBVIOUS
<1> DEFINE s == service
           b == browser
<1>1. /\ s.closed = FALSE /\ s.active = Nobody /\ s.utterance = [u \in Utterances |-> Fresh]
      /\ s.terminal = [u \in Utterances |-> "none"] /\ s.header = NoFrame /\ s.frames = <<>>
      /\ s.reserved = {} /\ s.credited = Nobody /\ s.through = -1 /\ s.worker = NoFrame
      /\ s.creating = Nobody /\ s.fence = [u \in Utterances |-> "none"]
      /\ s.outbound = <<>> /\ s.current = NoBatch /\ s.leases = {} /\ s.lane = Nobody
      /\ s.session = [u \in Utterances |-> "none"] /\ s.overrun = FALSE /\ s.outgoing = <<>>
      /\ ServiceFields \subseteq DOMAIN s
  BY DEF Init, SilentService, ServiceFields
<1>2. /\ b.state = "ready" /\ b.status = [u \in Utterances |-> "none"] /\ b.active = Nobody
      /\ b.sent = [u \in Utterances |-> 0] /\ b.debits = {}
      /\ b.watermark = [u \in Utterances |-> -1] /\ b.available = InputFrames
      /\ b.recording = Nobody /\ b.forwarding = FALSE /\ b.outgoing = <<>>
      /\ BrowserFields \subseteq DOMAIN b
  BY DEF Init, SilentClient, BrowserFields
<1>3. told = [u \in Utterances |-> "open"]
  BY DEF Init
<1> HIDE DEF s, b
<1>4. /\ InputFrames \in Nat /\ IsFiniteSet({}) /\ Cardinality({}) = 0
      /\ <<>> \in Seq(Frames) /\ <<>> \in Seq(Batches) /\ <<>> \in Seq(Events)
      /\ <<>> \in Seq(Messages) /\ <<>> \in Seq(Spoken) /\ Len(<<>>) = 0
  BY FS_EmptySet, ServiceAssumption
<1>5. /\ Fresh \in UtteranceRecords /\ Fresh.next = 0 /\ Fresh.reason = "none"
      /\ Fresh.finalizer = "none"
  BY DEF Fresh, UtteranceRecords
<1>6. IsService(s)
  <2>1. /\ s.utterance \in [Utterances -> UtteranceRecords]
        /\ s.terminal \in [Utterances -> Terminals]
        /\ s.session \in [Utterances -> Sessions] /\ s.fence \in [Utterances -> Fences]
    BY <1>1, <1>5 DEF Terminals, Sessions, Fences
  <2>2. s.current \in [id : Ids, events : Seq(Spoken), cut : BOOLEAN]
    BY <1>1, <1>4 DEF NoBatch, Ids
  <2>3. s.closed \in BOOLEAN /\ s.overrun \in BOOLEAN
    BY <1>1
  <2>4. /\ s.active \in Ids /\ s.creating \in Ids /\ s.credited \in Ids /\ s.through \in Int
        /\ s.header \in Frames \cup {NoFrame} /\ s.worker \in Frames \cup {NoFrame}
        /\ s.frames \in Seq(Frames) /\ s.reserved \subseteq Frames /\ IsFiniteSet(s.reserved)
        /\ s.outbound \in Seq(Batches) /\ s.outgoing \in Seq(Events)
    BY <1>1, <1>4 DEF Ids
  <2> QED BY <1>1, <2>1, <2>2, <2>3, <2>4 DEF IsService
<1>7. IsBrowser(b)
  <2>1. /\ b.status \in [Utterances -> Statuses] /\ b.sent \in [Utterances -> Nat]
        /\ b.watermark \in [Utterances -> Int]
    BY <1>2 DEF Statuses
  <2>2. b.debits \subseteq Frames /\ IsFiniteSet(b.debits)
    BY <1>2, <1>4
  <2>3. /\ b.active \in Ids /\ b.recording \in Ids /\ b.available \in Int
        /\ b.state \in {"ready", "closed"} /\ b.outgoing \in Seq(Messages)
    BY <1>2, <1>4 DEF Ids
  <2>4. b.forwarding \in BOOLEAN /\ ~b.forwarding
    BY <1>2
  <2> QED BY <1>2, <2>1, <2>2, <2>3, <2>4 DEF IsBrowser
<1>8. ASSUME NEW u \in Utterances
      PROVE  /\ u # Nobody /\ NoFrame[1] # u
             /\ s.utterance[u] = Fresh /\ s.terminal[u] = "none" /\ s.session[u] = "none"
             /\ s.fence[u] = "none" /\ b.status[u] = "none" /\ b.sent[u] = 0
             /\ b.watermark[u] = -1 /\ told[u] = "open"
  BY <1>1, <1>2, <1>3, NobodyIsNone DEF NoFrame
<1>9. WorkInv(s, Utterances)
  <2>1. ASSUME NEW u \in Utterances
        PROVE  /\ HoldsRecognizer(s, u) /\ StillSilent(s, u) /\ IsWhole(s, u)
               /\ HeardInOrder(s, u)
    BY <1>1, <1>5, <1>8, <1>4 DEF HoldsRecognizer, StillSilent, IsWhole, HeardInOrder
  <2> QED BY <1>1, <2>1, NobodyIsNone DEF WorkInv
<1>10. FenceInv(s, told)
  <2>1. ASSUME NEW u \in Utterances
        PROVE  IsFenced(s, told, u)
    BY <1>1, <1>8, <1>4 DEF NoBatch, IsFenced
  <2> QED BY <1>3, <2>1 DEF FenceInv
<1>11. ChannelInv(s, b, Utterances)
  <2>1. ASSUME NEW u \in Utterances
        PROVE  IsCalled(s, b, u) /\ ~Awaited(s, b, u)
    <3>1. ~Awaited(s, b, u)
      BY <1>1, <1>2, <1>4, <1>8 DEF Awaited, Listening
    <3>2. IsUnknown(s, b, u) /\ ~Ended(s, b, u)
      BY <1>2, <1>4, <1>5, <1>8 DEF IsUnknown, Ended
    <3> QED BY <1>1, <1>2, <1>4, <1>5, <1>8, <3>1, <3>2 DEF IsCalled
  <2> QED BY <1>1, <1>2, <1>4, <2>1 DEF ChannelInv
<1>12. CreditInv(s, b)
  <2>1. UnderWay(s, b) = {}
    BY <1>8 DEF UnderWay, Frames
  <2>2. Taken(s, b) = {} /\ Taken(s, b) \ b.debits = {}
    BY <1>1, <2>1 DEF Taken
  <2>3. /\ Cardinality(Taken(s, b)) <= InputFrames
        /\ Cardinality(Taken(s, b) \ b.debits) + b.available <= InputFrames
    BY <1>2, <1>4, <2>2
  <2>4. Len(Line(s)) = 0
    BY <1>1, <1>4, LineOfIs DEF Line, LineOf
  <2>5. \A u \in Utterances : b.watermark[u] < s.utterance[u].next
    BY <1>5, <1>8
  <2>6. s.overrun = FALSE /\ s.credited = Nobody /\ s.active = Nobody
    BY <1>1
  <2> QED BY <2>1, <2>3, <2>4, <2>5, <2>6 DEF CreditInv
<1>13. Sorted(s)
  BY <1>1 DEF Sorted
<1> QED
  BY <1>6, <1>7, <1>9, <1>10, <1>11, <1>12, <1>13 DEF SpeechInv, TranscriptionInv, s, b

LEMMA AfterIs ==
  ASSUME NEW s, NEW b, NEW said, SpeechInv(s, b, said, Utterances)
  PROVE  IsService(s) /\ IsBrowser(b) /\ IsLine(s)
  BY ServiceIsLine DEF SpeechInv

\* Whatever the service does on its own, with what it sends at once
LEMMA Served ==
  ASSUME AnswerInv, NEW after, SpeechInv(after, browser, told, Utterances),
         InHand(service) => Progresses(service, after), Serve(after) \/ Faulty(after)
  PROVE  AnswerInv'
<1> DEFINE s == service
           b == browser
<1>1. SpeechInv(s, b, told, Utterances) /\ Answers(s, b, told)
  BY DEF AnswerInv, TranscriptionInv
<1>2. IsService(after) /\ IsBrowser(b) /\ IsLine(after) /\ IsLine(s)
  BY <1>1, AfterIs
<1>3. b.state = "ready" => Progresses(s, after)
  BY <1>1, IsInHand
<1>4. Answers(after, b, told)
  BY <1>1, <1>2, <1>3, ProgressAnswers DEF LooksOn
<1>5. Answers(PlainSent(after), b, told)
  BY <1>2, <1>4, PlainSentAnswers
<1>6. SpeechInv(PlainSent(after), b, told, Utterances) /\ Sorted(PlainSent(after))
  BY PlainSentKeeps
<1>7. service' = PlainSent(after) /\ browser' = b /\ told' = told
  BY DEF Serve, Faulty
<1> QED BY <1>5, <1>6, <1>7 DEF AnswerInv, TranscriptionInv

\* The service handles the next message of the browser.
LEMMA ReceiveKeeps ==
  ASSUME AnswerInv, Receive
  PROVE  AnswerInv'
<1> DEFINE s == service
           b == browser
           c == [b EXCEPT !.outgoing = Tail(@)]
           m == Head(b.outgoing)
           u == m.id
           t == Handled(m)
<1>1. /\ SpeechInv(s, b, told, Utterances) /\ Receives(s) /\ IsBrowser(b) /\ b.outgoing # <<>>
      /\ service' = PlainSent(t) /\ browser' = c /\ told' = told /\ Answers(s, b, told)
  BY DEF Receive, AnswerInv, TranscriptionInv, SpeechInv
<1>2. IsPopped(c, b)
  BY <1>1, PoppedIs
<1>3. m = b.outgoing[1] /\ m \in Messages
  BY <1>2 DEF IsPopped
<1> HIDE DEF c, m
<1>4. /\ m.kind \in {"start", "header", "binary", "end", "cancel"}
      /\ u \in Utterances /\ (m.kind = "header" => m.sequence \in Nat)
  BY <1>3 DEF Messages, Orders
<1>5. /\ SpeechInv(t, c, told, Utterances)
      /\ InHand(s) => Progresses(s, t)
      /\ m = Event("end", u) /\ b.state = "ready" => Pursued(t, u) \/ IsAnswered(t, u)
  <2>1. CASE m.kind = "start"
    BY <1>1, <1>2, <1>3, <1>4, <2>1, StartRequestedKeeps, CreationProgresses DEF
       Handled, Event
  <2>2. CASE m.kind = "header"
    <3>1. SpeechInv(HeaderAccepted(s, u, m.sequence), c, told, Utterances)
      BY <1>1, <1>2, <1>3, <1>4, <2>2, HeaderAcceptedKeeps
    <3>2. InHand(s) => Progresses(s, HeaderAccepted(s, u, m.sequence))
      BY <1>4, <3>1, AfterIs, HeaderProgresses
    <3> QED BY <2>2, <3>1, <3>2 DEF Handled, Event
  <2>3. CASE m.kind = "binary"
    BY <1>1, <1>2, <1>3, <2>3, BinaryAcceptedKeeps, AfterIs, BinaryProgresses DEF
       Handled, Event
  <2>4. CASE m.kind = "end"
    <3>1. SpeechInv(EndRequested(s, u), c, told, Utterances)
      BY <1>1, <1>2, <1>3, <1>4, <2>4, EndRequestedKeeps
    <3>2. b.state = "ready" => s.header = NoFrame
      BY <1>1, <1>3, <2>4 DEF SpeechInv, ChannelInv
    <3>3. b.state # "ready" => b.outgoing = <<>>
      BY <1>1 DEF SpeechInv, ChannelInv
    <3>4. InHand(s) => /\ Progresses(s, EndRequested(s, u))
                       /\ Pursued(EndRequested(s, u), u) \/ IsAnswered(EndRequested(s, u), u)
      BY <1>1, <1>4, <3>2, <3>3, EndProgresses
    <3> QED BY <1>1, <2>4, <3>1, <3>4, IsInHand DEF Handled
  <2>5. CASE m.kind = "cancel"
    <3>1. SpeechInv(s, c, told, Utterances)
      BY <1>1, <1>2, <1>3, <2>5, OtherMessage
    <3>2. SpeechInv(Cancelled(s, u), c, told, Utterances)
      BY <1>4, <3>1, CancelledKeeps
    <3>3. InHand(s) => Progresses(s, Cancelled(s, u))
      BY <1>4, <3>2, AfterIs, CancelledProgresses
    <3> QED BY <2>5, <3>2, <3>3 DEF Handled, Event
  <2> QED BY <1>4, <2>1, <2>2, <2>3, <2>4, <2>5
<1> HIDE DEF t
<1>6. IsService(t) /\ IsLine(t) /\ IsLine(s) /\ IsBrowser(c)
  BY <1>1, <1>5, AfterIs
<1>7. ASSUME NEW v, Event("end", v) \in Range(b.outgoing), b.state = "ready"
      PROVE  \/ Event("end", v) \in Range(c.outgoing)
             \/ Pursued(t, v) \/ IsAnswered(t, v)
  <2>1. DOMAIN b.outgoing = 1 .. Len(b.outgoing) /\ DOMAIN c.outgoing = 1 .. Len(c.outgoing)
    BY <1>1, <1>6 DEF IsBrowser
  <2>2. PICK i \in 1 .. Len(b.outgoing) : b.outgoing[i] = Event("end", v)
    BY <1>7, <2>1 DEF Range
  <2>3. CASE i = 1
    BY <1>3, <1>5, <1>7, <2>2, <2>3 DEF Event
  <2>4. CASE i # 1
    <3>1. i - 1 \in 1 .. Len(c.outgoing) /\ (i - 1) + 1 = i
      BY <1>2, <2>4 DEF IsPopped
    <3>2. c.outgoing[i - 1] = b.outgoing[i]
      BY <1>2, <3>1 DEF IsPopped
    <3> QED BY <2>1, <2>2, <3>1, <3>2 DEF Range
  <2> QED BY <2>3, <2>4
<1>8. Answers(t, c, told)
  <2>1. LooksOn(c, b) /\ (b.state = "ready" => Progresses(s, t))
    BY <1>1, <1>2, <1>5, IsInHand DEF LooksOn, IsPopped
  <2>2. CASE b.state = "ready"
    BY <1>1, <1>6, <1>7, <2>1, <2>2, ProgressAnswers
  <2> QED BY <2>1, <2>2 DEF LooksOn, Answers
<1>9. /\ SpeechInv(PlainSent(t), c, told, Utterances) /\ Sorted(PlainSent(t))
      /\ Answers(PlainSent(t), c, told)
  BY <1>5, <1>6, <1>8, PlainSentKeeps, PlainSentAnswers
<1> QED BY <1>1, <1>9 DEF AnswerInv, TranscriptionInv

LEMMA ClientKeeps ==
  ASSUME AnswerInv, Client \/ HearEvent
  PROVE  AnswerInv'
<1>0. /\ SpeechInv(service, browser, told, Utterances) /\ Sorted(service)
      /\ IsBrowser(browser) /\ Answers(service, browser, told)
  BY AfterIs DEF AnswerInv, TranscriptionInv
<1>1. CASE StartRecording
  BY <1>1, <1>0, UtteranceStartedKeeps, StartAnswers DEF StartRecording, Ready,
     AnswerInv, TranscriptionInv
<1>2. CASE CaptureFrame
  BY <1>2, <1>0, FrameCapturedKeeps, CaptureAnswers DEF CaptureFrame, Ready, AnswerInv,
     TranscriptionInv
<1>3. CASE StopRecording
  BY <1>3, <1>0, UtteranceEndedKeeps, StopAnswers DEF StopRecording, Ready, AnswerInv,
     TranscriptionInv
<1>4. CASE FinalTimesOut
  BY <1>4, <1>0, RecordingFailedKeeps, RecordingFailedIs, NobodyWaits DEF
     FinalTimesOut, Ready, AnswerInv, TranscriptionInv
<1>5. CASE HearEvent
  <2> DEFINE t == [service EXCEPT !.outgoing = Tail(@)]
  <2>1. /\ browser.state = "ready" /\ service.outgoing # <<>>
        /\ browser' = Heard(browser, Head(service.outgoing)) /\ service' = t /\ told' = told
    BY <1>5 DEF HearEvent, Ready
  <2>2. /\ SpeechInv(t, Heard(browser, Head(service.outgoing)), told, Utterances)
        /\ Answers(t, Heard(browser, Head(service.outgoing)), told)
    BY <1>0, <2>1, EventHeardKeeps, HeardAnswers
  <2>3. t.current = service.current /\ t.outbound = service.outbound
    BY <1>0 DEF SpeechInv, IsService, ServiceFields
  <2>4. Sorted(t)
    BY <1>0, <2>3 DEF Sorted
  <2> QED BY <2>1, <2>2, <2>4 DEF AnswerInv, TranscriptionInv
<1> QED BY <1>1, <1>2, <1>3, <1>4, <1>5 DEF Client

\* What the recognizers of the provider do.
LEMMA ProviderKeeps ==
  ASSUME AnswerInv, Provider
  PROVE  AnswerInv'
<1> DEFINE s == service
           b == browser
           Keeps(after) == /\ SpeechInv(after, b, told, Utterances)
                           /\ InHand(s) => Progresses(s, after)
<1>0. /\ SpeechInv(s, b, told, Utterances)
      /\ s.creating # Nobody => s.creating \in Utterances
  BY DEF AnswerInv, TranscriptionInv, SpeechInv, IsService, Ids
<1>1. ASSUME NEW after, Keeps(after), Serve(after) \/ Faulty(after)
      PROVE  AnswerInv'
  BY <1>1, Served
<1>2. CASE CreateRecognizer
  BY <1>0, <1>2, <1>1, AdoptedKeeps, AfterIs, AdoptedProgresses DEF CreateRecognizer
<1>3. CASE FailCreation \/ AbandonCreation
  BY <1>0, <1>3, <1>1, CreationFailedKeeps, CreationProgresses DEF FailCreation,
     AbandonCreation
<1>4. CASE DisposeAbandoned
  BY <1>4, <1>0, <1>1, AbandonedCreatedKeeps, CreationProgresses DEF DisposeAbandoned
<1>5. CASE HearFrame
  BY <1>5, <1>0, <1>1, FrameHeardKeeps, AfterIs, FrameHeardProgresses DEF HearFrame
<1>6. CASE FailFrame
  BY <1>6, <1>0, <1>1, FrameFailedKeeps, AfterIs, FrameFailedProgresses DEF FailFrame
<1>7. CASE Finish
  <2>1. PICK u \in Utterances :
          /\ s.utterance[u].finalizer = "running"
          /\ \/ Serve(Finalized(FinishOver(s, u, FALSE), u))
             \/ Faulty(FinalizeFailed(FinishOver(s, u, FALSE), u))
             \/ Faulty(FinalizeFailed(FinishOver(s, u, TRUE), u))
    BY <1>7 DEF Finish
  <2>2. ASSUME NEW raised
        PROVE  Keeps(Finalized(FinishOver(s, u, raised), u))
    BY <1>0, <2>1, FinalizedKeeps, FinalizedProgresses, ReturnedIs
  <2>3. ASSUME NEW raised
        PROVE  Keeps(FinalizeFailed(FinishOver(s, u, raised), u))
    BY <1>0, <2>1, FinishFailedKeeps, AfterIs, FinishFailedProgresses, ReturnedIs
  <2> QED BY <1>1, <2>1, <2>2, <2>3
<1>8. CASE GiveUpFinish
  BY <1>8, <1>0, <1>1, GiveUpKeeps, AfterIs, FinishFailedProgresses, ReturnedIs DEF
     GiveUpFinish
<1>9. CASE LateFinish
  BY <1>9, <1>0, <1>1, LateFinishKeeps, LateProgresses DEF LateFinish
<1>10. CASE Release
  BY <1>10, <1>0, <1>1, ReleasedKeeps, CreationProgresses DEF Release
<1> QED BY <1>2, <1>3, <1>4, <1>5, <1>6, <1>7, <1>8, <1>9, <1>10 DEF Provider

\* What the tasks of the service do on their own.
LEMMA TasksKeep ==
  ASSUME AnswerInv, Tasks
  PROVE  AnswerInv'
<1> DEFINE s == service
           b == browser
           Keeps(after) == /\ SpeechInv(after, b, told, Utterances)
                           /\ InHand(s) => Progresses(s, after)
<1>0. /\ SpeechInv(s, b, told, Utterances) /\ Sorted(s) /\ Answers(s, b, told)
      /\ s.active # Nobody => s.active \in Utterances
  BY DEF AnswerInv, TranscriptionInv, SpeechInv, IsService, Ids
<1>1. ASSUME NEW after, Keeps(after), Serve(after)
      PROVE  AnswerInv'
  BY <1>1, Served
<1>2. CASE Receive
  BY <1>2, ReceiveKeeps
<1>3. CASE TakeFrame
  BY <1>3, <1>0, <1>1, FrameTakenKeeps, FrameTakenProgresses DEF TakeFrame
<1>4. CASE IdleExpires
  <2> DEFINE u == s.active
  <2>1. u \in Utterances /\ Serve(Failed(s, u, "idle")) /\ s.active = u
    BY <1>0, <1>4 DEF IdleExpires
  <2> HIDE DEF u
  <2>2. SpeechInv(s, b, told, Utterances \ {u}) /\ "idle" \in Fences
    BY <1>0, SettledShrinks DEF Fences
  <2>3. SpeechInv(Failed(s, u, "idle"), b, told, Utterances)
    BY <2>1, <2>2, FailedKeeps
  <2>4. Keeps(Failed(s, u, "idle"))
    BY <2>1, <2>3, AfterIs, AsItWas, FailedProgresses
  <2> QED BY <1>1, <2>1, <2>4
<1>5. CASE TakeBatch
  BY <1>5, <1>0, <1>1, BatchTakenKeeps, AfterIs, BatchTakenProgresses DEF TakeBatch
<1>6. CASE SendBatch
  <2> DEFINE after == told'
  <2>1. /\ service' = PlainSent(BatchSent(s)) /\ browser' = b
        /\ after = IF s.closed THEN told ELSE Told(s.current)
    BY <1>6 DEF SendBatch
  <2>2. /\ s.closed => after = told
        /\ ~s.closed => after = [told EXCEPT ![s.current.id] =
                                   IF @ # "open" THEN "late"
                                   ELSE IF Ends(s.current) THEN "ended" ELSE @]
    BY <2>1 DEF Told
  <2> HIDE DEF after
  <2>3. SpeechInv(BatchSent(s), b, after, Utterances)
    BY <1>0, <2>2, BatchSentKeeps
  <2>4. IsService(BatchSent(s)) /\ IsLine(BatchSent(s)) /\ IsBrowser(b)
    BY <2>3, AfterIs
  <2>5. Answers(BatchSent(s), b, after)
    BY <1>0, <2>2, <2>4, BatchSentAnswers
  <2>6. /\ SpeechInv(PlainSent(BatchSent(s)), b, after, Utterances)
        /\ Sorted(PlainSent(BatchSent(s))) /\ Answers(PlainSent(BatchSent(s)), b, after)
    BY <2>3, <2>4, <2>5, PlainSentKeeps, PlainSentAnswers
  <2> QED BY <2>1, <2>6 DEF AnswerInv, TranscriptionInv, after
<1>7. CASE DropBatch
  BY <1>7, <1>0, <1>1, BatchDroppedKeeps, AfterIs, BatchDroppedProgresses DEF DropBatch
<1>8. CASE Resume
  BY <1>8, <1>0, <1>1, ResumeKeeps, ResumeProgresses DEF Resume
<1> QED BY <1>2, <1>3, <1>4, <1>5, <1>6, <1>7, <1>8 DEF Tasks

LEMMA NextKeeps == AnswerInv /\ [Next]_vars => AnswerInv'
<1> SUFFICES ASSUME AnswerInv, [Next]_vars
             PROVE  AnswerInv'
  OBVIOUS
<1>1. CASE Client \/ HearEvent
  BY <1>1, ClientKeeps
<1>2. CASE Provider
  BY <1>2, ProviderKeeps
<1>3. CASE Tasks
  BY <1>3, TasksKeep
<1>4. CASE HangUp
  BY <1>4, HangUpKeeps DEF HangUp, AnswerInv, TranscriptionInv, Answers, Disconnected,
     SilentClient
<1>5. CASE UNCHANGED vars
  BY <1>5 DEF vars, AnswerInv, TranscriptionInv
<1> QED BY <1>1, <1>2, <1>3, <1>4, <1>5 DEF Next

-----------------------------------------------------------------------------
(* Theorems *)

LEMMA AnswersStay == Spec => []AnswerInv
<1>1. Init => AnswerInv
  <2> SUFFICES ASSUME Init PROVE AnswerInv
    OBVIOUS
  <2>1. /\ service.outbound = <<>> /\ service.current = NoBatch /\ service.active = Nobody
        /\ service.outgoing = <<>> /\ browser.recording = Nobody
    BY DEF Init, SilentService, SilentClient
  <2>2. ShapeInv(service) /\ WorkLeft(service) /\ SilentInv(service, told)
    BY <2>1 DEF ShapeInv, WorkLeft, SilentInv, NoBatch
  <2> QED BY <2>1, <2>2, SilenceIsInOrder DEF AnswerInv, Answers
<1> QED BY <1>1, NextKeeps, PTL DEF Spec

\* What the service, the browser and the messages between them are at any time:
\* who holds a recognizer and who works for it, which frames are heard and which
\* are on their way, what is queued of which utterance, and the credit that
\* covers every frame.
THEOREM TranscriptionStaysInOrder == Spec => []TranscriptionInv
<1>1. AnswerInv => TranscriptionInv
  BY DEF AnswerInv
<1> QED BY <1>1, AnswersStay, PTL

\* However its tasks are interleaved, the service sends nothing of an utterance
\* once it has sent its end (_cancel_active_utterance, _finalize_utterance).
THEOREM NothingFollowsTheEnd == Spec => []OutputIsFenced
<1>1. TranscriptionInv => OutputIsFenced
  BY DEF TranscriptionInv, SpeechInv, FenceInv, IsFenced, OutputIsFenced
<1> QED BY <1>1, TranscriptionStaysInOrder, PTL

\* A final transcript leaves out no frame that was accepted before it, and none
\* that the browser sent if the browser ended the utterance
\* (_request_finalize_locked, _stt_worker).
THEOREM FinalsAreWhole == Spec => []FinalIsOfAllAudio
<1>1. TranscriptionInv => FinalIsOfAllAudio
  BY DEF FinalIsOfAllAudio, TranscriptionInv, SpeechInv, WorkInv, ChannelInv, Ready,
     IsWhole, IsCalled
<1> QED BY <1>1, TranscriptionStaysInOrder, PTL

\* The browser spends no credit it does not have, and is told of none that it
\* would take for a breach (recalculateEffectiveSttCredits, applyFlowControl).
THEOREM CreditStaysHonoured == Spec => []CreditIsHonoured
<1>1. TranscriptionInv => CreditIsHonoured
  BY DEF TranscriptionInv, SpeechInv, CreditInv, IsBrowser, CreditIsHonoured
<1> QED BY <1>1, TranscriptionStaysInOrder, PTL

\* The lease of a recognizer is not given back while the recognition task or a
\* finalizer, even one that was given up, still works for its utterance
\* (_release_if_safe_locked).
THEOREM WorkersHoldTheirLease == Spec => []WorkHoldsRecognizer
<1>1. TranscriptionInv => WorkHoldsRecognizer
  BY DEF WorkHoldsRecognizer, TranscriptionInv, SpeechInv, WorkInv, HoldsRecognizer
<1> QED BY <1>1, TranscriptionStaysInOrder, PTL

\* A recording that the player has ended is never forgotten: until the player is
\* told, its end is on its way, or its finalizer runs or has a frame to wait for,
\* or the answer is on its way back, whatever is cancelled, fails or is overtaken
\* meanwhile (_request_finalize_locked, _spawn_finalizer_locked, _stt_worker,
\* _cancel_active_utterance).
THEOREM EndsAreAnswered == Spec => []EndIsUnderWay
<1>1. AnswerInv => EndIsUnderWay
  <2> SUFFICES ASSUME AnswerInv, Ready, browser.recording # Nobody, ~browser.forwarding,
                      Pursued(service, browser.recording)
               PROVE  IsFinalizing(service, browser.recording)
    BY DEF AnswerInv, Answers, WaitingInv, Ready, EndIsUnderWay
  <2> DEFINE s == service
             u == s.active
             utterance == s.utterance[u]
  <2>1. u = browser.recording /\ utterance.status = "finalizing" /\ s.header[1] # u /\ u # Nobody
    BY DEF Pursued
  <2>2. InHand(s) /\ WorkLeft(s)
    BY IsInHand DEF AnswerInv, TranscriptionInv, Ready, InHand
  <2>3. /\ utterance.pending = utterance.next - utterance.heard
        /\ utterance.heard \in Nat /\ utterance.next \in Nat
    BY <2>1, <2>2, ActiveIs DEF HeardInOrder, UtteranceRecords
  <2>4. CASE utterance.finalizer = "running"
    BY <2>1, <2>4 DEF IsFinalizing
  <2>5. CASE utterance.finalizer # "running"
    <3>1. utterance.pending > 0
      BY <2>1, <2>2, <2>5 DEF WorkLeft
    <3>2. utterance.heard \in utterance.heard .. utterance.next - 1
      BY <2>3, <3>1
    <3>3. Awaits(s, u, utterance.heard)
      BY <2>1, <2>2, <3>2 DEF WorkLeft
    <3>4. DOMAIN s.frames = 1 .. Len(s.frames)
      BY <2>2 DEF InHand, IsService
    <3> QED BY <2>1, <3>3, <3>4 DEF Awaits, IsFinalizing
  <2> QED BY <2>4, <2>5
<1> QED BY <1>1, AnswersStay, PTL
=============================================================================
