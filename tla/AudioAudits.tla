----------------------------- MODULE AudioAudits ----------------------------
(***************************************************************************)
(* The audit of what a hearing sounded like.  The browser's hearing       *)
(* controller reports when the student speaks and when a clip is played;   *)
(* the preparer makes one record of every utterance and every clip when it *)
(* ends (hearing-audio-audit.ts); the sink posts the records, one request  *)
(* at a time, with retries (hearing-audio-audit-sink.ts); the database      *)
(* appends what it has not stored yet (convex/hearingAudioAudits.ts).  A    *)
(* page that is left drains its sink; a page that dies loses it, but not    *)
(* the requests that are under way (keepalive).                             *)
(*                                                                         *)
(* The methods of the sink run to completion between two callbacks of the  *)
(* browser.  They are functions from the state of the sink to the next one. *)
(*                                                                         *)
(* Left out: timing marks and timestamps; duplicates, stale fences and      *)
(* identity conflicts in the preparer, which defend it against a controller *)
(* that reports a span twice, or late, and this one does not; and whether a *)
(* record agrees with the court's log, since what is played is on the log   *)
(* before it is played and the log is append-only.                          *)
(***************************************************************************)
EXTENDS Integers, Sequences, FiniteSets

CONSTANTS
  PageCount,    \* how often the hearing is opened, one page after the other
  Clips,        \* the jobs a page plays, each at most once
  Utterances,   \* the utterances of the student on a page
  RetryDelays,  \* the number of delays in #retryDelaysMs: 5 as deployed
  MaxQueue,     \* #maxQueueRecords: 256 as deployed
  RowLimit      \* MAX_HEARING_AUDIO_AUDITS_PER_TRIAL: 4,096 as deployed

ASSUME SpansAssumption == Clips \cap Utterances = {}
ASSUME LimitsAssumption == PageCount \in Nat \ {0} /\ RetryDelays \in Nat /\
                           MaxQueue \in Nat \ {0} /\ RowLimit \in Nat

Pages == 1 .. PageCount
Spans == Clips \cup Utterances

\* What one record says: what was heard, on which page, and whether it was heard to
\* start.  The page and the span are its recordId; how it ended is left out.
Records == [page : Pages, span : Spans, started : BOOLEAN]

VARIABLES
  page,     \* each page: not shown, shown, leaving, gone
  entries,  \* the preparer's entries: of the spans begun and not ended, which have started
  over,     \* the spans that have ended
  sink,     \* the sink of each page, with the network before it
  rows,     \* the table of the database, in the order of insertion
  heard     \* history: the record of every span that ended while its page listened

auditVars == <<page, entries, over, sink, rows, heard>>

-----------------------------------------------------------------------------
(* The sink.  `timer` is the pending backoff (#retryCancellation).  `wire` has the posts
   on their way to the database, `reply` the answer on its way back to the fetch under
   way; an answer to a fetch that was given up is read by nobody.  `overflowed`
   remembers, for a property, that the queue was full. *)

NewSink == [queue |-> <<>>, accepting |-> TRUE, networkEnabled |-> TRUE,
            inFlight |-> FALSE, timer |-> FALSE, closing |-> FALSE, closed |-> FALSE,
            closeRetryUsed |-> FALSE, wire |-> {}, reply |-> "none",
            overflowed |-> FALSE]

FinishCloseIfSettled(s) ==
  IF /\ s.closing /\ ~s.closed /\ ~s.inFlight /\ ~s.timer
     /\ s.networkEnabled => s.queue = <<>>
  THEN [s EXCEPT !.closed = TRUE, !.closing = FALSE]
  ELSE s

\* Posts the head of the queue when nothing else is under way.
Kick(s) ==
  IF s.inFlight \/ s.timer \/ ~s.networkEnabled \/ s.queue = <<>>
  THEN FinishCloseIfSettled(s)
  ELSE LET post == [record |-> s.queue[1].record, attempt |-> s.queue[1].attempts + 1]
       IN  [s EXCEPT !.queue[1].attempts = post.attempt, !.inFlight = TRUE,
                     !.reply = "none", !.wire = @ \cup {post}]

DisableInput(s) == [s EXCEPT !.accepting = FALSE, !.overflowed = TRUE]

\* As DisableNetwork, but nobody is told that the sink has settled.
DisableNetwork_Silent(s) ==
  [s EXCEPT !.accepting = FALSE, !.networkEnabled = FALSE, !.timer = FALSE, !.queue = <<>>]

DisableNetwork(s) ==
  FinishCloseIfSettled([s EXCEPT !.accepting = FALSE, !.networkEnabled = FALSE,
                                 !.timer = FALSE, !.queue = <<>>])

Enqueue(s, record) ==
  IF Len(s.queue) >= MaxQueue
  THEN DisableInput(s)
  ELSE Kick([s EXCEPT !.queue = Append(@, [record |-> record, attempts |-> 0])])

\* observe() of the event that completes a record.
Observe(s, record) ==
  IF s.closing \/ s.closed \/ ~s.accepting THEN s ELSE Enqueue(s, record)

\* The page is hidden: a pending backoff is cut short.
Expedite(s) ==
  IF s.closed \/ ~s.networkEnabled THEN s ELSE Kick([s EXCEPT !.timer = FALSE])

CloseSink(s) ==
  FinishCloseIfSettled(
    Kick([s EXCEPT !.accepting = FALSE, !.closing = TRUE, !.timer = FALSE,
                   !.closeRetryUsed = @ \/ s.timer]))

\* A post failed in a way that may pass.  A closing sink has one retry left.
Retryable(s) ==
  LET entry == s.queue[1]
  IN  IF s.closing
      THEN IF ~s.closeRetryUsed /\ entry.attempts <= RetryDelays
           THEN Kick([s EXCEPT !.closeRetryUsed = TRUE])
           ELSE DisableNetwork(s)
      ELSE IF entry.attempts <= RetryDelays
           THEN [s EXCEPT !.timer = TRUE]
           ELSE DisableNetwork(s)

HandleOutcome(s, outcome) ==
  CASE outcome = "accepted" -> Kick([s EXCEPT !.queue = Tail(@)])
    [] outcome = "permanent" -> DisableNetwork(s)
    [] outcome = "retryable" -> Retryable(s)

-----------------------------------------------------------------------------
(* What the controller of a page reports. *)

AuditInit ==
  /\ page = [p \in Pages |-> "unseen"]
  /\ entries = [p \in Pages |-> {}]
  /\ over = [p \in Pages |-> {}]
  /\ sink = [p \in Pages |-> NewSink]
  /\ rows = <<>>
  /\ heard = [p \in Pages |-> <<>>]

\* A page binds its sink to the trial; an earlier one of the tab has been left.
ShowPage(p) ==
  /\ page[p] = "unseen"
  /\ \A q \in Pages : q < p => page[q] \in {"leaving", "gone"}
  /\ page' = [page EXCEPT ![p] = "shown"]
  /\ UNCHANGED <<entries, over, sink, rows, heard>>

Under(p) == {e.span : e \in entries[p]}

\* playback_requested.  One clip is active at a time.
RequestPlayback(p, clip) ==
  /\ page[p] = "shown"
  /\ clip \notin over[p] /\ Under(p) \cap Clips = {}
  /\ entries' = [entries EXCEPT ![p] = @ \cup {[span |-> clip, started |-> FALSE]}]
  /\ UNCHANGED <<page, over, sink, rows, heard>>

\* playback_started: the clip becomes audible.
StartPlayback(p) ==
  /\ page[p] = "shown"
  /\ \E e \in entries[p] :
       /\ e.span \in Clips /\ ~e.started
       /\ entries' = [entries EXCEPT ![p] = (@ \ {e}) \cup {[e EXCEPT !.started = TRUE]}]
  /\ UNCHANGED <<page, over, sink, rows, heard>>

\* user_speech_started.
StartSpeaking(p, utterance) ==
  /\ page[p] = "shown"
  /\ utterance \notin over[p] /\ Under(p) \cap Utterances = {}
  /\ entries' = [entries EXCEPT ![p] = @ \cup {[span |-> utterance, started |-> TRUE]}]
  /\ UNCHANGED <<page, over, sink, rows, heard>>

\* The preparer completes a record, and the sink observes it.
End(p, record) ==
  /\ entries' = [entries EXCEPT ![p] = {e \in @ : e.span # record.span}]
  /\ over' = [over EXCEPT ![p] = @ \cup {record.span}]
  /\ heard' = [heard EXCEPT ![p] = Append(@, record)]

\* What may end: a span that has begun, or an utterance whose start was not noticed,
\* since a transcript can be final before the energy detector has noticed speech.
Endable(p, record) ==
  /\ record.page = p /\ record.span \notin over[p]
  /\ \/ [span |-> record.span, started |-> record.started] \in entries[p]
     \/ record.span \in Utterances /\ ~record.started /\ Under(p) \cap Utterances = {}

\* playback_terminal and user_speech_ended.
EndSpan(p, record) ==
  /\ page[p] = "shown" /\ Endable(p, record)
  /\ End(p, record)
  /\ sink' = [sink EXCEPT ![p] = Observe(@, record)]
  /\ UNCHANGED <<page, rows>>

\* The page is hidden, or about to be.  A page that is left no longer listens to that.
HidePage(p) ==
  /\ page[p] = "shown"
  /\ sink' = [sink EXCEPT ![p] = Expedite(@)]
  /\ sink' # sink
  /\ UNCHANGED <<page, entries, over, rows, heard>>

\* The effect of the page is undone.  The controller ends the utterance at once, if one
\* is being recorded.
LeavePage(p) ==
  /\ page[p] = "shown"
  /\ page' = [page EXCEPT ![p] = "leaving"]
  /\ \/ /\ \E record \in Records :
             /\ record.span \in Utterances
             /\ Endable(p, record) /\ End(p, record)
             /\ sink' = [sink EXCEPT ![p] = Observe(@, record)]
     \/ /\ Under(p) \cap Utterances = {}
        /\ UNCHANGED <<entries, over, sink, heard>>
  /\ UNCHANGED rows

\* The controller has stopped the microphone and the player: the clip that was playing
\* is over, and then the sink is told to drain.
CloseController(p) ==
  /\ page[p] = "leaving" /\ ~sink[p].closing /\ ~sink[p].closed
  /\ \/ /\ \E record \in Records :
             /\ record.span \in Clips
             /\ Endable(p, record) /\ End(p, record)
             /\ sink' = [sink EXCEPT ![p] = CloseSink(Observe(@, record))]
     \/ /\ Under(p) \cap Clips = {}
        /\ sink' = [sink EXCEPT ![p] = CloseSink(@)]
        /\ UNCHANGED <<entries, over, heard>>
  /\ UNCHANGED <<page, rows>>

\* The tab dies, or the browser moves on without waiting.  What the page remembers is
\* lost; its posts are not.
PageDies(p) ==
  /\ page[p] \in {"shown", "leaving"}
  /\ page' = [page EXCEPT ![p] = "gone"]
  /\ entries' = [entries EXCEPT ![p] = {}]
  /\ over' = [over EXCEPT ![p] = {}]
  /\ sink' = [sink EXCEPT ![p] = [NewSink EXCEPT !.wire = sink[p].wire]]
  /\ UNCHANGED <<rows, heard>>

-----------------------------------------------------------------------------
(* The callbacks of the browser, the network and the database. *)

Alive(p) == page[p] \in {"shown", "leaving"}

\* The backoff is over.
TimerFires(p) ==
  /\ Alive(p) /\ sink[p].timer
  /\ sink' = [sink EXCEPT ![p] = Kick([@ EXCEPT !.timer = FALSE])]
  /\ UNCHANGED <<page, entries, over, rows, heard>>

\* The fetch under way settles: with the answer of the database, if that is back and can
\* be read; or without one, whatever became of the request (no connection, a status of
\* 408, 425, 429 or 5xx), which counts as a failure that may pass; or the answer is lost
\* while it is read, or the session has expired (401), which count as final.
Outcomes(s) ==
  {"retryable", "permanent"} \cup (IF s.reply = "stored" THEN {"accepted"} ELSE {})

FetchSettles(p) ==
  /\ Alive(p) /\ sink[p].inFlight
  /\ \E outcome \in Outcomes(sink[p]) :
       sink' = [sink EXCEPT
         ![p] = HandleOutcome([@ EXCEPT !.inFlight = FALSE, !.reply = "none"], outcome)]
  /\ UNCHANGED <<page, entries, over, rows, heard>>

Stored(record) == \E i \in DOMAIN rows : rows[i] = record

\* Another record is stored under the ID of this one.
Conflicts(record) ==
  \E i \in DOMAIN rows :
    rows[i].page = record.page /\ rows[i].span = record.span /\ rows[i] # record

PersistVerdict(record) ==
  IF Conflicts(record) \/ (~Stored(record) /\ Len(rows) >= RowLimit)
  THEN "refused" ELSE "stored"

\* As RowsAfter, but without looking whether the record is there.
RowsAfter_Again(record) ==
  IF PersistVerdict(record) = "stored" THEN Append(rows, record) ELSE rows

RowsAfter(record) ==
  IF PersistVerdict(record) = "stored" /\ ~Stored(record) THEN Append(rows, record) ELSE rows

\* The database serves a post, which its page may have given up, or be gone.  A post
\* that is lost is one that is never served.
Persist(p) ==
  /\ \E post \in sink[p].wire :
       LET s == sink[p]
           awaited == s.inFlight /\ post = [record |-> s.queue[1].record,
                                            attempt |-> s.queue[1].attempts]
       IN  /\ sink' = [sink EXCEPT
                ![p].wire = @ \ {post},
                ![p].reply = IF awaited THEN PersistVerdict(post.record) ELSE @]
           /\ rows' = RowsAfter(post.record)
  /\ UNCHANGED <<page, entries, over, heard>>

AuditNext ==
  \E p \in Pages :
    \/ ShowPage(p) \/ StartPlayback(p) \/ HidePage(p) \/ LeavePage(p) \/ CloseController(p)
    \/ PageDies(p) \/ TimerFires(p) \/ FetchSettles(p) \/ Persist(p)
    \/ \E clip \in Clips : RequestPlayback(p, clip)
    \/ \E utterance \in Utterances : StartSpeaking(p, utterance)
    \/ \E record \in Records : EndSpan(p, record)

\* The controller's close() settles: each of its steps has a deadline or ends at once.
\* The browser ends every fetch at last.
AuditFairness ==
  \A p \in Pages : WF_auditVars(CloseController(p)) /\ WF_auditVars(FetchSettles(p))

AuditSpec == AuditInit /\ [][AuditNext]_auditVars /\ AuditFairness

-----------------------------------------------------------------------------
(***************************************************************************)
(* Bounds for TLC.  The pages together hear up to three spans.  Pages       *)
(* share nothing but the table: of a second page it is enough to see what  *)
(* a page that is gone and has heard one span has left in the table and on *)
(* the wire.  Clips are interchangeable: every page begins with the same.   *)
(***************************************************************************)
FirstPageIsGone ==
  \A p, q \in Pages :
    p < q /\ page[q] # "unseen" =>
      /\ page[p] = "gone"
      /\ Len(heard[p]) <= 1 /\ Len(heard[p]) + Len(heard[q]) <= 3

SameClipFirst ==
  LET clip == CHOOSE c \in Clips : TRUE
  IN \A p \in Pages : LET played == (Under(p) \cup over[p]) \cap Clips
                      IN  played # {} => clip \in played

FewSpans == FirstPageIsGone /\ SameClipFirst

-----------------------------------------------------------------------------
(* Properties *)

\* The table holds what was heard on a page, each record once, and nothing before what
\* was heard earlier, however often posts are repeated, overtaken by their own repetition,
\* or served after the page has given up on them.  A sink that closes without having met
\* a refusal, an exhausted retry or a full queue has delivered everything; and what is
\* refused, which silences the sink for good, is not stored: a repeated post of what is
\* stored never meets a refusal, not even from a table that has filled up meanwhile.
AuditIsExact ==
  /\ \A i, k \in DOMAIN rows : rows[i] = rows[k] => i = k
  /\ \A i \in DOMAIN rows :
       LET said == heard[rows[i].page] IN
       \E j \in DOMAIN said :
         /\ rows[i] = said[j]
         /\ \A m \in 1 .. j - 1 : \E l \in 1 .. i - 1 : rows[l] = said[m]
  /\ \A p \in Pages :
       /\ sink[p].closed /\ sink[p].networkEnabled /\ ~sink[p].overflowed
            => \A j \in DOMAIN heard[p] : Stored(heard[p][j])
       /\ sink[p].reply = "refused" => ~Stored(sink[p].queue[1].record)

\* A page that is left closes its sink, unless it dies first.
CloseSettles ==
  \A p \in Pages : page[p] = "leaving" ~> (sink[p].closed \/ page[p] = "gone")
=============================================================================
