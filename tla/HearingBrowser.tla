--------------------------- MODULE HearingBrowser ---------------------------
(***************************************************************************)
(* What the page of a hearing holds in the browser: its view of the       *)
(* record and the commands, recoveries and adoptions under way            *)
(* (app/hearing/page.tsx), and the controller of microphone and playback  *)
(* (lib/speech/hearing-controller.ts).                                    *)
(*                                                                         *)
(* Code in a browser runs one task at a time, and each action of these    *)
(* modules is one task with the promise reactions it sets off.  So the    *)
(* operators here map the whole state h to the state after a call, and a  *)
(* call made by another is the composition of their operators.  A value   *)
(* that the code compares to see whether an awaited step is still wanted  *)
(* (a generation, a fence) is kept as the answer to that comparison.      *)
(***************************************************************************)
EXTENDS Naturals, Sequences, FiniteSets, SequencesExt

\* Utterances are numbered from 1 in the order they are recorded in.
NoUtterance == 0

(***************************************************************************)
(* One recording.  stop and complete say how far the two calls that end   *)
(* it have come, reaction what became of the "Objection!" a partial       *)
(* transcript set off, answer what the court made of it.                  *)
(***************************************************************************)
NoAnswer == [is |-> "none", u |-> NoUtterance, view |-> 0, pending |-> FALSE,
             resumes |-> 0, past |-> FALSE]

NoRecording ==
  [u |-> NoUtterance, head |-> 0, finalHandled |-> FALSE, sealed |-> FALSE,
   commitStarted |-> FALSE, troubled |-> FALSE, stop |-> "no",
   complete |-> "no", failing |-> FALSE, reaction |-> "none",
   answer |-> NoAnswer, corrected |-> FALSE, localFailure |-> FALSE]

\* The coordinator's utterance: its flight is one pass of runModelCandidate.
NoCandidate ==
  [u |-> NoUtterance, final |-> FALSE, retain |-> FALSE, reacted |-> FALSE,
   flight |-> "none", retried |-> FALSE, held |-> NoRecording]

\* A unit of speech: a turn of the record, the ruling on an objection, ...
NoUnit == [is |-> "none", of |-> 0]

\* The unit on its way through the synthesizer, and who asked for it.
NoJob == [unit |-> NoUnit, by |-> "none", audible |-> FALSE]

\* A clip whose response the player is still activating.
NoClip == [unit |-> NoUnit, wanted |-> FALSE]

\* speakUnits: the units left, and whether its response is being activated.
Silent == [by |-> "none", units |-> <<>>, activating |-> FALSE, wanted |-> FALSE]

NoRecovery == [on |-> FALSE, expected |-> 0, attempt |-> 0]

\* The command the page keeps until the court confirms it, and its last request.
NoCommand == [by |-> "none", u |-> NoUtterance, expected |-> 0, committed |-> FALSE]

Adoption(kind, prev, next, answer) ==
  [kind |-> kind, prev |-> prev, next |-> next, answer |-> answer]

Opened ==
  [life |-> "idle", link |-> FALSE, prep |-> "no", starting |-> "no",
   from |-> 0, mic |-> "off", rec |-> NoRecording, co |-> NoCandidate, job |-> NoJob,
   clip |-> NoClip, speech |-> Silent, after |-> NoUnit, baseline |-> 0,
   delivered |-> {}, view |-> 0, queue |-> <<>>, busy |-> "no", sent |-> 0,
   kept |-> NoCommand, recovery |-> NoRecovery, loading |-> FALSE]

-----------------------------------------------------------------------------
\* A fatal error stays on the display, unless a call sets another state.
Recoverable(h) ==
  IF h.life \in {"fatal", "closed"} THEN h ELSE [h EXCEPT !.life = "recoverable"]

Blocks(life) == life \in {"preparing", "recording", "processing"}
Active(life) == Blocks(life) \/ life = "speaking"

Recording(h) == h.rec.u # NoUtterance
Busy(h)      == h.busy # "no" \/ h.recovery.on
Pending(h)   == h.kept # NoCommand
Draining(h)  == h.speech.by = "drain"

\* requestSpeechDrain: what is queued is adopted as soon as nothing is going on.
MayDrain(h) ==
  /\ h.life = "ready"
  /\ ~Draining(h)
  /\ ~Busy(h)
  /\ ~Pending(h)
  /\ h.queue # <<>>

\* What the code does before anything else can happen.
Urgent(h) == MayDrain(h) \/ h.after # NoUnit

Turn(v)    == [is |-> "turn", of |-> v]
Clip(k, u) == [is |-> k, of |-> u]
=============================================================================
