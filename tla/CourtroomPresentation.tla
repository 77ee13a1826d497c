------------------------ MODULE CourtroomPresentation ------------------------
(***************************************************************************)
(* What the hearing page shows of the courtroom: whom the camera is on,   *)
(* what is on the screen, and the judge's gavel.  The stage is the state  *)
(* of a pure reducer.  Three parties move it, each by a queued update:    *)
(* the speech controller with its performance events, the page with the   *)
(* view it derives from the record, and the wake-up timer with deadlines  *)
(* of camera, screen and gavel, which may fire any time after they are    *)
(* due.                                                                    *)
(***************************************************************************)
EXTENDS Naturals, Sequences

CONSTANTS
  Idle,        \* the empty screen
  Exhibits,    \* what the screen may show otherwise
  Shots,       \* the compositions a view of the record may ask for
  Purposes,    \* of what the court says
  Hysteresis, Transition, GavelTime,      \* the three delays, in ticks
  MaxEvents    \* bounds views, jobs and recordings together

ASSUME StageAssumption ==
  /\ Idle \notin Exhibits
  /\ Purposes \subseteq {"ruling", "objection", "correction", "answer", "testimony",
                         "transcript", "speaker_test"}
  /\ {Hysteresis, Transition, GavelTime} \subseteq Nat \ {0}

VARIABLES
  stage,       \* the state of the presentation runtime
  page,        \* what the page wants the stage to rest on
  heads,       \* the screens of the record's versions
  speaker,     \* the playback job of the controller
  recording    \* the player's speech

vars == <<stage, page, heads, speaker, recording>>

None == [none |-> TRUE]

-----------------------------------------------------------------------------
(* The camera *)

Priority(purpose) ==
  CASE purpose = "ruling"       -> 7
    [] purpose = "objection"    -> 6
    [] purpose = "correction"   -> 5
    [] purpose = "answer"       -> 4    \* testimony after an interruption
    [] purpose = "testimony"    -> 2
    [] purpose = "transcript"   -> 2
    [] purpose = "speaker_test" -> 1

CloseUp(purpose) ==
  CASE purpose = "ruling"                    -> "judge"
    [] purpose \in {"answer", "testimony"}     -> "witness"
    [] purpose \in {"objection", "transcript"} -> "counsel"
    [] OTHER                                 -> "clerk"

Frame(shot, priority, order) == [shot |-> shot, priority |-> priority, order |-> order]

Frames(s) ==
  {Frame(s.baseShot, 0, 0)}
    \cup (IF s.speech = None THEN {} ELSE {Frame("player", 3, s.speech.order)})
    \cup {Frame(CloseUp(cue.job.purpose), Priority(cue.job.purpose), cue.order) :
            cue \in s.cues}

Selected(s) ==
  CHOOSE f \in Frames(s) :
    \A g \in Frames(s) :
      \/ g.priority < f.priority
      \/ g.priority = f.priority /\ g.order <= f.order

CameraOn(frame) == [frame |-> frame, pending |-> None]

\* Who speaks with more weight, or later, is shown at once; for anything else
\* the camera waits, so that a short gap in speech does not make it jump.
Reconcile(camera, frame) ==
  LET waits    == camera.pending # None /\ camera.pending.frame = frame
      preempts == \/ frame.priority > camera.frame.priority
                  \/ frame.priority > 0 /\ frame.order > camera.frame.order
  IN CASE frame = camera.frame -> CameraOn(frame)
       [] frame # camera.frame /\ (preempts \/ (waits /\ camera.pending.age = Hysteresis)) ->
            CameraOn(frame)
       [] OTHER ->
            [camera EXCEPT !.pending = IF waits THEN @ ELSE [frame |-> frame, age |-> 0]]

CueOf(s, job) == {cue \in s.cues : cue.job = job}

\* What the schema of the state demands of its parts
IsValid(s) ==
  /\ \A cue \in s.cues :
       /\ CueOf(s, cue.job) = {cue}
       /\ cue.job \notin s.retired
       /\ cue.job.fence = s.fence
       /\ cue.order < s.order
  /\ s.speech # None => s.speech.order < s.order
  /\ s.transition # None => s.transition.to = s.display /\ ~s.reduced
  /\ s.ruling # None =>
       /\ s.reduced => s.ruling.phase # "gavel"
       /\ \E cue \in CueOf(s, s.ruling.job) :
            /\ cue.job.purpose = "ruling"
            /\ (s.ruling.phase = "ready") <=> (cue.phase = "requested")

\* Every change ends with the camera and the schema; a state that is refused
\* throws where React applies the update, and the page is gone.
Finish(s) ==
  [s EXCEPT !.camera = Reconcile(s.camera, Selected(s)),
            !.fault = IF IsValid(s) THEN @ ELSE "invalid"]

Becomes(s) == \E t \in {s} : stage' = Finish(t)

Fresh(reduced) ==
  [reduced |-> reduced, baseShot |-> "wide", display |-> Idle, head |-> 0,
   transition |-> None, ruling |-> None, said |-> None, order |-> 1, fence |-> 0,
   cues |-> {}, retired |-> {}, speech |-> None, retiredSpeech |-> {},
   camera |-> CameraOn(Frame("wide", 0, 0)), fault |-> "none"]

-----------------------------------------------------------------------------
(* Performance events *)

RulingSays(change) == [kind |-> "ruling", change |-> change]

\* A job of a later fence retires all that is still on stage.
Fenced(s, job) ==
  IF job.fence <= s.fence THEN s
  ELSE [s EXCEPT !.retired = @ \cup {cue.job : cue \in s.cues},
                 !.cues = {},
                 !.ruling = None,
                 !.said = IF s.ruling # None /\ @ # None /\ @.kind = "ruling" THEN None
                          ELSE @,
                 !.fence = job.fence]

Takes(s, job) ==
  IF CueOf(s, job) # {} \/ job \in s.retired THEN s
  ELSE [s EXCEPT !.cues = @ \cup {[job |-> job, phase |-> "requested", order |-> s.order]},
                 !.order = @ + 1,
                 !.ruling = IF job.purpose = "ruling"
                              THEN [job |-> job, phase |-> "ready", left |-> 0] ELSE @,
                 !.said = IF job.purpose = "ruling" THEN RulingSays("ready") ELSE @]

Moved(s, cue, phase) == [s EXCEPT !.cues = (@ \ {cue}) \cup {[cue EXCEPT !.phase = phase]}]

Sounds(s, job) ==
  LET waiting == {cue \in CueOf(s, job) : cue.phase = "requested"}
      phase   == IF s.reduced THEN "holding" ELSE "gavel"
      moved   == Moved(s, CHOOSE cue \in waiting : TRUE, "started")
  IN IF waiting = {} THEN s
     ELSE IF s.ruling # None /\ s.ruling.job = job
       THEN [moved EXCEPT
               !.ruling = [job |-> job, phase |-> phase,
                           left |-> IF s.reduced THEN 0 ELSE GavelTime],
               !.said = RulingSays(phase)]
       ELSE moved

Timed(s, job) ==
  LET sounding == {cue \in CueOf(s, job) : cue.phase # "requested"}
  IN IF sounding = {} THEN s ELSE Moved(s, CHOOSE cue \in sounding : TRUE, "timed")

\* As Ends, but the ruling stays on stage when its playback is over.
Ends_KeepsRuling(s, job, completed) ==
  [s EXCEPT !.cues = @ \ CueOf(s, job), !.retired = @ \cup {job}]

Ends(s, job, completed) ==
  LET over == s.ruling # None /\ s.ruling.job = job
  IN [s EXCEPT !.cues = @ \ CueOf(s, job),
               !.retired = @ \cup {job},
               !.ruling = IF over THEN None ELSE @,
               !.said = IF ~over THEN @
                        ELSE IF completed /\ s.ruling.phase # "ready"
                          THEN RulingSays("complete") ELSE None]

Heard(job) == Fenced(stage, job)

\* What a playback event does; one of an earlier fence does nothing.
Reduce(job, after) == IF job.fence < stage.fence THEN UNCHANGED stage ELSE Becomes(after)

SpeechBegins(s, u) ==
  IF u \in s.retiredSpeech \/ (s.speech # None /\ s.speech.of = u) THEN s
  ELSE [s EXCEPT
         !.retiredSpeech = IF s.speech = None THEN @ ELSE @ \cup {s.speech.of},
         !.speech = [of |-> u, order |-> s.order],
         !.order = @ + 1]

SpeechEnds(s, u) ==
  [s EXCEPT !.speech = IF @ # None /\ @.of = u THEN None ELSE @,
            !.retiredSpeech = @ \cup {u}]

-----------------------------------------------------------------------------
(* Deadlines *)

Resolved(s) ==
  [s EXCEPT !.transition = IF @ # None /\ @.left = 0 THEN None ELSE @,
            !.ruling = IF @ # None /\ @.phase = "gavel" /\ @.left = 0
                         THEN [@ EXCEPT !.phase = "holding"] ELSE @]

Advance(s) ==
  LET t == Resolved(s)
  IN [t EXCEPT !.said = IF t.ruling # s.ruling THEN RulingSays("holding") ELSE @]

\* As WakeIsDue, but the camera has no deadline of its own.
WakeIsDue_NoCamera(s) ==
  \/ s.transition # None /\ s.transition.left = 0
  \/ s.ruling # None /\ s.ruling.phase = "gavel" /\ s.ruling.left = 0

WakeIsDue(s) ==
  \/ s.camera.pending # None /\ s.camera.pending.age = Hysteresis
  \/ s.transition # None /\ s.transition.left = 0
  \/ s.ruling # None /\ s.ruling.phase = "gavel" /\ s.ruling.left = 0

Waited(camera) ==
  [camera EXCEPT !.pending = IF @ = None \/ @.age = Hysteresis THEN @
                             ELSE [@ EXCEPT !.age = camera.pending.age + 1]]

Sooner(due) == IF due = None \/ due.left = 0 THEN due ELSE [due EXCEPT !.left = @ - 1]

Aged(s) ==
  [s EXCEPT !.camera = Waited(@), !.transition = Sooner(@), !.ruling = Sooner(@)]

-----------------------------------------------------------------------------
(* The view of the record *)

\* While a screen is closing it still shows what it closes.
Displayed(s) ==
  IF s.transition # None /\ s.transition.to = Idle THEN s.transition.from ELSE s.display

ScreenSays(from, to) ==
  IF to = Idle THEN [kind |-> "closed", of |-> from] ELSE [kind |-> "shown", of |-> to]

\* The screen of a head: the first one is shown as it is, a later one with a
\* transition.  A transition has to change something, or the state is refused
\* and the update throws: so it is if an exhibit is shown again while it is closing.
Shows(s, head) ==
  LET from == Displayed(s)
      to   == heads[head]
  IN CASE head <= s.head -> s
       [] head > s.head /\ s.head = 0 ->
            [s EXCEPT !.head = head, !.display = to, !.transition = None,
                      !.said = IF @ # None /\ @.kind # "ruling" THEN None ELSE @]
       [] head > s.head /\ s.head # 0 /\ s.display = to -> [s EXCEPT !.head = head]
       [] OTHER ->
            IF from = to /\ ~s.reduced THEN [s EXCEPT !.fault = "reopened"]
            ELSE [s EXCEPT !.head = head, !.display = to,
                           !.said = ScreenSays(from, to),
                           !.transition = IF s.reduced THEN None
                                          ELSE [from |-> from, to |-> to,
                                                left |-> Transition]]

Still(s) ==
  IF ~s.reduced THEN s
  ELSE [s EXCEPT
         !.transition = None,
         !.ruling = IF @ # None /\ @.phase = "gavel"
                      THEN [@ EXCEPT !.phase = "holding", !.left = 0] ELSE @,
         !.said = IF s.ruling # None /\ s.ruling.phase = "gavel"
                    THEN RulingSays("holding") ELSE @]

Rebased(s) ==
  LET t == Still([Resolved(s) EXCEPT !.baseShot = page.shot, !.reduced = page.reduced])
  IN IF page.head = 0 THEN t ELSE Shows(t, page.head)

-----------------------------------------------------------------------------
(* The page *)

Up == stage.fault = "none"

More == page.changes + speaker.id + recording.of < MaxEvents

\* The page derives another shot or screen: from a new version of the record, from one
\* it had before and gets once more, or because somebody is busy.
ViewChanges ==
  /\ Up /\ More
  /\ \/ UNCHANGED heads
     \/ \E display \in {Idle} \cup Exhibits : heads' = Append(heads, display)
  /\ \E shot \in Shots, head \in 1 .. Len(heads') :
       /\ heads' # heads => head = Len(heads')
       /\ <<shot, head>> # <<page.shot, page.head>>
       /\ page' = [page EXCEPT !.shot = shot, !.head = head, !.due = TRUE, !.changes = @ + 1]
  /\ IF page.head = 0
       THEN /\ stage' = Fresh(page.reduced)
            /\ speaker' = [speaker EXCEPT !.shown = FALSE]
            /\ recording' = [recording EXCEPT !.shown = FALSE]
       ELSE UNCHANGED <<stage, speaker, recording>>

MotionPreference ==
  /\ Up /\ More
  /\ page' = [page EXCEPT !.reduced = ~@, !.changes = @ + 1, !.due = TRUE]
  /\ UNCHANGED <<stage, heads, speaker, recording>>

Rebase ==
  /\ Up /\ page.due
  /\ page' = [page EXCEPT !.due = FALSE,
                          !.offered = IF page.head > @ THEN page.head ELSE @]
  /\ Becomes(Rebased(stage))
  /\ UNCHANGED <<heads, speaker, recording>>

Wake ==
  /\ Up /\ WakeIsDue(stage)
  /\ Becomes(Advance(stage))
  /\ UNCHANGED <<page, heads, speaker, recording>>

Tick ==
  /\ Up /\ Aged(stage) # stage
  /\ stage' = Aged(stage)
  /\ UNCHANGED <<page, heads, speaker, recording>>

-----------------------------------------------------------------------------
(* The controller *)

Job == [id |-> speaker.id, fence |-> speaker.fence, purpose |-> speaker.purpose]

\* What is said into a recording; all else is said when there is none.
CutsIn(purpose) == purpose \in {"objection", "correction"}

\* The next job of a response, or the first one of another
JobRequested ==
  /\ Up /\ speaker.phase = "none" /\ More
  /\ \E purpose \in Purposes, fence \in {speaker.fence, speaker.fence + 1} :
       /\ recording.on => CutsIn(purpose)
       /\ fence = speaker.fence => speaker.goesOn /\ ~CutsIn(purpose)
       /\ speaker' = [speaker EXCEPT !.phase = "requested", !.id = @ + 1, !.fence = fence,
                                     !.purpose = purpose, !.shown = TRUE]
       /\ LET job == [id |-> speaker.id + 1, fence |-> fence, purpose |-> purpose]
          IN Reduce(job, Takes(Heard(job), job))
  /\ UNCHANGED <<page, heads, recording>>

JobSounds ==
  /\ Up /\ speaker.phase = "requested"
  /\ speaker' = [speaker EXCEPT !.phase = "audible"]
  /\ Reduce(Job, Sounds(Heard(Job), Job))
  /\ UNCHANGED <<page, heads, recording>>

JobTimed ==
  /\ Up /\ speaker.phase # "none"
  /\ Reduce(Job, Timed(Heard(Job), Job))
  /\ UNCHANGED <<page, heads, speaker, recording>>

JobEnds(completed) ==
  /\ Up /\ speaker.phase # "none"
  /\ speaker' = [speaker EXCEPT
       !.phase = "none", !.goesOn = completed /\ ~CutsIn(speaker.purpose),
       !.ruled = @ \/ (completed /\ speaker.phase = "audible" /\ speaker.purpose = "ruling")]
  /\ Reduce(Job, Ends(Heard(Job), Job, completed))
  /\ UNCHANGED <<page, heads, recording>>

\* A recording ends the playback it finds, and the response that is played.
MayRecord == speaker.phase = "none" \/ CutsIn(speaker.purpose)

RecordingSpeaks ==
  /\ Up /\ ~recording.on /\ MayRecord /\ More
  /\ recording' = [on |-> TRUE, of |-> recording.of + 1, shown |-> TRUE]
  /\ speaker' = [speaker EXCEPT !.goesOn = FALSE]
  /\ Becomes(SpeechBegins(stage, recording.of + 1))
  /\ UNCHANGED <<page, heads>>

\* A recording may end without having been found to speak.
RecordingEnds ==
  /\ Up
  /\ recording.on \/ (MayRecord /\ More)
  /\ LET of == IF recording.on THEN recording.of ELSE recording.of + 1
     IN /\ recording' = [on |-> FALSE, of |-> of, shown |-> TRUE]
        /\ Becomes(SpeechEnds(stage, of))
  /\ speaker' = [speaker EXCEPT !.goesOn = FALSE]
  /\ UNCHANGED <<page, heads>>

-----------------------------------------------------------------------------
Init ==
  /\ stage = Fresh(FALSE)
  /\ page = [shot |-> "wide", head |-> 0, reduced |-> FALSE, due |-> TRUE, changes |-> 0,
              offered |-> 0]
  /\ heads = <<>>
  /\ speaker = [phase |-> "none", id |-> 0, fence |-> 0, purpose |-> "transcript",
                goesOn |-> FALSE, shown |-> FALSE, ruled |-> FALSE]
  /\ recording = [on |-> FALSE, of |-> 0, shown |-> FALSE]

Next ==
  \/ ViewChanges \/ MotionPreference
  \/ Rebase \/ Wake \/ Tick
  \/ JobRequested \/ JobSounds \/ JobTimed
  \/ \E completed \in BOOLEAN : JobEnds(completed)
  \/ RecordingSpeaks \/ RecordingEnds

\* Time goes on, and the browser runs the effects and timers of the page.
Fairness == WF_vars(Rebase) /\ WF_vars(Wake) /\ WF_vars(Tick)

Spec == Init /\ [][Next]_vars /\ Fairness

-----------------------------------------------------------------------------
(* Properties *)

OnStage == speaker.phase # "none" /\ speaker.shown

\* What is on stage is what is heard, no earlier and no longer, though requests,
\* starts, ends, new fences, wake-ups, rebases and a reset of the stage come in any
\* order: one cue for the job under way, a ruling that is gavelled once it is audible,
\* no word of a ruling, or of a screen, that is not there, and the newest screen the
\* page has offered.  No combination of them is refused by the schema of the state; known
\* exception: an exhibit that is shown again while it is closing.
StageIsTrue ==
  /\ {cue.job : cue \in stage.cues} = IF OnStage THEN {Job} ELSE {}
  /\ \A cue \in stage.cues : cue.phase = "requested" <=> speaker.phase = "requested"
  /\ stage.speech = IF recording.on /\ recording.shown
                      THEN [of |-> recording.of, order |-> stage.speech.order] ELSE None
  /\ (stage.ruling # None) <=> OnStage /\ speaker.purpose = "ruling"
  /\ stage.said # None =>
       CASE stage.said.kind = "shown"  -> stage.display = stage.said.of
         [] stage.said.kind = "closed" -> stage.display = Idle
         [] stage.said.kind = "ruling" -> IF stage.said.change = "complete" THEN speaker.ruled
                                          ELSE stage.ruling # None
  /\ Up => stage.head = page.offered
  /\ stage.head # 0 => stage.display = heads[stage.head]
  /\ stage.fault # "invalid"

AtRest ==
  /\ ~page.due
  /\ stage.reduced = page.reduced
  /\ stage.camera = CameraOn(Selected(stage))
  /\ stage.transition = None
  /\ stage.ruling # None => stage.ruling.phase # "gavel"

\* However deadlines are replaced, overtaken or moved, once the page asks for nothing new
\* the camera arrives at whom it should show, the screen ends its transition and the
\* judge puts the gavel down.
StageSettles == []<>(AtRest \/ ~Up)
=============================================================================
