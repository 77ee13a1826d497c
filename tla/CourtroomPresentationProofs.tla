--------------------- MODULE CourtroomPresentationProofs ---------------------
(***************************************************************************)
(* Proof that what is on stage is what is heard, for any exhibits, shots,  *)
(* purposes, delays and any number of events.  The invariant says of the   *)
(* stage, beside the property itself, why an update that comes late finds  *)
(* nothing to disturb: no cue of an earlier fence is left, a job that was  *)
(* retired is over, and an order that is given was not given before.  The  *)
(* camera is a matter of liveness and is nowhere looked at.                *)
(***************************************************************************)
EXTENDS CourtroomPresentation, TLAPS, SequenceTheorems

StageFields ==
  {"reduced", "baseShot", "display", "head", "transition", "ruling", "said", "order",
   "fence", "cues", "retired", "speech", "retiredSpeech", "camera", "fault"}

-----------------------------------------------------------------------------
(* The inductive invariant, of a stage s, the page p, the screens h, the      *)
(* controller k and the recording r                                           *)

IsShaped(s) ==
  /\ StageFields \subseteq DOMAIN s
  /\ s.fence \in Nat /\ s.order \in Nat /\ s.head \in Nat
  /\ s.reduced \in BOOLEAN
  /\ s.fault \in {"none", "reopened"}
  /\ s.transition # None => {"from", "to", "left"} \subseteq DOMAIN s.transition
  /\ s.ruling # None => {"job", "phase", "left"} \subseteq DOMAIN s.ruling

IsActor(k) ==
  /\ {"phase", "id", "fence", "purpose", "goesOn", "shown", "ruled"} \subseteq DOMAIN k
  /\ k.phase \in {"none", "requested", "audible"}
  /\ k.id \in Nat /\ k.fence \in Nat
  /\ k.shown \in BOOLEAN /\ k.ruled \in BOOLEAN

JobOf(k) == [id |-> k.id, fence |-> k.fence, purpose |-> k.purpose]

IsPlaying(k) == k.phase # "none" /\ k.shown

\* The one cue is that of the job under way, and nothing can take it back.
Cast(s, k) ==
  /\ s.fence <= k.fence
  /\ IF IsPlaying(k)
       THEN \E cue \in s.cues :
              /\ s.cues = {cue}
              /\ {"job", "phase", "order"} \subseteq DOMAIN cue
              /\ cue.job = JobOf(k)
              /\ cue.job.fence = s.fence
              /\ cue.order \in Nat /\ cue.order < s.order
              /\ cue.phase = "requested" <=> k.phase = "requested"
       ELSE s.cues = {}
  /\ \A job \in s.retired :
       job.id \in Nat /\ job.id <= k.id /\ (job.id = k.id => k.phase = "none")

\* The judge rules while the job under way is the ruling.
Rules(s, k) ==
  /\ s.ruling # None <=> (IsPlaying(k) /\ k.purpose = "ruling")
  /\ s.ruling # None =>
       /\ s.ruling.job = JobOf(k)
       /\ s.ruling.phase = "ready" <=> k.phase = "requested"
       /\ s.reduced => s.ruling.phase # "gavel"

\* The last announcement is about what is there.
Says(s, k) ==
  s.said # None =>
    \/ s.said.kind = "shown" /\ s.display = s.said.of
    \/ s.said.kind = "closed" /\ s.display = Idle
    \/ /\ s.said.kind = "ruling"
       /\ IF s.said.change = "complete" THEN k.ruled ELSE s.ruling # None

\* The player's speech on stage is the recording.
Hears(s, r) ==
  /\ {"on", "of", "shown"} \subseteq DOMAIN r
  /\ r.on \in BOOLEAN /\ r.shown \in BOOLEAN /\ r.of \in Nat
  /\ IF r.on /\ r.shown
       THEN \E order \in Nat : s.speech = [of |-> r.of, order |-> order] /\ order < s.order
       ELSE s.speech = None
  /\ \A u \in s.retiredSpeech : u \in Nat /\ u <= r.of /\ (r.on => u # r.of)

\* The screen is that of the newest version that was offered.
Screens(s, p, h) ==
  /\ {"shot", "head", "reduced", "due", "changes", "offered"} \subseteq DOMAIN p
  /\ h \in Seq({Idle} \cup Exhibits)
  /\ p.head \in 0 .. Len(h) /\ p.offered \in Nat
  /\ p.reduced \in BOOLEAN
  /\ p.head = 0 => p.offered = 0
  /\ s.fault = "none" => s.head = p.offered
  /\ s.head <= Len(h)
  /\ s.head # 0 => s.display = h[s.head]
  /\ s.transition # None => s.transition.to = s.display /\ ~s.reduced

IsSound(s, p, h, k, r) ==
  /\ IsShaped(s) /\ IsActor(k)
  /\ Cast(s, k) /\ Rules(s, k) /\ Says(s, k)
  /\ Hears(s, r) /\ Screens(s, p, h)

StageInv == IsSound(stage, page, heads, speaker, recording)

\* A stage that differs in some of its fields only
DiffersIn(t, s, fields) ==
  /\ DOMAIN t = DOMAIN s
  /\ \A f \in StageFields \ fields : t[f] = s[f]

-----------------------------------------------------------------------------
(* The schema and the end of a change *)

\* A record with the field of a transition, a ruling, ... is not the one that is none.
LEMMA NotNone ==
  /\ \A f, t, l : [from |-> f, to |-> t, left |-> l] # None
  /\ \A j, f, l : [job |-> j, phase |-> f, left |-> l] # None
  /\ \A u, o : [of |-> u, order |-> o] # None
  /\ \A c : RulingSays(c) # None
  /\ \A f, t : ScreenSays(f, t) # None
  /\ \A t : "left" \in DOMAIN t => t # None
BY DEF None, RulingSays, ScreenSays

\* The schema accepts a sound stage.
LEMMA SoundIsValid ==
  ASSUME NEW s, NEW p, NEW h, NEW k, NEW r, IsSound(s, p, h, k, r)
  PROVE  IsValid(s)
<1>1. \A cue \in s.cues :
        /\ CueOf(s, cue.job) = {cue}
        /\ cue.job \notin s.retired
        /\ cue.job.fence = s.fence
        /\ cue.order < s.order
  BY DEF IsSound, Cast, CueOf, JobOf, IsPlaying
<1>2. s.speech # None => s.speech.order < s.order
  <2>1. CASE r.on /\ r.shown
    <3>1. PICK order \in Nat : s.speech = [of |-> r.of, order |-> order] /\ order < s.order
      BY <2>1 DEF IsSound, Hears
    <3>. QED  BY <3>1
  <2>2. CASE ~(r.on /\ r.shown)
    BY <2>2 DEF IsSound, Hears
  <2>. QED  BY <2>1, <2>2
<1>3. s.transition # None => s.transition.to = s.display /\ ~s.reduced
  BY DEF IsSound, Screens
<1>4. ASSUME s.ruling # None
      PROVE  /\ s.reduced => s.ruling.phase # "gavel"
             /\ \E cue \in CueOf(s, s.ruling.job) :
                  /\ cue.job.purpose = "ruling"
                  /\ (s.ruling.phase = "ready") <=> (cue.phase = "requested")
  BY <1>4 DEF IsSound, Rules, Cast, CueOf, JobOf, IsPlaying
<1>. QED  BY <1>1, <1>2, <1>3, <1>4 DEF IsValid

\* What does not touch the stage keeps it sound.
LEMMA SameSound ==
  ASSUME NEW s, NEW p, NEW h, NEW k, NEW r, IsSound(s, p, h, k, r),
         NEW t, DiffersIn(t, s, {"camera", "baseShot"})
  PROVE  IsSound(t, p, h, k, r)
<1>1. /\ DOMAIN t = DOMAIN s
      /\ t.reduced = s.reduced /\ t.display = s.display /\ t.head = s.head
      /\ t.transition = s.transition /\ t.ruling = s.ruling /\ t.said = s.said
      /\ t.order = s.order /\ t.fence = s.fence /\ t.cues = s.cues
      /\ t.retired = s.retired /\ t.speech = s.speech
      /\ t.retiredSpeech = s.retiredSpeech /\ t.fault = s.fault
  BY DEF DiffersIn, StageFields
<1>2. IsShaped(t) /\ IsActor(k)
  BY <1>1 DEF IsSound, IsShaped
<1>3. Cast(t, k) /\ Rules(t, k) /\ Says(t, k) /\ Hears(t, r) /\ Screens(t, p, h)
  BY <1>1 DEF IsSound, Cast, Rules, Says, Hears, Screens
<1>. QED  BY <1>2, <1>3 DEF IsSound

\* So every change ends with a sound stage, whatever the camera does.
LEMMA BecomesSound ==
  ASSUME NEW s, NEW p, NEW h, NEW k, NEW r, IsSound(s, p, h, k, r), Becomes(s)
  PROVE  IsSound(stage', p, h, k, r)
<1>. DEFINE camera == Reconcile(s.camera, Selected(s))
            t == [s EXCEPT !.camera = camera, !.fault = @]
<1>1. stage' = t
  BY SoundIsValid DEF Becomes, Finish
<1>2. StageFields \subseteq DOMAIN s
  BY DEF IsSound, IsShaped
<1>. HIDE DEF camera
<1>3. DiffersIn(t, s, {"camera", "baseShot"})
  BY <1>2 DEF DiffersIn, StageFields
<1>. HIDE DEF t
<1>. QED  BY <1>1, <1>3, SameSound

-----------------------------------------------------------------------------
(* Performance events *)

\* No cue on stage is of another fence, so a later one takes nothing away.
LEMMA FencedIs ==
  ASSUME NEW s, NEW p, NEW h, NEW k, NEW r, IsSound(s, p, h, k, r),
         NEW job, job.fence \in Nat, job.fence >= k.fence,
         job.fence > k.fence => k.phase = "none"
  PROVE  /\ DiffersIn(Fenced(s, job), s, {"fence"})
         /\ Fenced(s, job).fence = job.fence
<1>0. StageFields \subseteq DOMAIN s /\ s.fence \in Nat /\ k.fence \in Nat
  BY DEF IsSound, IsShaped, IsActor
<1>1. CASE job.fence <= s.fence
  <2>1. job.fence = s.fence
    BY <1>0, <1>1 DEF IsSound, Cast
  <2>. QED  BY <2>1, <1>1 DEF Fenced, DiffersIn
<1>2. CASE ~(job.fence <= s.fence)
  <2>1. ~IsPlaying(k)
    BY <1>0, <1>2 DEF IsPlaying, IsSound, Cast, JobOf
  <2>2. s.cues = {} /\ s.ruling = None
    BY <2>1 DEF IsSound, Cast, Rules
  <2>. DEFINE t == [s EXCEPT !.retired = s.retired, !.cues = {}, !.ruling = None,
                             !.said = s.said, !.fence = job.fence]
  <2>3. Fenced(s, job) = t
    <3>1. s.retired \cup {cue.job : cue \in s.cues} = s.retired
      BY <2>2
    <3>2. (IF s.ruling # None /\ s.said # None /\ s.said.kind = "ruling"
             THEN None ELSE s.said) = s.said
      BY <2>2
    <3>. QED  BY <3>1, <3>2, <1>2 DEF Fenced
  <2>. QED  BY <2>2, <2>3, <1>0 DEF DiffersIn, StageFields
<1>. QED  BY <1>1, <1>2

LEMMA FencedKeeps ==
  ASSUME NEW s, NEW p, NEW h, NEW k, NEW r, IsSound(s, p, h, k, r),
         NEW job, job.fence \in Nat, job.fence >= k.fence,
         job.fence > k.fence => k.phase = "none",
         NEW k2, IsActor(k2), k2.fence = job.fence, k2.phase = k.phase, k2.id = k.id,
         k2.purpose = k.purpose, k2.shown = k.shown, k2.ruled = k.ruled
  PROVE  IsSound(Fenced(s, job), p, h, k2, r)
<1>. DEFINE t == Fenced(s, job)
<1>1. DiffersIn(t, s, {"fence"}) /\ t.fence = job.fence
  BY FencedIs
<1>. HIDE DEF t
<1>2. /\ DOMAIN t = DOMAIN s
      /\ t.reduced = s.reduced /\ t.display = s.display /\ t.head = s.head
      /\ t.transition = s.transition /\ t.ruling = s.ruling /\ t.said = s.said
      /\ t.order = s.order /\ t.cues = s.cues
      /\ t.retired = s.retired /\ t.speech = s.speech
      /\ t.retiredSpeech = s.retiredSpeech /\ t.fault = s.fault
  BY <1>1 DEF DiffersIn, StageFields
<1>3. IsPlaying(k) => job.fence = k.fence
  BY DEF IsPlaying, IsSound, IsActor
<1>4. IsPlaying(k2) = IsPlaying(k)
  BY DEF IsPlaying
<1>5. IsPlaying(k) => JobOf(k2) = JobOf(k) /\ s.fence = k.fence
  BY <1>3 DEF JobOf, IsSound, Cast
<1>6. IsShaped(t)
  BY <1>1, <1>2 DEF IsSound, IsShaped
<1>7. Cast(t, k2)
  <2>1. t.fence <= k2.fence
    BY <1>1
  <2>2. CASE IsPlaying(k)
    BY <2>1, <2>2, <1>1, <1>2, <1>3, <1>4, <1>5 DEF IsSound, Cast
  <2>3. CASE ~IsPlaying(k)
    BY <2>1, <2>3, <1>1, <1>2, <1>4 DEF IsSound, Cast
  <2>. QED  BY <2>2, <2>3
<1>8. Rules(t, k2)
  BY <1>2, <1>4, <1>5 DEF IsSound, Rules
<1>9. Says(t, k2) /\ Hears(t, r) /\ Screens(t, p, h)
  BY <1>2 DEF IsSound, Says, Hears, Screens
<1>. QED  BY <1>6, <1>7, <1>8, <1>9 DEF IsSound, t

\* The next job finds the stage empty, and no retired job has its number.
LEMMA TakesKeeps ==
  ASSUME NEW s, NEW p, NEW h, NEW k, NEW r, IsSound(s, p, h, k, r), k.phase = "none",
         NEW k2, IsActor(k2), k2.phase = "requested", k2.shown = TRUE,
         k2.id = k.id + 1, k2.fence = k.fence, k2.ruled = k.ruled,
         s.fence = k.fence
  PROVE  IsSound(Takes(s, JobOf(k2)), p, h, k2, r)
<1>. DEFINE job == JobOf(k2)
            t == Takes(s, job)
            cue == [job |-> job, phase |-> "requested", order |-> s.order]
<1>1. /\ StageFields \subseteq DOMAIN s
      /\ s.order \in Nat /\ s.fence \in Nat /\ k.id \in Nat /\ k.fence \in Nat
  BY DEF IsSound, IsShaped, IsActor
<1>2. job.id = k.id + 1 /\ job.fence = k.fence /\ job.purpose = k2.purpose
  BY DEF JobOf
<1>3. ~IsPlaying(k) /\ IsPlaying(k2)
  BY DEF IsPlaying
<1>4. s.cues = {} /\ s.ruling = None
  BY <1>3 DEF IsSound, Cast, Rules
<1>5. job \notin s.retired
  BY <1>1, <1>2 DEF IsSound, Cast
<1>6. CueOf(s, job) = {} /\ s.cues \cup {cue} = {cue}
  BY <1>4 DEF CueOf
<1>. HIDE DEF cue
<1>7. t = [s EXCEPT !.cues = {cue}, !.order = s.order + 1,
                    !.ruling = IF job.purpose = "ruling"
                      THEN [job |-> job, phase |-> "ready", left |-> 0] ELSE s.ruling,
                    !.said = IF job.purpose = "ruling" THEN RulingSays("ready")
                             ELSE s.said]
  BY <1>5, <1>6 DEF Takes, cue
<1>8. /\ DiffersIn(t, s, {"cues", "order", "ruling", "said"})
      /\ t.cues = {cue} /\ t.order = s.order + 1
      /\ t.ruling = IF job.purpose = "ruling"
                      THEN [job |-> job, phase |-> "ready", left |-> 0] ELSE s.ruling
      /\ t.said = IF job.purpose = "ruling" THEN RulingSays("ready") ELSE s.said
  BY <1>1, <1>7 DEF DiffersIn, StageFields
<1>. HIDE DEF t
<1>9. /\ DOMAIN t = DOMAIN s
      /\ t.reduced = s.reduced /\ t.display = s.display /\ t.head = s.head
      /\ t.transition = s.transition /\ t.fence = s.fence
      /\ t.retired = s.retired /\ t.speech = s.speech
      /\ t.retiredSpeech = s.retiredSpeech /\ t.fault = s.fault
  BY <1>8 DEF DiffersIn, StageFields
<1>10. ASSUME job.purpose = "ruling"
       PROVE  IsShaped(t) /\ Rules(t, k2) /\ Says(t, k2)
  <2>1. /\ t.ruling = [job |-> job, phase |-> "ready", left |-> 0]
        /\ t.said = RulingSays("ready")
    BY <1>8, <1>10
  <2>2. IsShaped(t)
    BY <2>1, <1>1, <1>8, <1>9 DEF IsSound, IsShaped
  <2>3. Rules(t, k2)
    BY <2>1, <1>2, <1>3, <1>10, NotNone DEF Rules
  <2>4. Says(t, k2)
    BY <2>1, NotNone DEF Says, RulingSays
  <2>. QED  BY <2>2, <2>3, <2>4
<1>11. ASSUME job.purpose # "ruling"
       PROVE  IsShaped(t) /\ Rules(t, k2) /\ Says(t, k2)
  <2>1. t.ruling = None /\ t.said = s.said
    BY <1>4, <1>8, <1>11
  <2>2. IsShaped(t)
    BY <2>1, <1>1, <1>8, <1>9 DEF IsSound, IsShaped
  <2>3. Rules(t, k2)
    BY <2>1, <1>2, <1>11 DEF Rules
  <2>4. Says(t, k2)
    BY <2>1, <1>4, <1>9 DEF IsSound, Says
  <2>. QED  BY <2>2, <2>3, <2>4
<1>12. Cast(t, k2)
  <2>1. /\ t.fence <= k2.fence
        /\ \A old \in t.retired :
             old.id \in Nat /\ old.id <= k2.id /\ (old.id = k2.id => k2.phase = "none")
    BY <1>1, <1>9 DEF IsSound, Cast
  <2>2. /\ {"job", "phase", "order"} \subseteq DOMAIN cue
        /\ cue.job = job /\ cue.phase = "requested" /\ cue.order = s.order
    BY DEF cue
  <2>3. cue.order \in Nat /\ cue.order < t.order
    BY <2>2, <1>1, <1>8
  <2>. QED  BY <2>1, <2>2, <2>3, <1>2, <1>3, <1>8, <1>9 DEF Cast
<1>13. Hears(t, r)
  <2>1. \A order \in Nat : order < s.order => order < t.order
    BY <1>1, <1>8
  <2>. QED  BY <2>1, <1>9 DEF IsSound, Hears
<1>14. Screens(t, p, h)
  BY <1>9 DEF IsSound, Screens
<1>. QED  BY <1>10, <1>11, <1>12, <1>13, <1>14 DEF IsSound, t

\* Playback of the job under way moves its cue and nothing else.
LEMMA CueMoves ==
  ASSUME NEW s, NEW p, NEW h, NEW k, NEW r, IsSound(s, p, h, k, r),
         NEW cue, s.cues = {cue}, NEW phase, phase # "requested",
         IsPlaying(k), NEW k2, k2.phase \notin {"none", "requested"},
         k2.shown = k.shown, JobOf(k2) = JobOf(k), k2.fence = k.fence, k2.id = k.id,
         NEW t, DiffersIn(t, s, {"cues", "ruling", "said"}),
         t.cues = {[cue EXCEPT !.phase = phase]}
  PROVE  Cast(t, k2)
<1>. DEFINE moved == [cue EXCEPT !.phase = phase]
<1>1. /\ {"job", "phase", "order"} \subseteq DOMAIN cue
      /\ cue.job = JobOf(k) /\ cue.job.fence = s.fence
      /\ cue.order \in Nat /\ cue.order < s.order
  BY DEF IsSound, Cast
<1>2. /\ {"job", "phase", "order"} \subseteq DOMAIN moved
      /\ moved.job = cue.job /\ moved.order = cue.order /\ moved.phase = phase
  BY <1>1
<1>. HIDE DEF moved
<1>3. t.cues = {moved}
  BY DEF moved
<1>4. t.order = s.order /\ t.fence = s.fence /\ t.retired = s.retired
  BY DEF DiffersIn, StageFields
<1>5. IsPlaying(k2) /\ k.phase # "none"
  BY DEF IsPlaying
<1>6. \A job \in t.retired :
        job.id \in Nat /\ job.id <= k2.id /\ (job.id = k2.id => k2.phase = "none")
  BY <1>4, <1>5 DEF IsSound, Cast
<1>7. t.fence <= k2.fence
  BY <1>4 DEF IsSound, Cast
<1>. QED  BY <1>1, <1>2, <1>3, <1>4, <1>5, <1>6, <1>7 DEF Cast

\* The job under way on stage
LEMMA PlayingCue ==
  ASSUME NEW s, NEW p, NEW h, NEW k, NEW r, IsSound(s, p, h, k, r)
  PROVE  /\ ~IsPlaying(k) => CueOf(s, JobOf(k)) = {} /\ s.cues = {}
         /\ IsPlaying(k) =>
              \E cue : /\ s.cues = {cue} /\ CueOf(s, JobOf(k)) = {cue}
                       /\ cue.phase = "requested" <=> k.phase = "requested"
BY DEF IsSound, Cast, CueOf

LEMMA TimedKeeps ==
  ASSUME NEW s, NEW p, NEW h, NEW k, NEW r, IsSound(s, p, h, k, r)
  PROVE  IsSound(Timed(s, JobOf(k)), p, h, k, r)
<1>. DEFINE t == Timed(s, JobOf(k))
            sounding == {c \in CueOf(s, JobOf(k)) : c.phase # "requested"}
<1>1. CASE sounding = {}
  BY <1>1 DEF Timed
<1>2. CASE sounding # {}
  <2>1. IsPlaying(k)
    BY <1>2, PlayingCue
  <2>2. PICK cue : /\ s.cues = {cue} /\ CueOf(s, JobOf(k)) = {cue}
                   /\ cue.phase = "requested" <=> k.phase = "requested"
    BY <2>1, PlayingCue
  <2>3. sounding = {cue} /\ k.phase # "requested"
    BY <2>2, <1>2
  <2>4. t = [s EXCEPT !.cues = {[cue EXCEPT !.phase = "timed"]}]
    <3>1. (CHOOSE c \in sounding : TRUE) = cue
      BY <2>3
    <3>2. (s.cues \ {cue}) \cup {[cue EXCEPT !.phase = "timed"]}
            = {[cue EXCEPT !.phase = "timed"]}
      BY <2>2
    <3>. QED  BY <3>1, <3>2, <1>2 DEF Timed, Moved
  <2>5. StageFields \subseteq DOMAIN s
    BY DEF IsSound, IsShaped
  <2>. DEFINE moved == [cue EXCEPT !.phase = "timed"]
  <2>. HIDE DEF moved, sounding
  <2>6. DiffersIn(t, s, {"cues"}) /\ t.cues = {moved}
    BY <2>4, <2>5 DEF DiffersIn, StageFields, moved
  <2>. HIDE DEF t
  <2>7. k.phase \notin {"none", "requested"}
    BY <2>1, <2>3 DEF IsPlaying
  <2>8. Cast(t, k)
    <3>1. DiffersIn(t, s, {"cues", "ruling", "said"})
      BY <2>6 DEF DiffersIn
    <3>. QED  BY <3>1, <2>1, <2>2, <2>6, <2>7, CueMoves DEF moved
  <2>9. /\ DOMAIN t = DOMAIN s
        /\ t.reduced = s.reduced /\ t.display = s.display /\ t.head = s.head
        /\ t.transition = s.transition /\ t.fence = s.fence /\ t.order = s.order
        /\ t.ruling = s.ruling /\ t.said = s.said /\ t.speech = s.speech
        /\ t.retiredSpeech = s.retiredSpeech /\ t.fault = s.fault
    BY <2>6 DEF DiffersIn, StageFields
  <2>10. IsShaped(t)
    BY <2>9 DEF IsSound, IsShaped
  <2>11. Rules(t, k) /\ Says(t, k) /\ Hears(t, r) /\ Screens(t, p, h)
    BY <2>9 DEF IsSound, Rules, Says, Hears, Screens
  <2>. QED  BY <2>8, <2>10, <2>11 DEF IsSound, t
<1>. QED  BY <1>1, <1>2

\* A ruling becomes audible with the gavel, or without one.
LEMMA SoundsKeeps ==
  ASSUME NEW s, NEW p, NEW h, NEW k, NEW r, IsSound(s, p, h, k, r), k.phase = "requested",
         NEW k2, IsActor(k2), k2.phase = "audible", k2.id = k.id, k2.fence = k.fence,
         k2.purpose = k.purpose, k2.shown = k.shown, k2.ruled = k.ruled
  PROVE  IsSound(Sounds(s, JobOf(k)), p, h, k2, r)
<1>. DEFINE job == JobOf(k)
            t == Sounds(s, job)
            waiting == {c \in CueOf(s, job) : c.phase = "requested"}
            phase == IF s.reduced THEN "holding" ELSE "gavel"
            left == IF s.reduced THEN 0 ELSE GavelTime
<1>1. /\ IsPlaying(k2) = IsPlaying(k)
      /\ JobOf(k2) = job
  BY DEF IsPlaying, JobOf
<1>2. StageFields \subseteq DOMAIN s
  BY DEF IsSound, IsShaped
<1>3. CASE ~IsPlaying(k)
  <2>1. t = s /\ s.cues = {} /\ s.ruling = None
    BY <1>3, PlayingCue DEF Sounds, IsSound, Rules
  <2>2. Cast(s, k2)
    BY <2>1, <1>1, <1>3 DEF IsSound, Cast
  <2>3. Rules(s, k2)
    BY <2>1, <1>1, <1>3 DEF Rules
  <2>4. Says(s, k2)
    BY DEF IsSound, Says
  <2>. QED  BY <2>1, <2>2, <2>3, <2>4 DEF IsSound
<1>4. CASE IsPlaying(k)
  <2>1. PICK cue : /\ s.cues = {cue} /\ CueOf(s, job) = {cue}
                   /\ cue.phase = "requested"
    BY <1>4, PlayingCue
  <2>. DEFINE moved == [cue EXCEPT !.phase = "started"]
  <2>2. waiting = {cue} /\ (CHOOSE c \in waiting : TRUE) = cue
    BY <2>1
  <2>. HIDE DEF moved
  <2>3. Moved(s, cue, "started") = [s EXCEPT !.cues = {moved}]
    BY <2>1 DEF Moved, moved
  <2>. DEFINE m == [s EXCEPT !.cues = {moved}]
  <2>. HIDE DEF m
  <2>4. t = IF s.ruling # None /\ s.ruling.job = job
              THEN [m EXCEPT !.ruling = [job |-> job, phase |-> phase, left |-> left],
                             !.said = RulingSays(phase)]
              ELSE m
    BY <2>2, <2>3 DEF Sounds, m
  <2>5. /\ StageFields \subseteq DOMAIN m /\ DOMAIN m = DOMAIN s
        /\ m.cues = {moved} /\ \A f \in StageFields \ {"cues"} : m[f] = s[f]
    BY <1>2 DEF m, StageFields
  <2>. HIDE DEF phase, left
  <2>6. /\ DiffersIn(t, s, {"cues", "ruling", "said"})
        /\ t.cues = {moved}
        /\ IF s.ruling # None /\ s.ruling.job = job
             THEN /\ t.ruling = [job |-> job, phase |-> phase, left |-> left]
                  /\ t.said = RulingSays(phase)
             ELSE t.ruling = s.ruling /\ t.said = s.said
    BY <2>4, <2>5 DEF DiffersIn, StageFields
  <2>. HIDE DEF t
  <2>7. /\ DOMAIN t = DOMAIN s
        /\ t.reduced = s.reduced /\ t.display = s.display /\ t.head = s.head
        /\ t.transition = s.transition /\ t.fence = s.fence /\ t.order = s.order
        /\ t.speech = s.speech
        /\ t.retiredSpeech = s.retiredSpeech /\ t.fault = s.fault
    BY <2>6 DEF DiffersIn, StageFields
  <2>8. Cast(t, k2)
    BY <1>1, <1>4, <2>1, <2>6, CueMoves DEF moved
  <2>9. Hears(t, r) /\ Screens(t, p, h)
    BY <2>7 DEF IsSound, Hears, Screens
  <2>10. ASSUME s.ruling # None
         PROVE  IsShaped(t) /\ Rules(t, k2) /\ Says(t, k2)
    <3>1. s.ruling.job = job /\ k.purpose = "ruling"
      BY <2>10 DEF IsSound, Rules
    <3>2. /\ t.ruling = [job |-> job, phase |-> phase, left |-> left]
          /\ t.said = RulingSays(phase)
      BY <2>6, <2>10, <3>1
    <3>3. IsShaped(t)
      BY <3>2, <1>2, <2>7 DEF IsSound, IsShaped
    <3>4. phase \notin {"ready", "complete"} /\ (s.reduced => phase # "gavel")
      BY DEF phase
    <3>5. Rules(t, k2)
      BY <3>1, <3>2, <3>4, <1>1, <1>4, <2>7, NotNone DEF Rules
    <3>6. Says(t, k2)
      BY <3>2, <3>4, NotNone DEF Says, RulingSays
    <3>. QED  BY <3>3, <3>5, <3>6
  <2>11. ASSUME s.ruling = None
         PROVE  IsShaped(t) /\ Rules(t, k2) /\ Says(t, k2)
    <3>1. t.ruling = None /\ t.said = s.said
      BY <2>6, <2>11
    <3>2. IsShaped(t)
      BY <3>1, <1>2, <2>7 DEF IsSound, IsShaped
    <3>3. Rules(t, k2)
      BY <3>1, <1>1, <2>11 DEF IsSound, Rules
    <3>4. Says(t, k2)
      BY <3>1, <2>7, <2>11 DEF IsSound, Says
    <3>. QED  BY <3>2, <3>3, <3>4
  <2>. QED  BY <2>8, <2>9, <2>10, <2>11 DEF IsSound, t
<1>. QED  BY <1>3, <1>4

\* The end of the playback takes the cue and the ruling away, and retires the job.
LEMMA EndsKeeps ==
  ASSUME NEW s, NEW p, NEW h, NEW k, NEW r, IsSound(s, p, h, k, r), k.phase # "none",
         NEW completed \in BOOLEAN,
         NEW k2, IsActor(k2), k2.phase = "none", k2.id = k.id, k2.fence = k.fence,
         k2.ruled = (k.ruled \/ (completed /\ k.phase = "audible" /\ k.purpose = "ruling"))
  PROVE  IsSound(Ends(s, JobOf(k), completed), p, h, k2, r)
<1>. DEFINE job == JobOf(k)
            t == Ends(s, job, completed)
            says == IF s.ruling = None THEN s.said
                    ELSE IF completed /\ s.ruling.phase # "ready"
                      THEN RulingSays("complete") ELSE None
<1>1. StageFields \subseteq DOMAIN s
  BY DEF IsSound, IsShaped
<1>2. s.cues \ CueOf(s, job) = {}
  BY PlayingCue
<1>3. s.ruling # None => s.ruling.job = job
  BY DEF IsSound, Rules
<1>. DEFINE retired == s.retired \cup {job}
<1>. HIDE DEF job
<1>4. t = [s EXCEPT !.cues = {}, !.retired = retired, !.ruling = None, !.said = says]
  BY <1>2, <1>3 DEF Ends
<1>. HIDE DEF retired, says
<1>5. /\ DiffersIn(t, s, {"cues", "retired", "ruling", "said"})
      /\ t.cues = {} /\ t.retired = retired /\ t.ruling = None /\ t.said = says
  BY <1>1, <1>4 DEF DiffersIn, StageFields
<1>. HIDE DEF t
<1>6. /\ DOMAIN t = DOMAIN s
      /\ t.reduced = s.reduced /\ t.display = s.display /\ t.head = s.head
      /\ t.transition = s.transition /\ t.fence = s.fence /\ t.order = s.order
      /\ t.speech = s.speech
      /\ t.retiredSpeech = s.retiredSpeech /\ t.fault = s.fault
  BY <1>5 DEF DiffersIn, StageFields
<1>7. IsShaped(t)
  BY <1>1, <1>5, <1>6 DEF IsSound, IsShaped
<1>8. ~IsPlaying(k2)
  BY DEF IsPlaying
<1>9. Cast(t, k2)
  <2>1. \A old \in s.retired : old.id \in Nat /\ old.id <= k.id
    BY DEF IsSound, Cast
  <2>2. job.id \in Nat /\ job.id <= k.id
    BY DEF job, JobOf, IsSound, IsActor
  <2>3. t.fence <= k2.fence
    BY <1>6 DEF IsSound, Cast
  <2>. QED  BY <2>1, <2>2, <2>3, <1>5, <1>8 DEF Cast, retired
<1>10. Rules(t, k2)
  BY <1>5, <1>8 DEF Rules
<1>11. Says(t, k2)
  <2>1. CASE s.ruling = None
    BY <2>1, <1>5, <1>6 DEF IsSound, Says, says
  <2>2. CASE s.ruling # None
    <3>1. k.purpose = "ruling" /\ (s.ruling.phase = "ready" <=> k.phase = "requested")
      BY <2>2 DEF IsSound, Rules
    <3>2. CASE completed /\ s.ruling.phase # "ready"
      <4>1. k2.ruled
        BY <3>1, <3>2 DEF IsSound, IsActor
      <4>2. t.said = RulingSays("complete")
        BY <2>2, <3>2, <1>5 DEF says
      <4>. QED  BY <4>1, <4>2 DEF Says, RulingSays
    <3>3. CASE ~(completed /\ s.ruling.phase # "ready")
      BY <2>2, <3>3, <1>5 DEF says, Says
    <3>. QED  BY <3>2, <3>3
  <2>. QED  BY <2>1, <2>2
<1>12. Hears(t, r) /\ Screens(t, p, h)
  BY <1>6 DEF IsSound, Hears, Screens
<1>. QED  BY <1>7, <1>9, <1>10, <1>11, <1>12 DEF IsSound, t, job

\* A recording is on stage from when it is found to speak, once.
LEMMA SpeechBeginsKeeps ==
  ASSUME NEW s, NEW p, NEW h, NEW k, NEW r, IsSound(s, p, h, k, r), ~r.on,
         NEW r2, r2 = [on |-> TRUE, of |-> r.of + 1, shown |-> TRUE]
  PROVE  IsSound(SpeechBegins(s, r.of + 1), p, h, k, r2)
<1>. DEFINE u == r.of + 1
            t == SpeechBegins(s, u)
<1>1. StageFields \subseteq DOMAIN s /\ s.order \in Nat /\ r.of \in Nat
  BY DEF IsSound, IsShaped, Hears
<1>2. s.speech = None /\ u \notin s.retiredSpeech
  BY <1>1 DEF IsSound, Hears
<1>3. t = [s EXCEPT !.retiredSpeech = s.retiredSpeech,
                    !.speech = [of |-> u, order |-> s.order], !.order = s.order + 1]
  BY <1>2 DEF SpeechBegins
<1>4. /\ DiffersIn(t, s, {"speech", "order"})
      /\ t.speech = [of |-> u, order |-> s.order] /\ t.order = s.order + 1
  BY <1>1, <1>3 DEF DiffersIn, StageFields
<1>. HIDE DEF t
<1>5. /\ DOMAIN t = DOMAIN s
      /\ t.reduced = s.reduced /\ t.display = s.display /\ t.head = s.head
      /\ t.transition = s.transition /\ t.fence = s.fence /\ t.ruling = s.ruling
      /\ t.said = s.said /\ t.cues = s.cues /\ t.retired = s.retired
      /\ t.retiredSpeech = s.retiredSpeech /\ t.fault = s.fault
  BY <1>4 DEF DiffersIn, StageFields
<1>6. IsShaped(t)
  BY <1>1, <1>4, <1>5 DEF IsSound, IsShaped
<1>7. Cast(t, k)
  <2>1. \A order \in Nat : order < s.order => order < t.order
    BY <1>1, <1>4
  <2>. QED  BY <2>1, <1>5 DEF IsSound, Cast
<1>8. Rules(t, k) /\ Says(t, k) /\ Screens(t, p, h)
  BY <1>5 DEF IsSound, Rules, Says, Screens
<1>9. Hears(t, r2)
  <2>1. s.order < t.order
    BY <1>1, <1>4
  <2>2. \A v \in t.retiredSpeech : v \in Nat /\ v <= r2.of /\ v # r2.of
    BY <1>1, <1>5 DEF IsSound, Hears
  <2>. QED  BY <2>1, <2>2, <1>1, <1>4 DEF Hears
<1>. QED  BY <1>6, <1>7, <1>8, <1>9 DEF IsSound, t

LEMMA SpeechEndsKeeps ==
  ASSUME NEW s, NEW p, NEW h, NEW k, NEW r, IsSound(s, p, h, k, r),
         NEW u, u = IF r.on THEN r.of ELSE r.of + 1,
         NEW r2, r2 = [on |-> FALSE, of |-> u, shown |-> TRUE]
  PROVE  IsSound(SpeechEnds(s, u), p, h, k, r2)
<1>. DEFINE t == SpeechEnds(s, u)
            over == s.retiredSpeech \cup {u}
<1>1. StageFields \subseteq DOMAIN s /\ r.of \in Nat
  BY DEF IsSound, IsShaped, Hears
<1>2. (IF s.speech # None /\ s.speech.of = u THEN None ELSE s.speech) = None
  <2>1. CASE r.on /\ r.shown
    <3>1. PICK order \in Nat : s.speech = [of |-> r.of, order |-> order]
      BY <2>1 DEF IsSound, Hears
    <3>. QED  BY <2>1, <3>1
  <2>2. CASE ~(r.on /\ r.shown)
    BY <2>2 DEF IsSound, Hears
  <2>. QED  BY <2>1, <2>2
<1>3. t = [s EXCEPT !.speech = None, !.retiredSpeech = over]
  BY <1>2 DEF SpeechEnds
<1>. HIDE DEF over
<1>4. DiffersIn(t, s, {"speech", "retiredSpeech"}) /\ t.speech = None /\ t.retiredSpeech = over
  BY <1>1, <1>3 DEF DiffersIn, StageFields
<1>. HIDE DEF t
<1>5. /\ DOMAIN t = DOMAIN s
      /\ t.reduced = s.reduced /\ t.display = s.display /\ t.head = s.head
      /\ t.transition = s.transition /\ t.fence = s.fence /\ t.ruling = s.ruling
      /\ t.said = s.said /\ t.cues = s.cues /\ t.retired = s.retired
      /\ t.order = s.order /\ t.fault = s.fault
  BY <1>4 DEF DiffersIn, StageFields
<1>6. IsShaped(t)
  BY <1>1, <1>5 DEF IsSound, IsShaped
<1>7. Cast(t, k) /\ Rules(t, k) /\ Says(t, k) /\ Screens(t, p, h)
  BY <1>5 DEF IsSound, Cast, Rules, Says, Screens
<1>8. Hears(t, r2)
  <2>1. u \in Nat /\ r.of <= u
    BY <1>1
  <2>2. \A v \in s.retiredSpeech : v \in Nat /\ v <= u
    BY <2>1, <1>1 DEF IsSound, Hears
  <2>. QED  BY <2>1, <2>2, <1>4 DEF Hears, over
<1>. QED  BY <1>6, <1>7, <1>8 DEF IsSound, t

-----------------------------------------------------------------------------
(* Deadlines and the view of the record *)

\* The ruling on stage is the same one; its gavel may be down.
SameRuling(new, old) ==
  /\ new = None <=> old = None
  /\ old # None =>
       /\ {"job", "phase", "left"} \subseteq DOMAIN new
       /\ new.job = old.job
       /\ new.phase \in {old.phase, "holding"}
       /\ new.phase = "ready" <=> old.phase = "ready"

\* A transition is over, or still to what is displayed.
SameTransition(new, old) ==
  new # None =>
    /\ {"from", "to", "left"} \subseteq DOMAIN new
    /\ old # None /\ new.to = old.to

\* A deadline that passes and a stage that stands still keep it sound.
LEMMA DeadlinesKeep ==
  ASSUME NEW s, NEW p, NEW h, NEW k, NEW r, IsSound(s, p, h, k, r),
         NEW t, DiffersIn(t, s, {"transition", "ruling", "said", "reduced", "baseShot",
                                 "camera"}),
         t.reduced \in BOOLEAN,
         SameTransition(t.transition, s.transition), t.reduced => t.transition = None,
         SameRuling(t.ruling, s.ruling),
         t.reduced /\ t.ruling # None => t.ruling.phase # "gavel",
         t.said = s.said \/ (t.said = RulingSays("holding") /\ s.ruling # None)
  PROVE  IsSound(t, p, h, k, r)
<1>1. /\ DOMAIN t = DOMAIN s
      /\ t.display = s.display /\ t.head = s.head /\ t.fence = s.fence
      /\ t.cues = s.cues /\ t.retired = s.retired
      /\ t.speech = s.speech /\ t.retiredSpeech = s.retiredSpeech
      /\ t.order = s.order /\ t.fault = s.fault
  BY DEF DiffersIn, StageFields
<1>2. IsShaped(t)
  BY <1>1 DEF IsSound, IsShaped, SameRuling, SameTransition
<1>3. Cast(t, k) /\ Hears(t, r)
  BY <1>1 DEF IsSound, Cast, Hears
<1>4. Rules(t, k)
  BY DEF IsSound, Rules, SameRuling
<1>5. Says(t, k)
  <2>1. CASE t.said = s.said
    BY <2>1, <1>1 DEF IsSound, Says, SameRuling
  <2>2. CASE t.said = RulingSays("holding") /\ s.ruling # None
    BY <2>2 DEF Says, RulingSays, SameRuling
  <2>. QED  BY <2>1, <2>2
<1>6. Screens(t, p, h)
  BY <1>1 DEF IsSound, Screens, SameTransition
<1>. QED  BY <1>2, <1>3, <1>4, <1>5, <1>6 DEF IsSound

LEMMA AgedKeeps ==
  ASSUME NEW s, NEW p, NEW h, NEW k, NEW r, IsSound(s, p, h, k, r)
  PROVE  IsSound(Aged(s), p, h, k, r)
<1>. DEFINE t == Aged(s)
            transition == Sooner(s.transition)
            ruling == Sooner(s.ruling)
            camera == Waited(s.camera)
<1>1. SameTransition(transition, s.transition) /\ SameRuling(ruling, s.ruling)
  BY NotNone DEF Sooner, SameTransition, SameRuling, IsSound, IsShaped
<1>2. StageFields \subseteq DOMAIN s
  BY DEF IsSound, IsShaped
<1>3. t = [s EXCEPT !.camera = camera, !.transition = transition, !.ruling = ruling]
  BY DEF Aged
<1>. HIDE DEF camera, transition, ruling
<1>4. /\ DiffersIn(t, s, {"transition", "ruling", "camera"})
      /\ t.transition = transition /\ t.ruling = ruling
  BY <1>2, <1>3 DEF DiffersIn, StageFields
<1>. HIDE DEF t
<1>5. t.reduced = s.reduced /\ t.said = s.said
  BY <1>4 DEF DiffersIn, StageFields
<1>6. t.reduced \in BOOLEAN
  BY <1>5 DEF IsSound, IsShaped
<1>7. t.reduced => t.transition = None
  BY <1>1, <1>4, <1>5 DEF SameTransition, IsSound, Screens
<1>8. t.reduced /\ t.ruling # None => t.ruling.phase # "gavel"
  BY <1>1, <1>4, <1>5 DEF SameRuling, IsSound, Rules
<1>9. DiffersIn(t, s, {"transition", "ruling", "said", "reduced", "baseShot", "camera"})
  BY <1>4 DEF DiffersIn
<1>. QED  BY <1>1, <1>4, <1>5, <1>6, <1>7, <1>8, <1>9, DeadlinesKeep DEF t

\* What a deadline does to a stage
LEMMA ResolvedIs ==
  ASSUME NEW s, NEW p, NEW h, NEW k, NEW r, IsSound(s, p, h, k, r)
  PROVE  /\ DiffersIn(Resolved(s), s, {"transition", "ruling"})
         /\ SameTransition(Resolved(s).transition, s.transition)
         /\ SameRuling(Resolved(s).ruling, s.ruling)
<1>. DEFINE t == Resolved(s)
            transition == IF s.transition # None /\ s.transition.left = 0 THEN None
                          ELSE s.transition
            ruling == IF s.ruling # None /\ s.ruling.phase = "gavel" /\ s.ruling.left = 0
                      THEN [s.ruling EXCEPT !.phase = "holding"] ELSE s.ruling
<1>1. SameTransition(transition, s.transition) /\ SameRuling(ruling, s.ruling)
  BY NotNone DEF SameTransition, SameRuling, IsSound, IsShaped
<1>2. StageFields \subseteq DOMAIN s
  BY DEF IsSound, IsShaped
<1>3. t = [s EXCEPT !.transition = transition, !.ruling = ruling]
  BY DEF Resolved
<1>. HIDE DEF transition, ruling
<1>4. /\ DiffersIn(t, s, {"transition", "ruling"})
      /\ t.transition = transition /\ t.ruling = ruling
  BY <1>2, <1>3 DEF DiffersIn, StageFields
<1>. QED  BY <1>1, <1>4

LEMMA AdvanceKeeps ==
  ASSUME NEW s, NEW p, NEW h, NEW k, NEW r, IsSound(s, p, h, k, r)
  PROVE  IsSound(Advance(s), p, h, k, r)
<1>. DEFINE t == Resolved(s)
            said == IF t.ruling # s.ruling THEN RulingSays("holding") ELSE s.said
            a == Advance(s)
<1>1. /\ DiffersIn(t, s, {"transition", "ruling"})
      /\ SameTransition(t.transition, s.transition) /\ SameRuling(t.ruling, s.ruling)
  BY ResolvedIs
<1>2. StageFields \subseteq DOMAIN s
  BY DEF IsSound, IsShaped
<1>3. a = [t EXCEPT !.said = IF t.ruling # s.ruling THEN RulingSays("holding") ELSE t.said]
  BY DEF Advance
<1>. HIDE DEF t
<1>4. t.said = s.said /\ t.reduced = s.reduced /\ DOMAIN t = DOMAIN s
  BY <1>1 DEF DiffersIn, StageFields
<1>5. a = [t EXCEPT !.said = said]
  BY <1>3, <1>4
<1>. HIDE DEF said
<1>6. /\ a.transition = t.transition /\ a.ruling = t.ruling /\ a.said = said
      /\ a.reduced = s.reduced
  BY <1>2, <1>4, <1>5 DEF StageFields
<1>7. DiffersIn(a, s, {"transition", "ruling", "said", "reduced", "baseShot", "camera"})
  BY <1>1, <1>2, <1>4, <1>5 DEF DiffersIn, StageFields
<1>. HIDE DEF a
<1>8. a.reduced \in BOOLEAN
  BY <1>6 DEF IsSound, IsShaped
<1>9. a.reduced => a.transition = None
  BY <1>1, <1>6 DEF SameTransition, IsSound, Screens
<1>10. a.reduced /\ a.ruling # None => a.ruling.phase # "gavel"
  BY <1>1, <1>6 DEF SameRuling, IsSound, Rules
<1>11. a.said = s.said \/ (a.said = RulingSays("holding") /\ s.ruling # None)
  BY <1>1, <1>6 DEF said, SameRuling
<1>. QED  BY <1>1, <1>6, <1>7, <1>8, <1>9, <1>10, <1>11, DeadlinesKeep DEF a

\* A stage that takes on the page's composition and preference
LEMMA StillKeeps ==
  ASSUME NEW s, NEW p, NEW h, NEW k, NEW r, IsSound(s, p, h, k, r),
         NEW shot, NEW reduced \in BOOLEAN
  PROVE  /\ IsSound(Still([Resolved(s) EXCEPT !.baseShot = shot, !.reduced = reduced]),
                    p, h, k, r)
         /\ Still([Resolved(s) EXCEPT !.baseShot = shot, !.reduced = reduced]).fault = s.fault
         /\ Still([Resolved(s) EXCEPT !.baseShot = shot, !.reduced = reduced]).head = s.head
<1>. DEFINE t == Resolved(s)
            m == [t EXCEPT !.baseShot = shot, !.reduced = reduced]
            ruling == IF m.ruling # None /\ m.ruling.phase = "gavel"
                        THEN [m.ruling EXCEPT !.phase = "holding", !.left = 0] ELSE m.ruling
            said == IF m.ruling # None /\ m.ruling.phase = "gavel"
                      THEN RulingSays("holding") ELSE m.said
            q == Still(m)
<1>1. /\ DiffersIn(t, s, {"transition", "ruling"})
      /\ SameTransition(t.transition, s.transition) /\ SameRuling(t.ruling, s.ruling)
  BY ResolvedIs
<1>2. StageFields \subseteq DOMAIN s
  BY DEF IsSound, IsShaped
<1>. HIDE DEF t
<1>3. /\ DiffersIn(m, s, {"transition", "ruling", "baseShot", "reduced"})
      /\ m.transition = t.transition /\ m.ruling = t.ruling /\ m.reduced = reduced
  BY <1>1, <1>2 DEF DiffersIn, StageFields
<1>. HIDE DEF m
<1>4. /\ DOMAIN m = DOMAIN s /\ m.said = s.said
      /\ SameTransition(m.transition, s.transition) /\ SameRuling(m.ruling, s.ruling)
  BY <1>1, <1>3 DEF DiffersIn, StageFields
<1>5. CASE ~reduced
  <2>1. q = m
    BY <1>3, <1>5 DEF Still
  <2>2. DiffersIn(m, s, {"transition", "ruling", "said", "reduced", "baseShot", "camera"})
    BY <1>3 DEF DiffersIn
  <2>3. IsSound(m, p, h, k, r)
    BY <1>3, <1>4, <1>5, <2>2, DeadlinesKeep
  <2>4. m.fault = s.fault /\ m.head = s.head
    BY <1>3 DEF DiffersIn, StageFields
  <2>. QED  BY <2>1, <2>3, <2>4 DEF m, t
<1>6. CASE reduced
  <2>1. /\ SameRuling(ruling, s.ruling)
        /\ ruling # None => ruling.phase # "gavel"
        /\ said = s.said \/ (said = RulingSays("holding") /\ s.ruling # None)
    BY <1>4, NotNone DEF SameRuling
  <2>2. q = [m EXCEPT !.transition = None, !.ruling = ruling, !.said = said]
    BY <1>3, <1>6 DEF Still
  <2>. HIDE DEF ruling, said
  <2>3. /\ DiffersIn(q, m, {"transition", "ruling", "said"})
        /\ q.transition = None /\ q.ruling = ruling /\ q.said = said
    BY <1>2, <1>4, <2>2 DEF DiffersIn, StageFields
  <2>. HIDE DEF q
  <2>4. /\ DiffersIn(q, s, {"transition", "ruling", "said", "reduced", "baseShot", "camera"})
        /\ q.reduced = reduced
    BY <1>3, <2>3 DEF DiffersIn, StageFields
  <2>5. SameTransition(q.transition, s.transition)
    BY <2>3 DEF SameTransition
  <2>6. IsSound(q, p, h, k, r)
    BY <2>1, <2>3, <2>4, <2>5, DeadlinesKeep
  <2>7. q.fault = s.fault /\ q.head = s.head
    BY <2>4 DEF DiffersIn, StageFields
  <2>. QED  BY <2>6, <2>7 DEF q, m, t
<1>. QED  BY <1>5, <1>6

\* The page has offered its version to the stage.
Offers(p2, p) ==
  /\ {"shot", "head", "reduced", "due", "changes", "offered"} \subseteq DOMAIN p2
  /\ p2.head = p.head /\ p2.reduced = p.reduced
  /\ p2.offered = IF p.head > p.offered THEN p.head ELSE p.offered

\* A newer screen is shown at once, with a transition, or not at all: then the page is gone.
LEMMA ShowsKeeps ==
  ASSUME NEW s, NEW p, NEW k, NEW r, IsSound(s, p, heads, k, r), s.fault = "none",
         p.head # 0, NEW p2, Offers(p2, p)
  PROVE  IsSound(Shows(s, p.head), p2, heads, k, r)
<1>. DEFINE head == p.head
            t == Shows(s, head)
            to == heads[head]
            from == Displayed(s)
<1>1. /\ StageFields \subseteq DOMAIN s /\ s.head \in Nat /\ s.reduced \in BOOLEAN
      /\ s.head = p.offered /\ head \in 1 .. Len(heads) /\ head \in Nat
      /\ heads \in Seq({Idle} \cup Exhibits) /\ Len(heads) \in Nat
  BY DEF IsSound, IsShaped, Screens
<1>2. p2.head \in 0 .. Len(heads) /\ p2.offered \in Nat /\ p2.head # 0
      /\ p2.reduced \in BOOLEAN
  BY <1>1 DEF Offers, IsSound, Screens
<1>3. CASE head <= s.head
  <2>1. t = s /\ p2.offered = p.offered
    BY <1>1, <1>3 DEF Shows, Offers
  <2>2. Screens(s, p2, heads)
    BY <2>1, <1>2 DEF IsSound, Screens, Offers
  <2>. QED  BY <2>1, <2>2 DEF IsSound
<1>4. CASE head > s.head
  <2>1. p2.offered = head
    BY <1>1, <1>4 DEF Offers
  <2>2. CASE s.head = 0
    <3>. DEFINE said == IF s.said # None /\ s.said.kind # "ruling" THEN None ELSE s.said
    <3>1. t = [s EXCEPT !.head = head, !.display = to, !.transition = None, !.said = said]
      BY <1>1, <1>4, <2>2 DEF Shows
    <3>. HIDE DEF said, to
    <3>2. /\ DiffersIn(t, s, {"head", "display", "transition", "said"})
          /\ t.head = head /\ t.display = to /\ t.transition = None /\ t.said = said
      BY <1>1, <3>1 DEF DiffersIn, StageFields
    <3>. HIDE DEF t, head
    <3>3. /\ DOMAIN t = DOMAIN s
          /\ t.reduced = s.reduced /\ t.fence = s.fence /\ t.ruling = s.ruling
          /\ t.cues = s.cues /\ t.retired = s.retired
          /\ t.speech = s.speech /\ t.retiredSpeech = s.retiredSpeech
          /\ t.order = s.order /\ t.fault = s.fault
      BY <3>2 DEF DiffersIn, StageFields
    <3>4. IsShaped(t)
      BY <1>1, <3>2, <3>3 DEF IsSound, IsShaped
    <3>5. Cast(t, k) /\ Rules(t, k) /\ Hears(t, r)
      BY <3>3 DEF IsSound, Cast, Rules, Hears
    <3>6. Says(t, k)
      BY <3>2, <3>3 DEF IsSound, Says, said
    <3>7. Screens(t, p2, heads)
      BY <1>1, <1>2, <2>1, <3>2 DEF Screens, Offers, to
    <3>. QED  BY <3>4, <3>5, <3>6, <3>7 DEF IsSound, t, head
  <2>3. CASE s.head # 0 /\ s.display = to
    <3>1. t = [s EXCEPT !.head = head]
      BY <1>1, <1>4, <2>3 DEF Shows
    <3>. HIDE DEF to
    <3>2. DiffersIn(t, s, {"head"}) /\ t.head = head
      BY <1>1, <3>1 DEF DiffersIn, StageFields
    <3>. HIDE DEF t, head
    <3>3. /\ DOMAIN t = DOMAIN s
          /\ t.reduced = s.reduced /\ t.fence = s.fence /\ t.ruling = s.ruling
          /\ t.cues = s.cues /\ t.retired = s.retired /\ t.display = s.display
          /\ t.transition = s.transition /\ t.said = s.said
          /\ t.speech = s.speech /\ t.retiredSpeech = s.retiredSpeech
          /\ t.order = s.order /\ t.fault = s.fault
      BY <3>2 DEF DiffersIn, StageFields
    <3>4. IsShaped(t)
      BY <1>1, <3>2, <3>3 DEF IsSound, IsShaped
    <3>5. Cast(t, k) /\ Rules(t, k) /\ Says(t, k) /\ Hears(t, r)
      BY <3>3 DEF IsSound, Cast, Rules, Says, Hears
    <3>6. t.transition # None => t.transition.to = t.display /\ ~t.reduced
      BY <3>3 DEF IsSound, Screens
    <3>7. Screens(t, p2, heads)
      BY <1>1, <1>2, <2>1, <2>3, <3>2, <3>3, <3>6 DEF Screens, Offers, to
    <3>. QED  BY <3>4, <3>5, <3>7 DEF IsSound, t, head
  <2>4. CASE s.head # 0 /\ s.display # to /\ from = to /\ ~s.reduced
    <3>1. t = [s EXCEPT !.fault = "reopened"]
      BY <1>1, <1>4, <2>4 DEF Shows
    <3>2. DiffersIn(t, s, {"fault"}) /\ t.fault = "reopened"
      BY <1>1, <3>1 DEF DiffersIn, StageFields
    <3>. HIDE DEF t, head
    <3>3. /\ DOMAIN t = DOMAIN s
          /\ t.reduced = s.reduced /\ t.fence = s.fence /\ t.ruling = s.ruling
          /\ t.cues = s.cues /\ t.retired = s.retired /\ t.display = s.display
          /\ t.transition = s.transition /\ t.said = s.said /\ t.head = s.head
          /\ t.speech = s.speech /\ t.retiredSpeech = s.retiredSpeech
          /\ t.order = s.order
      BY <3>2 DEF DiffersIn, StageFields
    <3>4. IsShaped(t)
      BY <1>1, <3>2, <3>3 DEF IsSound, IsShaped
    <3>5. Cast(t, k) /\ Rules(t, k) /\ Says(t, k) /\ Hears(t, r)
      BY <3>3 DEF IsSound, Cast, Rules, Says, Hears
    <3>6. Screens(t, p2, heads)
      BY <1>2, <3>2, <3>3 DEF IsSound, Screens, Offers
    <3>. QED  BY <3>4, <3>5, <3>6 DEF IsSound, t, head
  <2>5. CASE s.head # 0 /\ s.display # to /\ ~(from = to /\ ~s.reduced)
    <3>. DEFINE transition == IF s.reduced THEN None
                              ELSE [from |-> from, to |-> to, left |-> Transition]
                said == ScreenSays(from, to)
    <3>1. t = [s EXCEPT !.head = head, !.display = to, !.said = said,
                        !.transition = transition]
      BY <1>1, <1>4, <2>5 DEF Shows
    <3>2. /\ transition # None => /\ transition.to = to /\ ~s.reduced
                                  /\ {"from", "to", "left"} \subseteq DOMAIN transition
          /\ \/ said.kind = "shown" /\ to = said.of
             \/ said.kind = "closed" /\ to = Idle
      BY DEF ScreenSays
    <3>. HIDE DEF said, transition, from, to
    <3>3. /\ DiffersIn(t, s, {"head", "display", "transition", "said"})
          /\ t.head = head /\ t.display = to /\ t.transition = transition
          /\ t.said = said
      BY <1>1, <3>1 DEF DiffersIn, StageFields
    <3>. HIDE DEF t, head
    <3>4. /\ DOMAIN t = DOMAIN s
          /\ t.reduced = s.reduced /\ t.fence = s.fence /\ t.ruling = s.ruling
          /\ t.cues = s.cues /\ t.retired = s.retired
          /\ t.speech = s.speech /\ t.retiredSpeech = s.retiredSpeech
          /\ t.order = s.order /\ t.fault = s.fault
      BY <3>3 DEF DiffersIn, StageFields
    <3>5. IsShaped(t)
      BY <1>1, <3>2, <3>3, <3>4 DEF IsSound, IsShaped
    <3>6. Cast(t, k) /\ Rules(t, k) /\ Hears(t, r)
      BY <3>4 DEF IsSound, Cast, Rules, Hears
    <3>7. Says(t, k)
      BY <3>2, <3>3 DEF Says
    <3>8. Screens(t, p2, heads)
      BY <1>1, <1>2, <2>1, <3>2, <3>3, <3>4 DEF Screens, Offers, to
    <3>. QED  BY <3>5, <3>6, <3>7, <3>8 DEF IsSound, t, head
  <2>. QED  BY <2>2, <2>3, <2>4, <2>5
<1>. QED  BY <1>1, <1>3, <1>4

-----------------------------------------------------------------------------
(* The actions *)

\* A stage of the present or a coming page that nothing was done to
LEMMA FreshIsSound ==
  ASSUME NEW p, NEW h, NEW k, NEW r, NEW reduced \in BOOLEAN,
         {"shot", "head", "reduced", "due", "changes", "offered"} \subseteq DOMAIN p,
         h \in Seq({Idle} \cup Exhibits), p.head \in 0 .. Len(h), p.reduced \in BOOLEAN,
         p.offered = 0,
         IsActor(k), ~IsPlaying(k),
         {"on", "of", "shown"} \subseteq DOMAIN r,
         r.on \in BOOLEAN, r.shown \in BOOLEAN, r.of \in Nat, ~(r.on /\ r.shown)
  PROVE  IsSound(Fresh(reduced), p, h, k, r)
<1>. DEFINE t == Fresh(reduced)
<1>1. /\ StageFields \subseteq DOMAIN t
      /\ t.reduced = reduced /\ t.display = Idle /\ t.head = 0 /\ t.transition = None
      /\ t.ruling = None /\ t.said = None /\ t.order = 1 /\ t.fence = 0 /\ t.cues = {}
      /\ t.retired = {} /\ t.speech = None /\ t.retiredSpeech = {} /\ t.fault = "none"
  BY DEF Fresh, StageFields
<1>. HIDE DEF t
<1>2. IsShaped(t)
  BY <1>1 DEF IsShaped
<1>3. Cast(t, k) /\ Rules(t, k) /\ Says(t, k) /\ Hears(t, r)
  BY <1>1 DEF Cast, Rules, Says, Hears, IsActor
<1>4. Screens(t, p, h)
  <2>1. Len(h) \in Nat
    OBVIOUS
  <2>. QED  BY <2>1, <1>1 DEF Screens
<1>. QED  BY <1>2, <1>3, <1>4 DEF IsSound, t

LEMMA InitIsSound == Init => StageInv
<1>. SUFFICES ASSUME Init PROVE StageInv
  OBVIOUS
<1>1. IsActor(speaker) /\ ~IsPlaying(speaker)
  BY DEF Init, IsActor, IsPlaying
<1>2. heads \in Seq({Idle} \cup Exhibits) /\ Len(heads) = 0
  BY DEF Init
<1>3. /\ {"shot", "head", "reduced", "due", "changes", "offered"} \subseteq DOMAIN page
      /\ page.head = 0 /\ page.reduced \in BOOLEAN /\ page.offered = 0
  BY DEF Init
<1>4. /\ {"on", "of", "shown"} \subseteq DOMAIN recording
      /\ recording.on \in BOOLEAN /\ recording.shown \in BOOLEAN /\ ~recording.on
      /\ recording.of \in Nat
  BY DEF Init
<1>5. stage = Fresh(FALSE) /\ page.head \in 0 .. Len(heads)
  BY <1>2, <1>3 DEF Init
<1>6. IsSound(Fresh(FALSE), page, heads, speaker, recording)
  BY <1>1, <1>2, <1>3, <1>4, <1>5, FreshIsSound
<1>. QED  BY <1>5, <1>6 DEF StageInv

LEMMA ViewChangesKeeps == StageInv /\ ViewChanges => StageInv'
<1>. SUFFICES ASSUME StageInv, ViewChanges PROVE StageInv'
  OBVIOUS
<1>1. /\ Screens(stage, page, heads) /\ IsActor(speaker) /\ Hears(stage, recording)
      /\ IsShaped(stage) /\ stage.fault = "none"
  BY DEF StageInv, IsSound, ViewChanges, Up
<1>2. heads \in Seq({Idle} \cup Exhibits) /\ Len(heads) \in Nat
  BY <1>1 DEF Screens
<1>3. /\ heads' \in Seq({Idle} \cup Exhibits)
      /\ Len(heads') \in Nat /\ Len(heads) <= Len(heads')
      /\ \A head \in 1 .. Len(heads) : heads'[head] = heads[head]
  BY <1>2 DEF ViewChanges
<1>4. PICK shot \in Shots, head \in 1 .. Len(heads') :
        page' = [page EXCEPT !.shot = shot, !.head = head, !.due = TRUE,
                             !.changes = page.changes + 1]
  BY DEF ViewChanges
<1>5. /\ {"shot", "head", "reduced", "due", "changes", "offered"} \subseteq DOMAIN page'
      /\ page'.head = head /\ page'.reduced = page.reduced
      /\ page'.offered = page.offered
  BY <1>1, <1>4 DEF Screens
<1>6. /\ head \in 0 .. Len(heads') /\ head # 0
  BY <1>3
<1>7. CASE page.head = 0
  <2>1. /\ stage' = Fresh(page.reduced)
        /\ speaker' = [speaker EXCEPT !.shown = FALSE]
        /\ recording' = [recording EXCEPT !.shown = FALSE]
    BY <1>7 DEF ViewChanges
  <2>2. IsActor(speaker') /\ ~IsPlaying(speaker')
    BY <2>1, <1>1 DEF IsActor, IsPlaying
  <2>3. /\ {"on", "of", "shown"} \subseteq DOMAIN recording'
        /\ recording'.on = recording.on /\ recording'.of = recording.of
        /\ recording'.shown = FALSE
    BY <2>1, <1>1 DEF Hears
  <2>4. /\ recording.on \in BOOLEAN /\ recording.of \in Nat
        /\ page.reduced \in BOOLEAN /\ page.offered = 0
    BY <1>1, <1>7 DEF Hears, Screens
  <2>. QED  BY <1>3, <1>5, <1>6, <2>1, <2>2, <2>3, <2>4, FreshIsSound DEF StageInv
<1>8. CASE page.head # 0
  <2>1. UNCHANGED <<stage, speaker, recording>>
    BY <1>8 DEF ViewChanges
  <2>2. stage.head \in Nat /\ stage.head <= Len(heads)
    BY <1>1 DEF IsShaped, Screens
  <2>3. stage.head <= Len(heads') /\ (stage.head # 0 => stage.display = heads'[stage.head])
    <3>1. stage.head # 0 => stage.head \in 1 .. Len(heads)
      BY <2>2, <1>2
    <3>2. stage.head <= Len(heads')
      BY <2>2, <1>2, <1>3
    <3>3. stage.head # 0 => stage.display = heads[stage.head]
      BY <1>1 DEF Screens
    <3>. QED  BY <3>1, <3>2, <3>3, <1>3
  <2>4. Screens(stage, page', heads')
    BY <1>1, <1>3, <1>5, <1>6, <2>3 DEF Screens
  <2>. QED  BY <2>1, <2>4 DEF StageInv, IsSound
<1>. QED  BY <1>7, <1>8

LEMMA MotionPreferenceKeeps == StageInv /\ MotionPreference => StageInv'
<1>. SUFFICES ASSUME StageInv, MotionPreference PROVE StageInv'
  OBVIOUS
<1>1. Screens(stage, page, heads)
  BY DEF StageInv, IsSound
<1>2. page' = [page EXCEPT !.reduced = ~page.reduced, !.changes = page.changes + 1,
                           !.due = TRUE]
  BY DEF MotionPreference
<1>3. /\ {"shot", "head", "reduced", "due", "changes", "offered"} \subseteq DOMAIN page'
      /\ page'.head = page.head /\ page'.reduced = ~page.reduced
      /\ page'.offered = page.offered
  BY <1>1, <1>2 DEF Screens
<1>4. Screens(stage, page', heads)
  BY <1>1, <1>3 DEF Screens
<1>. QED  BY <1>4 DEF StageInv, IsSound, MotionPreference

LEMMA RebaseKeeps == StageInv /\ Rebase => StageInv'
<1>. SUFFICES ASSUME StageInv, Rebase PROVE StageInv'
  OBVIOUS
<1>1. Screens(stage, page, heads) /\ stage.fault = "none" /\ page.reduced \in BOOLEAN
  BY DEF StageInv, IsSound, Rebase, Up, Screens
<1>2. page' = [page EXCEPT !.due = FALSE,
                           !.offered = IF page.head > page.offered THEN page.head
                                       ELSE page.offered]
  BY DEF Rebase
<1>3. Offers(page', page)
  BY <1>1, <1>2 DEF Offers, Screens
<1>. DEFINE t == Still([Resolved(stage) EXCEPT !.baseShot = page.shot,
                                               !.reduced = page.reduced])
<1>4. IsSound(t, page, heads, speaker, recording) /\ t.fault = "none"
  BY <1>1, StillKeeps, ZenonT(40) DEF StageInv
<1>5. Rebased(stage) = IF page.head = 0 THEN t ELSE Shows(t, page.head)
  BY DEF Rebased
<1>. HIDE DEF t
<1>6. IsSound(Rebased(stage), page', heads, speaker, recording)
  <2>1. CASE page.head = 0
    <3>1. page'.offered = page.offered
      BY <1>1, <2>1, <1>3 DEF Offers, Screens
    <3>2. Screens(t, page', heads)
      BY <1>3, <1>4, <3>1 DEF Offers, IsSound, Screens
    <3>. QED  BY <1>4, <1>5, <2>1, <3>2 DEF IsSound
  <2>2. CASE page.head # 0
    BY <1>3, <1>4, <1>5, <2>2, ShowsKeeps
  <2>. QED  BY <2>1, <2>2
<1>7. IsSound(stage', page', heads, speaker, recording)
  BY <1>6, BecomesSound DEF Rebase
<1>. QED  BY <1>7 DEF StageInv, Rebase

LEMMA WakeKeeps == StageInv /\ Wake => StageInv'
<1>. SUFFICES ASSUME StageInv, Wake PROVE StageInv'
  OBVIOUS
<1>1. IsSound(stage', page, heads, speaker, recording)
  BY AdvanceKeeps, BecomesSound DEF StageInv, Wake
<1>. QED  BY <1>1 DEF StageInv, Wake

LEMMA TickKeeps == StageInv /\ Tick => StageInv'
BY AgedKeeps DEF StageInv, Tick

\* No playback event is of an earlier fence than the stage.
LEMMA ReduceKeeps ==
  ASSUME StageInv, NEW job, job.fence \in Nat, stage.fence <= job.fence,
         NEW after, NEW k, NEW r,
         IsSound(after, page, heads, k, r), Reduce(job, after)
  PROVE  IsSound(stage', page, heads, k, r)
<1>1. stage.fence \in Nat
  BY DEF StageInv, IsSound, IsShaped
<1>2. Becomes(after)
  BY <1>1 DEF Reduce
<1>. QED  BY <1>2, BecomesSound

LEMMA JobRequestedKeeps == StageInv /\ JobRequested => StageInv'
<1>. SUFFICES ASSUME StageInv, JobRequested PROVE StageInv'
  OBVIOUS
<1>1. PICK purpose \in Purposes, fence \in {speaker.fence, speaker.fence + 1} :
        /\ speaker' = [speaker EXCEPT !.phase = "requested", !.id = speaker.id + 1,
                                      !.fence = fence, !.purpose = purpose, !.shown = TRUE]
        /\ LET job == [id |-> speaker.id + 1, fence |-> fence, purpose |-> purpose]
           IN Reduce(job, Takes(Heard(job), job))
  BY DEF JobRequested
<1>. DEFINE job == [id |-> speaker.id + 1, fence |-> fence, purpose |-> purpose]
            between == [speaker EXCEPT !.fence = fence]
<1>2. /\ IsActor(speaker) /\ speaker.fence \in Nat /\ speaker.id \in Nat
      /\ stage.fence <= speaker.fence /\ stage.fence \in Nat
      /\ speaker.phase = "none"
  BY DEF StageInv, IsSound, IsActor, IsShaped, Cast, JobRequested
<1>3. fence \in Nat /\ fence >= speaker.fence /\ stage.fence <= fence
  BY <1>2
<1>4. /\ IsActor(between) /\ between.fence = fence /\ between.phase = speaker.phase
      /\ between.id = speaker.id /\ between.purpose = speaker.purpose
      /\ between.shown = speaker.shown /\ between.ruled = speaker.ruled
  BY <1>2, <1>3 DEF IsActor
<1>5. /\ IsActor(speaker') /\ speaker'.fence = fence /\ speaker'.phase = "requested"
      /\ speaker'.id = speaker.id + 1 /\ speaker'.purpose = purpose
      /\ speaker'.shown = TRUE /\ speaker'.ruled = speaker.ruled
  BY <1>1, <1>2, <1>3 DEF IsActor
<1>6. job = JobOf(speaker') /\ job.fence = fence
  BY <1>5 DEF JobOf
<1>. HIDE DEF between
<1>7. /\ IsSound(Heard(job), page, heads, between, recording)
      /\ Heard(job).fence = fence
  BY <1>2, <1>3, <1>4, <1>6, FencedKeeps, FencedIs DEF StageInv, Heard
<1>8. IsSound(Takes(Heard(job), job), page, heads, speaker', recording)
  BY <1>2, <1>4, <1>5, <1>6, <1>7, TakesKeeps, ZenonT(40)
<1>9. Reduce(job, Takes(Heard(job), job))
  BY <1>1
<1>. HIDE DEF job
<1>10. IsSound(stage', page, heads, speaker', recording)
  BY <1>3, <1>6, <1>8, <1>9, ReduceKeeps
<1>. QED  BY <1>10 DEF StageInv, JobRequested

\* The job under way is of the stage's fence, or of one the stage has not seen.
LEMMA HeardJob ==
  ASSUME StageInv
  PROVE  /\ Job = JobOf(speaker) /\ Job.fence = speaker.fence /\ Job.fence \in Nat
         /\ stage.fence <= Job.fence
         /\ IsSound(Heard(Job), page, heads, speaker, recording)
<1>1. /\ Job = JobOf(speaker) /\ Job.fence = speaker.fence
      /\ IsActor(speaker) /\ speaker.fence \in Nat /\ stage.fence <= speaker.fence
  BY DEF Job, JobOf, StageInv, IsSound, Cast, IsActor
<1>2. Job.fence \in Nat /\ Job.fence >= speaker.fence /\ ~(Job.fence > speaker.fence)
  BY <1>1
<1>3. IsSound(Fenced(stage, Job), page, heads, speaker, recording)
  BY <1>1, <1>2, FencedKeeps DEF StageInv
<1>. QED  BY <1>1, <1>3 DEF Heard

LEMMA JobSoundsKeeps == StageInv /\ JobSounds => StageInv'
<1>. SUFFICES ASSUME StageInv, JobSounds PROVE StageInv'
  OBVIOUS
<1>1. /\ speaker' = [speaker EXCEPT !.phase = "audible"] /\ speaker.phase = "requested"
      /\ Reduce(Job, Sounds(Heard(Job), Job))
  BY DEF JobSounds
<1>2. IsActor(speaker)
  BY DEF StageInv, IsSound
<1>3. /\ IsActor(speaker') /\ speaker'.phase = "audible" /\ speaker'.id = speaker.id
      /\ speaker'.fence = speaker.fence /\ speaker'.purpose = speaker.purpose
      /\ speaker'.shown = speaker.shown /\ speaker'.ruled = speaker.ruled
  BY <1>1, <1>2 DEF IsActor
<1>4. IsSound(Sounds(Heard(Job), Job), page, heads, speaker', recording)
  BY <1>1, <1>3, HeardJob, SoundsKeeps
<1>5. IsSound(stage', page, heads, speaker', recording)
  BY <1>1, <1>4, HeardJob, ReduceKeeps
<1>. QED  BY <1>5 DEF StageInv, JobSounds

LEMMA JobTimedKeeps == StageInv /\ JobTimed => StageInv'
<1>. SUFFICES ASSUME StageInv, JobTimed PROVE StageInv'
  OBVIOUS
<1>1. IsSound(Timed(Heard(Job), Job), page, heads, speaker, recording)
  BY HeardJob, TimedKeeps
<1>2. IsSound(stage', page, heads, speaker, recording)
  BY <1>1, HeardJob, ReduceKeeps DEF JobTimed
<1>. QED  BY <1>2 DEF StageInv, JobTimed

LEMMA JobEndsKeeps ==
  ASSUME StageInv, NEW completed \in BOOLEAN, JobEnds(completed)
  PROVE  StageInv'
<1>. DEFINE goesOn == completed /\ ~CutsIn(speaker.purpose)
            ruled == speaker.ruled \/ (completed /\ speaker.phase = "audible"
                                         /\ speaker.purpose = "ruling")
<1>1. /\ speaker' = [speaker EXCEPT !.phase = "none", !.goesOn = goesOn, !.ruled = ruled]
      /\ speaker.phase # "none"
      /\ Reduce(Job, Ends(Heard(Job), Job, completed))
  BY DEF JobEnds
<1>2. IsActor(speaker)
  BY DEF StageInv, IsSound
<1>3. ruled \in BOOLEAN
  BY <1>2 DEF IsActor
<1>. HIDE DEF ruled, goesOn
<1>4. /\ IsActor(speaker') /\ speaker'.phase = "none" /\ speaker'.id = speaker.id
      /\ speaker'.fence = speaker.fence /\ speaker'.ruled = ruled
  BY <1>1, <1>2, <1>3 DEF IsActor
<1>5. IsSound(Ends(Heard(Job), Job, completed), page, heads, speaker', recording)
  BY <1>1, <1>4, HeardJob, EndsKeeps, ZenonT(40) DEF ruled
<1>6. IsSound(stage', page, heads, speaker', recording)
  BY <1>1, <1>5, HeardJob, ReduceKeeps
<1>. QED  BY <1>6 DEF StageInv, JobEnds

\* The stage knows nothing of whether a response goes on.
LEMMA GoesOnIsFree ==
  ASSUME NEW s, NEW p, NEW h, NEW k, NEW r, IsSound(s, p, h, k, r), NEW goesOn
  PROVE  IsSound(s, p, h, [k EXCEPT !.goesOn = goesOn], r)
<1>. DEFINE k2 == [k EXCEPT !.goesOn = goesOn]
<1>1. IsActor(k)
  BY DEF IsSound
<1>2. /\ IsActor(k2) /\ k2.phase = k.phase /\ k2.id = k.id /\ k2.fence = k.fence
      /\ k2.purpose = k.purpose /\ k2.shown = k.shown /\ k2.ruled = k.ruled
  BY <1>1 DEF IsActor
<1>. HIDE DEF k2
<1>3. IsPlaying(k2) = IsPlaying(k) /\ JobOf(k2) = JobOf(k)
  BY <1>2 DEF IsPlaying, JobOf
<1>4. Cast(s, k2) /\ Rules(s, k2) /\ Says(s, k2)
  BY <1>2, <1>3 DEF IsSound, Cast, Rules, Says
<1>. QED  BY <1>2, <1>4 DEF IsSound, k2

LEMMA RecordingSpeaksKeeps == StageInv /\ RecordingSpeaks => StageInv'
<1>. SUFFICES ASSUME StageInv, RecordingSpeaks PROVE StageInv'
  OBVIOUS
<1>1. IsSound(SpeechBegins(stage, recording.of + 1), page, heads, speaker, recording')
  BY SpeechBeginsKeeps DEF StageInv, RecordingSpeaks
<1>2. IsSound(stage', page, heads, speaker, recording')
  BY <1>1, BecomesSound DEF RecordingSpeaks
<1>3. IsSound(stage', page, heads, speaker', recording')
  BY <1>2, GoesOnIsFree DEF RecordingSpeaks
<1>. QED  BY <1>3 DEF StageInv, RecordingSpeaks

LEMMA RecordingEndsKeeps == StageInv /\ RecordingEnds => StageInv'
<1>. SUFFICES ASSUME StageInv, RecordingEnds PROVE StageInv'
  OBVIOUS
<1>. DEFINE of == IF recording.on THEN recording.of ELSE recording.of + 1
<1>1. /\ recording' = [on |-> FALSE, of |-> of, shown |-> TRUE]
      /\ Becomes(SpeechEnds(stage, of))
  BY DEF RecordingEnds
<1>2. IsSound(SpeechEnds(stage, of), page, heads, speaker, recording')
  BY <1>1, SpeechEndsKeeps DEF StageInv
<1>3. IsSound(stage', page, heads, speaker, recording')
  BY <1>1, <1>2, BecomesSound
<1>4. IsSound(stage', page, heads, speaker', recording')
  BY <1>3, GoesOnIsFree DEF RecordingEnds
<1>. QED  BY <1>4 DEF StageInv, RecordingEnds

LEMMA NextIsSound == StageInv /\ [Next]_vars => StageInv'
<1>. SUFFICES ASSUME StageInv, [Next]_vars PROVE StageInv'
  OBVIOUS
<1>1. CASE UNCHANGED vars
  BY <1>1 DEF vars, StageInv
<1>2. CASE Next
  BY <1>2, ViewChangesKeeps, MotionPreferenceKeeps, RebaseKeeps, WakeKeeps, TickKeeps,
     JobRequestedKeeps, JobSoundsKeeps, JobTimedKeeps, JobEndsKeeps,
     RecordingSpeaksKeeps, RecordingEndsKeeps DEF Next
<1>. QED  BY <1>1, <1>2

\* The invariant says at least what is asked of the stage.
LEMMA SoundIsTrue == StageInv => StageIsTrue
<1>. SUFFICES ASSUME StageInv PROVE StageIsTrue
  OBVIOUS
<1>1. OnStage = IsPlaying(speaker) /\ Job = JobOf(speaker)
  BY DEF OnStage, IsPlaying, Job, JobOf
<1>2. /\ {cue.job : cue \in stage.cues} = IF OnStage THEN {Job} ELSE {}
      /\ \A cue \in stage.cues : cue.phase = "requested" <=> speaker.phase = "requested"
  <2>1. CASE IsPlaying(speaker)
    BY <1>1, <2>1 DEF StageInv, IsSound, Cast
  <2>2. CASE ~IsPlaying(speaker)
    BY <1>1, <2>2 DEF StageInv, IsSound, Cast
  <2>. QED  BY <2>1, <2>2
<1>3. stage.speech = IF recording.on /\ recording.shown
                       THEN [of |-> recording.of, order |-> stage.speech.order] ELSE None
  <2>1. CASE recording.on /\ recording.shown
    <3>1. PICK order \in Nat : stage.speech = [of |-> recording.of, order |-> order]
      BY <2>1 DEF StageInv, IsSound, Hears
    <3>. QED  BY <2>1, <3>1
  <2>2. CASE ~(recording.on /\ recording.shown)
    BY <2>2 DEF StageInv, IsSound, Hears
  <2>. QED  BY <2>1, <2>2
<1>4. (stage.ruling # None) <=> OnStage /\ speaker.purpose = "ruling"
  BY <1>1 DEF StageInv, IsSound, Rules
<1>5. stage.said # None =>
        CASE stage.said.kind = "shown"  -> stage.display = stage.said.of
          [] stage.said.kind = "closed" -> stage.display = Idle
          [] stage.said.kind = "ruling" -> IF stage.said.change = "complete"
                                             THEN speaker.ruled ELSE stage.ruling # None
  BY DEF StageInv, IsSound, Says
<1>6. /\ Up => stage.head = page.offered
      /\ stage.head # 0 => stage.display = heads[stage.head]
      /\ stage.fault # "invalid"
  BY DEF StageInv, IsSound, Screens, IsShaped, Up
<1>. QED  BY <1>2, <1>3, <1>4, <1>5, <1>6 DEF StageIsTrue

\* What is on stage is what is heard, no earlier and no longer, however requests, starts
\* and ends of playback, fences, recordings, wake-ups, rebases and a reset of the stage
\* follow each other; and the schema of the state never refuses an update of
\* reduceCourtroomPresentation.
THEOREM StageStaysTrue == Spec => []StageIsTrue
<1>1. Spec => []StageInv
  BY InitIsSound, NextIsSound, PTL DEF Spec
<1>. QED  BY <1>1, SoundIsTrue, PTL
=============================================================================
