------------------------------ MODULE TtsLane -------------------------------
(***************************************************************************)
(* The one lane through which all sessions of the speech service call the *)
(* synthesizer (suits_speech/tts_lane.py).  A call waits for the lane, is *)
(* given up when its job is cancelled, when it takes too long or when the *)
(* task that made it is cancelled, and then has a grace period to stop.   *)
(* A provider that does not stop in it quarantines the lane for good.     *)
(***************************************************************************)
EXTENDS Naturals

CONSTANTS Callers,   \* the synthesis tasks of the sessions
          Nobody

ASSUME LaneAssumption == Nobody \notin Callers

VARIABLES
  lane,      \* the lane itself
  call,      \* each caller's call of synthesize_phrase
  provider,  \* the provider task of each caller's last call
  cancelled  \* the callers whose job's cancel event is set

laneVars == <<lane, call, provider, cancelled>>

Outcomes == {"phrase", "raised", "cancelled", "timeout", "quarantined", "aborted"}
Reasons  == {"cancelled", "timeout", "aborted"}

NoCallYet == [at |-> "idle", why |-> "none"]

LaneInit ==
  /\ lane = [busy |-> FALSE, quarantined |-> FALSE, watched |-> Nobody]
  /\ call = [c \in Callers |-> NoCallYet]
  /\ provider = [c \in Callers |-> "none"]
  /\ cancelled = {}

-----------------------------------------------------------------------------
Running(c) == provider[c] = "running"
In(c, at)  == call[c].at = at

Outcome(c, why) == call' = [call EXCEPT ![c] = [at |-> "over", why |-> why]]

\* The lane is left free, unless it is quarantined: then the watcher has it.
Released == [lane EXCEPT !.busy = lane.quarantined /\ @]

Quarantined(c) ==
  [lane EXCEPT !.quarantined = TRUE, !.watched = IF @ = Nobody THEN c ELSE @]

\* synthesize_phrase, for a job that is not cancelled yet
Synthesizes(c) ==
  /\ In(c, "idle")
  /\ call' = [call EXCEPT ![c].at = "waiting"]
  /\ UNCHANGED <<lane, provider, cancelled>>

\* The caller goes on; the cancel event goes with the job.
TakesOutcome(c) ==
  /\ In(c, "over")
  /\ call' = [call EXCEPT ![c] = NoCallYet]
  /\ cancelled' = cancelled \ {c}
  /\ UNCHANGED <<lane, provider>>

Refused(c) ==
  /\ In(c, "waiting")
  /\ c \in cancelled \/ lane.quarantined
  /\ Outcome(c, IF c \in cancelled THEN "cancelled" ELSE "quarantined")
  /\ UNCHANGED <<lane, provider, cancelled>>

Enters(c) ==
  /\ In(c, "waiting")
  /\ c \notin cancelled
  /\ ~lane.quarantined
  /\ ~lane.busy
  /\ lane' = [lane EXCEPT !.busy = TRUE]
  /\ call' = [call EXCEPT ![c].at = "calling"]
  /\ provider' = [provider EXCEPT ![c] = "running"]
  /\ UNCHANGED cancelled

\* The provider returns or raises, heeding its cancel event or not.
ProviderEnds(c, how) ==
  /\ Running(c)
  /\ provider' = [provider EXCEPT ![c] = how]
  /\ UNCHANGED <<lane, call, cancelled>>

Returns(c) ==
  /\ In(c, "calling")
  /\ ~Running(c)
  /\ Outcome(c, IF provider[c] = "raised" THEN "raised"
                ELSE IF c \in cancelled THEN "cancelled"
                ELSE "phrase")
  /\ lane' = Released
  /\ UNCHANGED <<provider, cancelled>>

\* Mutant: the lane is free for the next call while this one is stopping.
Stops_Released(c, why) ==
  /\ In(c, "calling")
  /\ Running(c)
  /\ why = "cancelled" => c \in cancelled
  /\ call' = [call EXCEPT ![c] = [at |-> "stopping", why |-> why]]
  /\ lane' = Released
  /\ UNCHANGED <<provider, cancelled>>

\* The provider is told to stop, for the first of the reasons to come up.
Stops(c, why) ==
  /\ In(c, "calling")
  /\ Running(c)
  /\ why = "cancelled" => c \in cancelled
  /\ why = "timeout" => c \notin cancelled
  /\ call' = [call EXCEPT ![c] = [at |-> "stopping", why |-> why]]
  /\ UNCHANGED <<lane, provider, cancelled>>

Stopped(c) ==
  /\ In(c, "stopping")
  /\ ~Running(c)
  /\ Outcome(c, call[c].why)
  /\ lane' = Released
  /\ UNCHANGED <<provider, cancelled>>

GraceEnds(c) ==
  /\ In(c, "stopping")
  /\ Running(c)
  /\ Outcome(c, IF call[c].why = "aborted" THEN "aborted" ELSE "quarantined")
  /\ lane' = Quarantined(c)
  /\ UNCHANGED <<provider, cancelled>>

\* The calling task is cancelled; in the grace period that is no way to learn
\* whether the provider has stopped.
Aborted(c) ==
  /\ call[c].at \in {"waiting", "calling", "stopping"}
  /\ IF In(c, "calling") /\ Running(c)
       THEN Stops(c, "aborted")
       ELSE /\ Outcome(c, "aborted")
            /\ lane' = CASE In(c, "waiting")  -> lane
                         [] In(c, "calling")  -> Released
                         [] In(c, "stopping") -> Quarantined(c)
            /\ UNCHANGED <<provider, cancelled>>

\* _hold_lane_until_provider_exits
WatcherReleases ==
  /\ lane.watched # Nobody
  /\ ~Running(lane.watched)
  /\ lane.busy
  /\ lane' = [lane EXCEPT !.busy = FALSE]
  /\ UNCHANGED <<call, provider, cancelled>>

LaneStep(c) ==
  \/ Refused(c)
  \/ Enters(c)
  \/ Returns(c)
  \/ \E why \in {"cancelled", "timeout"} : Stops(c, why)
  \/ Stopped(c)
  \/ GraceEnds(c)

LaneTypeOK ==
  /\ lane \in [busy : BOOLEAN, quarantined : BOOLEAN, watched : Callers \cup {Nobody}]
  /\ call \in [Callers -> [at : {"idle", "waiting", "calling", "stopping", "over"},
                           why : Outcomes \cup {"none"}]]
  /\ provider \in [Callers -> {"none", "running", "returned", "raised"}]
  /\ cancelled \subseteq Callers
=============================================================================
