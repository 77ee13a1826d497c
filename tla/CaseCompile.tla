---------------------------- MODULE CaseCompile -----------------------------
(***************************************************************************)
(* The requests that compile a case packet (src/server/case-api/          *)
(* compile-workflow.ts and src/app/api/cases/compile/route.ts), over the  *)
(* transactions of CaseStore and next to the sweep of StorageSweep.       *)
(*                                                                         *)
(* Retries and browser tabs are drivers of their own.  A call of a driver *)
(* is in the wire until it is served or lost; the driver waits for the    *)
(* answer of its last call, gives up at any time, and calls it gave up on *)
(* may be served later.  Looking up the compiled draft is one step: a     *)
(* hit stays true, and a miss is used in a later step.                    *)
(***************************************************************************)
EXTENDS StorageSweep

VARIABLES
  driver,  \* the requests
  wire     \* the calls sent and neither served nor lost

driverVars == <<driver, wire>>
vars       == <<storeVars, sweepVars, driverVars>>

Kinds == {"acquire", "upload", "register", "release", "cleanup"}

Working == {"compiling", "upload", "register"}

\* at: what the driver does, or the kind of the call it waits for.
NoDriver ==
  [at |-> "idle", try |-> 1, reply |-> "none", gen |-> 0, blob |-> FALSE, asked |-> FALSE,
   outcome |-> "definite", verdict |-> "retryable_failed", missed |-> FALSE,
   released |-> FALSE, told |-> "nothing"]

Init ==
  /\ StoreInit
  /\ SweepInit
  /\ driver = [d \in Drivers |-> NoDriver]
  /\ wire = {}

\* A call carries the fence and the disposition it was sent with.
Call(d, state, kind) ==
  [by |-> d, kind |-> kind, try |-> state.try, gen |-> state.gen, verdict |-> state.verdict]

Becomes(d, state) == driver' = [driver EXCEPT ![d] = [state EXCEPT !.reply = "none"]]

\* The driver is in `state' and calls.
Calls(d, state, kind) ==
  /\ Becomes(d, [state EXCEPT !.at = kind])
  /\ wire' = wire \cup {Call(d, state, kind)}

\* The request is over; what its client was told is all that matters now.
Answers(d, what) ==
  /\ Becomes(d, [NoDriver EXCEPT !.at = "done", !.told = what])
  /\ UNCHANGED wire

-----------------------------------------------------------------------------
(***************************************************************************)
(* Before the claim: look for a compiled draft, then acquire, once more   *)
(* with the same token if the service is unavailable.                     *)
(***************************************************************************)
Begins(d) ==
  /\ driver[d].at = "idle"
  /\ \/ /\ Registered
        /\ Answers(d, "case")
     \/ /\ ~Registered
        /\ Calls(d, driver[d], "acquire")
     \/ Answers(d, "failed")
  /\ UNCHANGED <<storeVars, sweepVars>>

Claimed(d) ==
  /\ driver[d].at = "acquire"
  /\ \/ /\ driver[d].reply = "acquired"
        /\ Becomes(d, [driver[d] EXCEPT !.at = "compiling", !.try = 1])
        /\ UNCHANGED wire
     \/ /\ driver[d].reply \in {"busy", "quota_exceeded"}
        /\ Answers(d, "later")
     \/ /\ driver[d].reply = "terminal_failed"
        /\ Answers(d, "rejected")
     \/ /\ driver[d].reply = "completed"
        /\ \/ Registered /\ Answers(d, "case")
           \/ Answers(d, "failed")
  /\ UNCHANGED <<storeVars, sweepVars>>

\* Refused, timed out, or unavailable; or the client has gone.
ClaimFails(d) ==
  /\ driver[d].at = "acquire"
  /\ \/ Answers(d, "failed")
     \/ /\ driver[d].try = 1
        /\ Calls(d, [driver[d] EXCEPT !.try = 2], "acquire")
  /\ UNCHANGED <<storeVars, sweepVars>>

-----------------------------------------------------------------------------
(***************************************************************************)
(* The work under the claim, and what is done when it fails.              *)
(***************************************************************************)
\* A registration that was asked for and whose outcome is unknown is looked
\* up before the claim is released.
Unknown(state) == state.blob /\ state.asked /\ state.outcome = "unknown"

Recovers(d, state, verdict, outcome) ==
  LET failed == [state EXCEPT !.verdict = verdict, !.outcome = outcome] IN
  IF Unknown(failed)
    THEN /\ Becomes(d, [failed EXCEPT !.at = "reconciling"])
         /\ UNCHANGED wire
    ELSE Calls(d, failed, "release")

\* Ingestion and compilation end; the packet is uploaded.
Compiles(d) ==
  /\ driver[d].at = "compiling"
  /\ \/ Calls(d, driver[d], "upload")
     \/ \E verdict \in {"retryable_failed", "terminal_failed"} :
          Recovers(d, driver[d], verdict, "definite")
  /\ UNCHANGED <<storeVars, sweepVars>>

Uploaded(d) ==
  /\ driver[d].at = "upload" /\ driver[d].reply = "stored"
  /\ Calls(d, [driver[d] EXCEPT !.blob = TRUE, !.asked = TRUE], "register")
  /\ UNCHANGED <<storeVars, sweepVars>>

RegistrationEnds(d) ==
  /\ driver[d].at = "register"
  /\ \/ driver[d].reply = "registered" /\ Answers(d, "case")
     \/ /\ driver[d].reply = "fenced"
        /\ Recovers(d, driver[d], "retryable_failed", "definite")
     \/ /\ driver[d].reply = "rejected"
        /\ Recovers(d, driver[d], "terminal_failed", "definite")
  /\ UNCHANGED <<storeVars, sweepVars>>

\* The lease is lost, the client goes away, or the call under way fails; an
\* upload may just have been answered.
WorkEnds(d) ==
  /\ driver[d].at \in Working
  /\ \E known \in {driver[d].blob, driver[d].reply = "stored"} :
       Recovers(d, [driver[d] EXCEPT !.blob = known \/ driver[d].blob], "retryable_failed",
                IF driver[d].asked THEN "unknown" ELSE "definite")
  /\ UNCHANGED <<storeVars, sweepVars>>

\* The lease monitor; a refused heartbeat loses the lease (WorkEnds).
KeepsLease(d) ==
  /\ driver[d].at \in Working
  /\ Heartbeat(d, driver[d].gen)
  /\ UNCHANGED <<sweepVars, driverVars>>

-----------------------------------------------------------------------------
CleanupIsSafe(state) == state.outcome = "definite" \/ state.released

\* The client learns that the attempt failed; not so, if the registration
\* may still come (recovery.cleanup = "retained_unknown").  It is told after
\* the cleanup, whose result is only logged.
Fails(d, state) ==
  /\ Becomes(d, [NoDriver EXCEPT !.at = "done",
                                 !.told = IF CleanupIsSafe(state) THEN "failed" ELSE "nothing"])
  /\ wire' = IF state.blob /\ CleanupIsSafe(state)
               THEN wire \cup {Call(d, state, "cleanup")} ELSE wire

Reconciles(d) ==
  /\ driver[d].at = "reconciling"
  /\ \/ Registered /\ Answers(d, "case")
     \/ ~Registered /\ Calls(d, [driver[d] EXCEPT !.missed = TRUE], "release")
     \/ Calls(d, driver[d], "release")
  /\ UNCHANGED <<storeVars, sweepVars>>

Released(d) ==
  /\ driver[d].at = "release" /\ driver[d].reply = "released"
  /\ Fails(d, [driver[d] EXCEPT !.released = TRUE])
  /\ UNCHANGED <<storeVars, sweepVars>>

ReleaseFails(d) ==
  /\ driver[d].at = "release"
  /\ IF Unknown(driver[d]) /\ driver[d].missed
       THEN /\ Becomes(d, [driver[d] EXCEPT !.at = "rechecking"])
            /\ UNCHANGED wire
       ELSE Fails(d, driver[d])
  /\ UNCHANGED <<storeVars, sweepVars>>

Rechecks(d) ==
  /\ driver[d].at = "rechecking"
  /\ \/ Registered /\ Answers(d, "case")
     \/ Fails(d, driver[d])
  /\ UNCHANGED <<storeVars, sweepVars>>

\* The server process dies.
Dies(d) ==
  /\ driver[d].at \notin {"idle", "done"}
  /\ Answers(d, "nothing")
  /\ UNCHANGED <<storeVars, sweepVars>>

-----------------------------------------------------------------------------
(***************************************************************************)
(* The wire.                                                              *)
(***************************************************************************)
Awaited(call) ==
  /\ driver[call.by].at = call.kind
  /\ driver[call.by].try = call.try

Delivers(call, reply, gen) ==
  /\ wire' = wire \ {call}
  /\ driver' = IF Awaited(call)
                 THEN [driver EXCEPT ![call.by].reply = reply, ![call.by].gen = gen]
                 ELSE driver

ServesAcquire(call) ==
  /\ call.kind = "acquire"
  /\ Acquire(call.by)
  /\ Delivers(call, AcquireAnswer(call.by),
              IF AcquireAnswer(call.by) = "acquired" THEN AnsweredGen(call.by) ELSE 0)

ServesUpload(call) ==
  /\ call.kind = "upload"
  /\ Store(call.by)
  /\ Delivers(call, "stored", call.gen)

ServesRegister(call) ==
  /\ call.kind = "register"
  /\ \/ /\ Register(call.by, call.gen)
        /\ Delivers(call, RegisterAnswer(call.by, call.gen), call.gen)
     \/ \* Refused at the boundary, before the transaction.
        /\ Delivers(call, "rejected", call.gen)
        /\ UNCHANGED storeVars

ServesRelease(call) ==
  /\ call.kind = "release"
  /\ Release(call.by, call.gen, call.verdict)
  /\ Delivers(call, ReleaseAnswer(call.by, call.gen, call.verdict), call.gen)

ServesCleanup(call) ==
  /\ call.kind = "cleanup"
  /\ Cleanup(call.by)
  /\ wire' = wire \ {call}
  /\ UNCHANGED driver

Loses(call) ==
  /\ wire' = wire \ {call}
  /\ UNCHANGED <<storeVars, driver>>

WireStep ==
  /\ \E call \in wire :
       \/ ServesAcquire(call) \/ ServesUpload(call) \/ ServesRegister(call)
       \/ ServesRelease(call) \/ ServesCleanup(call) \/ Loses(call)
  /\ UNCHANGED sweepVars

-----------------------------------------------------------------------------
(***************************************************************************)
(* Everything else: the clock, the client's other packets, the review.    *)
(***************************************************************************)
Minutes == MinutesPass /\ UNCHANGED <<sweepVars, driverVars>>

OtherCompile == OtherPacket /\ UNCHANGED <<sweepVars, driverVars>>

\* A request lasts minutes: none is under way while days go by.  A page that
\* is not executed the same day is one of the few that go wrong.
DayPasses ==
  /\ \A d \in Drivers : driver[d].at \in {"idle", "done"}
  /\ wire = {}
  /\ ~cronDue
  /\ DayGoesBy
  /\ cronDue' = TRUE
  /\ lostPages' = IF pages = {} THEN lostPages ELSE lostPages + 1
  /\ lostPages' <= MaxLostPages
  /\ UNCHANGED <<sweep, pages, driverVars>>

Publishes == \E r \in Reviews : PublishDraft(r) /\ UNCHANGED <<sweepVars, driverVars>>

Sweeps == SweepStep /\ UNCHANGED driverVars

DriverStep(d) ==
  \/ Claimed(d) \/ ClaimFails(d)
  \/ Compiles(d) \/ Uploaded(d) \/ RegistrationEnds(d) \/ WorkEnds(d)
  \/ Reconciles(d) \/ Released(d) \/ ReleaseFails(d) \/ Rechecks(d)
  \/ Dies(d)

Next ==
  \/ \E d \in Drivers : Begins(d) \/ DriverStep(d) \/ KeepsLease(d)
  \/ WireStep
  \/ Minutes \/ DayPasses \/ OtherCompile \/ Publishes
  \/ Sweeps

Spec == Init /\ [][Next]_vars

\* Requests and their calls go on as long as one can: calls time out and are
\* served or lost.  Days go by, the cron runs, and a scheduled page is executed.
\* Nothing is promised of any request's success.
FairSpec ==
  /\ Spec
  /\ WF_vars(WireStep \/ \E d \in Drivers : DriverStep(d))
  /\ WF_vars(DayPasses)
  /\ WF_vars(StartSweep /\ UNCHANGED driverVars)
  /\ WF_vars(SweepGoesStale /\ UNCHANGED driverVars)
  /\ WF_vars((\E page \in pages : ReconcilePage(page) \/ FencedPage(page)) /\ UNCHANGED driverVars)

-----------------------------------------------------------------------------
DriverStates ==
  [at : {"idle", "compiling", "reconciling", "rechecking", "done"} \cup Kinds,
   try : {1, 2},
   reply : {"none", "acquired", "busy", "quota_exceeded", "terminal_failed", "completed",
            "refused", "stored", "registered", "rejected", "fenced", "released"},
   gen : Nat, blob : BOOLEAN, asked : BOOLEAN, outcome : {"definite", "unknown"},
   verdict : {"retryable_failed", "terminal_failed"}, missed : BOOLEAN,
   released : BOOLEAN, told : {"nothing", "case", "later", "rejected", "failed"}]

Messages == [by : Drivers, kind : Kinds, try : {1, 2}, gen : Nat,
             verdict : {"retryable_failed", "terminal_failed"}]

DriverTypeOK == driver \in [Drivers -> DriverStates] /\ wire \subseteq Messages

\* Type correctness: the fields the drivers, the rows and the calls are made of.
IntakeTypeOK == RowsTypeOK /\ QuotaTypeOK /\ SweepTypeOK /\ DriverTypeOK

\* The claim is completed exactly when the draft is registered, so that no
\* generation is granted for a packet that is there, and no claim is closed
\* for one that is not (caseDrafts.ts registers and completes in one
\* transaction; a stale release must not reopen it).
ClaimMatchesDraft == (claim.status = "completed") <=> Registered

\* However requests, retries, take-overs and the client's other packets
\* interleave, no more generations start in a window than the quota allows.
QuotaHolds == Len(Recent(grants)) <= MaxAttempts

\* The stored object of a registered draft is there, whatever cleanups and
\* sweeps ran before, between and after the registration's call.
DraftIsBacked == Registered => blobs[draft.author].state = "stored"

Shelf == INSTANCE CaseShelf WITH
  author <- draft.author, review <- draft.review,
  told <- [d \in Drivers |-> IF driver[d].told = "later" THEN "nothing" ELSE driver[d].told]

\* The whole intake implements a shelf on which one draft is filed once, and
\* what requests are told of it is true and stays true.
ImplementsShelf == Shelf!ShelfSpec

\* An object whose request is over and that no draft refers to does not stay
\* for ever, unless the claim has been active only much later: the nightly
\* sweeps get to it although pages are lost and chains die.
Orphan(d) == blobs[d].state = "stored" /\ driver[d].at = "done" /\ draft.author # d /\ Associated(d)
OrphansAreSwept == \A d \in Drivers : Orphan(d) ~> ~Orphan(d)
=============================================================================
