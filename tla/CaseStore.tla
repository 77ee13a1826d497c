----------------------------- MODULE CaseStore ------------------------------
(***************************************************************************)
(* The database side of case intake: the compile claim and its quota      *)
(* (convex/caseCompileClaims.ts, caseCompileQuota.ts), the draft          *)
(* (caseDrafts.ts), and the stored packets (caseUploadCleanup.ts).  One   *)
(* packet of one client; each request that compiles it is a driver, with  *)
(* a lease token and a stored object of its own.                          *)
(*                                                                         *)
(* Each action is one serializable transaction.  Minutes count for the    *)
(* lease and the quota, days for the stored objects.                      *)
(***************************************************************************)
EXTENDS Integers, Sequences

CONSTANTS Drivers, Reviews, None,
          Lease,        \* CASE_COMPILE_CLAIM_LEASE_TTL_MS
          Window,       \* CASE_COMPILE_QUOTA_WINDOW_MS
          MaxAttempts,  \* CASE_COMPILE_QUOTA_MAX_ATTEMPTS
          Horizon,      \* CASE_STORAGE_CLAIM_ACTIVITY_HORIZON_MS
          Grace         \* CASE_STORAGE_ORPHAN_GRACE_MS

ASSUME StoreAssumption ==
  /\ {Lease, Window, MaxAttempts, Horizon} \subseteq Nat \ {0}
  /\ Grace \in Nat
  /\ Grace > Horizon
  /\ None \notin Drivers \cup Reviews

VARIABLES
  claim,     \* the row of caseCompileClaims; age is in days
  attempts,  \* caseCompileQuotas.attemptedAt, as ages
  grants,    \* history: the ages of the generations granted to the client
  draft,     \* whose packet is registered, and how the draft was published
  blobs      \* _storage

storeVars == <<claim, attempts, grants, draft, blobs>>

ClaimStatuses == {"none", "leased", "retryable_failed", "terminal_failed", "completed"}

NoClaim == [status |-> "none", gen |-> 0, token |-> None, left |-> 0, age |-> 0]

\* A stored object: its age, the age the claim had then, and the days from
\* its storing to the claim's last update.
NoBlob == [state |-> "none", age |-> 0, lead |-> 0, gap |-> 0]

StoreInit ==
  /\ claim = NoClaim
  /\ attempts = <<>>
  /\ grants = <<>>
  /\ draft = [author |-> None, review |-> None]
  /\ blobs = [d \in Drivers |-> NoBlob]

-----------------------------------------------------------------------------
Capped(n, cap) == IF n < cap THEN n ELSE cap

Registered == draft.author # None

\* The objects once claim.updatedAt is now.
Touched == [d \in Drivers |->
  [blobs[d] EXCEPT !.gap = IF blobs[d].state = "stored"
                             THEN Capped(blobs[d].age, Horizon + 1) ELSE 0]]

\* The lease is running.
Leased == claim.status = "leased" /\ claim.left > 0

\* Mutant: any live lease will do.
ActiveLease_Unfenced(d, gen) == Leased
ActiveLease(d, gen) == Leased /\ claim.token = d /\ claim.gen = gen

\* The attempts are in order, those that have left the window first: what is left is
\* what follows the last of them.
Recent(ages) ==
  LET past == CHOOSE n \in 0 .. Len(ages) :
                /\ n = 0 \/ ages[n] >= Window
                /\ \A i \in n + 1 .. Len(ages) : ages[i] < Window
  IN  SubSeq(ages, past + 1, Len(ages))

\* Mutant: the permit that exceeds the quota is the one after it.
Permitted_OneMore == Len(Recent(attempts)) <= MaxAttempts
Permitted         == Len(Recent(attempts)) < MaxAttempts

-----------------------------------------------------------------------------
(***************************************************************************)
(* acquire.  A new generation, the first, a retry or a take-over, needs a *)
(* permit of the quota.                                                   *)
(***************************************************************************)
Decision(d) ==
  IF Registered THEN "completed"
  ELSE IF claim.status = "completed" THEN "refused"
  ELSE IF claim.status = "terminal_failed" THEN "terminal_failed"
  ELSE IF Leased THEN (IF claim.token = d THEN "acquired" ELSE "busy")
  ELSE IF Permitted THEN "granted"
  ELSE "quota_exceeded"

\* Completed whatever its status: the claim is written again each time.
Completed == [claim EXCEPT !.status = "completed", !.token = None, !.left = 0]

Granted(d) ==
  [claim EXCEPT !.status = "leased", !.gen = @ + 1, !.token = d, !.left = Lease,
                !.age = IF claim.status = "none" THEN 0 ELSE @]

Acquire(d) ==
  LET decision == Decision(d) IN
  /\ claim' = CASE decision = "completed" -> Completed
                [] decision = "granted"   -> Granted(d)
                [] OTHER                  -> claim
  /\ attempts' = CASE decision = "granted"        -> Append(Recent(attempts), 0)
                   [] decision = "quota_exceeded" -> Recent(attempts)
                   [] OTHER                       -> attempts
  /\ grants' = IF decision = "granted" THEN Append(Recent(grants), 0) ELSE grants
  /\ blobs' = IF decision \in {"completed", "granted"} THEN Touched ELSE blobs
  /\ UNCHANGED draft

AcquireAnswer(d) == IF Decision(d) = "granted" THEN "acquired" ELSE Decision(d)

\* The generation the answer names.
AnsweredGen(d) == IF Decision(d) = "granted" THEN claim.gen + 1 ELSE claim.gen

\* The same client compiles another packet.
OtherPacket ==
  /\ attempts' = IF Permitted THEN Append(Recent(attempts), 0) ELSE Recent(attempts)
  /\ grants' = IF Permitted THEN Append(Recent(grants), 0) ELSE grants
  /\ UNCHANGED <<claim, draft, blobs>>

Heartbeat(d, gen) ==
  /\ ActiveLease(d, gen)
  /\ claim' = [claim EXCEPT !.left = Lease]
  /\ blobs' = Touched
  /\ UNCHANGED <<attempts, grants, draft>>

-----------------------------------------------------------------------------
Failed(verdict) == [claim EXCEPT !.status = verdict, !.left = 0]

\* Mutant: a release does not look at the lease.
MayRelease_Blindly(d, gen) == claim.gen = gen
MayRelease(d, gen)         == ActiveLease(d, gen)

ReleaseAnswer(d, gen, verdict) ==
  IF MayRelease(d, gen) THEN "released"
  ELSE IF claim.status = verdict /\ claim.gen = gen /\ claim.token = d THEN "released"
  ELSE "fenced"

Release(d, gen, verdict) ==
  /\ IF MayRelease(d, gen)
       THEN /\ claim' = Failed(verdict)
            /\ blobs' = Touched
       ELSE UNCHANGED <<claim, blobs>>
  /\ UNCHANGED <<attempts, grants, draft>>

-----------------------------------------------------------------------------
(***************************************************************************)
(* registerCompiledDraft writes both versions of the upload, the sources  *)
(* and the draft, and completes the claim: all of it or nothing.  A       *)
(* registration of another stored object is not an exact replay.          *)
(***************************************************************************)
RegisterAnswer(d, gen) ==
  IF blobs[d].state # "stored" \/ (Registered /\ draft.author # d) THEN "rejected"
  ELSE IF ~Registered /\ ~ActiveLease(d, gen) THEN "fenced"
  ELSE "registered"

Register(d, gen) ==
  /\ IF RegisterAnswer(d, gen) = "registered" /\ ~Registered
       THEN /\ draft' = [draft EXCEPT !.author = d]
            /\ claim' = Completed
            /\ blobs' = Touched
       ELSE UNCHANGED <<draft, claim, blobs>>
  /\ UNCHANGED <<attempts, grants>>

\* publishCompiledDraft: the second version of the draft, once; the same
\* review again is a replay, another one a conflict.
PublishDraft(r) ==
  /\ Registered
  /\ draft.review = None
  /\ draft' = [draft EXCEPT !.review = r]
  /\ UNCHANGED <<claim, attempts, grants, blobs>>

-----------------------------------------------------------------------------
\* The packet is stored.
Store(d) ==
  /\ blobs' = [blobs EXCEPT ![d] = [NoBlob EXCEPT !.state = "stored", !.lead = claim.age]]
  /\ UNCHANGED <<claim, attempts, grants, draft>>

Without(deleted) == [d \in Drivers |->
  IF d \in deleted /\ blobs[d].state = "stored"
    THEN [NoBlob EXCEPT !.state = "deleted"] ELSE blobs[d]]

\* cleanupOrphanedStorage: a registration of the upload keeps every object.
Cleanup(d) ==
  /\ blobs' = IF Registered THEN blobs ELSE Without({d})
  /\ UNCHANGED <<claim, attempts, grants, draft>>

-----------------------------------------------------------------------------
\* What has left the window already is forgotten.
Aged(ages) == LET recent == Recent(ages)
              IN  [i \in 1 .. Len(recent) |-> recent[i] + 1]

\* A lease's time passes.
MinutesPass ==
  /\ claim' = [claim EXCEPT !.left = IF @ > 0 THEN @ - 1 ELSE 0]
  /\ attempts' = Aged(attempts)
  /\ grants' = Aged(grants)
  /\ UNCHANGED <<draft, blobs>>

DayGoesBy ==
  /\ claim' = [claim EXCEPT !.left = 0,
                            !.age = IF claim.status = "none" THEN 0 ELSE Capped(@ + 1, Horizon + 1)]
  /\ attempts' = <<>>
  /\ grants' = <<>>
  /\ blobs' = [d \in Drivers |->
       IF blobs[d].state = "stored" THEN [blobs[d] EXCEPT !.age = Capped(@ + 1, Grace)] ELSE blobs[d]]
  /\ UNCHANGED draft

-----------------------------------------------------------------------------
\* isCaseStorageClaimAssociated, for an object of the claim's packet.
Associated(d) == blobs[d].lead <= Horizon \/ blobs[d].gap <= Horizon

RowsTypeOK ==
  /\ claim \in [status : ClaimStatuses, gen : Nat, token : Drivers \cup {None},
                left : 0 .. Lease, age : 0 .. Horizon + 1]
  /\ claim.status # "leased" => claim.left = 0
  /\ draft \in [author : Drivers \cup {None}, review : Reviews \cup {None}]
  /\ blobs \in [Drivers -> [state : {"none", "stored", "deleted"}, age : 0 .. Grace,
                            lead : 0 .. Horizon + 1, gap : 0 .. Horizon + 1]]

QuotaTypeOK == attempts \in Seq(0 .. Window) /\ grants \in Seq(0 .. Window)
=============================================================================
