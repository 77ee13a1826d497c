------------------------- MODULE CaseCompileProofs --------------------------
(***************************************************************************)
(* Case intake, for any number of requests and any bounds: the claim and  *)
(* the draft agree, the draft's packet is there, and whatever requests    *)
(* are told is true and stays true.                                       *)
(***************************************************************************)
EXTENDS CaseCompile, TLAPS, WellFoundedInduction, SequenceTheorems

\* No registration of this generation will ever be let through again.
Dead(d, gen) == gen <= claim.gen /\ ~ActiveLease(d, gen)

Registers(call, d) == call.by = d /\ call.kind = "register"

\* Neither has the driver filed the draft, nor will a call it left behind.
Harmless(d) ==
  /\ draft.author # d
  /\ \A call \in wire : Registers(call, d) => Dead(d, call.gen)

Early == {"idle", "acquire", "compiling", "upload"}

\* A registration is asked for once, under the generation of its driver.
FenceInv ==
  /\ \A d \in Drivers : driver[d].gen <= claim.gen
  /\ \A call \in wire : call.gen <= claim.gen
  /\ \A d \in Drivers : driver[d].at \in Early =>
       /\ ~driver[d].asked
       /\ draft.author # d
       /\ \A call \in wire : ~Registers(call, d)
  /\ \A d \in Drivers : driver[d].at = "register" =>
       /\ driver[d].asked
       /\ driver[d].reply # "none" => \A call \in wire : ~Registers(call, d)
  /\ \A call \in wire : call.kind = "register" => draft.author # call.by
  /\ \A c1, c2 \in wire : c1.kind = "register" /\ Registers(c2, c1.by) => c1 = c2

\* Claims to have failed, in a driver's state or in an answer to it.
Failing(d) ==
  \/ driver[d].told = "failed"
  \/ driver[d].at = "release" /\ driver[d].reply = "released"
  \/ driver[d].at = "register" /\ driver[d].reply \in {"fenced", "rejected"}
  \/ /\ driver[d].at \in {"release", "reconciling", "rechecking"}
     /\ driver[d].outcome = "definite"

Rejected(d) ==
  \/ driver[d].told = "rejected"
  \/ driver[d].at = "acquire" /\ driver[d].reply = "terminal_failed"

\* What is told, or is about to be, is true.
ToldInv ==
  /\ \A d \in Drivers : ~driver[d].released
  /\ \A d \in Drivers : driver[d].told # "nothing" => driver[d].at = "done"
  /\ \A d \in Drivers : Rejected(d) => claim.status = "terminal_failed"
  /\ \A d \in Drivers :
       driver[d].at = "register" /\ driver[d].reply = "registered" => Registered
  /\ \A d \in Drivers : Failing(d) => Harmless(d)

IntakeInv ==
  RowsTypeOK /\ DriverTypeOK /\ ClaimMatchesDraft /\ DraftIsBacked /\ FenceInv /\ ToldInv

-----------------------------------------------------------------------------
(* Nothing has been asked for, stored, or told.                            *)
LEMMA InitIntakeInv == Init => IntakeInv
  <1> SUFFICES ASSUME Init PROVE IntakeInv
    OBVIOUS
  <1> USE StoreAssumption DEF Init, StoreInit, SweepInit, NoClaim, NoBlob, NoDriver, Registered
  <1>1. RowsTypeOK /\ ClaimMatchesDraft /\ DraftIsBacked
    BY DEF RowsTypeOK, ClaimMatchesDraft, DraftIsBacked, ClaimStatuses
  <1>2. DriverTypeOK
    BY DEF DriverTypeOK, DriverStates
  <1>3. FenceInv
    BY DEF FenceInv
  <1>4. ToldInv
    BY DEF ToldInv, Failing, Rejected
  <1> QED
    BY <1>1, <1>2, <1>3, <1>4 DEF IntakeInv

-----------------------------------------------------------------------------
(***************************************************************************)
(* What a driver does on its own: it takes on a new state, and sends at   *)
(* most one call.                                                         *)
(***************************************************************************)
Sends(d, s) ==
  /\ wire \subseteq wire' /\ wire' \subseteq Messages
  /\ \A c1, c2 \in wire' \ wire : c1 = c2
  /\ \A call \in wire' \ wire :
       /\ call.by = d
       /\ call.gen = driver[d].gen
       /\ call.kind = "register" => s.at = "register"

Lawful(d, s) ==
  /\ ~s.released
  /\ s.gen \in {0, driver[d].gen}
  /\ s.at \in Early => driver[d].at \in Early /\ ~s.asked
  /\ s.at = "register" => driver[d].at = "upload" /\ s.asked
  /\ s.told # "nothing" => s.at = "done"
  /\ s.told = "case" => Registered
  /\ s.told = "rejected" => Rejected(d)
  /\ s.told = "failed" => Harmless(d)
  /\ s.at \in {"release", "reconciling", "rechecking"} /\ s.outcome = "definite" => Harmless(d)

Moves(d, s) ==
  /\ UNCHANGED <<storeVars, sweepVars>>
  /\ driver' = [driver EXCEPT ![d] = s]
  /\ Sends(d, s)
  /\ s \in DriverStates /\ s.reply = "none"
  /\ Lawful(d, s)

(* A driver that changes its own state only.                               *)
LEMMA BecomesMoves ==
  ASSUME DriverTypeOK, NEW d \in Drivers, NEW s \in DriverStates,
         Becomes(d, s), UNCHANGED <<wire, storeVars, sweepVars>>, Lawful(d, s)
  PROVE  \E t : Moves(d, t)
  <1> DEFINE t == [s EXCEPT !.reply = "none"]
  <1>1. t \in DriverStates /\ t.reply = "none"
    BY DEF DriverStates
  <1>2. Lawful(d, t)
    BY DEF Lawful, DriverStates
  <1>3. Sends(d, t)
    BY DEF Sends, DriverTypeOK
  <1> QED
    BY <1>1, <1>2, <1>3 DEF Moves, Becomes

(* A driver that calls.                                                    *)
LEMMA CallsMoves ==
  ASSUME DriverTypeOK, NEW d \in Drivers, NEW s \in DriverStates, NEW kind \in Kinds,
         Calls(d, s, kind), UNCHANGED <<storeVars, sweepVars>>,
         s.gen = driver[d].gen, Lawful(d, [s EXCEPT !.at = kind])
  PROVE  \E t : Moves(d, t)
  <1> DEFINE t == [s EXCEPT !.at = kind, !.reply = "none"]
  <1>1. t \in DriverStates /\ t.reply = "none" /\ t.at = kind
    BY DEF DriverStates
  <1>2. Lawful(d, t)
    BY DEF Lawful, DriverStates
  <1>3. Call(d, s, kind) \in Messages
    BY DEF Call, Messages, DriverStates
  <1>4. Sends(d, t)
    BY <1>1, <1>3 DEF Sends, DriverTypeOK, Calls, Call
  <1>5. driver' = [driver EXCEPT ![d] = t]
    BY DEF Calls, Becomes, DriverStates
  <1> QED
    BY <1>1, <1>2, <1>4, <1>5 DEF Moves

(* A driver whose request is over: its client is told the truth.           *)
LEMMA AnswersMoves ==
  ASSUME DriverTypeOK, NEW d \in Drivers,
         NEW what \in {"nothing", "case", "later", "rejected", "failed"},
         Answers(d, what), UNCHANGED <<storeVars, sweepVars>>,
         what = "case" => Registered,
         what = "rejected" => Rejected(d),
         what = "failed" => Harmless(d)
  PROVE  \E t : Moves(d, t)
  <1> DEFINE s == [NoDriver EXCEPT !.at = "done", !.told = what]
  <1>1. s \in DriverStates
    BY DEF NoDriver, DriverStates
  <1>2. Lawful(d, s)
    BY DEF Lawful, NoDriver, Early
  <1> QED
    BY <1>1, <1>2, BecomesMoves DEF Answers

(* A driver whose attempt failed: its client hears so only if the draft is *)
(* not filed and will not be.                                              *)
LEMMA FailsMoves ==
  ASSUME DriverTypeOK, NEW d \in Drivers, NEW s \in DriverStates,
         Fails(d, s), UNCHANGED <<storeVars, sweepVars>>,
         s.gen = driver[d].gen, CleanupIsSafe(s) => Harmless(d)
  PROVE  \E t : Moves(d, t)
  <1> DEFINE t == [NoDriver EXCEPT !.at = "done", !.reply = "none",
                     !.told = IF CleanupIsSafe(s) THEN "failed" ELSE "nothing"]
  <1>1. t \in DriverStates /\ t.reply = "none"
    BY ZenonT(40) DEF NoDriver, DriverStates
  <1>2. Lawful(d, t)
    BY DEF Lawful, NoDriver, Early
  <1>3. Call(d, s, "cleanup") \in Messages
    BY DEF Call, Messages, DriverStates, Kinds
  <1>4. Sends(d, t)
    BY <1>3 DEF Sends, DriverTypeOK, Fails, Call
  <1>5. driver' = [driver EXCEPT ![d] = t]
    BY DEF Fails, Becomes, NoDriver
  <1> QED
    BY <1>1, <1>2, <1>4, <1>5 DEF Moves

(* A driver whose work failed releases the claim, now or after it has      *)
(* looked for the draft.                                                   *)
LEMMA RecoversMoves ==
  ASSUME DriverTypeOK, NEW d \in Drivers, NEW s \in DriverStates,
         NEW verdict \in {"retryable_failed", "terminal_failed"},
         NEW outcome \in {"definite", "unknown"},
         Recovers(d, s, verdict, outcome), UNCHANGED <<storeVars, sweepVars>>,
         s.gen = driver[d].gen, ~s.released, s.told = "nothing",
         outcome = "definite" => Harmless(d)
  PROVE  \E t : Moves(d, t)
  <1> DEFINE failed == [s EXCEPT !.verdict = verdict, !.outcome = outcome]
  <1>1. /\ failed \in DriverStates
        /\ failed.gen = driver[d].gen /\ ~failed.released /\ failed.told = "nothing"
        /\ failed.outcome = outcome
    BY DEF DriverStates
  <1>2. CASE Unknown(failed)
    <2> DEFINE looking == [failed EXCEPT !.at = "reconciling"]
    <2>1. looking \in DriverStates
      BY <1>1 DEF DriverStates
    <2>2. Lawful(d, looking)
      BY <1>1 DEF Lawful, DriverStates, Early
    <2> QED
      BY <1>2, <2>1, <2>2, BecomesMoves DEF Recovers
  <1>3. CASE ~Unknown(failed)
    <2>1. Lawful(d, [failed EXCEPT !.at = "release"])
      BY <1>1 DEF Lawful, DriverStates, Early
    <2> QED
      BY <1>1, <1>3, <2>1, CallsMoves DEF Recovers, Kinds
  <1> QED
    BY <1>2, <1>3

-----------------------------------------------------------------------------
(* Before it asks for the registration a driver has done no harm.          *)
LEMMA EarlyHarmless ==
  ASSUME IntakeInv, NEW d \in Drivers, driver[d].at \in Early
  PROVE  Harmless(d)
  BY DEF IntakeInv, FenceInv, Harmless

(* What a driver does up to the registration, and how that ends.           *)
LEMMA WorkMoves ==
  ASSUME IntakeInv, NEW d \in Drivers,
         \/ Begins(d) \/ Claimed(d) \/ ClaimFails(d) \/ Compiles(d) \/ Uploaded(d)
         \/ RegistrationEnds(d) \/ WorkEnds(d)
  PROVE  \E t : Moves(d, t)
  <1>1. /\ DriverTypeOK /\ driver[d] \in DriverStates
        /\ ~driver[d].released
        /\ driver[d].at # "done" => driver[d].told = "nothing"
        /\ driver[d].at \in Early => ~driver[d].asked /\ Harmless(d)
        /\ driver[d].at = "register" => driver[d].asked
    BY EarlyHarmless DEF IntakeInv, DriverTypeOK, ToldInv, FenceInv
  <1>2. CASE Begins(d)
    <2>1. Lawful(d, [driver[d] EXCEPT !.at = "acquire"])
      BY <1>1, <1>2 DEF Begins, Lawful, DriverStates, Early
    <2> QED
      BY <1>1, <1>2, <2>1, CallsMoves, AnswersMoves DEF Begins, Kinds, Early
  <1>3. CASE Claimed(d)
    <2>1. ASSUME Becomes(d, [driver[d] EXCEPT !.at = "compiling", !.try = 1]), UNCHANGED wire
          PROVE  \E t : Moves(d, t)
      <3> DEFINE s == [driver[d] EXCEPT !.at = "compiling", !.try = 1]
      <3>1. s \in DriverStates
        BY <1>1 DEF DriverStates
      <3>2. Lawful(d, s)
        BY <1>1, <1>3 DEF Claimed, Lawful, DriverStates, Early
      <3> QED
        BY <1>1, <1>3, <2>1, <3>1, <3>2, BecomesMoves DEF Claimed
    <2> QED
      BY <1>1, <1>3, <2>1, AnswersMoves DEF Claimed, Early, Rejected
  <1>4. CASE ClaimFails(d)
    <2> DEFINE s == [driver[d] EXCEPT !.try = 2]
    <2>1. s \in DriverStates /\ s.gen = driver[d].gen
      BY <1>1 DEF DriverStates
    <2>2. Lawful(d, [s EXCEPT !.at = "acquire"])
      BY <1>1, <1>4 DEF ClaimFails, Lawful, DriverStates, Early
    <2> QED
      BY <1>1, <1>4, <2>1, <2>2, CallsMoves, AnswersMoves DEF ClaimFails, Kinds, Early
  <1>5. CASE Compiles(d)
    <2>1. Lawful(d, [driver[d] EXCEPT !.at = "upload"])
      BY <1>1, <1>5 DEF Compiles, Lawful, DriverStates, Early
    <2> QED
      BY <1>1, <1>5, <2>1, CallsMoves, RecoversMoves DEF Compiles, Kinds, Early
  <1>6. CASE Uploaded(d)
    <2> DEFINE s == [driver[d] EXCEPT !.blob = TRUE, !.asked = TRUE]
    <2>1. s \in DriverStates /\ s.gen = driver[d].gen
      BY <1>1 DEF DriverStates
    <2>2. Lawful(d, [s EXCEPT !.at = "register"])
      BY <1>1, <1>6 DEF Uploaded, Lawful, DriverStates, Early
    <2> QED
      BY <1>1, <1>6, <2>1, <2>2, CallsMoves DEF Uploaded, Kinds
  <1>7. CASE RegistrationEnds(d)
    <2>1. driver[d].reply = "registered" => Registered
      BY <1>7 DEF RegistrationEnds, IntakeInv, ToldInv
    <2>2. driver[d].reply \in {"fenced", "rejected"} => Harmless(d)
      BY <1>7 DEF RegistrationEnds, IntakeInv, ToldInv, Failing
    <2> QED
      BY <1>1, <1>7, <2>1, <2>2, AnswersMoves, RecoversMoves DEF RegistrationEnds
  <1>8. CASE WorkEnds(d)
    <2>1. PICK known \in BOOLEAN :
            Recovers(d, [driver[d] EXCEPT !.blob = known], "retryable_failed",
                     IF driver[d].asked THEN "unknown" ELSE "definite")
      BY <1>1, <1>8 DEF WorkEnds, DriverStates
    <2> DEFINE s == [driver[d] EXCEPT !.blob = known]
    <2>2. s \in DriverStates /\ s.gen = driver[d].gen /\ ~s.released /\ s.told = driver[d].told
      BY <1>1 DEF DriverStates
    <2>3. ~driver[d].asked => Harmless(d)
      BY <1>1, <1>8 DEF WorkEnds, Working, Early
    <2> QED
      BY <1>1, <1>8, <2>1, <2>2, <2>3, RecoversMoves DEF WorkEnds, Working
  <1> QED
    BY <1>2, <1>3, <1>4, <1>5, <1>6, <1>7, <1>8

(* What a driver does after its work has failed.                           *)
LEMMA RecoveryMoves ==
  ASSUME IntakeInv, NEW d \in Drivers,
         Reconciles(d) \/ Released(d) \/ ReleaseFails(d) \/ Rechecks(d) \/ Dies(d)
  PROVE  \E t : Moves(d, t)
  <1>1. /\ DriverTypeOK /\ driver[d] \in DriverStates
        /\ ~driver[d].released
        /\ driver[d].at # "done" => driver[d].told = "nothing"
    BY DEF IntakeInv, DriverTypeOK, ToldInv
  <1>2. /\ driver[d].at \in {"release", "reconciling", "rechecking"}
        /\ driver[d].outcome = "definite"
        => Harmless(d)
    BY DEF IntakeInv, ToldInv, Failing
  <1>3. CASE Reconciles(d)
    <2> DEFINE s == [driver[d] EXCEPT !.missed = TRUE]
    <2>1. s \in DriverStates /\ s.gen = driver[d].gen
      BY <1>1 DEF DriverStates
    <2>2. Lawful(d, [s EXCEPT !.at = "release"]) /\ Lawful(d, [driver[d] EXCEPT !.at = "release"])
      BY <1>1, <1>2, <1>3 DEF Reconciles, Lawful, DriverStates, Early
    <2> QED
      BY <1>1, <1>3, <2>1, <2>2, CallsMoves, AnswersMoves DEF Reconciles, Kinds
  <1>4. CASE Released(d)
    <2> DEFINE s == [driver[d] EXCEPT !.released = TRUE]
    <2>1. s \in DriverStates /\ s.gen = driver[d].gen
      BY <1>1 DEF DriverStates
    <2>2. Harmless(d)
      BY <1>4 DEF Released, IntakeInv, ToldInv, Failing
    <2> QED
      BY <1>1, <1>4, <2>1, <2>2, FailsMoves DEF Released
  <1>5. CASE ReleaseFails(d)
    <2> DEFINE s == [driver[d] EXCEPT !.at = "rechecking"]
    <2>1. s \in DriverStates
      BY <1>1 DEF DriverStates
    <2>2. Lawful(d, s)
      BY <1>1, <1>2, <1>5 DEF ReleaseFails, Lawful, DriverStates, Early
    <2>3. CleanupIsSafe(driver[d]) => Harmless(d)
      BY <1>1, <1>2, <1>5 DEF ReleaseFails, CleanupIsSafe
    <2> QED
      BY <1>1, <1>5, <2>1, <2>2, <2>3, BecomesMoves, FailsMoves DEF ReleaseFails
  <1>6. CASE Rechecks(d)
    <2>1. CleanupIsSafe(driver[d]) => Harmless(d)
      BY <1>1, <1>2, <1>6 DEF Rechecks, CleanupIsSafe
    <2> QED
      BY <1>1, <1>6, <2>1, AnswersMoves, FailsMoves DEF Rechecks
  <1>7. CASE Dies(d)
    BY <1>1, <1>7, AnswersMoves DEF Dies
  <1> QED
    BY <1>3, <1>4, <1>5, <1>6, <1>7

(* A registration is sent by a driver that has just uploaded its packet,   *)
(* and no driver's step brings a dead one back to life.                    *)
LEMMA MovesKeepInv ==
  ASSUME IntakeInv, NEW d \in Drivers, NEW s, Moves(d, s)
  PROVE  IntakeInv'
  <1>1. /\ UNCHANGED <<claim, attempts, grants, draft, blobs>>
        /\ RowsTypeOK' /\ ClaimMatchesDraft' /\ DraftIsBacked'
        /\ Registered' = Registered
        /\ \A e \in Drivers : \A gen : Dead(e, gen)' = Dead(e, gen)
    BY DEF IntakeInv, Moves, storeVars, RowsTypeOK, ClaimMatchesDraft, DraftIsBacked,
           Registered, Dead, ActiveLease, Leased
  <1>2. /\ driver' \in [Drivers -> DriverStates]
        /\ driver'[d] = s
        /\ \A e \in Drivers \ {d} : driver'[e] = driver[e]
    BY DEF IntakeInv, Moves, DriverTypeOK
  <1>3. DriverTypeOK'
    BY <1>2 DEF DriverTypeOK, Moves, Sends
  <1>4. \A call \in wire' :
          \/ call \in wire
          \/ /\ call.by = d /\ call.gen = driver[d].gen
             /\ call.kind = "register" => s.at = "register"
    BY DEF Moves, Sends
  <1>5. s.at = "register" => driver[d].at \in Early
    BY DEF Moves, Lawful, Early
  <1>6. FenceInv'
    <2>1. /\ \A e \in Drivers : driver'[e].gen <= claim'.gen
          /\ \A call \in wire' : call.gen <= claim'.gen
      BY <1>1, <1>2, <1>4 DEF IntakeInv, FenceInv, Moves, Lawful, RowsTypeOK
    <2>2. \A e \in Drivers : driver'[e].at \in Early =>
            /\ ~driver'[e].asked
            /\ draft'.author # e
            /\ \A call \in wire' : ~Registers(call, e)
      BY <1>1, <1>2, <1>4 DEF IntakeInv, FenceInv, Moves, Lawful, Registers, Early
    <2>3. \A e \in Drivers : driver'[e].at = "register" =>
            /\ driver'[e].asked
            /\ driver'[e].reply # "none" => \A call \in wire' : ~Registers(call, e)
      BY <1>1, <1>2, <1>4 DEF IntakeInv, FenceInv, Moves, Lawful, Registers
    <2>4. \A call \in wire' : call.kind = "register" => draft'.author # call.by
      BY <1>1, <1>4, <1>5 DEF IntakeInv, FenceInv
    <2>5. \A c1, c2 \in wire' : c1.kind = "register" /\ Registers(c2, c1.by) => c1 = c2
      BY <1>4, <1>5 DEF IntakeInv, FenceInv, Moves, Sends, Registers
    <2> QED
      BY <2>1, <2>2, <2>3, <2>4, <2>5 DEF FenceInv
  <1>7. \A e \in Drivers :
          Harmless(e) /\ (e = d => s.at # "register") => Harmless(e)'
    BY <1>1, <1>4 DEF Harmless, Registers
  <1>8. ToldInv'
    <2>1. /\ \A e \in Drivers : ~driver'[e].released
          /\ \A e \in Drivers : driver'[e].told # "nothing" => driver'[e].at = "done"
          /\ \A e \in Drivers :
               driver'[e].at = "register" /\ driver'[e].reply = "registered" => Registered'
      BY <1>1, <1>2 DEF IntakeInv, ToldInv, Moves, Lawful
    <2>2. \A e \in Drivers : Rejected(e)' => claim'.status = "terminal_failed"
      BY <1>1, <1>2 DEF IntakeInv, ToldInv, Moves, Lawful, Rejected
    <2>3. \A e \in Drivers : Failing(e)' => Harmless(e)'
      BY <1>2, <1>7 DEF IntakeInv, ToldInv, Moves, Lawful, Failing
    <2> QED
      BY <2>1, <2>2, <2>3 DEF ToldInv
  <1> QED
    BY <1>1, <1>3, <1>6, <1>8 DEF IntakeInv

-----------------------------------------------------------------------------
(***************************************************************************)
(* What the service does with a call: it is out of the wire, and if its   *)
(* driver waits for it, the driver has the answer.                        *)
(***************************************************************************)
Answered(call, reply, gen) ==
  /\ wire' = wire \ {call}
  /\ \A d \in Drivers :
       \/ driver'[d] = driver[d]
       \/ /\ d = call.by /\ driver[d].at = call.kind
          /\ driver'[d] = [driver[d] EXCEPT !.reply = reply, !.gen = gen]

(* Delivery answers the call's own driver or nobody.                       *)
LEMMA DeliversAnswers ==
  ASSUME DriverTypeOK, NEW call \in wire, NEW reply, NEW gen \in Nat,
         reply \in {"acquired", "busy", "quota_exceeded", "terminal_failed", "completed",
                    "refused", "stored", "registered", "rejected", "fenced", "released"},
         Delivers(call, reply, gen)
  PROVE  DriverTypeOK' /\ Answered(call, reply, gen)
  <1>1. call.by \in Drivers /\ driver[call.by] \in DriverStates
    BY DEF DriverTypeOK, Messages
  <1>2. CASE Awaited(call)
    <2> DEFINE s == [driver[call.by] EXCEPT !.reply = reply, !.gen = gen]
    <2>1. driver' = [driver EXCEPT ![call.by] = s]
      BY <1>1, <1>2 DEF Delivers, DriverTypeOK
    <2>2. s \in DriverStates
      BY <1>1 DEF DriverStates
    <2> QED
      BY <1>1, <1>2, <2>1, <2>2 DEF Delivers, DriverTypeOK, Answered, Awaited
  <1>3. CASE ~Awaited(call)
    BY <1>3 DEF Delivers, DriverTypeOK, Answered
  <1> QED
    BY <1>2, <1>3

-----------------------------------------------------------------------------
(***************************************************************************)
(* What the store may do: a lease that has ended stays ended, a rejection *)
(* is final, and a draft that is filed stays filed.                       *)
(***************************************************************************)
ClaimMoves ==
  /\ claim.gen <= claim'.gen
  /\ claim.status = "terminal_failed" => claim'.status = "terminal_failed"
  /\ \A d \in Drivers, gen \in Nat : Dead(d, gen) => Dead(d, gen)'

RowsMove == RowsTypeOK' /\ ClaimMatchesDraft' /\ DraftIsBacked' /\ ClaimMoves

(* A step of the store that answers nobody and files nothing.              *)
LEMMA QuietKeepsInv ==
  ASSUME IntakeInv, RowsMove, draft'.author = draft.author, UNCHANGED <<driver, wire>>
  PROVE  IntakeInv'
  <1>1. DriverTypeOK'
    BY DEF IntakeInv, DriverTypeOK
  <1>2. claim'.gen \in Nat /\ claim.gen \in Nat /\ claim.gen <= claim'.gen
    BY DEF IntakeInv, RowsMove, RowsTypeOK, ClaimMoves
  <1>3. /\ \A d \in Drivers : driver'[d].gen <= claim'.gen
        /\ \A call \in wire' : call.gen <= claim'.gen
    BY <1>2 DEF IntakeInv, FenceInv, DriverTypeOK, DriverStates, Messages
  <1>4. FenceInv'
    BY <1>3 DEF IntakeInv, FenceInv, Registers
  <1>5. \A d \in Drivers : Harmless(d) => Harmless(d)'
    BY DEF Harmless, RowsMove, ClaimMoves, Registers, IntakeInv, DriverTypeOK, Messages
  <1>6. ToldInv'
    BY <1>5 DEF IntakeInv, ToldInv, Failing, Rejected, Registered, RowsMove, ClaimMoves
  <1> QED
    BY <1>1, <1>4, <1>6 DEF IntakeInv, RowsMove

(* A call that is served, answered or lost.  Only a registration under a   *)
(* running lease files the draft.                                          *)
LEMMA AnsweredKeepsInv ==
  ASSUME IntakeInv, NEW call \in wire, NEW reply, NEW gen \in Nat,
         Answered(call, reply, gen), DriverTypeOK', RowsMove,
         gen <= claim'.gen,
         \/ draft'.author = draft.author
         \/ /\ call.kind = "register" /\ ~Registered
            /\ draft'.author = call.by /\ ~Dead(call.by, call.gen),
         call.kind = "acquire" /\ reply = "terminal_failed" => claim.status = "terminal_failed",
         call.kind = "register" /\ reply = "registered" => Registered',
         call.kind = "register" /\ reply \in {"fenced", "rejected"} => draft'.author # call.by,
         call.kind = "release" /\ reply = "released" =>
           claim'.status \in {"retryable_failed", "terminal_failed"}
  PROVE  IntakeInv'
  <1>a. \A d \in Drivers : driver[d] \in DriverStates /\ driver'[d] \in DriverStates
    BY DEF IntakeInv, DriverTypeOK
  <1>1. /\ wire' = wire \ {call} /\ call.by \in Drivers
        /\ \A d \in Drivers :
             \/ driver'[d].reply = driver[d].reply /\ driver'[d].gen = driver[d].gen
             \/ /\ d = call.by /\ driver[d].at = call.kind
                /\ driver'[d].reply = reply /\ driver'[d].gen = gen
    <2>1. wire' = wire \ {call} /\ call.by \in Drivers
      BY DEF Answered, IntakeInv, DriverTypeOK, Messages
    <2>2. ASSUME NEW d \in Drivers,
                 driver'[d] = [driver[d] EXCEPT !.reply = reply, !.gen = gen]
          PROVE  driver'[d].reply = reply /\ driver'[d].gen = gen
      BY <1>a, <2>2 DEF DriverStates
    <2>3. \A d \in Drivers :
            \/ driver'[d] = driver[d]
            \/ /\ d = call.by /\ driver[d].at = call.kind
               /\ driver'[d] = [driver[d] EXCEPT !.reply = reply, !.gen = gen]
      BY DEF Answered
    <2> QED
      BY <2>1, <2>2, <2>3, Zenon
  <1>2. \A d \in Drivers :
          /\ driver'[d].at = driver[d].at /\ driver'[d].asked = driver[d].asked
          /\ driver'[d].told = driver[d].told /\ driver'[d].released = driver[d].released
          /\ driver'[d].outcome = driver[d].outcome
    <2> SUFFICES ASSUME NEW d \in Drivers
                 PROVE  /\ driver'[d].at = driver[d].at /\ driver'[d].asked = driver[d].asked
                        /\ driver'[d].told = driver[d].told
                        /\ driver'[d].released = driver[d].released
                        /\ driver'[d].outcome = driver[d].outcome
      OBVIOUS
    <2>1. CASE driver'[d] = driver[d]
      BY <2>1
    <2>2. CASE driver'[d] = [driver[d] EXCEPT !.reply = reply, !.gen = gen]
      BY <1>a, <2>2 DEF DriverStates
    <2> QED
      BY <2>1, <2>2 DEF Answered
  <1>3. \A d \in Drivers : draft'.author = d =>
          draft.author = d \/ (Registers(call, d) /\ ~Dead(d, call.gen))
    <2> SUFFICES ASSUME NEW d \in Drivers, draft'.author = d, draft.author # d
                 PROVE  Registers(call, d) /\ ~Dead(d, call.gen)
      OBVIOUS
    <2>1. call.by = d /\ call.kind = "register" /\ ~Dead(call.by, call.gen)
      OBVIOUS
    <2> QED
      BY <2>1 DEF Registers, Dead
  <1>4. FenceInv'
    <2>1. claim'.gen \in Nat /\ claim.gen \in Nat /\ claim.gen <= claim'.gen
      BY DEF IntakeInv, RowsMove, RowsTypeOK, ClaimMoves
    <2>2. /\ \A d \in Drivers : driver'[d].gen <= claim'.gen
          /\ \A c \in wire' : c.gen <= claim'.gen
      BY <1>1, <2>1 DEF IntakeInv, FenceInv, DriverTypeOK, DriverStates, Messages
    <2>3. \A d \in Drivers : driver'[d].at \in Early =>
            /\ ~driver'[d].asked
            /\ draft'.author # d
            /\ \A c \in wire' : ~Registers(c, d)
      BY <1>1, <1>2, <1>3 DEF IntakeInv, FenceInv
    <2>4. \A d \in Drivers : driver'[d].at = "register" =>
            /\ driver'[d].asked
            /\ driver'[d].reply # "none" => \A c \in wire' : ~Registers(c, d)
      BY <1>1, <1>2 DEF IntakeInv, FenceInv, Registers
    <2>5. \A c \in wire' : c.kind = "register" => draft'.author # c.by
      BY <1>1, <1>3 DEF IntakeInv, FenceInv, Registers, DriverTypeOK, Messages
    <2>6. \A c1, c2 \in wire' : c1.kind = "register" /\ Registers(c2, c1.by) => c1 = c2
      BY <1>1 DEF IntakeInv, FenceInv
    <2> QED
      BY <2>2, <2>3, <2>4, <2>5, <2>6 DEF FenceInv
  <1>5. \A d \in Drivers : Harmless(d) => Harmless(d)'
    BY <1>1, <1>3
    DEF Harmless, RowsMove, ClaimMoves, Registers, IntakeInv, DriverTypeOK, Messages
  <1>6. ToldInv'
    <2>1. /\ \A d \in Drivers : ~driver'[d].released
          /\ \A d \in Drivers : driver'[d].told # "nothing" => driver'[d].at = "done"
      BY <1>2 DEF IntakeInv, ToldInv
    <2>2. \A d \in Drivers : Rejected(d)' => claim'.status = "terminal_failed"
      BY <1>1, <1>2 DEF IntakeInv, ToldInv, Rejected, RowsMove, ClaimMoves
    <2>3. Registered => Registered'
      BY <1>1, StoreAssumption DEF Registered
    <2>4. \A d \in Drivers :
            driver'[d].at = "register" /\ driver'[d].reply = "registered" => Registered'
      BY <1>1, <1>2, <2>3 DEF IntakeInv, ToldInv
    <2>5. ASSUME NEW d \in Drivers, Failing(d)' PROVE Harmless(d)'
      <3>1. CASE Failing(d)
        BY <1>5, <3>1 DEF IntakeInv, ToldInv
      <3>2. CASE call.kind = "register" /\ d = call.by /\ reply \in {"fenced", "rejected"}
        <4>1. \A c \in wire' : ~Registers(c, d)
          BY <1>1, <3>2 DEF IntakeInv, FenceInv, Registers
        <4> QED
          BY <3>2, <4>1 DEF Harmless
      <3>3. CASE call.kind = "release" /\ d = call.by /\ reply = "released"
        <4>1. draft'.author # d
          BY <1>1, <3>3, StoreAssumption DEF RowsMove, ClaimMatchesDraft, Registered
        <4>2. \A c \in wire' : c.gen <= claim'.gen
          BY <1>4 DEF FenceInv
        <4>3. \A c \in wire' : Dead(d, c.gen)'
          BY <3>3, <4>2 DEF Dead, ActiveLease, Leased
        <4> QED
          BY <4>1, <4>3 DEF Harmless
      <3> QED
        BY <1>1, <1>2, <2>5, <3>1, <3>2, <3>3 DEF Failing
    <2> QED
      BY <2>1, <2>2, <2>4, <2>5 DEF ToldInv
  <1> QED
    BY <1>4, <1>6 DEF IntakeInv, RowsMove

-----------------------------------------------------------------------------
(***************************************************************************)
(* Each transaction of the store is such a move.                          *)
(***************************************************************************)
\* Objects may age, be stored, and go unless the draft refers to them.
BlobsMove ==
  /\ blobs' \in [Drivers -> [state : {"none", "stored", "deleted"}, age : 0 .. Grace,
                            lead : 0 .. Horizon + 1, gap : 0 .. Horizon + 1]]
  /\ \A d \in Drivers :
       d = draft'.author /\ blobs[d].state = "stored" => blobs'[d].state = "stored"

(* Updating a claim moves no object.                                       *)
LEMMA TouchedMoves ==
  ASSUME RowsTypeOK, blobs' \in {Touched, blobs}
  PROVE  BlobsMove /\ \A d \in Drivers : blobs'[d].state = blobs[d].state
  <1>1. \A d \in Drivers : Capped(blobs[d].age, Horizon + 1) \in 0 .. Horizon + 1
    BY StoreAssumption DEF RowsTypeOK, Capped
  <1> QED
    BY <1>1, StoreAssumption DEF Touched, BlobsMove, RowsTypeOK

(* Deleting spares what is referred to.                                    *)
LEMMA WithoutMoves ==
  ASSUME RowsTypeOK, NEW deleted, draft.author \notin deleted,
         blobs' = Without(deleted), UNCHANGED draft
  PROVE  BlobsMove
  BY StoreAssumption DEF RowsTypeOK, Without, BlobsMove, NoBlob

(* A claim that stays as it is.                                            *)
LEMMA SameClaimMoves ==
  ASSUME IntakeInv, BlobsMove, UNCHANGED claim, draft'.author = draft.author,
         draft' \in [author : Drivers \cup {None}, review : Reviews \cup {None}]
  PROVE  RowsMove
  <1>1. ClaimMoves
    BY DEF ClaimMoves, Dead, ActiveLease, Leased, IntakeInv, RowsTypeOK
  <1>2. RowsTypeOK'
    BY DEF IntakeInv, RowsTypeOK, BlobsMove
  <1>3. ClaimMatchesDraft' /\ DraftIsBacked'
    BY StoreAssumption
    DEF IntakeInv, ClaimMatchesDraft, DraftIsBacked, Registered, BlobsMove, RowsTypeOK
  <1> QED
    BY <1>1, <1>2, <1>3 DEF RowsMove

(* A claim that changes under the same draft, without being completed or   *)
(* reopened.                                                               *)
LEMMA NewClaimMoves ==
  ASSUME IntakeInv, UNCHANGED draft, BlobsMove, ClaimMoves,
         claim' \in [status : ClaimStatuses, gen : Nat, token : Drivers \cup {None},
                    left : 0 .. Lease, age : 0 .. Horizon + 1],
         claim'.status # "leased" => claim'.left = 0,
         claim'.status = "completed" <=> claim.status = "completed"
  PROVE  RowsMove
  <1>1. RowsTypeOK'
    BY DEF IntakeInv, RowsTypeOK, BlobsMove
  <1>2. ClaimMatchesDraft' /\ DraftIsBacked'
    BY StoreAssumption
    DEF IntakeInv, ClaimMatchesDraft, DraftIsBacked, Registered, BlobsMove, RowsTypeOK
  <1> QED
    BY <1>1, <1>2 DEF RowsMove

(* A claim that is not under a lease keeps what has ended ended.           *)
LEMMA EndsMoves ==
  ASSUME IntakeInv, claim'.gen = claim.gen, claim'.status # "leased",
         claim.status = "terminal_failed" => claim'.status = "terminal_failed"
  PROVE  ClaimMoves
  <1>1. claim.gen \in Nat
    BY DEF IntakeInv, RowsTypeOK
  <1> QED
    BY <1>1 DEF ClaimMoves, Dead, ActiveLease, Leased

(* A completed claim is never leased again.                                *)
LEMMA CompletedMoves ==
  ASSUME IntakeInv, claim' = Completed, claim.status # "terminal_failed"
  PROVE  /\ ClaimMoves
         /\ claim' \in [status : ClaimStatuses, gen : Nat, token : Drivers \cup {None},
                        left : 0 .. Lease, age : 0 .. Horizon + 1]
         /\ claim'.status = "completed" /\ claim'.left = 0
  <1>1. claim \in [status : ClaimStatuses, gen : Nat, token : Drivers \cup {None},
                   left : 0 .. Lease, age : 0 .. Horizon + 1]
    BY DEF IntakeInv, RowsTypeOK
  <1>2. 0 \in 0 .. Lease
    BY StoreAssumption
  <1>3. /\ claim' \in [status : ClaimStatuses, gen : Nat, token : Drivers \cup {None},
                        left : 0 .. Lease, age : 0 .. Horizon + 1]
        /\ claim'.status = "completed" /\ claim'.left = 0 /\ claim'.gen = claim.gen
    BY <1>1, <1>2 DEF Completed, ClaimStatuses
  <1> QED
    BY <1>3, EndsMoves

(* acquire: a lease is granted over one that has ended, never on a draft   *)
(* that is filed or on a packet that is rejected.                          *)
LEMMA AcquireMoves ==
  ASSUME IntakeInv, NEW d \in Drivers, Acquire(d)
  PROVE  /\ RowsMove /\ UNCHANGED draft
         /\ Decision(d) \in {"completed", "refused", "terminal_failed", "acquired", "busy",
                             "granted", "quota_exceeded"}
         /\ AnsweredGen(d) \in Nat /\ AnsweredGen(d) <= claim'.gen
         /\ Decision(d) = "terminal_failed" => claim.status = "terminal_failed"
  <1>1. /\ claim.gen \in Nat
        /\ Decision(d) \in {"completed", "refused", "terminal_failed", "acquired", "busy",
                            "granted", "quota_exceeded"}
        /\ Decision(d) = "completed" => Registered /\ claim.status = "completed"
        /\ Decision(d) = "granted" =>
             claim.status \notin {"completed", "terminal_failed"}
        /\ Decision(d) = "terminal_failed" => claim.status = "terminal_failed"
    BY DEF Decision, IntakeInv, RowsTypeOK, ClaimMatchesDraft
  <1>2. BlobsMove
    BY TouchedMoves DEF Acquire, IntakeInv
  <1>3. UNCHANGED draft
    BY DEF Acquire
  <1>4. CASE Decision(d) = "completed"
    <2>1. claim' = Completed
      BY <1>4 DEF Acquire
    <2> QED
      BY <1>1, <1>2, <1>3, <1>4, <2>1, CompletedMoves, NewClaimMoves DEF AnsweredGen,
         Completed, IntakeInv, RowsTypeOK
  <1>5. CASE Decision(d) = "granted"
    <2>1. claim' = Granted(d)
      BY <1>5 DEF Acquire
    <2>2. claim \in [status : ClaimStatuses, gen : Nat, token : Drivers \cup {None},
                     left : 0 .. Lease, age : 0 .. Horizon + 1]
      BY DEF IntakeInv, RowsTypeOK
    <2>3. /\ 0 \in 0 .. Horizon + 1 /\ Lease \in 0 .. Lease
          /\ claim.gen + 1 \in Nat /\ d \in Drivers \cup {None}
      BY <1>1, StoreAssumption
    <2>4. /\ claim' \in [status : ClaimStatuses, gen : Nat, token : Drivers \cup {None},
                          left : 0 .. Lease, age : 0 .. Horizon + 1]
          /\ claim'.status = "leased" /\ claim'.gen = claim.gen + 1
      <3> DEFINE age == IF claim.status = "none" THEN 0 ELSE claim.age
      <3>1. age \in 0 .. Horizon + 1
        BY <2>2, <2>3
      <3>2. claim' = [claim EXCEPT !.status = "leased", !.gen = claim.gen + 1, !.token = d,
                                   !.left = Lease, !.age = age]
        BY <2>1, <2>2 DEF Granted
      <3>3. "leased" \in ClaimStatuses
        BY DEF ClaimStatuses
      <3> HIDE DEF age
      <3> QED
        BY <2>2, <2>3, <3>1, <3>2, <3>3
    <2>5. ClaimMoves
      BY <1>1, <1>5, <2>4 DEF ClaimMoves, Dead, ActiveLease, Leased
    <2> QED
      BY <1>1, <1>2, <1>3, <1>5, <2>4, <2>5, NewClaimMoves DEF AnsweredGen
  <1>6. CASE Decision(d) \notin {"completed", "granted"}
    <2>1. claim' = claim
      BY <1>1, <1>6 DEF Acquire
    <2> QED
      BY <1>1, <1>2, <1>3, <1>6, <2>1, SameClaimMoves DEF AnsweredGen, IntakeInv, RowsTypeOK
  <1> QED
    BY <1>4, <1>5, <1>6

(* A heartbeat prolongs a running lease.                                   *)
LEMMA HeartbeatMoves ==
  ASSUME IntakeInv, NEW d \in Drivers, NEW gen \in Nat, Heartbeat(d, gen)
  PROVE  RowsMove /\ UNCHANGED draft
  <1>1. claim \in [status : ClaimStatuses, gen : Nat, token : Drivers \cup {None},
                   left : 0 .. Lease, age : 0 .. Horizon + 1]
    BY DEF IntakeInv, RowsTypeOK
  <1>2. Lease \in 0 .. Lease
    BY StoreAssumption
  <1>3. /\ claim' \in [status : ClaimStatuses, gen : Nat, token : Drivers \cup {None},
                        left : 0 .. Lease, age : 0 .. Horizon + 1]
        /\ claim'.status = claim.status /\ claim'.gen = claim.gen /\ claim'.token = claim.token
    BY <1>1, <1>2 DEF Heartbeat
  <1>4. claim.status = "leased" /\ claim.left > 0
    BY DEF Heartbeat, ActiveLease, Leased
  <1>5. BlobsMove /\ UNCHANGED draft
    BY TouchedMoves DEF Heartbeat, IntakeInv
  <1>6. ClaimMoves
    BY <1>1, <1>3, <1>4 DEF ClaimMoves, Dead, ActiveLease, Leased
  <1> QED
    BY <1>3, <1>4, <1>5, <1>6, NewClaimMoves

(* A release ends a running lease; what it answers is what the claim is.   *)
LEMMA ReleaseMoves ==
  ASSUME IntakeInv, NEW d \in Drivers, NEW gen \in Nat,
         NEW verdict \in {"retryable_failed", "terminal_failed"}, Release(d, gen, verdict)
  PROVE  /\ RowsMove /\ UNCHANGED draft
         /\ ReleaseAnswer(d, gen, verdict) \in {"released", "fenced"}
         /\ ReleaseAnswer(d, gen, verdict) = "released" => claim'.status = verdict
  <1>1. claim \in [status : ClaimStatuses, gen : Nat, token : Drivers \cup {None},
                   left : 0 .. Lease, age : 0 .. Horizon + 1]
    BY DEF IntakeInv, RowsTypeOK
  <1>2. CASE MayRelease(d, gen)
    <2>1. 0 \in 0 .. Lease /\ verdict \in ClaimStatuses
      BY StoreAssumption DEF ClaimStatuses
    <2>2. /\ claim' \in [status : ClaimStatuses, gen : Nat, token : Drivers \cup {None},
                          left : 0 .. Lease, age : 0 .. Horizon + 1]
          /\ claim'.status = verdict /\ claim'.gen = claim.gen /\ claim'.left = 0
      BY <1>1, <1>2, <2>1 DEF Release, Failed
    <2>3. claim.status = "leased"
      BY <1>2 DEF MayRelease, ActiveLease, Leased
    <2>4. BlobsMove /\ UNCHANGED draft
      BY <1>2, TouchedMoves DEF Release, IntakeInv
    <2>5. ClaimMoves
      BY <2>2, <2>3, EndsMoves
    <2> QED
      BY <1>2, <2>2, <2>3, <2>4, <2>5, NewClaimMoves DEF ReleaseAnswer
  <1>3. CASE ~MayRelease(d, gen)
    <2>1. UNCHANGED <<claim, blobs, draft>>
      BY <1>3 DEF Release
    <2>2. RowsMove
      BY <2>1, TouchedMoves, SameClaimMoves DEF IntakeInv, RowsTypeOK
    <2> QED
      BY <1>3, <2>1, <2>2 DEF ReleaseAnswer
  <1> QED
    BY <1>2, <1>3

(* A registration files the draft under a running lease, and only when the *)
(* packet of the call is stored; it is refused only if the draft is not    *)
(* that of the call.                                                       *)
LEMMA RegisterMoves ==
  ASSUME IntakeInv, NEW d \in Drivers, NEW gen \in Nat, Register(d, gen),
         draft.author # d
  PROVE  /\ RowsMove
         /\ RegisterAnswer(d, gen) \in {"registered", "rejected", "fenced"}
         /\ \/ UNCHANGED draft /\ (RegisterAnswer(d, gen) = "registered" => Registered)
            \/ /\ ~Registered /\ draft' = [draft EXCEPT !.author = d]
               /\ RegisterAnswer(d, gen) = "registered"
               /\ ~Dead(d, gen) /\ Registered'
  <1>1. /\ claim.gen \in Nat
        /\ draft \in [author : Drivers \cup {None}, review : Reviews \cup {None}]
    BY DEF IntakeInv, RowsTypeOK
  <1>2. RegisterAnswer(d, gen) \in {"registered", "rejected", "fenced"}
    BY DEF RegisterAnswer
  <1>3. CASE RegisterAnswer(d, gen) = "registered" /\ ~Registered
    <2>1. ActiveLease(d, gen) /\ blobs[d].state = "stored"
      BY <1>3 DEF RegisterAnswer
    <2>2. claim' = Completed /\ blobs' = Touched /\ draft' = [draft EXCEPT !.author = d]
      BY <1>3 DEF Register
    <2>3. draft'.author = d /\ draft'.author \in Drivers /\ d # None
          /\ draft' \in [author : Drivers \cup {None}, review : Reviews \cup {None}]
      BY <1>1, <2>2, StoreAssumption
    <2>4. claim.status = "leased"
      BY <2>1 DEF ActiveLease, Leased
    <2>5. /\ ClaimMoves
          /\ claim' \in [status : ClaimStatuses, gen : Nat, token : Drivers \cup {None},
                          left : 0 .. Lease, age : 0 .. Horizon + 1]
          /\ claim'.status = "completed" /\ claim'.left = 0
      BY <2>2, <2>4, CompletedMoves
    <2>6. BlobsMove /\ \A e \in Drivers : blobs'[e].state = blobs[e].state
      BY <2>2, TouchedMoves DEF IntakeInv
    <2>7. RowsMove
      BY <2>1, <2>3, <2>5, <2>6
      DEF RowsMove, RowsTypeOK, BlobsMove, ClaimMatchesDraft, DraftIsBacked, Registered
    <2> QED
      BY <1>3, <2>1, <2>2, <2>3, <2>7 DEF Registered, Dead
  <1>4. CASE ~(RegisterAnswer(d, gen) = "registered" /\ ~Registered)
    <2>1. UNCHANGED <<draft, claim, blobs>>
      BY <1>4 DEF Register
    <2>2. RowsMove
      BY <1>1, <2>1, TouchedMoves, SameClaimMoves DEF IntakeInv
    <2> QED
      BY <1>2, <1>4, <2>1, <2>2
  <1> QED
    BY <1>3, <1>4

(* Storing a packet, and cleaning one up.                                  *)
LEMMA ObjectsMove ==
  ASSUME IntakeInv, NEW d \in Drivers, Store(d) \/ Cleanup(d)
  PROVE  RowsMove /\ UNCHANGED draft
  <1>1. /\ RowsTypeOK
        /\ draft \in [author : Drivers \cup {None}, review : Reviews \cup {None}]
        /\ claim.age \in 0 .. Horizon + 1
    BY DEF IntakeInv, RowsTypeOK
  <1>2. UNCHANGED <<claim, draft>>
    BY DEF Store, Cleanup
  <1>3. BlobsMove
    <2>1. CASE Store(d)
      <3> DEFINE object == [NoBlob EXCEPT !.state = "stored", !.lead = claim.age]
      <3>1. /\ object \in [state : {"none", "stored", "deleted"}, age : 0 .. Grace,
                           lead : 0 .. Horizon + 1, gap : 0 .. Horizon + 1]
            /\ object.state = "stored"
        <4>1. 0 \in 0 .. Grace /\ 0 \in 0 .. Horizon + 1
          BY StoreAssumption
        <4> QED
          BY <1>1, <4>1 DEF NoBlob
      <3>2. blobs' = [blobs EXCEPT ![d] = object]
        BY <2>1 DEF Store
      <3> HIDE DEF object
      <3> QED
        BY <1>1, <3>1, <3>2 DEF BlobsMove, RowsTypeOK
    <2>2. CASE Cleanup(d) /\ Registered
      BY <1>1, <2>2, TouchedMoves DEF Cleanup
    <2>3. CASE Cleanup(d) /\ ~Registered
      <3>1. blobs' = Without({d})
        BY <2>3 DEF Cleanup
      <3>2. draft.author \notin {d}
        BY <2>3, StoreAssumption DEF Registered
      <3> QED
        BY <1>1, <1>2, <3>1, <3>2, WithoutMoves
    <2> QED
      BY <2>1, <2>2, <2>3
  <1> QED
    BY <1>1, <1>2, <1>3, SameClaimMoves

(* The clock.                                                              *)
LEMMA ClockMoves ==
  ASSUME IntakeInv, MinutesPass \/ DayGoesBy
  PROVE  RowsMove /\ UNCHANGED draft
  <1>1. /\ claim \in [status : ClaimStatuses, gen : Nat, token : Drivers \cup {None},
                      left : 0 .. Lease, age : 0 .. Horizon + 1]
        /\ claim.status # "leased" => claim.left = 0
    BY DEF IntakeInv, RowsTypeOK
  <1>2. /\ claim' \in [status : ClaimStatuses, gen : Nat, token : Drivers \cup {None},
                       left : 0 .. Lease, age : 0 .. Horizon + 1]
        /\ claim'.status = claim.status /\ claim'.gen = claim.gen /\ claim'.token = claim.token
        /\ claim'.left > 0 => claim.left > 0
    <2>1. CASE MinutesPass
      <3> DEFINE left == IF claim.left > 0 THEN claim.left - 1 ELSE 0
      <3>1. left \in 0 .. Lease /\ (left > 0 => claim.left > 0)
        BY <1>1, StoreAssumption
      <3>2. claim' = [claim EXCEPT !.left = left]
        BY <2>1 DEF MinutesPass
      <3> HIDE DEF left
      <3> QED
        BY <1>1, <3>1, <3>2
    <2>2. CASE DayGoesBy
      <3> DEFINE age == IF claim.status = "none" THEN 0 ELSE Capped(claim.age + 1, Horizon + 1)
      <3>1. age \in 0 .. Horizon + 1 /\ 0 \in 0 .. Lease
        BY <1>1, StoreAssumption DEF Capped
      <3>2. claim' = [claim EXCEPT !.left = 0, !.age = age]
        BY <2>2 DEF DayGoesBy
      <3> HIDE DEF age
      <3>3. claim'.left = 0
        BY <1>1, <3>2
      <3>4. claim' \in [status : ClaimStatuses, gen : Nat, token : Drivers \cup {None},
                        left : 0 .. Lease, age : 0 .. Horizon + 1]
        BY <1>1, <3>1, <3>2
      <3>5. claim'.status = claim.status /\ claim'.gen = claim.gen /\ claim'.token = claim.token
        BY <1>1, <3>2
      <3> QED
        BY <3>3, <3>4, <3>5
    <2> QED
      BY <2>1, <2>2
  <1>3. ClaimMoves
    BY <1>1, <1>2 DEF ClaimMoves, Dead, ActiveLease, Leased
  <1>4. UNCHANGED draft
    BY DEF MinutesPass, DayGoesBy
  <1>5. BlobsMove
    <2>1. CASE MinutesPass
      BY <2>1, TouchedMoves DEF MinutesPass, IntakeInv
    <2>2. CASE DayGoesBy
      <3>1. \A d \in Drivers : Capped(blobs[d].age + 1, Grace) \in 0 .. Grace
        BY StoreAssumption DEF IntakeInv, RowsTypeOK, Capped
      <3> QED
        BY <2>2, <3>1, ZenonT(40) DEF DayGoesBy, BlobsMove, IntakeInv, RowsTypeOK
    <2> QED
      BY <2>1, <2>2
  <1>6. claim'.status # "leased" => claim'.left = 0
    BY <1>1, <1>2
  <1> QED
    BY <1>2, <1>3, <1>4, <1>5, <1>6, NewClaimMoves

(* Another packet of the client, and the publication of the draft.         *)
LEMMA OthersMove ==
  ASSUME IntakeInv, OtherPacket \/ \E r \in Reviews : PublishDraft(r)
  PROVE  RowsMove /\ draft'.author = draft.author
  <1>1. /\ RowsTypeOK
        /\ draft \in [author : Drivers \cup {None}, review : Reviews \cup {None}]
    BY DEF IntakeInv, RowsTypeOK
  <1>2. /\ UNCHANGED <<claim, blobs>> /\ draft'.author = draft.author
        /\ draft' \in [author : Drivers \cup {None}, review : Reviews \cup {None}]
    BY <1>1 DEF OtherPacket, PublishDraft
  <1>3. BlobsMove
    BY <1>1, <1>2, TouchedMoves
  <1> QED
    BY <1>2, <1>3, SameClaimMoves

(* The sweep looks at the references again before it deletes.              *)
LEMMA SweepMoves ==
  ASSUME IntakeInv, SweepStep
  PROVE  RowsMove /\ UNCHANGED draft
  <1>1. /\ RowsTypeOK
        /\ draft \in [author : Drivers \cup {None}, review : Reviews \cup {None}]
    BY DEF IntakeInv, RowsTypeOK
  <1>2. UNCHANGED <<claim, draft>>
    BY DEF SweepStep, StartSweep, SweepGoesStale, ReconcilePage, FencedPage, LosePage,
           storeVars
  <1>3. BlobsMove
    <2>1. CASE \E page \in pages : ReconcilePage(page)
      <3>1. PICK some : blobs' = Without({d \in some : Deletable(d)})
        BY <2>1 DEF ReconcilePage
      <3>2. draft.author \notin {d \in some : Deletable(d)}
        BY DEF Deletable, Referenced
      <3> HIDE DEF Deletable
      <3> QED
        BY <1>1, <1>2, <3>1, <3>2, WithoutMoves
    <2>2. CASE UNCHANGED blobs
      BY <1>1, <2>2, TouchedMoves
    <2> QED
      BY <2>1, <2>2 DEF SweepStep, StartSweep, SweepGoesStale, FencedPage, LosePage, storeVars
  <1> QED
    BY <1>1, <1>2, <1>3, SameClaimMoves

-----------------------------------------------------------------------------
(***************************************************************************)
(* Every step.                                                            *)
(***************************************************************************)
(* A driver's step is a move of a driver that has told nothing yet.        *)
LEMMA DriverMoves ==
  ASSUME IntakeInv, NEW d \in Drivers, Begins(d) \/ DriverStep(d)
  PROVE  driver[d].told = "nothing" /\ \E s : Moves(d, s)
  <1>1. driver[d].at # "done"
    BY DEF Begins, DriverStep, Claimed, ClaimFails, Compiles, Uploaded, RegistrationEnds,
           WorkEnds, Working, Reconciles, Released, ReleaseFails, Rechecks, Dies
  <1>2. driver[d].told = "nothing"
    BY <1>1 DEF IntakeInv, ToldInv
  <1> QED
    BY <1>2, WorkMoves, RecoveryMoves DEF DriverStep

\* The draft stays whose it was, or a registration under a running lease
\* files it.
FilesOrNot ==
  \/ UNCHANGED draft
  \/ /\ claim.status = "leased"
     /\ \E d \in Drivers :
          ~Registered /\ ~Harmless(d) /\ draft' = [draft EXCEPT !.author = d]

TellsNobody == \A d \in Drivers : driver'[d].told = driver[d].told

(* An answer tells the client nothing: its driver does, later.             *)
LEMMA AnsweredTellsNobody ==
  ASSUME DriverTypeOK, NEW call, NEW reply, NEW gen, Answered(call, reply, gen)
  PROVE  TellsNobody
  BY DEF DriverTypeOK, DriverStates, Answered, TellsNobody

(* A call that is lost, or has no driver to answer.                        *)
LEMMA UnansweredKeepsInv ==
  ASSUME IntakeInv, NEW call \in wire, wire' = wire \ {call}, UNCHANGED driver,
         RowsMove, UNCHANGED draft
  PROVE  IntakeInv' /\ FilesOrNot /\ TellsNobody
  <1>1. Answered(call, "none", 0) /\ DriverTypeOK'
    BY DEF Answered, IntakeInv, DriverTypeOK
  <1>2. 0 \in Nat /\ 0 <= claim'.gen
    BY DEF RowsMove, RowsTypeOK
  <1>3. IntakeInv'
    BY <1>1, <1>2, AnsweredKeepsInv
  <1> QED
    BY <1>3 DEF FilesOrNot, TellsNobody

(* An acquire is served.                                                   *)
LEMMA ServesAcquireKeepsInv ==
  ASSUME IntakeInv, NEW call \in wire, ServesAcquire(call)
  PROVE  IntakeInv' /\ FilesOrNot /\ TellsNobody
  <1> DEFINE reply == AcquireAnswer(call.by)
             gen   == IF reply = "acquired" THEN AnsweredGen(call.by) ELSE 0
  <1>1. call.by \in Drivers /\ call.kind = "acquire" /\ DriverTypeOK
    BY DEF ServesAcquire, IntakeInv, DriverTypeOK, Messages
  <1>2. Acquire(call.by) /\ Delivers(call, reply, gen)
    BY DEF ServesAcquire
  <1>3. /\ RowsMove /\ UNCHANGED draft
        /\ reply \in {"acquired", "busy", "quota_exceeded", "terminal_failed", "completed",
                      "refused"}
        /\ AnsweredGen(call.by) \in Nat /\ AnsweredGen(call.by) <= claim'.gen
        /\ reply = "terminal_failed" => claim.status = "terminal_failed"
    BY <1>1, <1>2, AcquireMoves DEF AcquireAnswer
  <1>4. gen \in Nat /\ gen <= claim'.gen
    BY <1>3 DEF RowsMove, RowsTypeOK
  <1> HIDE DEF reply, gen
  <1>5. DriverTypeOK' /\ Answered(call, reply, gen)
    BY <1>1, <1>2, <1>3, <1>4, DeliversAnswers
  <1>6. IntakeInv'
    BY <1>1, <1>3, <1>4, <1>5, AnsweredKeepsInv
  <1> QED
    BY <1>1, <1>3, <1>5, <1>6, AnsweredTellsNobody DEF FilesOrNot

(* A registration is served, or refused before its transaction.            *)
LEMMA ServesRegisterKeepsInv ==
  ASSUME IntakeInv, NEW call \in wire, ServesRegister(call)
  PROVE  IntakeInv' /\ FilesOrNot /\ TellsNobody
  <1>1. /\ call.by \in Drivers /\ call.kind = "register" /\ call.gen \in Nat /\ DriverTypeOK
        /\ call.gen <= claim.gen /\ draft.author # call.by
        /\ claim.gen \in Nat
        /\ draft \in [author : Drivers \cup {None}, review : Reviews \cup {None}]
    BY DEF ServesRegister, IntakeInv, FenceInv, RowsTypeOK, DriverTypeOK, Messages
  <1>2. CASE Register(call.by, call.gen)
             /\ Delivers(call, RegisterAnswer(call.by, call.gen), call.gen)
    <2> DEFINE reply == RegisterAnswer(call.by, call.gen)
    <2>1. /\ RowsMove
          /\ reply \in {"registered", "rejected", "fenced"}
          /\ \/ UNCHANGED draft /\ (reply = "registered" => Registered)
             \/ /\ ~Registered /\ draft' = [draft EXCEPT !.author = call.by]
                /\ reply = "registered"
                /\ ~Dead(call.by, call.gen) /\ Registered'
      BY <1>1, <1>2, RegisterMoves
    <2> HIDE DEF reply
    <2>2. DriverTypeOK' /\ Answered(call, reply, call.gen)
      BY <1>1, <1>2, <2>1, DeliversAnswers DEF reply
    <2>3. call.gen <= claim'.gen
      BY <1>1, <2>1 DEF RowsMove, ClaimMoves, RowsTypeOK
    <2>4. draft' = [draft EXCEPT !.author = call.by] => draft'.author = call.by
      BY <1>1
    <2>5. Registered /\ UNCHANGED draft => Registered'
      BY DEF Registered
    <2>6. IntakeInv'
      BY <1>1, <2>1, <2>2, <2>3, <2>4, <2>5, AnsweredKeepsInv
    <2>7. FilesOrNot
      <3>1. ~Dead(call.by, call.gen) => claim.status = "leased" /\ ~Harmless(call.by)
        BY <1>1 DEF Dead, ActiveLease, Leased, Harmless, Registers
      <3> QED
        BY <1>1, <2>1, <3>1 DEF FilesOrNot
    <2> QED
      BY <1>1, <2>2, <2>6, <2>7, AnsweredTellsNobody
  <1>3. CASE Delivers(call, "rejected", call.gen) /\ UNCHANGED storeVars
    <2>1. UNCHANGED <<claim, draft, blobs>>
      BY <1>3 DEF storeVars
    <2>2. RowsMove
      BY <1>1, <2>1, TouchedMoves, SameClaimMoves DEF IntakeInv
    <2>3. DriverTypeOK' /\ Answered(call, "rejected", call.gen)
      BY <1>1, <1>3, DeliversAnswers
    <2>4. IntakeInv'
      BY <1>1, <2>1, <2>2, <2>3, AnsweredKeepsInv
    <2> QED
      BY <1>1, <2>1, <2>3, <2>4, AnsweredTellsNobody DEF FilesOrNot
  <1> QED
    BY <1>2, <1>3 DEF ServesRegister

(* An upload or a release is served.                                       *)
LEMMA ServesOthersKeepsInv ==
  ASSUME IntakeInv, NEW call \in wire, ServesUpload(call) \/ ServesRelease(call)
  PROVE  IntakeInv' /\ FilesOrNot /\ TellsNobody
  <1>1. /\ call.by \in Drivers /\ call.gen \in Nat /\ DriverTypeOK
        /\ call.verdict \in {"retryable_failed", "terminal_failed"}
        /\ call.gen <= claim.gen /\ claim.gen \in Nat
    BY DEF IntakeInv, FenceInv, RowsTypeOK, DriverTypeOK, Messages
  <1>2. CASE ServesUpload(call)
    <2>1. RowsMove /\ UNCHANGED draft /\ call.kind = "upload"
      BY <1>1, <1>2, ObjectsMove DEF ServesUpload
    <2>2. DriverTypeOK' /\ Answered(call, "stored", call.gen)
      BY <1>1, <1>2, DeliversAnswers DEF ServesUpload
    <2>3. call.gen <= claim'.gen
      BY <1>1, <2>1 DEF RowsMove, ClaimMoves, RowsTypeOK
    <2>4. IntakeInv'
      BY <1>1, <2>1, <2>2, <2>3, AnsweredKeepsInv
    <2> QED
      BY <1>1, <2>1, <2>2, <2>4, AnsweredTellsNobody DEF FilesOrNot
  <1>3. CASE ServesRelease(call)
    <2> DEFINE reply == ReleaseAnswer(call.by, call.gen, call.verdict)
    <2>1. /\ RowsMove /\ UNCHANGED draft /\ call.kind = "release"
          /\ reply \in {"released", "fenced"}
          /\ reply = "released" => claim'.status \in {"retryable_failed", "terminal_failed"}
      BY <1>1, <1>3, ReleaseMoves DEF ServesRelease
    <2> HIDE DEF reply
    <2>2. DriverTypeOK' /\ Answered(call, reply, call.gen)
      BY <1>1, <1>3, <2>1, DeliversAnswers DEF ServesRelease, reply
    <2>3. call.gen <= claim'.gen
      BY <1>1, <2>1 DEF RowsMove, ClaimMoves, RowsTypeOK
    <2>4. IntakeInv'
      BY <1>1, <2>1, <2>2, <2>3, AnsweredKeepsInv
    <2> QED
      BY <1>1, <2>1, <2>2, <2>4, AnsweredTellsNobody DEF FilesOrNot
  <1> QED
    BY <1>2, <1>3

(* Whatever becomes of a call.                                             *)
LEMMA WireKeepsInv ==
  ASSUME IntakeInv, WireStep
  PROVE  IntakeInv' /\ FilesOrNot /\ TellsNobody
  <1>1. PICK call \in wire :
          \/ ServesAcquire(call) \/ ServesUpload(call) \/ ServesRegister(call)
          \/ ServesRelease(call) \/ ServesCleanup(call) \/ Loses(call)
    BY DEF WireStep
  <1>2. CASE ServesCleanup(call)
    <2>1. call.by \in Drivers
      BY DEF IntakeInv, DriverTypeOK, Messages
    <2>2. RowsMove /\ UNCHANGED draft
      BY <1>2, <2>1, ObjectsMove DEF ServesCleanup
    <2> QED
      BY <1>2, <2>2, UnansweredKeepsInv DEF ServesCleanup
  <1>3. CASE Loses(call)
    <2>1. UNCHANGED <<claim, draft, blobs>>
      BY <1>3 DEF Loses, storeVars
    <2>2. RowsMove
      BY <2>1, TouchedMoves, SameClaimMoves DEF IntakeInv, RowsTypeOK
    <2> QED
      BY <1>3, <2>1, <2>2, UnansweredKeepsInv DEF Loses
  <1> QED
    BY <1>1, <1>2, <1>3, ServesAcquireKeepsInv, ServesRegisterKeepsInv, ServesOthersKeepsInv

(* What no driver takes part in, and a heartbeat.                          *)
LEMMA QuietSteps ==
  ASSUME IntakeInv,
         \/ \E d \in Drivers : KeepsLease(d)
         \/ Minutes \/ DayPasses \/ OtherCompile \/ Sweeps
         \/ UNCHANGED vars
  PROVE  IntakeInv' /\ UNCHANGED draft /\ UNCHANGED driver
  <1>1. RowsMove /\ UNCHANGED draft
    <2>1. CASE \E d \in Drivers : KeepsLease(d)
      <3>1. PICK d \in Drivers : Heartbeat(d, driver[d].gen)
        BY <2>1 DEF KeepsLease
      <3>2. driver[d].gen \in Nat
        BY DEF IntakeInv, DriverTypeOK, DriverStates
      <3> QED
        BY <3>1, <3>2, HeartbeatMoves
    <2>2. CASE Minutes \/ DayPasses
      BY <2>2, ClockMoves DEF Minutes, DayPasses
    <2>3. CASE OtherCompile
      BY <2>3, OthersMove DEF OtherCompile, OtherPacket
    <2>4. CASE Sweeps
      BY <2>4, SweepMoves DEF Sweeps
    <2>5. CASE UNCHANGED vars
      <3>1. UNCHANGED <<claim, draft, blobs>>
        BY <2>5 DEF vars, storeVars
      <3> QED
        BY <3>1, TouchedMoves, SameClaimMoves DEF IntakeInv, RowsTypeOK
    <2> QED
      BY <2>1, <2>2, <2>3, <2>4, <2>5
  <1>2. UNCHANGED <<driver, wire>>
    BY DEF KeepsLease, Minutes, DayPasses, OtherCompile, Sweeps, vars, driverVars
  <1> QED
    BY <1>1, <1>2, QuietKeepsInv

(* The review publishes the draft.                                         *)
LEMMA PublishesKeepsInv ==
  ASSUME IntakeInv, Publishes
  PROVE  IntakeInv' /\ UNCHANGED driver
  <1>1. RowsMove /\ draft'.author = draft.author
    BY OthersMove DEF Publishes
  <1>2. UNCHANGED <<driver, wire>>
    BY DEF Publishes, driverVars
  <1> QED
    BY <1>1, <1>2, QuietKeepsInv

(* The inductive invariant.                                                *)
LEMMA NextIntakeInv == IntakeInv /\ [Next]_vars => IntakeInv'
  <1> SUFFICES ASSUME IntakeInv, [Next]_vars PROVE IntakeInv'
    OBVIOUS
  <1>1. CASE \E d \in Drivers : Begins(d) \/ DriverStep(d)
    BY <1>1, DriverMoves, MovesKeepInv
  <1>2. CASE WireStep
    BY <1>2, WireKeepsInv
  <1>3. CASE Publishes
    BY <1>3, PublishesKeepsInv
  <1>4. CASE \/ \E d \in Drivers : KeepsLease(d)
             \/ Minutes \/ DayPasses \/ OtherCompile \/ Sweeps
             \/ UNCHANGED vars
    BY <1>4, QuietSteps
  <1> QED
    BY <1>1, <1>2, <1>3, <1>4 DEF Next

LEMMA SpecIntakeInv == Spec => []IntakeInv
  BY InitIntakeInv, NextIntakeInv, PTL DEF Spec

-----------------------------------------------------------------------------
(* The claim is completed exactly when the draft is registered, however    *)
(* requests, take-overs, late calls and releases interleave.               *)
THEOREM ClaimAlwaysMatchesDraft == Spec => []ClaimMatchesDraft
  <1>1. IntakeInv => ClaimMatchesDraft
    BY DEF IntakeInv
  <1> QED
    BY <1>1, SpecIntakeInv, PTL

(* No cleanup and no sweep deletes the packet a registered draft refers to,*)
(* and none is registered whose packet is gone.                            *)
THEOREM DraftIsAlwaysBacked == Spec => []DraftIsBacked
  <1>1. IntakeInv => DraftIsBacked
    BY DEF IntakeInv
  <1> QED
    BY <1>1, SpecIntakeInv, PTL

-----------------------------------------------------------------------------
(***************************************************************************)
(* The intake implements the shelf.                                       *)
(***************************************************************************)
(* Nothing is filed or told yet.                                           *)
LEMMA InitImplementsShelf == Init => Shelf!ShelfInit
  BY DEF Init, StoreInit, NoDriver, Shelf!ShelfInit

(* A driver tells its client at most one thing, and the truth.             *)
LEMMA MovesImplementTell ==
  ASSUME IntakeInv, NEW d \in Drivers, NEW s, Moves(d, s), driver[d].told = "nothing"
  PROVE  \/ \E what \in {"case", "failed", "rejected"} : Shelf!Tell(d, what)
         \/ UNCHANGED Shelf!shelfVars
  <1>1. /\ UNCHANGED draft
        /\ driver \in [Drivers -> DriverStates]
        /\ driver' = [driver EXCEPT ![d] = s]
        /\ s.told \in {"nothing", "case", "later", "rejected", "failed"}
    BY DEF Moves, storeVars, IntakeInv, DriverTypeOK, DriverStates
  <1>2. CASE s.told \in {"nothing", "later"}
    BY <1>1, <1>2 DEF Shelf!shelfVars
  <1>3. CASE s.told \in {"case", "failed", "rejected"}
    <2>1. s.told = "case" => draft.author # None
      BY DEF Moves, Lawful, Registered
    <2>2. s.told = "failed" => draft.author # d
      BY DEF Moves, Lawful, Harmless
    <2>3. s.told = "rejected" => draft.author = None
      BY DEF Moves, Lawful, IntakeInv, ToldInv, ClaimMatchesDraft, Registered
    <2>4. Shelf!Tell(d, s.told)
      BY <1>1, <1>3, <2>1, <2>2, <2>3 DEF Shelf!Tell
    <2> QED
      BY <1>3, <2>4
  <1> QED
    BY <1>1, <1>2, <1>3

(* The draft is filed while nobody was told that it is rejected, and by no *)
(* request that was told to have failed.                                   *)
LEMMA FilesImplementFile ==
  ASSUME IntakeInv, DriverTypeOK', FilesOrNot, TellsNobody
  PROVE  (\E d \in Drivers : Shelf!File(d)) \/ UNCHANGED Shelf!shelfVars
  <1> DEFINE told == [d \in Drivers |->
               IF driver[d].told = "later" THEN "nothing" ELSE driver[d].told]
  <1>1. told' = told
    BY DEF TellsNobody
  <1>2. CASE UNCHANGED draft
    BY <1>1, <1>2 DEF Shelf!shelfVars
  <1>3. CASE \E d \in Drivers :
               ~Registered /\ ~Harmless(d) /\ draft' = [draft EXCEPT !.author = d]
    <2>1. PICK d \in Drivers :
            ~Registered /\ ~Harmless(d) /\ draft' = [draft EXCEPT !.author = d]
      BY <1>3
    <2>2. draft.author = None /\ draft'.author = d /\ draft'.review = draft.review
      BY <2>1 DEF Registered, IntakeInv, RowsTypeOK
    <2>3. CASE UNCHANGED draft
      BY <1>2, <2>3
    <2>4. CASE ~UNCHANGED draft
      <3>1. told[d] # "failed"
        BY <2>1 DEF IntakeInv, ToldInv, Failing
      <3>2. \A e \in Drivers : told[e] # "rejected"
        BY <2>4 DEF IntakeInv, ToldInv, Rejected, FilesOrNot
      <3> QED
        BY <1>1, <2>2, <3>1, <3>2 DEF Shelf!File
    <2> QED
      BY <2>3, <2>4
  <1> QED
    BY <1>2, <1>3 DEF FilesOrNot

(* Every step.                                                             *)
LEMMA NextImplementsShelf ==
  ASSUME IntakeInv, IntakeInv', [Next]_vars
  PROVE  [Shelf!ShelfNext]_Shelf!shelfVars
  <1>1. CASE \E d \in Drivers : Begins(d) \/ DriverStep(d)
    BY <1>1, DriverMoves, MovesImplementTell DEF Shelf!ShelfNext
  <1>2. CASE WireStep
    <2>1. FilesOrNot /\ TellsNobody /\ DriverTypeOK'
      BY <1>2, WireKeepsInv DEF IntakeInv
    <2> QED
      BY <2>1, FilesImplementFile DEF Shelf!ShelfNext
  <1>3. CASE Publishes
    <2>1. PICK r \in Reviews : PublishDraft(r) /\ UNCHANGED driver
      BY <1>3 DEF Publishes, driverVars
    <2>2. Shelf!Publish(r)
      BY <2>1 DEF PublishDraft, Registered, IntakeInv, RowsTypeOK, Shelf!Publish
    <2> QED
      BY <2>2 DEF Shelf!ShelfNext
  <1>4. CASE \/ \E d \in Drivers : KeepsLease(d)
             \/ Minutes \/ DayPasses \/ OtherCompile \/ Sweeps
             \/ UNCHANGED vars
    BY <1>4, QuietSteps DEF Shelf!shelfVars
  <1> QED
    BY <1>1, <1>2, <1>3, <1>4 DEF Next

(* Compiling a packet implements the shelf: whatever becomes of requests,  *)
(* calls, cleanups, sweeps and the clock, one draft is filed, once, and    *)
(* whatever a client is told of it is true and stays true.                 *)
THEOREM IntakeImplementsShelf == Spec => ImplementsShelf
  <1>1. Spec => [][Shelf!ShelfNext]_Shelf!shelfVars
    BY NextImplementsShelf, SpecIntakeInv, PTL DEF Spec
  <1> QED
    BY <1>1, InitImplementsShelf, PTL DEF Spec, ImplementsShelf, Shelf!ShelfSpec

-----------------------------------------------------------------------------
(***************************************************************************)
(* The quota.  The row of the client may have forgotten attempts that the *)
(* history still has, but never one that is in the window.                *)
(***************************************************************************)
QuotaInv ==
  /\ QuotaTypeOK
  /\ Recent(attempts) = Recent(grants)
  /\ Len(Recent(attempts)) <= MaxAttempts

(* A set of numbers that is not empty has a least one.                     *)
LEMMA LeastNumber ==
  ASSUME NEW S, S \subseteq Nat, S # {}
  PROVE  \E x \in S : \A y \in S : x <= y
  <1>1. PICK x \in S : \A y \in S : ~ (<<y, x>> \in OpToRel(<, Nat))
    BY NatLessThanWellFounded, WFMin
  <1>2. ASSUME NEW y \in S, ~ (x <= y)
        PROVE  FALSE
    <2>1. <<y, x>> \in Nat \X Nat /\ y < x
      BY <1>2
    <2>2. <<y, x>> \in OpToRel(<, Nat)
      BY <2>1 DEF OpToRel
    <2> QED
      BY <1>1, <2>2
  <1> QED
    BY <1>2

(* Where the window begins in the row of a client.                         *)
LEMMA RecentIs ==
  ASSUME NEW ages \in Seq(0 .. Window)
  PROVE  \E n \in 0 .. Len(ages) :
           /\ n = 0 \/ ages[n] >= Window
           /\ \A i \in n + 1 .. Len(ages) : ages[i] < Window
           /\ Recent(ages) = SubSeq(ages, n + 1, Len(ages))
  <1> DEFINE In(n) == \A i \in n + 1 .. Len(ages) : ages[i] < Window
             S == {n \in 0 .. Len(ages) : In(n)}
             Past(n) == (n = 0 \/ ages[n] >= Window) /\ In(n)
  <1>1. /\ Len(ages) \in Nat /\ Window \in Nat
        /\ \A i \in 1 .. Len(ages) : ages[i] \in Nat
    BY StoreAssumption
  <1>2. Len(ages) \in S /\ S \subseteq Nat
    BY <1>1
  <1>3. PICK n \in S : \A m \in S : n <= m
    BY <1>2, LeastNumber
  <1>4. Past(n)
    <2>1. SUFFICES ASSUME n # 0, ~(ages[n] >= Window) PROVE FALSE
      OBVIOUS
    <2>2. n - 1 \in 0 .. Len(ages) /\ n \in 1 .. Len(ages)
      BY <1>1, <2>1
    <2>3. ages[n] < Window
      BY <1>1, <2>1, <2>2
    <2>4. In(n - 1)
      BY <1>1, <2>2, <2>3
    <2>5. n - 1 \in S
      BY <2>2, <2>4
    <2> HIDE DEF S
    <2>6. n <= n - 1
      BY <1>3, <2>5
    <2> QED
      BY <2>2, <2>6, <1>1
  <1>5. \E m \in 0 .. Len(ages) : Past(m)
    BY <1>4
  <1> DEFINE past == CHOOSE m \in 0 .. Len(ages) : Past(m)
  <1>6. past \in 0 .. Len(ages) /\ Past(past)
    BY <1>5
  <1>7. Recent(ages) = SubSeq(ages, past + 1, Len(ages))
    BY DEF Recent
  <1> HIDE DEF past
  <1> QED
    BY <1>6, <1>7

(* What is in the window stays in it when the rest is dropped.             *)
LEMMA RecentKeeps ==
  ASSUME NEW ages \in Seq(0 .. Window)
  PROVE  /\ Recent(ages) \in Seq(0 .. Window)
         /\ Len(Recent(ages)) <= Len(ages)
         /\ \A i \in 1 .. Len(Recent(ages)) : Recent(ages)[i] < Window
         /\ Recent(Recent(ages)) = Recent(ages)
  <1>1. PICK n \in 0 .. Len(ages) :
          /\ \A i \in n + 1 .. Len(ages) : ages[i] < Window
          /\ Recent(ages) = SubSeq(ages, n + 1, Len(ages))
    BY RecentIs
  <1> DEFINE recent == Recent(ages)
  <1>2. /\ recent \in Seq(0 .. Window) /\ Len(recent) = Len(ages) - n
        /\ Len(recent) \in Nat /\ Len(ages) \in Nat
        /\ \A i \in 1 .. Len(recent) : recent[i] = ages[n + i]
    <2>1. Len(ages) \in Nat /\ n \in Nat /\ n <= Len(ages)
      OBVIOUS
    <2>2. CASE n = Len(ages)
      <3>1. recent = <<>>
        BY <1>1, <2>1, <2>2, SubSeqEmpty
      <3> QED
        BY <2>1, <2>2, <3>1
    <2>3. CASE n # Len(ages)
      <3>0. \A i \in n + 1 .. Len(ages) : i \in 1 .. Len(ages)
        BY <2>1
      <3>1. ASSUME NEW i \in n + 1 .. Len(ages) PROVE ages[i] \in 0 .. Window
        <4>1. i \in 1 .. Len(ages)
          BY <3>0
        <4> QED
          BY <4>1, StoreAssumption
      <3>2. /\ SubSeq(ages, n + 1, Len(ages)) \in Seq(0 .. Window)
            /\ Len(SubSeq(ages, n + 1, Len(ages))) = Len(ages) - n
            /\ \A i \in 1 .. Len(ages) - n :
                 SubSeq(ages, n + 1, Len(ages))[i] = ages[n + i]
        BY <2>1, <2>3, <3>1
      <3> QED
        BY <1>1, <2>1, <3>2
    <2> QED
      BY <2>2, <2>3
  <1> HIDE DEF recent
  <1>3. \A i \in 1 .. Len(recent) : recent[i] < Window
    <2> TAKE i \in 1 .. Len(recent)
    <2>1. n + i \in n + 1 .. Len(ages)
      BY <1>2
    <2> QED
      BY <1>1, <1>2, <2>1
  <1>4. PICK m \in 0 .. Len(recent) :
          /\ m = 0 \/ recent[m] >= Window
          /\ Recent(recent) = SubSeq(recent, m + 1, Len(recent))
    BY <1>2, RecentIs
  <1>5. m = 0
    <2>1. ASSUME m # 0 PROVE FALSE
      <3>1. m \in 1 .. Len(recent)
        BY <1>2, <2>1
      <3>2. recent[m] \in 0 .. Window /\ Window \in Nat
        BY <1>2, <3>1, StoreAssumption, SMTT(30)
      <3>3. recent[m] < Window /\ recent[m] >= Window
        BY <1>3, <1>4, <2>1, <3>1
      <3> QED
        BY <3>2, <3>3
    <2> QED
      BY <2>1
  <1>6. Recent(recent) = recent
    BY <1>2, <1>4, <1>5
  <1> QED
    BY <1>2, <1>3, <1>6 DEF recent

(* What a step may do to the quota.                                        *)
Grants ==
  /\ Permitted
  /\ attempts' = Append(Recent(attempts), 0) /\ grants' = Append(Recent(grants), 0)

LEMMA QuotaSteps ==
  ASSUME [Next]_vars
  PROVE  \/ UNCHANGED <<attempts, grants>>
         \/ Grants
         \/ attempts' = Recent(attempts) /\ grants' = grants
         \/ attempts' = Aged(attempts) /\ grants' = Aged(grants)
         \/ attempts' = <<>> /\ grants' = <<>>
  <1>1. CASE \E d \in Drivers : Begins(d) \/ DriverStep(d) \/ KeepsLease(d)
    BY <1>1 DEF storeVars, Begins, DriverStep, KeepsLease, Heartbeat, Claimed, ClaimFails,
                Compiles, Uploaded, RegistrationEnds, WorkEnds, Reconciles, Released,
                ReleaseFails, Rechecks, Dies
  <1>2. CASE WireStep
    <2>1. PICK call \in wire :
            \/ ServesAcquire(call) \/ ServesUpload(call) \/ ServesRegister(call)
            \/ ServesRelease(call) \/ ServesCleanup(call) \/ Loses(call)
      BY <1>2 DEF WireStep
    <2>2. CASE ServesAcquire(call)
      <3>1. Acquire(call.by)
        BY <2>2 DEF ServesAcquire
      <3>2. Decision(call.by) = "granted" => Permitted
        BY DEF Decision
      <3> QED
        BY <3>1, <3>2 DEF Acquire, Grants
    <2>3. CASE \/ ServesUpload(call) \/ ServesRegister(call) \/ ServesRelease(call)
               \/ ServesCleanup(call) \/ Loses(call)
      BY <2>3 DEF storeVars, ServesUpload, ServesRegister, ServesRelease, ServesCleanup,
                  Loses, Store, Register, Release, Cleanup
    <2> QED
      BY <2>1, <2>2, <2>3
  <1>3. CASE Minutes \/ DayPasses \/ OtherCompile \/ Publishes \/ Sweeps
    <2>1. CASE OtherCompile
      BY <2>1 DEF OtherCompile, OtherPacket, Grants
    <2>2. CASE Minutes \/ DayPasses
      BY <2>2 DEF Minutes, DayPasses, MinutesPass, DayGoesBy
    <2>3. CASE Publishes \/ Sweeps
      BY <2>3 DEF storeVars, Publishes, PublishDraft, Sweeps, SweepStep, StartSweep,
                  SweepGoesStale, ReconcilePage, FencedPage, LosePage
    <2> QED
      BY <1>3, <2>1, <2>2, <2>3
  <1>4. CASE UNCHANGED vars
    BY <1>4 DEF vars, storeVars
  <1> QED
    BY <1>1, <1>2, <1>3, <1>4 DEF Next

LEMMA QuotaContinues == QuotaInv /\ [Next]_vars => QuotaInv'
  <1> SUFFICES ASSUME QuotaInv, [Next]_vars PROVE QuotaInv'
    OBVIOUS
  <1> DEFINE recent == Recent(attempts)
  <1>1. /\ attempts \in Seq(0 .. Window) /\ grants \in Seq(0 .. Window)
        /\ recent = Recent(grants) /\ Recent(recent) = recent
        /\ recent \in Seq(0 .. Window) /\ Len(recent) \in Nat /\ Len(recent) <= MaxAttempts
        /\ \A i \in 1 .. Len(recent) : recent[i] < Window
        /\ Window \in Nat /\ 0 \in 0 .. Window /\ MaxAttempts \in Nat
    BY RecentKeeps, StoreAssumption DEF QuotaInv, QuotaTypeOK
  <1> HIDE DEF recent
  <1>2. ASSUME NEW ages \in Seq(0 .. Window), Len(ages) <= MaxAttempts,
               attempts' = ages, grants' = ages
        PROVE  QuotaInv'
    <2>1. Len(Recent(ages)) <= MaxAttempts
      BY <1>1, <1>2, RecentKeeps
    <2> QED
      BY <1>2, <2>1 DEF QuotaInv, QuotaTypeOK, Recent
  <1>3. CASE UNCHANGED <<attempts, grants>>
    BY <1>3 DEF QuotaInv, QuotaTypeOK, Recent
  <1>4. CASE Grants
    <2>1. Len(recent) < MaxAttempts
      BY <1>4 DEF Grants, Permitted, recent
    <2>2. attempts' = Append(recent, 0) /\ grants' = Append(recent, 0)
      BY <1>1, <1>4 DEF Grants, recent
    <2>3. Append(recent, 0) \in Seq(0 .. Window) /\ Len(Append(recent, 0)) <= MaxAttempts
      BY <1>1, <2>1
    <2> QED
      BY <1>2, <2>2, <2>3
  <1>5. CASE attempts' = Recent(attempts) /\ grants' = grants
    <2>1. attempts' = recent /\ Recent(attempts') = recent /\ Recent(grants') = recent
      BY <1>1, <1>5 DEF recent
    <2> QED
      BY <1>1, <1>5, <2>1 DEF QuotaInv, QuotaTypeOK
  <1>6. CASE attempts' = Aged(attempts) /\ grants' = Aged(grants)
    <2> DEFINE ages == [i \in 1 .. Len(recent) |-> recent[i] + 1]
    <2>1. attempts' = ages /\ grants' = ages
      BY <1>1, <1>6 DEF Aged, recent
    <2>2. ages \in Seq(0 .. Window) /\ Len(ages) = Len(recent)
      <3>1. \A i \in 1 .. Len(recent) : recent[i] + 1 \in 0 .. Window
        BY <1>1
      <3> QED
        BY <1>1, <3>1
    <2> HIDE DEF ages
    <2> QED
      BY <1>1, <1>2, <2>1, <2>2
  <1>7. CASE attempts' = <<>> /\ grants' = <<>>
    <2>1. <<>> \in Seq(0 .. Window) /\ Len(<<>>) <= MaxAttempts
      BY <1>1
    <2> QED
      BY <1>2, <1>7, <2>1
  <1> QED
    BY <1>3, <1>4, <1>5, <1>6, <1>7, QuotaSteps

LEMMA InitQuotaInv == Init => QuotaInv
  <1> SUFFICES ASSUME Init PROVE QuotaInv
    OBVIOUS
  <1>1. attempts = <<>> /\ grants = <<>> /\ <<>> \in Seq(0 .. Window)
    BY DEF Init, StoreInit
  <1>2. Len(Recent(<<>>)) <= MaxAttempts
    <2>1. Len(Recent(<<>>)) <= Len(<<>>) /\ Recent(<<>>) \in Seq(0 .. Window)
      BY <1>1, RecentKeeps
    <2> QED
      BY <2>1, StoreAssumption
  <1> QED
    BY <1>1, <1>2 DEF QuotaInv, QuotaTypeOK

(* However requests, retries, take-overs and the client's other packets    *)
(* interleave, and whatever the clock does: a permit and the generation it *)
(* is for are one transaction (acquireCaseCompileClaim and                 *)
(* evaluateCaseCompilePermit), so that no window has more generations than *)
(* the quota allows.                                                       *)
THEOREM QuotaAlwaysHolds == Spec => []QuotaHolds
  <1>1. QuotaInv => QuotaHolds
    BY DEF QuotaInv, QuotaHolds
  <1> QED
    BY <1>1, InitQuotaInv, QuotaContinues, PTL DEF Spec
=============================================================================
