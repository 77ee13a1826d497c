----------------------- MODULE FinalBoundLeaseProofs -----------------------
(***************************************************************************)
(* The lease of a final-bound interruption keeps its promise for any      *)
(* number of drivers, any lease and clock skew, and any delay, loss or    *)
(* late landing of a call: who may call a model holds the lease, and      *)
(* nothing but the owner's own commits changes what was ruled.            *)
(*                                                                         *)
(* A driver never reads the claim; it counts down what it was told.  So   *)
(* the invariant follows the promise along its way: from the claim's row  *)
(* into an answer under way (AnswersAreTrue), and from the answer into    *)
(* the driver's view of the expiry (OwnersAreCovered), each never more    *)
(* than what is left of the lease.  That a renewal cannot shorten it      *)
(* rests on the order of the clock readings (RenewalsAreLater), and that  *)
(* no old call of the same driver interferes on the order in which a      *)
(* driver makes its calls (CallsInOrder).                                 *)
(***************************************************************************)
EXTENDS FinalBoundLease, TLAPS

\* The lease is d's, for n units at least.
Promised(d, n) ==
  claim.status = "active" /\ claim.holder = d /\ claim.left >= n

Silent(d, ops) == \A op \in ops : At(d, op, "none")

CallsInOrder(d) ==
  /\ driver[d].at \in {"idle", "waiting"} => Silent(d, Ops)
  /\ driver[d].at = "claiming" => Silent(d, Ops \ {"claim"})
  /\ driver[d].at = "holding" => Silent(d, {"claim", "release"})
  /\ driver[d].at = "ended" => \A op \in Ops :
       call[d][op].step \notin Replies /\ <<d, op>> \notin awaited
  /\ Silent(d, {"claim"}) \/ Silent(d, {"renew"})
  /\ driver[d].guard # "off" => driver[d].at = "holding"
  /\ driver[d].guard = "timer" => Silent(d, {"renew"})

BodiesTyped(d) ==
  /\ call[d]["claim"].body \in {None, "ruling_pending", "witness_pending"}
  /\ call[d]["ruling"].body \in Rulings \cup {None}

AnswersAreTrue(d) ==
  \A op \in Ops : call[d][op].left > 0 =>
    /\ op \in {"claim", "renew"}
    /\ call[d][op].step \in Replies
    /\ Promised(d, call[d][op].left)

RenewalsAreLater(d) ==
  At(d, "renew", "stamped") /\ Promised(d, claim.left)
    => claim.left <= Lease - call[d]["renew"].age

OwnersAreCovered(d) ==
  driver[d].guard # "off" /\ driver[d].ready =>
    /\ EffectiveLeft(driver[d].view) > 0
    /\ Promised(d, driver[d].view - offset[d])

DriverInv(d) ==
  /\ BodiesTyped(d)
  /\ CallsInOrder(d)
  /\ AnswersAreTrue(d)
  /\ RenewalsAreLater(d)
  /\ OwnersAreCovered(d)

LeaseInv == LeaseTypeOK /\ \A d \in Drivers : DriverInv(d)

-----------------------------------------------------------------------------
LEMMA InitLeaseInv == Init => LeaseInv
  BY LeaseAssumption, DriverAssumption
  DEF Init, ClaimInit, DriverInit, LeaseInv, LeaseTypeOK, ClaimTypeOK, CallRecords,
      DriverRecords, NoCall, NoDriver, Rulings, Replies, Ops, DriverInv, BodiesTyped,
      CallsInOrder, AnswersAreTrue, RenewalsAreLater, OwnersAreCovered, Silent, At

-----------------------------------------------------------------------------
(***************************************************************************)
(* The server's steps.  Each puts a record in the place of one call and   *)
(* may change the claim; for the lease there are four kinds.              *)
(***************************************************************************)
Put(d, op, r) ==
  \A e \in Drivers, o \in Ops :
    call'[e][o] = IF e = d /\ o = op THEN r ELSE call[e][o]

LEMMA PutEffect ==
  ASSUME call \in [Drivers -> [Ops -> CallRecords]],
         NEW d \in Drivers, NEW op \in Ops, NEW r \in CallRecords,
         call' = [call EXCEPT ![d][op] = r]
  PROVE  Put(d, op, r) /\ call' \in [Drivers -> [Ops -> CallRecords]]
  BY DEF Put

\* Nothing is granted and nothing taken.
Proceeds(d, op, r) ==
  /\ r.left = 0
  /\ op = "renew" /\ r.step = "stamped" => r.age = 0
  /\ claim' = claim

Grants(d, op, r) ==
  /\ op = "claim"
  /\ ~(claim.status = "active" /\ claim.left > 0)
  /\ claim' = [status |-> "active", holder |-> d, left |-> Lease - call[d]["claim"].age]
  /\ r.left \in {0, claim'.left}
  /\ r.left > 0 => r.step \in Replies

Extends(d, op, r) ==
  /\ op = "renew"
  /\ At(d, op, "stamped")
  /\ Promised(d, claim.left)
  /\ claim' = [claim EXCEPT !.left = Lease - call[d]["renew"].age]
  /\ r.left \in {0, claim'.left}
  /\ r.step # "stamped"
  /\ r.left > 0 => r.step \in Replies

Frees(d, op, r) ==
  /\ op = "release"
  /\ r.left = 0
  /\ claim' = [claim EXCEPT !.status = "released", !.left = 0]
  /\ Promised(d, claim.left)

ServerEffect(d, op, r) ==
  /\ ~At(d, op, "none")
  /\ Put(d, op, r)
  /\ r.step \in Replies => <<d, op>> \in awaited
  /\ op = "claim" => r.body \in {None, "ruling_pending", "witness_pending"}
  /\ op = "ruling" => r.body \in Rulings \cup {None}
  /\ LeaseTypeOK'
  /\ UNCHANGED <<driver, offset, awaited>>
  /\ \/ Proceeds(d, op, r)
     \/ Grants(d, op, r)
     \/ Extends(d, op, r)
     \/ Frees(d, op, r)

\* A driver that has asked for a release has ended.
LEMMA ReleasedHasEnded ==
  ASSUME LeaseInv, NEW d \in Drivers, ~At(d, "release", "none")
  PROVE  driver[d].at = "ended"
  BY DEF LeaseInv, DriverInv, CallsInOrder, Silent, Ops, LeaseTypeOK, DriverRecords

LEMMA ServerKeeps ==
  ASSUME LeaseInv, NEW d \in Drivers, NEW op \in Ops, NEW r \in CallRecords,
         ServerEffect(d, op, r)
  PROVE  LeaseInv'
  <1> SUFFICES ASSUME NEW e \in Drivers PROVE DriverInv(e)'
    BY DEF ServerEffect, LeaseInv
  <1> USE LeaseAssumption, DriverAssumption
  <1>1. BodiesTyped(e)'
    BY DEF ServerEffect, LeaseInv, DriverInv, BodiesTyped, Put, Ops
  <1>2. CallsInOrder(e)'
    BY DEF ServerEffect, LeaseInv, DriverInv, CallsInOrder, Put, Ops, Silent, At, Replies
  <1>3. AnswersAreTrue(e)'
    <2> SUFFICES ASSUME NEW o \in Ops, call'[e][o].left > 0
                 PROVE  /\ o \in {"claim", "renew"}
                        /\ call'[e][o].step \in Replies
                        /\ Promised(e, call[e][o].left)'
      BY DEF AnswersAreTrue
    <2>1. CASE e = d /\ o = op
      BY <2>1 DEF ServerEffect, Put, Proceeds, Grants, Extends, Frees, Promised, LeaseInv,
                  LeaseTypeOK, ClaimTypeOK, CallRecords, At
    <2>2. CASE ~(e = d /\ o = op)
      <3>1. /\ call'[e][o] = call[e][o]
            /\ o \in {"claim", "renew"}
            /\ call[e][o].step \in Replies
            /\ Promised(e, call[e][o].left)
            /\ claim.left > 0
        BY <2>2 DEF ServerEffect, Put, LeaseInv, DriverInv, AnswersAreTrue, Promised,
                    LeaseTypeOK, ClaimTypeOK, CallRecords
      <3>2. ~Grants(d, op, r)
        BY <3>1 DEF Grants, Promised
      <3>3. ~Extends(d, op, r)
        BY <3>1, <2>2 DEF Extends, Promised, LeaseInv, DriverInv, CallsInOrder, Silent, At,
                          Replies
      <3>4. ~Frees(d, op, r)
        BY <3>1, ReleasedHasEnded DEF Frees, Promised, LeaseInv, DriverInv, CallsInOrder,
                                      ServerEffect
      <3> QED
        BY <3>1, <3>2, <3>3, <3>4 DEF Proceeds, Promised, ServerEffect
    <2> QED
      BY <2>1, <2>2
  <1>4. RenewalsAreLater(e)'
    <2>1. CASE e = d /\ op = "renew"
      <3>1. CASE Proceeds(d, op, r)
        BY <3>1, <2>1 DEF Proceeds, RenewalsAreLater, LeaseTypeOK, ClaimTypeOK,
                          ServerEffect, At, Put, Ops
      <3> QED
        BY <3>1, <2>1 DEF ServerEffect, Grants, Extends, Frees, RenewalsAreLater, At, Put, Ops
    <2>2. CASE ~(e = d /\ op = "renew")
      <3>1. call'[e]["renew"] = call[e]["renew"]
        BY <2>2 DEF ServerEffect, Put, Ops
      <3>2. RenewalsAreLater(e)
        BY DEF LeaseInv, DriverInv
      <3>3. CASE Proceeds(d, op, r)
        BY <3>1, <3>2, <3>3 DEF Proceeds, RenewalsAreLater, At, Promised
      <3>4. CASE Grants(d, op, r)
        <4>1. e = d => Silent(e, {"renew"})
          BY <3>4 DEF Grants, ServerEffect, LeaseInv, DriverInv, CallsInOrder, Silent
        <4> QED
          BY <4>1, <3>1, <3>4 DEF Grants, RenewalsAreLater, At, Promised, Silent
      <3>5. CASE Extends(d, op, r)
        BY <3>5, <2>2 DEF Extends, RenewalsAreLater, Promised, LeaseInv, LeaseTypeOK,
                          ClaimTypeOK
      <3>6. CASE Frees(d, op, r)
        BY <3>6 DEF Frees, RenewalsAreLater, Promised, LeaseInv, LeaseTypeOK, ClaimTypeOK
      <3> QED
        BY <3>3, <3>4, <3>5, <3>6 DEF ServerEffect
    <2> QED
      BY <2>1, <2>2
  <1>5. OwnersAreCovered(e)'
    <2> SUFFICES ASSUME driver[e].guard # "off", driver[e].ready
                 PROVE  /\ EffectiveLeft(driver[e].view) > 0
                        /\ Promised(e, driver[e].view - offset[e])'
      BY DEF ServerEffect, OwnersAreCovered, EffectiveLeft
    <2>1. /\ EffectiveLeft(driver[e].view) > 0
          /\ Promised(e, driver[e].view - offset[e])
          /\ driver[e].view \in Int /\ offset[e] \in Int
          /\ driver[e].view - offset[e] > 0
          /\ driver[e].at = "holding"
      BY DEF LeaseInv, LeaseTypeOK, DriverRecords, DriverInv, OwnersAreCovered,
             EffectiveLeft, CallsInOrder
    <2>2. ~Grants(d, op, r)
      BY <2>1 DEF Grants, Promised, LeaseInv, LeaseTypeOK, ClaimTypeOK
    <2>3. ~Frees(d, op, r)
      BY <2>1, ReleasedHasEnded DEF Frees, Promised, ServerEffect
    <2>4. CASE Proceeds(d, op, r)
      BY <2>1, <2>4 DEF Proceeds, Promised, ServerEffect
    <2>5. CASE Extends(d, op, r)
      <3>1. d = e
        BY <2>1, <2>5 DEF Extends, Promised
      <3>2. claim.left <= claim'.left
        BY <2>5 DEF Extends, LeaseInv, DriverInv, RenewalsAreLater, LeaseTypeOK, ClaimTypeOK
      <3> QED
        BY <3>1, <3>2, <2>1, <2>5 DEF Extends, Promised, ServerEffect, LeaseInv,
                                      LeaseTypeOK, ClaimTypeOK
    <2> QED
      BY <2>2, <2>3, <2>4, <2>5 DEF ServerEffect
  <1> QED
    BY <1>1, <1>2, <1>3, <1>4, <1>5 DEF DriverInv

-----------------------------------------------------------------------------
\* The call ends: with an answer that promises left at most, or with none.
Replied(d, op, left, r) ==
  /\ Put(d, op, r)
  /\ call' \in [Drivers -> [Ops -> CallRecords]]
  /\ r.step \in Replies \cup {"none"}
  /\ r.step \in Replies => <<d, op>> \in awaited
  /\ r.left \in {0, left}
  /\ r.left > 0 => r.step \in Replies
  /\ r.body \in {None, call[d][op].body}

LEMMA NoCallTyped ==
  /\ NoCall \in CallRecords
  /\ NoCall.step = "none" /\ NoCall.left = 0 /\ NoCall.body = None
  BY LeaseAssumption DEF NoCall, CallRecords, Replies

Answer(step, left, body) ==
  [NoCall EXCEPT !.step = step, !.left = left, !.body = body]

LEMMA AnswerTyped ==
  ASSUME NEW c \in CallRecords, NEW step \in Replies, NEW left \in 0 .. Lease
  PROVE  /\ Answer(step, left, c.body) \in CallRecords
         /\ Answer(step, left, c.body).step = step
         /\ Answer(step, left, c.body).left = left
         /\ Answer(step, left, c.body).body = c.body
  BY NoCallTyped DEF CallRecords, Answer

LEMMA StepTyped ==
  ASSUME NEW c \in CallRecords, NEW step \in {"stamped", "authorized", "rechecking"}
  PROVE  LET r == [c EXCEPT !.step = step, !.age = 0]
         IN  /\ r \in CallRecords
             /\ r.step = step /\ r.age = 0 /\ r.left = c.left /\ r.body = c.body
  <1>1. 0 \in 0 .. MaxAge
    BY LeaseAssumption
  <1> QED
    BY <1>1 DEF CallRecords

LEMMA RefusesReply ==
  ASSUME LeaseTypeOK, NEW d \in Drivers, NEW op \in Ops, NEW left, Refuses(d, op)
  PROVE  \E r \in CallRecords : Replied(d, op, left, r)
  <1> Put(d, op, NoCall) /\ call' \in [Drivers -> [Ops -> CallRecords]]
    BY NoCallTyped, PutEffect DEF LeaseTypeOK, ClaimTypeOK, Refuses
  <1> QED
    BY NoCallTyped DEF Replied, NoCall, Replies

LEMMA AnswersReply ==
  ASSUME LeaseTypeOK, NEW d \in Drivers, NEW op \in Ops,
         NEW step \in Replies, NEW left \in 0 .. Lease, Answers(d, op, step, left)
  PROVE  \E r \in CallRecords : Replied(d, op, left, r)
  <1> DEFINE answer == Answer(step, left, call[d][op].body)
  <1>1. CASE <<d, op>> \in awaited
    <2>1. /\ answer \in CallRecords
          /\ answer.step = step /\ answer.left = left /\ answer.body = call[d][op].body
      <3>1. call[d][op] \in CallRecords
        BY DEF LeaseTypeOK, ClaimTypeOK
      <3> QED
        BY <3>1, AnswerTyped
    <2>2. call' = [call EXCEPT ![d][op] = answer]
      BY <1>1 DEF Answers, Answer
    <2> HIDE DEF answer
    <2>3. Put(d, op, answer) /\ call' \in [Drivers -> [Ops -> CallRecords]]
      BY <2>1, <2>2, PutEffect DEF LeaseTypeOK, ClaimTypeOK
    <2> QED
      BY <1>1, <2>1, <2>3 DEF Replied
  <1>2. CASE <<d, op>> \notin awaited
    BY <1>2, RefusesReply DEF Answers, Refuses
  <1> QED
    BY <1>1, <1>2

LEMMA RecoversReply ==
  ASSUME LeaseTypeOK, NEW d \in Drivers, NEW op \in Ops, Recovers(d, op)
  PROVE  \E r \in CallRecords : Replied(d, op, 0, r)
  <1> 0 \in 0 .. Lease /\ {"outcome", "committed"} \subseteq Replies
    BY LeaseAssumption DEF Replies
  <1> QED
    BY AnswersReply, RefusesReply DEF Recovers

\* A reply that promises nothing is a proceeding.
LEMMA ReplyProceeds ==
  ASSUME LeaseInv, NEW d \in Drivers, NEW op \in Ops, NEW r \in CallRecords,
         Replied(d, op, 0, r), ~At(d, op, "none"), claim' = claim, LeaseTypeOK',
         UNCHANGED <<driver, offset, awaited>>
  PROVE  ServerEffect(d, op, r)
  BY DEF ServerEffect, Replied, Proceeds, LeaseInv, DriverInv, BodiesTyped, Replies

\* So is a step that the action takes on the way to its transaction.
LEMMA GoesProceeds ==
  ASSUME LeaseInv, NEW d \in Drivers, NEW op \in Ops, 
         NEW step \in {"stamped", "authorized", "rechecking"}, Goes(d, op, step),
         ~At(d, op, "none"), call[d][op].step \notin Replies,
         UNCHANGED <<target, claim, driver, offset, awaited>>
  PROVE  \E r \in CallRecords : ServerEffect(d, op, r)
  <1> DEFINE r == [call[d][op] EXCEPT !.step = step, !.age = 0]
  <1>1. /\ r \in CallRecords
        /\ r.step = step /\ r.age = 0 /\ r.left = 0 /\ r.body = call[d][op].body
    <2>1. call[d][op] \in CallRecords
      BY DEF LeaseInv, LeaseTypeOK, ClaimTypeOK
    <2>2. call[d][op].left = 0
      BY <2>1 DEF LeaseInv, DriverInv, AnswersAreTrue, CallRecords
    <2> QED
      BY <2>1, <2>2, StepTyped, ZenonT(40)
  <1>2. call' = [call EXCEPT ![d][op] = r]
    BY DEF Goes, LeaseInv, LeaseTypeOK, ClaimTypeOK, CallRecords
  <1> HIDE DEF r
  <1>3. Put(d, op, r) /\ call' \in [Drivers -> [Ops -> CallRecords]]
    BY <1>1, <1>2, PutEffect DEF LeaseInv, LeaseTypeOK, ClaimTypeOK
  <1>4. LeaseTypeOK'
    BY <1>3 DEF LeaseInv, LeaseTypeOK, ClaimTypeOK
  <1>5. ServerEffect(d, op, r)
    BY <1>1, <1>3, <1>4 DEF ServerEffect, Proceeds, LeaseInv, DriverInv, BodiesTyped, Replies
  <1> QED
    BY <1>1, <1>5

LEMMA ReadTargetEffect ==
  ASSUME LeaseInv, NEW d \in Drivers, ReadTarget(d), UNCHANGED <<driver, offset>>
  PROVE  \E r \in CallRecords : ServerEffect(d, "claim", r)
  <1>1. /\ call[d]["claim"] \in CallRecords
        /\ ~At(d, "claim", "none")
        /\ LeaseTypeOK
        /\ "claim" \in Ops /\ "outcome" \in Replies /\ 0 \in 0 .. Lease
    BY LeaseAssumption
    DEF ReadTarget, At, Ops, Replies, LeaseInv, LeaseTypeOK, ClaimTypeOK
  <1>2. CASE Complete
    <2>1. PICK r \in CallRecords : Replied(d, "claim", 0, r)
      BY <1>1, <1>2, AnswersReply DEF ReadTarget
    <2>2. LeaseTypeOK'
      BY <2>1, <1>1 DEF Replied, ReadTarget, LeaseTypeOK, ClaimTypeOK
    <2> QED
      BY <1>1, <2>1, <2>2, ReplyProceeds DEF ReadTarget
  <1>3. CASE ~Complete
    <2> DEFINE r == [call[d]["claim"] EXCEPT !.step = "stamped", !.body = TargetPhase]
    <2>1. TargetPhase \in {"ruling_pending", "witness_pending"}
      BY <1>3 DEF Complete, TargetPhase
    <2>2. call[d]["claim"].left = 0
      BY <1>1 DEF ReadTarget, At, LeaseInv, DriverInv, AnswersAreTrue, Replies, CallRecords
    <2>3. /\ r \in CallRecords
          /\ r.step = "stamped" /\ r.left = 0 /\ r.body = TargetPhase
      BY <1>1, <2>1, <2>2 DEF CallRecords
    <2>4. call' = [call EXCEPT ![d]["claim"] = r]
      BY <1>1, <1>3, ZenonT(40) DEF ReadTarget, LeaseTypeOK, ClaimTypeOK, CallRecords
    <2> HIDE DEF r
    <2>5. Put(d, "claim", r) /\ call' \in [Drivers -> [Ops -> CallRecords]]
      BY <1>1, <2>3, <2>4, PutEffect DEF LeaseTypeOK, ClaimTypeOK
    <2>6. LeaseTypeOK'
      BY <2>5, <1>1 DEF ReadTarget, LeaseTypeOK, ClaimTypeOK
    <2>7. ServerEffect(d, "claim", r)
      BY <1>1, <2>1, <2>3, <2>5, <2>6 DEF ServerEffect, Proceeds, ReadTarget, Replies
    <2> QED
      BY <2>3, <2>7
  <1> QED
    BY <1>2, <1>3

LEMMA ClaimEffect ==
  ASSUME LeaseInv, NEW d \in Drivers, Claim(d), UNCHANGED <<driver, offset>>
  PROVE  \E r \in CallRecords : ServerEffect(d, "claim", r)
  <1> DEFINE left == Lease - call[d]["claim"].age
  <1>1. /\ LeaseTypeOK
        /\ left \in 1 .. Lease /\ left \in 0 .. Lease /\ 0 \in 0 .. Lease
        /\ {"outcome", "wait", "claimed"} \subseteq Replies
        /\ "claim" \in Ops
        /\ ~At(d, "claim", "none")
    BY LeaseAssumption
    DEF LeaseInv, LeaseTypeOK, ClaimTypeOK, CallRecords, Ops, Replies, Claim, At
  <1>2. CASE /\ claim' = claim
             /\ Answers(d, "claim", "outcome", 0) \/ Answers(d, "claim", "wait", 0)
    <2>1. PICK r \in CallRecords : Replied(d, "claim", 0, r)
      BY <1>1, <1>2, AnswersReply
    <2>2. LeaseTypeOK'
      BY <2>1, <1>1, <1>2 DEF Replied, Claim, LeaseTypeOK, ClaimTypeOK
    <2> QED
      BY <1>1, <1>2, <2>1, <2>2, ReplyProceeds DEF Claim
  <1>3. CASE /\ ~(claim.status = "active" /\ Unexpired(call[d]["claim"].age))
             /\ claim' = [status |-> "active", holder |-> d, left |-> left]
             /\ Answers(d, "claim", "claimed", left)
    <2> HIDE DEF left
    <2>1. PICK r \in CallRecords : Replied(d, "claim", left, r)
      BY <1>1, <1>3, AnswersReply
    <2>2. LeaseTypeOK'
      BY <2>1, <1>1, <1>3, LeaseAssumption DEF Replied, Claim, LeaseTypeOK, ClaimTypeOK
    <2>3. ~(claim.status = "active" /\ claim.left > 0)
      BY <1>1, <1>3 DEF Unexpired, LeaseTypeOK, ClaimTypeOK, CallRecords, Ops
    <2>4. Grants(d, "claim", r)
      BY <1>3, <2>1, <2>3 DEF Grants, Replied, left
    <2>5. ServerEffect(d, "claim", r)
      BY <1>1, <2>1, <2>2, <2>4 DEF ServerEffect, Replied, Claim, LeaseInv, DriverInv,
                                    BodiesTyped
    <2> QED
      BY <2>5
  <1> QED
    BY <1>2, <1>3 DEF Claim, Granted

LEMMA RenewEffect ==
  ASSUME LeaseInv, NEW d \in Drivers, Renew(d), UNCHANGED <<driver, offset>>
  PROVE  \E r \in CallRecords : ServerEffect(d, "renew", r)
  <1> DEFINE left == Lease - call[d]["renew"].age
  <1>1. /\ LeaseTypeOK
        /\ left \in 1 .. Lease /\ left \in 0 .. Lease /\ 0 \in 0 .. Lease
        /\ {"outcome", "renewed"} \subseteq Replies
        /\ "renew" \in Ops
        /\ At(d, "renew", "stamped") /\ ~At(d, "renew", "none")
    BY LeaseAssumption
    DEF LeaseInv, LeaseTypeOK, ClaimTypeOK, CallRecords, Ops, Replies, Renew, At
  <1>2. CASE Held(d, "renew") /\ ~Complete
    <2> HIDE DEF left
    <2>1. /\ claim' = [claim EXCEPT !.left = left]
          /\ Answers(d, "renew", "renewed", left)
      BY <1>2 DEF Renew, Granted, left
    <2>2. PICK r \in CallRecords : Replied(d, "renew", left, r)
      BY <1>1, <2>1, AnswersReply
    <2>3. LeaseTypeOK'
      <3>1. left \in -MaxAge .. Lease
        BY <1>1, LeaseAssumption
      <3> QED
        BY <2>1, <2>2, <1>1, <3>1 DEF Replied, Renew, LeaseTypeOK, ClaimTypeOK
    <2>4. Extends(d, "renew", r)
      BY <1>1, <1>2, <2>1, <2>2
      DEF Extends, Replied, Held, Promised, Replies, LeaseTypeOK, ClaimTypeOK, left
    <2>5. ServerEffect(d, "renew", r)
      BY <1>1, <2>2, <2>3, <2>4 DEF ServerEffect, Replied, Renew
    <2> QED
      BY <2>5
  <1>3. CASE ~(Held(d, "renew") /\ ~Complete)
    <2>1. claim' = claim
      BY <1>3 DEF Renew
    <2>2. PICK r \in CallRecords : Replied(d, "renew", 0, r)
      BY <1>1, <1>3, AnswersReply, RefusesReply DEF Renew
    <2>3. LeaseTypeOK'
      BY <2>1, <2>2, <1>1 DEF Replied, Renew, LeaseTypeOK, ClaimTypeOK
    <2> QED
      BY <1>1, <2>1, <2>2, <2>3, ReplyProceeds DEF Renew
  <1> QED
    BY <1>2, <1>3

LEMMA ReleaseEffect ==
  ASSUME LeaseInv, NEW d \in Drivers, Release(d), UNCHANGED <<driver, offset>>
  PROVE  \E r \in CallRecords : ServerEffect(d, "release", r)
  <1>1. /\ LeaseTypeOK
        /\ "release" \in Ops
        /\ ~At(d, "release", "none")
    BY DEF LeaseInv, Ops, Release, At
  <1>2. PICK r \in CallRecords : Replied(d, "release", 0, r)
    BY <1>1, RefusesReply DEF Release
  <1>3. CASE claim' = claim
    <2>1. LeaseTypeOK'
      BY <1>1, <1>2, <1>3 DEF Replied, Release, LeaseTypeOK, ClaimTypeOK
    <2> QED
      BY <1>1, <1>2, <1>3, <2>1, ReplyProceeds DEF Release
  <1>4. CASE claim' # claim
    <2>1. /\ Held(d, "release")
          /\ claim' = [claim EXCEPT !.status = "released", !.left = 0]
      BY <1>4 DEF Release
    <2>2. LeaseTypeOK'
      <3>1. 0 \in -MaxAge .. Lease
        BY LeaseAssumption
      <3> QED
        BY <1>1, <1>2, <2>1, <3>1 DEF Replied, Release, LeaseTypeOK, ClaimTypeOK
    <2>3. Frees(d, "release", r)
      BY <1>1, <1>2, <2>1 DEF Frees, Replied, Held, Promised, LeaseTypeOK, ClaimTypeOK
    <2> QED
      BY <1>1, <1>2, <2>2, <2>3 DEF ServerEffect, Replied, Release
  <1> QED
    BY <1>3, <1>4

LEMMA CommitEffect ==
  ASSUME LeaseInv, NEW d \in Drivers, NEW op \in Ops, Authorize(d, op) \/ Append(d, op),
         UNCHANGED <<driver, offset>>
  PROVE  \E r \in CallRecords : ServerEffect(d, op, r)
  <1>1. LeaseTypeOK /\ ~At(d, op, "none") /\ call[d][op].step \notin Replies
    BY DEF LeaseInv, Authorize, Append, At, Replies
  <1>2. CASE Goes(d, op, "authorized") /\ Authorize(d, op)
    BY <1>1, <1>2, GoesProceeds DEF Authorize
  <1>3. CASE Recovers(d, op) \/ Refuses(d, op)
    <2>1. PICK r \in CallRecords : Replied(d, op, 0, r)
      BY <1>1, <1>3, RecoversReply, RefusesReply
    <2>2. /\ target' \in [ruling: Rulings \cup {None}, answered: BOOLEAN]
          /\ target'.answered => target'.ruling = "overruled"
      <3>1. CASE op = "ruling" /\ MayAppend(d, op) /\ Append(d, op)
        <4>1. target.ruling = None /\ ~target.answered
          BY <3>1, <1>1, LeaseAssumption
          DEF MayAppend, PhaseOf, TargetPhase, LeaseTypeOK, ClaimTypeOK
        <4>2. call[d]["ruling"].body \in Rulings \cup {None}
          BY DEF LeaseInv, DriverInv, BodiesTyped
        <4> QED
          BY <3>1, <4>1, <4>2, <1>1 DEF Append, LeaseTypeOK, ClaimTypeOK
      <3>2. CASE op # "ruling" /\ MayAppend(d, op) /\ Append(d, op)
        <4>1. target.ruling = "overruled"
          BY <3>2, <1>1 DEF MayAppend, PhaseOf, TargetPhase
        <4> QED
          BY <3>2, <4>1, <1>1 DEF Append, LeaseTypeOK, ClaimTypeOK
      <3>3. CASE target' = target
        BY <3>3, <1>1 DEF LeaseTypeOK, ClaimTypeOK
      <3> QED
        BY <3>1, <3>2, <3>3 DEF Authorize, Append
    <2>3. LeaseTypeOK'
      BY <1>1, <2>1, <2>2 DEF Replied, Authorize, Append, LeaseTypeOK, ClaimTypeOK
    <2> QED
      BY <1>1, <2>1, <2>3, ReplyProceeds DEF Authorize, Append
  <1> QED
    BY <1>2, <1>3 DEF Authorize, Append

LEMMA ServerStepEffect ==
  ASSUME LeaseInv, NEW d \in Drivers, ServerStep(d) \/ CallDies(d)
  PROVE  \E op \in Ops, r \in CallRecords : ServerEffect(d, op, r)
  <1>1. UNCHANGED <<driver, offset>> /\ {"claim", "renew", "release"} \subseteq Ops
    BY DEF ServerStep, CallDies, Ops
  <1>2. CASE ReadTarget(d) \/ Claim(d) \/ Renew(d) \/ Release(d)
    BY <1>1, <1>2, ReadTargetEffect, ClaimEffect, RenewEffect, ReleaseEffect
  <1>3. ASSUME NEW op \in Ops, Stamp(d, op)
        PROVE  \E r \in CallRecords : ServerEffect(d, op, r)
    <2> call[d][op].step \notin Replies /\ ~At(d, op, "none")
      BY <1>3 DEF Stamp, At, Replies
    <2> QED
      BY <1>1, <1>3, GoesProceeds DEF Stamp
  <1>4. ASSUME NEW op \in Ops, Authorize(d, op) \/ Append(d, op)
        PROVE  \E r \in CallRecords : ServerEffect(d, op, r)
    BY <1>1, <1>4, CommitEffect
  <1>5. ASSUME NEW op \in Ops, Dies(d, op)
        PROVE  \E r \in CallRecords : ServerEffect(d, op, r)
    <2>1. PICK r \in CallRecords : Replied(d, op, 0, r)
      BY <1>5, RefusesReply DEF Dies, LeaseInv
    <2>2. LeaseTypeOK' /\ ~At(d, op, "none")
      BY <1>1, <1>5, <2>1 DEF Replied, Dies, Stamped, At, LeaseInv, LeaseTypeOK, ClaimTypeOK
    <2> QED
      BY <1>1, <1>5, <2>1, <2>2, ReplyProceeds DEF Dies
  <1> QED
    BY <1>2, <1>3, <1>4, <1>5 DEF ServerStep, Serves, CallDies

-----------------------------------------------------------------------------
(***************************************************************************)
(* The drivers' own steps.  They leave the claim and the other drivers    *)
(* alone; a call of the driver itself stays, is dropped, or is sent.      *)
(***************************************************************************)
Fresh(op, r) ==
  /\ r.step \in {"none", "sent"}
  /\ r.left = 0
  /\ op = "claim" => r.body = None
  /\ op = "ruling" => r.body \in Rulings \cup {None}

Redials(d) ==
  /\ call' \in [Drivers -> [Ops -> CallRecords]]
  /\ awaited' \subseteq Drivers \X Ops
  /\ \A e \in Drivers \ {d}, op \in Ops :
       /\ call'[e][op] = call[e][op]
       /\ <<e, op>> \in awaited' => <<e, op>> \in awaited
  /\ \A op \in Ops : call'[d][op] = call[d][op] \/ Fresh(op, call'[d][op])

Moves(d) ==
  /\ driver' \in [Drivers -> DriverRecords]
  /\ \A e \in Drivers \ {d} : driver'[e] = driver[e]
  /\ UNCHANGED <<target, claim, offset>>

LEMMA DriverKeeps ==
  ASSUME LeaseInv, NEW d \in Drivers, Redials(d), Moves(d),
         CallsInOrder(d)', OwnersAreCovered(d)'
  PROVE  LeaseInv'
  <1>1. LeaseTypeOK'
    BY DEF LeaseInv, LeaseTypeOK, ClaimTypeOK, Redials, Moves
  <1>2. ASSUME NEW e \in Drivers, e # d PROVE DriverInv(e)'
    <2>1. DriverInv(e)
      BY DEF LeaseInv
    <2>2. /\ driver'[e] = driver[e] /\ offset' = offset /\ claim' = claim
          /\ \A op \in Ops : call'[e][op] = call[e][op]
          /\ \A op \in Ops : <<e, op>> \in awaited' => <<e, op>> \in awaited
      BY <1>2 DEF Redials, Moves
    <2>3. BodiesTyped(e)' /\ AnswersAreTrue(e)' /\ RenewalsAreLater(e)' /\ OwnersAreCovered(e)'
      BY <2>1, <2>2 DEF DriverInv, BodiesTyped, AnswersAreTrue, RenewalsAreLater,
           OwnersAreCovered, Promised, At, Ops, EffectiveLeft
    <2>4. CallsInOrder(e)'
      BY <2>1, <2>2 DEF DriverInv, CallsInOrder, Silent, At, Ops
    <2> QED
      BY <2>3, <2>4 DEF DriverInv
  <1>3. DriverInv(d)'
    <2>1. DriverInv(d) /\ claim' = claim
      BY DEF LeaseInv, Moves
    <2>2. \A op \in Ops : call'[d][op] = call[d][op] \/ Fresh(op, call'[d][op])
      BY DEF Redials
    <2>3. BodiesTyped(d)'
      BY <2>1, <2>2 DEF DriverInv, BodiesTyped, Fresh, Ops
    <2>4. AnswersAreTrue(d)'
      BY <2>1, <2>2 DEF DriverInv, AnswersAreTrue, Fresh, Promised
    <2>5. RenewalsAreLater(d)'
      BY <2>1, <2>2 DEF DriverInv, RenewalsAreLater, Fresh, Promised, At, Ops
    <2> QED
      BY <2>3, <2>4, <2>5 DEF DriverInv
  <1> QED
    BY <1>1, <1>2, <1>3 DEF LeaseInv

LEMMA NoCallFresh == \A op \in Ops : Fresh(op, NoCall)
  BY NoCallTyped DEF Fresh

\* What hanging up leaves of the driver's calls.
LEMMA HangsUpEffect ==
  ASSUME LeaseTypeOK, NEW d \in Drivers, NEW ops \in SUBSET Ops, HangsUp(d, ops)
  PROVE  /\ Redials(d)
         /\ \A op \in Ops : call'[d][op] =
              IF op \in ops /\ call[d][op].step \in Replies THEN NoCall ELSE call[d][op]
         /\ \A op \in Ops : <<d, op>> \in awaited' => op \notin ops
  <1>1. \A op \in Ops : call[d][op] \in CallRecords
    BY DEF LeaseTypeOK, ClaimTypeOK
  <1>2. call' \in [Drivers -> [Ops -> CallRecords]]
    BY <1>1, NoCallTyped DEF HangsUp, LeaseTypeOK, ClaimTypeOK
  <1>3. \A e \in Drivers, op \in Ops : call'[e][op] =
          IF e = d /\ op \in ops /\ call[d][op].step \in Replies
            THEN NoCall ELSE call[e][op]
    BY DEF HangsUp, LeaseTypeOK, ClaimTypeOK
  <1>4. /\ awaited' \subseteq Drivers \X Ops
        /\ \A e \in Drivers \ {d}, op \in Ops : <<e, op>> \in awaited' => <<e, op>> \in awaited
        /\ \A op \in Ops : <<d, op>> \in awaited' => op \notin ops
    BY DEF HangsUp, LeaseTypeOK, ClaimTypeOK
  <1> QED
    BY <1>2, <1>3, <1>4, NoCallFresh DEF Redials

LEMMA CallsEffect ==
  ASSUME LeaseTypeOK, NEW d \in Drivers, NEW op \in Ops, NEW body,
         body \in (IF op = "ruling" THEN Rulings ELSE {None}),
         Calls(d, op, body)
  PROVE  /\ Redials(d)
         /\ \A o \in Ops \ {op} : call'[d][o] = call[d][o]
  <1> DEFINE r == [NoCall EXCEPT !.step = "sent", !.body = body]
  <1>1. r \in CallRecords /\ Fresh(op, r)
    BY NoCallTyped DEF CallRecords, Fresh
  <1>2. call' = [call EXCEPT ![d][op] = r]
    BY DEF Calls
  <1> HIDE DEF r
  <1>3. Put(d, op, r) /\ call' \in [Drivers -> [Ops -> CallRecords]]
    BY <1>1, <1>2, PutEffect DEF LeaseTypeOK, ClaimTypeOK
  <1>4. /\ awaited' \subseteq Drivers \X Ops
        /\ \A e \in Drivers \ {d}, o \in Ops : <<e, o>> \in awaited' => <<e, o>> \in awaited
    BY DEF Calls, LeaseTypeOK, ClaimTypeOK
  <1> QED
    BY <1>1, <1>3, <1>4 DEF Redials, Put

LEMMA PeriodsTyped ==
  /\ Lead > 0 /\ Buffer > 0
  /\ Lead \in Nat /\ Buffer \in Nat /\ Skew \in Nat
  /\ ClaimBudget \in 0 .. ClaimBudget
  /\ RetryAfter \in 0 .. RetryAfter
  BY DriverAssumption

LEMMA NoDriverTyped ==
  /\ NoDriver \in DriverRecords
  /\ NoDriver.guard = "off"
  BY LeaseAssumption, DriverAssumption DEF NoDriver, DriverRecords

\* A driver that ends hangs up; one that releases also sends that last call.
LEMMA EndsKeeps ==
  ASSUME LeaseInv, NEW d \in Drivers, Ends(d), UNCHANGED <<target, claim, offset>>
  PROVE  LeaseInv'
  <1> DEFINE s == [NoDriver EXCEPT !.at = "ended"]
  <1>1. s \in DriverRecords /\ s.at = "ended" /\ s.guard = "off"
    BY NoDriverTyped DEF DriverRecords
  <1> HIDE DEF s
  <1>2. Moves(d) /\ driver'[d] = s
    BY <1>1 DEF Ends, Becomes, Moves, LeaseInv, LeaseTypeOK, s
  <1>3. /\ Redials(d)
        /\ \A op \in Ops : call'[d][op] =
             IF call[d][op].step \in Replies THEN NoCall ELSE call[d][op]
        /\ \A op \in Ops : <<d, op>> \notin awaited'
    BY HangsUpEffect DEF LeaseInv, Ends
  <1>4. CallsInOrder(d)'
    <2>1. Silent(d, {"claim"}) \/ Silent(d, {"renew"})
      BY DEF LeaseInv, DriverInv, CallsInOrder
    <2> QED
      BY <1>1, <1>2, <1>3, <2>1, NoCallTyped DEF CallsInOrder, Silent, At, Ops, Replies
  <1>5. OwnersAreCovered(d)'
    BY <1>1, <1>2 DEF OwnersAreCovered
  <1> QED
    BY <1>2, <1>3, <1>4, <1>5, DriverKeeps

LEMMA ReleasesKeeps ==
  ASSUME LeaseInv, NEW d \in Drivers, Releases(d), UNCHANGED <<target, claim, offset>>
  PROVE  LeaseInv'
  <1> DEFINE s == [NoDriver EXCEPT !.at = "ended"]
             r == [NoCall EXCEPT !.step = "sent"]
  <1>1. s \in DriverRecords /\ s.at = "ended" /\ s.guard = "off"
    BY NoDriverTyped DEF DriverRecords
  <1>2. r \in CallRecords /\ r.step = "sent" /\ Fresh("release", r)
    BY NoCallTyped DEF CallRecords, Fresh
  <1> HIDE DEF s, r
  <1>3. Moves(d) /\ driver'[d] = s
    BY <1>1 DEF Releases, Becomes, Moves, LeaseInv, LeaseTypeOK, s
  <1>4. /\ \A e \in Drivers \ {d}, op \in Ops : call'[e][op] = call[e][op]
        /\ \A op \in Ops : call'[d][op] =
             IF op = "release" THEN r
             ELSE IF call[d][op].step \in Replies THEN NoCall ELSE call[d][op]
    BY DEF Releases, LeaseInv, LeaseTypeOK, ClaimTypeOK, r
  <1>5. call' \in [Drivers -> [Ops -> CallRecords]]
    <2>1. \A op \in Ops : call[d][op] \in CallRecords
      BY DEF LeaseInv, LeaseTypeOK, ClaimTypeOK
    <2> QED
      BY <1>2, <2>1, NoCallTyped DEF Releases, LeaseInv, LeaseTypeOK, ClaimTypeOK, r
  <1>6. /\ awaited' \subseteq Drivers \X Ops
        /\ \A e \in Drivers, op \in Ops : <<e, op>> \in awaited' => <<e, op>> \in awaited
        /\ \A op \in Ops : <<d, op>> \notin awaited'
    BY DEF Releases, LeaseInv, LeaseTypeOK, ClaimTypeOK
  <1>7. Redials(d)
    BY <1>2, <1>4, <1>5, <1>6, NoCallFresh DEF Redials
  <1>8. CallsInOrder(d)'
    <2>1. Silent(d, {"claim"}) \/ Silent(d, {"renew"})
      BY DEF LeaseInv, DriverInv, CallsInOrder
    <2> QED
      BY <1>1, <1>2, <1>3, <1>4, <1>6, <2>1, NoCallTyped
      DEF CallsInOrder, Silent, At, Ops, Replies
  <1>9. OwnersAreCovered(d)'
    BY <1>1, <1>3 DEF OwnersAreCovered
  <1> QED
    BY <1>3, <1>7, <1>8, <1>9, DriverKeeps

-----------------------------------------------------------------------------
LEMMA ClaimingKeeps ==
  ASSUME LeaseInv, NEW d \in Drivers,
         RequestArrives(d) \/ ClaimStep(d) \/ ClaimEnds(d)
  PROVE  LeaseInv'
  <1> USE LeaseAssumption, DriverAssumption
  <1>0. /\ LeaseTypeOK /\ DriverInv(d) /\ "claim" \in Ops
        /\ driver[d] \in DriverRecords
        /\ UNCHANGED <<target, claim, offset>>
    BY DEF LeaseInv, LeaseTypeOK, Ops, RequestArrives, ClaimStep, ClaimTaken, ClaimTakenLate,
           ClaimWaits, RetriesClaim, ClaimEnds
  <1>1. CASE RequestArrives(d)
    <2> DEFINE s == [NoDriver EXCEPT !.at = "claiming", !.budget = ClaimBudget]
    <2>1. s \in DriverRecords /\ s.at = "claiming" /\ s.guard = "off"
      BY NoDriverTyped, PeriodsTyped DEF DriverRecords
    <2> HIDE DEF s
    <2>2. Moves(d) /\ driver'[d] = s
      BY <1>0, <1>1, <2>1 DEF RequestArrives, Becomes, Moves, LeaseTypeOK, s
    <2>3. /\ Redials(d)
          /\ \A o \in Ops \ {"claim"} : call'[d][o] = call[d][o]
      BY <1>0, <1>1, CallsEffect DEF RequestArrives
    <2>4. CallsInOrder(d)'
      BY <1>0, <1>1, <2>1, <2>2, <2>3
      DEF RequestArrives, DriverInv, CallsInOrder, Silent, At, Ops
    <2>5. OwnersAreCovered(d)'
      BY <2>1, <2>2 DEF OwnersAreCovered
    <2> QED
      BY <2>2, <2>3, <2>4, <2>5, DriverKeeps
  <1>2. CASE ClaimTaken(d)
    <2> DEFINE answer == call[d]["claim"]
               view   == answer.left + offset[d]
               ready  == EffectiveLeft(view) > Lead
               s == [NoDriver EXCEPT !.at = "holding", !.view = view, !.guard = "timer",
                       !.ready = ready, !.work = "starting", !.seen = answer.body]
    <2>1. /\ view \in -Skew .. Lease + Skew
          /\ answer.body \in {None, "ruling_pending", "witness_pending"}
          /\ offset[d] \in -Skew .. Skew /\ answer.left \in 0 .. Lease
      BY <1>0 DEF LeaseTypeOK, ClaimTypeOK, CallRecords, DriverInv, BodiesTyped
    <2>2. /\ s \in DriverRecords
          /\ s.at = "holding" /\ s.guard = "timer" /\ s.view = view
          /\ s.ready = ready
      <3>1. ready \in BOOLEAN
        OBVIOUS
      <3> HIDE DEF ready, view, answer
      <3> QED
        BY <2>1, <3>1, NoDriverTyped DEF DriverRecords
    <2>3. driver' = [driver EXCEPT ![d] = s]
      BY <1>2 DEF ClaimTaken, Becomes
    <2> HIDE DEF s
    <2>4. Moves(d) /\ driver'[d] = s
      BY <1>0, <2>2, <2>3 DEF Moves, LeaseTypeOK
    <2>5. /\ Redials(d)
          /\ \A op \in Ops : call'[d][op] =
               IF op = "claim" /\ call[d][op].step \in Replies THEN NoCall ELSE call[d][op]
      BY <1>0, <1>2, HangsUpEffect DEF ClaimTaken
    <2>6. CallsInOrder(d)'
      BY <1>0, <1>2, <2>2, <2>4, <2>5, NoCallTyped
      DEF ClaimTaken, DriverInv, CallsInOrder, Silent, At, Ops, Replies
    <2>7. OwnersAreCovered(d)'
      <3> SUFFICES ASSUME EffectiveLeft(view) > Lead
                   PROVE  /\ EffectiveLeft(view) > 0
                          /\ Promised(d, view - offset[d])
        BY <2>2, <2>4, <1>0 DEF OwnersAreCovered, EffectiveLeft, Promised
      <3>1. EffectiveLeft(view) > 0 /\ answer.left > 0 /\ view - offset[d] = answer.left
        BY <2>1 DEF EffectiveLeft
      <3>2. Promised(d, answer.left)
        BY <1>0, <3>1 DEF DriverInv, AnswersAreTrue
      <3> QED
        BY <1>0, <3>1, <3>2 DEF Promised
    <2> QED
      BY <2>4, <2>5, <2>6, <2>7, DriverKeeps
  <1>3. CASE ClaimTakenLate(d)
    BY <1>0, <1>3, ReleasesKeeps DEF ClaimTakenLate
  <1>4. CASE ClaimWaits(d)
    <2>1. /\ Moves(d) /\ driver'[d].at = "waiting" /\ driver'[d].guard = driver[d].guard
      BY <1>0, <1>4, PeriodsTyped DEF ClaimWaits, Moves, LeaseTypeOK, DriverRecords
    <2>2. driver[d].guard = "off"
      BY <1>0, <1>4 DEF ClaimWaits, DriverInv, CallsInOrder
    <2>3. /\ Redials(d)
          /\ \A op \in Ops : call'[d][op] =
               IF op = "claim" /\ call[d][op].step \in Replies THEN NoCall ELSE call[d][op]
      BY <1>0, <1>4, HangsUpEffect DEF ClaimWaits
    <2>4. CallsInOrder(d)'
      BY <1>0, <1>4, <2>1, <2>2, <2>3, NoCallTyped
      DEF ClaimWaits, DriverInv, CallsInOrder, Silent, At, Ops, Replies
    <2>5. OwnersAreCovered(d)'
      BY <2>1, <2>2 DEF OwnersAreCovered
    <2> QED
      BY <2>1, <2>3, <2>4, <2>5, DriverKeeps
  <1>5. CASE RetriesClaim(d)
    <2>1. CASE Ends(d)
      BY <1>0, <2>1, EndsKeeps
    <2>2. CASE /\ driver' = [driver EXCEPT ![d].at = "claiming"]
               /\ Calls(d, "claim", None)
      <3>1. /\ Moves(d) /\ driver'[d].at = "claiming" /\ driver'[d].guard = driver[d].guard
        BY <1>0, <2>2 DEF Moves, LeaseTypeOK, DriverRecords
      <3>2. driver[d].guard = "off"
        BY <1>0, <1>5 DEF RetriesClaim, DriverInv, CallsInOrder
      <3>3. /\ Redials(d)
            /\ \A o \in Ops \ {"claim"} : call'[d][o] = call[d][o]
        BY <1>0, <2>2, CallsEffect
      <3>4. CallsInOrder(d)'
        BY <1>0, <1>5, <3>1, <3>2, <3>3
        DEF RetriesClaim, DriverInv, CallsInOrder, Silent, At, Ops
      <3>5. OwnersAreCovered(d)'
        BY <3>1, <3>2 DEF OwnersAreCovered
      <3> QED
        BY <3>1, <3>3, <3>4, <3>5, DriverKeeps
    <2> QED
      BY <1>5, <2>1, <2>2 DEF RetriesClaim
  <1>6. CASE ClaimEnds(d)
    BY <1>0, <1>6, EndsKeeps DEF ClaimEnds
  <1> QED
    BY <1>1, <1>2, <1>3, <1>4, <1>5, <1>6 DEF ClaimStep

\* A step of the guard or of the work stays within a held claim.
LEMMA HoldingKeeps ==
  ASSUME LeaseInv, NEW d \in Drivers, Redials(d), Moves(d),
         driver[d].at = "holding", driver'[d].at = "holding",
         call'[d]["claim"] = call[d]["claim"], call'[d]["release"] = call[d]["release"],
         driver'[d].guard = "timer" => call'[d]["renew"].step = "none",
         OwnersAreCovered(d)'
  PROVE  LeaseInv'
  <1>1. CallsInOrder(d)'
    BY DEF LeaseInv, DriverInv, CallsInOrder, Silent, At, Ops
  <1> QED
    BY <1>1, DriverKeeps

LEMMA AbortsKeeps ==
  ASSUME LeaseInv, NEW d \in Drivers, Aborts(d), driver[d].at = "holding"
  PROVE  LeaseInv'
  <1>1. Moves(d) /\ driver'[d].at = "holding" /\ driver'[d].guard = "off"
    <2>1. LeaseTypeOK /\ driver[d] \in DriverRecords
      BY DEF LeaseInv, LeaseTypeOK
    <2> QED
      BY <2>1 DEF Aborts, Moves, LeaseTypeOK, DriverRecords
  <1>2. /\ Redials(d)
        /\ \A op \in Ops : call'[d][op] =
             IF call[d][op].step \in Replies THEN NoCall ELSE call[d][op]
    BY HangsUpEffect DEF Aborts, LeaseInv
  <1>3. /\ call'[d]["claim"] = call[d]["claim"]
        /\ call'[d]["release"] = call[d]["release"]
    BY <1>2 DEF LeaseInv, DriverInv, CallsInOrder, Silent, At, Ops, Replies
  <1> QED
    BY <1>1, <1>2, <1>3, HoldingKeeps DEF OwnersAreCovered

LEMMA GuardKeeps ==
  ASSUME LeaseInv, NEW d \in Drivers,
         GuardStep(d) \/ RenewalEnds(d) \/ ClientAborts(d)
  PROVE  LeaseInv'
  <1> USE LeaseAssumption, DriverAssumption
  <1>0. /\ LeaseTypeOK /\ DriverInv(d) /\ {"claim", "renew", "release"} \subseteq Ops
        /\ driver[d] \in DriverRecords
        /\ driver[d].at = "holding"
    BY DEF LeaseInv, LeaseTypeOK, Ops, GuardStep, RenewsLease, RenewalTooLate, LeaseRenewed,
           RenewalEnds, ClientAborts, RenewalDue, Guarding
  <1>1. CASE RenewsLease(d)
    <2>1. /\ Moves(d) /\ driver'[d].at = "holding" /\ driver'[d].guard = "renewing"
          /\ driver'[d].ready = driver[d].ready /\ driver'[d].view = driver[d].view
      BY <1>0, <1>1 DEF RenewsLease, Moves, LeaseTypeOK, DriverRecords
    <2>2. Redials(d) /\ \A o \in Ops \ {"renew"} : call'[d][o] = call[d][o]
      BY <1>0, <1>1, CallsEffect DEF RenewsLease
    <2>3. OwnersAreCovered(d)'
      BY <1>0, <1>1, <2>1 DEF RenewsLease, RenewalDue, Guarding, DriverInv, OwnersAreCovered,
           Moves, Promised, EffectiveLeft
    <2> QED
      BY <1>0, <2>1, <2>2, <2>3, HoldingKeeps
  <1>2. CASE LeaseRenewed(d)
    <2> DEFINE left == call[d]["renew"].left
               view == left + offset[d]
    <2>1. /\ offset[d] \in -Skew .. Skew /\ left \in 0 .. Lease
          /\ view \in -Skew .. Lease + Skew
      BY <1>0 DEF LeaseTypeOK, ClaimTypeOK, CallRecords
    <2>2. driver' = [driver EXCEPT ![d].view = view, ![d].guard = "timer", ![d].ready = TRUE]
      BY <1>2 DEF LeaseRenewed
    <2>3. EffectiveLeft(view) > Buffer
      BY <1>2 DEF LeaseRenewed
    <2> HIDE DEF view
    <2>4. /\ Moves(d) /\ driver'[d].at = "holding" /\ driver'[d].guard = "timer"
          /\ driver'[d].view = view
      <3> view \in -Skew .. Lease + Skew
        BY <2>1 DEF view
      <3> DEFINE s == [driver[d] EXCEPT !.view = view, !.guard = "timer", !.ready = TRUE]
      <3>1. /\ s \in DriverRecords
            /\ s.at = driver[d].at /\ s.guard = "timer" /\ s.view = view
        BY <1>0 DEF DriverRecords
      <3>2. driver' = [driver EXCEPT ![d] = s]
        BY <1>0, <2>2 DEF LeaseTypeOK
      <3> HIDE DEF s
      <3> QED
        BY <1>0, <1>2, <3>1, <3>2, ZenonT(40) DEF LeaseRenewed, Moves, LeaseTypeOK
    <2>5. /\ Redials(d)
          /\ \A op \in Ops : call'[d][op] =
               IF op = "renew" /\ call[d][op].step \in Replies THEN NoCall ELSE call[d][op]
      BY <1>0, <1>2, HangsUpEffect DEF LeaseRenewed
    <2>6. call'[d]["renew"].step = "none"
      BY <1>0, <1>2, <2>5, NoCallTyped DEF LeaseRenewed, At, Replies
    <2>7. OwnersAreCovered(d)'
      <3>1. EffectiveLeft(view) > 0 /\ left > 0 /\ view - offset[d] = left
        BY <2>1, <2>3 DEF EffectiveLeft, view
      <3>2. Promised(d, left)
        BY <1>0, <3>1 DEF DriverInv, AnswersAreTrue
      <3> QED
        BY <2>4, <3>1, <3>2 DEF OwnersAreCovered, Moves, Promised, EffectiveLeft
    <2> QED
      BY <1>0, <2>4, <2>5, <2>6, <2>7, HoldingKeeps
  <1>3. CASE RenewalTooLate(d) \/ RenewalEnds(d) \/ ClientAborts(d)
    BY <1>0, <1>3, AbortsKeeps DEF RenewalTooLate, RenewalEnds, ClientAborts
  <1> QED
    BY <1>1, <1>2, <1>3 DEF GuardStep

\* The work's own steps leave the guard and what it has seen alone.
LEMMA WorkingKeeps ==
  ASSUME LeaseInv, NEW d \in Drivers, Redials(d), Moves(d),
         driver[d].at = "holding",
         driver'[d].at = driver[d].at, driver'[d].guard = driver[d].guard,
         driver'[d].ready = driver[d].ready, driver'[d].view = driver[d].view,
         \A op \in Ops \ Commits : call'[d][op] = call[d][op]
  PROVE  LeaseInv'
  <1>1. /\ OwnersAreCovered(d)
        /\ driver[d].guard = "timer" => call[d]["renew"].step = "none"
    BY DEF LeaseInv, DriverInv, CallsInOrder, Silent, At
  <1>2. OwnersAreCovered(d)'
    BY <1>1 DEF OwnersAreCovered, Moves, Promised, EffectiveLeft
  <1> QED
    BY <1>1, <1>2, HoldingKeeps DEF Ops, Commits

LEMMA WorkKeeps ==
  ASSUME LeaseInv, NEW d \in Drivers, WorkStep(d)
  PROVE  LeaseInv'
  <1> USE DEF Working
  <1>0. /\ LeaseTypeOK /\ Commits \subseteq Ops /\ "ruling" \in Ops /\ "witness" \in Ops
        /\ \A op \in Ops : call[d][op] \in CallRecords
    BY DEF LeaseInv, LeaseTypeOK, ClaimTypeOK, Ops, Commits
  <1>1. CASE StartsWork(d)
    <2>1. Redials(d) /\ \A op \in Ops : call'[d][op] = call[d][op]
      BY <1>0, <1>1 DEF StartsWork, claimVars, Redials, LeaseTypeOK, ClaimTypeOK
    <2>2. /\ Moves(d) /\ driver'[d].at = driver[d].at
          /\ driver'[d].guard = driver[d].guard
          /\ driver'[d].ready = driver[d].ready /\ driver'[d].view = driver[d].view
      <3>1. driver[d] \in DriverRecords
        BY <1>0 DEF LeaseTypeOK
      <3>2. PICK work \in {"ruling", "witness"} : driver' = [driver EXCEPT ![d].work = work]
        BY <1>1 DEF StartsWork
      <3> DEFINE s == [driver[d] EXCEPT !.work = work]
      <3>3. /\ s \in DriverRecords
            /\ s.at = driver[d].at /\ s.guard = driver[d].guard
            /\ s.ready = driver[d].ready /\ s.view = driver[d].view
        BY <3>1 DEF DriverRecords
      <3>4. driver' = [driver EXCEPT ![d] = s]
        BY <1>0, <3>2 DEF LeaseTypeOK
      <3> HIDE DEF s
      <3> QED
        BY <1>0, <1>1, <3>3, <3>4 DEF StartsWork, claimVars, Moves, LeaseTypeOK
    <2> QED
      BY <1>1, <2>1, <2>2, WorkingKeeps DEF StartsWork
  <1>2. ASSUME NEW ruling \in Rulings, JudgeRules(d, ruling) PROVE LeaseInv'
    <2>1. Redials(d) /\ \A op \in Ops \ {"ruling"} : call'[d][op] = call[d][op]
      BY <1>0, <1>2, CallsEffect DEF JudgeRules
    <2>2. /\ Moves(d) /\ driver'[d].at = driver[d].at
          /\ driver'[d].guard = driver[d].guard
          /\ driver'[d].ready = driver[d].ready /\ driver'[d].view = driver[d].view
      BY <1>0, <1>2 DEF JudgeRules, Moves, LeaseTypeOK, DriverRecords
    <2> QED
      BY <1>2, <2>1, <2>2, WorkingKeeps DEF JudgeRules, Commits
  <1>3. CASE WitnessAnswers(d)
    <2>1. Redials(d) /\ \A op \in Ops \ {"witness"} : call'[d][op] = call[d][op]
      BY <1>0, <1>3, CallsEffect DEF WitnessAnswers
    <2>2. /\ Moves(d) /\ driver'[d].at = driver[d].at
          /\ driver'[d].guard = driver[d].guard
          /\ driver'[d].ready = driver[d].ready /\ driver'[d].view = driver[d].view
      BY <1>0, <1>3 DEF WitnessAnswers, Moves, LeaseTypeOK, DriverRecords
    <2> QED
      BY <1>3, <2>1, <2>2, WorkingKeeps DEF WitnessAnswers, Commits
  <1>4. CASE RulingCommitted(d) \/ WorkEnds(d)
    <2>1. Redials(d) /\ \A op \in Ops \ Commits : call'[d][op] = call[d][op]
      BY <1>0, <1>4, HangsUpEffect DEF RulingCommitted, WorkEnds, Commits
    <2>2. /\ Moves(d) /\ driver'[d].at = driver[d].at
          /\ driver'[d].guard = driver[d].guard
          /\ driver'[d].ready = driver[d].ready /\ driver'[d].view = driver[d].view
      BY <1>0, <1>4 DEF RulingCommitted, WorkEnds, Moves, LeaseTypeOK, DriverRecords
    <2> QED
      BY <1>4, <2>1, <2>2, WorkingKeeps DEF RulingCommitted, WorkEnds
  <1>5. CASE Resumes(d)
    BY <1>5, ReleasesKeeps DEF Resumes
  <1> QED
    BY <1>1, <1>2, <1>3, <1>4, <1>5 DEF WorkStep

-----------------------------------------------------------------------------
(***************************************************************************)
(* Time.  A promise and what is left of the lease run down together, and  *)
(* no owner's timer is ever overtaken.                                    *)
(***************************************************************************)
LEMMA TickCalls ==
  ASSUME LeaseTypeOK, Tick, NEW d \in Drivers, NEW op \in Ops
  PROVE  /\ call'[d][op] \in CallRecords
         /\ call'[d][op].step = call[d][op].step
         /\ call'[d][op].body = call[d][op].body
         /\ call'[d][op].age =
              IF Stamped(d, op) THEN call[d][op].age + 1 ELSE call[d][op].age
         /\ call'[d][op].left =
              IF call[d][op].left > 0 THEN call[d][op].left - 1 ELSE 0
  <1> DEFINE age  == IF Stamped(d, op) THEN call[d][op].age + 1 ELSE call[d][op].age
             left == IF call[d][op].left > 0 THEN call[d][op].left - 1 ELSE 0
             r    == [call[d][op] EXCEPT !.age = age, !.left = left]
  <1>1. call[d][op] \in CallRecords
    BY DEF LeaseTypeOK, ClaimTypeOK
  <1>2. age \in 0 .. MaxAge /\ left \in 0 .. Lease
    <2>1. Stamped(d, op) => call[d][op].age < MaxAge
      BY DEF Tick, ClaimAges, MayAge
    <2>2. call[d][op].age \in 0 .. MaxAge /\ call[d][op].left \in 0 .. Lease
      BY <1>1 DEF CallRecords
    <2> QED
      BY <2>1, <2>2, LeaseAssumption
  <1>3. call'[d][op] = r
    BY DEF Tick, ClaimAges
  <1> HIDE DEF age, left
  <1>4. /\ r \in CallRecords
        /\ r.step = call[d][op].step /\ r.body = call[d][op].body
        /\ r.age = age /\ r.left = left
    BY <1>1, <1>2 DEF CallRecords
  <1> QED
    BY <1>3, <1>4 DEF age, left

LEMMA TickDriver ==
  ASSUME LeaseInv, Tick, NEW d \in Drivers
  PROVE  /\ driver'[d] \in DriverRecords
         /\ driver'[d].at = driver[d].at
         /\ driver'[d].guard = driver[d].guard
         /\ driver'[d].ready = driver[d].ready
         /\ driver[d].guard # "off" =>
              /\ driver'[d].view = driver[d].view - 1
              /\ EffectiveLeft(driver'[d].view) > 0 \/ ~driver[d].ready
  <1> DEFINE budget == Less(driver[d].budget)
             retry  == Less(driver[d].retry)
             view   == IF driver[d].guard = "off" THEN 0 ELSE driver[d].view - 1
             r      == [driver[d] EXCEPT !.budget = budget, !.retry = retry, !.view = view]
  <1>1. driver[d] \in DriverRecords /\ DriverInv(d)
    BY DEF LeaseInv, LeaseTypeOK
  <1>2. driver[d].guard # "off" => EffectiveLeft(driver[d].view) > 1
    <2>1. ~RenewalDue(d) /\ ~RenewalOverdue(d)
      BY DEF Tick, TimerDue
    <2>2. driver[d].guard # "off" => Guarding(d, "timer") \/ Guarding(d, "renewing")
      BY <1>1 DEF DriverInv, CallsInOrder, DriverRecords, Guarding
    <2> QED
      BY <1>1, <2>1, <2>2, PeriodsTyped
      DEF RenewalDue, RenewalOverdue, DriverRecords, EffectiveLeft
  <1>3. /\ budget \in 0 .. ClaimBudget /\ retry \in 0 .. RetryAfter
        /\ view \in -Skew .. Lease + Skew
    BY <1>1, <1>2, LeaseAssumption, DriverAssumption DEF DriverRecords, Less, EffectiveLeft
  <1>4. driver'[d] = r
    BY DEF Tick
  <1> HIDE DEF budget, retry, view
  <1>5. /\ r \in DriverRecords
        /\ r.at = driver[d].at /\ r.guard = driver[d].guard
        /\ r.ready = driver[d].ready /\ r.view = view
    BY <1>1, <1>3 DEF DriverRecords
  <1> QED
    BY <1>1, <1>2, <1>4, <1>5, DriverAssumption DEF view, EffectiveLeft, DriverRecords

LEMMA TickClaim ==
  ASSUME LeaseTypeOK, Tick
  PROVE  /\ claim' \in [status: {"none", "active", "released"},
                        holder: Drivers \cup {None}, left: -MaxAge .. Lease]
         /\ claim'.status = claim.status
         /\ claim'.holder = claim.holder
         /\ claim'.left = IF claim.status = "active" /\ claim.left > -MaxAge
                            THEN claim.left - 1 ELSE claim.left
  <1> DEFINE left == IF claim.status = "active" /\ claim.left > -MaxAge
                       THEN claim.left - 1 ELSE claim.left
  <1>1. claim' = [claim EXCEPT !.left = left]
    BY DEF Tick, ClaimAges
  <1>2. left \in -MaxAge .. Lease
    BY LeaseAssumption DEF LeaseTypeOK, ClaimTypeOK
  <1> HIDE DEF left
  <1>3. /\ claim' \in [status: {"none", "active", "released"},
                       holder: Drivers \cup {None}, left: -MaxAge .. Lease]
        /\ claim'.status = claim.status /\ claim'.holder = claim.holder
        /\ claim'.left = left
    BY <1>1, <1>2 DEF LeaseTypeOK, ClaimTypeOK
  <1> QED
    BY <1>3 DEF left

LEMMA TickPromise ==
  ASSUME LeaseTypeOK, Tick, NEW d \in Drivers, NEW n \in Int, n > 0, Promised(d, n)
  PROVE  /\ claim'.status = "active" /\ claim'.holder = d
         /\ claim'.left >= n - 1
  BY TickClaim, LeaseAssumption DEF LeaseTypeOK, ClaimTypeOK, Promised

LEMMA TickKeeps ==
  ASSUME LeaseInv, Tick
  PROVE  LeaseInv'
  <1>1. LeaseTypeOK
    BY DEF LeaseInv
  <1>2. claim' \in [status: {"none", "active", "released"},
                    holder: Drivers \cup {None}, left: -MaxAge .. Lease]
        /\ claim'.status = claim.status /\ claim'.holder = claim.holder
    BY <1>1, TickClaim
  <1>3. call' \in [Drivers -> [Ops -> CallRecords]]
    <2>1. \A d \in Drivers : call'[d] \in [Ops -> CallRecords]
      BY <1>1, TickCalls DEF Tick, ClaimAges
    <2> QED
      BY <2>1 DEF Tick, ClaimAges
  <1>4. driver' \in [Drivers -> DriverRecords]
    BY TickDriver DEF Tick
  <1>5. LeaseTypeOK'
    BY <1>1, <1>2, <1>3, <1>4 DEF LeaseTypeOK, ClaimTypeOK, Tick, ClaimAges
  <1>6. ASSUME NEW d \in Drivers PROVE DriverInv(d)'
    <2>1. DriverInv(d)
      BY DEF LeaseInv
    <2>2. BodiesTyped(d)'
      BY <1>1, <2>1, TickCalls DEF DriverInv, BodiesTyped, Ops
    <2>3. CallsInOrder(d)'
      <3>1. \A op \in Ops : call'[d][op].step = call[d][op].step
        BY <1>1, TickCalls
      <3>2. driver'[d].at = driver[d].at /\ driver'[d].guard = driver[d].guard
        BY TickDriver
      <3>3. awaited' = awaited
        BY DEF Tick, ClaimAges
      <3> QED
        BY <2>1, <3>1, <3>2, <3>3 DEF DriverInv, CallsInOrder, Silent, At, Ops
    <2>4. AnswersAreTrue(d)'
      <3> SUFFICES ASSUME NEW op \in Ops, call'[d][op].left > 0
                   PROVE  /\ op \in {"claim", "renew"}
                          /\ call'[d][op].step \in Replies
                          /\ claim'.status = "active" /\ claim'.holder = d
                          /\ claim'.left >= call'[d][op].left
        BY DEF AnswersAreTrue, Promised
      <3>1. call[d][op].left \in Int
        BY <1>1 DEF LeaseTypeOK, ClaimTypeOK, CallRecords
      <3>2. /\ call[d][op].left > 0 /\ call'[d][op].left = call[d][op].left - 1
            /\ call'[d][op].step = call[d][op].step
        BY <1>1, <3>1, TickCalls
      <3>3. /\ op \in {"claim", "renew"}
            /\ call[d][op].step \in Replies
            /\ Promised(d, call[d][op].left)
        BY <2>1, <3>2 DEF DriverInv, AnswersAreTrue
      <3> QED
        BY <1>1, <3>1, <3>2, <3>3, TickPromise DEF Promised
    <2>5. RenewalsAreLater(d)'
      <3> SUFFICES ASSUME At(d, "renew", "stamped"), Promised(d, claim.left)'
                   PROVE  claim'.left <= Lease - call'[d]["renew"].age
        BY <1>1, TickCalls DEF RenewalsAreLater, At, Ops
      <3>1. /\ call'[d]["renew"].age = call[d]["renew"].age + 1
            /\ call[d]["renew"].age \in Int /\ call[d]["renew"].age < MaxAge
            /\ call'[d]["renew"].age \in Int
        <4>1. Stamped(d, "renew") /\ "renew" \in Ops
          BY DEF Stamped, At, Ops
        <4>2. call[d]["renew"].age < MaxAge
          BY <4>1 DEF Tick, ClaimAges, MayAge
        <4>3. call[d]["renew"].age \in Int
          BY <1>1, <4>1 DEF LeaseTypeOK, ClaimTypeOK, CallRecords
        <4> QED
          BY <1>1, <4>1, <4>2, <4>3, TickCalls
      <3>2. claim.status = "active" /\ claim.left \in Int
            /\ claim.left <= Lease - call[d]["renew"].age
        BY <1>1, <1>2, <2>1 DEF DriverInv, RenewalsAreLater, Promised, LeaseTypeOK,
                                ClaimTypeOK
      <3>3. claim'.left = IF claim.left > -MaxAge THEN claim.left - 1 ELSE claim.left
        BY <1>1, <3>2, TickClaim
      <3> QED
        BY <3>1, <3>2, <3>3, LeaseAssumption
    <2>6. OwnersAreCovered(d)'
      <3> SUFFICES ASSUME driver[d].guard # "off", driver[d].ready
                   PROVE  /\ EffectiveLeft(driver'[d].view) > 0
                          /\ claim'.status = "active" /\ claim'.holder = d
                          /\ claim'.left >= driver'[d].view - offset'[d]
        BY TickDriver DEF OwnersAreCovered, EffectiveLeft, Promised
      <3> DEFINE n == driver[d].view - offset[d]
      <3>1. /\ driver[d].view \in Int /\ offset[d] \in -Skew .. Skew /\ Skew \in Nat
            /\ offset' = offset
        <4>1. driver[d] \in DriverRecords
          BY <1>1 DEF LeaseTypeOK
        <4>2. driver[d].view \in Int
          BY <4>1 DEF DriverRecords
        <4>3. offset[d] \in -Skew .. Skew /\ Skew \in Nat
          BY <1>1, PeriodsTyped DEF LeaseTypeOK
        <4> QED
          BY <4>2, <4>3 DEF Tick
      <3>2. n \in Int /\ n > 0 /\ Promised(d, n)
        BY <2>1, <3>1 DEF DriverInv, OwnersAreCovered, EffectiveLeft
      <3>3. /\ claim'.status = "active" /\ claim'.holder = d
            /\ claim'.left >= n - 1
        BY <1>1, <3>2, TickPromise
      <3>4. driver'[d].view - offset'[d] = n - 1
        BY <3>1, TickDriver
      <3> QED
        BY <3>3, <3>4, TickDriver
    <2> QED
      BY <2>2, <2>3, <2>4, <2>5, <2>6 DEF DriverInv
  <1> QED
    BY <1>5, <1>6 DEF LeaseInv

-----------------------------------------------------------------------------
LEMMA NextLeaseInv == LeaseInv /\ [Next]_vars => LeaseInv'
  <1> SUFFICES ASSUME LeaseInv, [Next]_vars PROVE LeaseInv'
    OBVIOUS
  <1>1. CASE Tick
    BY <1>1, TickKeeps
  <1>2. ASSUME NEW d \in Drivers, ServerStep(d) \/ CallDies(d) PROVE LeaseInv'
    BY <1>2, ServerStepEffect, ServerKeeps
  <1>3. ASSUME NEW d \in Drivers, Crashes(d) PROVE LeaseInv'
    BY <1>3, EndsKeeps DEF Crashes
  <1>4. CASE UNCHANGED vars
    BY <1>4 DEF vars, claimVars, LeaseInv, LeaseTypeOK, ClaimTypeOK, DriverInv, BodiesTyped,
         CallsInOrder, AnswersAreTrue, RenewalsAreLater, OwnersAreCovered, Silent, At,
         Promised, EffectiveLeft
  <1> QED
    BY <1>1, <1>2, <1>3, <1>4, ClaimingKeeps, GuardKeeps, WorkKeeps DEF Next

LEMMA LeaseInvariant == Spec => []LeaseInv
  BY InitLeaseInv, NextLeaseInv, PTL DEF Spec

LEMMA InvOwnerHolds == LeaseInv => OwnerHoldsLease
  <1> SUFFICES ASSUME LeaseInv, NEW d \in Drivers, Owns(d)
               PROVE  claim.status = "active" /\ claim.holder = d /\ claim.left > 0
    BY DEF OwnerHoldsLease
  <1>1. /\ driver[d].view \in Int /\ offset[d] \in -Skew .. Skew /\ Skew \in Nat
        /\ claim.left \in Int
    BY DriverAssumption DEF LeaseInv, LeaseTypeOK, ClaimTypeOK, DriverRecords
  <1>2. /\ EffectiveLeft(driver[d].view) > 0
        /\ Promised(d, driver[d].view - offset[d])
    BY DEF LeaseInv, DriverInv, OwnersAreCovered, Owns
  <1> QED
    BY <1>1, <1>2 DEF EffectiveLeft, Promised

(* Whoever may call a model holds the lease by the database's clock, for   *)
(* every skew of the drivers' clocks and every age of the server's clock   *)
(* readings that the assumptions allow: startLeaseGuard renews or aborts   *)
(* before the lease it was promised is over.                               *)
THEOREM OwnersHoldTheLease == Spec => []OwnerHoldsLease
  BY LeaseInvariant, InvOwnerHolds, PTL

\* Only an append changes the target, and only for the holder of the lease.
LEMMA OnlyHolderAppends ==
  ASSUME LeaseInv, [Next]_vars, target' # target
  PROVE  \E d \in Drivers, op \in Commits :
           /\ At(d, op, "rechecking")
           /\ claim.holder = d
           /\ call'[d][op] # call[d][op]
  <1>1. PICK d \in Drivers : ServerStep(d)
    BY DEF Next, vars, claimVars, Tick, ClaimAges, RequestArrives, ClaimStep, ClaimTaken,
       ClaimTakenLate, ClaimWaits, RetriesClaim, ClaimEnds, GuardStep, RenewsLease,
       RenewalTooLate, LeaseRenewed, RenewalEnds, ClientAborts, Aborts, WorkStep, StartsWork,
       JudgeRules, WitnessAnswers, RulingCommitted, WorkEnds, Resumes, Crashes, CallDies, Dies
  <1>2. PICK op \in Ops : Append(d, op)
    BY <1>1 DEF ServerStep, Serves, ReadTarget, Claim, Renew, Release, Stamp, Authorize
  <1>3. op \in Commits /\ At(d, op, "rechecking") /\ claim.holder = d
    BY <1>2 DEF Append, MayAppend, Held
  <1>4. PICK r \in CallRecords : Replied(d, op, 0, r)
    BY <1>2, RecoversReply DEF Append, LeaseInv
  <1>5. call'[d][op].step # "rechecking"
    BY <1>4 DEF Replied, Put, Replies
  <1> QED
    BY <1>3, <1>5 DEF At

(* What was ruled or answered changes under an owner only by a commit of   *)
(* the owner's own that rechecks its lease, however late another driver's  *)
(* commit lands.                                                           *)
THEOREM OwnersAreUndisturbed == Spec => OwnerIsUndisturbed
  <1> DEFINE Undisturbed ==
        \A d \in Drivers : Owns(d) /\ target' # target =>
          \E op \in Commits : At(d, op, "rechecking") /\ call'[d][op] # call[d][op]
  <1>1. LeaseInv /\ [Next]_vars => [Undisturbed]_vars
    <2> SUFFICES ASSUME LeaseInv, [Next]_vars, NEW d \in Drivers, Owns(d), target' # target
                 PROVE  \E op \in Commits : At(d, op, "rechecking") /\ call'[d][op] # call[d][op]
      OBVIOUS
    <2>1. PICK e \in Drivers, op \in Commits :
            /\ At(e, op, "rechecking")
            /\ claim.holder = e
            /\ call'[e][op] # call[e][op]
      BY OnlyHolderAppends
    <2>2. claim.holder = d
      BY DEF LeaseInv, DriverInv, OwnersAreCovered, Owns, Promised
    <2> QED
      BY <2>1, <2>2
  <1> QED
    BY <1>1, LeaseInvariant, PTL DEF Spec, OwnerIsUndisturbed
=============================================================================
