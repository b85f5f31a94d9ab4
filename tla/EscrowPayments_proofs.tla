----------------------- MODULE EscrowPayments_proofs -----------------------
(***************************************************************************)
(* Proofs about EscrowPayments, for any number of escrows, matches,        *)
(* goroutines and keys, any amounts and any failures of the provider.      *)
(***************************************************************************)
EXTENDS EscrowPayments, TLAPS

(* The commission is a part of the amount: TravelerAmount never is negative.  *)
LEMMA CommissionBounded ==
    ASSUME NEW a \in Nat
    PROVE Commission(a) \in Nat /\ Commission(a) <= a
<1>1. CommissionPercent \in 0 .. 100
  BY AmountsAssumption
<1>2. a * CommissionPercent \in Nat
  BY <1>1
<1>3. a * CommissionPercent <= a * 100
  <2>1. a * (100 - CommissionPercent) >= 0
    BY <1>1
  <2> QED
    BY <1>1, <2>1
<1>4. \A x \in Nat : x <= a * 100 => x \div 100 \in Nat /\ x \div 100 <= a
  OBVIOUS
<1> QED
  BY <1>2, <1>3, <1>4 DEF Commission

(* What the webhook can hear of is a provider object of an escrow, or an       *)
(* account event.                                                              *)
LEMMA SendableEvents ==
    ASSUME TypeOK, NEW ev \in Sendable
    PROVE /\ ev \in Events
          /\ ev.escrow # NoEscrow =>
                \E o \in ledger : /\ ev.escrow = o.escrow
                                  /\ ev.ref.kind \in {"pi", "tr"} =>
                                        o.kind = ev.ref.kind /\ o.key = ev.ref.key
<1>1. CASE \E t \in EventTypes : ev = AccountEvent(t)
  BY <1>1, NullsAssumption DEF AccountEvent, Events, Refs, NoRef
<1>2. CASE \E o \in ledger : ev \in EventsAbout(o)
  <2>1. PICK o \in ledger : ev \in EventsAbout(o)
    BY <1>2
  <2>2. PICK t \in EventTypes, k \in EventKinds :
            /\ o.kind = IF k = "ch" THEN "hold" ELSE k
            /\ ev = [type |-> t, escrow |-> o.escrow, ref |-> [kind |-> k, key |-> o.key]]
    BY <2>1 DEF EventsAbout
  <2>3. o \in Objects /\ k \in {"pi", "ch", "tr", "re"}
    BY AnswersAssumption DEF TypeOK
  <2>4. ev.escrow = o.escrow /\ o.escrow \in Escrows /\ ev.ref.kind = k /\ ev.ref.key = o.key
    BY <2>2, <2>3 DEF Objects
  <2>5. ev \in Events
    BY <2>2, <2>3 DEF Events, Refs, Objects
  <2> QED
    BY <2>2, <2>4, <2>5, NullsAssumption
<1>3. CASE ev \in ObjectEvents
  <2>1. PICK S \in {EventsAbout(o) : o \in ledger} : ev \in S
    BY <1>3 DEF ObjectEvents
  <2> QED
    BY <1>2, <2>1
<1>4. CASE ev \in AccountEvents
  BY <1>1, <1>4 DEF AccountEvents
<1> QED
  BY <1>3, <1>4 DEF Sendable

-----------------------------------------------------------------------------
(* Type correctness *)

USE DEF market

LEMMA InitType == Init => TypeOK
<1> SUFFICES ASSUME Init PROVE TypeOK
  OBVIOUS
<1>1. NoRef \in Refs
  BY DEF Refs, NoRef
<1>2. NoRow \in Rows
  BY <1>1 DEF Rows, NoRow, Statuses, PayoutStatuses
<1>3. Idle \in WorkerStates
  BY <1>1 DEF WorkerStates, Idle, PCs, PayoutStatuses
<1> QED
  BY <1>2, <1>3 DEF Init, TypeOK

(* The ways a handler changes its own state or a status keep their types.     *)
LEMMA WorkerTypes ==
    ASSUME workers \in [Workers -> WorkerStates], NEW w \in Workers
    PROVE /\ Finish(w) => workers' \in [Workers -> WorkerStates]
          /\ \A pc \in PCs : Goto(w, pc) => workers' \in [Workers -> WorkerStates]
          /\ \A ref \in Refs, payout \in PayoutStatuses :
                Record(w, ref, payout) => workers' \in [Workers -> WorkerStates]
          /\ \A s \in WorkerStates : Begin(w, s) => workers' \in [Workers -> WorkerStates]
<1>1. Idle \in WorkerStates
  BY DEF Idle, WorkerStates, PCs, PayoutStatuses, NoRef, Refs
<1>2. Finish(w) => workers' \in [Workers -> WorkerStates]
  BY <1>1 DEF Finish
<1>3. ASSUME NEW pc \in PCs, Goto(w, pc) PROVE workers' \in [Workers -> WorkerStates]
  BY <1>3 DEF Goto, WorkerStates
<1>4. ASSUME NEW ref \in Refs, NEW payout \in PayoutStatuses, Record(w, ref, payout)
      PROVE workers' \in [Workers -> WorkerStates]
  BY <1>4 DEF Record, WorkerStates, PCs
<1>5. ASSUME NEW s \in WorkerStates, Begin(w, s) PROVE workers' \in [Workers -> WorkerStates]
  BY <1>5 DEF Begin
<1> QED
  BY <1>2, <1>3, <1>4, <1>5

LEMMA TaskType ==
    ASSUME NEW pc \in PCs, NEW e \in Escrows \cup {NoEscrow}, NEW k \in Keys \cup {NoKey},
           NEW r \in Refs, NEW p \in PayoutStatuses
    PROVE /\ Task(pc, e, k, r) \in WorkerStates
          /\ [Task(pc, e, k, r) EXCEPT !.payout = p] \in WorkerStates
          /\ \A t \in EventTypes : [Task(pc, e, k, r) EXCEPT !.type = t] \in WorkerStates
<1>1. Task(pc, e, k, r) \in WorkerStates
  BY DEF Task, WorkerStates, PayoutStatuses
<1> QED
  BY <1>1 DEF WorkerStates

LEMMA StatusType ==
    ASSUME escrows \in [Escrows -> Rows], NEW e \in Escrows, NEW status \in Statuses,
           SetStatus(e, status)
    PROVE escrows' \in [Escrows -> Rows]
  BY DEF SetStatus, Rows

LEMMA TypeStep ==
    ASSUME TypeOK, RowsOK, RefsOK, WorkersOK, [Next]_vars
    PROVE TypeOK'
<1> USE DEF TypeOK
<1>1. \A e \in Escrows : TravelerAmount(e) \in Nat /\ escrows[e].amount \in Nat /\ escrows[e].ref \in Refs
  BY DEF RowsOK, Rows, TravelerAmount
<1>2. NoRef \in Refs /\ Idle \in WorkerStates
  BY DEF Refs, NoRef, Idle, WorkerStates, PCs, PayoutStatuses
<1>3. \A w \in Workers : workers[w] \in WorkerStates /\ workers[w].ref \in Refs
  BY DEF WorkerStates
<1>4. \A w \in Workers : workers[w].pc \notin {"idle", "event"} =>
           workers[w].escrow \in Escrows
  BY DEF WorkersOK, WorkerOK
<1>5. \A w \in Workers : workers[w].pc \notin {"idle", "event", "record"} =>
           workers[w].key \in Keys
  BY DEF WorkersOK, WorkerOK
<1>6. /\ {"idle", "hold", "fundRow", "packageCheck", "travelerCheck", "releaseRow", "capture",
           "transfer", "refundRow", "refundCall", "event", "record"} = PCs
      /\ {"hold", "payout_queued", "payout_failed", "refunded", "disputed", "webhook"}
            \subseteq PayoutStatuses
      /\ {"funded", "released", "refunded", "disputed"} \subseteq Statuses
  BY DEF PCs, PayoutStatuses, Statuses
<1>7. ASSUME NEW w \in Workers, NEW e \in Escrows, NEW k \in Keys,
             StartFund(w, e, k) \/ StartRelease(w, e, k) \/ StartRefund(w, e, k)
      PROVE TypeOK'
  BY <1>1, <1>2, <1>6, <1>7, TaskType, WorkerTypes DEF StartFund, StartRelease, StartRefund
<1>8. ASSUME NEW w \in Workers, NEW e \in Escrows, DisputeEscrow(w, e)
      PROVE TypeOK'
  BY <1>2, <1>6, <1>8, TaskType, WorkerTypes, StatusType DEF DisputeEscrow
<1>9. ASSUME NEW w \in Workers, NEW ev \in Sendable, StartWebhook(w, ev)
      PROVE TypeOK'
  <2>1. ev.escrow \in Escrows \cup {NoEscrow} /\ ev.ref \in Refs /\ ev.type \in EventTypes
    BY SendableEvents DEF Events
  <2> QED
    BY <1>6, <1>9, <2>1, TaskType, WorkerTypes DEF StartWebhook
<1>10. ASSUME NEW w \in Workers, FundEscrow(w)
      PROVE TypeOK'
  BY <1>3, <1>4, <1>6, <1>10, WorkerTypes, StatusType DEF FundEscrow, At
<1>11. ASSUME NEW w \in Workers, CheckPackage(w) \/ CheckTraveler(w)
      PROVE TypeOK'
  BY <1>6, <1>11, WorkerTypes DEF CheckPackage, CheckTraveler
<1>12. ASSUME NEW w \in Workers, ReleaseEscrow(w)
      PROVE TypeOK'
  BY <1>3, <1>4, <1>6, <1>12, WorkerTypes, StatusType DEF ReleaseEscrow, At
<1>13. ASSUME NEW w \in Workers, RefundEscrow(w)
      PROVE TypeOK'
  BY <1>4, <1>6, <1>13, WorkerTypes, StatusType DEF RefundEscrow, At
<1>14. ASSUME NEW w \in Workers, CreatePaymentEvent(w)
      PROVE TypeOK'
  <2>1. EventOf(w) \in Events
    BY <1>3, <1>14 DEF CreatePaymentEvent, EventOf, At, WorkerStates, Events, WorkersOK, WorkerOK
  <2>2. workers' \in [Workers -> WorkerStates]
    BY <1>3, <1>6, <1>14, WorkerTypes DEF CreatePaymentEvent, EventOf
  <2> QED
    BY <1>14, <2>1, <2>2 DEF CreatePaymentEvent
<1>15. ASSUME NEW w \in Workers, SetEscrowPayout(w)
      PROVE TypeOK'
  <2>1. workers[w].escrow \in Escrows /\ workers[w].ref \in Refs
        /\ workers[w].payout \in PayoutStatuses
    BY <1>3, <1>4, <1>15 DEF SetEscrowPayout, At, WorkerStates
  <2>2. escrows' \in [Escrows -> Rows]
    BY <1>15, <2>1 DEF SetEscrowPayout, Rows
  <2> QED
    BY <1>15, <2>2, WorkerTypes DEF SetEscrowPayout
<1>16. ASSUME NEW w \in Workers, NEW answer \in Answers, CreateEscrowHold(w, answer)
      PROVE TypeOK'
  <2>1. workers[w].escrow \in Escrows /\ workers[w].key \in Keys
    BY <1>4, <1>5, <1>16 DEF CreateEscrowHold, At
  <2>2. [kind |-> "pi", key |-> workers[w].key] \in Refs
    BY <2>1 DEF Refs
  <2>3. Task("fundRow", workers[w].escrow, workers[w].key,
             [kind |-> "pi", key |-> workers[w].key]) \in WorkerStates
    BY <1>6, <2>1, <2>2, TaskType
  <2>4. workers' \in [Workers -> WorkerStates]
    BY <1>2, <1>16, <2>3 DEF CreateEscrowHold
  <2>5. ledger' \subseteq Objects
    BY <1>1, <1>16, <2>1 DEF CreateEscrowHold, MakeIntent, HoldOf, Objects
  <2> QED
    BY <1>16, <2>4, <2>5 DEF CreateEscrowHold
<1>17. ASSUME NEW w \in Workers, NEW answer \in Answers, CapturePayment(w, answer)
      PROVE TypeOK'
  <2>1. workers[w].escrow \in Escrows /\ workers[w].ref.kind = "pi"
    BY <1>4, <1>17 DEF CapturePayment, At, WorkersOK, WorkerOK
  <2>2. workers[w].ref.key \in Keys
    BY <2>1 DEF RefsOK, Known, Of, Objects
  <2>3. ledger' \subseteq Objects
    BY <1>1, <1>17, <2>1, <2>2 DEF CapturePayment, Objects
  <2>4. workers' \in [Workers -> WorkerStates]
    BY <1>3, <1>6, <1>17, WorkerTypes DEF CapturePayment
  <2> QED
    BY <1>17, <2>3, <2>4 DEF CapturePayment
<1>18. ASSUME NEW w \in Workers, NEW answer \in Answers, TransferPayout(w, answer)
      PROVE TypeOK'
  <2>1. workers[w].escrow \in Escrows /\ workers[w].key \in Keys
    BY <1>4, <1>5, <1>18 DEF TransferPayout, At
  <2>2. [kind |-> "tr", key |-> workers[w].key] \in Refs
    BY <2>1 DEF Refs
  <2>3. ledger' \subseteq Objects
    BY <1>1, <1>18, <2>1 DEF TransferPayout, Objects
  <2>4. workers' \in [Workers -> WorkerStates]
    BY <1>3, <1>6, <1>18, <2>2, WorkerTypes DEF TransferPayout
  <2> QED
    BY <1>18, <2>3, <2>4 DEF TransferPayout
<1>19. ASSUME NEW w \in Workers, NEW answer \in Answers, RefundPayment(w, answer)
      PROVE TypeOK'
  <2>1. workers[w].escrow \in Escrows /\ workers[w].key \in Keys
    BY <1>4, <1>5, <1>19 DEF RefundPayment, At
  <2>2. [kind |-> "re", key |-> workers[w].key] \in Refs
    BY <2>1 DEF Refs
  <2>3. ledger' \subseteq Objects
    BY <1>1, <1>19, <2>1 DEF RefundPayment, Objects
  <2>4. workers' \in [Workers -> WorkerStates]
    BY <1>6, <1>19, <2>2, WorkerTypes DEF RefundPayment
  <2> QED
    BY <1>19, <2>3, <2>4 DEF RefundPayment
<1>20. ASSUME NEW e \in Escrows, NEW m \in Matches, NEW a \in Amounts, CreateEscrow(e, m, a)
      PROVE TypeOK'
  <2>1. a \in Nat /\ Commission(a) \in Nat
    BY CommissionBounded, AmountsAssumption
  <2>2. [status |-> "pending_funding", match |-> m, amount |-> a,
         commission |-> Commission(a), ref |-> NoRef, payout |-> ""] \in Rows
    BY <1>2, <2>1 DEF Rows, Statuses, PayoutStatuses
  <2> QED
    BY <1>20, <2>2 DEF CreateEscrow
<1>21. ASSUME NEW e \in Escrows, DeleteEscrowByUser(e)
      PROVE TypeOK'
  BY <1>21 DEF DeleteEscrowByUser
<1>22. ASSUME NEW m \in Matches, AddTrackingEvent(m)
      PROVE TypeOK'
  BY <1>22 DEF AddTrackingEvent
<1>23. ASSUME NEW m \in Matches, NEW v, ReviewPackageVerification(m, v)
      PROVE TypeOK'
  BY <1>23 DEF ReviewPackageVerification
<1>24. ASSUME NEW u \in Travelers, SetUserPayoutAccount(u) \/ DeleteUserByID(u)
      PROVE TypeOK'
  BY <1>24 DEF SetUserPayoutAccount, DeleteUserByID
<1>25. CASE UNCHANGED vars
  BY <1>25 DEF vars
<1>26. ASSUME NEW intent \in ledger, AuthorizeIntent(intent)
      PROVE TypeOK'
  <2>1. HoldOf(intent) \in Objects
    BY DEF HoldOf, Objects
  <2> QED
    BY <1>26, <2>1 DEF AuthorizeIntent
<1> QED
  BY <1>7, <1>8, <1>9, <1>10, <1>11, <1>12, <1>13, <1>14, <1>15, <1>16,
     <1>17, <1>18, <1>19, <1>20, <1>21, <1>22, <1>23, <1>24, <1>25,
     <1>26
     DEF Next, StartRequest, Continue, Others

-----------------------------------------------------------------------------
(* The rest of the inductive invariant, action by action                      *)

Money == RowsOK /\ LedgerOK /\ SettledOnce /\ PaidOnlyIfEarned /\ FundedHasIntent
         /\ CapturedWithinIntent /\ NothingAdvanced /\ OneEscrowPerMatch

LEMMA MoneyUntouched ==
    ASSUME IInv, UNCHANGED <<escrows, stored, delivered, onboarded, ledger>>
    PROVE Money' /\ \A e \in Escrows : Known(e, escrows[e].ref)'
  BY DEF IInv, Money, RowsOK, LedgerOK, ObjectOK, SettledOnce, PaidOnlyIfEarned, FundedHasIntent,
         CapturedWithinIntent, PartOfIntent, NothingAdvanced, Held, OneEscrowPerMatch, RefsOK,
         Known, Of, Settlements, Earned

(* A worker may move to a state it may be in when nothing but workers changes. *)
LEMMA WorkerMoves ==
    ASSUME IInv, NEW w \in Workers, NEW s \in WorkerStates,
           workers' = [workers EXCEPT ![w] = s],
           UNCHANGED <<escrows, stored, delivered, onboarded, ledger>>,
           WorkerOK(w)',
           s.escrow \in Escrows => Known(s.escrow, s.ref),
           s.pc \in {"capture", "transfer", "refundCall"} =>
               Settling(w) /\ s.escrow = workers[w].escrow
    PROVE Money' /\ RefsOK' /\ WorkersOK' /\ SettlersOK'
<1> USE DEF IInv, TypeOK
<1>1. workers'[w] = s /\ \A v \in Workers \ {w} : workers'[v] = workers[v]
  OBVIOUS
<1>2. RefsOK'
  BY <1>1, MoneyUntouched DEF RefsOK, Known, Of
<1>3. WorkersOK'
  BY <1>1 DEF WorkersOK, WorkerOK, Earned, Of, TravelerAmount
<1>4. SettlersOK'
  BY <1>1 DEF SettlersOK, Settling, Settlements, Of
<1> QED
  BY <1>2, <1>3, <1>4, MoneyUntouched

LEMMA FinishStep ==
    ASSUME IInv, NEW w \in Workers, Finish(w),
           UNCHANGED <<escrows, stored, delivered, onboarded, ledger>>
    PROVE Money' /\ RefsOK' /\ WorkersOK' /\ SettlersOK'
<1>1. Idle \in WorkerStates /\ Idle.escrow \notin Escrows /\ Idle.pc = "idle"
  BY NullsAssumption DEF Idle, WorkerStates, PCs, PayoutStatuses, NoRef, Refs
<1>2. workers'[w] = Idle
  BY DEF Finish, IInv, TypeOK
<1>3. WorkerOK(w)'
  BY <1>1, <1>2 DEF WorkerOK
<1> QED
  BY <1>1, <1>3, WorkerMoves DEF Finish

(* Steps that only move a worker on.                                          *)
LEMMA QuietStep ==
    ASSUME IInv, TypeOK', NEW w \in Workers,
           \/ \E e \in Escrows, k \in Keys :
                 StartFund(w, e, k) \/ StartRelease(w, e, k) \/ StartRefund(w, e, k)
           \/ \E ev \in Sendable : StartWebhook(w, ev)
           \/ CheckPackage(w)
           \/ CheckTraveler(w)
           \/ CreatePaymentEvent(w)
    PROVE Money' /\ RefsOK' /\ WorkersOK' /\ SettlersOK'
<1> USE DEF IInv
<1>1. \A v \in Workers : WorkerOK(v) /\ workers[v] \in WorkerStates
  BY DEF WorkersOK, TypeOK
<1>2. \A e \in stored : e \in Escrows /\ escrows[e].status # "absent" /\ Known(e, escrows[e].ref)
  BY DEF RowsOK, RefsOK, TypeOK
<1>4. ASSUME NEW e \in Escrows, NEW k \in Keys, StartFund(w, e, k)
      PROVE Money' /\ RefsOK' /\ WorkersOK' /\ SettlersOK'
  <2> DEFINE s == Task("hold", e, k, NoRef)
  <2>1. /\ s \in WorkerStates /\ s.pc = "hold" /\ s.escrow = e /\ s.key = k
        /\ s.ref.kind = "none"
    BY DEF Task, WorkerStates, PCs, PayoutStatuses, NoRef, Refs
  <2> HIDE DEF s
  <2>2. workers' = [workers EXCEPT ![w] = s] /\ workers'[w] = s
    BY <1>4 DEF StartFund, Begin, TypeOK, s
  <2>3. WorkerOK(w)'
    BY <1>2, <1>4, <2>1, <2>2 DEF WorkerOK, StartFund
  <2> QED
    BY <1>4, <2>1, <2>2, <2>3, WorkerMoves DEF StartFund, Known
<1>5. ASSUME NEW e \in Escrows, NEW k \in Keys, StartRelease(w, e, k)
      PROVE Money' /\ RefsOK' /\ WorkersOK' /\ SettlersOK'
  <2> DEFINE s == Task("packageCheck", e, k, escrows[e].ref)
  <2>1. s \in WorkerStates /\ s.pc = "packageCheck" /\ s.escrow = e /\ s.key = k
        /\ s.ref = escrows[e].ref
    BY DEF Task, WorkerStates, PCs, PayoutStatuses, Rows, TypeOK
  <2> HIDE DEF s
  <2>2. workers' = [workers EXCEPT ![w] = s] /\ workers'[w] = s
    BY <1>5 DEF StartRelease, Begin, TypeOK, s
  <2>3. WorkerOK(w)'
    BY <1>2, <1>5, <2>1, <2>2 DEF WorkerOK, StartRelease
  <2> QED
    BY <1>2, <1>5, <2>1, <2>2, <2>3, WorkerMoves DEF StartRelease
<1>6. ASSUME NEW e \in Escrows, NEW k \in Keys, StartRefund(w, e, k)
      PROVE Money' /\ RefsOK' /\ WorkersOK' /\ SettlersOK'
  <2> DEFINE s == Task("refundRow", e, k, escrows[e].ref)
  <2>1. s \in WorkerStates /\ s.pc = "refundRow" /\ s.escrow = e /\ s.key = k
        /\ s.ref = escrows[e].ref
    BY DEF Task, WorkerStates, PCs, PayoutStatuses, Rows, TypeOK
  <2> HIDE DEF s
  <2>2. workers' = [workers EXCEPT ![w] = s] /\ workers'[w] = s
    BY <1>6 DEF StartRefund, Begin, TypeOK, s
  <2>3. WorkerOK(w)'
    BY <1>2, <1>6, <2>1, <2>2 DEF WorkerOK, StartRefund
  <2> QED
    BY <1>2, <1>6, <2>1, <2>2, <2>3, WorkerMoves DEF StartRefund
<1>7. ASSUME NEW ev \in Sendable, StartWebhook(w, ev)
      PROVE Money' /\ RefsOK' /\ WorkersOK' /\ SettlersOK'
  <2> DEFINE s == [Task("event", ev.escrow, NoKey, ev.ref) EXCEPT !.type = ev.type]
  <2>1. /\ s \in WorkerStates /\ s.pc = "event" /\ s.escrow = ev.escrow /\ s.ref = ev.ref
        /\ s.type \in EventTypes
        /\ s.escrow \in Escrows \cup {NoEscrow}
    BY SendableEvents DEF Task, WorkerStates, PCs, PayoutStatuses, Events
  <2> HIDE DEF s
  <2>2. workers' = [workers EXCEPT ![w] = s] /\ workers'[w] = s
    BY <1>7 DEF StartWebhook, Begin, TypeOK, s
  <2>3. s.escrow \in Escrows =>
          Known(s.escrow, s.ref) /\ escrows[s.escrow].status # "absent"
    BY <2>1, SendableEvents, NullsAssumption DEF Known, Of, LedgerOK, ObjectOK
  <2>4. WorkerOK(w)'
    BY <1>7, <2>1, <2>2, <2>3 DEF WorkerOK, StartWebhook
  <2> QED
    BY <1>7, <2>1, <2>2, <2>3, <2>4, WorkerMoves DEF StartWebhook
<1>8. ASSUME CheckPackage(w) \/ CheckTraveler(w)
      PROVE Money' /\ RefsOK' /\ WorkersOK' /\ SettlersOK'
  <2>1. /\ workers[w].pc \in {"packageCheck", "travelerCheck"}
        /\ UNCHANGED <<escrows, stored, delivered, onboarded, ledger>>
    BY <1>8 DEF CheckPackage, CheckTraveler, At
  <2>2. CASE Finish(w)
    BY <2>1, <2>2, FinishStep
  <2>3. ASSUME NEW pc \in {"travelerCheck", "releaseRow"}, Goto(w, pc),
               pc = "releaseRow" => TravelerOf[escrows[workers[w].escrow].match] \in onboarded
        PROVE Money' /\ RefsOK' /\ WorkersOK' /\ SettlersOK'
    <3> DEFINE s == [workers[w] EXCEPT !.pc = pc]
    <3>1. /\ s \in WorkerStates /\ s.pc = pc /\ s.escrow = workers[w].escrow
          /\ s.key = workers[w].key /\ s.ref = workers[w].ref
      BY <1>1 DEF WorkerStates, PCs
    <3>2. workers' = [workers EXCEPT ![w] = s]
      BY <2>3 DEF Goto, TypeOK
    <3> HIDE DEF s
    <3>3. workers'[w] = s
      BY <3>2 DEF TypeOK
    <3>4. WorkerOK(w)'
      BY <1>1, <2>1, <2>3, <3>1, <3>3 DEF WorkerOK
    <3> QED
      BY <2>1, <3>1, <3>2, <3>4, WorkerMoves DEF RefsOK
  <2> QED
    BY <1>8, <2>2, <2>3 DEF CheckPackage, CheckTraveler
<1>9. ASSUME CreatePaymentEvent(w)
      PROVE Money' /\ RefsOK' /\ WorkersOK' /\ SettlersOK'
  <2>1. workers[w].pc = "event" /\ UNCHANGED <<escrows, stored, delivered, onboarded, ledger>>
    BY <1>9 DEF CreatePaymentEvent, At
  <2>2. CASE Finish(w)
    BY <2>1, <2>2, FinishStep
  <2>3. CASE workers[w].escrow # NoEscrow /\ Record(w, workers[w].ref, "webhook")
    <3> DEFINE s == [workers[w] EXCEPT !.pc = "record", !.ref = workers[w].ref,
                                       !.payout = "webhook"]
    <3>1. /\ s \in WorkerStates /\ s.pc = "record" /\ s.escrow = workers[w].escrow
          /\ s.ref = workers[w].ref
      BY <1>1 DEF WorkerStates, PCs, PayoutStatuses
    <3>2. workers' = [workers EXCEPT ![w] = s]
      BY <2>3 DEF Record, TypeOK
    <3> HIDE DEF s
    <3>3. workers'[w] = s /\ s.escrow \in Escrows
      BY <1>1, <2>3, <3>1, <3>2 DEF TypeOK, WorkerStates
    <3>4. WorkerOK(w)'
      BY <1>1, <2>1, <3>1, <3>3 DEF WorkerOK
    <3> QED
      BY <2>1, <3>1, <3>2, <3>4, WorkerMoves DEF RefsOK
  <2> QED
    BY <1>9, <2>2, <2>3 DEF CreatePaymentEvent, EventOf
<1> QED
  BY <1>4, <1>5, <1>6, <1>7, <1>8, <1>9

(* A row whose money has not been decided about moves along its lifecycle, and *)
(* the worker that moved it goes on to state s.                                *)
LEMMA RowAdvances ==
    ASSUME IInv, NEW w \in Workers, NEW s \in WorkerStates, NEW e \in stored, NEW to,
           escrows[e].status \in {"pending_funding", "funded", "disputed"},
           to \in {"funded", "disputed", "released", "refunded"},
           escrows[e].status = "pending_funding" => Of(e, "pi") # {},
           SetStatus(e, to),
           workers' = [workers EXCEPT ![w] = s],
           UNCHANGED <<stored, delivered, onboarded, ledger>>,
           s.escrow = e, Known(e, s.ref), WorkerOK(w)'
    PROVE Money' /\ RefsOK' /\ WorkersOK' /\ SettlersOK'
<1> USE DEF IInv
<1>1. e \in Escrows /\ ledger \subseteq Objects
  BY DEF TypeOK
<1>2. /\ \A f \in Escrows \ {e} : escrows'[f] = escrows[f]
      /\ escrows'[e].status = to
      /\ escrows'[e].match = escrows[e].match
      /\ escrows'[e].amount = escrows[e].amount
      /\ escrows'[e].commission = escrows[e].commission
      /\ escrows'[e].ref = escrows[e].ref
  BY <1>1 DEF SetStatus, TypeOK, Rows
<1>3. workers'[w] = s /\ \A v \in Workers \ {w} : workers'[v] = workers[v]
  BY DEF TypeOK
<1>4. \A o \in ledger : o.escrow = e => o.kind \notin {"capture", "tr", "re", "reversal"}
  BY DEF PaidOnlyIfEarned, Earned, LedgerOK, ObjectOK, NothingAdvanced
<1>5. Settlements(e) = {}
  BY <1>4 DEF Settlements, Of
<1>6. \A v \in Workers : Settling(v) => workers[v].escrow # e
  BY DEF Settling, WorkersOK, WorkerOK, Earned
<1>7. \A f \in Escrows, kind \in {"pi", "capture", "tr", "re", "reversal"} :
          Of(f, kind)' = Of(f, kind)
  BY DEF Of
<1>8. RowsOK'
  BY <1>2 DEF RowsOK
<1>9. LedgerOK'
  BY <1>2, <1>4 DEF LedgerOK, ObjectOK, TypeOK, Objects
<1>10. SettledOnce'
  BY <1>7 DEF SettledOnce, Settlements
<1>11. PaidOnlyIfEarned'
  BY <1>1, <1>2, <1>4 DEF PaidOnlyIfEarned, Earned, Objects
<1>12. FundedHasIntent'
  <2>1. \A f \in Escrows \ {e} : escrows'[f].status \notin {"absent", "pending_funding"} =>
            \E o \in Of(f, "pi")' : o.amount = escrows'[f].amount
    BY <1>2, <1>7 DEF FundedHasIntent
  <2>2. \E o \in Of(e, "pi") : o.amount = escrows[e].amount
    BY <1>1 DEF FundedHasIntent, LedgerOK, ObjectOK, Of
  <2> QED
    BY <1>2, <1>7, <2>1, <2>2 DEF FundedHasIntent
<1>13. CapturedWithinIntent'
  BY <1>7 DEF CapturedWithinIntent, PartOfIntent, Of
<1>14. OneEscrowPerMatch' /\ NothingAdvanced'
  BY <1>1, <1>2, <1>7 DEF OneEscrowPerMatch, NothingAdvanced, Held, Of, TypeOK
<1>15. RefsOK'
  BY <1>1, <1>2, <1>3, <1>7 DEF RefsOK, Known
<1>16. WorkersOK'
  BY <1>2, <1>3, <1>6, <1>7 DEF WorkersOK, WorkerOK, Settling, Earned, TravelerAmount
<1>17. SettlersOK'
  BY <1>3, <1>5, <1>6 DEF SettlersOK, Settling, Settlements, Of
<1> QED
  BY <1>8, <1>9, <1>10, <1>11, <1>12, <1>13, <1>14, <1>15, <1>16, <1>17 DEF Money

LEMMA RowStep ==
    ASSUME IInv, TypeOK', NEW w \in Workers,
           \/ FundEscrow(w) \/ ReleaseEscrow(w) \/ RefundEscrow(w)
           \/ \E e \in Escrows : DisputeEscrow(w, e)
    PROVE Money' /\ RefsOK' /\ WorkersOK' /\ SettlersOK'
<1> USE DEF IInv
<1> DEFINE e == workers[w].escrow
<1>1. WorkerOK(w) /\ workers[w] \in WorkerStates /\ workers'[w] \in WorkerStates
  BY DEF WorkersOK, TypeOK
<1>2. e \in Escrows => Known(e, workers[w].ref)
  BY DEF RefsOK
<1>3. ASSUME NEW pc \in {"capture", "refundCall"}, Goto(w, pc)
      PROVE /\ workers' = [workers EXCEPT ![w] = workers'[w]]
            /\ workers'[w].pc = pc /\ workers'[w].escrow = e
            /\ workers'[w].ref = workers[w].ref /\ workers'[w].key = workers[w].key
  BY <1>1, <1>3 DEF Goto, TypeOK, WorkerStates
<1>4. ASSUME NEW payout \in {"hold", "payout_failed"}, Record(w, workers[w].ref, payout)
      PROVE /\ workers' = [workers EXCEPT ![w] = workers'[w]]
            /\ workers'[w].pc = "record" /\ workers'[w].escrow = e
            /\ workers'[w].ref = workers[w].ref /\ workers'[w].key = workers[w].key
  BY <1>1, <1>4 DEF Record, TypeOK, WorkerStates
<1>5. ASSUME FundEscrow(w) PROVE Money' /\ RefsOK' /\ WorkersOK' /\ SettlersOK'
  <2>1. CASE Fundable(e) /\ SetStatus(e, "funded") /\ Record(w, workers[w].ref, "hold")
    <3>1. e \in stored /\ e \in Escrows /\ workers[w].pc = "fundRow"
      BY <1>5, <2>1 DEF FundEscrow, At, Fundable, TypeOK
    <3>2. Of(e, "pi") # {}
      BY <1>1, <1>2, <3>1 DEF WorkerOK, Known
    <3>3. /\ workers'[w].pc = "record" /\ workers'[w].escrow = e
          /\ workers'[w].ref = workers[w].ref
      BY <1>4, <2>1
    <3>4. escrows'[e].status = "funded"
      BY <2>1, <3>1 DEF SetStatus, TypeOK, Rows
    <3>5. WorkerOK(w)'
      BY <3>1, <3>3, <3>4 DEF WorkerOK
    <3> QED
      BY <1>1, <1>2, <1>4, <1>5, <2>1, <3>1, <3>2, <3>3, <3>5, RowAdvances DEF FundEscrow, Fundable
  <2>2. CASE Finish(w) /\ UNCHANGED escrows
    BY <1>5, <2>2, FinishStep DEF FundEscrow
  <2> QED
    BY <1>5, <2>1, <2>2 DEF FundEscrow
<1>6. ASSUME ReleaseEscrow(w) PROVE Money' /\ RefsOK' /\ WorkersOK' /\ SettlersOK'
  <2>1. CASE Releasable(e) /\ SetStatus(e, "released")
    <3>1. e \in stored /\ e \in Escrows /\ workers[w].pc = "releaseRow"
      BY <1>6, <2>1 DEF ReleaseEscrow, At, Releasable, TypeOK
    <3>2. escrows'[e].status = "released" /\ escrows'[e].match = escrows[e].match
      BY <2>1, <3>1 DEF SetStatus, TypeOK, Rows
    <3>3. /\ escrows'[e].match \in delivered'
          /\ TravelerOf[escrows'[e].match] \in onboarded'
      <4>1. TravelerOf[escrows[e].match] \in onboarded /\ escrows[e].match \in delivered
        BY <1>1, <2>1, <3>1 DEF WorkerOK, Releasable
      <4>2. UNCHANGED <<delivered, onboarded>>
        BY <1>6 DEF ReleaseEscrow
      <4> QED
        BY <3>2, <4>1, <4>2
    <3>4. /\ workers' = [workers EXCEPT ![w] = workers'[w]]
          /\ workers'[w].escrow = e /\ workers'[w].ref = workers[w].ref
          /\ workers'[w].key = workers[w].key
          /\ \/ workers'[w].pc = "capture" /\ workers[w].ref.kind = "pi"
             \/ workers'[w].pc = "record"
      BY <1>3, <1>4, <1>6, <2>1 DEF ReleaseEscrow, Capturable
    <3>5. WorkerOK(w)'
      BY <1>1, <3>1, <3>2, <3>3, <3>4 DEF WorkerOK, Earned
    <3> QED
      BY <1>1, <1>2, <1>6, <2>1, <3>1, <3>4, <3>5, RowAdvances DEF ReleaseEscrow, Releasable
  <2>2. CASE Finish(w) /\ UNCHANGED escrows
    BY <1>6, <2>2, FinishStep DEF ReleaseEscrow
  <2> QED
    BY <1>6, <2>1, <2>2 DEF ReleaseEscrow
<1>7. ASSUME RefundEscrow(w) PROVE Money' /\ RefsOK' /\ WorkersOK' /\ SettlersOK'
  <2>1. CASE Refundable(e) /\ SetStatus(e, "refunded") /\ Goto(w, "refundCall")
    <3>1. e \in stored /\ e \in Escrows /\ workers[w].pc = "refundRow"
      BY <1>7, <2>1 DEF RefundEscrow, At, Refundable, TypeOK
    <3>2. escrows'[e].status = "refunded"
      BY <2>1, <3>1 DEF SetStatus, TypeOK, Rows
    <3>3. /\ workers'[w].pc = "refundCall" /\ workers'[w].escrow = e
          /\ workers'[w].ref = workers[w].ref /\ workers'[w].key = workers[w].key
      BY <1>3, <2>1
    <3>4. WorkerOK(w)'
      BY <1>1, <3>1, <3>2, <3>3 DEF WorkerOK
    <3> QED
      BY <1>1, <1>2, <1>3, <1>7, <2>1, <3>1, <3>3, <3>4, RowAdvances DEF RefundEscrow, Refundable
  <2>2. CASE Finish(w) /\ UNCHANGED escrows
    BY <1>7, <2>2, FinishStep DEF RefundEscrow
  <2> QED
    BY <1>7, <2>1, <2>2 DEF RefundEscrow
<1>8. ASSUME NEW f \in Escrows, DisputeEscrow(w, f)
      PROVE Money' /\ RefsOK' /\ WorkersOK' /\ SettlersOK'
  <2> DEFINE s == [Task("record", f, NoKey, NoRef) EXCEPT !.payout = "disputed"]
  <2>1. s.pc = "record" /\ s.escrow = f /\ s.ref = NoRef
    BY DEF Task
  <2> HIDE DEF s
  <2>2. workers' = [workers EXCEPT ![w] = s] /\ workers'[w] = s
    BY <1>8 DEF DisputeEscrow, Begin, TypeOK, s
  <2>3. escrows'[f].status = "disputed" /\ f \in stored
    BY <1>8 DEF DisputeEscrow, Disputable, SetStatus, TypeOK, Rows
  <2>4. Known(f, NoRef)
    BY DEF Known, NoRef
  <2>5. WorkerOK(w)'
    BY <2>1, <2>2, <2>3 DEF WorkerOK
  <2> QED
    BY <1>1, <1>8, <2>1, <2>2, <2>3, <2>4, <2>5, RowAdvances DEF DisputeEscrow, Disputable
<1> QED
  BY <1>5, <1>6, <1>7, <1>8

(* Recording a payout changes a reference to one that the worker knows.       *)
LEMMA RecordStep ==
    ASSUME IInv, TypeOK', NEW w \in Workers, SetEscrowPayout(w)
    PROVE Money' /\ RefsOK' /\ WorkersOK' /\ SettlersOK'
<1> USE DEF IInv
<1> DEFINE e == workers[w].escrow
<1>1. workers'[w] = Idle /\ \A v \in Workers \ {w} : workers'[v] = workers[v]
  BY DEF SetEscrowPayout, Finish, TypeOK
<1>2. Idle.escrow \notin Escrows /\ Idle.pc = "idle"
  BY NullsAssumption DEF Idle
<1>3. e \in Escrows /\ Known(e, workers[w].ref)
  BY DEF SetEscrowPayout, At, WorkersOK, WorkerOK, RefsOK
<1>4. \A f \in Escrows :
          /\ escrows'[f].status = escrows[f].status
          /\ escrows'[f].match = escrows[f].match
          /\ escrows'[f].amount = escrows[f].amount
          /\ escrows'[f].commission = escrows[f].commission
          /\ \/ escrows'[f].ref = escrows[f].ref
             \/ f = e /\ escrows'[f].ref = workers[w].ref
  BY <1>3 DEF SetEscrowPayout, TypeOK, Rows
<1>5. UNCHANGED <<stored, delivered, onboarded, ledger>>
  BY DEF SetEscrowPayout
<1>6. ledger \subseteq Objects /\ stored \subseteq Escrows
  BY DEF TypeOK
<1>7. \A f \in Escrows, kind \in {"pi", "capture", "tr", "re", "reversal"} :
          Of(f, kind)' = Of(f, kind)
  BY <1>5 DEF Of
<1>8. RowsOK' /\ LedgerOK' /\ OneEscrowPerMatch'
  BY <1>4, <1>5, <1>6 DEF RowsOK, LedgerOK, ObjectOK, Objects, OneEscrowPerMatch
<1>9. SettledOnce' /\ CapturedWithinIntent' /\ NothingAdvanced'
  BY <1>5, <1>7 DEF SettledOnce, Settlements, CapturedWithinIntent, PartOfIntent, NothingAdvanced,
                    Held, Of
<1>10. PaidOnlyIfEarned'
  BY <1>4, <1>5, <1>6 DEF PaidOnlyIfEarned, Earned, Objects
<1>11. FundedHasIntent'
  BY <1>4, <1>7 DEF FundedHasIntent
<1>12. RefsOK'
  BY <1>1, <1>2, <1>3, <1>4, <1>7 DEF RefsOK, Known
<1>13. WorkersOK'
  BY <1>1, <1>2, <1>4, <1>5, <1>7 DEF WorkersOK, WorkerOK, Earned, TravelerAmount
<1>14. SettlersOK'
  BY <1>1, <1>2, <1>5 DEF SettlersOK, Settling, Settlements, Of
<1> QED
  BY <1>8, <1>9, <1>10, <1>11, <1>12, <1>13, <1>14 DEF Money

(* An object the provider may add, and the state s of the worker afterwards.  *)
LEMMA LedgerGrows ==
    ASSUME IInv, TypeOK', NEW w \in Workers, NEW s \in WorkerStates, NEW e \in Escrows, NEW obj,
           e = workers[w].escrow, escrows[e].status # "absent",
           obj.escrow = e, obj.kind \in {"pi", "capture", "tr", "re"},
           ledger \subseteq ledger',
           \A o \in ledger' \ ledger :
               \/ o = obj
               \/ o.kind = "hold" /\ o.escrow = e /\ o.amount = escrows[e].amount,
           obj.kind = "pi" => obj.amount = escrows[e].amount,
           obj.kind \in {"capture", "tr"} => Earned(e),
           obj.kind = "capture" => PartOfIntent(e, obj.key, obj.amount) /\ Held(e, obj.key),
           obj.kind = "re" => escrows[e].status = "refunded",
           obj.kind = "tr" => \E c \in Of(e, "capture") : c.amount = obj.amount,
           obj.kind = "re" => \E h \in Of(e, "hold") : h.amount = obj.amount,
           obj.kind \in {"tr", "re"} => Settling(w),
           s.pc \in {"capture", "transfer", "refundCall"} =>
               s.escrow = e /\ obj.kind = "capture" /\ Settling(w),
           workers' = [workers EXCEPT ![w] = s],
           UNCHANGED <<escrows, stored, delivered, onboarded>>,
           s.escrow \in Escrows /\ s.ref.kind \in {"pi", "tr"} =>
               \E o \in ledger' : /\ o.escrow = s.escrow /\ o.kind = s.ref.kind
                                  /\ o.key = s.ref.key,
           WorkerOK(w)'
    PROVE Money' /\ RefsOK' /\ WorkersOK' /\ SettlersOK'
<1> USE DEF IInv
<1>1. workers'[w] = s /\ \A v \in Workers \ {w} : workers'[v] = workers[v]
  BY DEF TypeOK
<1>2. /\ \A o \in ledger' :
            \/ o \in ledger
            \/ o = obj
            \/ o.kind = "hold" /\ o.escrow = e /\ o.amount = escrows[e].amount
      /\ ledger \subseteq ledger'
  OBVIOUS
<1>3. \A o \in ledger : o.escrow \in Escrows
  BY DEF TypeOK, Objects
<1>4. RowsOK' /\ OneEscrowPerMatch'
  BY DEF RowsOK, OneEscrowPerMatch
<1>5. LedgerOK'
  BY <1>2 DEF LedgerOK, ObjectOK
<1>6. SettledOnce'
  <2>1. ASSUME NEW f \in Escrows, NEW o \in Settlements(f)', NEW p \in Settlements(f)'
        PROVE o = p
    <3>1. o \in ledger' /\ p \in ledger' /\ o.escrow = f /\ p.escrow = f
          /\ o.kind \in {"tr", "re", "reversal"} /\ p.kind \in {"tr", "re", "reversal"}
      BY <2>1 DEF Settlements, Of
    <3>2. CASE o = obj \/ p = obj
      <4>1. Settlements(e) = {}
        BY <3>1, <3>2 DEF SettlersOK
      <4>2. \A q \in ledger : q.escrow = e => q.kind \notin {"tr", "re", "reversal"}
        BY <4>1 DEF Settlements, Of
      <4> QED
        BY <1>2, <3>1, <3>2, <4>2
    <3>3. CASE o # obj /\ p # obj
      BY <1>2, <3>1, <3>3 DEF SettledOnce, Settlements, Of
    <3> QED
      BY <3>2, <3>3
  <2> QED
    BY <2>1 DEF SettledOnce
<1>7. PaidOnlyIfEarned'
  BY <1>2 DEF PaidOnlyIfEarned, Earned
<1>8. FundedHasIntent'
  BY <1>2 DEF FundedHasIntent, Of
<1>9. CapturedWithinIntent'
  BY <1>2 DEF CapturedWithinIntent, PartOfIntent, Of
<1>10. RefsOK'
  BY <1>1, <1>2 DEF RefsOK, Known, Of
<1>11. WorkersOK'
  BY <1>1, <1>2 DEF WorkersOK, WorkerOK, Earned, Of, TravelerAmount
<1>12. SettlersOK'
  <2>1. \A v, u \in Workers :
           Settling(v)' /\ Settling(u)' /\ workers'[v].escrow = workers'[u].escrow => v = u
    BY <1>1 DEF SettlersOK, Settling
  <2>2. ASSUME NEW v \in Workers, Settling(v)' PROVE (Settlements(workers[v].escrow) = {})'
    <3>1. Settling(v) /\ workers'[v].escrow = workers[v].escrow
      BY <1>1, <2>2 DEF Settling
    <3>2. Settlements(workers[v].escrow) = {}
      BY <3>1 DEF SettlersOK
    <3>3. obj.kind \in {"tr", "re", "reversal"} => obj.escrow # workers[v].escrow
      BY <1>1, <2>2, <3>1 DEF SettlersOK, Settling
    <3> QED
      BY <1>2, <3>1, <3>2, <3>3 DEF Settlements, Of
  <2> QED
    BY <2>1, <2>2 DEF SettlersOK
<1>13. NothingAdvanced'
  <2>1. \A o \in ledger : o.kind = "re" => ~Earned(o.escrow)
    BY DEF LedgerOK, ObjectOK, Earned
  <2>2. escrows[e].status = "refunded" => Of(e, "capture") = {}
    BY DEF PaidOnlyIfEarned, Earned, Of
  <2>3. ASSUME NEW o \in ledger
        PROVE /\ o.kind = "tr" => \E c \in Of(o.escrow, "capture")' : c.amount = o.amount
              /\ o.kind = "capture" => Held(o.escrow, o.key)'
              /\ o.kind = "re" => /\ \E h \in Of(o.escrow, "hold")' : h.amount = o.amount
                                  /\ Of(o.escrow, "capture")' = {}
              /\ o.kind # "reversal"
    BY <1>2, <2>1 DEF NothingAdvanced, Held, Of
  <2>4. /\ obj.kind = "tr" => \E c \in Of(e, "capture")' : c.amount = obj.amount
        /\ obj.kind = "capture" => Held(e, obj.key)'
        /\ obj.kind = "re" => /\ \E h \in Of(e, "hold")' : h.amount = obj.amount
                              /\ Of(e, "capture")' = {}
    BY <1>2, <2>2 DEF Held, Of
  <2> QED
    BY <1>2, <2>3, <2>4 DEF NothingAdvanced, Held
<1> QED
  BY <1>4, <1>5, <1>6, <1>7, <1>8, <1>9, <1>10, <1>11, <1>12, <1>13 DEF Money

LEMMA LedgerStep ==
    ASSUME IInv, TypeOK', NEW w \in Workers, NEW answer \in Answers,
           \/ CreateEscrowHold(w, answer) \/ CapturePayment(w, answer)
           \/ TransferPayout(w, answer) \/ RefundPayment(w, answer)
    PROVE Money' /\ RefsOK' /\ WorkersOK' /\ SettlersOK'
<1> USE DEF IInv
<1> DEFINE e == workers[w].escrow
           k == workers[w].key
<1>1. WorkerOK(w) /\ workers[w] \in WorkerStates /\ workers'[w] \in WorkerStates
      /\ workers[w].pc \in {"hold", "capture", "transfer", "refundCall"}
  BY DEF WorkersOK, TypeOK, CreateEscrowHold, CapturePayment, TransferPayout, RefundPayment, At
<1>2. e \in Escrows /\ k \in Keys
  BY <1>1 DEF WorkerOK
<1>3. /\ escrows[e].status # "absent" /\ Known(e, workers[w].ref)
      /\ UNCHANGED <<escrows, stored, delivered, onboarded>>
  BY <1>1, <1>2 DEF WorkerOK, RefsOK, CreateEscrowHold, CapturePayment, TransferPayout,
                    RefundPayment
<1>4. escrows[e].amount \in Nat /\ TravelerAmount(e) \in Nat
      /\ TravelerAmount(e) <= escrows[e].amount
  BY <1>2 DEF RowsOK, TypeOK, Rows, TravelerAmount
<1>5. Idle.pc = "idle" /\ Idle.escrow \notin Escrows
  BY NullsAssumption DEF Idle
<1>6. ASSUME Finish(w) \/ workers' = [workers EXCEPT ![w] = Idle]
      PROVE workers' = [workers EXCEPT ![w] = workers'[w]] /\ workers'[w] = Idle
  BY <1>6 DEF Finish, TypeOK
<1>7. ASSUME Goto(w, "transfer")
      PROVE /\ workers' = [workers EXCEPT ![w] = workers'[w]]
            /\ workers'[w].pc = "transfer" /\ workers'[w].escrow = e
            /\ workers'[w].ref = workers[w].ref /\ workers'[w].key = k
  BY <1>1, <1>7 DEF Goto, TypeOK, WorkerStates
<1>8. ASSUME NEW ref, NEW payout, Record(w, ref, payout)
      PROVE /\ workers' = [workers EXCEPT ![w] = workers'[w]]
            /\ workers'[w].pc = "record" /\ workers'[w].escrow = e
            /\ workers'[w].ref = ref /\ workers'[w].key = k
  BY <1>1, <1>8 DEF Record, TypeOK, WorkerStates
<1>9. CASE CreateEscrowHold(w, answer)
  <2> DEFINE obj == [kind |-> "pi", escrow |-> e, key |-> k, amount |-> escrows[e].amount]
             s == Task("fundRow", e, k, [kind |-> "pi", key |-> k])
  <2>1. /\ MakeIntent(obj, answer)
        /\ workers' = [workers EXCEPT ![w] = IF answer = "ok" THEN s ELSE Idle]
    BY <1>9 DEF CreateEscrowHold
  <2>2. /\ obj.kind = "pi" /\ obj.escrow = e /\ obj.amount = escrows[e].amount /\ obj.key = k
        /\ HoldOf(obj).kind = "hold" /\ HoldOf(obj).escrow = e
        /\ HoldOf(obj).amount = escrows[e].amount
    BY DEF HoldOf
  <2>3. s.pc = "fundRow" /\ s.escrow = e /\ s.key = k /\ s.ref.kind = "pi" /\ s.ref.key = k
    BY DEF Task
  <2> HIDE DEF obj, s
  <2>4. workers' = [workers EXCEPT ![w] = workers'[w]]
        /\ workers'[w] = IF answer = "ok" THEN s ELSE Idle
    BY <2>1 DEF TypeOK
  <2>5. WorkerOK(w)'
    BY <1>2, <1>3, <1>5, <2>3, <2>4 DEF WorkerOK
  <2>6. workers'[w].escrow \in Escrows =>
          \E o \in ledger' : /\ o.escrow = workers'[w].escrow /\ o.kind = workers'[w].ref.kind
                             /\ o.key = workers'[w].ref.key
    BY <1>5, <2>1, <2>2, <2>3, <2>4 DEF MakeIntent
  <2>7. workers'[w].pc \notin {"capture", "transfer", "refundCall"}
    BY <1>5, <2>3, <2>4
  <2>8. /\ ledger \subseteq ledger'
        /\ \A o \in ledger' \ ledger :
              \/ o = obj
              \/ o.kind = "hold" /\ o.escrow = e /\ o.amount = escrows[e].amount
        /\ workers' = [workers EXCEPT ![w] = workers'[w]]
    BY <2>1, <2>2, <2>4 DEF MakeIntent
  <2> QED
    BY <1>1, <1>2, <1>3, <2>2, <2>5, <2>6, <2>7, <2>8, LedgerGrows
<1>10. CASE CapturePayment(w, answer)
  <2> DEFINE obj == [kind |-> "capture", escrow |-> e, key |-> workers[w].ref.key,
                     amount |-> TravelerAmount(e)]
  <2>1. ledger' = ledger \/ (Held(e, workers[w].ref.key) /\ ledger' = ledger \cup {obj})
    BY <1>10 DEF CapturePayment, CaptureAnswer
  <2>2. /\ obj.kind = "capture" /\ obj.escrow = e /\ obj.key = workers[w].ref.key
        /\ obj.amount = TravelerAmount(e)
    OBVIOUS
  <2> HIDE DEF obj
  <2>3. workers[w].pc = "capture" /\ Earned(e) /\ workers[w].ref.kind = "pi" /\ Settling(w)
    BY <1>1, <1>10 DEF CapturePayment, At, WorkerOK, Settling
  <2>4. /\ workers' = [workers EXCEPT ![w] = workers'[w]]
        /\ workers'[w].pc \in {"transfer", "record"} /\ workers'[w].escrow = e
        /\ workers'[w].pc = "transfer" =>
              Held(e, workers[w].ref.key) /\ ledger' = ledger \cup {obj}
        /\ workers'[w].key = k /\ workers'[w].ref = workers[w].ref
    BY <1>7, <1>8, <1>10 DEF CapturePayment, CaptureAnswer, obj
  <2>5. WorkerOK(w)'
    BY <1>2, <1>3, <2>2, <2>3, <2>4 DEF WorkerOK, Earned, Of, TravelerAmount
  <2>6. PICK h \in Of(e, "pi") : h.key = workers[w].ref.key
    BY <1>3, <2>3 DEF Known
  <2>7. h \in ledger /\ h.escrow = e /\ h.kind = "pi" /\ h.amount = escrows[e].amount
    BY <2>6 DEF Of, LedgerOK, ObjectOK
  <2>8. \E o \in ledger' : /\ o.escrow = workers'[w].escrow /\ o.kind = workers'[w].ref.kind
                           /\ o.key = workers'[w].ref.key
    BY <2>1, <2>3, <2>4, <2>6, <2>7
  <2>9. PartOfIntent(e, obj.key, obj.amount)
    BY <1>4, <2>2, <2>6, <2>7 DEF PartOfIntent
  <2>10. CASE ledger' = ledger /\ workers'[w].pc = "record"
    <3> DEFINE o == [kind |-> "pi", escrow |-> e, amount |-> escrows[e].amount]
    <3>1. /\ o.kind = "pi" /\ o.escrow = e /\ o.amount = escrows[e].amount
          /\ ledger \subseteq ledger' /\ ledger' \ ledger = {}
      BY <2>10
    <3> HIDE DEF o
    <3> QED
      BY <1>1, <1>2, <1>3, <2>4, <2>5, <2>8, <2>10, <3>1, LedgerGrows
  <2>11. CASE Held(e, obj.key) /\ ledger' = ledger \cup {obj}
    BY <1>1, <1>2, <1>3, <2>2, <2>3, <2>4, <2>5, <2>8, <2>9, <2>11, LedgerGrows
  <2> QED
    BY <2>1, <2>2, <2>4, <2>10, <2>11
<1>11. CASE TransferPayout(w, answer)
  <2> DEFINE obj == [kind |-> "tr", escrow |-> e, key |-> k, amount |-> TravelerAmount(e)]
  <2>1. ledger' = IF answer = "refused" THEN ledger ELSE ledger \cup {obj}
    BY <1>11 DEF TransferPayout
  <2>2. obj.kind = "tr" /\ obj.escrow = e /\ obj.key = k /\ obj.amount = TravelerAmount(e)
    OBVIOUS
  <2> HIDE DEF obj
  <2>3. /\ workers[w].pc = "transfer" /\ Earned(e) /\ Settling(w)
        /\ \E c \in Of(e, "capture") : c.amount = obj.amount
    BY <1>1, <1>11, <2>2 DEF TransferPayout, At, WorkerOK, Settling
  <2>4. /\ workers' = [workers EXCEPT ![w] = workers'[w]]
        /\ workers'[w].pc = "record" /\ workers'[w].escrow = e
        /\ \/ /\ workers'[w].ref.kind = "tr" /\ workers'[w].ref.key = k
              /\ ledger' = ledger \cup {obj}
           \/ workers'[w].ref = workers[w].ref
    BY <1>8, <1>11, <2>1 DEF TransferPayout
  <2>5. WorkerOK(w)'
    BY <1>2, <1>3, <2>4 DEF WorkerOK
  <2>6. workers'[w].ref.kind \in {"pi", "tr"} =>
          \E o \in ledger' : /\ o.escrow = workers'[w].escrow /\ o.kind = workers'[w].ref.kind
                             /\ o.key = workers'[w].ref.key
    BY <1>3, <2>1, <2>2, <2>4 DEF Known, Of
  <2>7. ledger \subseteq ledger' /\ \A o \in ledger' \ ledger : o = obj
    BY <2>1
  <2> QED
    BY <1>1, <1>2, <1>3, <2>2, <2>3, <2>4, <2>5, <2>6, <2>7, LedgerGrows
<1>12. CASE RefundPayment(w, answer)
  <2>1. workers[w].pc = "refundCall" /\ escrows[e].status = "refunded" /\ Settling(w)
    BY <1>1, <1>12 DEF RefundPayment, At, WorkerOK, Settling
  <2>2. workers[w].ref.kind # "tr"
    BY <1>3, <2>1 DEF Known, Of, PaidOnlyIfEarned, Earned
  <2>3. CASE workers[w].ref.kind # "pi"
    <3>1. Finish(w) /\ UNCHANGED ledger
      BY <1>12, <2>2, <2>3 DEF RefundPayment
    <3> QED
      BY <1>3, <3>1, FinishStep
  <2>4. CASE workers[w].ref.kind = "pi"
    <3> DEFINE obj == [kind |-> "re", escrow |-> e, key |-> k, amount |-> escrows[e].amount]
    <3>1. ledger' = ledger \/ (Held(e, workers[w].ref.key) /\ ledger' = ledger \cup {obj})
      BY <1>12, <2>4 DEF RefundPayment
    <3>2. obj.kind = "re" /\ obj.escrow = e /\ obj.amount = escrows[e].amount
      OBVIOUS
    <3> HIDE DEF obj
    <3>3. Held(e, workers[w].ref.key) => \E h \in Of(e, "hold") : h.amount = obj.amount
      BY <1>2, <3>2 DEF Held, Of, LedgerOK, ObjectOK
    <3>4. /\ workers' = [workers EXCEPT ![w] = workers'[w]]
          /\ \/ workers'[w] = Idle
             \/ workers'[w].pc = "record" /\ workers'[w].escrow = e /\ workers'[w].ref.kind = "re"
      BY <1>6, <1>8, <1>12 DEF RefundPayment
    <3>5. WorkerOK(w)'
      BY <1>2, <1>3, <1>5, <3>4 DEF WorkerOK
    <3>6. /\ workers'[w].pc \notin {"capture", "transfer", "refundCall"}
          /\ workers'[w].escrow \in Escrows => workers'[w].ref.kind \notin {"pi", "tr"}
      BY <1>5, <3>4
    <3>7. CASE ledger' = ledger
      <4> DEFINE o == [kind |-> "pi", escrow |-> e, amount |-> escrows[e].amount]
      <4>1. /\ o.kind = "pi" /\ o.escrow = e /\ o.amount = escrows[e].amount
            /\ ledger \subseteq ledger' /\ ledger' \ ledger = {}
        BY <3>7
      <4> HIDE DEF o
      <4> QED
        BY <1>1, <1>2, <1>3, <3>4, <3>5, <3>6, <3>7, <4>1, LedgerGrows
    <3>8. CASE Held(e, workers[w].ref.key) /\ ledger' = ledger \cup {obj}
      BY <1>1, <1>2, <1>3, <2>1, <3>2, <3>3, <3>4, <3>5, <3>6, <3>8, LedgerGrows
    <3> QED
      BY <3>1, <3>7, <3>8
  <2> QED
    BY <2>3, <2>4
<1> QED
  BY <1>9, <1>10, <1>11, <1>12

(* Requests and events that touch no worker and no provider object.           *)
LEMMA OtherStep ==
    ASSUME IInv, TypeOK', Others
    PROVE Money' /\ RefsOK' /\ WorkersOK' /\ SettlersOK'
<1> USE DEF IInv
<1>1. ASSUME NEW e \in Escrows, NEW m \in Matches, NEW a \in Amounts, CreateEscrow(e, m, a)
      PROVE Money' /\ RefsOK' /\ WorkersOK' /\ SettlersOK'
  <2>0. NoRow.status = "absent"
    BY DEF NoRow
  <2>1. escrows[e].status = "absent" /\ e \notin stored
    BY <1>1, <2>0 DEF CreateEscrow, RowsOK
  <2>2. /\ \A o \in ledger : o.escrow # e /\ o.escrow \in Escrows
        /\ \A w \in Workers : workers[w].escrow # e
    BY <2>1 DEF LedgerOK, ObjectOK, WorkersOK, WorkerOK, TypeOK, Objects
  <2>3. Commission(a) <= a
    BY CommissionBounded, AmountsAssumption
  <2>4. /\ \A f \in Escrows \ {e} : escrows'[f] = escrows[f]
        /\ escrows'[e].status = "pending_funding" /\ escrows'[e].match = m
        /\ escrows'[e].amount = a /\ escrows'[e].commission = Commission(a)
        /\ escrows'[e].ref = NoRef
    BY <1>1 DEF CreateEscrow, TypeOK
  <2>5. stored' = stored \cup {e} /\ UNCHANGED <<workers, ledger, delivered, onboarded>>
    BY <1>1 DEF CreateEscrow, market
  <2>6. RowsOK' /\ LedgerOK'
    BY <2>2, <2>3, <2>4, <2>5 DEF RowsOK, LedgerOK, ObjectOK
  <2>7. OneEscrowPerMatch'
    BY <1>1, <2>1, <2>4, <2>5 DEF OneEscrowPerMatch, CreateEscrow, Creatable, TypeOK
  <2>8. SettledOnce' /\ CapturedWithinIntent' /\ NothingAdvanced'
    BY <2>5 DEF SettledOnce, Settlements, CapturedWithinIntent, PartOfIntent, NothingAdvanced,
                Held, Of
  <2>9. PaidOnlyIfEarned' /\ FundedHasIntent'
    BY <2>2, <2>4, <2>5 DEF PaidOnlyIfEarned, Earned, FundedHasIntent, Of
  <2>10. RefsOK'
    BY <2>2, <2>4, <2>5 DEF RefsOK, Known, Of, NoRef
  <2>11. WorkersOK' /\ SettlersOK'
    BY <2>2, <2>4, <2>5 DEF WorkersOK, WorkerOK, Earned, SettlersOK, Settling,
                            Settlements, Of, TravelerAmount
  <2> QED
    BY <2>6, <2>7, <2>8, <2>9, <2>10, <2>11 DEF Money
<1>2. ASSUME stored' \subseteq stored, delivered \subseteq delivered',
             onboarded \subseteq onboarded', UNCHANGED <<escrows, workers, ledger>>
      PROVE Money' /\ RefsOK' /\ WorkersOK' /\ SettlersOK'
  <2>1. RowsOK' /\ LedgerOK' /\ OneEscrowPerMatch'
    BY <1>2 DEF RowsOK, LedgerOK, ObjectOK, OneEscrowPerMatch
  <2>2. SettledOnce' /\ CapturedWithinIntent' /\ NothingAdvanced' /\ FundedHasIntent' /\ RefsOK'
    BY <1>2 DEF SettledOnce, Settlements, CapturedWithinIntent, PartOfIntent, NothingAdvanced,
                Held, FundedHasIntent, RefsOK, Known, Of
  <2>3. PaidOnlyIfEarned' /\ WorkersOK' /\ SettlersOK'
    BY <1>2 DEF PaidOnlyIfEarned, Earned, WorkersOK, WorkerOK, SettlersOK,
                Settling, Settlements, Of, TravelerAmount
  <2> QED
    BY <2>1, <2>2, <2>3 DEF Money
<1>3. ASSUME NEW e \in Escrows, DeleteEscrowByUser(e)
      PROVE Money' /\ RefsOK' /\ WorkersOK' /\ SettlersOK'
  BY <1>2, <1>3 DEF DeleteEscrowByUser
<1>4. ASSUME NEW m \in Matches, AddTrackingEvent(m)
      PROVE Money' /\ RefsOK' /\ WorkersOK' /\ SettlersOK'
  BY <1>2, <1>4 DEF AddTrackingEvent
<1>5. ASSUME NEW m \in Matches, NEW v, ReviewPackageVerification(m, v)
      PROVE Money' /\ RefsOK' /\ WorkersOK' /\ SettlersOK'
  BY <1>2, <1>5 DEF ReviewPackageVerification
<1>6. ASSUME NEW u \in Travelers, SetUserPayoutAccount(u) \/ DeleteUserByID(u)
      PROVE Money' /\ RefsOK' /\ WorkersOK' /\ SettlersOK'
  BY <1>2, <1>6 DEF SetUserPayoutAccount, DeleteUserByID
<1>7. ASSUME NEW intent \in ledger, AuthorizeIntent(intent)
      PROVE Money' /\ RefsOK' /\ WorkersOK' /\ SettlersOK'
  <2> DEFINE hold == HoldOf(intent)
  <2>1. /\ hold.kind = "hold" /\ hold.escrow = intent.escrow /\ hold.amount = intent.amount
        /\ intent.kind = "pi" /\ intent.escrow \in Escrows
    BY <1>7 DEF AuthorizeIntent, HoldOf, TypeOK, Objects
  <2>2. ledger' = ledger \cup {hold}
        /\ UNCHANGED <<escrows, stored, delivered, onboarded, workers>>
    BY <1>7 DEF AuthorizeIntent
  <2> HIDE DEF hold
  <2>3. \A f \in Escrows, kind \in {"pi", "capture", "tr", "re", "reversal"} :
            Of(f, kind)' = Of(f, kind)
    BY <2>1, <2>2 DEF Of
  <2>4. \A f \in Escrows : Of(f, "hold") \subseteq Of(f, "hold")'
    BY <2>2 DEF Of
  <2>5. \A o \in ledger : o.escrow \in Escrows
    BY DEF TypeOK, Objects
  <2>6. RowsOK' /\ OneEscrowPerMatch'
    BY <2>2 DEF RowsOK, OneEscrowPerMatch
  <2>7. LedgerOK'
    BY <2>1, <2>2 DEF LedgerOK, ObjectOK
  <2>8. SettledOnce' /\ FundedHasIntent' /\ RefsOK'
    BY <2>2, <2>3 DEF SettledOnce, Settlements, FundedHasIntent, RefsOK, Known
  <2>9. PaidOnlyIfEarned' /\ CapturedWithinIntent'
    BY <2>1, <2>2, <2>3, <2>5 DEF PaidOnlyIfEarned, Earned, CapturedWithinIntent, PartOfIntent
  <2>10. NothingAdvanced'
    BY <2>1, <2>2, <2>3, <2>4, <2>5 DEF NothingAdvanced, Held
  <2>11. WorkersOK'
    BY <2>2, <2>3 DEF WorkersOK, WorkerOK, Earned, TravelerAmount
  <2>12. SettlersOK'
    BY <2>2, <2>3 DEF SettlersOK, Settling, Settlements, WorkersOK, WorkerOK
  <2> QED
    BY <2>6, <2>7, <2>8, <2>9, <2>10, <2>11, <2>12 DEF Money
<1> QED
  BY <1>1, <1>3, <1>4, <1>5, <1>6, <1>7 DEF Others

-----------------------------------------------------------------------------
(* The inductive invariant                                                    *)

LEMMA InitInductive == Init => IInv
<1> SUFFICES ASSUME Init PROVE IInv
  OBVIOUS
<1>0. /\ NoRow.status = "absent" /\ NoRow.ref = NoRef
      /\ NoRow.amount = 0 /\ NoRow.commission = 0
  BY DEF NoRow
<1>1. /\ \A e \in Escrows : /\ escrows[e].status = "absent" /\ escrows[e].ref = NoRef
                             /\ escrows[e].amount = 0 /\ escrows[e].commission = 0
      /\ \A w \in Workers : workers[w] = Idle
      /\ stored = {} /\ ledger = {}
  BY <1>0 DEF Init
<1>2. RowsOK /\ LedgerOK /\ OneEscrowPerMatch /\ NothingAdvanced
  BY <1>1 DEF RowsOK, LedgerOK, OneEscrowPerMatch, NothingAdvanced
<1>3. SettledOnce /\ CapturedWithinIntent /\ FundedHasIntent /\ PaidOnlyIfEarned
  BY <1>1 DEF SettledOnce, Settlements, CapturedWithinIntent, FundedHasIntent, PaidOnlyIfEarned, Of
<1>4. Idle.pc = "idle" /\ Idle.escrow \notin Escrows /\ NoRef.kind = "none"
  BY NullsAssumption DEF Idle, NoRef
<1>5. RefsOK /\ WorkersOK /\ SettlersOK
  BY <1>1, <1>4 DEF RefsOK, Known, WorkersOK, WorkerOK, SettlersOK, Settling
<1> QED
  BY <1>2, <1>3, <1>5, InitType DEF IInv

LEMMA StepInductive == IInv /\ [Next]_vars => IInv'
<1> SUFFICES ASSUME IInv, [Next]_vars PROVE IInv'
  OBVIOUS
<1>1. TypeOK'
  BY TypeStep DEF IInv
<1>2. CASE \E w \in Workers : StartRequest(w)
  BY <1>1, <1>2, QuietStep, RowStep DEF StartRequest, IInv, Money
<1>3. CASE \E w \in Workers : Continue(w)
  BY <1>1, <1>3, QuietStep, RowStep, RecordStep, LedgerStep DEF Continue, IInv, Money
<1>4. CASE Others
  BY <1>1, <1>4, OtherStep DEF IInv, Money
<1>5. CASE UNCHANGED vars
  <2>1. RefsOK' /\ WorkersOK' /\ SettlersOK'
    BY <1>5 DEF vars, IInv, RefsOK, Known, Of, WorkersOK, WorkerOK, Earned, TravelerAmount,
                SettlersOK, Settling, Settlements
  <2> QED
    BY <1>1, <1>5, <2>1, MoneyUntouched DEF vars, IInv, Money
<1> QED
  BY <1>2, <1>3, <1>4, <1>5 DEF Next

THEOREM Inductive == Spec => []IInv
  BY InitInductive, StepInductive, PTL DEF Spec

(* Every variable keeps its type: in particular no amount sent to the provider *)
(* is negative, and no handler loses the escrow or the key it works with.      *)
THEOREM TypeCorrect == Spec => []TypeOK
<1>1. IInv => TypeOK
  BY DEF IInv
<1> QED
  BY Inductive, <1>1, PTL

(* The money of an escrow leaves the platform at most once.                   *)
THEOREM SettledAtMostOnce == Spec => []SettledOnce
<1>1. IInv => SettledOnce
  BY DEF IInv
<1> QED
  BY Inductive, <1>1, PTL

(* Only released, delivered escrows of onboarded travelers are paid out.      *)
THEOREM PaymentIsEarned == Spec => []PaidOnlyIfEarned
<1>1. IInv => PaidOnlyIfEarned
  BY DEF IInv
<1> QED
  BY Inductive, <1>1, PTL

(* A row that was ever funded has an intent of its full amount behind it, held *)
(* or waiting: a fund request whose hold failed funds nothing.                *)
THEOREM FundsHaveIntent == Spec => []FundedHasIntent
<1>1. IInv => FundedHasIntent
  BY DEF IInv
<1> QED
  BY Inductive, <1>1, PTL

(* What a payout captures or asks to capture is part of an intent made for the *)
(* same escrow.                                                               *)
THEOREM CapturesAreOwn == Spec => []CaptureWithinIntent
<1>1. ASSUME IInv, NEW w \in Workers, workers[w].pc = "capture"
      PROVE PartOfIntent(workers[w].escrow, workers[w].ref.key,
                         TravelerAmount(workers[w].escrow))
  <2> DEFINE e == workers[w].escrow
  <2>1. e \in Escrows /\ workers[w].ref.kind = "pi"
    BY <1>1 DEF IInv, WorkersOK, WorkerOK
  <2>2. PICK i \in Of(e, "pi") : i.key = workers[w].ref.key
    BY <1>1, <2>1 DEF IInv, RefsOK, Known
  <2>3. i.amount = escrows[e].amount
    BY <1>1, <2>2 DEF IInv, LedgerOK, ObjectOK, Of
  <2>4. TravelerAmount(e) <= escrows[e].amount
    BY <1>1, <2>1 DEF IInv, TypeOK, Rows, RowsOK, TravelerAmount
  <2> QED
    BY <2>2, <2>3, <2>4 DEF PartOfIntent
<1>2. IInv => CaptureWithinIntent
  BY <1>1 DEF IInv, CaptureWithinIntent
<1> QED
  BY Inductive, <1>2, PTL

(* Nobody is paid out of the platform's own pocket, and no transfer is ever   *)
(* taken back: the provider's branch for it is not reached.                   *)
THEOREM PlatformNeverAdvances == Spec => []NothingAdvanced
<1>1. IInv => NothingAdvanced
  BY DEF IInv
<1> QED
  BY Inductive, <1>1, PTL

(* A match never has two escrows.                                             *)
THEOREM OneEscrow == Spec => []OneEscrowPerMatch
<1>1. IInv => OneEscrowPerMatch
  BY DEF IInv
<1> QED
  BY Inductive, <1>1, PTL
=============================================================================
