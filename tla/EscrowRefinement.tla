-------------------------- MODULE EscrowRefinement --------------------------
(***************************************************************************)
(* EscrowPayments implements EscrowContract, and the two properties of its *)
(* steps: a deleted row is final, and an event is applied by one delivery. *)
(***************************************************************************)
EXTENDS EscrowPayments_proofs

USE DEF market

Status == [e \in Escrows |-> escrows[e].status]
Match == [e \in Escrows |-> escrows[e].match]

(* Only a transfer or a refund moves the money of an escrow.                  *)
LEMMA MovedSame ==
    ASSUME \A e \in Escrows, kind \in {"tr", "re"} : Of(e, kind)' = Of(e, kind)
    PROVE Moved' = Moved
<1>1. \A e \in Escrows : Of(e, "tr")' = Of(e, "tr") /\ Of(e, "re")' = Of(e, "re")
  OBVIOUS
<1> QED
  BY <1>1 DEF Moved

(* What SetStatus does to the lifecycle.                                      *)
LEMMA StatusMoves ==
    ASSUME TypeOK, NEW e \in Escrows, NEW to, SetStatus(e, to)
    PROVE Status' = [Status EXCEPT ![e] = to] /\ Match' = Match
<1>1. /\ escrows'[e].status = to /\ escrows'[e].match = escrows[e].match
      /\ \A f \in Escrows \ {e} : escrows'[f] = escrows[f]
  BY DEF SetStatus, TypeOK, Rows
<1> QED
  BY <1>1 DEF Status, Match

LEMMA ContractInit == Init => Contract!Init
<1> SUFFICES ASSUME Init PROVE Contract!Init
  OBVIOUS
<1>1. NoRow.status = "absent" /\ NoRow.match = NoMatch
  BY DEF NoRow
<1>2. \A e \in Escrows : /\ escrows[e].status = "absent" /\ escrows[e].match = NoMatch
                         /\ Of(e, "tr") = {} /\ Of(e, "re") = {}
  BY <1>1 DEF Init, Of
<1>3. stored = {} /\ delivered = {}
  BY DEF Init
<1> QED
  BY <1>2, <1>3 DEF Contract!Init, Moved

(* A handler that moves a row takes the step of the contract of that name.    *)
LEMMA RowRefines ==
    ASSUME IInv, NEW w \in Workers,
           \/ FundEscrow(w) \/ ReleaseEscrow(w) \/ RefundEscrow(w)
           \/ \E e \in Escrows : DisputeEscrow(w, e)
    PROVE [Contract!Next]_(Contract!vars)
<1> USE DEF IInv
<1>1. UNCHANGED <<stored, delivered, ledger>>
  BY DEF FundEscrow, ReleaseEscrow, RefundEscrow, DisputeEscrow
<1>2. Moved' = Moved
  BY <1>1, MovedSame DEF Of
<1>3. ASSUME NEW e \in stored, NEW to, SetStatus(e, to),
             <<escrows[e].status, to>> \in
                {<<"pending_funding", "funded">>, <<"funded", "released">>,
                 <<"funded", "disputed">>, <<"funded", "refunded">>, <<"disputed", "refunded">>},
             to = "released" => escrows[e].match \in delivered
      PROVE \E f \in Escrows : Contract!Fund(f) \/ Contract!Release(f)
                               \/ Contract!Dispute(f) \/ Contract!Refund(f)
  <2>1. /\ e \in Escrows /\ Status[e] = escrows[e].status /\ Match[e] = escrows[e].match
        /\ Status' = [Status EXCEPT ![e] = to] /\ Match' = Match
    BY <1>3, StatusMoves DEF TypeOK, Status, Match
  <2> QED
    BY <1>1, <1>2, <1>3, <2>1 DEF Status, Match, Contract!Fund, Contract!Release, Contract!Dispute,
                                  Contract!Refund, Contract!Advance
<1>4. CASE UNCHANGED escrows
  BY <1>1, <1>2, <1>4 DEF Contract!vars
<1>5. ASSUME \E f \in Escrows : Contract!Fund(f) \/ Contract!Release(f)
                                \/ Contract!Dispute(f) \/ Contract!Refund(f)
      PROVE Contract!Next
  BY <1>5 DEF Contract!Next
<1>6. CASE FundEscrow(w)
  BY <1>3, <1>4, <1>5, <1>6 DEF FundEscrow, Fundable
<1>7. CASE ReleaseEscrow(w)
  BY <1>3, <1>4, <1>5, <1>7 DEF ReleaseEscrow, Releasable
<1>8. CASE RefundEscrow(w)
  BY <1>3, <1>4, <1>5, <1>8 DEF RefundEscrow, Refundable
<1>9. CASE \E e \in Escrows : DisputeEscrow(w, e)
  BY <1>3, <1>5, <1>9 DEF DisputeEscrow, Disputable
<1> QED
  BY <1>6, <1>7, <1>8, <1>9

(* A transfer pays the traveler and a refund returns the money, once.         *)
LEMMA LedgerRefines ==
    ASSUME IInv, NEW w \in Workers, NEW answer \in Answers,
           \/ CreateEscrowHold(w, answer) \/ CapturePayment(w, answer)
           \/ TransferPayout(w, answer) \/ RefundPayment(w, answer)
    PROVE [Contract!Next]_(Contract!vars)
<1> USE DEF IInv
<1> DEFINE e == workers[w].escrow
<1>1. UNCHANGED <<escrows, stored, delivered>>
  BY DEF CreateEscrowHold, CapturePayment, TransferPayout, RefundPayment
<1>2. WorkerOK(w) /\ (Settling(w) => Settlements(e) = {})
  BY DEF WorkersOK, SettlersOK
<1>3. ASSUME \A f \in Escrows, kind \in {"tr", "re"} : Of(f, kind)' = Of(f, kind)
      PROVE [Contract!Next]_(Contract!vars)
  BY <1>1, <1>3, MovedSame DEF Contract!vars
<1>4. CASE ledger' = ledger
  BY <1>3, <1>4 DEF Of
<1>5. ASSUME NEW obj, ledger' = ledger \cup {obj}, obj.kind \notin {"tr", "re"}
      PROVE [Contract!Next]_(Contract!vars)
  BY <1>3, <1>5 DEF Of
<1>6. CASE CreateEscrowHold(w, answer)
  <2> DEFINE obj == [kind |-> "pi", escrow |-> e, key |-> workers[w].key,
                     amount |-> escrows[e].amount]
  <2>1. \/ ledger' = ledger
        \/ ledger' = ledger \cup {obj}
        \/ ledger' = ledger \cup {obj, HoldOf(obj)}
    BY <1>6 DEF CreateEscrowHold, MakeIntent
  <2>2. obj.kind = "pi" /\ HoldOf(obj).kind = "hold"
    BY DEF HoldOf
  <2> HIDE DEF obj
  <2> QED
    BY <1>3, <2>1, <2>2 DEF Of
<1>7. CASE CapturePayment(w, answer)
  <2> DEFINE obj == [kind |-> "capture", escrow |-> e, key |-> workers[w].ref.key,
                     amount |-> TravelerAmount(e)]
  <2>1. ledger' = ledger \/ ledger' = ledger \cup {obj}
    BY <1>7 DEF CapturePayment
  <2>2. obj.kind = "capture"
    OBVIOUS
  <2> HIDE DEF obj
  <2> QED
    BY <1>4, <1>5, <2>1, <2>2
<1>8. ASSUME NEW g \in Escrows, g = e, NEW obj, obj.escrow = g, obj.kind \in {"tr", "re"},
             ledger' = ledger \cup {obj}, Settling(w),
             obj.kind = "tr" => escrows[g].status = "released",
             obj.kind = "re" => escrows[g].status = "refunded"
      PROVE [Contract!Next]_(Contract!vars)
  <2>1. Of(g, "tr") = {} /\ Of(g, "re") = {}
    BY <1>2, <1>8 DEF Settlements
  <2>2. \A f \in Escrows \ {g} : Of(f, "tr")' = Of(f, "tr") /\ Of(f, "re")' = Of(f, "re")
    BY <1>8 DEF Of
  <2>3. Status[g] = escrows[g].status /\ Moved[g] = "nowhere"
    BY <1>8, <2>1 DEF Status, Moved
  <2>4. CASE obj.kind = "tr"
    <3>1. obj \in Of(g, "tr")'
      BY <1>8, <2>4 DEF Of
    <3>2. Moved' = [Moved EXCEPT ![g] = "traveler"]
      BY <1>8, <2>2, <3>1 DEF Moved
    <3>3. Contract!Pay(g)
      BY <1>1, <1>8, <2>3, <2>4, <3>2 DEF Status, Contract!Pay, Contract!Move
    <3> QED
      BY <1>8, <3>3 DEF Contract!Next
  <2>5. CASE obj.kind = "re"
    <3>1. obj \in Of(g, "re")' /\ Of(g, "tr")' = {}
      BY <1>8, <2>1, <2>5 DEF Of
    <3>2. Moved' = [Moved EXCEPT ![g] = "client"]
      BY <1>8, <2>2, <3>1 DEF Moved
    <3>3. Contract!Return(g)
      BY <1>1, <1>8, <2>3, <2>5, <3>2 DEF Status, Contract!Return, Contract!Move
    <3> QED
      BY <1>8, <3>3 DEF Contract!Next
  <2> QED
    BY <1>8, <2>4, <2>5
<1>9. CASE TransferPayout(w, answer)
  <2> DEFINE obj == [kind |-> "tr", escrow |-> e, key |-> workers[w].key,
                     amount |-> TravelerAmount(e)]
  <2>1. ledger' = ledger \/ ledger' = ledger \cup {obj}
    BY <1>9 DEF TransferPayout
  <2>2. obj.kind = "tr" /\ obj.escrow = e
    OBVIOUS
  <2> HIDE DEF obj
  <2>3. Settling(w) /\ e \in Escrows /\ escrows[e].status = "released"
    BY <1>2, <1>9 DEF TransferPayout, At, Settling, WorkerOK, Earned
  <2> QED
    BY <1>4, <1>8, <2>1, <2>2, <2>3
<1>10. CASE RefundPayment(w, answer)
  <2> DEFINE obj == [kind |-> IF workers[w].ref.kind = "pi" THEN "re" ELSE "reversal",
                     escrow |-> e, key |-> workers[w].key, amount |-> escrows[e].amount]
  <2>1. ledger' = ledger \/ ledger' = ledger \cup {obj}
    BY <1>10 DEF RefundPayment
  <2>2. obj.kind \in {"re", "reversal"} /\ obj.escrow = e
    OBVIOUS
  <2> HIDE DEF obj
  <2>3. Settling(w) /\ e \in Escrows /\ escrows[e].status = "refunded"
    BY <1>2, <1>10 DEF RefundPayment, At, Settling, WorkerOK
  <2> QED
    BY <1>4, <1>5, <1>8, <2>1, <2>2, <2>3
<1> QED
  BY <1>6, <1>7, <1>9, <1>10

(* All other steps create or delete an escrow, or are invisible.              *)
LEMMA OtherRefines ==
    ASSUME IInv, Others
    PROVE [Contract!Next]_(Contract!vars)
<1> USE DEF IInv
<1>1. ASSUME NEW intent \in ledger, AuthorizeIntent(intent)
      PROVE \A e \in Escrows, kind \in {"tr", "re"} : Of(e, kind)' = Of(e, kind)
  <2>1. HoldOf(intent).kind = "hold" /\ ledger' = ledger \cup {HoldOf(intent)}
    BY <1>1 DEF AuthorizeIntent, HoldOf, TypeOK, Objects
  <2> QED
    BY <2>1 DEF Of
<1>2. Moved' = Moved
  <2>1. \/ UNCHANGED ledger
        \/ \E intent \in ledger : AuthorizeIntent(intent)
    BY DEF Others, CreateEscrow, DeleteEscrowByUser, AddTrackingEvent, ReviewPackageVerification,
           SetUserPayoutAccount, DeleteUserByID
  <2>2. CASE UNCHANGED ledger
    BY <2>2, MovedSame DEF Of
  <2>3. CASE \E intent \in ledger : AuthorizeIntent(intent)
    BY <1>1, <2>3, MovedSame
  <2> QED
    BY <2>1, <2>2, <2>3
<1>3. ASSUME NEW e \in Escrows, NEW m \in Matches, NEW a \in Amounts, CreateEscrow(e, m, a)
      PROVE Contract!Create(e, m)
  <2>0. NoRow.status = "absent"
    BY DEF NoRow
  <2>1. escrows[e].status = "absent" /\ stored' = stored \cup {e} /\ UNCHANGED delivered
    BY <1>3, <2>0 DEF CreateEscrow
  <2>2. /\ escrows'[e].status = "pending_funding" /\ escrows'[e].match = m
        /\ \A f \in Escrows \ {e} : escrows'[f] = escrows[f]
    BY <1>3 DEF CreateEscrow, TypeOK
  <2>3. /\ Status' = [Status EXCEPT ![e] = "pending_funding"] /\ Status[e] = "absent"
        /\ Match' = [Match EXCEPT ![e] = m]
    BY <2>1, <2>2 DEF Status, Match
  <2>4. \A f \in stored : Match[f] # m
    BY <1>3 DEF CreateEscrow, Creatable, Match, TypeOK
  <2> QED
    BY <1>2, <2>1, <2>3, <2>4 DEF Status, Match, Contract!Create
<1>4. ASSUME NEW e \in Escrows, DeleteEscrowByUser(e) PROVE Contract!Delete(e)
  BY <1>2, <1>4 DEF DeleteEscrowByUser, Contract!Delete
<1>5. ASSUME NEW m \in Matches, AddTrackingEvent(m) PROVE Contract!Deliver(m)
  BY <1>2, <1>5 DEF AddTrackingEvent, Contract!Deliver
<1>6. CASE UNCHANGED <<escrows, stored, delivered>>
  BY <1>2, <1>6 DEF Contract!vars
<1> QED
  BY <1>3, <1>4, <1>5, <1>6 DEF Others, Contract!Next, ReviewPackageVerification,
                               SetUserPayoutAccount, DeleteUserByID, AuthorizeIntent

LEMMA ContractStep == IInv /\ [Next]_vars => [Contract!Next]_(Contract!vars)
<1> SUFFICES ASSUME IInv, [Next]_vars PROVE [Contract!Next]_(Contract!vars)
  OBVIOUS
<1>1. ASSUME UNCHANGED <<stored, delivered, ledger>>,
             \A e \in Escrows : /\ escrows'[e].status = escrows[e].status
                                /\ escrows'[e].match = escrows[e].match
      PROVE [Contract!Next]_(Contract!vars)
  <2>1. Moved' = Moved
    BY <1>1, MovedSame DEF Of
  <2> QED
    BY <1>1, <2>1 DEF Contract!vars
<1>2. ASSUME NEW w \in Workers, SetEscrowPayout(w) PROVE [Contract!Next]_(Contract!vars)
  <2>1. \A e \in Escrows : /\ escrows'[e].status = escrows[e].status
                           /\ escrows'[e].match = escrows[e].match
    BY <1>2 DEF SetEscrowPayout, IInv, TypeOK, Rows
  <2> QED
    BY <1>1, <1>2, <2>1 DEF SetEscrowPayout
<1>3. ASSUME NEW w \in Workers, StartRequest(w) PROVE [Contract!Next]_(Contract!vars)
  <2>1. CASE \E e \in Escrows : DisputeEscrow(w, e)
    BY <2>1, RowRefines
  <2>2. CASE UNCHANGED <<escrows, stored, delivered, ledger>>
    BY <1>1, <2>2
  <2> QED
    BY <1>3, <2>1, <2>2 DEF StartRequest, StartFund, StartRelease, StartRefund, StartWebhook
<1>4. ASSUME NEW w \in Workers, Continue(w) PROVE [Contract!Next]_(Contract!vars)
  <2>1. CASE CheckPackage(w) \/ CheckTraveler(w) \/ CreatePaymentEvent(w)
    BY <1>1, <2>1 DEF CheckPackage, CheckTraveler, CreatePaymentEvent
  <2> QED
    BY <1>2, <1>4, <2>1, RowRefines, LedgerRefines DEF Continue
<1>5. CASE UNCHANGED vars
  BY <1>1, <1>5 DEF vars
<1> QED
  BY <1>3, <1>4, <1>5, OtherRefines DEF Next

(* Whatever requests race, calls are lost and events arrive, an observer of   *)
(* the rows and of the provider sees the contract and nothing else.           *)
THEOREM Refinement == Spec => ImplementsContract
  BY ContractInit, ContractStep, Inductive, PTL DEF Spec, ImplementsContract, Contract!Spec

-----------------------------------------------------------------------------
(* Steps                                                                      *)

(* A row that left the repository is not written again by whoever still works *)
(* on it: every update looks the row up under the lock that writes it.        *)
LEMMA DeletedRowStep ==
    ASSUME TypeOK, [Next]_vars, NEW e \in Escrows, escrows[e] # NoRow, e \notin stored
    PROVE e \notin stored' /\ escrows'[e] = escrows[e]
<1> USE DEF TypeOK
<1>1. CASE UNCHANGED <<escrows, stored>>
  BY <1>1
<1>2. ASSUME NEW f \in stored, NEW to, SetStatus(f, to), UNCHANGED stored
      PROVE e \notin stored' /\ escrows'[e] = escrows[e]
  BY <1>2 DEF SetStatus
<1>3. ASSUME NEW w \in Workers, StartRequest(w)
      PROVE e \notin stored' /\ escrows'[e] = escrows[e]
  BY <1>1, <1>2, <1>3 DEF StartRequest, StartFund, StartRelease, StartRefund, DisputeEscrow,
                          Disputable, StartWebhook
<1>4. ASSUME NEW w \in Workers, Continue(w)
      PROVE e \notin stored' /\ escrows'[e] = escrows[e]
  <2>1. CASE FundEscrow(w) \/ ReleaseEscrow(w) \/ RefundEscrow(w)
    BY <1>1, <1>2, <2>1 DEF FundEscrow, Fundable, ReleaseEscrow, Releasable, RefundEscrow,
                            Refundable
  <2>2. CASE SetEscrowPayout(w)
    BY <2>2 DEF SetEscrowPayout
  <2>3. CASE CheckPackage(w) \/ CheckTraveler(w) \/ CreatePaymentEvent(w)
    BY <1>1, <2>3 DEF CheckPackage, CheckTraveler, CreatePaymentEvent
  <2>4. ASSUME NEW answer \in Answers,
               \/ CreateEscrowHold(w, answer) \/ CapturePayment(w, answer)
               \/ TransferPayout(w, answer) \/ RefundPayment(w, answer)
        PROVE e \notin stored' /\ escrows'[e] = escrows[e]
    BY <1>1, <2>4 DEF CreateEscrowHold, CapturePayment, TransferPayout, RefundPayment
  <2> QED
    BY <1>4, <2>1, <2>2, <2>3, <2>4 DEF Continue
<1>5. CASE Others
  <2>1. ASSUME NEW f \in Escrows, NEW m \in Matches, NEW a \in Amounts, CreateEscrow(f, m, a)
        PROVE e \notin stored' /\ escrows'[e] = escrows[e]
    BY <2>1 DEF CreateEscrow
  <2> QED
    BY <1>1, <1>5, <2>1 DEF Others, DeleteEscrowByUser, AddTrackingEvent,
       ReviewPackageVerification, SetUserPayoutAccount, DeleteUserByID, AuthorizeIntent
<1>6. CASE UNCHANGED vars
  BY <1>6 DEF vars
<1> QED
  BY <1>3, <1>4, <1>5, <1>6 DEF Next

(* No handler brings a deleted escrow back or changes what it was last.       *)
THEOREM DeletionIsFinal == Spec => DeletedIsFinal
<1>1. TypeOK /\ [Next]_vars =>
        [\A e \in Escrows : escrows[e] # NoRow /\ e \notin stored =>
            e \notin stored' /\ escrows'[e] = escrows[e]]_vars
  BY DeletedRowStep
<1> QED
  BY <1>1, TypeCorrect, PTL DEF Spec, DeletedIsFinal

(* A worker leaves the webhook's insert for the update only when it inserted. *)
LEMMA EventStep ==
    ASSUME TypeOK, [Next]_vars, NEW v \in Workers,
           workers[v].pc = "event", workers'[v].pc = "record"
    PROVE EventOf(v) \in events' \ events
<1> USE DEF TypeOK
<1>1. Idle.pc = "idle"
  BY DEF Idle
<1>3. CASE UNCHANGED workers
  BY <1>3
<1>4. ASSUME NEW w \in Workers, NEW s, Begin(w, s) PROVE FALSE
  BY <1>4 DEF Begin
<1>5. ASSUME NEW w \in Workers, StartRequest(w) PROVE FALSE
  BY <1>4, <1>5 DEF StartRequest, StartFund, StartRelease, StartRefund, DisputeEscrow,
                    StartWebhook
<1>6. ASSUME NEW w \in Workers, CreatePaymentEvent(w) PROVE EventOf(v) \in events' \ events
  <2>1. CASE w = v
    <3>1. EventOf(v) \notin events
      BY <1>1, <1>6, <2>1 DEF CreatePaymentEvent, Finish
    <3> QED
      BY <1>6, <2>1, <3>1 DEF CreatePaymentEvent
  <2>2. CASE w # v
    BY <1>6, <2>2 DEF CreatePaymentEvent, Finish, Record
  <2> QED
    BY <2>1, <2>2
<1>7. ASSUME NEW w \in Workers,
             \/ FundEscrow(w) \/ CheckPackage(w) \/ CheckTraveler(w) \/ ReleaseEscrow(w)
             \/ RefundEscrow(w) \/ SetEscrowPayout(w)
             \/ \E answer \in Answers :
                   \/ CreateEscrowHold(w, answer) \/ CapturePayment(w, answer)
                   \/ TransferPayout(w, answer) \/ RefundPayment(w, answer)
      PROVE FALSE
  <2>1. workers[w].pc # "event"
    BY <1>7 DEF At, FundEscrow, CheckPackage, CheckTraveler, ReleaseEscrow, RefundEscrow,
                SetEscrowPayout, CreateEscrowHold, CapturePayment, TransferPayout, RefundPayment
  <2>2. workers'[v] = workers[v]
    BY <1>7, <2>1 DEF Goto, Finish, Record, FundEscrow, CheckPackage, CheckTraveler,
                ReleaseEscrow, RefundEscrow, SetEscrowPayout, CreateEscrowHold, CapturePayment,
                TransferPayout, RefundPayment
  <2> QED
    BY <2>2
<1>8. CASE Others
  BY <1>3, <1>8 DEF Others, CreateEscrow, DeleteEscrowByUser, AddTrackingEvent,
     ReviewPackageVerification, SetUserPayoutAccount, DeleteUserByID, AuthorizeIntent
<1>9. CASE UNCHANGED vars
  BY <1>3, <1>9 DEF vars
<1> QED
  BY <1>5, <1>6, <1>7, <1>8, <1>9 DEF Next, Continue

(* However often an event is delivered, one delivery applies it.              *)
THEOREM EventsAppliedOnce == Spec => EventAppliedOnce
<1>1. TypeOK /\ [Next]_vars =>
        [\A w \in Workers : workers[w].pc = "event" /\ workers'[w].pc = "record" =>
            EventOf(w) \in events' \ events]_vars
  BY EventStep
<1> QED
  BY <1>1, TypeCorrect, PTL DEF Spec, EventAppliedOnce
=============================================================================
