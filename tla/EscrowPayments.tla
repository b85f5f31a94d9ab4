--------------------------- MODULE EscrowPayments ---------------------------
(***************************************************************************)
(* The money path of the marketplace: the escrow rows of the repository,   *)
(* the HTTP handlers that move them (fund, release, refund, dispute,       *)
(* create, delete, provider webhook) and the objects those handlers leave  *)
(* at the payment provider.                                                *)
(*                                                                         *)
(* Every request is served by a goroutine of its own, and the only thing   *)
(* two of them share is the repository, whose every method runs under one  *)
(* mutex.  A worker below is such a goroutine: one step of it is one       *)
(* repository call or one call to the provider, and steps of different     *)
(* workers interleave.  A request the handler turns away at its first read *)
(* changes nothing, so it is a stuttering step and has no action.          *)
(*                                                                         *)
(* The store is MemoryStore, the one the API runs on without DATABASE_URL. *)
(* Left out: the insurance fields of a row, its time stamps, the text of a *)
(* payout status (only the call that wrote it is told apart).  Amounts are *)
(* whole minor units and the commission is rounded down, where the code    *)
(* computes in floats and rounds when it calls the provider.               *)
(***************************************************************************)
EXTENDS Naturals

CONSTANTS
    Escrows,        \* escrow ids the store can issue, none of them twice
    Matches,        \* matches, which no handler ever deletes
    Travelers,      \* users who travel; only their accounts matter to a release
    TravelerOf,     \* owner of the listing of a match
    Keys,           \* idempotency keys: the caller's default one or a header
    Workers,        \* goroutines serving requests
    Amounts,        \* escrow amounts, in minor units
    CommissionPercent,
    Answers,        \* how a call to the provider may end, see below
    Standings,      \* how a payment intent may stand when it is made, see below
    EventKinds,     \* kinds of provider objects whose events reach the webhook
    EventTypes,     \* types of events the provider sends about one object
    NoEscrow, NoMatch, NoKey, NoType

ASSUME PartiesAssumption == TravelerOf \in [Matches -> Travelers]

ASSUME AmountsAssumption ==
    /\ Amounts \subseteq Nat \ {0}
    /\ CommissionPercent \in 0 .. 100

\* "ok": done and answered.  "refused": an error, nothing done.  "lost": done,
\* but the 20 second timeout or the connection hides the answer.  An intent may
\* hold the client's money at once or wait for the client or a bank (status
\* requires_action or processing): the provider answers both with a 200.
ASSUME AnswersAssumption ==
    /\ Answers \subseteq {"ok", "refused", "lost"}
    /\ Standings \subseteq {"held", "waiting"}
    /\ EventKinds \subseteq {"pi", "ch", "tr", "re"}

ASSUME NullsAssumption ==
    /\ NoEscrow \notin Escrows
    /\ NoMatch \notin Matches
    /\ NoKey \notin Keys
    /\ NoType \notin EventTypes

VARIABLES
    escrows,     \* rows by id, those of deleted escrows as they were last
    stored,      \* ids of the rows in the repository
    delivered,   \* matches with a tracking event "delivered"
    approved,    \* matches whose request has an approved package verification
    users,       \* travelers whose account exists
    onboarded,   \* travelers whose record carries a payout account
    workers,     \* what each goroutine is doing
    ledger,      \* objects that exist at the payment provider
    events       \* webhook events in paymentEvents

vars == <<escrows, stored, delivered, approved, users, onboarded, workers, ledger, events>>
market == <<delivered, approved, users, onboarded>>

-----------------------------------------------------------------------------
(* Data *)

Statuses == {"absent", "pending_funding", "funded", "released", "refunded", "disputed"}
PayoutStatuses == {"", "hold", "payout_queued", "payout_failed", "refunded", "disputed", "webhook"}

\* What PayoutReference can hold: nothing, a payment intent (pi_), its charge
\* (ch_), a transfer (tr_) or a refund (re_).  Objects are named by the
\* idempotency key they were made with: the provider answers a repeated key
\* with the object it already made.
Refs == [kind : {"none", "pi", "ch", "tr", "re"}, key : Keys \cup {NoKey}]
NoRef == [kind |-> "none", key |-> NoKey]

Rows == [status : Statuses, match : Matches \cup {NoMatch}, amount : Nat, commission : Nat,
         ref : Refs, payout : PayoutStatuses]
NoRow == [status |-> "absent", match |-> NoMatch,
          amount |-> 0, commission |-> 0, ref |-> NoRef, payout |-> ""]

\* A payment intent, the hold on the client's money once the intent has one, the
\* capture of it, a transfer to the traveler's account, a refund of a payment
\* intent, the reversal of a transfer.
Objects == [kind : {"pi", "hold", "capture", "tr", "re", "reversal"},
            escrow : Escrows, key : Keys, amount : Nat]

PCs == {"idle", "hold", "fundRow", "packageCheck", "travelerCheck", "releaseRow",
        "capture", "transfer", "refundRow", "refundCall", "event", "record"}

WorkerStates == [pc : PCs, escrow : Escrows \cup {NoEscrow}, key : Keys \cup {NoKey},
                 ref : Refs, payout : PayoutStatuses, type : EventTypes \cup {NoType}]
Idle == [pc |-> "idle", escrow |-> NoEscrow, key |-> NoKey,
         ref |-> NoRef, payout |-> "", type |-> NoType]

\* An event has an id of its own: one of each type about each object.  An
\* account event names no escrow.
Events == [type : EventTypes, escrow : Escrows \cup {NoEscrow}, ref : Refs]

Of(e, kind) == {o \in ledger : o.escrow = e /\ o.kind = kind}

\* The provider captures and refunds an intent only once it holds the money.
HoldOf(intent) == [intent EXCEPT !.kind = "hold"]
Held(e, k) == \E h \in Of(e, "hold") : h.key = k

Commission(amount) == (amount * CommissionPercent) \div 100
TravelerAmount(e) == escrows[e].amount - escrows[e].commission

Init ==
    /\ escrows = [e \in Escrows |-> NoRow]
    /\ stored = {}
    /\ delivered = {}
    /\ approved = Matches
    /\ users = Travelers
    /\ onboarded = {}
    /\ workers = [w \in Workers |-> Idle]
    /\ ledger = {}
    /\ events = {}

-----------------------------------------------------------------------------
(* Guards of the repository *)

\* CreateEscrow: no other row for this match.
Creatable(m) == \A e \in stored : escrows[e].match # m

Fundable(e) == e \in stored /\ escrows[e].status = "pending_funding"

\* Mutant: the lock on delivery is forgotten.
ReleasableUndelivered(e) == e \in stored /\ escrows[e].status = "funded"

Releasable(e) ==
    /\ e \in stored
    /\ escrows[e].status = "funded"
    /\ escrows[e].match \in delivered

\* Mutant: a refund after the release.
RefundableOnceReleased(e) ==
    e \in stored /\ escrows[e].status \in {"funded", "disputed", "released"}

Refundable(e) == e \in stored /\ escrows[e].status \in {"funded", "disputed"}

\* Mutant: a dispute after the release.
DisputableOnceReleased(e) == e \in stored /\ escrows[e].status \in {"funded", "released"}

Disputable(e) == e \in stored /\ escrows[e].status = "funded"

\* Mutant: whatever reference the row holds is captured.
CapturableWhatever(e, ref) == TravelerAmount(e) > 0

\* What ReleasePayout checks before its first request: it captures payment
\* intents only, and positive amounts only.
Capturable(e, ref) == ref.kind = "pi" /\ TravelerAmount(e) > 0

-----------------------------------------------------------------------------
(* Steps of a worker *)

Begin(w, state) == workers[w].pc = "idle" /\ workers' = [workers EXCEPT ![w] = state]
At(w, pc) == workers[w].pc = pc
Goto(w, pc) == workers' = [workers EXCEPT ![w].pc = pc]
Finish(w) == workers' = [workers EXCEPT ![w] = Idle]
Record(w, ref, payout) ==
    workers' = [workers EXCEPT ![w] =
        [@ EXCEPT !.pc = "record", !.ref = ref, !.payout = payout]]

Task(pc, e, k, ref) ==
    [pc |-> pc, escrow |-> e, key |-> k, ref |-> ref, payout |-> "", type |-> NoType]

SetStatus(e, status) == escrows' = [escrows EXCEPT ![e].status = status]

\* Mutant: an upsert instead of an update.
SetEscrowPayoutUpsert(w) ==
    LET e == workers[w].escrow IN
    /\ At(w, "record")
    /\ escrows' = [escrows EXCEPT ![e].ref = workers[w].ref, ![e].payout = workers[w].payout]
    /\ stored' = stored \cup {e}
    /\ Finish(w)
    /\ UNCHANGED <<market, ledger, events>>

\* SetEscrowPayout, the last repository call of every handler below.  Its error
\* (the row is gone) is dropped by all of them.
SetEscrowPayout(w) ==
    LET e == workers[w].escrow IN
    /\ At(w, "record")
    /\ escrows' = IF e \in stored
                  THEN [escrows EXCEPT ![e].ref = workers[w].ref,
                                       ![e].payout = workers[w].payout]
                  ELSE escrows
    /\ Finish(w)
    /\ UNCHANGED <<stored, market, ledger, events>>

-----------------------------------------------------------------------------
(* fund *)

StartFund(w, e, k) ==
    /\ e \in stored
    /\ escrows[e].status \notin {"funded", "released"}
    /\ Begin(w, Task("hold", e, k, NoRef))
    /\ UNCHANGED <<escrows, stored, market, ledger, events>>

\* An intent made again under its key is the intent that is there.
MakeIntent(intent, answer) ==
    \/ answer = "refused" /\ UNCHANGED ledger
    \/ /\ answer # "refused"
       /\ \/ "held" \in Standings /\ ledger' = ledger \cup {intent, HoldOf(intent)}
          \/ "waiting" \in Standings /\ ledger' = ledger \cup {intent}

\* Mutant: the error of the provider is not looked at.
CreateEscrowHoldUnchecked(w, answer) ==
    LET e == workers[w].escrow
        intent == [kind |-> "pi", escrow |-> e, key |-> workers[w].key,
                   amount |-> escrows[e].amount]
    IN
    /\ At(w, "hold")
    /\ MakeIntent(intent, answer)
    /\ workers' = [workers EXCEPT ![w] =
           Task("fundRow", e, @.key, [kind |-> "pi", key |-> @.key])]
    /\ UNCHANGED <<escrows, stored, market, events>>

\* How the intent stands is in the answer, and the handler never looks: whatever
\* is answered with an id is taken for a hold.
CreateEscrowHold(w, answer) ==
    LET e == workers[w].escrow
        intent == [kind |-> "pi", escrow |-> e, key |-> workers[w].key,
                   amount |-> escrows[e].amount]
    IN
    /\ At(w, "hold")
    /\ MakeIntent(intent, answer)
    /\ workers' = [workers EXCEPT ![w] =
           IF answer = "ok"
           THEN Task("fundRow", e, @.key, [kind |-> "pi", key |-> @.key])
           ELSE Idle]
    /\ UNCHANGED <<escrows, stored, market, events>>

\* Mutant: a failed update is tried again from the hold on.
FundEscrowRetried(w) ==
    LET e == workers[w].escrow IN
    /\ At(w, "fundRow")
    /\ \/ Fundable(e)  /\ SetStatus(e, "funded") /\ Record(w, workers[w].ref, "hold")
       \/ ~Fundable(e) /\ Goto(w, "hold") /\ UNCHANGED escrows
    /\ UNCHANGED <<stored, market, ledger, events>>

FundEscrow(w) ==
    LET e == workers[w].escrow IN
    /\ At(w, "fundRow")
    /\ \/ Fundable(e)  /\ SetStatus(e, "funded") /\ Record(w, workers[w].ref, "hold")
       \/ ~Fundable(e) /\ Finish(w) /\ UNCHANGED escrows
    /\ UNCHANGED <<stored, market, ledger, events>>

-----------------------------------------------------------------------------
(* release *)

\* The reference the payout will name is the one read here.
StartRelease(w, e, k) ==
    /\ e \in stored
    /\ Begin(w, Task("packageCheck", e, k, escrows[e].ref))
    /\ UNCHANGED <<escrows, stored, market, ledger, events>>

CheckPackage(w) ==
    /\ At(w, "packageCheck")
    /\ IF escrows[workers[w].escrow].match \in approved
       THEN Goto(w, "travelerCheck") ELSE Finish(w)
    /\ UNCHANGED <<escrows, stored, market, ledger, events>>

\* Mutant: the account the traveler is paid on is not looked for.
CheckTravelerExists(w) ==
    LET traveler == TravelerOf[escrows[workers[w].escrow].match] IN
    /\ At(w, "travelerCheck")
    /\ IF traveler \in users THEN Goto(w, "releaseRow") ELSE Finish(w)
    /\ UNCHANGED <<escrows, stored, market, ledger, events>>

CheckTraveler(w) ==
    LET traveler == TravelerOf[escrows[workers[w].escrow].match] IN
    /\ At(w, "travelerCheck")
    /\ IF traveler \in users /\ traveler \in onboarded
       THEN Goto(w, "releaseRow") ELSE Finish(w)
    /\ UNCHANGED <<escrows, stored, market, ledger, events>>

\* ReleaseEscrow, and the checks ReleasePayout makes first: it fails at once
\* with a reference it cannot capture.
ReleaseEscrow(w) ==
    LET e == workers[w].escrow IN
    /\ At(w, "releaseRow")
    /\ \/ /\ Releasable(e)
          /\ SetStatus(e, "released")
          /\ IF Capturable(e, workers[w].ref)
             THEN Goto(w, "capture")
             ELSE Record(w, workers[w].ref, "payout_failed")
       \/ ~Releasable(e) /\ Finish(w) /\ UNCHANGED escrows
    /\ UNCHANGED <<stored, market, ledger, events>>

\* An intent that holds no money cannot be captured.
CaptureAnswer(w, reply) ==
    IF Held(workers[w].escrow, workers[w].ref.key) THEN reply ELSE "refused"

\* Mutant: a failed capture is answered and not recorded, as a failed refund is.
CapturePaymentUnrecorded(w, reply) ==
    LET e == workers[w].escrow
        answer == CaptureAnswer(w, reply)
        capture == [kind |-> "capture", escrow |-> e, key |-> workers[w].ref.key,
                    amount |-> TravelerAmount(e)]
    IN
    /\ At(w, "capture")
    /\ ledger' = IF answer = "refused" THEN ledger ELSE ledger \cup {capture}
    /\ IF answer = "ok" THEN Goto(w, "transfer") ELSE Finish(w)
    /\ UNCHANGED <<escrows, stored, market, events>>

\* Mutant: the error of the capture is not looked at.
CapturePaymentUnchecked(w, reply) ==
    LET e == workers[w].escrow
        answer == CaptureAnswer(w, reply)
        capture == [kind |-> "capture", escrow |-> e, key |-> workers[w].ref.key,
                    amount |-> TravelerAmount(e)]
    IN
    /\ At(w, "capture")
    /\ ledger' = IF answer = "refused" THEN ledger ELSE ledger \cup {capture}
    /\ Goto(w, "transfer")
    /\ UNCHANGED <<escrows, stored, market, events>>

CapturePayment(w, reply) ==
    LET e == workers[w].escrow
        answer == CaptureAnswer(w, reply)
        capture == [kind |-> "capture", escrow |-> e, key |-> workers[w].ref.key,
                    amount |-> TravelerAmount(e)]
    IN
    /\ At(w, "capture")
    /\ ledger' = IF answer = "refused" THEN ledger ELSE ledger \cup {capture}
    /\ IF answer = "ok"
       THEN Goto(w, "transfer")
       ELSE Record(w, workers[w].ref, "payout_failed")
    /\ UNCHANGED <<escrows, stored, market, events>>

TransferPayout(w, answer) ==
    LET e == workers[w].escrow
        transfer == [kind |-> "tr", escrow |-> e, key |-> workers[w].key,
                     amount |-> TravelerAmount(e)]
    IN
    /\ At(w, "transfer")
    /\ ledger' = IF answer = "refused" THEN ledger ELSE ledger \cup {transfer}
    /\ IF answer = "ok"
       THEN Record(w, [kind |-> "tr", key |-> workers[w].key], "payout_queued")
       ELSE Record(w, workers[w].ref, "payout_failed")
    /\ UNCHANGED <<escrows, stored, market, events>>

-----------------------------------------------------------------------------
(* refund and dispute *)

StartRefund(w, e, k) ==
    /\ e \in stored
    /\ Begin(w, Task("refundRow", e, k, escrows[e].ref))
    /\ UNCHANGED <<escrows, stored, market, ledger, events>>

RefundEscrow(w) ==
    LET e == workers[w].escrow IN
    /\ At(w, "refundRow")
    /\ \/ Refundable(e)  /\ SetStatus(e, "refunded") /\ Goto(w, "refundCall")
       \/ ~Refundable(e) /\ Finish(w) /\ UNCHANGED escrows
    /\ UNCHANGED <<stored, market, ledger, events>>

\* RefundEscrow of the provider: a refund of a pi_ that holds money, a reversal of
\* a tr_, an error otherwise; the handler records nothing when it fails.
RefundPayment(w, reply) ==
    LET e == workers[w].escrow
        object == [kind |-> IF workers[w].ref.kind = "pi" THEN "re" ELSE "reversal",
                   escrow |-> e, key |-> workers[w].key, amount |-> escrows[e].amount]
        answer == IF \/ workers[w].ref.kind = "pi" /\ Held(e, workers[w].ref.key)
                     \/ workers[w].ref.kind = "tr"
                  THEN reply ELSE "refused"
    IN
    /\ At(w, "refundCall")
    /\ ledger' = IF answer = "refused" THEN ledger ELSE ledger \cup {object}
    /\ IF answer = "ok"
       THEN Record(w, [kind |-> "re", key |-> workers[w].key], "refunded")
       ELSE Finish(w)
    /\ UNCHANGED <<escrows, stored, market, events>>

\* The payout fields are then overwritten, the hold reference with nothing.
DisputeEscrow(w, e) ==
    /\ Disputable(e)
    /\ SetStatus(e, "disputed")
    /\ Begin(w, [Task("record", e, NoKey, NoRef) EXCEPT !.payout = "disputed"])
    /\ UNCHANGED <<stored, market, ledger, events>>

-----------------------------------------------------------------------------
(* Provider webhook *)

\* The events the provider can send about what it holds, as often as it likes.
\* A held intent has a charge, with the metadata of the intent; account events
\* carry none.
EventsAbout(o) ==
    {[type |-> t, escrow |-> o.escrow, ref |-> [kind |-> k, key |-> o.key]] :
        t \in EventTypes, k \in {k \in EventKinds : o.kind = IF k = "ch" THEN "hold" ELSE k}}
AccountEvent(t) == [type |-> t, escrow |-> NoEscrow, ref |-> NoRef]
AccountEvents == IF onboarded = {} THEN {} ELSE {AccountEvent(t) : t \in EventTypes}
ObjectEvents == UNION {EventsAbout(o) : o \in ledger}
Sendable == AccountEvents \cup ObjectEvents

\* paymentWebhook up to its lookup, which finds no such event yet.
StartWebhook(w, ev) ==
    /\ ev \in Sendable \ events
    /\ Begin(w, [Task("event", ev.escrow, NoKey, ev.ref) EXCEPT !.type = ev.type])
    /\ UNCHANGED <<escrows, stored, market, ledger, events>>

EventOf(w) == [type |-> workers[w].type, escrow |-> workers[w].escrow, ref |-> workers[w].ref]

\* Mutant: the lookup is trusted, the insert overwrites.
CreatePaymentEventUnchecked(w) ==
    /\ At(w, "event")
    /\ events' = events \cup {EventOf(w)}
    /\ IF workers[w].escrow # NoEscrow
       THEN Record(w, workers[w].ref, "webhook") ELSE Finish(w)
    /\ UNCHANGED <<escrows, stored, market, ledger>>

\* The insert decides: the event is new, or another delivery came first.  Only
\* an event that names an escrow goes on to SetEscrowPayout.
CreatePaymentEvent(w) ==
    LET ev == EventOf(w) IN
    /\ At(w, "event")
    /\ events' = events \cup {ev}
    /\ IF ev \notin events /\ ev.escrow # NoEscrow
       THEN Record(w, ev.ref, "webhook") ELSE Finish(w)
    /\ UNCHANGED <<escrows, stored, market, ledger>>

-----------------------------------------------------------------------------
(* Requests that are one repository call *)

CreateEscrow(e, m, amount) ==
    /\ escrows[e] = NoRow
    /\ Creatable(m)
    /\ escrows' = [escrows EXCEPT ![e] =
           [status |-> "pending_funding", match |-> m, amount |-> amount,
            commission |-> Commission(amount), ref |-> NoRef, payout |-> ""]]
    /\ stored' = stored \cup {e}
    /\ UNCHANGED <<market, workers, ledger, events>>

\* Either party of the match may delete the row, whatever its status.
DeleteEscrowByUser(e) ==
    /\ e \in stored
    /\ stored' = stored \ {e}
    /\ UNCHANGED <<escrows, market, workers, ledger, events>>

AddTrackingEvent(m) ==
    /\ delivered' = delivered \cup {m}
    /\ UNCHANGED <<escrows, stored, approved, users, onboarded, workers, ledger, events>>

\* An admin may review the package again, with another verdict.
ReviewPackageVerification(m, verdict) ==
    /\ approved' = IF verdict = "approved" THEN approved \cup {m} ELSE approved \ {m}
    /\ UNCHANGED <<escrows, stored, delivered, users, onboarded, workers, ledger, events>>

SetUserPayoutAccount(u) ==
    /\ u \in users
    /\ onboarded' = onboarded \cup {u}
    /\ UNCHANGED <<escrows, stored, delivered, approved, users, workers, ledger, events>>

DeleteUserByID(u) ==
    /\ users' = users \ {u}
    /\ UNCHANGED <<escrows, stored, delivered, approved, onboarded, workers, ledger, events>>

\* The client confirms the payment, or the bank does, with the provider: no
\* request of ours.
AuthorizeIntent(intent) ==
    /\ intent.kind = "pi"
    /\ ledger' = ledger \cup {HoldOf(intent)}
    /\ UNCHANGED <<escrows, stored, market, workers, events>>

-----------------------------------------------------------------------------
(* Specification *)

StartRequest(w) ==
    \/ \E e \in Escrows, k \in Keys :
          StartFund(w, e, k) \/ StartRelease(w, e, k) \/ StartRefund(w, e, k)
    \/ \E e \in Escrows : DisputeEscrow(w, e)
    \/ \E ev \in Sendable : StartWebhook(w, ev)

\* What the goroutine does next once it has started.
Continue(w) ==
    \/ FundEscrow(w)
    \/ CheckPackage(w)
    \/ CheckTraveler(w)
    \/ ReleaseEscrow(w)
    \/ RefundEscrow(w)
    \/ CreatePaymentEvent(w)
    \/ SetEscrowPayout(w)
    \/ \E answer \in Answers :
          \/ CreateEscrowHold(w, answer)
          \/ CapturePayment(w, answer)
          \/ TransferPayout(w, answer)
          \/ RefundPayment(w, answer)

Others ==
    \/ \E e \in Escrows, m \in Matches, a \in Amounts : CreateEscrow(e, m, a)
    \/ \E e \in Escrows : DeleteEscrowByUser(e)
    \/ \E m \in Matches : AddTrackingEvent(m)
    \/ \E m \in Matches, v \in {"approved", "rejected"} : ReviewPackageVerification(m, v)
    \/ \E u \in Travelers : SetUserPayoutAccount(u) \/ DeleteUserByID(u)
    \/ \E intent \in ledger : AuthorizeIntent(intent)

Next == (\E w \in Workers : StartRequest(w) \/ Continue(w)) \/ Others

Spec == Init /\ [][Next]_vars

\* A goroutine that has started runs on: the scheduler is fair to it and every
\* provider call ends within the client's 20 second timeout.
FairSpec == Spec /\ \A w \in Workers : WF_vars(Continue(w))

-----------------------------------------------------------------------------
(* Refinement of EscrowContract: an escrow's money went to the traveler when  *)
(* a transfer exists, back to the client when a refund does.                  *)

Moved == [e \in Escrows |->
    IF Of(e, "tr") # {} THEN "traveler" ELSE IF Of(e, "re") # {} THEN "client" ELSE "nowhere"]

Contract == INSTANCE EscrowContract WITH
    status <- [e \in Escrows |-> escrows[e].status],
    match <- [e \in Escrows |-> escrows[e].match],
    open <- stored,
    moved <- Moved

\* Every step of every handler is a step the contract allows, or none at all.
ImplementsContract == Contract!Spec

-----------------------------------------------------------------------------
(* Properties *)

TypeOK ==
    /\ escrows \in [Escrows -> Rows]
    /\ stored \subseteq Escrows
    /\ delivered \subseteq Matches
    /\ approved \subseteq Matches
    /\ users \subseteq Travelers
    /\ onboarded \subseteq Travelers
    /\ workers \in [Workers -> WorkerStates]
    /\ ledger \subseteq Objects
    /\ events \subseteq Events

\* The money of an escrow leaves the platform once: at most one transfer, refund
\* or reversal exists for it, whatever requests race, whichever answers are lost
\* and whoever deletes the row meanwhile.
Settlements(e) == Of(e, "tr") \cup Of(e, "re") \cup Of(e, "reversal")
SettledOnce == \A e \in Escrows : \A o, p \in Settlements(e) : o = p

\* Nothing is captured or transferred unless the escrow was released, its match
\* has a delivered event and the traveler a payout account, although the handler
\* reads all of these in different steps.
Earned(e) ==
    /\ escrows[e].status = "released"
    /\ escrows[e].match \in delivered
    /\ TravelerOf[escrows[e].match] \in onboarded
PaidOnlyIfEarned == \A o \in ledger : o.kind \in {"capture", "tr"} => Earned(o.escrow)

\* An escrow that was ever funded has a payment intent of its full amount at the
\* provider, also when answers were lost or refused and keys differ: the row never
\* runs ahead of the provider.  Whether the intent holds the money yet is not
\* looked at by the code, and not claimed here.
FundedHasIntent ==
    \A e \in Escrows : escrows[e].status \notin {"absent", "pending_funding"} =>
        \E o \in Of(e, "pi") : o.amount = escrows[e].amount

\* What a payout asks to capture, and what was captured, is part of an intent made
\* for the same escrow, even though the reference travels through a row that
\* webhooks and other handlers overwrite.
PartOfIntent(e, k, amount) == \E i \in Of(e, "pi") : i.key = k /\ amount <= i.amount
CapturedWithinIntent ==
    \A o \in ledger : o.kind = "capture" => PartOfIntent(o.escrow, o.key, o.amount)
CaptureWithinIntent ==
    /\ CapturedWithinIntent
    /\ \A w \in Workers : workers[w].pc = "capture" =>
           PartOfIntent(workers[w].escrow, workers[w].ref.key, TravelerAmount(workers[w].escrow))

\* The platform pays nobody out of its own pocket, whichever calls fail half-way,
\* whatever reference they name and although a funded row may have no money held:
\* a transfer passes on what was captured of the same escrow, a capture takes and a
\* refund gives back held money, none of both, and the provider is never asked to
\* take a transfer back.
NothingAdvanced ==
    \A o \in ledger :
        /\ o.kind = "tr" => \E c \in Of(o.escrow, "capture") : c.amount = o.amount
        /\ o.kind = "capture" => Held(o.escrow, o.key)
        /\ o.kind = "re" => /\ \E h \in Of(o.escrow, "hold") : h.amount = o.amount
                            /\ Of(o.escrow, "capture") = {}
        /\ o.kind # "reversal"

\* A match has one escrow at a time, also when one is deleted and made again.
OneEscrowPerMatch ==
    \A e, f \in stored : escrows[e].match = escrows[f].match => e = f

\* A late answer never brings a deleted row back nor changes it: handlers that
\* were under way when the row went leave it alone.
DeletedIsFinal ==
    [][\A e \in Escrows :
        escrows[e] # NoRow /\ e \notin stored =>
            e \notin stored' /\ escrows'[e] = escrows[e]]_vars

\* An event is applied to its escrow by one delivery only: a worker goes on to
\* SetEscrowPayout for it in the very step that stores it.
EventAppliedOnce ==
    [][\A w \in Workers :
        workers[w].pc = "event" /\ workers'[w].pc = "record" =>
            EventOf(w) \in events' \ events]_vars

\* Every request that starts is answered.
EveryRequestEnds == \A w \in Workers : workers[w].pc # "idle" ~> workers[w].pc = "idle"

\* A payout under way is never left without an outcome: in the end the transfer
\* exists, or the row said payout_failed, or the parties deleted it.
PayoutUnderWay(e) == \E w \in Workers :
    /\ workers[w].escrow = e
    /\ \/ workers[w].pc \in {"capture", "transfer"}
       \/ workers[w].pc = "record" /\ workers[w].payout = "payout_failed"
PayoutIsSettled ==
    \A e \in Escrows : PayoutUnderWay(e) ~>
        \/ Of(e, "tr") # {}
        \/ escrows[e].payout = "payout_failed"
        \/ e \notin stored

-----------------------------------------------------------------------------
(* What the documentation promises and the code does not keep, each with a    *)
(* run that shows how.  Quiet: no request about the escrow is under way.      *)

Quiet(e) == \A w \in Workers : workers[w].escrow # e

\* A released escrow was paid out, if the provider answers every call and every
\* intent holds its money.
ReleasedPaysTraveler ==
    \A e \in Escrows : escrows[e].status = "released" /\ Quiet(e) => Of(e, "tr") # {}

\* A refunded escrow was paid back, also when it was disputed first.
RefundReturnsMoney ==
    \A e \in Escrows : escrows[e].status = "refunded" /\ Quiet(e) => Of(e, "re") # {}

-----------------------------------------------------------------------------
(* The inductive invariant behind the safety properties *)

RowsOK == \A e \in Escrows :
    /\ e \in stored => escrows[e].status # "absent"
    /\ escrows[e].status # "absent" => escrows[e].match \in Matches
    /\ escrows[e].commission <= escrows[e].amount

\* A payment intent or a transfer that is referred to exists.
Known(e, ref) == ref.kind \in {"pi", "tr"} => \E o \in Of(e, ref.kind) : o.key = ref.key
RefsOK ==
    /\ \A e \in Escrows : Known(e, escrows[e].ref)
    /\ \A w \in Workers : workers[w].escrow \in Escrows =>
           Known(workers[w].escrow, workers[w].ref)

\* What a worker knows at each point about the escrow it works on.
WorkerOK(w) ==
    LET s == workers[w] IN
    /\ s.pc \notin {"idle", "event"} => s.escrow \in Escrows
    /\ s.pc \notin {"idle", "event", "record"} => s.key \in Keys
    /\ s.escrow \in Escrows => escrows[s.escrow].status # "absent"
    /\ s.pc = "event" => s.type \in EventTypes
    /\ s.pc = "fundRow" => s.ref.kind = "pi"
    /\ s.pc = "releaseRow" => TravelerOf[escrows[s.escrow].match] \in onboarded
    /\ s.pc \in {"capture", "transfer"} => Earned(s.escrow) /\ s.ref.kind = "pi"
    /\ s.pc = "transfer" =>
          \E c \in Of(s.escrow, "capture") : c.amount = TravelerAmount(s.escrow)
    /\ s.pc = "refundCall" => escrows[s.escrow].status = "refunded"
WorkersOK == \A w \in Workers : WorkerOK(w)

\* One worker at most holds the decision about an escrow's money, and while it
\* does, the money has not moved.
Settling(w) == workers[w].pc \in {"capture", "transfer", "refundCall"}
SettlersOK ==
    /\ \A w \in Workers : Settling(w) => Settlements(workers[w].escrow) = {}
    /\ \A w, v \in Workers :
           Settling(w) /\ Settling(v) /\ workers[w].escrow = workers[v].escrow => w = v

ObjectOK(o) ==
    /\ escrows[o.escrow].status # "absent"
    /\ o.kind \in {"pi", "hold"} => o.amount = escrows[o.escrow].amount
    /\ o.kind = "re" => escrows[o.escrow].status = "refunded"
LedgerOK == \A o \in ledger : ObjectOK(o)

IInv ==
    /\ TypeOK
    /\ RowsOK
    /\ RefsOK
    /\ WorkersOK
    /\ SettlersOK
    /\ LedgerOK
    /\ SettledOnce
    /\ PaidOnlyIfEarned
    /\ FundedHasIntent
    /\ CapturedWithinIntent
    /\ NothingAdvanced
    /\ OneEscrowPerMatch

=============================================================================
