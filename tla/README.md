# Formal verification of Elyp2p

Elyp2p carries parcels between people: *travelers* list trips, *clients* post delivery
requests, a match joins the two, and the client's money is held in escrow until the parcel
has arrived. A Go API (`backend/`) holds all of the program's own logic; a Flutter app
(`mobile/`) is a user interface over it. This directory holds TLA+ models of the API,
TLC configurations that check them on small instances, and proofs, checked by TLAPS, of
their safety properties for instances of every size.

    tlc -workers 2 -config escrow_races.cfg MCEscrowPayments   # check one instance
    tlapm EscrowPayments_proofs.tla                            # check the proofs of one module

`PROJECT.json` lists every run with its module and configuration, the source lines each
definition is translated from, the findings, the hazards and the theorems.

Paths below are relative to `src/`; `server.go` is `backend/internal/http/server.go`,
`memory.go` and `postgres.go` are in `backend/internal/store/`.

- [1 The system](#1-the-system)
- [2 The modules](#2-the-modules)
- [3 What the runs check](#3-what-the-runs-check)
- [4 What is proved](#4-what-is-proved)
- [5 Findings](#5-findings)
- [6 What is not modelled](#6-what-is-not-modelled)
- [7 Plan](#7-plan)

## 1 The system

### How the parts interact

One process serves the API. Go's `net/http` gives every request a goroutine; a handler
validates its input, makes one or more calls to the *repository*, in some handlers calls
the *payment provider* (Stripe) over HTTP in between, and answers. No goroutine outlives
its request and there are no background jobs, queues or callbacks other than the
provider's webhook. Two requests meet only in

- the repository: an interface (`store/repository.go`) with two implementations.
  `MemoryStore` (maps under one mutex, lost with the process) runs without
  `DATABASE_URL`; `PostgresStore` otherwise. Each *method* of `MemoryStore` is atomic; a
  handler that makes two calls is not;
- three maps in the `Server` with a mutex each: failed sign-in attempts (by email and by
  challenge), counters of the rate limiter, revoked tokens;
- the provider, which remembers what it did and by which idempotency key.

So the unit of interleaving is a repository call, a call to the provider, or a critical
section of one of those mutexes. That is the step size of all models here.

### Components

| Component | State it keeps | Operations | What makes it correct |
|---|---|---|---|
| Escrow payments (`server.go`, `memory.go`, `payments/stripe_connect.go`) | escrow rows (status, amounts, payout reference and status), webhook events; at the provider: payment intents, captures, transfers, refunds | create, fund, release, refund, dispute, delete, webhook | money moves once, only as decided, only when earned, and only what is held is captured; a funded row has a payment intent of its amount; deleted rows stay deleted; events are applied once; a failed payout leaves a trace |
| Listings, requests, matches | a table of each | publish, submit (duplicate check and screening), match | a match has a vetted traveler and an approved package; no duplicate open request |
| Screening (`fraud/engine.go`) | none | score a request | the rejected are not stored, the suspicious are held |
| KYC and package verification | a table of each; a copy of the KYC verdict on the user's record | submit, review, review again | the copy agrees with a row; never two submissions waiting |
| Notifications | a list | insert after a review, read, delete | every review is told |
| Sign-in, one-time codes, lockout | users by id, by email and by social account; challenges; failures by key | register, login, verify code, social login, delete account | the maps agree; a code signs in whom it was sent to; guesses are bounded; locks open again |
| Profile | fields of a user | update, delete | – |
| Tokens and logout (`auth/jwt.go`) | revoked tokens | issue, verify, revoke | what is logged out stays out |
| Rate limiter | a window and a count by route and client | count | a bound on any interval |
| Uploads | files; signed, expiring tokens | sign, upload, fetch | a stored file stays as it was |
| Insurance claims, reviews of a delivery | a table of each | claim, review the claim; rate | one claim pending, within its coverage; one rating for a party and match, after a delivery |
| Tracking | a table of events | append, list | release and rating need a delivered event |
| Payout onboarding | payout account on a user's record; accounts at the provider | exchange with the provider | one account for a user, however often it is tried |
| Recommendations (`recommendations/recommendations.go`) | none | score, rank, suggest a price | what is shown holds together and stays true |
| Social provider settings; admin lists | two rows; none | overwrite; read | – |
| Postgres store, schema (`postgres.go`, `backend/migrations/`) | the same tables in SQL | the same repository | the same promises, under statements that interleave and a process that stops |
| Mobile client (`mobile/lib/src/`) | one session, demo data | calls the API | no demo answers while the API is there |

`PROJECT.json` lists these and the remaining parts (other providers, start-up, wipe
commands, screens, deployment) with their files.

### What is hard about it

- **Handlers are not atomic.** A release reads the row, the package verification and the
  traveler, then changes the row, captures, transfers and records the outcome: seven
  steps, between which other handlers, webhooks and deletions run, and after which
  the values read first are still used.
- **Answers get lost.** A provider call that times out after 20 s may have been done. The
  caller repeats the request, with the same idempotency key or with another.
- **Events are late, repeated and concurrent**, and overwrite the fields that handlers use.
- **Check, then act.** The lockout reads the count before the answer is compared and
  writes it after; the duplicate check lists requests before it inserts.
- **Long sequences.** Rows are reviewed again after new ones were submitted, accounts are
  deleted under the rows that name them, emails are registered again, escrows
  are deleted and created again.
- **Deadlines**: a lock and a challenge run out independently; a revoked token leaves the
  list by one comparison with the clock and is refused by another, while the clock runs.
- **Statements interleave.** What is one call under a mutex in `MemoryStore` is several SQL
  statements in `PostgresStore`, few of them in a transaction: two first sign-ins with one
  address, two KYC submissions, a review cut off in the middle.
- **The process stops.** Lists kept in memory are lost, rows, files, tokens and the
  provider's objects are not.
- **Shown and used later.** A price is shown at one time and agreed at another.

`hazards` in `PROJECT.json` lists each at the line where it bites, with the properties
that cover it.

## 2 The modules

| Module | What it is |
|---|---|
| `EscrowContract` | abstract: what the escrow service promises |
| `AccountsContract` | abstract: what either store promises of accounts and their links |
| `KYCContract` | abstract: what either store promises of identity checks |
| `EscrowPayments` | escrow rows, the handlers that move them, the webhook, the provider |
| `EscrowPayments_proofs` | its inductive invariant and safety theorems |
| `EscrowRefinement` | proof that it implements `EscrowContract`; its action properties |
| `Marketplace`, `Marketplace_proofs` | KYC, packages, notifications, listings, requests, screening, matches |
| `SignIn`, `SignIn_proofs` | accounts, passwords, one-time codes, lockout |
| `Deals`, `Deals_proofs` | insurance claims and ratings, composed with `EscrowContract` |
| `Gateway`, `Gateway_proofs` | rate limiter, tokens and logout, signed uploads, restarts |
| `Recommendations`, `Recommendations_proofs` | scores, suggested prices, lists and what they are used for |
| `PostgresStore`, `PostgresStore_proofs` | users, social sign-in, KYC, payout onboarding and matches over Postgres, with restarts |
| `MCEscrowPayments`, `MCMarketplace`, `MCSignIn`, `MCDeals`, `MCGateway`, `MCRecommendations`, `MCPostgresStore` | constants of the instances TLC checks |

Common to all: a *worker* is a goroutine serving a request that takes more than one step.
`workers[w]` records where it is (`pc`) and the local variables that are still to be used;
`Start...` actions take a worker from idle to the first step that a handler's checks let
it reach, and the actions of `Continue(w)` are the steps after that. A request of one
call is an action without a worker. A request that is refused at its first call changes
nothing: it is a stuttering step. Ids are drawn from finite sets as they are issued, so an
insert is disabled once every id is taken.

Some operators are named after another with a word added (`ReleasableUndelivered`,
`CountedLate`) and marked *Mutant*. They are that definition with a plausible bug in it,
used by nothing; put in its place they violate the property that `PROJECT.json`
names for them under `mutants`, which shows that the property does depend on that line.

### EscrowPayments

| Variable | Code |
|---|---|
| `escrows`, `stored` | `MemoryStore.escrows`; `stored` are its keys, `escrows` keeps the last contents of deleted rows for the properties to speak of |
| `delivered` | matches with a tracking event of status delivered |
| `approved` | matches whose request has an approved package verification |
| `users`, `onboarded` | travelers in `usersByID`, and those whose record has a payout account |
| `events` | `paymentEvents` |
| `ledger` | objects at Stripe, each named by the idempotency key it was made with (external): payment intents, the hold of an intent, captures, transfers, refunds |

| Handler | Steps |
|---|---|
| `fundEscrow` | `StartFund` (read, key) → `CreateEscrowHold` (provider) → `FundEscrow` → `SetEscrowPayout` |
| `releaseEscrow` | `StartRelease` (read: this reference will be captured) → `CheckPackage` → `CheckTraveler` → `ReleaseEscrow` → `CapturePayment` → `TransferPayout` → `SetEscrowPayout` |
| `refundEscrow` | `StartRefund` → `RefundEscrow` → `RefundPayment` (provider) → `SetEscrowPayout` |
| `disputeEscrow` | `DisputeEscrow` → `SetEscrowPayout` with an empty reference |
| `paymentWebhook` | `StartWebhook` (lookup) → `CreatePaymentEvent` (insert) → `SetEscrowPayout` |
| one call | `CreateEscrow`, `DeleteEscrowByUser`, `AddTrackingEvent`, `ReviewPackageVerification`, `SetUserPayoutAccount`, `DeleteUserByID` |

A provider call ends in one of `Answers`: `ok`, `refused` (an error, nothing done) or
`lost` (done, but the handler sees an error). The same key and kind yield the same object.
A payment intent stands in one of `Standings` when it is made: `held`, with the money on hold, or
`waiting` for the client or a bank (Stripe's `requires_action`, `processing`). Stripe answers
both with a 200, `stripe_connect.go:73-93` does not look at `status`, and `server.go:1161-1176`
funds the row; `AuthorizeIntent` is the confirmation that may come later, or never. Stripe
refuses to capture or refund an intent without a hold.
Abstractions: amounts are whole minor units with the commission rounded down, where the
code computes in floats and rounds when it calls the provider; insurance fields, time
stamps and texts are left out; a payout status keeps only which call wrote it.

`EscrowContract` has the match and the status of each escrow, whether the parties still see
it, which matches were delivered, and where its money went: nowhere, to the traveler, or back to
the client. A match has one open escrow at a time, and an escrow is released only after its
match was delivered. The refinement mapping takes `status` and `match` from the rows, `open` from
`stored`, and `moved` from the ledger: a transfer, a refund, or neither.

### AccountsContract and KYCContract

The two contracts that both implementations of `Repository` are shown to keep, one method a step.

| Contract | Variable | over the memory store | over Postgres |
|---|---|---|---|
| `AccountsContract` | `registered`: ids and addresses | `usersByID` | `users`, the committed rows |
| | `links`: identities and their accounts | `socialToUserID` | `social` |
| | `retired`: ids no account will have | ids issued and no longer in `usersByID` | ids issued that neither a row nor an open transaction has (`Drawn`) |
| `KYCContract` | `cases`: owner and status | `kycs` | `kycs`, the committed rows |
| | `standing`: users and their verdict | the records of users who exist | `kyc` of the rows of `users` |

In the memory store each method is one step of the contract already; what is to be shown is that
its three maps say the same of an account, and that the record a review writes for a user who is
gone is nobody's. In Postgres the step of the contract is the commit; the statements before
it are stutters, and so is a transaction cut off, except that the id it drew is used up
(`Waste`). A sign-in that another one of the same identity overtook with another address
links nothing, and is a `CreateUser` of the contract.

### Marketplace

`kycs`, `packages`, `listings`, `requests`, `matches`, `notifications` are the tables of
`MemoryStore`; `users` is the domain of `usersByID` and `kycStatus` the field of the record
that `CreateMatch` reads. Two kinds of request take two steps and hence a worker:
`createDeliveryRequest` (list the client's requests, check for a duplicate, score; then
insert) and the two reviews (update the row and, for KYC, the record; then insert the
notification, whose error is dropped). The scoring of a request is kept with its points and
thresholds; what a text contains is a field of `Details`. A package's own risk score
is any of `RiskScores`. Users are known by the id in their token, which the handlers
do not compare with the users that exist; a review of a row whose user is gone stores a
record with the empty id, here `NoUser`. The approval of a package need not be an admin's: one that
scores below 70 and comes with a photo is stored approved.

### SignIn

`usersByID`, `userIDByEmail`, `socialToUserID` and `otpChallenges` are the maps of
`MemoryStore`; `attempts` is `loginAttempts` and `otpAttempts` of the server in one, as
their keys differ. `wrong` is a history variable: the wrong answers that were compared for
each key since its count was last cleared by a right one (and, for an email, since the last
end of a lock). A login is `StartLogin` (may it be tried?) → `CheckPassword` →
`recordAuthFailure` or `clearAuthFailures` → for a client `CreateOTPChallenge`; the
verification of a code is `StartVerify` → `VerifyOTPChallenge` → one of the same two.
`Tick` lets the time left of every lock and challenge run down. A challenge keeps the user it was made
for, who may be deleted, and whose email may be registered again, before its code comes back.

### Deals

| Variable | Code |
|---|---|
| `status`, `open` | those of `EscrowContract`, through `INSTANCE`: what the handlers of `EscrowPayments` are proved to do to escrows is all this module lets happen to them |
| `terms` | match and coverage limit of every escrow created; a match may get another one, on other terms, when its row is deleted |
| `delivered` | that of `EscrowContract`: matches with a delivered event |
| `claims`, `reviews` | `insuranceClaims` and `userReviews`, in the order of creation |

`createInsuranceClaim` is `StartClaim` (is the escrow one of the user's?) →
`CreateInsuranceClaim` (reads the row again, checks limit and pending claims, inserts);
`createReview` is `StartReview` (party of the match, a released escrow among the user's) →
`CreateUserReview` (one rating for an author and match). `ReviewInsuranceClaim` decides any
claim, decided ones and those of deleted escrows too, as the code does. Reasons, stars
and comments are left out.

### Gateway

`now` counts seconds, the unit of token claims, upload URLs and file names. `entry` is the
limiter's window and count for one route and client, `accepted` a history of the requests let
through; `tokens` are all ever issued (two of one user and second are the same string),
`revoked` is `revokedTokens`, `loggedOut` a history of answered logouts; `urls`, `uploads`
and `written` are signed URLs, upload requests and what the files hold.

A request with a token is `Arrive` → `isTokenRevoked` → `Parse` → one of `logout`,
`createUploadToken`, `Serve`, and the clock may tick at any of the arrows. The code
compares with the fraction of a second that the model has not: within the second of
an expiry or the end of a window both outcomes are allowed. An upload is `OpenUpload` (the
URL is checked) → `CreateFile` (`os.Create`, which empties an existing file) →
`CopyFile` or `FailCopy`. `Restart` forgets the limiter, the list and requests
under way; files, issued tokens and URLs stay, as their secrets are configured.

### Recommendations

`Score`, `acceptanceProbability` and `SuggestedPrice` are the functions of
`recommendations.go` in integers: hours, whole kilograms, cents, and hundredths for the
price factors. `Rankings` are the orders that `sort.Slice` with its comparison may produce.
The variables are the time, the list last shown for each request and listing, and the
matches; actions are the two handlers that show lists, a match at an asked or at the
default price, and the passing of time. What else a match asks for is in `Marketplace`.

### PostgresStore

The unit of interleaving is one SQL statement at READ COMMITTED, and a worker's `pc` names its
next statement. Tables are functions from ids to rows; foreign keys and unique indexes of the
migrations are guards.

| Operation | Steps |
|---|---|
| `SocialLogin` (one transaction) | `SelectLink` → `SelectEmail` → `InsertUser` → `InsertLink` → `TouchUser`, which is also the commit; what it has inserted is in the worker until then, and other inserts of the same unique value wait |
| `CreateKYCVerification` | `CheckKYC` → `InsertKYC`, not in a transaction |
| `ReviewKYCVerification` (one transaction) | row lock and `UPDATE` of the case → `PublishVerdict`, the record and the commit |
| `createPayoutOnboarding` | `StartOnboarding` → `EnsurePayoutAccount` (at Stripe, under a key made of the user's id; its answer may be lost) → `SetUserPayoutAccount` |
| `CreatePackageVerification` | `CheckPackage` → `InsertPackage` |
| `CreateMatch` | `CheckTraveler` → `CheckApproved` → `InsertMatch` |
| one statement | `CreateUser`, `DeleteUserByID`, `CreateTravelerListing`, `CreateDeliveryRequest`, `ReviewPackageVerification` |

The address of a sign-in is one of `AddressesOf` its identity. Google's answer has the
address. Apple's token may leave it out, and then `server.go:533` and `746-748` take the one in the
client's request, so that two overlapping sign-ins of one identity may name different
addresses; a worker carries its own through the statements. (Over the memory store a sign-in is one call,
which finds the link first; `SignIn` lets it name any address.)

`Restart` ends every request: open transactions are rolled back, rows and accounts at
Stripe stay. No action deletes what another table refers to.

## 3 What the runs check

Runs that end in a violation are in [section 5](#5-findings). The others:

| Run | Distinct states | What it shows |
|---|---|---|
| `escrow_races` | 688,020 | Two requests on one escrow, with one idempotency key or two, every provider answer, intents that hold their money at once, later or never, late events about transfers, the row deleted. `SettledOnce`: at most one transfer, refund or reversal. `PaidOnlyIfEarned`: a capture or transfer means released, delivered and onboarded, though the three are read in different steps. `FundedHasIntent`: a row that was ever funded has a payment intent of the full amount. `NothingAdvanced`: the platform pays nobody out of its own pocket, whichever calls fail and although a funded row may have nothing on hold: a capture takes held money, a transfer passes on what was captured of the same escrow, a refund gives back a hold of which nothing was captured. Also the invariant `IInv` of the proofs |
| `escrow_webhooks` | 399,124 | Events about intents and transfers, repeated, late and at once, and fairness. `CaptureWithinIntent`: what is captured, and what a payout asks to capture, is part of an intent of the same escrow though references travel through rows that events overwrite. `DeletedIsFinal`: late steps never bring a row back. `EventAppliedOnce`. `ImplementsContract`: every step is one of `EscrowContract` or a stutter. `EveryRequestEnds`. `PayoutIsSettled`: a payout under way ends in a transfer, in `payout_failed`, or the row is deleted |
| `market_vetting` | 324,456 | A request that screening holds and one it rejects; rows reviewed again and again and by two admins at once; the account deleted. `OneUnderReview`, `NewMatchIsVetted`, `IInv` (in which no stored request is one that was rejected). `KeepsVerdicts`: every step is one of `KYCContract` or a stutter; under fairness `EveryReviewIsTold`: a review leads to a notification unless the account is deleted |
| `signin` | 633,073 | `GuessesBounded`: no more wrong answers are compared than the limit and twice the other requests under way. `MapsAgree`. `KeepsAccounts`: every step is one of `AccountsContract` or a stutter. `CodesFollowPasswords`: a code signs in nobody but the client it was sent to for the password, though accounts are deleted and made again between login, challenge and code. `LockOpens`: a closed key opens again. `IInv` |
| `deals` | 492,566 | Both parties claim and rate while the escrow is disputed, refunded, released, deleted and created again on other terms. `RatedAfterDelivery`, `OneRatingPerParty`, `OnePendingClaim`, `ClaimsAreCovered`, `IInv`; under fairness `RatingIsStored`: a rating that was let in is there in the end, whatever became of the escrow meanwhile |
| `gateway` | 780,234 | `LoggedOutIsShut`: no request that comes after an answered logout is served with its token, in one life of the process. `BurstBounded`: at most twice the limit passes in a window's length. `UploadsKept`: a stored file is changed only by an upload of the same user, name and second. `IInv` |
| `recommendations` | 2,880 | `RankedByProbability`: down a list the estimates do not rise, though the list is sorted by other fields. `DefaultPriceNeverBelowShown`: a match at the default price is never cheaper than a list still on show says, however old. `IInv` |
| `postgres` | 489,638 | Statements of two goroutines, answers of Stripe lost, one restart anywhere. `SignedInAsNamed`: a social sign-in of an identity with one address is linked to the user it is answered with; if the identity may name several and another sign-in was faster, the user is at least that of the address it named. `OneAccountPerUser`: one connected account, and only this one recorded. `KeepsAccounts`, `KeepsVerdicts`: the statements, whatever runs between them, make steps of `AccountsContract` and `KYCContract`. `IInv` (in which the verdict on a record is that of a case) |

`escrow_*`, `market_*`, `signin` and `deals` also check for deadlock, and there is none. In
`gateway`, `postgres`, `postgres_match` and `recommendations` time, ids or requests run out by
the bounds of the model, so that it may stop where the system goes on; there the check
is off.

### Bounds, and why they are enough

- *Two workers.* The hazards are pairs: two handlers, a handler and an event, two
  deliveries of an event. Requests of a single call need no worker and run alongside without
  bound. The proofs are for any number.
- *One escrow, match and traveler* in the escrow runs. Rows of different matches share nothing but
  the travelers, whose fields no escrow handler writes. A match whose escrow was deleted and
  created again is in `deals`, and `OneEscrowPerMatch` is proved for any number.
- *Two keys* in `escrow_races`: the same key repeated and another key, with events of one kind.
  In `escrow_webhooks` one key and two kinds of event: intents and transfers, the two
  prefixes (`pi_`, `tr_`) that the provider code acts on; it refuses the references an event
  about a charge or a refund writes. The proofs have all of them at once.
- *One amount, 100, at 10 %*: no guard compares amounts of different escrows; the proofs
  are for all amounts and rates from 0 to 100 %.
- *One event type*: two deliveries of one event and events about different objects are there.
- *Two KYC cases, two match ids, one package and one request*: enough for a rejected case to be
  reviewed again after its successor was submitted, and for a match to be asked for after each of its verdicts.
  Requests and packages follow the same two patterns; two submissions at once are in
  `market_duplicate`. `MaxNotifications` (2) bounds reviews under way and existing notifications
  together; deletion makes room again.
- *A limit of 2 failures, a lock of one tick, a challenge that ends before it
  (`OTPTTL` = 0)*: the defaults are 5 failures, 15 minutes for each lock and 5 minutes
  for a code, and only their order matters. Both bounds of `GuessesBounded` are reached in
  the run, for an email and for a challenge. Two users, so that an email is registered again.
- *Deals*: one match, two escrow ids, coverage 0 or 2, claims of 2 or 3, so that a claim may
  be within the limit or above it, and the escrow of a claim uninsured or replaced. `MaxClaims` is 2.
- *Gateway*: `Limit` 2 and windows and lifetimes of a second, time up to 2, so that a window, a
  token and a URL end while requests are under way; `MaxRequests` 7 is more than twice
  the limit and a window's requests besides; one URL for two uploads, one restart. The
  constraint `LimiterOrTokens` lets TLC look at the limiter and at tokens one at a time: they
  share the clock and the restart, which both keep. Workers and uploads are symmetric.
- *Recommendations*: three listings, feasible or not, for one request, at four times on both sides
  of an arrival and in every class of urgency. The functions themselves are proved for every row.
- *Postgres*: two users, two addresses, an identity that has one of them (Google) and one that may
  name either (Apple), two KYC cases, one of each other row, one restart. The constraint `Focus`
  keeps instances with both addresses to users and sign-ins: cases, payout accounts and the rows of
  the marketplace are explored with one address in use, as their statements do not look at
  addresses. Users, cases and workers are symmetric.

### Fairness

`FairSpec` (in `EscrowPayments`, `Marketplace`, `SignIn` and `Deals`) adds weak fairness of
`Continue(w)` for each worker: Go's scheduler runs every goroutine, repository calls only wait
for a mutex that is held for one call, and every provider call ends within the 20 second timeout
of the HTTP client. `SignIn` adds weak fairness of `Tick`: time passes. Nothing is assumed of
clients, admins or the provider's events: whether a request or event ever comes is open, and no
liveness property says it does. `LockOpens` needs no bound on requests: those let in before the
lock are finitely many, and no others are let in until it ends. `Gateway` and `PostgresStore`
have no fairness: the process may stop at any time there, and nothing takes a request up again.

## 4 What is proved

The theorems hold for every value of the constants that meets the assumptions:

- `PartiesAssumption`, `AmountsAssumption`, `AnswersAssumption`, `NullsAssumption`
  (`EscrowPayments`): every match has a traveler, amounts are positive, the rate is at most
  100 %, the provider answers in one of the three ways and an intent stands in one of the two,
  nulls are no ids. The code refuses
  other amounts, and `main.go` takes a rate of 10 % unless configured;
- `DetailsAssumption`, `NumbersAssumption`, `NamesAssumption` (`Marketplace`): the shape of
  a request's details, positive capacities, KYC and package ids told apart;
- `LimitsAssumption`, `WorkersAssumption`, `NullsAssumption` (`SignIn`): positive limits
  and lock windows, finitely many goroutines, emails and challenge ids told apart;
- `PartiesAssumption`, `NumbersAssumption` (`Deals`): every match has two parties, who may be one
  user, and coverages and amounts are natural numbers;
- `NumbersAssumption` (`Gateway`): a limit, a window and lifetimes of at least one;
- `RowsAssumption`, `NumbersAssumption` (`Recommendations`): finitely many rows with positive
  capacity, price and weight, which the handlers that store them insist on; times and asked prices
  are integers;
- `AddressesAssumption`, `NoAccountAssumption`, `BoundAssumption` (`PostgresStore`): an identity has
  some set of addresses that its sign-ins may name, of one, of several or of none.

| Theorem | Module | Statement |
|---|---|---|
| `Inductive`, `TypeCorrect` | `EscrowPayments_proofs` | `Spec => []IInv`, `Spec => []TypeOK` |
| `SettledAtMostOnce`, `PaymentIsEarned`, `FundsHaveIntent`, `CapturesAreOwn`, `OneEscrow` | `EscrowPayments_proofs` | `SettledOnce`, `PaidOnlyIfEarned`, `FundedHasIntent`, `CaptureWithinIntent`, `OneEscrowPerMatch` are invariants |
| `PlatformNeverAdvances` | `EscrowPayments_proofs` | `NothingAdvanced` is an invariant |
| `Refinement` | `EscrowRefinement` | `Spec => ImplementsContract` |
| `DeletionIsFinal`, `EventsAppliedOnce` | `EscrowRefinement` | `Spec => DeletedIsFinal`, `Spec => EventAppliedOnce` |
| `MarketInductive`, `MarketTypes` | `Marketplace_proofs` | `Spec => []IInv`, `Spec => []TypeOK` |
| `OneReview`, `MatchesAreVetted` | `Marketplace_proofs` | `OneUnderReview` is an invariant, `Spec => NewMatchIsVetted` |
| `MarketKeepsVerdicts` | `Marketplace_proofs` | `Spec => KeepsVerdicts`: the memory store implements `KYCContract` |
| `ScreeningEscalates`, `OrdinaryRequestsPass` | `Marketplace_proofs` | a request that asks for more, by a client with more requests before it, is treated no better; a parcel of at most 2000 dollars with an innocent text is never held |
| `SignInInductive`, `SignInTypes` | `SignIn_proofs` | `Spec => []IInv`, `Spec => []TypeOK` |
| `AccountsAgree`, `GuessBound`, `CodesFollowPasswordsCorrect` | `SignIn_proofs` | `MapsAgree`, `GuessesBounded` are invariants, `Spec => CodesFollowPasswords` |
| `MemoryKeepsAccounts` | `SignIn_proofs` | `Spec => KeepsAccounts`: the memory store implements `AccountsContract` |
| `InvariantCorrect` | `Deals_proofs` | `Spec => []IInv` |
| `RatedAfterDeliveryCorrect`, `OneRatingPerPartyCorrect`, `OnePendingClaimCorrect`, `ClaimsAreCoveredCorrect` | `Deals_proofs` | the invariants they are named after |
| `Composition` | `Deals_proofs` | a service that keeps `EscrowContract`, composed with the claims and ratings of the parties, is a behaviour of `Deals` |
| `RatedIsNotPaidBackCorrect` | `Deals_proofs` | in that composition, behind every rating is a released escrow whose money did not go back to the client |
| `IInvCorrect` | `Gateway_proofs` | `Spec => []IInv` |
| `LoggedOutIsShutCorrect`, `BurstBoundedCorrect`, `UploadsKeptCorrect` | `Gateway_proofs` | the invariants they are named after |
| `ScoreInRange` | `Recommendations_proofs` | a score is from 5 to 100, at least 43 for a feasible pair and at most 55 for another |
| `FeasibleIsLikelier` | `Recommendations_proofs` | the estimate of any feasible pair is above that of any other |
| `PriceRisesWithTime`, `PriceGrowsWithWeight` | `Recommendations_proofs` | a suggested price never falls as time goes by, nor as the request gets heavier and dearer |
| `PriceWithinFactors` | `Recommendations_proofs` | it is between 89 % and 144 % of price times weight, to the cent |
| `BeforeIsAnOrder` | `Recommendations_proofs` | the comparison given to `sort.Slice` is a strict weak order, as sorting asks of it |
| `TypeAndListsCorrect`, `RankedByProbabilityCorrect`, `DefaultPriceNeverBelowShownCorrect` | `Recommendations_proofs` | `IInv` and `RankedByProbability` are invariants, `Spec => DefaultPriceNeverBelowShown` |
| `IInvCorrect`, `TypeCorrect` | `PostgresStore_proofs` | `Spec => []IInv`, `Spec => []TypeOK` |
| `VerdictsAgreeCorrect`, `OneAccountPerUserCorrect`, `SignedInAsNamedCorrect` | `PostgresStore_proofs` | `VerdictsAgree`, `OneAccountPerUser` are invariants, `Spec => SignedInAsNamed` |
| `PostgresKeepsAccounts`, `PostgresKeepsVerdicts` | `PostgresStore_proofs` | `Spec => KeepsAccounts`, `Spec => KeepsVerdicts`: the tables, their transactions and restarts implement the two contracts |

Each module's proof is one step lemma per action (or per conjunct an action disturbs), put
together by the cases of `Next`. The invariants that make the induction go through:

**Escrow.** `SettledOnce` alone is not inductive: a worker in the middle of a release may be
about to add the second transfer. `SettlersOK` says that at most one worker per escrow is
between its decision (`ReleaseEscrow` or `RefundEscrow`) and the moving of the money, and
that until then nothing was settled. It holds because the decision is a repository
call that only one handler can win: `funded` is left once. `WorkersOK` carries what a
worker learnt at an earlier step that no other step can undo (a payout account is never
taken away, a delivered event never goes, a released escrow never leaves that status); what can
be undone, as the approval of a package, is in no property. `LedgerOK` ties objects to
the status of their escrow and the amounts of intents and holds to its amount, `RefsOK` says
that a payment intent referred to exists,
`RowsOK` that a stored row has a status and a match and that its commission is within its amount.

`NothingAdvanced` follows from the same parts. A worker who transfers has its capture in the ledger
(`WorkersOK`), which is there because the provider found a hold of that key when it was asked. A worker
who refunds works on a refunded escrow, of which nothing is captured, as a capture means released. What it refunds may be a reference that an event wrote; were it a transfer,
the transfer would exist (`RefsOK`), while nothing is settled before the refund (`SettlersOK`).

**Refinement.** Under `IInv`, `ReleaseEscrow` maps to `Release`, `TransferPayout` to `Pay`
if it adds a transfer, `RefundPayment` to `Return`, `CreateEscrow`, `DeleteEscrowByUser` and
`AddTrackingEvent` to `Create`, `Delete` and `Deliver`, and reading steps and records of payout
fields to stutters. `SettlersOK` is what makes `Pay` and `Return` enabled in the contract.

**Composition.** `Refinement` says that the handlers of `EscrowPayments` keep `EscrowContract`.
`Composition` takes any service that keeps it, lets it interleave with the claims and ratings of
`Deals`, which it does not touch and which do not touch its money, and shows that the whole is a
behaviour of `Deals`: so what is proved of `Deals` holds of the escrows that the
handlers move, and neither module has to have the other's variables. `RatedIsNotPaidBackCorrect`
speaks of both, ratings and money; `MoneyFollows`, that money moved only as decided, is what it adds.

**Contracts of the stores.** `AccountsContract` and `KYCContract` are each implemented twice, so a
handler that relies on a contract may run over either store. Over the memory store `MapsAgree`
makes the steps fit: an address free in `userIDByEmail` is free in `usersByID`.
Over Postgres an insert is seen by others only at the commit, where it has to be a step of
the contract with what is committed by then: `SignInOK` and `Apart` keep the id, the
address and the identity of an open transaction away from everyone else until that moment. A
restart turns the ids of all open transactions into retired ones in one step. For
`KYCContract` the row lock that `ReviewKYCVerification` takes is what matters: between its
two statements the case stays what it was, and the two become visible together.

**Marketplace.** `NewMatchIsVetted` speaks of KYC rows, `CreateMatch` looks at the user's
record. `VerdictsAgree` closes the gap: the record of a user who exists equals the status of
one of the user's rows, since a review writes both under one mutex, a submission only adds
a row, and an account that is gone does not come back. `ReferencesOK` says that foreign ids
name rows.

**Sign-in.** The count in an entry lags behind the wrong answers: an answer is compared in
one step and counted in a later one. `Counts(k)` says how far. Without a lock, the wrong
answers are at most the failures counted, the workers on their way to count one, and
`Extra` = the number of other workers, whose failures may have gone into an entry whose
lock was over. Under a lock, those plus the workers still comparing are at most the
limit and `2 * Extra`, and the worker that set the lock is no longer among them. For a
challenge one more argument is needed (`ChallengeCount`): when a lock is over the challenge
is too, unless the lock was set before the id was issued.
`CodesFollowPasswords` rests on `CodesOK`: the user of a challenge, or of one about to be made, is `Entitled`,
that is, a client with a password, or gone. Ids are not issued twice, so that a new account never
answers for one that is gone, and no method turns one kind of account into another.

**Deals.** A rating is let in by a released escrow and stored when the row may be gone. What
remains is that the escrow *was* released: `released` is left by no step of the contract, and
`EscrowsOK` says that its match was delivered. `WorkersOK` carries both, and that the claimant is
a party, from the handler's look to the insert. Limit and pending claims need no such
argument, as the store reads them again under its lock.

**Gateway.** The limiter, the sessions and the files have an invariant each. `LimiterOK` splits the
requests let through into those of the current window and those before: the `Limit`
before the current ones are older than its start, and those before them by a whole window. `ShutOK`
says that a token that was logged out is on the list or past its expiry, so that what
leaves the list is refused by `Parse`, and follows a late request from one check to the other.
`FilesOK`: a file holds only what uploads of this file wrote.

**Recommendations.** `FeasibleIsLikelier` compares the two formulas at the bounds of `ScoreInRange`:
that is why sorting by feasibility and score sorts by estimate. `OnceRight` says that a list is what the
functions said at a time that has passed; with `PriceRisesWithTime` its prices are not above today's.

**Postgres.** `SignInOK` is what a sign-in knows between two statements: what its transaction
inserted nobody else has, what it found may be gone but is nothing else, since no id is given
twice. `Apart` says that two transactions never hold the same unique value. `UsersOK` has the
unique addresses and that links go to users with an address that the identity may name. For an identity with one
address the step of the contract is a sign-in; for one with several there is a second case, in
which the link was there first, and the commit is a `CreateUser`. A verdict and its
case are committed together, and cases are neither deleted nor moved, so that `VerdictsAgree` holds
across restarts and reviews that overlap. `AccountsOK` says that a user's account is the one made with the
user's key.

Not in the prover's reach and only model-checked: the liveness properties (`EveryRequestEnds`,
`PayoutIsSettled`, `EveryReviewIsTold`, `LockOpens`, `RatingIsStored`), as they need fairness and
`ENABLED`.

## 5 Findings

Each is a run with one property that a document or comment of the repository states and the
code does not keep; TLC gives the shortest trace to it.

- `escrow_stale_release` / `ReleasedPaysTraveler`. `docs/mvp-architecture.md:11` says "Client
  confirms delivery, escrow releases minus platform commission." `fundEscrow` makes the row
  `funded` in one call and records its hold in the next. A release that reads the row in
  between keeps the empty reference, releases the escrow and fails to pay; no request
  can release it again, and the fund request overwrites `payout_failed`.
- `escrow_disputed_refund` / `RefundReturnsMoney`. `backend/API.md:74` allows a refund of a
  disputed escrow and `server_test.go:221-222` expects 200 for it. The dispute has erased the
  reference by then, the provider refuses, and the handler drops the error.
- `market_duplicate` / `UniqueOpenRequests`. The comment at `server.go:919-920` says open
  requests are unique per client and details. Two submissions that overlap both
  list before either inserts.
- `postgres_match` / `CheckedMatchIsMade`. `CreateMatch` inserts with `ON CONFLICT (listing_id,
  request_id) DO NOTHING` (`postgres.go:542`), and `postgres.go:547` takes an insert that returns no
  row for "a match already exists for this request and listing". Postgres refuses such a
  clause unless a unique index on just these columns exists; `001_init.sql:46-54` makes none and
  no later migration does. Over Postgres every match is an error.

A payment intent that waits for the client or a bank is taken for a hold
(`stripe_connect.go:73-93`, `server.go:1161-1176`), while `docs/architecture-diagrams.md:300` answers the app
"escrow created + payment held". The escrow runs let it happen: such an escrow can be released, and the traveler
gets nothing (`payout_failed`), but nothing is paid out of other money (`NothingAdvanced`).

Two more disagreements with `docs/mvp-architecture.md` need no run to be seen: line 41 has a platform revenue
of `escrow.amount * commission_rate`, while what is captured is the traveler's share, all
of which is transferred; line 55 has a "suspicious package hold and manual review", while nothing
looks at the status of a held request, and nothing ends the hold.

## 6 What is not modelled

- *Of the Postgres store*: one-time codes, notifications, profile and provider settings, and the escrow,
  event, claim and review tables. The last four refer to a match and no match is made, so that
  their statements have nothing to work on; what they would promise is in `EscrowPayments` and
  `Deals`, over the memory store.
- *A provider that outlives the memory store.* After a restart the memory store issues the same
  ids again, and with them the same default idempotency keys, to which Stripe answers with objects of the
  life before. `EscrowPayments` has one life of the process.
- *The provider's own limits*: idempotency keys are forgotten after a day, holds run out. A hold made
  by a second fund request stays at the provider and is not followed up.
- *The text of a token.* The list of revoked tokens is keyed by the string that was sent, while a token
  of `Gateway` is its claims: the same claims in a signature of other text would be another entry.
- Profile fields, social provider settings, tracking events other than delivered, admin
  lists and summaries: rows that are overwritten, appended or read with no effect on others.
- Sizes, types and contents of files, texts of requests, reasons and notifications.
- Other payment providers (stand-ins without state), start-up, wipe commands, deployment.
- The mobile client and its screens. What they send is what any client may send to the
  handlers, which the modules let happen in any order.

## 7 Plan

1. *Done*: the escrow core, its contract and refinement; the marketplace; sign-in; claims and ratings on
   the contract; limiter, tokens and uploads; recommendations; the part of the Postgres store that works
   without a match; for each its inductive invariant and safety theorems. The contracts of accounts and of
   identity checks, each implemented over both stores; the composition of escrows with claims and ratings.
2. A contract of sessions (issued, ended, served) that `Gateway` implements within one life of the process.
3. One-time codes in Postgres, where one statement looks whether a code was used and another
   marks it, against what `SignIn` promises.
4. A provider that remembers behind a memory store that restarts: ids and default keys used again.
5. Once the schema has the unique index: escrows, events, claims and ratings in Postgres,
   shown against `EscrowContract`, with the event that is stored but not yet applied when the process stops.
6. `ApiClient`: the app's session, and its demo mode entered at the first network error.
