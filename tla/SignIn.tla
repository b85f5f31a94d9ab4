------------------------------- MODULE SignIn -------------------------------
(***************************************************************************)
(* Accounts and the two ways into them: a password, followed for clients   *)
(* by a one-time code sent to their phone, or a Google or Apple account.   *)
(* Wrong passwords and wrong codes are counted, per email and per          *)
(* challenge, and too many close that key for a while.                     *)
(*                                                                         *)
(* The count is read before an answer is compared and written after it,    *)
(* each time under a lock of its own, so what requests that run together   *)
(* do to it is the matter of this module.  A worker is the goroutine of    *)
(* such a request; its steps are single calls of MemoryStore and single    *)
(* critical sections of the attempts mutex.  The token that ends a sign-in *)
(* is not stored anywhere and has no step.                                 *)
(*                                                                         *)
(* One record is left out: the review of a KYC row whose user is gone puts *)
(* one without id or email among the users (Marketplace), where no email   *)
(* and no social account leads.                                            *)
(*                                                                         *)
(* Deadlines are kept as the time left, so that a tick of the clock counts *)
(* them all down: 0 is the instant itself.                                 *)
(***************************************************************************)
EXTENDS Integers, FiniteSets

CONSTANTS
    Users, Challenges,      \* ids to be issued
    Emails,
    Socials,                \* accounts at Google and Apple
    Workers,
    MaxFails,               \* authMaxFails or otpMaxFails, by key
    LockWindow,             \* authLockWindow or otpLockWindow, by key
    OTPTTL,
    NoUser, NoKey

\* The keys of loginAttempts and otpAttempts.
Keys == Emails \cup Challenges

ASSUME LimitsAssumption ==
    /\ MaxFails \in [Keys -> Nat \ {0}]
    /\ LockWindow \in [Keys -> Nat \ {0}]
    /\ OTPTTL \in Nat

ASSUME WorkersAssumption == IsFiniteSet(Workers) /\ Workers # {}

ASSUME NullsAssumption ==
    /\ NoUser \notin Users
    /\ NoKey \notin Keys
    /\ Emails \cap Challenges = {}

VARIABLES
    usersByID, userIDByEmail, socialToUserID,
    taken,              \* user ids issued so far
    otpChallenges,
    attempts,           \* loginAttempts and otpAttempts
    workers,
    wrong               \* history: wrong answers compared, by key

accounts == <<usersByID, userIDByEmail, socialToUserID, taken>>
vars == <<accounts, otpChallenges, attempts, workers, wrong>>

-----------------------------------------------------------------------------
(* Data *)

UserRows == [email : Emails, client : BOOLEAN, password : BOOLEAN]
ChallengeRows == [user : Users, left : -1 .. OTPTTL, used : BOOLEAN]

\* lock is the time left of LockedUntil, Never when it is the zero time.
Never == -1
Attempts(k) == [failures : 0 .. MaxFails[k] - 1, lock : Never .. LockWindow[k]]
NoAttempt == [failures |-> 0, lock |-> Never]

Without(table, id) == [i \in DOMAIN table \ {id} |-> table[i]]
With(table, id, row) == [i \in DOMAIN table \cup {id} |-> IF i = id THEN row ELSE table[i]]

PCs == {"idle", "password", "code", "failed", "passed", "challenge"}
WorkerStates == [pc : PCs, key : Keys \cup {NoKey}, user : Users \cup {NoUser}, otp : BOOLEAN]
Task(pc, key, user, otp) == [pc |-> pc, key |-> key, user |-> user, otp |-> otp]
Idle == Task("idle", NoKey, NoUser, FALSE)

At(w, pc) == workers[w].pc = pc
Goto(w, task) == workers' = [workers EXCEPT ![w] = task]

Init ==
    /\ usersByID = <<>> /\ userIDByEmail = <<>> /\ socialToUserID = <<>>
    /\ taken = {}
    /\ otpChallenges = <<>>
    /\ attempts = <<>>
    /\ workers = [w \in Workers |-> Idle]
    /\ wrong = [k \in Keys |-> 0]

-----------------------------------------------------------------------------
(* Counting failures *)

Entry(k) == IF k \in DOMAIN attempts THEN attempts[k] ELSE NoAttempt

\* Mutant: a lock that is over still keeps the key closed.
AllowedUnlessLocked(k) == Entry(k).lock = Never

Allowed(k) == Entry(k).lock <= 0

\* Mutant: the entry goes whether it was locked or not.
allowedAuthAttemptFresh(k) == Allowed(k) /\ attempts' = Without(attempts, k)

\* An entry whose lock is over is dropped.
allowedAuthAttempt(k) ==
    /\ Allowed(k)
    /\ attempts' = IF Entry(k).lock = Never THEN attempts ELSE Without(attempts, k)

\* Mutant: one failure too many.
CountedLate(k) ==
    LET n == Entry(k).failures + 1 IN
    IF n > MaxFails[k] THEN [failures |-> 0, lock |-> LockWindow[k]]
    ELSE [failures |-> n, lock |-> Entry(k).lock]

Counted(k) ==
    LET n == Entry(k).failures + 1 IN
    IF n >= MaxFails[k] THEN [failures |-> 0, lock |-> LockWindow[k]]
    ELSE [failures |-> n, lock |-> Entry(k).lock]

recordAuthFailure(w) ==
    /\ At(w, "failed")
    /\ attempts' = With(attempts, workers[w].key, Counted(workers[w].key))
    /\ Goto(w, Idle)
    /\ UNCHANGED <<accounts, otpChallenges, wrong>>

\* After it the request issues a token, or goes on to a challenge.
clearAuthFailures(w) ==
    LET t == workers[w] IN
    /\ At(w, "passed")
    /\ attempts' = Without(attempts, t.key)
    /\ wrong' = [wrong EXCEPT ![t.key] = 0]
    /\ Goto(w, IF t.otp THEN Task("challenge", NoKey, t.user, TRUE) ELSE Idle)
    /\ UNCHANGED <<accounts, otpChallenges>>

-----------------------------------------------------------------------------
(* Passwords *)

StartLogin(w, e) ==
    /\ At(w, "idle")
    /\ allowedAuthAttempt(e)
    /\ Goto(w, Task("password", e, NoUser, FALSE))
    /\ UNCHANGED <<accounts, otpChallenges, wrong>>

\* The user is read and the password compared.  A client's profile may have been
\* saved without a phone: the request then ends once the count is cleared.
CheckPassword(w, right, phone) ==
    LET e == workers[w].key
        u == userIDByEmail[e]
    IN
    /\ At(w, "password")
    /\ right => e \in DOMAIN userIDByEmail /\ usersByID[u].password
    /\ Goto(w, IF right THEN Task("passed", e, u, usersByID[u].client /\ phone)
               ELSE Task("failed", e, NoUser, FALSE))
    /\ wrong' = IF right THEN wrong ELSE [wrong EXCEPT ![e] = @ + 1]
    /\ UNCHANGED <<accounts, otpChallenges, attempts>>

-----------------------------------------------------------------------------
(* One-time codes *)

\* Refused when the account was deleted since it was read.  The code may fail to
\* reach the phone; the challenge stays.
CreateOTPChallenge(w, c) ==
    LET u == workers[w].user IN
    /\ At(w, "challenge")
    /\ c \in Challenges \ DOMAIN otpChallenges
    /\ otpChallenges' =
           IF u \in DOMAIN usersByID
           THEN With(otpChallenges, c, [user |-> u, left |-> OTPTTL, used |-> FALSE])
           ELSE otpChallenges
    /\ Goto(w, Idle)
    /\ UNCHANGED <<accounts, attempts, wrong>>

\* The id a request brings need not have been issued.
StartVerify(w, c) ==
    /\ At(w, "idle")
    /\ allowedAuthAttempt(c)
    /\ Goto(w, Task("code", c, NoUser, FALSE))
    /\ UNCHANGED <<accounts, otpChallenges, wrong>>

Alive(c) == c \in DOMAIN otpChallenges /\ otpChallenges[c].left >= 0
Usable(c) == Alive(c) /\ ~otpChallenges[c].used

\* A right code uses the challenge up, also when its user is gone by now.
VerifyOTPChallenge(w, right) ==
    LET c == workers[w].key
        u == otpChallenges[c].user
    IN
    /\ At(w, "code")
    /\ \/ /\ Usable(c) /\ right
          /\ otpChallenges' = [otpChallenges EXCEPT ![c].used = TRUE]
          /\ Goto(w, Task(IF u \in DOMAIN usersByID THEN "passed" ELSE "failed", c, NoUser, FALSE))
          /\ UNCHANGED wrong
       \/ /\ Usable(c) /\ ~right
          /\ Goto(w, Task("failed", c, NoUser, FALSE))
          /\ wrong' = [wrong EXCEPT ![c] = @ + 1]
          /\ UNCHANGED otpChallenges
       \/ /\ ~Usable(c)
          /\ Goto(w, Task("failed", c, NoUser, FALSE))
          /\ UNCHANGED <<otpChallenges, wrong>>
    /\ UNCHANGED <<accounts, attempts>>

-----------------------------------------------------------------------------
(* Accounts *)

\* Mutant: the id of an account that is gone is given again.
NewReused(u, row) ==
    /\ u \in Users \ DOMAIN usersByID
    /\ taken' = taken \cup {u}
    /\ usersByID' = With(usersByID, u, row)
    /\ userIDByEmail' = With(userIDByEmail, row.email, u)

New(u, row) ==
    /\ u \in Users \ taken
    /\ taken' = taken \cup {u}
    /\ usersByID' = With(usersByID, u, row)
    /\ userIDByEmail' = With(userIDByEmail, row.email, u)

\* CreateUser, of a client (who goes on to a challenge) or of anyone else.
Register(w, u, e, client) ==
    /\ At(w, "idle")
    /\ e \notin DOMAIN userIDByEmail
    /\ New(u, [email |-> e, client |-> client, password |-> TRUE])
    /\ Goto(w, IF client THEN Task("challenge", NoKey, u, TRUE) ELSE Idle)
    /\ UNCHANGED <<socialToUserID, otpChallenges, attempts, wrong>>

\* Mutant: the email of a new account is not entered.
NewSocialUnlisted(u, s, e) ==
    /\ u \in Users \ taken
    /\ taken' = taken \cup {u}
    /\ usersByID' = With(usersByID, u,
           [email |-> e, client |-> TRUE, password |-> FALSE])
    /\ socialToUserID' = With(socialToUserID, s, u)
    /\ UNCHANGED userIDByEmail

NewSocial(u, s, e) ==
    /\ New(u, [email |-> e, client |-> TRUE, password |-> FALSE])
    /\ socialToUserID' = With(socialToUserID, s, u)

\* A social account seen before changes nothing here; one that is new is linked
\* to the account with its email, or makes one.
SocialLogin(u, s, e) ==
    /\ s \notin DOMAIN socialToUserID
    /\ \/ /\ e \in DOMAIN userIDByEmail
          /\ socialToUserID' = With(socialToUserID, s, userIDByEmail[e])
          /\ UNCHANGED <<usersByID, userIDByEmail, taken>>
       \/ /\ e \notin DOMAIN userIDByEmail
          /\ NewSocial(u, s, e)
    /\ UNCHANGED <<otpChallenges, attempts, workers, wrong>>

\* Mutant: the links of the account stay.
DeleteUserByIDLinked(u) ==
    /\ u \in DOMAIN usersByID
    /\ usersByID' = Without(usersByID, u)
    /\ userIDByEmail' = Without(userIDByEmail, usersByID[u].email)
    /\ UNCHANGED <<socialToUserID, taken, otpChallenges, attempts, workers, wrong>>

DeleteUserByID(u) ==
    LET links == {s \in DOMAIN socialToUserID : socialToUserID[s] # u} IN
    /\ u \in DOMAIN usersByID
    /\ usersByID' = Without(usersByID, u)
    /\ userIDByEmail' = Without(userIDByEmail, usersByID[u].email)
    /\ socialToUserID' = [s \in links |-> socialToUserID[s]]
    /\ UNCHANGED <<taken, otpChallenges, attempts, workers, wrong>>

-----------------------------------------------------------------------------
(* Time *)

Elapse(left, end) == IF left > end THEN left - 1 ELSE left

\* The history starts anew when the lock of an email ends; that of a challenge,
\* which does not outlive its lock, never does.
Tick ==
    /\ attempts' = [k \in DOMAIN attempts |-> [attempts[k] EXCEPT !.lock = Elapse(@, 0)]]
    /\ otpChallenges' =
           [c \in DOMAIN otpChallenges |-> [otpChallenges[c] EXCEPT !.left = Elapse(@, -1)]]
    /\ wrong' = [k \in Keys |-> IF k \in Emails /\ Entry(k).lock = 1 THEN 0 ELSE wrong[k]]
    /\ UNCHANGED <<accounts, workers>>

-----------------------------------------------------------------------------
(* Specification *)

Start(w) ==
    \/ \E e \in Emails : StartLogin(w, e)
    \/ \E c \in Challenges : StartVerify(w, c)
    \/ \E u \in Users, e \in Emails, client \in BOOLEAN : Register(w, u, e, client)

Continue(w) ==
    \/ \E right, phone \in BOOLEAN : CheckPassword(w, right, phone)
    \/ \E right \in BOOLEAN : VerifyOTPChallenge(w, right)
    \/ recordAuthFailure(w)
    \/ clearAuthFailures(w)
    \/ \E c \in Challenges : CreateOTPChallenge(w, c)

Others ==
    \/ \E u \in Users, s \in Socials, e \in Emails : SocialLogin(u, s, e)
    \/ \E u \in Users : DeleteUserByID(u)

Next == (\E w \in Workers : Start(w) \/ Continue(w)) \/ Others \/ Tick

Spec == Init /\ [][Next]_vars

\* Time passes, and a goroutine that has started runs on.
FairSpec == Spec /\ WF_vars(Tick) /\ \A w \in Workers : WF_vars(Continue(w))

-----------------------------------------------------------------------------
(* Properties *)

Table(table, ids, rows) == DOMAIN table \subseteq ids /\ table \in [DOMAIN table -> rows]

TypeOK ==
    /\ taken \subseteq Users
    /\ Table(usersByID, taken, UserRows)
    /\ Table(userIDByEmail, Emails, Users)
    /\ Table(socialToUserID, Socials, Users)
    /\ Table(otpChallenges, Challenges, ChallengeRows)
    /\ DOMAIN attempts \subseteq Keys
    /\ \A k \in DOMAIN attempts : attempts[k] \in Attempts(k)
    /\ workers \in [Workers -> WorkerStates]
    /\ wrong \in [Keys -> Nat]

\* The three maps of accounts agree, whatever is registered, linked, deleted and
\* registered again: an email leads to the one account that has it, every
\* account is found by its email, and no social link leads to a deleted one.
MapsAgree ==
    /\ \A u \in DOMAIN usersByID :
          LET e == usersByID[u].email IN e \in DOMAIN userIDByEmail /\ userIDByEmail[e] = u
    /\ \A e \in DOMAIN userIDByEmail :
          LET u == userIDByEmail[e] IN u \in DOMAIN usersByID /\ usersByID[u].email = e
    /\ \A s \in DOMAIN socialToUserID : socialToUserID[s] \in DOMAIN usersByID

Extra == Cardinality(Workers) - 1

\* Requests that were let in together may all be compared, but no more: what
\* the limit lets through grows with the requests under way and with nothing
\* else.  For a code that is so over the whole life of the challenge, provided
\* it expires before a lock does; for a password, between two ends of a lock.
\* The requests still under way when a lock ends count twice: a challenge too
\* may see a lock end, one set for its id before the id was issued.
GuessesBounded == \A k \in Keys :
    k \in Emails \/ OTPTTL < LockWindow[k] => wrong[k] <= MaxFails[k] + 2 * Extra

\* The accounts that the maps hold, as AccountsContract has them.
Contract == INSTANCE AccountsContract WITH
    Ids <- Users,
    Identities <- Socials,
    registered <- {[id |-> u, email |-> usersByID[u].email] : u \in DOMAIN usersByID},
    links <- {[identity |-> s, id |-> socialToUserID[s]] : s \in DOMAIN socialToUserID},
    retired <- taken \ DOMAIN usersByID

\* The three maps of MemoryStore keep the contract of accounts: an address has
\* one account, an identity leads to one at most, an account goes with its links
\* and its id is not used again.
KeepsAccounts == Contract!Spec

\* A code signs in nobody but the client that it was sent to for the password: not an
\* account that took its place, by registration or a social sign-in, after it was
\* deleted while the request was on its way to a challenge or the code on its way back.
CodesFollowPasswords ==
    [][\A w \in Workers :
          LET u == otpChallenges[workers[w].key].user IN
          workers[w].pc = "code" /\ workers'[w].pc = "passed"
          => u \in DOMAIN usersByID /\ usersByID[u].client /\ usersByID[u].password]_vars

\* A key that was closed opens again, though requests let in before may still
\* fail and close it anew.
LockOpens == \A k \in Keys : ~Allowed(k) ~> Allowed(k)

-----------------------------------------------------------------------------
(* The inductive invariant behind the safety properties *)

\* What a request under way holds in its hands.
WorkersOK == \A w \in Workers :
    LET t == workers[w] IN
    /\ At(w, "password") => t.key \in Emails
    /\ At(w, "code") => t.key \in Challenges
    /\ At(w, "failed") \/ At(w, "passed") => t.key \in Keys
    /\ At(w, "challenge") \/ t.otp => t.user \in Users

\* The account of a challenge, made or under way, may be gone, but is no other one.
Entitled ==
    {u \in taken : u \in DOMAIN usersByID => usersByID[u].client /\ usersByID[u].password}

CodesOK ==
    /\ \A c \in DOMAIN otpChallenges : otpChallenges[c].user \in Entitled
    /\ \A w \in Workers : At(w, "challenge") \/ workers[w].otp => workers[w].user \in Entitled

Comparing(k) == {w \in Workers : workers[w].key = k /\ workers[w].pc \in {"password", "code"}}
Failing(k) == {w \in Workers : workers[w].key = k /\ At(w, "failed")}

\* Every wrong answer is counted or is about to be, but for those counted in an
\* entry whose lock was over.  Under a lock one worker at least, the one that set
\* it, is out of the way.
Counts(k) ==
    LET a == Entry(k)
        comparing == Cardinality(Comparing(k))
        failing == Cardinality(Failing(k))
    IN
    /\ a.lock = Never => wrong[k] <= a.failures + failing + Extra
    /\ a.lock # Never => /\ wrong[k] + comparing <= MaxFails[k] + 2 * Extra
                         /\ comparing + failing <= Extra

\* What was compared before the lock that has just ended is forgotten.
PasswordCount(e) ==
    /\ Counts(e)
    /\ Entry(e).lock = 0 => wrong[e] + Cardinality(Comparing(e)) <= Extra

\* A lock outlasts the challenge, unless it is older.  What can no longer be
\* compared with the challenge is not counted.
ChallengeCount(c) ==
    /\ wrong[c] <= MaxFails[c] + 2 * Extra
    /\ c \notin DOMAIN otpChallenges =>
          /\ wrong[c] = 0
          /\ Entry(c).lock # Never =>
                Cardinality(Comparing(c)) + Cardinality(Failing(c)) <= Extra
    /\ Alive(c) =>
          /\ Counts(c)
          /\ Entry(c).lock # Never /\ Entry(c).lock <= otpChallenges[c].left =>
                wrong[c] + Cardinality(Comparing(c)) <= Extra

CountsOK ==
    /\ \A e \in Emails : PasswordCount(e)
    /\ \A c \in Challenges : OTPTTL < LockWindow[c] => ChallengeCount(c)

IInv == TypeOK /\ MapsAgree /\ WorkersOK /\ CodesOK /\ CountsOK

=============================================================================
