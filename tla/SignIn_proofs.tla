--------------------------- MODULE SignIn_proofs ---------------------------
(***************************************************************************)
(* Proofs about SignIn, for any accounts, limits and workers.              *)
(***************************************************************************)
EXTENDS SignIn, FiniteSetTheorems, TLAPS

(* What With and Without make of a table.                                    *)
LEMMA WithTable ==
    ASSUME NEW rows, NEW ids, NEW table, Table(table, ids, rows), NEW id \in ids, NEW row \in rows
    PROVE /\ Table(With(table, id, row), ids, rows)
          /\ DOMAIN With(table, id, row) = DOMAIN table \cup {id}
          /\ With(table, id, row)[id] = row
          /\ \A i \in DOMAIN table \ {id} : With(table, id, row)[i] = table[i]
BY DEF Table, With

LEMMA WithoutTable ==
    ASSUME NEW rows, NEW ids, NEW table, Table(table, ids, rows), NEW id
    PROVE /\ Table(Without(table, id), ids, rows)
          /\ DOMAIN Without(table, id) = DOMAIN table \ {id}
          /\ \A i \in DOMAIN table \ {id} : Without(table, id)[i] = table[i]
BY DEF Table, Without

(* A table may be read as one with more ids.                                  *)
LEMMA WiderTable ==
    ASSUME NEW rows, NEW ids, NEW more, ids \subseteq more, NEW table, Table(table, ids, rows)
    PROVE Table(table, more, rows)
BY DEF Table

LEMMA TaskTyped ==
    ASSUME NEW pc \in PCs, NEW key \in Keys \cup {NoKey}, NEW user \in Users \cup {NoUser},
           NEW otp \in BOOLEAN
    PROVE /\ Task(pc, key, user, otp) \in WorkerStates
          /\ Task(pc, key, user, otp).pc = pc
          /\ Task(pc, key, user, otp).key = key
          /\ Task(pc, key, user, otp).user = user
          /\ Task(pc, key, user, otp).otp = otp
BY DEF Task, WorkerStates

LEMMA KeyTask ==
    ASSUME NEW pc \in PCs, NEW key \in Keys
    PROVE /\ Task(pc, key, NoUser, FALSE) \in WorkerStates
          /\ Task(pc, key, NoUser, FALSE).pc = pc
          /\ Task(pc, key, NoUser, FALSE).key = key
          /\ ~Task(pc, key, NoUser, FALSE).otp
BY DEF Task, WorkerStates

LEMMA ChallengeTask ==
    ASSUME NEW u \in Users
    PROVE /\ Task("challenge", NoKey, u, TRUE) \in WorkerStates
          /\ Task("challenge", NoKey, u, TRUE).pc = "challenge"
          /\ Task("challenge", NoKey, u, TRUE).key = NoKey
          /\ Task("challenge", NoKey, u, TRUE).user = u
BY DEF Task, WorkerStates, PCs

LEMMA IdleTyped == Idle \in WorkerStates /\ Idle.pc = "idle" /\ Idle.key = NoKey /\ ~Idle.otp
BY DEF Idle, Task, WorkerStates, PCs

LEMMA GotoTyped ==
    ASSUME workers \in [Workers -> WorkerStates], NEW w \in Workers, NEW t \in WorkerStates,
           Goto(w, t)
    PROVE /\ workers' \in [Workers -> WorkerStates]
          /\ workers'[w] = t
          /\ \A v \in Workers \ {w} : workers'[v] = workers[v]
BY DEF Goto

(* An entry is typed, and so is what a failure or an admission makes of it.   *)
LEMMA EntryTyped ==
    ASSUME TypeOK, NEW k \in Keys
    PROVE /\ Entry(k) \in Attempts(k)
          /\ Counted(k) \in Attempts(k)
          /\ Entry(k).failures \in Nat /\ Entry(k).failures < MaxFails[k]
          /\ Entry(k).lock \in Int /\ Entry(k).lock >= Never
<1>1. MaxFails[k] \in Nat \ {0} /\ LockWindow[k] \in Nat \ {0}
  BY LimitsAssumption
<1>2. NoAttempt \in Attempts(k)
  BY <1>1 DEF NoAttempt, Attempts, Never
<1>3. Entry(k) \in Attempts(k)
  BY <1>2 DEF Entry, TypeOK
<1>4. /\ Entry(k).failures \in 0 .. MaxFails[k] - 1
      /\ Entry(k).lock \in Never .. LockWindow[k]
  BY <1>3 DEF Attempts
<1>5. Counted(k) \in Attempts(k)
  BY <1>1, <1>4 DEF Counted, Attempts, Never
<1> QED
  BY <1>1, <1>3, <1>4, <1>5 DEF Never

(* Entries of other keys are left alone; those of this key become as said.    *)
LEMMA Admission ==
    ASSUME TypeOK, NEW k \in Keys, allowedAuthAttempt(k)
    PROVE /\ DOMAIN attempts' \subseteq DOMAIN attempts
          /\ \A j \in DOMAIN attempts' : attempts'[j] \in Attempts(j)
          /\ \A j \in Keys \ {k} : Entry(j)' = Entry(j)
          /\ Entry(k).lock = Never => Entry(k)' = Entry(k)
          /\ Entry(k).lock # Never => Entry(k).lock = 0 /\ Entry(k)' = NoAttempt
<1>1. /\ Entry(k).lock \in Int /\ Entry(k).lock >= Never /\ Entry(k).lock <= 0
      /\ Never = -1
  BY EntryTyped DEF allowedAuthAttempt, Allowed, Never
<1>2. CASE Entry(k).lock = Never
  BY <1>2 DEF allowedAuthAttempt, Entry, TypeOK
<1>3. CASE Entry(k).lock # Never
  BY <1>1, <1>3 DEF allowedAuthAttempt, Entry, Without, TypeOK
<1> QED
  BY <1>2, <1>3

LEMMA Counting ==
    ASSUME TypeOK, NEW k \in Keys, attempts' = With(attempts, k, Counted(k))
    PROVE /\ DOMAIN attempts' = DOMAIN attempts \cup {k}
          /\ \A j \in DOMAIN attempts' : attempts'[j] \in Attempts(j)
          /\ \A j \in Keys \ {k} : Entry(j)' = Entry(j)
          /\ Entry(k)' = Counted(k)
BY EntryTyped DEF Entry, With, TypeOK

LEMMA Clearing ==
    ASSUME TypeOK, NEW k \in Keys, attempts' = Without(attempts, k)
    PROVE /\ DOMAIN attempts' = DOMAIN attempts \ {k}
          /\ \A j \in DOMAIN attempts' : attempts'[j] \in Attempts(j)
          /\ \A j \in Keys \ {k} : Entry(j)' = Entry(j)
          /\ Entry(k)' = NoAttempt
BY DEF Entry, Without, TypeOK

LEMMA Ticking ==
    ASSUME TypeOK, Tick
    PROVE /\ DOMAIN attempts' = DOMAIN attempts
          /\ \A j \in DOMAIN attempts' : attempts'[j] \in Attempts(j)
          /\ \A j \in Keys : /\ Entry(j)'.failures = Entry(j).failures
                             /\ Entry(j)'.lock = Elapse(Entry(j).lock, 0)
<1>1. DOMAIN attempts' = DOMAIN attempts
  BY DEF Tick
<1>2. ASSUME NEW j \in DOMAIN attempts
      PROVE /\ attempts'[j] \in Attempts(j)
            /\ attempts'[j].failures = attempts[j].failures
            /\ attempts'[j].lock = Elapse(attempts[j].lock, 0)
  <2>1. attempts[j] \in Attempts(j) /\ j \in Keys
    BY DEF TypeOK
  <2>2. attempts'[j] = [attempts[j] EXCEPT !.lock = Elapse(attempts[j].lock, 0)]
    BY DEF Tick
  <2>3. LockWindow[j] \in Nat
    BY <2>1, LimitsAssumption
  <2>4. Elapse(attempts[j].lock, 0) \in Never .. LockWindow[j]
    BY <2>1, <2>3 DEF Elapse, Attempts, Never
  <2> QED
    BY <2>1, <2>2, <2>4 DEF Attempts
<1>3. Elapse(Never, 0) = Never
  BY DEF Elapse, Never
<1> QED
  BY <1>1, <1>2, <1>3 DEF Entry, NoAttempt

-----------------------------------------------------------------------------
(* Type correctness and what workers hold *)

(* Init has no account, no challenge, no attempt and idle workers.            *)
LEMMA InitInv == Init => IInv
<1> SUFFICES ASSUME Init PROVE IInv
  OBVIOUS
<1>1. DOMAIN usersByID = {} /\ DOMAIN userIDByEmail = {} /\ DOMAIN socialToUserID = {}
      /\ DOMAIN otpChallenges = {} /\ DOMAIN attempts = {}
  BY DEF Init
<1>2. TypeOK
  BY <1>1, IdleTyped DEF Init, TypeOK, Table
<1>3. MapsAgree
  BY <1>1 DEF MapsAgree
<1>4. WorkersOK
  BY IdleTyped DEF Init, WorkersOK, At
<1>5. \A k \in Keys : Entry(k) = NoAttempt /\ wrong[k] = 0
  BY <1>1 DEF Init, Entry
<1>6. \A k : Comparing(k) = {} /\ Failing(k) = {}
  BY IdleTyped DEF Init, Comparing, Failing, At
<1>7. Cardinality({}) = 0 /\ Extra \in Nat
  BY FS_EmptySet, FS_CardinalityType, WorkersAssumption DEF Extra
<1>8. ASSUME NEW e \in Emails PROVE PasswordCount(e)
  BY <1>5, <1>6, <1>7, SMT DEF PasswordCount, Counts, Keys, NoAttempt, Never
<1>9. \A c \in Challenges : MaxFails[c] \in Nat
  BY LimitsAssumption DEF Keys
<1>10. ASSUME NEW c \in Challenges PROVE ChallengeCount(c)
  BY <1>1, <1>5, <1>7, <1>9 DEF ChallengeCount, Alive, Keys, NoAttempt, Never
<1>11. CodesOK
  BY <1>1, IdleTyped DEF Init, CodesOK, At
<1> QED
  BY <1>2, <1>3, <1>4, <1>8, <1>10, <1>11 DEF IInv, CountsOK

LEMMA NewTyped ==
    ASSUME TypeOK, NEW u \in Users, NEW row \in UserRows, New(u, row)
    PROVE /\ taken' \subseteq Users
          /\ Table(usersByID', taken', UserRows)
          /\ Table(userIDByEmail', Emails, Users)
<1>1. row.email \in Emails
  BY DEF UserRows
<1>2. Table(usersByID, taken \cup {u}, UserRows)
  BY WiderTable DEF TypeOK
<1> QED
  BY <1>1, <1>2, WithTable DEF New, TypeOK

LEMMA ChallengeWorkers ==
    ASSUME TypeOK, WorkersOK, NEW w \in Workers, NEW t \in WorkerStates, Goto(w, t),
           t.pc = "password" => t.key \in Emails,
           t.pc = "code" => t.key \in Challenges,
           t.pc \in {"failed", "passed"} => t.key \in Keys,
           t.pc = "challenge" \/ t.otp => t.user \in Users
    PROVE workers' \in [Workers -> WorkerStates] /\ WorkersOK'
<1>1. /\ workers' \in [Workers -> WorkerStates]
      /\ workers'[w] = t
      /\ \A v \in Workers \ {w} : workers'[v] = workers[v]
  BY GotoTyped DEF TypeOK
<1>2. ASSUME NEW v \in Workers
      PROVE /\ workers'[v].pc = "password" => workers'[v].key \in Emails
            /\ workers'[v].pc = "code" => workers'[v].key \in Challenges
            /\ workers'[v].pc = "failed" \/ workers'[v].pc = "passed" => workers'[v].key \in Keys
            /\ workers'[v].pc = "challenge" \/ workers'[v].otp => workers'[v].user \in Users
  <2>1. CASE v = w
    BY <1>1, <2>1
  <2>2. CASE v # w
    BY <1>1, <2>2 DEF WorkersOK, At
  <2> QED
    BY <2>1, <2>2
<1> QED
  BY <1>1, <1>2 DEF WorkersOK, At

LEMMA TypeStep == TypeOK /\ WorkersOK /\ MapsAgree /\ [Next]_vars => TypeOK' /\ WorkersOK'
<1> SUFFICES ASSUME TypeOK, WorkersOK, MapsAgree, [Next]_vars PROVE TypeOK' /\ WorkersOK'
  OBVIOUS
<1> USE DEF accounts
<1>1. ASSUME NEW w \in Workers, NEW e \in Emails, StartLogin(w, e) PROVE TypeOK' /\ WorkersOK'
  <2>1. Task("password", e, NoUser, FALSE) \in WorkerStates
        /\ Task("password", e, NoUser, FALSE).pc = "password"
        /\ Task("password", e, NoUser, FALSE).key = e
        /\ ~Task("password", e, NoUser, FALSE).otp
    BY KeyTask DEF Keys, PCs
  <2>2. workers' \in [Workers -> WorkerStates] /\ WorkersOK'
    BY <1>1, <2>1, ChallengeWorkers DEF StartLogin
  <2> QED
    BY <1>1, <2>2, Admission DEF StartLogin, TypeOK, Keys
<1>2. ASSUME NEW w \in Workers, NEW c \in Challenges, StartVerify(w, c) PROVE TypeOK' /\ WorkersOK'
  <2>1. Task("code", c, NoUser, FALSE) \in WorkerStates
        /\ Task("code", c, NoUser, FALSE).pc = "code"
        /\ Task("code", c, NoUser, FALSE).key = c
        /\ ~Task("code", c, NoUser, FALSE).otp
    BY KeyTask DEF Keys, PCs
  <2>2. workers' \in [Workers -> WorkerStates] /\ WorkersOK'
    BY <1>2, <2>1, ChallengeWorkers DEF StartVerify
  <2> QED
    BY <1>2, <2>2, Admission DEF StartVerify, TypeOK, Keys
<1>3. ASSUME NEW w \in Workers, NEW u \in Users, NEW e \in Emails, NEW client \in BOOLEAN,
             Register(w, u, e, client)
      PROVE TypeOK' /\ WorkersOK'
  <2> DEFINE t == IF client THEN Task("challenge", NoKey, u, TRUE) ELSE Idle
             row == [email |-> e, client |-> client, password |-> TRUE]
  <2>1. t \in WorkerStates /\ t.pc \in {"challenge", "idle"}
        /\ (t.pc = "challenge" \/ t.otp => t.user \in Users)
    BY ChallengeTask, IdleTyped
  <2>2. workers' \in [Workers -> WorkerStates] /\ WorkersOK'
    <3>1. Goto(w, t)
      BY <1>3 DEF Register
    <3> HIDE DEF t
    <3> QED
      BY <1>3, <2>1, <3>1, ChallengeWorkers DEF Register
  <2>3. row \in UserRows /\ New(u, row)
    BY <1>3 DEF UserRows, Register
  <2> HIDE DEF row, t
  <2> QED
    BY <1>3, <2>2, <2>3, NewTyped DEF Register, TypeOK
<1>4. ASSUME NEW w \in Workers, NEW right \in BOOLEAN, NEW phone \in BOOLEAN,
             CheckPassword(w, right, phone)
      PROVE TypeOK' /\ WorkersOK'
  <2> DEFINE e == workers[w].key
             u == userIDByEmail[e]
             t == IF right THEN Task("passed", e, u, usersByID[u].client /\ phone)
                  ELSE Task("failed", e, NoUser, FALSE)
  <2>1. e \in Emails
    BY <1>4 DEF CheckPassword, WorkersOK
  <2>2. right => u \in DOMAIN usersByID /\ u \in Users /\ usersByID[u].client \in BOOLEAN
    BY <1>4 DEF CheckPassword, MapsAgree, TypeOK, Table, UserRows
  <2>3. t \in WorkerStates /\ t.pc \in {"passed", "failed"} /\ t.key = e
        /\ (t.otp => t.user \in Users)
    <3>1. CASE right
      <4>1. (usersByID[u].client /\ phone) \in BOOLEAN
        OBVIOUS
      <4> HIDE DEF u, e
      <4> QED
        BY <2>1, <2>2, <3>1, <4>1, TaskTyped DEF PCs, Keys
    <3>2. CASE ~right
      <4>1. t = Task("failed", e, NoUser, FALSE)
        BY <3>2
      <4>2. e \in Keys /\ "failed" \in PCs
        BY <2>1 DEF Keys, PCs
      <4> HIDE DEF t, e
      <4> QED
        BY <4>1, <4>2, KeyTask
    <3> QED
      BY <3>1, <3>2
  <2>4. Goto(w, t) /\ UNCHANGED otpChallenges
    BY <1>4 DEF CheckPassword
  <2>5. workers' \in [Workers -> WorkerStates] /\ WorkersOK'
    <3> HIDE DEF t
    <3> QED
      BY <2>1, <2>3, <2>4, ChallengeWorkers DEF Keys
  <2>6. wrong' \in [Keys -> Nat]
    BY <1>4, <2>1 DEF CheckPassword, TypeOK, Keys
  <2> HIDE DEF t, u, e
  <2> QED
    BY <1>4, <2>5, <2>6 DEF CheckPassword, TypeOK
<1>5. ASSUME NEW w \in Workers, NEW right \in BOOLEAN, VerifyOTPChallenge(w, right)
      PROVE TypeOK' /\ WorkersOK'
  <2> DEFINE c == workers[w].key
  <2>1. c \in Challenges
    BY <1>5 DEF VerifyOTPChallenge, WorkersOK
  <2>2. PICK pc \in {"passed", "failed"} : Goto(w, Task(pc, c, NoUser, FALSE))
    BY <1>5 DEF VerifyOTPChallenge
  <2> HIDE DEF c
  <2>3. Task(pc, c, NoUser, FALSE) \in WorkerStates
        /\ Task(pc, c, NoUser, FALSE).pc = pc
        /\ Task(pc, c, NoUser, FALSE).key = c
        /\ ~Task(pc, c, NoUser, FALSE).otp
    <3>1. pc \in PCs /\ c \in Keys
      BY <2>1 DEF PCs, Keys
    <3> QED
      BY <3>1, KeyTask
  <2>4. DOMAIN otpChallenges' = DOMAIN otpChallenges
        /\ Table(otpChallenges', Challenges, ChallengeRows)
    <3>1. \/ UNCHANGED otpChallenges
          \/ /\ c \in DOMAIN otpChallenges
             /\ otpChallenges' = [otpChallenges EXCEPT ![c] = [@ EXCEPT !.used = TRUE]]
      BY <1>5 DEF VerifyOTPChallenge, Usable, Alive, c
    <3>2. c \in DOMAIN otpChallenges => [otpChallenges[c] EXCEPT !.used = TRUE] \in ChallengeRows
      BY DEF TypeOK, Table, ChallengeRows
    <3> QED
      BY <3>1, <3>2 DEF TypeOK, Table
  <2>5. workers' \in [Workers -> WorkerStates] /\ WorkersOK'
    BY <2>1, <2>2, <2>3, ChallengeWorkers DEF Keys
  <2>6. wrong' \in [Keys -> Nat]
    <3>1. UNCHANGED wrong \/ wrong' = [wrong EXCEPT ![c] = @ + 1]
      BY <1>5 DEF VerifyOTPChallenge, c
    <3> QED
      BY <2>1, <3>1 DEF TypeOK, Keys
  <2> QED
    BY <1>5, <2>4, <2>5, <2>6 DEF VerifyOTPChallenge, TypeOK
<1>6. ASSUME NEW w \in Workers, recordAuthFailure(w) PROVE TypeOK' /\ WorkersOK'
  <2>1. workers[w].key \in Keys
    BY <1>6 DEF recordAuthFailure, WorkersOK
  <2>2. workers' \in [Workers -> WorkerStates] /\ WorkersOK'
    BY <1>6, IdleTyped, ChallengeWorkers DEF recordAuthFailure
  <2> QED
    BY <1>6, <2>1, <2>2, Counting DEF recordAuthFailure, TypeOK
<1>7. ASSUME NEW w \in Workers, clearAuthFailures(w) PROVE TypeOK' /\ WorkersOK'
  <2> DEFINE s == workers[w]
             t == IF s.otp THEN Task("challenge", NoKey, s.user, TRUE) ELSE Idle
  <2>1. s.key \in Keys
    BY <1>7 DEF clearAuthFailures, WorkersOK
  <2>2. s.otp => s.user \in Users
    BY DEF WorkersOK
  <2>3. t \in WorkerStates /\ t.pc \in {"challenge", "idle"}
        /\ (t.pc = "challenge" \/ t.otp => t.user \in Users)
    BY <2>2, ChallengeTask, IdleTyped
  <2>4. Goto(w, t) /\ UNCHANGED otpChallenges
    BY <1>7 DEF clearAuthFailures
  <2>5. workers' \in [Workers -> WorkerStates] /\ WorkersOK'
    <3> HIDE DEF t
    <3> QED
      BY <2>3, <2>4, ChallengeWorkers
  <2>6. wrong' \in [Keys -> Nat]
    BY <1>7 DEF clearAuthFailures, TypeOK
  <2> HIDE DEF t
  <2> QED
    BY <1>7, <2>1, <2>5, <2>6, Clearing DEF clearAuthFailures, TypeOK
<1>8. ASSUME NEW w \in Workers, NEW c \in Challenges, CreateOTPChallenge(w, c)
      PROVE TypeOK' /\ WorkersOK'
  <2>1. workers[w].user \in Users
    BY <1>8 DEF CreateOTPChallenge, WorkersOK
  <2>2. [user |-> workers[w].user, left |-> OTPTTL, used |-> FALSE] \in ChallengeRows
    BY <2>1, LimitsAssumption DEF ChallengeRows
  <2>3. DOMAIN otpChallenges \subseteq DOMAIN otpChallenges'
        /\ Table(otpChallenges', Challenges, ChallengeRows)
    <3>1. Table(otpChallenges, Challenges, ChallengeRows)
      BY DEF TypeOK
    <3> QED
      <4>1. CASE workers[w].user \in DOMAIN usersByID
        <5> DEFINE fresh == [user |-> workers[w].user, left |-> OTPTTL, used |-> FALSE]
        <5>1. otpChallenges' = With(otpChallenges, c, fresh)
          BY <1>8, <4>1 DEF CreateOTPChallenge
        <5>2. fresh \in ChallengeRows
          BY <2>2
        <5> HIDE DEF fresh
        <5>3. Table(With(otpChallenges, c, fresh), Challenges, ChallengeRows)
          BY <3>1, <5>2, WithTable
        <5>4. DOMAIN With(otpChallenges, c, fresh) = DOMAIN otpChallenges \cup {c}
          BY DEF With
        <5> QED
          BY <5>1, <5>3, <5>4
      <4>2. CASE workers[w].user \notin DOMAIN usersByID
        BY <1>8, <3>1, <4>2 DEF CreateOTPChallenge
      <4> QED
        BY <4>1, <4>2
  <2>4. workers' \in [Workers -> WorkerStates] /\ WorkersOK'
    BY <1>8, <2>3, IdleTyped, ChallengeWorkers DEF CreateOTPChallenge
  <2> QED
    BY <1>8, <2>3, <2>4 DEF CreateOTPChallenge, TypeOK
<1>9. ASSUME NEW u \in Users, NEW s \in Socials, NEW e \in Emails, SocialLogin(u, s, e)
      PROVE TypeOK' /\ WorkersOK'
  <2>1. WorkersOK'
    BY <1>9 DEF SocialLogin, WorkersOK, At
  <2>2. CASE e \in DOMAIN userIDByEmail
    <3>1. userIDByEmail[e] \in Users
      BY <2>2 DEF TypeOK, Table
    <3>2. Table(socialToUserID', Socials, Users)
      <4>1. socialToUserID' = With(socialToUserID, s, userIDByEmail[e])
        BY <1>9, <2>2 DEF SocialLogin
      <4> QED
        BY <3>1, <4>1, WithTable DEF TypeOK
    <3> QED
      BY <1>9, <2>1, <2>2, <3>2 DEF SocialLogin, TypeOK
  <2>3. CASE e \notin DOMAIN userIDByEmail
    <3>1. NewSocial(u, s, e)
      BY <1>9, <2>3 DEF SocialLogin
    <3>2. [email |-> e, client |-> TRUE, password |-> FALSE] \in UserRows
      BY DEF UserRows
    <3> QED
      BY <1>9, <2>1, <3>1, <3>2, NewTyped, WithTable DEF SocialLogin, NewSocial, TypeOK
  <2> QED
    BY <2>2, <2>3
<1>10. ASSUME NEW u \in Users, DeleteUserByID(u) PROVE TypeOK' /\ WorkersOK'
  <2>1. WorkersOK'
    BY <1>10 DEF DeleteUserByID, WorkersOK, At
  <2>2. Table(usersByID', taken, UserRows) /\ Table(userIDByEmail', Emails, Users)
    BY <1>10, WithoutTable DEF DeleteUserByID, TypeOK
  <2>3. Table(socialToUserID', Socials, Users)
    BY <1>10 DEF DeleteUserByID, TypeOK, Table
  <2> QED
    BY <1>10, <2>1, <2>2, <2>3 DEF DeleteUserByID, TypeOK
<1>11. CASE Tick
  <2>1. DOMAIN otpChallenges' = DOMAIN otpChallenges
        /\ Table(otpChallenges', Challenges, ChallengeRows)
    <3>1. ASSUME NEW c \in DOMAIN otpChallenges
          PROVE [otpChallenges[c] EXCEPT !.left = Elapse(@, -1)] \in ChallengeRows
      <4>1. otpChallenges[c] \in ChallengeRows
        BY DEF TypeOK, Table
      <4>2. Elapse(otpChallenges[c].left, -1) \in -1 .. OTPTTL
        BY <4>1, LimitsAssumption DEF Elapse, ChallengeRows
      <4> QED
        BY <4>1, <4>2 DEF ChallengeRows
    <3> QED
      BY <1>11, <3>1 DEF Tick, TypeOK, Table
  <2>2. WorkersOK'
    BY <1>11, <2>1 DEF Tick, WorkersOK, At
  <2>3. wrong' \in [Keys -> Nat]
    BY <1>11 DEF Tick, TypeOK
  <2> QED
    BY <1>11, <2>1, <2>2, <2>3, Ticking DEF Tick, TypeOK
<1>12. CASE UNCHANGED vars
  BY <1>12 DEF vars, TypeOK, WorkersOK, At
<1> QED
  BY <1>1, <1>2, <1>3, <1>4, <1>5, <1>6, <1>7, <1>8, <1>9, <1>10, <1>11, <1>12
     DEF Next, Start, Continue, Others

-----------------------------------------------------------------------------
(* The maps of accounts *)

(* A new account under an email that had none keeps the maps in agreement.    *)
LEMMA NewAgrees ==
    ASSUME TypeOK, MapsAgree, NEW u \in Users, NEW row \in UserRows, New(u, row),
           row.email \notin DOMAIN userIDByEmail
    PROVE /\ \A v \in DOMAIN usersByID' :
                LET e == usersByID'[v].email IN e \in DOMAIN userIDByEmail' /\ userIDByEmail'[e] = v
          /\ \A e \in DOMAIN userIDByEmail' :
                LET v == userIDByEmail'[e] IN v \in DOMAIN usersByID' /\ usersByID'[v].email = e
          /\ DOMAIN usersByID' = DOMAIN usersByID \cup {u}
<1>1. u \notin DOMAIN usersByID
  BY DEF New, TypeOK, Table
<1>2. /\ DOMAIN usersByID' = DOMAIN usersByID \cup {u}
      /\ usersByID'[u] = row
      /\ \A v \in DOMAIN usersByID : usersByID'[v] = usersByID[v]
  BY <1>1 DEF New, With
<1>3. /\ DOMAIN userIDByEmail' = DOMAIN userIDByEmail \cup {row.email}
      /\ userIDByEmail'[row.email] = u
      /\ \A e \in DOMAIN userIDByEmail : userIDByEmail'[e] = userIDByEmail[e]
  BY DEF New, With
<1> QED
  BY <1>1, <1>2, <1>3 DEF MapsAgree

LEMMA MapsStep == TypeOK /\ MapsAgree /\ [Next]_vars => MapsAgree'
<1> SUFFICES ASSUME TypeOK, MapsAgree, [Next]_vars PROVE MapsAgree'
  OBVIOUS
<1>1. ASSUME NEW w \in Workers, NEW u \in Users, NEW e \in Emails, NEW client \in BOOLEAN,
             Register(w, u, e, client)
      PROVE MapsAgree'
  <2> DEFINE fresh == [email |-> e, client |-> client, password |-> TRUE]
  <2>1. /\ fresh \in UserRows /\ New(u, fresh) /\ fresh.email \notin DOMAIN userIDByEmail
        /\ UNCHANGED socialToUserID
    BY <1>1 DEF UserRows, Register
  <2> HIDE DEF fresh
  <2> QED
    BY <2>1, NewAgrees DEF MapsAgree
<1>2. ASSUME NEW u \in Users, NEW s \in Socials, NEW e \in Emails, SocialLogin(u, s, e)
      PROVE MapsAgree'
  <2>1. CASE e \in DOMAIN userIDByEmail
    BY <1>2, <2>1 DEF SocialLogin, With, MapsAgree
  <2>2. CASE e \notin DOMAIN userIDByEmail
    <3> DEFINE fresh == [email |-> e, client |-> TRUE, password |-> FALSE]
    <3>1. /\ fresh \in UserRows /\ New(u, fresh) /\ fresh.email \notin DOMAIN userIDByEmail
          /\ socialToUserID' = With(socialToUserID, s, u)
      BY <1>2, <2>2 DEF UserRows, SocialLogin, NewSocial
    <3> HIDE DEF fresh
    <3>2. \A t \in DOMAIN socialToUserID' :
              socialToUserID'[t] = u \/ socialToUserID'[t] \in DOMAIN usersByID
      BY <3>1 DEF With, MapsAgree
    <3>3. DOMAIN usersByID' = DOMAIN usersByID \cup {u}
      BY <3>1, NewAgrees
    <3>4. \A t \in DOMAIN socialToUserID' : socialToUserID'[t] \in DOMAIN usersByID'
      BY <3>2, <3>3
    <3> QED
      BY <3>1, <3>4, NewAgrees DEF MapsAgree
  <2> QED
    BY <2>1, <2>2
<1>3. ASSUME NEW u \in Users, DeleteUserByID(u) PROVE MapsAgree'
  BY <1>3 DEF DeleteUserByID, Without, MapsAgree
<1>4. CASE UNCHANGED accounts
  BY <1>4 DEF accounts, MapsAgree
<1>5. ASSUME NEW w \in Workers, Continue(w) PROVE UNCHANGED accounts
  BY <1>5 DEF Continue, CheckPassword, VerifyOTPChallenge, recordAuthFailure, clearAuthFailures,
       CreateOTPChallenge
<1>6. ASSUME NEW w \in Workers, NEW k \in Keys, StartLogin(w, k) \/ StartVerify(w, k)
      PROVE UNCHANGED accounts
  BY <1>6 DEF StartLogin, StartVerify
<1>7. Tick \/ UNCHANGED vars => UNCHANGED accounts
  BY DEF Tick, vars
<1> QED
  BY <1>1, <1>2, <1>3, <1>4, <1>5, <1>6, <1>7 DEF Next, Start, Others, Keys

-----------------------------------------------------------------------------
(* Whom a code may sign in *)

(* A row never changes, and a new one has an id that was not issued before.   *)
LEMMA EntitledKept ==
    ASSUME TypeOK, [Next]_vars
    PROVE  Entitled \subseteq Entitled'
<1>1. ASSUME NEW v \in Users, NEW row \in UserRows, New(v, row) PROVE Entitled \subseteq Entitled'
  BY <1>1 DEF New, With, Entitled
<1>2. ASSUME NEW w \in Workers, NEW v \in Users, NEW e \in Emails, NEW client \in BOOLEAN,
             Register(w, v, e, client)
      PROVE  Entitled \subseteq Entitled'
  <2>1. [email |-> e, client |-> client, password |-> TRUE] \in UserRows
    BY DEF UserRows
  <2> QED
    BY <1>1, <1>2, <2>1 DEF Register
<1>3. ASSUME NEW v \in Users, NEW s \in Socials, NEW e \in Emails, SocialLogin(v, s, e)
      PROVE  Entitled \subseteq Entitled'
  <2>1. CASE UNCHANGED <<usersByID, taken>>
    BY <2>1 DEF Entitled
  <2>2. CASE NewSocial(v, s, e)
    <3>1. [email |-> e, client |-> TRUE, password |-> FALSE] \in UserRows
      BY DEF UserRows
    <3> QED
      BY <1>1, <2>2, <3>1 DEF NewSocial
  <2> QED
    BY <1>3, <2>1, <2>2 DEF SocialLogin
<1>4. ASSUME NEW v \in Users, DeleteUserByID(v) PROVE Entitled \subseteq Entitled'
  BY <1>4 DEF DeleteUserByID, Without, Entitled
<1>5. ASSUME UNCHANGED accounts PROVE Entitled \subseteq Entitled'
  BY <1>5 DEF accounts, Entitled
<1>6. ASSUME NEW w \in Workers, Continue(w) PROVE UNCHANGED accounts
  BY <1>6 DEF Continue, CheckPassword, VerifyOTPChallenge, recordAuthFailure, clearAuthFailures,
       CreateOTPChallenge
<1>7. ASSUME NEW w \in Workers, NEW k \in Keys, StartLogin(w, k) \/ StartVerify(w, k)
      PROVE UNCHANGED accounts
  BY <1>7 DEF StartLogin, StartVerify
<1>8. Tick \/ UNCHANGED vars => UNCHANGED accounts
  BY DEF Tick, vars
<1> QED
  BY <1>2, <1>3, <1>4, <1>5, <1>6, <1>7, <1>8 DEF Next, Start, Others, Keys

(* A request goes on to a challenge for someone who is entitled to it.        *)
LEMMA CodesKept ==
    ASSUME TypeOK, CodesOK, [Next]_vars, NEW w \in Workers, NEW t, Goto(w, t),
           t.pc = "challenge" \/ t.otp => t.user \in Entitled',
           \A c \in DOMAIN otpChallenges' :
               \/ otpChallenges'[c].user \in Entitled'
               \/ c \in DOMAIN otpChallenges /\ otpChallenges'[c].user = otpChallenges[c].user
    PROVE  CodesOK'
<1>1. /\ workers'[w] = t
      /\ \A v \in Workers \ {w} : workers'[v] = workers[v]
  BY DEF Goto, TypeOK
<1>2. \A v \in Workers :
          workers'[v].pc = "challenge" \/ workers'[v].otp => workers'[v].user \in Entitled'
  BY <1>1, EntitledKept DEF CodesOK, At
<1>3. \A c \in DOMAIN otpChallenges' : otpChallenges'[c].user \in Entitled'
  BY EntitledKept DEF CodesOK
<1> QED
  BY <1>2, <1>3 DEF CodesOK, At

LEMMA CodesStep == TypeOK /\ WorkersOK /\ MapsAgree /\ CodesOK /\ [Next]_vars => CodesOK'
<1> SUFFICES ASSUME TypeOK, WorkersOK, MapsAgree, CodesOK, [Next]_vars PROVE CodesOK'
  OBVIOUS
<1>1. ASSUME NEW w \in Workers, NEW k \in Keys, StartLogin(w, k) \/ StartVerify(w, k)
      PROVE  CodesOK'
  <2>1. UNCHANGED otpChallenges /\ \E pc \in {"password", "code"} : Goto(w, Task(pc, k, NoUser, FALSE))
    BY <1>1 DEF StartLogin, StartVerify
  <2> QED
    BY <2>1, CodesKept, KeyTask DEF PCs
<1>2. ASSUME NEW w \in Workers, NEW u \in Users, NEW e \in Emails, NEW client \in BOOLEAN,
             Register(w, u, e, client)
      PROVE  CodesOK'
  <2>1. client => u \in Entitled'
    BY <1>2 DEF Register, New, With, Entitled
  <2>2. UNCHANGED otpChallenges
        /\ Goto(w, IF client THEN Task("challenge", NoKey, u, TRUE) ELSE Idle)
    BY <1>2 DEF Register
  <2>3. CASE client
    BY <2>1, <2>2, <2>3, CodesKept, ChallengeTask
  <2>4. CASE ~client
    BY <2>2, <2>4, CodesKept, IdleTyped
  <2> QED
    BY <2>3, <2>4
<1>3. ASSUME NEW w \in Workers, NEW right \in BOOLEAN, NEW phone \in BOOLEAN,
             CheckPassword(w, right, phone)
      PROVE  CodesOK'
  <2> DEFINE e == workers[w].key
             u == userIDByEmail[e]
  <2>1. UNCHANGED otpChallenges /\ UNCHANGED accounts /\ e \in Keys
    BY <1>3 DEF CheckPassword, WorkersOK, Keys
  <2>2. CASE ~right
    BY <1>3, <2>1, <2>2, CodesKept, KeyTask DEF CheckPassword, PCs
  <2>3. CASE right
    <3>1. u \in DOMAIN usersByID /\ usersByID[u].password /\ usersByID[u] \in UserRows
          /\ u \in Users /\ u \in taken
      BY <1>3, <2>3 DEF CheckPassword, MapsAgree, TypeOK, Table
    <3> DEFINE t == Task("passed", e, u, usersByID[u].client /\ phone)
    <3>2. Goto(w, t) /\ t.pc = "passed" /\ t.user = u
          /\ (t.otp <=> usersByID[u].client /\ phone)
      BY <1>3, <2>3 DEF CheckPassword, Task
    <3>3. usersByID[u].client => u \in Entitled'
      BY <2>1, <3>1 DEF Entitled, accounts
    <3> HIDE DEF t, u, e
    <3> QED
      BY <2>1, <3>2, <3>3, CodesKept
  <2> QED
    BY <2>2, <2>3
<1>4. ASSUME NEW w \in Workers, NEW right \in BOOLEAN, VerifyOTPChallenge(w, right)
      PROVE  CodesOK'
  <2> DEFINE c == workers[w].key
  <2>1. c \in Keys
    BY <1>4 DEF VerifyOTPChallenge, WorkersOK, Keys
  <2>2. \A d \in DOMAIN otpChallenges' :
           d \in DOMAIN otpChallenges /\ otpChallenges'[d].user = otpChallenges[d].user
    <3>1. \/ UNCHANGED otpChallenges
          \/ otpChallenges' = [otpChallenges EXCEPT ![c] = [@ EXCEPT !.used = TRUE]]
      BY <1>4 DEF VerifyOTPChallenge
    <3>2. \A d \in DOMAIN otpChallenges : otpChallenges[d] \in ChallengeRows
      BY DEF TypeOK, Table
    <3> QED
      BY <3>1, <3>2 DEF ChallengeRows
  <2>3. \E pc \in {"passed", "failed"} : Goto(w, Task(pc, c, NoUser, FALSE))
    BY <1>4 DEF VerifyOTPChallenge
  <2> HIDE DEF c
  <2> QED
    BY <2>1, <2>2, <2>3, CodesKept, KeyTask DEF PCs
<1>5. ASSUME NEW w \in Workers, recordAuthFailure(w) PROVE CodesOK'
  BY <1>5, CodesKept, IdleTyped DEF recordAuthFailure
<1>6. ASSUME NEW w \in Workers, clearAuthFailures(w) PROVE CodesOK'
  <2> DEFINE s == workers[w]
  <2>1. UNCHANGED otpChallenges
        /\ Goto(w, IF s.otp THEN Task("challenge", NoKey, s.user, TRUE) ELSE Idle)
    BY <1>6 DEF clearAuthFailures
  <2>2. CASE s.otp
    <3>1. s.user \in Entitled' /\ s.user \in Users
      BY <2>2, EntitledKept DEF CodesOK, WorkersOK
    <3> HIDE DEF s
    <3> QED
      BY <2>1, <2>2, <3>1, CodesKept, ChallengeTask
  <2>3. CASE ~s.otp
    BY <2>1, <2>3, CodesKept, IdleTyped
  <2> QED
    BY <2>2, <2>3
<1>7. ASSUME NEW w \in Workers, NEW c \in Challenges, CreateOTPChallenge(w, c)
      PROVE  CodesOK'
  <2> DEFINE u == workers[w].user
  <2>1. u \in Entitled'
    BY <1>7, EntitledKept DEF CreateOTPChallenge, CodesOK
  <2>2. \A d \in DOMAIN otpChallenges' :
           \/ otpChallenges'[d].user = u
           \/ d \in DOMAIN otpChallenges /\ otpChallenges'[d].user = otpChallenges[d].user
    BY <1>7 DEF CreateOTPChallenge, With
  <2> HIDE DEF u
  <2> QED
    BY <1>7, <2>1, <2>2, CodesKept, IdleTyped DEF CreateOTPChallenge
<1>8. ASSUME UNCHANGED workers,
             \A c \in DOMAIN otpChallenges' :
                 c \in DOMAIN otpChallenges /\ otpChallenges'[c].user = otpChallenges[c].user
      PROVE  CodesOK'
  BY <1>8, EntitledKept DEF CodesOK, At
<1>9. CASE Others \/ UNCHANGED vars
  BY <1>8, <1>9 DEF Others, SocialLogin, DeleteUserByID, vars
<1>10. CASE Tick
  <2>1. \A c \in DOMAIN otpChallenges : otpChallenges[c] \in ChallengeRows
    BY DEF TypeOK, Table
  <2> QED
    BY <1>8, <1>10, <2>1 DEF Tick, ChallengeRows
<1> QED
  BY <1>1, <1>2, <1>3, <1>4, <1>5, <1>6, <1>7, <1>9, <1>10 DEF Next, Start, Continue, Keys

-----------------------------------------------------------------------------
(* Who is comparing and who has failed *)

Busy == {"password", "code", "failed"}

LEMMA Numbers ==
    ASSUME NEW C \in SUBSET Workers, NEW F \in SUBSET Workers, C \cap F = {}
    PROVE /\ IsFiniteSet(C) /\ Cardinality(C) \in Nat
          /\ IsFiniteSet(F) /\ Cardinality(F) \in Nat
          /\ Extra \in Nat
          /\ Cardinality(C) + Cardinality(F) <= Extra + 1
<1>1. IsFiniteSet(Workers) /\ Cardinality(Workers) \in Nat
  BY WorkersAssumption, FS_CardinalityType
<1>2. IsFiniteSet(C) /\ Cardinality(C) \in Nat /\ IsFiniteSet(F) /\ Cardinality(F) \in Nat
  BY <1>1, FS_Subset, FS_CardinalityType
<1>3. Cardinality(Workers) # 0
  BY <1>1, WorkersAssumption, FS_EmptySet
<1>4. Cardinality(C \cup F) = Cardinality(C) + Cardinality(F)
  <2>1. Cardinality(C \cap F) = 0
    BY FS_EmptySet
  <2>2. Cardinality(C \cup F) = Cardinality(C) + Cardinality(F) - Cardinality(C \cap F)
    BY <1>2, FS_Union
  <2> QED
    BY <1>2, <2>1, <2>2
<1>5. Cardinality(C \cup F) <= Cardinality(Workers)
  BY <1>1, FS_Subset
<1> QED
  BY <1>1, <1>2, <1>3, <1>4, <1>5 DEF Extra

LEMMA Sizes ==
    ASSUME NEW k
    PROVE /\ IsFiniteSet(Comparing(k)) /\ Cardinality(Comparing(k)) \in Nat
          /\ IsFiniteSet(Failing(k)) /\ Cardinality(Failing(k)) \in Nat
          /\ Extra \in Nat
          /\ Cardinality(Comparing(k)) + Cardinality(Failing(k)) <= Extra + 1
<1>1. /\ Comparing(k) \in SUBSET Workers /\ Failing(k) \in SUBSET Workers
      /\ Comparing(k) \cap Failing(k) = {}
  BY DEF Comparing, Failing, At
<1> QED
  BY <1>1, Numbers

(* A step of one worker moves that worker and no other.                       *)
LEMMA Moved ==
    ASSUME TypeOK, NEW w \in Workers, NEW t \in WorkerStates, Goto(w, t), NEW k
    PROVE /\ Comparing(k)' = IF t.key = k /\ t.pc \in {"password", "code"}
                             THEN Comparing(k) \cup {w} ELSE Comparing(k) \ {w}
          /\ Failing(k)' = IF t.key = k /\ t.pc = "failed"
                           THEN Failing(k) \cup {w} ELSE Failing(k) \ {w}
<1>1. workers'[w] = t /\ \A v \in Workers \ {w} : workers'[v] = workers[v]
  BY GotoTyped DEF TypeOK
<1> QED
  BY <1>1 DEF Comparing, Failing, At

LEMMA Elsewhere ==
    ASSUME TypeOK, NEW w \in Workers, NEW t \in WorkerStates, Goto(w, t),
           NEW k, workers[w].pc \notin Busy \/ workers[w].key # k,
           t.pc \notin Busy \/ t.key # k
    PROVE Comparing(k)' = Comparing(k) /\ Failing(k)' = Failing(k)
<1>1. w \notin Comparing(k) /\ w \notin Failing(k)
  BY DEF Comparing, Failing, At, Busy
<1> QED
  BY <1>1, Moved DEF Busy

LEMMA Started ==
    ASSUME TypeOK, NEW w \in Workers, NEW k \in Keys, NEW pc \in {"password", "code"},
           At(w, "idle"), Goto(w, Task(pc, k, NoUser, FALSE))
    PROVE /\ Cardinality(Comparing(k))' = Cardinality(Comparing(k)) + 1
          /\ Failing(k)' = Failing(k)
<1>1. /\ Task(pc, k, NoUser, FALSE) \in WorkerStates
      /\ Task(pc, k, NoUser, FALSE).pc = pc /\ Task(pc, k, NoUser, FALSE).key = k
  <2>1. pc \in PCs
    BY DEF PCs
  <2> QED
    BY <2>1, KeyTask
<1>2. w \notin Comparing(k) /\ w \notin Failing(k)
  BY DEF Comparing, Failing, At
<1>3. Comparing(k)' = Comparing(k) \cup {w} /\ Failing(k)' = Failing(k) \ {w}
  BY <1>1, Moved
<1>4. Cardinality(Comparing(k) \cup {w}) = Cardinality(Comparing(k)) + 1
  BY <1>2, Sizes, FS_AddElement
<1>5. Failing(k) \ {w} = Failing(k)
  BY <1>2
<1> QED
  BY <1>3, <1>4, <1>5

LEMMA Failed ==
    ASSUME TypeOK, NEW w \in Workers, NEW k \in Keys, workers[w].key = k,
           workers[w].pc \in {"password", "code"}, Goto(w, Task("failed", k, NoUser, FALSE))
    PROVE /\ Cardinality(Comparing(k))' = Cardinality(Comparing(k)) - 1
          /\ Cardinality(Failing(k))' = Cardinality(Failing(k)) + 1
          /\ Cardinality(Comparing(k)) >= 1
<1>1. /\ Task("failed", k, NoUser, FALSE) \in WorkerStates
      /\ Task("failed", k, NoUser, FALSE).pc = "failed" /\ Task("failed", k, NoUser, FALSE).key = k
  BY KeyTask DEF PCs
<1>2. w \in Comparing(k) /\ w \notin Failing(k)
  BY DEF Comparing, Failing, At
<1>3. Comparing(k)' = Comparing(k) \ {w} /\ Failing(k)' = Failing(k) \cup {w}
  BY <1>1, Moved
<1>4. /\ Cardinality(Comparing(k) \ {w}) = Cardinality(Comparing(k)) - 1
      /\ Cardinality(Comparing(k) \ {w}) \in Nat
      /\ Cardinality(Failing(k) \cup {w}) = Cardinality(Failing(k)) + 1
  BY <1>2, Sizes, FS_AddElement, FS_RemoveElement, FS_CardinalityType
<1> QED
  BY <1>3, <1>4, Sizes

LEMMA Passed ==
    ASSUME TypeOK, NEW w \in Workers, NEW k \in Keys, workers[w].key = k,
           workers[w].pc \in {"password", "code"},
           NEW t \in WorkerStates, t.pc = "passed", Goto(w, t)
    PROVE /\ Cardinality(Comparing(k))' = Cardinality(Comparing(k)) - 1
          /\ Failing(k)' = Failing(k)
<1>1. w \in Comparing(k) /\ w \notin Failing(k)
  BY DEF Comparing, Failing, At
<1>2. Comparing(k)' = Comparing(k) \ {w} /\ Failing(k)' = Failing(k) \ {w}
  BY Moved
<1>3. Cardinality(Comparing(k) \ {w}) = Cardinality(Comparing(k)) - 1
  BY <1>1, Sizes, FS_RemoveElement
<1>4. Failing(k) \ {w} = Failing(k)
  BY <1>1
<1> QED
  BY <1>2, <1>3, <1>4

LEMMA Recorded ==
    ASSUME TypeOK, NEW w \in Workers, NEW k \in Keys, workers[w].key = k,
           At(w, "failed"), Goto(w, Idle)
    PROVE /\ Comparing(k)' = Comparing(k)
          /\ Cardinality(Failing(k))' = Cardinality(Failing(k)) - 1
<1>1. w \notin Comparing(k) /\ w \in Failing(k)
  BY DEF Comparing, Failing, At
<1>2. Comparing(k)' = Comparing(k) \ {w} /\ Failing(k)' = Failing(k) \ {w}
  BY IdleTyped, Moved
<1>3. Cardinality(Failing(k) \ {w}) = Cardinality(Failing(k)) - 1
  BY <1>1, Sizes, FS_RemoveElement
<1>4. Comparing(k) \ {w} = Comparing(k)
  BY <1>1
<1> QED
  BY <1>2, <1>3, <1>4

-----------------------------------------------------------------------------
(* What a step does to the count of a key *)

Same(k) ==
    /\ Entry(k)' = Entry(k)
    /\ wrong'[k] = wrong[k]
    /\ Comparing(k)' = Comparing(k)
    /\ Failing(k)' = Failing(k)

Compares(w) ==
    \/ \E right, phone \in BOOLEAN : CheckPassword(w, right, phone)
    \/ \E right \in BOOLEAN : VerifyOTPChallenge(w, right)

(* A count changes by a worker at that key, or when time passes.              *)
Touched(k) == \E w \in Workers :
    \/ k \in Emails /\ StartLogin(w, k)
    \/ k \in Challenges /\ StartVerify(w, k)
    \/ workers[w].key = k /\ (Compares(w) \/ recordAuthFailure(w) \/ clearAuthFailures(w))

LEMMA StillSame ==
    ASSUME UNCHANGED <<attempts, workers, wrong>>, NEW k PROVE Same(k)
BY DEF Same, Entry, Comparing, Failing, At

LEMMA Effects ==
    ASSUME TypeOK, WorkersOK, MapsAgree, NEW k \in Keys, [Next]_vars
    PROVE Same(k) \/ Touched(k) \/ Tick
<1>1. ASSUME NEW w \in Workers, NEW j \in Keys, j # k, NEW pc \in {"password", "code"},
             At(w, "idle"), allowedAuthAttempt(j), Goto(w, Task(pc, j, NoUser, FALSE)),
             UNCHANGED wrong
      PROVE Same(k)
  <2>1. pc \in PCs /\ workers[w].pc \notin Busy
    BY <1>1 DEF PCs, At, Busy
  <2>2. Task(pc, j, NoUser, FALSE) \in WorkerStates /\ Task(pc, j, NoUser, FALSE).key = j
    BY <2>1, KeyTask
  <2>3. Comparing(k)' = Comparing(k) /\ Failing(k)' = Failing(k)
    BY <1>1, <2>1, <2>2, Elsewhere
  <2> QED
    BY <1>1, <2>3, Admission DEF Same
<1>2. ASSUME NEW w \in Workers, NEW u \in Users, NEW e \in Emails, NEW client \in BOOLEAN,
             Register(w, u, e, client)
      PROVE Same(k)
  <2> DEFINE t == IF client THEN Task("challenge", NoKey, u, TRUE) ELSE Idle
  <2>1. t \in WorkerStates /\ t.pc \notin Busy
    BY ChallengeTask, IdleTyped DEF Busy
  <2>2. Goto(w, t) /\ workers[w].pc \notin Busy /\ UNCHANGED <<attempts, wrong>>
    BY <1>2 DEF Register, At, Busy
  <2> HIDE DEF t
  <2>3. Comparing(k)' = Comparing(k) /\ Failing(k)' = Failing(k)
    BY <2>1, <2>2, Elsewhere
  <2> QED
    BY <2>2, <2>3 DEF Same, Entry
<1>3. ASSUME NEW w \in Workers, Compares(w) PROVE Same(k) \/ Touched(k)
  <2>1. CASE workers[w].key = k
    BY <1>3, <2>1 DEF Touched
  <2>2. CASE workers[w].key # k
    <3> DEFINE j == workers[w].key
    <3>1. j \in Keys
      BY <1>3 DEF Compares, CheckPassword, VerifyOTPChallenge, WorkersOK, Keys
    <3>2. PICK t \in WorkerStates : Goto(w, t) /\ t.key = j
      <4>1. ASSUME NEW right \in BOOLEAN, NEW phone \in BOOLEAN, CheckPassword(w, right, phone)
            PROVE \E t \in WorkerStates : Goto(w, t) /\ t.key = j
        <5> DEFINE u == userIDByEmail[j]
        <5>1. j \in Emails
          BY <4>1 DEF CheckPassword, WorkersOK
        <5>2. CASE right
          <6>1. u \in Users /\ (usersByID[u].client /\ phone) \in BOOLEAN
            BY <4>1, <5>2 DEF CheckPassword, MapsAgree, TypeOK, Table
          <6>2. Goto(w, Task("passed", j, u, usersByID[u].client /\ phone))
            BY <4>1, <5>2 DEF CheckPassword
          <6>3. PICK otp \in BOOLEAN : otp = (usersByID[u].client /\ phone)
            BY <6>1
          <6>4. Goto(w, Task("passed", j, u, otp))
            BY <6>2, <6>3
          <6>5. "passed" \in PCs
            BY DEF PCs
          <6> HIDE DEF u, j
          <6>6. Task("passed", j, u, otp) \in WorkerStates /\ Task("passed", j, u, otp).key = j
            BY <3>1, <6>1, <6>5, TaskTyped
          <6> QED
            BY <6>4, <6>6
        <5>3. CASE ~right
          <6>1. Goto(w, Task("failed", j, NoUser, FALSE))
            BY <4>1, <5>3 DEF CheckPassword
          <6>2. "failed" \in PCs
            BY DEF PCs
          <6> HIDE DEF j
          <6>3. Task("failed", j, NoUser, FALSE) \in WorkerStates
                /\ Task("failed", j, NoUser, FALSE).key = j
            BY <3>1, <6>2, KeyTask
          <6> QED
            BY <6>1, <6>3
        <5> QED
          BY <5>2, <5>3
      <4>2. ASSUME NEW right \in BOOLEAN, VerifyOTPChallenge(w, right)
            PROVE \E t \in WorkerStates : Goto(w, t) /\ t.key = j
        <5>1. \/ Goto(w, Task("passed", j, NoUser, FALSE))
              \/ Goto(w, Task("failed", j, NoUser, FALSE))
          BY <4>2 DEF VerifyOTPChallenge
        <5> HIDE DEF j
        <5>2. ASSUME NEW pc \in PCs
              PROVE Task(pc, j, NoUser, FALSE) \in WorkerStates
                    /\ Task(pc, j, NoUser, FALSE).key = j
          BY <3>1, <5>2, KeyTask
        <5>3. "passed" \in PCs /\ "failed" \in PCs
          BY DEF PCs
        <5> QED
          BY <5>1, <5>2, <5>3
      <4> QED
        BY <1>3, <4>1, <4>2 DEF Compares
    <3>3. Comparing(k)' = Comparing(k) /\ Failing(k)' = Failing(k)
      BY <2>2, <3>2, Elsewhere
    <3>4. /\ UNCHANGED attempts
          /\ UNCHANGED wrong \/ wrong' = [wrong EXCEPT ![j] = @ + 1]
      BY <1>3 DEF Compares, CheckPassword, VerifyOTPChallenge
    <3> HIDE DEF j
    <3>5. j # k
      BY <2>2 DEF j
    <3> QED
      BY <3>3, <3>4, <3>5 DEF Same, Entry, TypeOK
  <2> QED
    BY <2>1, <2>2
<1>4. ASSUME NEW w \in Workers, recordAuthFailure(w) PROVE Same(k) \/ Touched(k)
  <2>1. CASE workers[w].key = k
    BY <1>4, <2>1 DEF Touched
  <2>2. CASE workers[w].key # k
    <3>1. workers[w].key \in Keys
      BY <1>4 DEF recordAuthFailure, WorkersOK
    <3>2. Comparing(k)' = Comparing(k) /\ Failing(k)' = Failing(k)
      BY <1>4, <2>2, IdleTyped, Elsewhere DEF recordAuthFailure, Busy
    <3> QED
      BY <1>4, <2>2, <3>1, <3>2, Counting DEF recordAuthFailure, Same
  <2> QED
    BY <2>1, <2>2
<1>5. ASSUME NEW w \in Workers, clearAuthFailures(w) PROVE Same(k) \/ Touched(k)
  <2>1. CASE workers[w].key = k
    BY <1>5, <2>1 DEF Touched
  <2>2. CASE workers[w].key # k
    <3> DEFINE s == workers[w]
               t == IF s.otp THEN Task("challenge", NoKey, s.user, TRUE) ELSE Idle
    <3>1. s.key \in Keys /\ (s.otp => s.user \in Users)
      BY <1>5 DEF clearAuthFailures, WorkersOK
    <3>2. t \in WorkerStates /\ t.pc \notin Busy
      BY <3>1, ChallengeTask, IdleTyped DEF Busy
    <3>3. Goto(w, t)
      BY <1>5 DEF clearAuthFailures
    <3> HIDE DEF t
    <3>4. Comparing(k)' = Comparing(k) /\ Failing(k)' = Failing(k)
      BY <2>2, <3>2, <3>3, Elsewhere
    <3>5. wrong'[k] = wrong[k]
      BY <1>5, <2>2 DEF clearAuthFailures, TypeOK
    <3> QED
      BY <1>5, <2>2, <3>1, <3>4, <3>5, Clearing DEF clearAuthFailures, Same
  <2> QED
    BY <2>1, <2>2
<1>6. ASSUME NEW w \in Workers, NEW c \in Challenges, CreateOTPChallenge(w, c) PROVE Same(k)
  <2>1. Comparing(k)' = Comparing(k) /\ Failing(k)' = Failing(k)
    BY <1>6, IdleTyped, Elsewhere DEF CreateOTPChallenge, Busy, At
  <2> QED
    BY <1>6, <2>1 DEF CreateOTPChallenge, Same, Entry
<1>7. ASSUME Others \/ UNCHANGED vars PROVE Same(k)
  <2>1. UNCHANGED <<attempts, workers, wrong>>
    BY <1>7 DEF Others, SocialLogin, DeleteUserByID, vars
  <2> QED
    BY <2>1, StillSame
<1>8. ASSUME NEW w \in Workers, Start(w) PROVE Same(k) \/ Touched(k)
  <2>1. ASSUME NEW e \in Emails, StartLogin(w, e) PROVE Same(k) \/ Touched(k)
    <3>1. CASE e = k
      BY <2>1, <3>1 DEF Touched
    <3>2. CASE e # k
      BY <1>1, <2>1, <3>2 DEF StartLogin, Keys
    <3> QED
      BY <3>1, <3>2
  <2>2. ASSUME NEW c \in Challenges, StartVerify(w, c) PROVE Same(k) \/ Touched(k)
    <3>1. CASE c = k
      BY <2>2, <3>1 DEF Touched
    <3>2. CASE c # k
      BY <1>1, <2>2, <3>2 DEF StartVerify, Keys
    <3> QED
      BY <3>1, <3>2
  <2>3. CASE \E u \in Users, e \in Emails, client \in BOOLEAN : Register(w, u, e, client)
    BY <1>2, <2>3
  <2> QED
    BY <1>8, <2>1, <2>2, <2>3 DEF Start
<1>9. ASSUME NEW w \in Workers, Continue(w) PROVE Same(k) \/ Touched(k)
  <2>1. \/ Compares(w) \/ recordAuthFailure(w) \/ clearAuthFailures(w)
        \/ \E c \in Challenges : CreateOTPChallenge(w, c)
    BY <1>9 DEF Continue, Compares
  <2> QED
    BY <1>3, <1>4, <1>5, <1>6, <2>1
<1> QED
  BY <1>7, <1>8, <1>9 DEF Next

-----------------------------------------------------------------------------
(* The counts *)

LEMMA Limits ==
    ASSUME NEW k \in Keys
    PROVE MaxFails[k] \in Nat /\ MaxFails[k] >= 1 /\ LockWindow[k] \in Nat /\ LockWindow[k] >= 1
BY LimitsAssumption

(* What a failure makes of an entry.                                          *)
LEMMA Recounted ==
    ASSUME TypeOK, NEW k \in Keys
    PROVE \/ /\ Counted(k).failures = 0 /\ Counted(k).lock = LockWindow[k]
             /\ Entry(k).failures = MaxFails[k] - 1
          \/ /\ Counted(k).failures = Entry(k).failures + 1 /\ Counted(k).lock = Entry(k).lock
<1>1. Entry(k).failures \in Nat /\ Entry(k).failures < MaxFails[k]
  BY EntryTyped
<1> QED
  BY <1>1, Limits DEF Counted

LEMMA PasswordStep ==
    ASSUME TypeOK, WorkersOK, MapsAgree, NEW e \in Emails, PasswordCount(e), [Next]_vars
    PROVE PasswordCount(e)'
<1> DEFINE a == Entry(e)
           comparing == Cardinality(Comparing(e))
           failing == Cardinality(Failing(e))
<1>1. e \in Keys /\ wrong[e] \in Nat /\ e \notin Challenges
  BY NullsAssumption DEF Keys, TypeOK
<1>2. /\ comparing \in Nat /\ failing \in Nat /\ Extra \in Nat
      /\ comparing + failing <= Extra + 1
  BY Sizes
<1>3. /\ a.failures \in Nat /\ a.failures < MaxFails[e]
      /\ a.lock \in Int /\ a.lock >= Never
      /\ MaxFails[e] \in Nat /\ LockWindow[e] \in Nat /\ LockWindow[e] >= 1
      /\ Never = -1
  BY <1>1, EntryTyped, Limits DEF Never
<1>4. /\ a.lock = Never => wrong[e] <= a.failures + failing + Extra
      /\ a.lock = 0 => wrong[e] + comparing <= Extra
      /\ a.lock # Never => wrong[e] + comparing <= MaxFails[e] + 2 * Extra /\ comparing + failing <= Extra
  BY DEF PasswordCount, Counts
<1>5. CASE Same(e)
  BY <1>5 DEF Same, PasswordCount, Counts
<1>6. ASSUME NEW w \in Workers, StartLogin(w, e) PROVE PasswordCount(e)'
  <2>1. Cardinality(Comparing(e))' = comparing + 1 /\ Failing(e)' = Failing(e)
    BY <1>1, <1>6, Started DEF StartLogin
  <2>2. UNCHANGED wrong /\ allowedAuthAttempt(e)
    BY <1>6 DEF StartLogin
  <2>3. CASE a.lock = Never
    <3>1. Entry(e)' = a
      BY <1>1, <2>2, <2>3, Admission
    <3> QED
      BY <1>2, <1>3, <1>4, <2>1, <2>2, <2>3, <3>1 DEF PasswordCount, Counts
  <2>4. CASE a.lock # Never
    <3>1. a.lock = 0 /\ Entry(e)' = NoAttempt
      BY <1>1, <2>2, <2>4, Admission
    <3>2. Entry(e)'.lock = Never /\ Entry(e)'.failures = 0
      BY <3>1 DEF NoAttempt
    <3> QED
      BY <1>1, <1>2, <1>3, <1>4, <2>1, <2>2, <3>1, <3>2 DEF PasswordCount, Counts
  <2> QED
    BY <2>3, <2>4
<1>7. ASSUME NEW w \in Workers, workers[w].key = e, Compares(w) PROVE PasswordCount(e)'
  <2>1. PICK right \in BOOLEAN, phone \in BOOLEAN : CheckPassword(w, right, phone)
    <3>1. ASSUME NEW right \in BOOLEAN PROVE ~VerifyOTPChallenge(w, right)
      BY <1>1, <1>7 DEF VerifyOTPChallenge, WorkersOK, TypeOK, Table
    <3> QED
      BY <1>7, <3>1 DEF Compares
  <2>2. workers[w].pc = "password" /\ UNCHANGED attempts
    BY <2>1 DEF CheckPassword, At
  <2>3. Entry(e)' = a
    BY <2>2 DEF Entry
  <2>4. CASE ~right
    <3>1. Goto(w, Task("failed", e, NoUser, FALSE)) /\ wrong'[e] = wrong[e] + 1
      BY <1>1, <1>7, <2>1, <2>4 DEF CheckPassword, TypeOK
    <3>2. /\ Cardinality(Comparing(e))' = comparing - 1
          /\ Cardinality(Failing(e))' = failing + 1
      BY <1>1, <1>7, <2>2, <3>1, Failed
    <3> QED
      BY <1>1, <1>2, <1>3, <1>4, <2>3, <3>1, <3>2 DEF PasswordCount, Counts
  <2>5. CASE right
    <3>1. PICK t \in WorkerStates : t.pc = "passed" /\ Goto(w, t)
      <4> DEFINE u == userIDByEmail[e]
      <4>1. u \in Users /\ (usersByID[u].client /\ phone) \in BOOLEAN
        BY <1>7, <2>1, <2>5 DEF CheckPassword, MapsAgree, TypeOK, Table
      <4>2. Goto(w, Task("passed", e, u, usersByID[u].client /\ phone))
        BY <1>7, <2>1, <2>5 DEF CheckPassword
      <4>3. PICK otp \in BOOLEAN : otp = (usersByID[u].client /\ phone)
        BY <4>1
      <4>4. Goto(w, Task("passed", e, u, otp)) /\ "passed" \in PCs
        BY <4>2, <4>3 DEF PCs
      <4> HIDE DEF u
      <4> QED
        BY <1>1, <4>1, <4>4, TaskTyped
    <3>2. Cardinality(Comparing(e))' = comparing - 1 /\ Failing(e)' = Failing(e)
      BY <1>1, <1>7, <2>2, <3>1, Passed
    <3>3. wrong'[e] = wrong[e]
      BY <2>1, <2>5 DEF CheckPassword
    <3> QED
      BY <1>1, <1>2, <1>3, <1>4, <2>3, <3>2, <3>3 DEF PasswordCount, Counts
  <2> QED
    BY <2>4, <2>5
<1>8. ASSUME NEW w \in Workers, workers[w].key = e, recordAuthFailure(w) PROVE PasswordCount(e)'
  <2>1. Comparing(e)' = Comparing(e) /\ Cardinality(Failing(e))' = failing - 1
    BY <1>1, <1>8, Recorded DEF recordAuthFailure
  <2>2. Entry(e)' = Counted(e) /\ UNCHANGED wrong
    BY <1>1, <1>8, Counting DEF recordAuthFailure
  <2>3. CASE Counted(e).failures = 0 /\ Counted(e).lock = LockWindow[e]
             /\ Entry(e).failures = MaxFails[e] - 1
    BY <1>1, <1>2, <1>3, <1>4, <2>1, <2>2, <2>3 DEF PasswordCount, Counts
  <2>4. CASE Counted(e).failures = a.failures + 1 /\ Counted(e).lock = a.lock
    BY <1>1, <1>2, <1>3, <1>4, <2>1, <2>2, <2>4 DEF PasswordCount, Counts
  <2> QED
    BY <1>1, <2>3, <2>4, Recounted
<1>9. ASSUME NEW w \in Workers, workers[w].key = e, clearAuthFailures(w) PROVE PasswordCount(e)'
  <2>1. wrong'[e] = 0 /\ attempts' = Without(attempts, e)
    BY <1>1, <1>9 DEF clearAuthFailures, TypeOK
  <2>2. Entry(e)' = NoAttempt
    BY <1>1, <2>1, Clearing
  <2>3. Entry(e)'.lock = Never /\ Entry(e)'.failures = 0
    BY <2>2 DEF NoAttempt
  <2>4. Cardinality(Failing(e)') \in Nat
    <3>1. Failing(e)' \in SUBSET Workers /\ {} \in SUBSET Workers /\ {} \cap Failing(e)' = {}
      BY DEF Failing
    <3> QED
      BY <3>1, Numbers
  <2> QED
    BY <1>2, <1>3, <2>1, <2>3, <2>4 DEF PasswordCount, Counts
<1>10. CASE Tick
  <2>1. /\ Entry(e)'.failures = a.failures
        /\ Entry(e)'.lock = IF a.lock > 0 THEN a.lock - 1 ELSE a.lock
    BY <1>1, <1>10, Ticking DEF Elapse
  <2>2. Comparing(e)' = Comparing(e) /\ Failing(e)' = Failing(e)
    BY <1>10 DEF Tick, Comparing, Failing, At
  <2>3. wrong'[e] = IF a.lock = 1 THEN 0 ELSE wrong[e]
    BY <1>1, <1>10 DEF Tick
  <2> QED
    BY <1>1, <1>2, <1>3, <1>4, <2>1, <2>2, <2>3 DEF PasswordCount, Counts
<1>11. Same(e) \/ Touched(e) \/ Tick
  BY <1>1, Effects
<1> QED
  BY <1>1, <1>5, <1>6, <1>7, <1>8, <1>9, <1>10, <1>11 DEF Touched

(* Challenges are added with their whole life before them, and lose it to the *)
(* clock alone.                                                               *)
LEMMA ChallengesKept ==
    ASSUME TypeOK, WorkersOK, [Next]_vars, ~Tick
    PROVE /\ DOMAIN otpChallenges \subseteq DOMAIN otpChallenges'
          /\ \A c \in DOMAIN otpChallenges : otpChallenges'[c].left = otpChallenges[c].left
<1>1. ASSUME NEW w \in Workers, NEW right \in BOOLEAN, VerifyOTPChallenge(w, right)
      PROVE /\ DOMAIN otpChallenges \subseteq DOMAIN otpChallenges'
            /\ \A c \in DOMAIN otpChallenges : otpChallenges'[c].left = otpChallenges[c].left
  <2>1. \/ UNCHANGED otpChallenges
        \/ otpChallenges' = [otpChallenges EXCEPT ![workers[w].key] = [@ EXCEPT !.used = TRUE]]
    BY <1>1 DEF VerifyOTPChallenge
  <2>2. \A c \in DOMAIN otpChallenges : otpChallenges[c] \in ChallengeRows
    BY DEF TypeOK, Table
  <2> QED
    BY <2>1, <2>2 DEF ChallengeRows
<1>2. ASSUME NEW w \in Workers, NEW c \in Challenges, CreateOTPChallenge(w, c)
      PROVE /\ DOMAIN otpChallenges \subseteq DOMAIN otpChallenges'
            /\ \A d \in DOMAIN otpChallenges : otpChallenges'[d].left = otpChallenges[d].left
  BY <1>2 DEF CreateOTPChallenge, With
<1>3. ASSUME NEW w \in Workers, Start(w) PROVE UNCHANGED otpChallenges
  BY <1>3 DEF Start, StartLogin, StartVerify, Register
<1>4. ASSUME NEW w \in Workers, NEW right \in BOOLEAN, NEW phone \in BOOLEAN,
             CheckPassword(w, right, phone)
      PROVE UNCHANGED otpChallenges
  BY <1>4 DEF CheckPassword
<1>5. ASSUME NEW w \in Workers, recordAuthFailure(w) \/ clearAuthFailures(w)
      PROVE UNCHANGED otpChallenges
  BY <1>5 DEF recordAuthFailure, clearAuthFailures
<1>6. Others \/ UNCHANGED vars => UNCHANGED otpChallenges
  BY DEF Others, SocialLogin, DeleteUserByID, vars
<1> QED
  BY <1>1, <1>2, <1>3, <1>4, <1>5, <1>6 DEF Next, Continue

LEMMA TouchKeeps ==
    ASSUME TypeOK, NEW w \in Workers, NEW k,
           StartVerify(w, k) \/ Compares(w) \/ recordAuthFailure(w) \/ clearAuthFailures(w)
    PROVE /\ DOMAIN otpChallenges' = DOMAIN otpChallenges
          /\ \A c \in DOMAIN otpChallenges : otpChallenges'[c].left = otpChallenges[c].left
<1>1. CASE StartVerify(w, k) \/ recordAuthFailure(w) \/ clearAuthFailures(w)
  BY <1>1 DEF StartVerify, recordAuthFailure, clearAuthFailures
<1>2. CASE Compares(w)
  <2>1. \/ UNCHANGED otpChallenges
        \/ otpChallenges' = [otpChallenges EXCEPT ![workers[w].key] = [@ EXCEPT !.used = TRUE]]
    BY <1>2 DEF Compares, CheckPassword, VerifyOTPChallenge
  <2>2. \A c \in DOMAIN otpChallenges : otpChallenges[c] \in ChallengeRows
    BY DEF TypeOK, Table
  <2> QED
    BY <2>1, <2>2 DEF ChallengeRows
<1> QED
  BY <1>1, <1>2

LEMMA ChallengeStep ==
    ASSUME TypeOK, WorkersOK, MapsAgree, TypeOK', NEW c \in Challenges, OTPTTL < LockWindow[c],
           ChallengeCount(c), [Next]_vars
    PROVE ChallengeCount(c)'
<1> DEFINE a == Entry(c)
           comparing == Cardinality(Comparing(c))
           failing == Cardinality(Failing(c))
           issued == c \in DOMAIN otpChallenges
           left == otpChallenges[c].left
<1>1. c \in Keys /\ wrong[c] \in Nat /\ c \notin Emails
  BY NullsAssumption DEF Keys, TypeOK
<1>2. /\ comparing \in Nat /\ failing \in Nat /\ Extra \in Nat
      /\ comparing + failing <= Extra + 1
  BY Sizes
<1>3. /\ a.failures \in Nat /\ a.failures < MaxFails[c]
      /\ a.lock \in Int /\ a.lock >= Never
      /\ MaxFails[c] \in Nat /\ LockWindow[c] \in Nat /\ OTPTTL \in Nat
      /\ Never = -1
  BY <1>1, EntryTyped, Limits, LimitsAssumption DEF Never
<1>4. wrong[c] <= MaxFails[c] + 2 * Extra
  BY DEF ChallengeCount
<1>5. ~issued => wrong[c] = 0 /\ (a.lock # Never => comparing + failing <= Extra)
  BY DEF ChallengeCount
<1>6. issued /\ left >= 0 =>
          /\ a.lock = Never => wrong[c] <= a.failures + failing + Extra
          /\ a.lock # Never => /\ wrong[c] + comparing <= MaxFails[c] + 2 * Extra
                               /\ comparing + failing <= Extra
          /\ a.lock # Never /\ a.lock <= left => wrong[c] + comparing <= Extra
  BY DEF ChallengeCount, Counts, Alive
<1>7. issued => left \in Int /\ left <= OTPTTL /\ left >= -1
  BY <1>3 DEF TypeOK, Table, ChallengeRows
<1> HIDE DEF a, comparing, failing, issued, left
<1>8. CASE Same(c) /\ ~Tick
  <2>1. /\ Entry(c)' = a /\ wrong'[c] = wrong[c]
        /\ Comparing(c)' = Comparing(c) /\ Failing(c)' = Failing(c)
    BY <1>8 DEF Same, a
  <2>2. CASE issued
    <3>1. c \in DOMAIN otpChallenges' /\ otpChallenges'[c].left = left
      BY <1>8, <2>2, ChallengesKept DEF issued, left
    <3> QED
      BY <1>4, <1>6, <2>1, <2>2, <3>1 DEF ChallengeCount, Counts, Alive, comparing, failing
  <2>3. CASE ~issued
    BY <1>2, <1>3, <1>5, <2>1, <2>3 DEF ChallengeCount, Counts, Alive, comparing, failing
  <2> QED
    BY <2>2, <2>3
<1>9. ASSUME NEW w \in Workers,
             StartVerify(w, c) \/ Compares(w) \/ recordAuthFailure(w) \/ clearAuthFailures(w)
      PROVE (c \in DOMAIN otpChallenges' <=> issued) /\ (issued => otpChallenges'[c].left = left)
  BY <1>9, TouchKeeps DEF issued, left
<1>10. ASSUME NEW w \in Workers, StartVerify(w, c) PROVE ChallengeCount(c)'
  <2>1. Cardinality(Comparing(c))' = comparing + 1 /\ Failing(c)' = Failing(c)
    BY <1>1, <1>10, Started DEF StartVerify, comparing
  <2>2. UNCHANGED wrong /\ allowedAuthAttempt(c)
    BY <1>10 DEF StartVerify
  <2>3. (c \in DOMAIN otpChallenges' <=> issued) /\ (issued => otpChallenges'[c].left = left)
    BY <1>9, <1>10
  <2>4. CASE a.lock = Never
    <3>1. Entry(c)' = a
      BY <1>1, <2>2, <2>4, Admission DEF a
    <3> QED
      BY <1>2, <1>3, <1>4, <1>5, <1>6, <1>7, <2>1, <2>2, <2>3, <2>4, <3>1
         DEF ChallengeCount, Counts, Alive, failing
  <2>5. CASE a.lock # Never
    <3>1. a.lock = 0 /\ Entry(c)' = NoAttempt
      BY <1>1, <2>2, <2>5, Admission DEF a
    <3>2. Entry(c)'.lock = Never /\ Entry(c)'.failures = 0
      BY <3>1 DEF NoAttempt
    <3> QED
      BY <1>1, <1>2, <1>3, <1>4, <1>5, <1>6, <1>7, <2>1, <2>2, <2>3, <3>1, <3>2
         DEF ChallengeCount, Counts, Alive, failing
  <2> QED
    BY <2>4, <2>5
<1>11. ASSUME NEW w \in Workers, workers[w].key = c, Compares(w) PROVE ChallengeCount(c)'
  <2>1. PICK right \in BOOLEAN : VerifyOTPChallenge(w, right)
    <3>1. ASSUME NEW right \in BOOLEAN, NEW phone \in BOOLEAN PROVE ~CheckPassword(w, right, phone)
      BY <1>1, <1>11 DEF CheckPassword, WorkersOK
    <3> QED
      BY <1>11, <3>1 DEF Compares
  <2>2. workers[w].pc = "code" /\ UNCHANGED attempts
    BY <2>1 DEF VerifyOTPChallenge, At
  <2>3. Entry(c)' = a
    BY <2>2 DEF Entry, a
  <2>4. (c \in DOMAIN otpChallenges' <=> issued) /\ (issued => otpChallenges'[c].left = left)
    BY <1>9, <1>11
  <2>5. CASE Usable(c) /\ ~right
    <3>1. wrong'[c] = wrong[c] + 1 /\ Goto(w, Task("failed", c, NoUser, FALSE))
      BY <1>1, <1>11, <2>1, <2>5 DEF VerifyOTPChallenge, TypeOK
    <3>2. /\ Cardinality(Comparing(c))' = comparing - 1
          /\ Cardinality(Failing(c))' = failing + 1
          /\ comparing >= 1
      BY <1>1, <1>11, <2>2, <3>1, Failed DEF comparing, failing
    <3>3. issued /\ left >= 0
      BY <2>5 DEF Usable, Alive, issued, left
    <3> QED
      BY <1>1, <1>2, <1>3, <1>4, <1>6, <1>7, <2>3, <2>4, <3>1, <3>2, <3>3
         DEF ChallengeCount, Counts, Alive
  <2>6. CASE UNCHANGED wrong /\ Goto(w, Task("failed", c, NoUser, FALSE))
    <3>1. /\ Cardinality(Comparing(c))' = comparing - 1
          /\ Cardinality(Failing(c))' = failing + 1
          /\ comparing >= 1
      BY <1>1, <1>11, <2>2, <2>6, Failed DEF comparing, failing
    <3> QED
      BY <1>1, <1>2, <1>3, <1>4, <1>5, <1>6, <1>7, <2>3, <2>4, <2>6, <3>1
         DEF ChallengeCount, Counts, Alive
  <2>7. CASE UNCHANGED wrong /\ Goto(w, Task("passed", c, NoUser, FALSE))
    <3>1. "passed" \in PCs
      BY DEF PCs
    <3>2. /\ Task("passed", c, NoUser, FALSE) \in WorkerStates
          /\ Task("passed", c, NoUser, FALSE).pc = "passed"
      BY <1>1, <3>1, KeyTask
    <3>3. Cardinality(Comparing(c))' = comparing - 1 /\ Failing(c)' = Failing(c)
      BY <1>1, <1>11, <2>2, <2>7, <3>2, Passed DEF comparing
    <3> QED
      BY <1>1, <1>2, <1>3, <1>4, <1>5, <1>6, <1>7, <2>3, <2>4, <2>7, <3>3
         DEF ChallengeCount, Counts, Alive, failing
  <2>8. \/ Usable(c) /\ ~right
        \/ UNCHANGED wrong /\ Goto(w, Task("failed", c, NoUser, FALSE))
        \/ UNCHANGED wrong /\ Goto(w, Task("passed", c, NoUser, FALSE))
    BY <1>11, <2>1 DEF VerifyOTPChallenge
  <2> QED
    BY <2>5, <2>6, <2>7, <2>8
<1>12. ASSUME NEW w \in Workers, workers[w].key = c, recordAuthFailure(w) PROVE ChallengeCount(c)'
  <2>1. Comparing(c)' = Comparing(c) /\ Cardinality(Failing(c))' = failing - 1
    BY <1>1, <1>12, Recorded DEF recordAuthFailure, failing
  <2>2. Entry(c)' = Counted(c) /\ UNCHANGED wrong
    BY <1>1, <1>12, Counting DEF recordAuthFailure
  <2>3. (c \in DOMAIN otpChallenges' <=> issued) /\ (issued => otpChallenges'[c].left = left)
    BY <1>9, <1>12
  <2>4. CASE Counted(c).failures = 0 /\ Counted(c).lock = LockWindow[c] /\ a.failures = MaxFails[c] - 1
    BY <1>1, <1>2, <1>3, <1>4, <1>5, <1>6, <1>7, <2>1, <2>2, <2>3, <2>4
       DEF ChallengeCount, Counts, Alive, comparing
  <2>5. CASE Counted(c).failures = a.failures + 1 /\ Counted(c).lock = a.lock
    BY <1>1, <1>2, <1>3, <1>4, <1>5, <1>6, <1>7, <2>1, <2>2, <2>3, <2>5
       DEF ChallengeCount, Counts, Alive, comparing
  <2> QED
    BY <1>1, <2>4, <2>5, Recounted DEF a
<1>13. ASSUME NEW w \in Workers, workers[w].key = c, clearAuthFailures(w) PROVE ChallengeCount(c)'
  <2>1. wrong'[c] = 0 /\ attempts' = Without(attempts, c)
    BY <1>1, <1>13 DEF clearAuthFailures, TypeOK
  <2>2. Entry(c)' = NoAttempt
    BY <1>1, <2>1, Clearing
  <2>3. Entry(c)'.lock = Never /\ Entry(c)'.failures = 0
    BY <2>2 DEF NoAttempt
  <2>4. Cardinality(Failing(c)') \in Nat
    <3>1. Failing(c)' \in SUBSET Workers /\ {} \in SUBSET Workers /\ {} \cap Failing(c)' = {}
      BY DEF Failing
    <3> QED
      BY <3>1, Numbers
  <2> QED
    BY <1>2, <1>3, <2>1, <2>3, <2>4 DEF ChallengeCount, Counts
<1>14. CASE Tick
  <2>1. /\ Entry(c)'.failures = a.failures
        /\ Entry(c)'.lock = IF a.lock > 0 THEN a.lock - 1 ELSE a.lock
    BY <1>1, <1>14, Ticking DEF Elapse, a
  <2>2. Comparing(c)' = Comparing(c) /\ Failing(c)' = Failing(c) /\ wrong'[c] = wrong[c]
    BY <1>1, <1>14 DEF Tick, Comparing, Failing, At
  <2>3. /\ (c \in DOMAIN otpChallenges' <=> issued)
        /\ issued => otpChallenges'[c].left = IF left > -1 THEN left - 1 ELSE left
    <3>1. issued => otpChallenges[c] \in ChallengeRows
      BY DEF TypeOK, Table, issued
    <3> QED
      BY <1>14, <3>1 DEF Tick, Elapse, ChallengeRows, issued, left
  <2> QED
    BY <1>1, <1>2, <1>3, <1>4, <1>5, <1>6, <1>7, <2>1, <2>2, <2>3
       DEF ChallengeCount, Counts, Alive, comparing, failing
<1>15. Same(c) \/ Touched(c) \/ Tick
  BY <1>1, Effects
<1> QED
  BY <1>1, <1>8, <1>10, <1>11, <1>12, <1>13, <1>14, <1>15 DEF Touched

-----------------------------------------------------------------------------
(* The invariant and what follows from it *)

LEMMA Step == IInv /\ [Next]_vars => IInv'
<1> SUFFICES ASSUME IInv, [Next]_vars PROVE IInv'
  OBVIOUS
<1>1. TypeOK /\ MapsAgree /\ WorkersOK /\ CodesOK /\ CountsOK
  BY DEF IInv
<1>2. TypeOK' /\ WorkersOK' /\ MapsAgree' /\ CodesOK'
  BY <1>1, TypeStep, MapsStep, CodesStep
<1>3. \A e \in Emails : PasswordCount(e)'
  BY <1>1, PasswordStep DEF CountsOK
<1>4. \A c \in Challenges : OTPTTL < LockWindow[c] => ChallengeCount(c)'
  BY <1>1, <1>2, ChallengeStep DEF CountsOK
<1> QED
  BY <1>2, <1>3, <1>4 DEF IInv, CountsOK

(* IInv holds in every reachable state, so that the properties below need no  *)
(* induction of their own.                                                    *)
THEOREM SignInInductive == Spec => []IInv
<1> QED
  BY InitInv, Step, PTL DEF Spec

(* Every map of MemoryStore, every attempts entry and every request has its   *)
(* type.                                                                      *)
THEOREM SignInTypes == Spec => []TypeOK
<1>1. IInv => TypeOK
  BY DEF IInv
<1> QED
  BY <1>1, SignInInductive, PTL

(* However accounts are registered, linked to a Google or Apple account,      *)
(* deleted and registered again, the three maps of accounts agree.            *)
THEOREM AccountsAgree == Spec => []MapsAgree
<1>1. IInv => MapsAgree
  BY DEF IInv
<1> QED
  BY <1>1, SignInInductive, PTL

(* A code signs in only a client, with a password, who is still there: of the *)
(* steps of a goroutine VerifyOTPChallenge alone ends a code well.            *)
THEOREM CodesFollowPasswordsCorrect == Spec => CodesFollowPasswords
<1> DEFINE Follows(w) ==
      LET u == otpChallenges[workers[w].key].user IN
      workers[w].pc = "code" /\ workers'[w].pc = "passed"
      => u \in DOMAIN usersByID /\ usersByID[u].client /\ usersByID[u].password
<1>1. ASSUME IInv, Next, NEW w \in Workers PROVE Follows(w)
  <2> SUFFICES ASSUME workers[w].pc = "code", workers'[w].pc = "passed" PROVE Follows(w)
    OBVIOUS
  <2>1. \A v \in Workers : (\E t : Goto(v, t)) => v = w
    BY <1>1 DEF Goto, IInv, TypeOK
  <2>2. workers' # workers
    OBVIOUS
  <2>3. Continue(w)
    BY <1>1, <2>1, <2>2 DEF Next, Others, SocialLogin, DeleteUserByID, Tick, Start, StartLogin,
       StartVerify, Register, Continue, CheckPassword, VerifyOTPChallenge, recordAuthFailure,
       clearAuthFailures, CreateOTPChallenge, At
  <2>4. PICK right \in BOOLEAN : VerifyOTPChallenge(w, right)
    BY <2>3 DEF Continue, CheckPassword, recordAuthFailure, clearAuthFailures,
       CreateOTPChallenge, At
  <2> DEFINE c == workers[w].key
  <2>5. c \in Keys
    BY <1>1 DEF IInv, WorkersOK, At, Keys
  <2>6. \A t : Goto(w, t) => workers'[w] = t
    BY <1>1 DEF Goto, IInv, TypeOK
  <2>7. Usable(c) /\ otpChallenges[c].user \in DOMAIN usersByID
    BY <2>4, <2>5, <2>6, KeyTask DEF VerifyOTPChallenge, PCs
  <2>8. otpChallenges[c].user \in Entitled
    BY <1>1, <2>7 DEF Usable, Alive, IInv, CodesOK
  <2> QED
    BY <2>7, <2>8 DEF Entitled
<1>2. IInv /\ [Next]_vars => [\A w \in Workers : Follows(w)]_vars
  BY <1>1
<1> QED
  BY <1>2, SignInInductive, PTL DEF Spec, CodesFollowPasswords

(* The limit on wrong passwords and wrong codes may be passed by the requests *)
(* under way together, once for a code and twice for a password, and by no    *)
(* more, for any limit, any window and any number of requests at a time.      *)
THEOREM GuessBound == Spec => []GuessesBounded
<1>1. IInv => GuessesBounded
  <2> SUFFICES ASSUME IInv PROVE GuessesBounded
    OBVIOUS
  <2>1. TypeOK /\ CountsOK
    BY DEF IInv
  <2>2. ASSUME NEW e \in Emails PROVE wrong[e] <= MaxFails[e] + 2 * Extra
    <3>1. e \in Keys /\ wrong[e] \in Nat
      BY <2>1 DEF Keys, TypeOK
    <3>2. /\ Entry(e).failures \in Nat /\ Entry(e).failures < MaxFails[e]
          /\ MaxFails[e] \in Nat
      BY <2>1, <3>1, EntryTyped, Limits
    <3>3. /\ Cardinality(Comparing(e)) \in Nat /\ Cardinality(Failing(e)) \in Nat /\ Extra \in Nat
          /\ Cardinality(Comparing(e)) + Cardinality(Failing(e)) <= Extra + 1
      BY Sizes
    <3> QED
      BY <2>1, <3>1, <3>2, <3>3 DEF CountsOK, PasswordCount, Counts
  <2>3. ASSUME NEW c \in Challenges, OTPTTL < LockWindow[c] PROVE wrong[c] <= MaxFails[c] + 2 * Extra
    BY <2>1, <2>3 DEF CountsOK, ChallengeCount
  <2> QED
    BY <2>2, <2>3 DEF GuessesBounded, Keys
<1> QED
  BY <1>1, SignInInductive, PTL

-----------------------------------------------------------------------------
(* The contract of accounts *)

Registered == {[id |-> u, email |-> usersByID[u].email] : u \in DOMAIN usersByID}
Links == {[identity |-> s, id |-> socialToUserID[s]] : s \in DOMAIN socialToUserID}
Retired == taken \ DOMAIN usersByID

(* What the three sets say of the maps.                                       *)
LEMMA AccountSets ==
    ASSUME TypeOK, MapsAgree
    PROVE /\ \A u, e : [id |-> u, email |-> e] \in Registered <=>
                 u \in DOMAIN usersByID /\ usersByID[u].email = e
          /\ \A a \in Registered : /\ a.id \in DOMAIN usersByID
                                    /\ a.email \in DOMAIN userIDByEmail
                                    /\ userIDByEmail[a.email] = a.id
          /\ \A l \in Links : l.identity \in DOMAIN socialToUserID
                              /\ socialToUserID[l.identity] = l.id
          /\ DOMAIN usersByID \subseteq taken
<1>1. \A u, e : [id |-> u, email |-> e] \in Registered <=>
                 u \in DOMAIN usersByID /\ usersByID[u].email = e
  BY DEF Registered
<1>2. \A a \in Registered : a.id \in DOMAIN usersByID /\ a.email = usersByID[a.id].email
  BY DEF Registered
<1>3. \A l \in Links : l.identity \in DOMAIN socialToUserID /\ socialToUserID[l.identity] = l.id
  BY DEF Links
<1> QED
  BY <1>1, <1>2, <1>3 DEF MapsAgree, TypeOK, Table

(* A new account enters under an address and an id that nothing has had.      *)
LEMMA NewEnters ==
    ASSUME TypeOK, MapsAgree, NEW u \in Users, NEW fresh \in UserRows, New(u, fresh),
           fresh.email \notin DOMAIN userIDByEmail
    PROVE Contract!Enter(u, fresh.email) /\ Retired' = Retired
<1>1. /\ DOMAIN usersByID' = DOMAIN usersByID \cup {u} /\ usersByID'[u] = fresh
      /\ \A v \in DOMAIN usersByID : v # u /\ usersByID'[v] = usersByID[v]
      /\ u \notin taken /\ taken' = taken \cup {u}
  BY AccountSets DEF New, With
<1>2. Registered' = Registered \cup {[id |-> u, email |-> fresh.email]}
  BY <1>1 DEF Registered
<1>3. \A a \in Registered : a.id # u /\ a.email # fresh.email
  BY <1>1, AccountSets
<1>4. u \notin Retired /\ Retired' = Retired
  BY <1>1 DEF Retired
<1> QED
  BY <1>2, <1>3, <1>4 DEF Contract!Enter, Contract!Registered, Contract!Account, Registered, Retired

(* What With adds to the links.                                               *)
LEMMA NewLink ==
    ASSUME NEW s \in Socials, NEW u, s \notin DOMAIN socialToUserID,
           socialToUserID' = With(socialToUserID, s, u)
    PROVE Links' = Links \cup {[identity |-> s, id |-> u]}
<1>1. /\ DOMAIN socialToUserID' = DOMAIN socialToUserID \cup {s} /\ socialToUserID'[s] = u
      /\ \A t \in DOMAIN socialToUserID : socialToUserID'[t] = socialToUserID[t]
  BY DEF With
<1> QED
  BY <1>1 DEF Links

LEMMA AccountsStep == IInv /\ [Next]_vars => [Contract!Next]_(Contract!vars)
<1> SUFFICES ASSUME TypeOK, MapsAgree, [Next]_vars PROVE [Contract!Next]_(Contract!vars)
  BY DEF IInv
<1>1. ASSUME NEW w \in Workers, NEW u \in Users, NEW e \in Emails, NEW client \in BOOLEAN,
             Register(w, u, e, client)
      PROVE Contract!CreateUser(u, e)
  <2> DEFINE fresh == [email |-> e, client |-> client, password |-> TRUE]
  <2>1. /\ fresh \in UserRows /\ New(u, fresh) /\ fresh.email = e
        /\ e \notin DOMAIN userIDByEmail /\ UNCHANGED socialToUserID
    BY <1>1 DEF UserRows, Register
  <2> HIDE DEF fresh
  <2>2. Contract!Enter(u, e) /\ Retired' = Retired
    BY <2>1, NewEnters
  <2> QED
    BY <2>1, <2>2 DEF Contract!CreateUser, Retired
<1>2. ASSUME NEW u \in Users, NEW s \in Socials, NEW e \in Emails, SocialLogin(u, s, e)
      PROVE \E v \in Users : Contract!SocialLogin(s, v, e)
  <2>1. s \notin DOMAIN socialToUserID
    BY <1>2 DEF SocialLogin
  <2>2. \A l \in Links : l.identity # s
    BY <2>1, AccountSets
  <2>3. CASE e \in DOMAIN userIDByEmail
    <3>1. PICK v \in Users : /\ v = userIDByEmail[e]
                             /\ v \in DOMAIN usersByID /\ usersByID[v].email = e
      BY <2>3 DEF MapsAgree, TypeOK, Table
    <3>2. /\ UNCHANGED <<usersByID, taken>>
          /\ socialToUserID' = With(socialToUserID, s, v)
      BY <1>2, <2>3, <3>1 DEF SocialLogin
    <3>3. [id |-> v, email |-> e] \in Registered /\ UNCHANGED <<Registered, Retired>>
      BY <3>1, <3>2 DEF Registered, Retired
    <3>4. Links' = Links \cup {[identity |-> s, id |-> v]}
      BY <2>1, <3>2, NewLink
    <3>5. Contract!SocialLogin(s, v, e)
      BY <2>2, <3>3, <3>4 DEF Contract!SocialLogin, Contract!Account, Registered, Links, Retired
    <3> QED
      BY <3>5
  <2>4. CASE e \notin DOMAIN userIDByEmail
    <3> DEFINE fresh == [email |-> e, client |-> TRUE, password |-> FALSE]
    <3>1. /\ fresh \in UserRows /\ New(u, fresh) /\ fresh.email = e
          /\ socialToUserID' = With(socialToUserID, s, u)
      BY <1>2, <2>4 DEF UserRows, SocialLogin, NewSocial
    <3> HIDE DEF fresh
    <3>2. Contract!Enter(u, e) /\ Retired' = Retired
      BY <2>4, <3>1, NewEnters
    <3>3. Links' = Links \cup {[identity |-> s, id |-> u]}
      BY <2>1, <3>1, NewLink
    <3> QED
      BY <2>2, <3>2, <3>3 DEF Contract!SocialLogin, Links, Retired
  <2> QED
    BY <2>3, <2>4
<1>3. ASSUME NEW u \in Users, DeleteUserByID(u) PROVE Contract!DeleteUserByID(u)
  <2>1. /\ u \in DOMAIN usersByID
        /\ DOMAIN usersByID' = DOMAIN usersByID \ {u}
        /\ \A v \in DOMAIN usersByID' : usersByID'[v] = usersByID[v]
        /\ taken' = taken
    BY <1>3 DEF DeleteUserByID, Without
  <2>2. Registered' = {a \in Registered : a.id # u}
    BY <2>1 DEF Registered
  <2>3. Links' = {l \in Links : l.id # u}
    <3>1. /\ DOMAIN socialToUserID' = {s \in DOMAIN socialToUserID : socialToUserID[s] # u}
          /\ \A s \in DOMAIN socialToUserID' : socialToUserID'[s] = socialToUserID[s]
      BY <1>3 DEF DeleteUserByID
    <3> QED
      BY <3>1 DEF Links
  <2>4. Retired' = Retired \cup {u}
    BY <2>1, AccountSets DEF Retired
  <2>5. \E a \in Registered : a.id = u
    <3>1. [id |-> u, email |-> usersByID[u].email] \in Registered
      BY <2>1 DEF Registered
    <3> QED
      BY <3>1
  <2> QED
    BY <2>2, <2>3, <2>4, <2>5
       DEF Contract!DeleteUserByID, Contract!Registered, Registered, Links, Retired
<1>4. CASE UNCHANGED accounts
  BY <1>4 DEF accounts, Contract!vars
<1>5. ASSUME NEW w \in Workers, Continue(w) PROVE UNCHANGED accounts
  BY <1>5 DEF Continue, CheckPassword, VerifyOTPChallenge, recordAuthFailure, clearAuthFailures,
       CreateOTPChallenge
<1>6. ASSUME NEW w \in Workers, NEW k \in Keys, StartLogin(w, k) \/ StartVerify(w, k)
      PROVE UNCHANGED accounts
  BY <1>6 DEF StartLogin, StartVerify
<1>7. Tick \/ UNCHANGED vars => UNCHANGED accounts
  BY DEF Tick, vars
<1>8. \/ \E u \in Users, e \in Emails : \/ Contract!CreateUser(u, e)
                                       \/ \E s \in Socials : Contract!SocialLogin(s, u, e)
      \/ \E u \in Users : Contract!DeleteUserByID(u)
      \/ UNCHANGED accounts
  BY <1>1, <1>2, <1>3, <1>5, <1>6, <1>7 DEF Next, Start, Others, Keys
<1> QED
  BY <1>4, <1>8 DEF Contract!Next

(* The maps of MemoryStore implement the contract of accounts: every          *)
(* registration, social sign-in and deletion is one step of it, and nothing   *)
(* else that the requests do touches an account.                              *)
THEOREM MemoryKeepsAccounts == Spec => KeepsAccounts
<1>1. Init => Contract!Init
  BY DEF Init, Contract!Init
<1> QED
  BY <1>1, AccountsStep, SignInInductive, PTL DEF Spec, KeepsAccounts, Contract!Spec

=============================================================================
