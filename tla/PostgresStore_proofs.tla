------------------------ MODULE PostgresStore_proofs ------------------------
(***************************************************************************)
(* Proofs about PostgresStore, for any sets of users, rows and goroutines  *)
(* and any number of restarts.                                             *)
(***************************************************************************)
EXTENDS PostgresStore, TLAPS

-----------------------------------------------------------------------------
(* Tables *)

LEMMA PartialIntro ==
    ASSUME NEW S, NEW T, NEW D \in SUBSET S, NEW f \in [D -> T]
    PROVE  f \in Partial(S, T)
BY Zenon DEF Partial

LEMMA PartialElim ==
    ASSUME NEW S, NEW T, NEW f \in Partial(S, T)
    PROVE  /\ DOMAIN f \subseteq S /\ f \in [DOMAIN f -> T]
           /\ \A k \in DOMAIN f : f[k] \in T
<1>1. PICK D \in SUBSET S : f \in [D -> T]
  BY Zenon DEF Partial
<1> QED
  BY <1>1

LEMMA InsertProps ==
    ASSUME NEW f, NEW k, NEW row
    PROVE  /\ DOMAIN Insert(f, k, row) = DOMAIN f \cup {k}
           /\ Insert(f, k, row)[k] = row
           /\ \A j \in DOMAIN f : j # k => Insert(f, k, row)[j] = f[j]
BY DEF Insert

LEMMA InsertTyped ==
    ASSUME NEW S, NEW T, NEW f \in Partial(S, T), NEW k \in S, NEW row \in T
    PROVE  Insert(f, k, row) \in Partial(S, T)
<1>1. Insert(f, k, row) \in [DOMAIN f \cup {k} -> T]
  BY PartialElim DEF Insert
<1>2. DOMAIN f \cup {k} \in SUBSET S
  BY PartialElim
<1> QED
  BY <1>1, <1>2, PartialIntro

LEMMA DeleteProps ==
    ASSUME NEW f, NEW keys
    PROVE  /\ DOMAIN Delete(f, keys) = DOMAIN f \ keys
           /\ \A j \in DOMAIN f \ keys : Delete(f, keys)[j] = f[j]
BY DEF Delete

LEMMA DeleteTyped ==
    ASSUME NEW S, NEW T, NEW f \in Partial(S, T), NEW keys
    PROVE  Delete(f, keys) \in Partial(S, T)
<1>1. Delete(f, keys) \in [DOMAIN f \ keys -> T]
  BY PartialElim DEF Delete
<1>2. DOMAIN f \ keys \in SUBSET S
  BY PartialElim
<1> QED
  BY <1>1, <1>2, PartialIntro

\* A table of users keeps its type when users are added.
LEMMA PartialWiden ==
    ASSUME NEW S, NEW T, NEW U, T \subseteq U, NEW f \in Partial(S, T)
    PROVE  f \in Partial(S, U)
<1>1. DOMAIN f \in SUBSET S /\ f \in [DOMAIN f -> U]
  BY PartialElim
<1> QED
  BY <1>1, PartialIntro

LEMMA ExceptTyped ==
    ASSUME NEW S, NEW T, NEW f \in Partial(S, T), NEW k \in DOMAIN f, NEW row \in T
    PROVE  /\ [f EXCEPT ![k] = row] \in Partial(S, T)
           /\ DOMAIN [f EXCEPT ![k] = row] = DOMAIN f
           /\ \A j \in DOMAIN f : [f EXCEPT ![k] = row][j] = IF j = k THEN row ELSE f[j]
<1>1. [f EXCEPT ![k] = row] \in [DOMAIN f -> T] /\ DOMAIN f \in SUBSET S
  BY PartialElim
<1> QED
  BY <1>1, PartialIntro

-----------------------------------------------------------------------------
(* Types of rows and tasks *)

TablesOK ==
    /\ users \in Partial(Ids, UserRows)
    /\ issued \subseteq Ids /\ DOMAIN users \subseteq issued
    /\ social \in Partial(Identities, DOMAIN users)
    /\ kycs \in Partial(KYCs, KYCRows)
    /\ listings \in Partial(Listings, DOMAIN users)
    /\ requests \in Partial(Requests, DOMAIN users)
    /\ packages \in Partial(Packages, PackageRows)
    /\ matches \subseteq [listing : Listings, request : Requests]
    /\ accounts \subseteq Accounts
    /\ restarts \in Nat

LEMMA TypeParts == TypeOK <=> TablesOK /\ workers \in [Workers -> WorkerStates]
BY DEF TypeOK, TablesOK

LEMMA UserTyped ==
    ASSUME TypeOK, NEW u \in DOMAIN users
    PROVE  u \in Ids /\ u \in issued /\ users[u] \in UserRows
BY PartialElim DEF TypeOK

LEMMA SocialTyped ==
    ASSUME TypeOK, NEW i \in DOMAIN social
    PROVE  i \in Identities /\ social[i] \in DOMAIN users
BY PartialElim DEF TypeOK

LEMMA KYCTyped ==
    ASSUME TypeOK, NEW k \in DOMAIN kycs
    PROVE  k \in KYCs /\ kycs[k] \in KYCRows
BY PartialElim DEF TypeOK

LEMMA NewUserTyped ==
    ASSUME NEW e \in Emails
    PROVE  /\ NewUser(e) \in UserRows
           /\ NewUser(e).email = e /\ NewUser(e).kyc = "unverified"
           /\ NewUser(e).account = NoAccount
BY DEF NewUser, UserRows

LEMMA IdleTyped == Idle \in WorkerStates /\ Idle.pc = "idle"
BY DEF Idle, WorkerStates

LEMMA TaskTyped ==
    ASSUME TypeOK, NEW w \in Workers
    PROVE  /\ workers[w].pc \in {"email", "user"} =>
                 workers[w] \in [pc : {"email", "user"}, identity : Identities, email : Emails]
           /\ workers[w].pc \in {"link", "touch"} => workers[w] \in SignIns
           /\ workers[w].pc \in {"kyc", "ensure"} =>
                 workers[w] \in [pc : {"kyc", "ensure"}, user : Ids]
           /\ workers[w].pc = "publish" =>
                 workers[w] \in [pc : {"publish"}, row : KYCs, verdict : {"verified", "rejected"}]
           /\ workers[w].pc = "record" =>
                 workers[w] \in [pc : {"record"}, user : Ids, account : Ids]
           /\ workers[w].pc = "package" =>
                 workers[w] \in [pc : {"package"}, request : Requests,
                                 status : {"pending_review", "rejected_high_risk"}]
           /\ workers[w].pc \in {"approved", "match"} =>
                 workers[w] \in [pc : {"approved", "match"}, listing : Listings, request : Requests]
<1>1. workers[w] \in WorkerStates
  BY DEF TypeOK
<1> QED
  BY <1>1 DEF WorkerStates, SignIns

-----------------------------------------------------------------------------
(* Steps of one goroutine that leave users and links as they are *)

\* Nobody's address or link changes; rows and accounts may be added.
Quiet ==
    /\ issued \subseteq issued' /\ social' = social
    /\ DOMAIN users' = DOMAIN users
    /\ \A u \in DOMAIN users : users'[u].email = users[u].email
    /\ DOMAIN kycs \subseteq DOMAIN kycs'
    /\ accounts \subseteq accounts'

TaskOK(w) ==
    /\ SignInOK(w)
    /\ \A v \in Workers \ {w} : Apart(w, v) /\ Apart(v, w)
    /\ workers[w].pc = "publish" => workers[w].row \in DOMAIN kycs
    /\ workers[w].pc = "record" =>
          [key |-> workers[w].account, user |-> workers[w].user] \in accounts

LEMMA TaskStep ==
    ASSUME TypeOK, TasksOK, Quiet, NEW w \in Workers, NEW s,
           workers' = [workers EXCEPT ![w] = s], TaskOK(w)'
    PROVE  TasksOK'
<1>1. \A v \in Workers : workers'[v] = IF v = w THEN s ELSE workers[v]
  BY DEF TypeOK
<1>2. ASSUME NEW v \in Workers, v # w
      PROVE  /\ SignInOK(v)'
             /\ workers'[v].pc = "publish" => workers'[v].row \in DOMAIN kycs'
             /\ workers'[v].pc = "record" =>
                   [key |-> workers'[v].account, user |-> workers'[v].user] \in accounts'
  <2>1. workers'[v] = workers[v]
    BY <1>1, <1>2
  <2>2. \A e : WithEmail(e)' = WithEmail(e)
    BY DEF Quiet, WithEmail
  <2>3. SignInOK(v)
    BY DEF TasksOK
  <2> QED
    BY <2>1, <2>2, <2>3 DEF SignInOK, Linked, TasksOK, Quiet
<1>3. ASSUME NEW v \in Workers, v # w, NEW u \in Workers \ {v}
      PROVE  Apart(v, u)'
  <2>1. CASE u = w
    BY <1>3, <2>1 DEF TaskOK
  <2>2. CASE u # w
    <3>1. workers'[v] = workers[v] /\ workers'[u] = workers[u]
      BY <1>1, <1>3, <2>2
    <3>2. Apart(v, u)
      BY <1>3 DEF TasksOK
    <3> QED
      BY <3>1, <3>2 DEF Apart
  <2> QED
    BY <2>1, <2>2
<1> QED
  BY <1>2, <1>3 DEF TasksOK, TaskOK

\* A task other than a link or a touch asks nothing of the sign-ins, but that the
\* address it looks for is one that its identity may name.
LEMMA PlainTask ==
    ASSUME TypeOK, TasksOK, Quiet, NEW w \in Workers, NEW s,
           workers' = [workers EXCEPT ![w] = s], s.pc \notin {"link", "touch"},
           s.pc \in {"email", "user"} => s.email \in AddressesOf[s.identity],
           s.pc = "publish" => s.row \in DOMAIN kycs,
           s.pc = "record" => [key |-> s.account, user |-> s.user] \in accounts'
    PROVE  TasksOK'
<1>1. workers'[w] = s
  BY DEF TypeOK
<1>2. SignInOK(w)' /\ \A v \in Workers \ {w} : Apart(w, v)' /\ Apart(v, w)'
  BY <1>1 DEF SignInOK, Apart
<1>3. TaskOK(w)'
  BY <1>1, <1>2 DEF TaskOK, Quiet
<1> QED
  BY <1>3, TaskStep

\* What is left to show of a step that takes one goroutine on and changes no row.
LEMMA OnlyTask ==
    ASSUME IInv, NEW w \in Workers, NEW s \in WorkerStates, Goto(w, s), TasksOK',
           issued \subseteq issued', issued' \subseteq Ids,
           UNCHANGED <<users, social, kycs, catalogue, accounts, restarts>>
    PROVE  IInv'
<1>1. TypeOK'
  BY DEF IInv, TypeOK, Goto, catalogue
<1>2. UsersOK' /\ AccountsOK' /\ VerdictsAgree' /\ OneAccountPerUser'
  BY DEF IInv, UsersOK, AccountsOK, VerdictsAgree, OneAccountPerUser
<1> QED
  BY <1>1, <1>2 DEF IInv

LEMMA OnlyPlainTask ==
    ASSUME IInv, NEW w \in Workers, NEW s \in WorkerStates, Goto(w, s),
           s.pc \notin {"link", "touch", "record"},
           s.pc \in {"email", "user"} => s.email \in AddressesOf[s.identity],
           s.pc = "publish" => s.row \in DOMAIN kycs,
           UNCHANGED <<users, issued, social, kycs, catalogue, accounts, restarts>>
    PROVE  IInv'
<1>1. Quiet
  BY DEF Quiet
<1>2. TasksOK'
  BY <1>1, PlainTask DEF IInv, Goto
<1> QED
  BY <1>2, OnlyTask DEF IInv, TypeOK

-----------------------------------------------------------------------------
(* Social sign-ins *)

\* What a goroutine that looks for its user, or has found one, may be asked.
LEMMA LooksUp ==
    ASSUME IInv, NEW w \in Workers, workers[w].pc \in {"email", "user"}
    PROVE  /\ workers[w].identity \in Identities
           /\ workers[w].email \in Emails
           /\ workers[w].email \in AddressesOf[workers[w].identity]
BY TaskTyped DEF IInv, TasksOK, SignInOK

LEMMA SelectLinkStep ==
    ASSUME IInv, NEW w \in Workers, NEW i \in Identities, NEW e \in AddressesOf[i],
           SelectLink(w, i, e)
    PROVE  IInv'
<1> e \in Emails
  BY AddressesAssumption
<1>1. CASE i \in DOMAIN social
  <2> DEFINE s == [pc |-> "touch", identity |-> i, email |-> e, user |-> social[i],
                   created |-> FALSE, linked |-> FALSE]
  <2>1. social[i] \in DOMAIN users /\ social[i] \in Ids /\ social[i] \in issued
    BY <1>1, SocialTyped, UserTyped DEF IInv
  <2>2. s \in WorkerStates
    BY <2>1 DEF WorkerStates, SignIns
  <2>3. /\ s.pc = "touch" /\ s.identity = i /\ s.email = e /\ s.user = social[i]
        /\ s.created = FALSE /\ s.linked = FALSE
    OBVIOUS
  <2>4. Goto(w, s) /\ UNCHANGED <<users, issued, social, kycs, catalogue, accounts, restarts>>
    BY <1>1 DEF SelectLink
  <2> HIDE DEF s
  <2>5. workers'[w] = s /\ \A v \in Workers \ {w} : workers'[v] = workers[v]
    BY <2>4 DEF Goto, IInv, TypeOK
  <2>6. SignInOK(w)'
    BY <1>1, <2>1, <2>3, <2>4, <2>5 DEF SignInOK, Linked, IInv, UsersOK
  <2>7. ASSUME NEW v \in Workers \ {w} PROVE Apart(w, v)' /\ Apart(v, w)'
    <3>1. SignInOK(v) /\ workers'[v] = workers[v]
      BY <2>5 DEF IInv, TasksOK
    <3>2. workers[v].pc \in {"link", "touch"} /\ workers[v].created => workers[v].user # social[i]
      BY <2>1, <3>1 DEF SignInOK
    <3> QED
      BY <2>3, <2>5, <3>1, <3>2 DEF Apart
  <2>8. TasksOK'
    <3>1. Quiet /\ TaskOK(w)'
      BY <2>3, <2>4, <2>5, <2>6, <2>7 DEF Quiet, TaskOK
    <3> QED
      BY <2>4, <3>1, TaskStep DEF IInv, Goto
  <2> QED
    BY <2>2, <2>4, <2>8, OnlyTask DEF IInv, TypeOK
<1>2. CASE i \notin DOMAIN social
  <2> DEFINE s == [pc |-> "email", identity |-> i, email |-> e]
  <2>1. s \in WorkerStates /\ s.pc = "email" /\ s.email \in AddressesOf[s.identity]
    BY DEF WorkerStates
  <2>2. Goto(w, s) /\ UNCHANGED <<users, issued, social, kycs, catalogue, accounts, restarts>>
    BY <1>2 DEF SelectLink
  <2> HIDE DEF s
  <2> QED
    BY <2>1, <2>2, OnlyPlainTask
<1> QED
  BY <1>1, <1>2

\* A goroutine has a user to link: one it found or one it inserted.
LEMMA LinkableStep ==
    ASSUME IInv, NEW w \in Workers, workers[w].pc \in {"email", "user"},
           NEW u \in Ids, NEW c \in BOOLEAN, Linkable(w, u, c),
           UNCHANGED <<users, social, kycs, catalogue, accounts, restarts>>,
           issued' = issued \cup {u},
           c => /\ u \notin issued /\ WithEmail(workers[w].email) = {}
                /\ Creating(workers[w].email) = {},
           ~c => u \in DOMAIN users /\ users[u].email = workers[w].email
    PROVE  IInv'
<1> DEFINE i == workers[w].identity
           e == workers[w].email
           s == [pc |-> "link", identity |-> i, email |-> e, user |-> u, created |-> c,
                 linked |-> FALSE]
<1>1. s \in WorkerStates /\ s.pc = "link" /\ s.identity = i /\ s.email = e /\ s.user = u
      /\ s.created = c /\ s.linked = FALSE
  BY LooksUp DEF WorkerStates, SignIns
<1>2. Goto(w, s)
  BY DEF Linkable
<1> HIDE DEF s
<1>3. workers'[w] = s /\ \A v \in Workers \ {w} : workers'[v] = workers[v]
  BY <1>2 DEF Goto, IInv, TypeOK
<1>4. u \notin issued => u \notin DOMAIN users
  BY UserTyped DEF IInv
<1>5. \A d : WithEmail(d)' = WithEmail(d)
  BY DEF WithEmail
<1>6. SignInOK(w)'
  BY LooksUp, <1>1, <1>3, <1>4, <1>5 DEF SignInOK
<1>7. ASSUME NEW v \in Workers \ {w} PROVE Apart(w, v)' /\ Apart(v, w)'
  <2>1. SignInOK(v) /\ workers'[v] = workers[v]
    BY <1>3 DEF IInv, TasksOK
  <2>2. CASE workers[v].pc \notin {"link", "touch"}
    BY <2>1, <2>2 DEF Apart
  <2>3. CASE workers[v].pc \in {"link", "touch"}
    <3>1. workers[v].user \in issued
      BY <2>1, <2>3 DEF SignInOK
    <3>2. c => workers[v].user # u
      BY <3>1
    <3>3. workers[v].created => (~c => workers[v].user # u)
      BY <2>1, <2>3 DEF SignInOK
    <3>4. c /\ workers[v].created => e # workers[v].email
      BY <2>3 DEF Creating
    <3> QED
      BY <1>1, <1>3, <2>1, <3>2, <3>3, <3>4 DEF Apart
  <2> QED
    BY <2>2, <2>3
<1>8. TasksOK'
  <2>1. Quiet /\ TaskOK(w)'
    BY <1>1, <1>3, <1>6, <1>7 DEF Quiet, TaskOK
  <2> QED
    BY <1>2, <2>1, TaskStep DEF IInv, Goto
<1> QED
  BY <1>1, <1>2, <1>8, OnlyTask DEF IInv, TypeOK

LEMMA SelectEmailStep ==
    ASSUME IInv, NEW w \in Workers, SelectEmail(w)
    PROVE  IInv'
<1>1. workers[w].pc = "email" /\ UNCHANGED <<users, issued, social, kycs, catalogue, accounts, restarts>>
  BY DEF SelectEmail
<1>2. ASSUME NEW u \in WithEmail(workers[w].email), Linkable(w, u, FALSE)
      PROVE  IInv'
  <2>1. u \in DOMAIN users /\ users[u].email = workers[w].email
        /\ u \in Ids /\ issued' = issued \cup {u}
    BY <1>1, <1>2, UserTyped DEF WithEmail, IInv
  <2> QED
    BY <1>1, <1>2, <2>1, LinkableStep
<1>3. CASE Goto(w, [workers[w] EXCEPT !.pc = "user"])
  <2> DEFINE s == [workers[w] EXCEPT !.pc = "user"]
  <2>1. s \in WorkerStates /\ s.pc = "user" /\ s.email \in AddressesOf[s.identity]
    <3>1. /\ s \in [pc : {"email", "user"}, identity : Identities, email : Emails]
          /\ s.pc = "user" /\ s.email \in AddressesOf[s.identity]
      BY <1>1, TaskTyped, LooksUp DEF IInv
    <3> QED
      BY <3>1 DEF WorkerStates
  <2> HIDE DEF s
  <2>2. Goto(w, s)
    BY <1>3 DEF s
  <2> QED
    BY <1>1, <2>1, <2>2, OnlyPlainTask
<1> QED
  BY <1>2, <1>3 DEF SelectEmail

LEMMA FinishKeeps ==
    ASSUME IInv, NEW w \in Workers, Finish(w),
           UNCHANGED <<users, issued, social, kycs, catalogue, accounts, restarts>>
    PROVE  IInv'
BY IdleTyped, OnlyPlainTask DEF Finish

LEMMA InsertUserStep ==
    ASSUME IInv, NEW w \in Workers, InsertUser(w)
    PROVE  IInv'
<1> DEFINE e == workers[w].email
<1>1. /\ workers[w].pc = "user" /\ Creating(e) = {}
      /\ UNCHANGED <<users, social, kycs, catalogue, accounts, restarts>>
  BY DEF InsertUser
<1>2. CASE Finish(w) /\ UNCHANGED issued
  BY <1>1, <1>2, FinishKeeps
<1>3. ASSUME ~EmailTaken(e), NEW u \in Ids \ issued, Linkable(w, u, TRUE), issued' = issued \cup {u}
      PROVE  IInv'
  <2>1. WithEmail(e) = {}
    BY <1>3 DEF EmailTaken
  <2> QED
    BY <1>1, <1>3, <2>1, LinkableStep
<1> QED
  BY <1>2, <1>3 DEF InsertUser

LEMMA InsertLinkStep ==
    ASSUME IInv, NEW w \in Workers, InsertLink(w)
    PROVE  IInv'
<1> DEFINE t == workers[w]
<1>1. /\ t.pc = "link" /\ Linking(t.identity) = {}
      /\ UNCHANGED <<users, issued, social, kycs, catalogue, accounts, restarts>>
  BY DEF InsertLink
<1>2. t \in SignIns /\ SignInOK(w) /\ t.linked = FALSE
  <2>1. t \in SignIns /\ SignInOK(w)
    BY <1>1, TaskTyped DEF IInv, TasksOK
  <2>2. ~t.linked /\ t.linked \in BOOLEAN
    BY <1>1, <2>1 DEF SignInOK, SignIns
  <2> QED
    BY <2>1, <2>2
<1>3. ASSUME NEW l \in BOOLEAN, NEW s \in SignIns, Goto(w, s),
             s.pc = "touch", s.identity = t.identity, s.email = t.email, s.user = t.user,
             s.created = t.created, s.linked = l,
             l => t.identity \notin DOMAIN social /\ (t.created \/ t.user \in DOMAIN users),
             ~l => t.identity \in DOMAIN social
      PROVE  IInv'
  <2>1. /\ s \in WorkerStates /\ s.pc = "touch" /\ s.identity = t.identity
        /\ s.email = t.email /\ s.user = t.user /\ s.created = t.created /\ s.linked = l
    BY <1>3 DEF WorkerStates
  <2>2. Goto(w, s)
    BY <1>3
  <2>3. workers'[w] = s /\ \A v \in Workers \ {w} : workers'[v] = workers[v]
    BY <2>2 DEF Goto, IInv, TypeOK
  <2>4. ASSUME t.identity \in DOMAIN social, AddressesOf[t.identity] = {t.email}
        PROVE  ~t.created /\ (t.user \in DOMAIN users => Linked(t))
    <3>1. /\ social[t.identity] \in DOMAIN users
          /\ users[social[t.identity]].email = t.email
      BY <2>4, SocialTyped DEF IInv, UsersOK
    <3>2. WithEmail(t.email) # {}
      BY <3>1 DEF WithEmail
    <3> QED
      BY <1>1, <1>2, <2>4, <3>1, <3>2 DEF SignInOK, Linked, IInv, UsersOK
  <2>5. SignInOK(w)'
    <3>1. \A e : WithEmail(e)' = WithEmail(e)
      BY <1>1 DEF WithEmail
    <3> QED
      BY <1>1, <1>2, <1>3, <2>1, <2>3, <2>4, <3>1 DEF SignInOK, Linked
  <2>6. ASSUME NEW v \in Workers \ {w} PROVE Apart(w, v)' /\ Apart(v, w)'
    <3>1. Apart(w, v) /\ Apart(v, w) /\ SignInOK(v) /\ workers'[v] = workers[v]
      BY <2>3 DEF IInv, TasksOK
    <3>2. workers[v].pc \in {"link", "touch"} /\ workers[v].linked => workers[v].identity # t.identity
      BY <1>1, <3>1 DEF Linking, SignInOK
    <3> QED
      BY <1>1, <2>1, <2>3, <3>1, <3>2 DEF Apart
  <2>7. TasksOK'
    <3>1. Quiet /\ TaskOK(w)'
      BY <1>1, <2>1, <2>3, <2>5, <2>6 DEF Quiet, TaskOK
    <3> QED
      BY <2>2, <3>1, TaskStep DEF IInv, Goto
  <2> QED
    BY <1>1, <2>1, <2>2, <2>7, OnlyTask DEF IInv, TypeOK
<1>4. CASE t.identity \in DOMAIN social /\ Goto(w, [t EXCEPT !.pc = "touch"])
  <2> DEFINE s == [t EXCEPT !.pc = "touch"]
  <2>1. /\ s \in SignIns /\ s.pc = "touch" /\ s.identity = t.identity /\ s.email = t.email
        /\ s.user = t.user /\ s.created = t.created /\ s.linked = FALSE
    BY <1>2 DEF SignIns
  <2>2. Goto(w, s)
    BY <1>4
  <2> HIDE DEF s
  <2> QED
    BY <1>3, <1>4, <2>1, <2>2
<1>5. CASE /\ t.identity \notin DOMAIN social
           /\ t.created \/ t.user \in DOMAIN users
           /\ Goto(w, [t EXCEPT !.pc = "touch", !.linked = TRUE])
  <2> DEFINE s == [t EXCEPT !.pc = "touch", !.linked = TRUE]
  <2>1. /\ s \in SignIns /\ s.pc = "touch" /\ s.identity = t.identity /\ s.email = t.email
        /\ s.user = t.user /\ s.created = t.created /\ s.linked = TRUE
    BY <1>2 DEF SignIns
  <2>2. Goto(w, s)
    BY <1>5
  <2> HIDE DEF s
  <2> QED
    BY <1>3, <1>5, <2>1, <2>2
<1>6. CASE Finish(w)
  BY <1>1, <1>6, FinishKeeps
<1> QED
  BY <1>4, <1>5, <1>6 DEF InsertLink

-----------------------------------------------------------------------------
(* Users come and go *)

\* The tables that refer to users when users are added or changed.
LEMMA WidenUsers ==
    ASSUME TypeOK, users' \in Partial(Ids, UserRows), DOMAIN users \subseteq DOMAIN users'
    PROVE  /\ social \in Partial(Identities, DOMAIN users')
           /\ listings \in Partial(Listings, DOMAIN users')
           /\ requests \in Partial(Requests, DOMAIN users')
BY PartialWiden DEF TypeOK

LEMMA CreateUserStep ==
    ASSUME IInv, NEW u \in Ids, NEW e \in Emails, CreateUser(u, e)
    PROVE  IInv'
<1>1. /\ u \notin issued /\ WithEmail(e) = {} /\ Creating(e) = {}
      /\ users' = Insert(users, u, NewUser(e)) /\ issued' = issued \cup {u}
      /\ UNCHANGED <<social, kycs, catalogue, accounts, workers, restarts>>
  BY DEF CreateUser
<1>2. /\ DOMAIN users' = DOMAIN users \cup {u} /\ u \notin DOMAIN users
      /\ users'[u].email = e /\ users'[u].kyc = "unverified" /\ users'[u].account = NoAccount
      /\ \A v \in DOMAIN users : users'[v] = users[v]
  <2>1. u \notin DOMAIN users
    BY <1>1, UserTyped DEF IInv
  <2>2. /\ DOMAIN users' = DOMAIN users \cup {u} /\ users'[u] = NewUser(e)
        /\ \A v \in DOMAIN users : v # u => users'[v] = users[v]
    BY <1>1 DEF Insert
  <2> QED
    BY <2>1, <2>2, NewUserTyped
<1>3. TypeOK'
  <2>1. users' \in Partial(Ids, UserRows)
    BY <1>1, InsertTyped, NewUserTyped DEF IInv, TypeOK
  <2> QED
    BY <1>1, <1>2, <2>1, WidenUsers DEF IInv, TypeOK, catalogue
<1>4. UsersOK'
  <2>1. \A v \in DOMAIN users : users[v].email # e
    BY <1>1 DEF WithEmail
  <2>2. \A i \in DOMAIN social : social[i] \in DOMAIN users
    BY SocialTyped DEF IInv
  <2> QED
    BY <1>1, <1>2, <2>1, <2>2 DEF IInv, UsersOK
<1>5. TasksOK'
  <2>1. ASSUME NEW w \in Workers PROVE SignInOK(w)'
    <3>1. SignInOK(w) /\ workers' = workers
      BY <1>1 DEF IInv, TasksOK
    <3>2. workers[w].pc \in {"link", "touch"} => workers[w].user \in issued
      BY <3>1 DEF SignInOK
    <3>3. workers[w].pc \in {"link", "touch"} /\ workers[w].created => workers[w].email # e
      BY <1>1 DEF Creating
    <3>4. \A d : d # e => WithEmail(d)' = WithEmail(d)
      BY <1>2 DEF WithEmail
    <3> QED
      BY <1>1, <1>2, <3>1, <3>2, <3>3, <3>4 DEF SignInOK, Linked
  <2> QED
    BY <1>1, <2>1 DEF IInv, TasksOK, Apart
<1>6. AccountsOK' /\ VerdictsAgree' /\ OneAccountPerUser'
  BY <1>1, <1>2 DEF IInv, AccountsOK, VerdictsAgree, OneAccountPerUser
<1> QED
  BY <1>3, <1>4, <1>5, <1>6 DEF IInv

LEMMA DeleteUserByIDStep ==
    ASSUME IInv, NEW u \in Ids, DeleteUserByID(u)
    PROVE  IInv'
<1>1. /\ u \in DOMAIN users /\ ~Referenced(u)
      /\ \A i \in Identities : \A w \in Linking(i) : workers[w].user # u
      /\ users' = Delete(users, {u}) /\ social' = Delete(social, LinksOf(u))
      /\ UNCHANGED <<issued, kycs, catalogue, accounts, workers, restarts>>
  BY DEF DeleteUserByID
<1>2. /\ DOMAIN users' = DOMAIN users \ {u}
      /\ \A v \in DOMAIN users' : users'[v] = users[v]
      /\ DOMAIN social' = {i \in DOMAIN social : social[i] # u}
      /\ \A i \in DOMAIN social' : social'[i] = social[i]
  <2>1. /\ DOMAIN users' = DOMAIN users \ {u}
        /\ \A v \in DOMAIN users \ {u} : users'[v] = users[v]
    BY <1>1, DeleteProps, Zenon
  <2>2. /\ DOMAIN social' = DOMAIN social \ LinksOf(u)
        /\ \A i \in DOMAIN social \ LinksOf(u) : social'[i] = social[i]
    BY <1>1, DeleteProps, Zenon
  <2> QED
    BY <2>1, <2>2 DEF LinksOf
<1>3. \A k \in DOMAIN kycs : kycs[k].user # u
  BY <1>1 DEF Referenced
<1>4. TypeOK'
  <2>1. users' \in Partial(Ids, UserRows)
    BY <1>1, DeleteTyped DEF IInv, TypeOK
  <2>2. social' \in Partial(Identities, DOMAIN users')
    <3>1. DOMAIN social' \in SUBSET Identities
      BY <1>2, SocialTyped DEF IInv
    <3>2. social' \in [DOMAIN social' -> DOMAIN users']
      <4>1. social' = [i \in DOMAIN social' |-> social'[i]]
        BY <1>1 DEF Delete
      <4>2. \A i \in DOMAIN social' : social'[i] \in DOMAIN users'
        BY <1>2, SocialTyped DEF IInv
      <4> QED
        BY <4>1, <4>2
    <3> QED
      BY <3>1, <3>2, PartialIntro
  <2>3. listings \in Partial(Listings, DOMAIN users')
    <3>1. DOMAIN listings \in SUBSET Listings /\ listings \in [DOMAIN listings -> DOMAIN users]
      BY PartialElim DEF IInv, TypeOK
    <3>2. listings \in [DOMAIN listings -> DOMAIN users']
      BY <1>1, <1>2, <3>1 DEF Referenced
    <3> QED
      BY <3>1, <3>2, PartialIntro
  <2>4. requests \in Partial(Requests, DOMAIN users')
    <3>1. DOMAIN requests \in SUBSET Requests /\ requests \in [DOMAIN requests -> DOMAIN users]
      BY PartialElim DEF IInv, TypeOK
    <3>2. requests \in [DOMAIN requests -> DOMAIN users']
      BY <1>1, <1>2, <3>1 DEF Referenced
    <3> QED
      BY <3>1, <3>2, PartialIntro
  <2> QED
    BY <1>1, <1>2, <2>1, <2>2, <2>3, <2>4 DEF IInv, TypeOK, catalogue
<1>5. UsersOK'
  <2>1. \A i \in DOMAIN social' : social[i] \in DOMAIN users'
    BY <1>2, SocialTyped DEF IInv
  <2>2. \A i \in DOMAIN social' : users'[social'[i]].email \in AddressesOf[i]
    BY <1>2, <2>1 DEF IInv, UsersOK
  <2>3. \A v, x \in DOMAIN users' : users'[v].email = users'[x].email => v = x
    BY <1>2 DEF IInv, UsersOK
  <2>4. \A k \in DOMAIN kycs : kycs[k].user \in DOMAIN users'
    BY <1>2, <1>3 DEF IInv, UsersOK
  <2> QED
    BY <1>1, <2>2, <2>3, <2>4 DEF UsersOK
<1>6. TasksOK'
  <2>1. ASSUME NEW w \in Workers PROVE SignInOK(w)'
    <3>1. SignInOK(w) /\ workers' = workers
      BY <1>1 DEF IInv, TasksOK
    <3>2. \A d : WithEmail(d)' \subseteq WithEmail(d)
      BY <1>2 DEF WithEmail
    <3>3. workers[w].pc = "touch" /\ workers[w].linked => workers[w].user # u
      BY <1>1, TaskTyped DEF Linking, IInv, SignIns
    <3>4. workers[w].linked /\ workers[w].pc \in {"link", "touch"} => workers[w].pc = "touch"
      BY <3>1 DEF SignInOK
    <3> QED
      BY <1>1, <1>2, <3>1, <3>2, <3>3, <3>4 DEF SignInOK, Linked
  <2> QED
    BY <1>1, <2>1 DEF IInv, TasksOK, Apart
<1>7. AccountsOK' /\ VerdictsAgree' /\ OneAccountPerUser'
  BY <1>1, <1>2 DEF IInv, AccountsOK, VerdictsAgree, OneAccountPerUser
<1> QED
  BY <1>4, <1>5, <1>6, <1>7 DEF IInv

LEMMA TouchUserStep ==
    ASSUME IInv, NEW w \in Workers, TouchUser(w)
    PROVE  IInv'
<1> DEFINE t == workers[w]
           e == t.email
<1>1. /\ t.pc = "touch"
      /\ users' = IF t.created THEN Insert(users, t.user, NewUser(e)) ELSE users
      /\ social' = IF t.linked THEN Insert(social, t.identity, t.user) ELSE social
      /\ UNCHANGED <<issued, kycs, catalogue, accounts, restarts>>
  BY DEF TouchUser
<1>2. /\ workers'[w] = Idle /\ Idle.pc = "idle"
      /\ \A v \in Workers \ {w} : workers'[v] = workers[v]
      /\ workers' \in [Workers -> WorkerStates]
  BY IdleTyped DEF TouchUser, Finish, Goto, IInv, TypeOK
<1>3. /\ t \in SignIns /\ SignInOK(w) /\ t.identity \in Identities /\ e \in Emails
      /\ e \in AddressesOf[t.identity] /\ t.user \in Ids /\ t.user \in issued
  <2>1. t \in SignIns /\ SignInOK(w)
    BY <1>1, TaskTyped DEF IInv, TasksOK
  <2> QED
    BY <1>1, <2>1 DEF SignIns, SignInOK
<1>4. /\ DOMAIN users' = IF t.created THEN DOMAIN users \cup {t.user} ELSE DOMAIN users
      /\ t.created => /\ t.user \notin DOMAIN users /\ WithEmail(e) = {}
                      /\ users'[t.user].email = e /\ users'[t.user].kyc = "unverified"
                      /\ users'[t.user].account = NoAccount
      /\ \A v \in DOMAIN users : users'[v] = users[v]
  <2>1. CASE t.created
    <3>1. /\ DOMAIN users' = DOMAIN users \cup {t.user} /\ users'[t.user] = NewUser(e)
          /\ \A v \in DOMAIN users : v # t.user => users'[v] = users[v]
      <4>1. users' = Insert(users, t.user, NewUser(e))
        BY <1>1, <2>1
      <4> QED
        BY <4>1 DEF Insert
    <3>2. t.user \notin DOMAIN users /\ WithEmail(e) = {}
      BY <1>1, <1>3, <2>1 DEF SignInOK
    <3> QED
      BY <1>3, <2>1, <3>1, <3>2, NewUserTyped
  <2>2. CASE ~t.created
    BY <1>1, <2>2
  <2> QED
    BY <2>1, <2>2
<1>5. /\ DOMAIN social' = IF t.linked THEN DOMAIN social \cup {t.identity} ELSE DOMAIN social
      /\ t.linked => /\ t.identity \notin DOMAIN social /\ social'[t.identity] = t.user
                     /\ t.user \in DOMAIN users' /\ users'[t.user].email = e
      /\ \A i \in DOMAIN social : social'[i] = social[i]
  <2>1. CASE t.linked
    <3>1. /\ DOMAIN social' = DOMAIN social \cup {t.identity} /\ social'[t.identity] = t.user
          /\ \A i \in DOMAIN social : i # t.identity => social'[i] = social[i]
      <4>1. social' = Insert(social, t.identity, t.user)
        BY <1>1, <2>1
      <4> QED
        BY <4>1 DEF Insert
    <3>2. /\ t.identity \notin DOMAIN social /\ (t.created \/ t.user \in DOMAIN users)
          /\ t.user \in DOMAIN users => users[t.user].email = e
      BY <1>1, <1>3, <2>1 DEF SignInOK, Linked
    <3>3. t.user \in DOMAIN users' /\ users'[t.user].email = e
      BY <1>4, <3>2
    <3> QED
      BY <2>1, <3>1, <3>2, <3>3
  <2>2. CASE ~t.linked
    BY <1>1, <2>2
  <2> QED
    BY <2>1, <2>2
<1>6. TypeOK'
  <2>1. users' \in Partial(Ids, UserRows)
    BY <1>1, <1>3, InsertTyped, NewUserTyped DEF IInv, TypeOK
  <2>2. social \in Partial(Identities, DOMAIN users')
    BY <1>4, <2>1, WidenUsers DEF IInv
  <2>3. social' \in Partial(Identities, DOMAIN users')
    BY <1>1, <1>3, <1>5, <2>2, InsertTyped
  <2> QED
    BY <1>1, <1>2, <1>3, <1>4, <2>1, <2>3, WidenUsers DEF IInv, TypeOK, catalogue
<1>7. UsersOK'
  <2>1. t.created => \A v \in DOMAIN users : users[v].email # e
    BY <1>4 DEF WithEmail
  <2>2. \A i \in DOMAIN social : social[i] \in DOMAIN users
    BY SocialTyped DEF IInv
  <2>3. \A u, v \in DOMAIN users' : users'[u].email = users'[v].email => u = v
    BY <1>4, <2>1 DEF IInv, UsersOK
  <2>4. \A i \in DOMAIN social' : users'[social'[i]].email \in AddressesOf[i]
    BY <1>3, <1>4, <1>5, <2>2 DEF IInv, UsersOK
  <2>5. \A k \in DOMAIN kycs : kycs[k].user \in DOMAIN users'
    BY <1>4 DEF IInv, UsersOK
  <2> QED
    BY <1>1, <2>3, <2>4, <2>5 DEF UsersOK
<1>8. ASSUME NEW v \in Workers \ {w} PROVE SignInOK(v)'
  <2> DEFINE s == workers[v]
  <2>1. SignInOK(v) /\ Apart(w, v) /\ workers'[v] = s
    BY <1>2 DEF IInv, TasksOK
  <2> SUFFICES ASSUME s.pc \in {"link", "touch"} PROVE SignInOK(v)'
    BY <2>1 DEF SignInOK
  <2>2. /\ t.created /\ s.created => s.email # e
        /\ t.created => s.user # t.user
        /\ t.linked /\ s.linked => s.identity # t.identity
    BY <1>1, <2>1 DEF Apart
  <2>3. \A d : ~(t.created /\ d = e) => WithEmail(d)' = WithEmail(d)
    BY <1>4 DEF WithEmail
  <2>4. s.created => s.user \notin DOMAIN users' /\ WithEmail(s.email)' = {}
    BY <1>4, <2>1, <2>2, <2>3 DEF SignInOK
  <2>5. Linked(s) => Linked(s)'
    BY <1>5, <2>1 DEF Linked
  <2>6. s.user \in DOMAIN users' =>
           s.user \in DOMAIN users /\ (Linked(s)' \/ users'[s.user].email = s.email)
    BY <1>4, <2>1, <2>2, <2>5 DEF SignInOK
  <2>7. s.linked => s.identity \notin DOMAIN social' /\ (s.created \/ s.user \in DOMAIN users')
    BY <1>4, <1>5, <2>1, <2>2 DEF SignInOK
  <2>8. s.pc = "touch" /\ ~s.linked /\ AddressesOf[s.identity] = {s.email} =>
           ~s.created /\ (s.user \in DOMAIN users' => Linked(s)')
    BY <2>1, <2>5, <2>6 DEF SignInOK
  <2> HIDE DEF s
  <2> QED
    BY <1>1, <2>1, <2>4, <2>6, <2>7, <2>8 DEF SignInOK, Linked, s
<1>9. TasksOK'
  <2>1. SignInOK(w)'
    BY <1>2 DEF SignInOK
  <2>2. ASSUME NEW v \in Workers, NEW u \in Workers \ {v} PROVE Apart(v, u)'
    <3>1. CASE v = w \/ u = w
      BY <1>2, <3>1 DEF Apart
    <3>2. CASE v # w /\ u # w
      <4>1. Apart(v, u) /\ workers'[v] = workers[v] /\ workers'[u] = workers[u]
        BY <1>2, <3>2 DEF IInv, TasksOK
      <4> QED
        BY <4>1 DEF Apart
    <3> QED
      BY <3>1, <3>2
  <2>3. \A v \in Workers : /\ workers'[v].pc = "publish" => workers'[v].row \in DOMAIN kycs
                           /\ workers'[v].pc = "record" =>
                                 [key |-> workers'[v].account, user |-> workers'[v].user] \in accounts
    BY <1>2 DEF IInv, TasksOK
  <2> QED
    BY <1>1, <1>8, <2>1, <2>2, <2>3 DEF TasksOK
<1>10. AccountsOK' /\ VerdictsAgree' /\ OneAccountPerUser'
  <2>1. \A u \in DOMAIN users' : u \in DOMAIN users \/ (users'[u].kyc = "unverified" /\ users'[u].account = NoAccount)
    BY <1>4
  <2> QED
    BY <1>1, <1>4, <2>1 DEF IInv, AccountsOK, VerdictsAgree, OneAccountPerUser
<1> QED
  BY <1>6, <1>7, <1>9, <1>10 DEF IInv

-----------------------------------------------------------------------------
(* KYC *)

\* An operation that ends and leaves users and links as they are.
LEMMA FinishTasks ==
    ASSUME IInv, NEW w \in Workers, Finish(w), Quiet
    PROVE  TasksOK' /\ workers' \in [Workers -> WorkerStates]
<1>1. workers' = [workers EXCEPT ![w] = Idle] /\ workers \in [Workers -> WorkerStates]
  BY DEF Finish, Goto, IInv, TypeOK
<1>2. Idle \in WorkerStates
      /\ Idle.pc \notin {"email", "user", "link", "touch", "publish", "record"}
  BY IdleTyped
<1> QED
  BY <1>1, <1>2, PlainTask DEF IInv

LEMMA CheckKYCStep ==
    ASSUME IInv, NEW w \in Workers, NEW u \in Ids, CheckKYC(w, u)
    PROVE  IInv'
<1> DEFINE s == [pc |-> "kyc", user |-> u]
<1>1. s \in WorkerStates /\ s.pc = "kyc"
  BY DEF WorkerStates
<1>2. Goto(w, s) /\ UNCHANGED <<users, issued, social, kycs, catalogue, accounts, restarts>>
  BY DEF CheckKYC
<1> HIDE DEF s
<1> QED
  BY <1>1, <1>2, OnlyPlainTask

LEMMA InsertKYCStep ==
    ASSUME IInv, NEW w \in Workers, NEW k \in KYCs, InsertKYC(w, k)
    PROVE  IInv'
<1> DEFINE u == workers[w].user
           row == [user |-> u, status |-> "pending_review"]
<1>1. /\ workers[w].pc = "kyc" /\ k \notin DOMAIN kycs /\ Finish(w)
      /\ UNCHANGED <<users, issued, social, catalogue, accounts, restarts>>
  BY DEF InsertKYC
<1>2. CASE u \notin DOMAIN users
  BY <1>1, <1>2, FinishKeeps DEF InsertKYC
<1>3. CASE u \in DOMAIN users
  <2>1. kycs' = Insert(kycs, k, row)
    BY <1>3 DEF InsertKYC
  <2>2. row \in KYCRows /\ row.user = u
    BY <1>3, UserTyped DEF KYCRows, IInv
  <2> HIDE DEF row
  <2>3. /\ DOMAIN kycs' = DOMAIN kycs \cup {k} /\ kycs'[k] = row
        /\ \A j \in DOMAIN kycs : kycs'[j] = kycs[j]
    BY <1>1, <2>1 DEF Insert
  <2>4. TasksOK' /\ workers' \in [Workers -> WorkerStates]
    <3>1. Quiet
      BY <1>1, <2>3 DEF Quiet
    <3> QED
      BY <1>1, <3>1, FinishTasks
  <2>5. kycs' \in Partial(KYCs, KYCRows)
    BY <2>1, <2>2, InsertTyped DEF IInv, TypeOK
  <2>6. TypeOK'
    BY <1>1, <2>4, <2>5 DEF IInv, TypeOK, catalogue
  <2>7. UsersOK'
    BY <1>1, <1>3, <2>2, <2>3 DEF IInv, UsersOK
  <2>8. AccountsOK' /\ VerdictsAgree' /\ OneAccountPerUser'
    BY <1>1, <2>3 DEF IInv, AccountsOK, VerdictsAgree, OneAccountPerUser
  <2> QED
    BY <2>4, <2>6, <2>7, <2>8 DEF IInv
<1> QED
  BY <1>2, <1>3

LEMMA ReviewKYCVerificationStep ==
    ASSUME IInv, NEW w \in Workers, NEW k \in KYCs, NEW verdict \in {"verified", "rejected"},
           ReviewKYCVerification(w, k, verdict)
    PROVE  IInv'
<1> DEFINE s == [pc |-> "publish", row |-> k, verdict |-> verdict]
<1>1. s \in WorkerStates /\ s.pc = "publish" /\ s.row = k
  BY DEF WorkerStates
<1>2. /\ Goto(w, s) /\ k \in DOMAIN kycs
      /\ UNCHANGED <<users, issued, social, kycs, catalogue, accounts, restarts>>
  BY DEF ReviewKYCVerification, UpdateKYC
<1> HIDE DEF s
<1> QED
  BY <1>1, <1>2, OnlyPlainTask

LEMMA PublishVerdictStep ==
    ASSUME IInv, NEW w \in Workers, PublishVerdict(w)
    PROVE  IInv'
<1> DEFINE r == workers[w].row
           d == workers[w].verdict
           u == kycs[r].user
           row == [kycs[r] EXCEPT !.status = d]
           user == [users[u] EXCEPT !.kyc = d]
<1>1. /\ workers[w].pc = "publish" /\ Finish(w)
      /\ kycs' = [kycs EXCEPT ![r] = row] /\ users' = [users EXCEPT ![u] = user]
      /\ UNCHANGED <<issued, social, catalogue, accounts, restarts>>
  BY DEF PublishVerdict
<1>2. r \in DOMAIN kycs /\ d \in {"verified", "rejected"}
  BY <1>1, TaskTyped DEF IInv, TasksOK
<1>3. u \in DOMAIN users /\ kycs[r] \in KYCRows /\ users[u] \in UserRows
  BY <1>2, KYCTyped, UserTyped DEF IInv, UsersOK
<1>4. row \in KYCRows /\ row = [user |-> u, status |-> d]
  BY <1>2, <1>3 DEF KYCRows
<1>5. user \in UserRows /\ user.email = users[u].email /\ user.kyc = d
      /\ user.account = users[u].account
  BY <1>2, <1>3 DEF UserRows
<1> HIDE DEF row, user
<1>6. /\ kycs' \in Partial(KYCs, KYCRows) /\ DOMAIN kycs' = DOMAIN kycs
      /\ \A j \in DOMAIN kycs : kycs'[j] = IF j = r THEN row ELSE kycs[j]
  <2>1. kycs \in Partial(KYCs, KYCRows)
    BY DEF IInv, TypeOK
  <2> HIDE DEF r
  <2>2. kycs' = [kycs EXCEPT ![r] = row] /\ r \in DOMAIN kycs /\ row \in KYCRows
    BY <1>1, <1>2, <1>4
  <2>3. /\ [kycs EXCEPT ![r] = row] \in Partial(KYCs, KYCRows)
        /\ DOMAIN [kycs EXCEPT ![r] = row] = DOMAIN kycs
        /\ \A j \in DOMAIN kycs : [kycs EXCEPT ![r] = row][j] = IF j = r THEN row ELSE kycs[j]
    BY <2>1, <2>2, ExceptTyped
  <2> QED
    BY <2>2, <2>3
<1>7. /\ users' \in Partial(Ids, UserRows) /\ DOMAIN users' = DOMAIN users
      /\ \A v \in DOMAIN users : users'[v] = IF v = u THEN user ELSE users[v]
  BY <1>1, <1>3, <1>5, ExceptTyped DEF IInv, TypeOK
<1>8. TasksOK' /\ workers' \in [Workers -> WorkerStates]
  <2>1. Quiet
    BY <1>1, <1>5, <1>6, <1>7 DEF Quiet
  <2> QED
    BY <1>1, <2>1, FinishTasks
<1>9. TypeOK'
  BY <1>1, <1>6, <1>7, <1>8 DEF IInv, TypeOK, catalogue
<1>10. UsersOK'
  <2>1. \A v \in DOMAIN users : users'[v].email = users[v].email
    BY <1>5, <1>7
  <2>2. \A j \in DOMAIN kycs : kycs'[j].user = kycs[j].user
    BY <1>4, <1>6
  <2>3. \A i \in DOMAIN social : social[i] \in DOMAIN users
    BY SocialTyped DEF IInv
  <2> QED
    BY <1>1, <1>6, <1>7, <2>1, <2>2, <2>3 DEF IInv, UsersOK
<1>11. VerdictsAgree'
  <2>1. ASSUME NEW v \in DOMAIN users, users'[v].kyc # "unverified"
        PROVE  \E k \in DOMAIN kycs : kycs'[k] = [user |-> v, status |-> users'[v].kyc]
    <3>1. CASE v = u
      BY <1>2, <1>4, <1>5, <1>6, <1>7, <3>1
    <3>2. CASE v # u
      <4>1. PICK k \in DOMAIN kycs : kycs[k] = [user |-> v, status |-> users[v].kyc]
        BY <1>7, <2>1, <3>2 DEF IInv, VerdictsAgree
      <4>2. k # r
        BY <3>2, <4>1
      <4> QED
        BY <1>6, <1>7, <3>2, <4>1, <4>2
    <3> QED
      BY <3>1, <3>2
  <2> QED
    BY <1>6, <1>7, <2>1 DEF VerdictsAgree
<1>12. AccountsOK' /\ OneAccountPerUser'
  <2>1. \A v \in DOMAIN users : users'[v].account = users[v].account
    BY <1>5, <1>7
  <2> QED
    BY <1>1, <1>7, <2>1 DEF IInv, AccountsOK, OneAccountPerUser
<1> QED
  BY <1>8, <1>9, <1>10, <1>11, <1>12 DEF IInv

-----------------------------------------------------------------------------
(* Payout accounts *)

LEMMA StartOnboardingStep ==
    ASSUME IInv, NEW w \in Workers, NEW u \in Ids, StartOnboarding(w, u)
    PROVE  IInv'
<1> DEFINE s == [pc |-> "ensure", user |-> u]
<1>1. s \in WorkerStates /\ s.pc = "ensure"
  BY DEF WorkerStates
<1>2. Goto(w, s) /\ UNCHANGED <<users, issued, social, kycs, catalogue, accounts, restarts>>
  BY DEF StartOnboarding
<1> HIDE DEF s
<1> QED
  BY <1>1, <1>2, OnlyPlainTask

\* An account made for its user under its key makes no second one.
LEMMA AccountsKept ==
    ASSUME IInv, NEW u \in Ids,
           accounts' \in {accounts, accounts \cup {[key |-> u, user |-> u]}}, users' = users
    PROVE  accounts' \subseteq Accounts /\ AccountsOK' /\ OneAccountPerUser'
<1> DEFINE a == [key |-> u, user |-> u]
<1>1. a \in Accounts /\ a.key = u /\ a.user = u
  BY DEF Accounts
<1>2. accounts' \subseteq Accounts /\ AccountsOK' /\ accounts \subseteq accounts'
  BY <1>1 DEF IInv, TypeOK, AccountsOK
<1>3. ASSUME NEW b \in accounts', NEW c \in accounts', b.user = c.user PROVE b = c
  <2>1. b.key = b.user /\ c.key = c.user /\ b \in Accounts /\ c \in Accounts
    BY <1>2 DEF AccountsOK
  <2> QED
    BY <1>3, <2>1 DEF Accounts
<1>4. \A v \in DOMAIN users' : users'[v].account # NoAccount =>
         [key |-> users'[v].account, user |-> v] \in accounts'
  BY <1>2 DEF IInv, OneAccountPerUser
<1> QED
  BY <1>2, <1>3, <1>4 DEF OneAccountPerUser

LEMMA EnsurePayoutAccountStep ==
    ASSUME IInv, NEW w \in Workers, EnsurePayoutAccount(w)
    PROVE  IInv'
<1> DEFINE u == workers[w].user
           a == [key |-> u, user |-> u]
           s == [pc |-> "record", user |-> u, account |-> u]
<1>1. /\ workers[w].pc = "ensure"
      /\ UNCHANGED <<users, issued, social, kycs, catalogue, restarts>>
      /\ accounts' \in {accounts, accounts \cup {a}}
      /\ (accounts' = accounts \cup {a} /\ Goto(w, s)) \/ Finish(w)
  BY DEF EnsurePayoutAccount, AccountKey
<1>2. u \in Ids
  BY <1>1, TaskTyped DEF IInv
<1>3. accounts' \subseteq Accounts /\ AccountsOK' /\ OneAccountPerUser'
  BY <1>1, <1>2, AccountsKept
<1>4. Quiet
  BY <1>1 DEF Quiet
<1>5. TasksOK' /\ workers' \in [Workers -> WorkerStates]
  <2>1. CASE accounts' = accounts \cup {a} /\ Goto(w, s)
    <3>1. /\ s \in WorkerStates /\ s.pc = "record"
          /\ [key |-> s.account, user |-> s.user] \in accounts'
      BY <1>2, <2>1 DEF WorkerStates
    <3> HIDE DEF s
    <3>2. workers' = [workers EXCEPT ![w] = s] /\ workers \in [Workers -> WorkerStates]
      BY <2>1 DEF Goto, IInv, TypeOK
    <3>3. s.pc \notin {"link", "touch"} /\ s.pc # "publish"
      BY <3>1
    <3>4. TasksOK'
      BY <1>4, <3>1, <3>2, <3>3, PlainTask DEF IInv
    <3> QED
      BY <3>1, <3>2, <3>4
  <2>2. CASE Finish(w)
    BY <1>4, <2>2, FinishTasks
  <2> QED
    BY <1>1, <2>1, <2>2
<1>6. TypeOK'
  BY <1>1, <1>3, <1>5 DEF IInv, TypeOK, catalogue
<1>7. UsersOK' /\ VerdictsAgree'
  BY <1>1 DEF IInv, UsersOK, VerdictsAgree
<1> QED
  BY <1>3, <1>5, <1>6, <1>7 DEF IInv

LEMMA SetUserPayoutAccountStep ==
    ASSUME IInv, NEW w \in Workers, SetUserPayoutAccount(w)
    PROVE  IInv'
<1> DEFINE u == workers[w].user
           c == workers[w].account
           user == [users[u] EXCEPT !.account = c]
<1>1. /\ workers[w].pc = "record" /\ Finish(w)
      /\ users' = IF u \in DOMAIN users THEN [users EXCEPT ![u] = user] ELSE users
      /\ UNCHANGED <<issued, social, kycs, catalogue, accounts, restarts>>
  BY DEF SetUserPayoutAccount
<1>2. CASE u \notin DOMAIN users
  BY <1>1, <1>2, FinishKeeps
<1>3. CASE u \in DOMAIN users
  <2>1. c \in Ids /\ [key |-> c, user |-> u] \in accounts
    BY <1>1, TaskTyped DEF IInv, TasksOK
  <2>2. users[u] \in UserRows
    BY <1>3, UserTyped DEF IInv
  <2>3. user \in UserRows /\ user.email = users[u].email /\ user.kyc = users[u].kyc
        /\ user.account = c
    BY <2>1, <2>2 DEF UserRows
  <2>4. users' = [users EXCEPT ![u] = user]
    BY <1>1, <1>3
  <2> HIDE DEF user
  <2>5. /\ users' \in Partial(Ids, UserRows) /\ DOMAIN users' = DOMAIN users
        /\ \A v \in DOMAIN users : users'[v] = IF v = u THEN user ELSE users[v]
    BY <1>3, <2>3, <2>4, ExceptTyped DEF IInv, TypeOK
  <2>6. TasksOK' /\ workers' \in [Workers -> WorkerStates]
    <3>1. Quiet
      BY <1>1, <2>3, <2>5 DEF Quiet
    <3> QED
      BY <1>1, <3>1, FinishTasks
  <2>7. TypeOK'
    BY <1>1, <2>5, <2>6 DEF IInv, TypeOK, catalogue
  <2>8. /\ \A v \in DOMAIN users : users'[v].email = users[v].email /\ users'[v].kyc = users[v].kyc
        /\ \A i \in DOMAIN social : social[i] \in DOMAIN users
    BY <2>3, <2>5, SocialTyped DEF IInv
  <2>9. UsersOK'
    BY <1>1, <2>5, <2>8 DEF IInv, UsersOK
  <2>10. AccountsOK' /\ VerdictsAgree'
    BY <1>1, <2>5, <2>8 DEF IInv, AccountsOK, VerdictsAgree
  <2>11. OneAccountPerUser'
    BY <1>1, <2>1, <2>3, <2>5 DEF IInv, OneAccountPerUser
  <2> QED
    BY <2>6, <2>7, <2>9, <2>10, <2>11 DEF IInv
<1> QED
  BY <1>2, <1>3

-----------------------------------------------------------------------------
(* Listings, requests, packages and matches *)

\* A step that leaves users, links, cases and accounts as they are.
LEMMA CatalogueStep ==
    ASSUME IInv, UNCHANGED <<users, issued, social, kycs, accounts, restarts>>,
           TasksOK', workers' \in [Workers -> WorkerStates],
           listings' \in Partial(Listings, DOMAIN users),
           requests' \in Partial(Requests, DOMAIN users),
           packages' \in Partial(Packages, PackageRows),
           matches' \subseteq [listing : Listings, request : Requests]
    PROVE  IInv'
<1>1. TypeOK'
  BY DEF IInv, TypeOK
<1>2. UsersOK' /\ AccountsOK' /\ VerdictsAgree' /\ OneAccountPerUser'
  BY DEF IInv, UsersOK, AccountsOK, VerdictsAgree, OneAccountPerUser
<1> QED
  BY <1>1, <1>2 DEF IInv

LEMMA SameTasks ==
    ASSUME IInv, UNCHANGED <<users, issued, social, kycs, accounts, workers>>
    PROVE  TasksOK' /\ workers' \in [Workers -> WorkerStates]
<1>1. TasksOK'
  BY DEF IInv, TasksOK, SignInOK, Linked, Apart, WithEmail
<1> QED
  BY <1>1 DEF IInv, TypeOK

LEMMA CreateTravelerListingStep ==
    ASSUME IInv, NEW l \in Listings, NEW u \in Ids, CreateTravelerListing(l, u)
    PROVE  IInv'
<1>1. listings' \in Partial(Listings, DOMAIN users)
  BY InsertTyped DEF CreateTravelerListing, IInv, TypeOK
<1>2. TasksOK' /\ workers' \in [Workers -> WorkerStates]
  BY SameTasks DEF CreateTravelerListing
<1> QED
  BY <1>1, <1>2, CatalogueStep DEF CreateTravelerListing, IInv, TypeOK

LEMMA CreateDeliveryRequestStep ==
    ASSUME IInv, NEW r \in Requests, NEW u \in Ids, CreateDeliveryRequest(r, u)
    PROVE  IInv'
<1>1. requests' \in Partial(Requests, DOMAIN users)
  BY InsertTyped DEF CreateDeliveryRequest, IInv, TypeOK
<1>2. TasksOK' /\ workers' \in [Workers -> WorkerStates]
  BY SameTasks DEF CreateDeliveryRequest
<1> QED
  BY <1>1, <1>2, CatalogueStep DEF CreateDeliveryRequest, IInv, TypeOK

LEMMA ReviewPackageVerificationStep ==
    ASSUME IInv, NEW p \in Packages, NEW verdict \in {"approved", "rejected", "rejected_high_risk"},
           ReviewPackageVerification(p, verdict)
    PROVE  IInv'
<1> DEFINE row == [packages[p] EXCEPT !.status = verdict]
<1>1. p \in DOMAIN packages /\ packages' = [packages EXCEPT ![p] = row]
      /\ UNCHANGED <<users, issued, social, kycs, listings, requests, matches, accounts, workers,
                     restarts>>
  BY DEF ReviewPackageVerification
<1>2. packages[p] \in PackageRows
  BY <1>1, PartialElim DEF IInv, TypeOK
<1>3. row \in PackageRows
  BY <1>2 DEF PackageRows
<1> HIDE DEF row
<1>4. packages' \in Partial(Packages, PackageRows)
  BY <1>1, <1>3, ExceptTyped DEF IInv, TypeOK
<1>5. TasksOK' /\ workers' \in [Workers -> WorkerStates]
  BY <1>1, SameTasks
<1> QED
  BY <1>1, <1>4, <1>5, CatalogueStep DEF IInv, TypeOK

LEMMA CheckPackageStep ==
    ASSUME IInv, NEW w \in Workers, NEW r \in Requests,
           NEW status \in {"pending_review", "rejected_high_risk"}, CheckPackage(w, r, status)
    PROVE  IInv'
<1> DEFINE s == [pc |-> "package", request |-> r, status |-> status]
<1>1. s \in WorkerStates /\ s.pc = "package"
  BY DEF WorkerStates
<1>2. Goto(w, s) /\ UNCHANGED <<users, issued, social, kycs, catalogue, accounts, restarts>>
  BY DEF CheckPackage
<1> HIDE DEF s
<1> QED
  BY <1>1, <1>2, OnlyPlainTask

LEMMA InsertPackageStep ==
    ASSUME IInv, NEW w \in Workers, NEW p \in Packages, InsertPackage(w, p)
    PROVE  IInv'
<1> DEFINE row == [request |-> workers[w].request, status |-> workers[w].status]
<1>1. /\ workers[w].pc = "package" /\ Finish(w) /\ packages' = Insert(packages, p, row)
      /\ UNCHANGED <<users, issued, social, kycs, listings, requests, matches, accounts, restarts>>
  BY DEF InsertPackage
<1>2. row \in PackageRows
  BY <1>1, TaskTyped DEF IInv, PackageRows
<1> HIDE DEF row
<1>3. packages' \in Partial(Packages, PackageRows)
  BY <1>1, <1>2, InsertTyped DEF IInv, TypeOK
<1>4. TasksOK' /\ workers' \in [Workers -> WorkerStates]
  <2>1. Quiet
    BY <1>1 DEF Quiet
  <2> QED
    BY <1>1, <2>1, FinishTasks
<1> QED
  BY <1>1, <1>3, <1>4, CatalogueStep DEF IInv, TypeOK

LEMMA CheckTravelerStep ==
    ASSUME IInv, NEW w \in Workers, NEW l \in Listings, NEW r \in Requests, CheckTraveler(w, l, r)
    PROVE  IInv'
<1> DEFINE s == [pc |-> "approved", listing |-> l, request |-> r]
<1>1. s \in WorkerStates /\ s.pc = "approved"
  BY DEF WorkerStates
<1>2. Goto(w, s) /\ UNCHANGED <<users, issued, social, kycs, catalogue, accounts, restarts>>
  BY DEF CheckTraveler
<1> HIDE DEF s
<1> QED
  BY <1>1, <1>2, OnlyPlainTask

LEMMA CheckApprovedStep ==
    ASSUME IInv, NEW w \in Workers, CheckApproved(w)
    PROVE  IInv'
<1> DEFINE s == [workers[w] EXCEPT !.pc = "match"]
<1>1. /\ workers[w].pc = "approved" /\ (Goto(w, s) \/ Finish(w))
      /\ UNCHANGED <<users, issued, social, kycs, catalogue, accounts, restarts>>
  BY DEF CheckApproved
<1>2. s \in [pc : {"approved", "match"}, listing : Listings, request : Requests] /\ s.pc = "match"
  BY <1>1, TaskTyped DEF IInv
<1>3. s \in WorkerStates
  BY <1>2 DEF WorkerStates
<1> HIDE DEF s
<1> QED
  BY <1>1, <1>2, <1>3, OnlyPlainTask, FinishKeeps

LEMMA InsertMatchStep ==
    ASSUME IInv, NEW w \in Workers, InsertMatch(w)
    PROVE  IInv'
<1> DEFINE pair == [listing |-> workers[w].listing, request |-> workers[w].request]
<1>1. /\ workers[w].pc = "match" /\ Finish(w) /\ matches' \in {matches, matches \cup {pair}}
      /\ UNCHANGED <<users, issued, social, kycs, listings, requests, packages, accounts, restarts>>
  BY DEF InsertMatch
<1>2. pair \in [listing : Listings, request : Requests]
  BY <1>1, TaskTyped DEF IInv
<1> HIDE DEF pair
<1>3. matches' \subseteq [listing : Listings, request : Requests]
  BY <1>1, <1>2 DEF IInv, TypeOK
<1>4. TasksOK' /\ workers' \in [Workers -> WorkerStates]
  <2>1. Quiet
    BY <1>1 DEF Quiet
  <2> QED
    BY <1>1, <2>1, FinishTasks
<1> QED
  BY <1>1, <1>3, <1>4, CatalogueStep DEF IInv, TypeOK

LEMMA RestartStep ==
    ASSUME IInv, Restart
    PROVE  IInv'
<1>1. /\ workers' = [w \in Workers |-> Idle]
      /\ restarts' = restarts + 1
      /\ UNCHANGED <<users, issued, social, kycs, catalogue, accounts>>
  BY DEF Restart
<1>2. \A w \in Workers : workers'[w].pc = "idle"
  BY <1>1, IdleTyped
<1>3. TasksOK'
  BY <1>2 DEF TasksOK, SignInOK, Apart
<1>4. TypeOK'
  BY <1>1, IdleTyped DEF IInv, TypeOK, catalogue
<1>5. UsersOK' /\ AccountsOK' /\ VerdictsAgree' /\ OneAccountPerUser'
  BY <1>1 DEF IInv, UsersOK, AccountsOK, VerdictsAgree, OneAccountPerUser
<1> QED
  BY <1>3, <1>4, <1>5 DEF IInv

-----------------------------------------------------------------------------
(* The theorems *)

LEMMA InitIInv == Init => IInv
<1> SUFFICES ASSUME Init PROVE IInv
  OBVIOUS
<1>1. \A S, T : <<>> \in Partial(S, T) /\ DOMAIN <<>> = {}
  <2>1. \A S, T : {} \in SUBSET S /\ <<>> \in [{} -> T] /\ DOMAIN <<>> = {}
    OBVIOUS
  <2> QED
    BY <2>1, PartialIntro
<1>2. \A w \in Workers : workers[w].pc = "idle"
  BY IdleTyped DEF Init
<1>3. TypeOK
  BY <1>1, IdleTyped DEF Init, TypeOK
<1>4. TasksOK
  BY <1>2 DEF TasksOK, SignInOK, Apart
<1>5. UsersOK /\ AccountsOK /\ VerdictsAgree /\ OneAccountPerUser
  BY <1>1 DEF Init, UsersOK, AccountsOK, VerdictsAgree, OneAccountPerUser
<1> QED
  BY <1>3, <1>4, <1>5 DEF IInv

LEMMA StepIInv == IInv /\ [Next]_vars => IInv'
<1> SUFFICES ASSUME IInv, [Next]_vars PROVE IInv'
  OBVIOUS
<1>1. CASE UserSteps
  <2>1. CASE \E u \in Ids, e \in Emails : CreateUser(u, e)
    BY <2>1, CreateUserStep
  <2>2. CASE \E u \in Ids : DeleteUserByID(u)
    BY <2>2, DeleteUserByIDStep
  <2>3. ASSUME NEW w \in Workers, NEW i \in Identities, NEW e \in AddressesOf[i],
               SelectLink(w, i, e)
        PROVE IInv'
    BY <2>3, SelectLinkStep
  <2>4. ASSUME NEW w \in Workers,
               SelectEmail(w) \/ InsertUser(w) \/ InsertLink(w) \/ TouchUser(w)
        PROVE IInv'
    BY <2>4, SelectEmailStep, InsertUserStep, InsertLinkStep, TouchUserStep
  <2> QED
    BY <1>1, <2>1, <2>2, <2>3, <2>4 DEF UserSteps
<1>2. CASE KYCSteps
  BY <1>2, CheckKYCStep, InsertKYCStep, ReviewKYCVerificationStep, PublishVerdictStep DEF KYCSteps
<1>3. CASE PayoutSteps
  BY <1>3, StartOnboardingStep, EnsurePayoutAccountStep, SetUserPayoutAccountStep DEF PayoutSteps
<1>4. CASE MatchSteps
  <2>1. CASE \/ \E l \in Listings, u \in Ids : CreateTravelerListing(l, u)
             \/ \E r \in Requests, u \in Ids : CreateDeliveryRequest(r, u)
    BY <2>1, CreateTravelerListingStep, CreateDeliveryRequestStep
  <2>2. CASE \E p \in Packages, verdict \in {"approved", "rejected", "rejected_high_risk"} :
                ReviewPackageVerification(p, verdict)
    BY <2>2, ReviewPackageVerificationStep
  <2>3. ASSUME NEW w \in Workers,
               \/ \E r \in Requests, status \in {"pending_review", "rejected_high_risk"} :
                     CheckPackage(w, r, status)
               \/ \E p \in Packages : InsertPackage(w, p)
               \/ \E l \in Listings, r \in Requests : CheckTraveler(w, l, r)
        PROVE IInv'
    BY <2>3, CheckPackageStep, InsertPackageStep, CheckTravelerStep
  <2>4. ASSUME NEW w \in Workers, CheckApproved(w) \/ InsertMatch(w) PROVE IInv'
    BY <2>4, CheckApprovedStep, InsertMatchStep
  <2> QED
    BY <1>4, <2>1, <2>2, <2>3, <2>4 DEF MatchSteps
<1>5. CASE Restart
  BY <1>5, RestartStep
<1>6. CASE UNCHANGED vars
  <2>1. UNCHANGED <<users, issued, social, kycs, accounts, workers, catalogue, restarts>>
    BY <1>6 DEF vars
  <2>2. TasksOK' /\ workers' \in [Workers -> WorkerStates]
    BY <2>1, SameTasks
  <2> QED
    BY <2>1, <2>2, CatalogueStep DEF IInv, TypeOK, catalogue
<1> QED
  BY <1>1, <1>2, <1>3, <1>4, <1>5, <1>6 DEF Next

\* The rows, the open transactions and the tasks of the goroutines stay
\* consistent: addresses are unique, what a transaction has inserted is nobody
\* else's, links are to users with the address of the identity.
THEOREM IInvCorrect == Spec => []IInv
BY InitIInv, StepIInv, PTL DEF Spec

\* Every variable keeps its type, the foreign keys of the tables included.
THEOREM TypeCorrect == Spec => []TypeOK
<1>1. IInv => TypeOK
  BY DEF IInv
<1> QED
  BY <1>1, IInvCorrect, PTL

\* The verdict on a user's record is that of one of the user's rows.
THEOREM VerdictsAgreeCorrect == Spec => []VerdictsAgree
<1>1. IInv => VerdictsAgree
  BY DEF IInv
<1> QED
  BY <1>1, IInvCorrect, PTL

\* A user has one connected account, and only this one is ever recorded.
THEOREM OneAccountPerUserCorrect == Spec => []OneAccountPerUser
<1>1. IInv => OneAccountPerUser
  BY DEF IInv
<1> QED
  BY <1>1, IInvCorrect, PTL

\* A social sign-in ends without a restart only in the UPDATE of its user's row.
LEMMA OnlyTouchEnds ==
    ASSUME IInv, Next, NEW w \in Workers,
           workers[w].pc = "touch", workers'[w].pc = "idle", restarts' = restarts
    PROVE  TouchUser(w)
<1>1. workers' # workers
  OBVIOUS
<1>2. ASSUME NEW v \in Workers, NEW s, Goto(v, s) PROVE v = w
  BY <1>2 DEF Goto, IInv, TypeOK
<1>3. CASE UserSteps
  <2>1. ASSUME NEW u \in Ids, (\E e \in Emails : CreateUser(u, e)) \/ DeleteUserByID(u) PROVE FALSE
    BY <1>1, <2>1 DEF CreateUser, DeleteUserByID
  <2>2. ASSUME NEW v \in Workers, NEW i \in Identities, NEW e \in AddressesOf[i],
               SelectLink(v, i, e)
        PROVE FALSE
    BY <1>2, <2>2 DEF SelectLink
  <2>3. ASSUME NEW v \in Workers, SelectEmail(v) PROVE FALSE
    BY <1>2, <2>3 DEF SelectEmail, Linkable
  <2>4. ASSUME NEW v \in Workers, InsertUser(v) PROVE FALSE
    BY <1>2, <2>4 DEF InsertUser, Linkable, Finish
  <2>5. ASSUME NEW v \in Workers, InsertLink(v) PROVE FALSE
    BY <1>2, <2>5 DEF InsertLink, Finish
  <2>6. ASSUME NEW v \in Workers, TouchUser(v) PROVE v = w
    BY <1>2, <2>6 DEF TouchUser, Finish
  <2> QED
    BY <1>3, <2>1, <2>2, <2>3, <2>4, <2>5, <2>6 DEF UserSteps
<1>4. CASE KYCSteps
  <2>1. ASSUME NEW v \in Workers, NEW u \in Ids, CheckKYC(v, u) PROVE FALSE
    BY <1>2, <2>1 DEF CheckKYC
  <2>2. ASSUME NEW v \in Workers, NEW k \in KYCs, InsertKYC(v, k) PROVE FALSE
    BY <1>2, <2>2 DEF InsertKYC, Finish
  <2>3. ASSUME NEW v \in Workers, NEW k \in KYCs, NEW d \in {"verified", "rejected"},
               ReviewKYCVerification(v, k, d)
        PROVE FALSE
    BY <1>2, <2>3 DEF ReviewKYCVerification
  <2>4. ASSUME NEW v \in Workers, PublishVerdict(v) PROVE FALSE
    BY <1>2, <2>4 DEF PublishVerdict, Finish
  <2> QED
    BY <1>4, <2>1, <2>2, <2>3, <2>4 DEF KYCSteps
<1>5. CASE PayoutSteps
  <2>1. ASSUME NEW v \in Workers, NEW u \in Ids, StartOnboarding(v, u) PROVE FALSE
    BY <1>2, <2>1 DEF StartOnboarding
  <2>2. ASSUME NEW v \in Workers, EnsurePayoutAccount(v) PROVE FALSE
    BY <1>2, <2>2 DEF EnsurePayoutAccount, Finish
  <2>3. ASSUME NEW v \in Workers, SetUserPayoutAccount(v) PROVE FALSE
    BY <1>2, <2>3 DEF SetUserPayoutAccount, Finish
  <2> QED
    BY <1>5, <2>1, <2>2, <2>3 DEF PayoutSteps
<1>6. CASE MatchSteps
  <2>1. ASSUME \/ \E l \in Listings, u \in Ids : CreateTravelerListing(l, u)
               \/ \E r \in Requests, u \in Ids : CreateDeliveryRequest(r, u)
               \/ \E p \in Packages, verdict \in {"approved", "rejected", "rejected_high_risk"} :
                     ReviewPackageVerification(p, verdict)
        PROVE FALSE
    BY <1>1, <2>1 DEF CreateTravelerListing, CreateDeliveryRequest, ReviewPackageVerification
  <2>2. ASSUME NEW v \in Workers, NEW r \in Requests,
               NEW status \in {"pending_review", "rejected_high_risk"}, CheckPackage(v, r, status)
        PROVE FALSE
    BY <1>2, <2>2 DEF CheckPackage
  <2>3. ASSUME NEW v \in Workers, NEW p \in Packages, InsertPackage(v, p) PROVE FALSE
    BY <1>2, <2>3 DEF InsertPackage, Finish
  <2>4. ASSUME NEW v \in Workers, NEW l \in Listings, NEW r \in Requests, CheckTraveler(v, l, r)
        PROVE FALSE
    BY <1>2, <2>4 DEF CheckTraveler
  <2>5. ASSUME NEW v \in Workers, CheckApproved(v) \/ InsertMatch(v) PROVE FALSE
    BY <1>2, <2>5 DEF CheckApproved, InsertMatch, Finish
  <2> QED
    BY <1>6, <2>1, <2>2, <2>3, <2>4, <2>5 DEF MatchSteps
<1>7. CASE Restart
  BY <1>7 DEF Restart, IInv, TypeOK
<1> QED
  BY <1>3, <1>4, <1>5, <1>6, <1>7 DEF Next

\* A social sign-in that is answered with a user has this user linked to its
\* identity, or at least the user of the address it named, whatever sign-ins,
\* registrations and deletions meet it; always linked if the identity has one
\* address.
THEOREM SignedInAsNamedCorrect == Spec => SignedInAsNamed
<1> DEFINE LinkedNow(t) == t.identity \in DOMAIN social' /\ social'[t.identity] = t.user
           Named(t) == /\ LinkedNow(t) \/ users'[t.user].email = t.email
                       /\ AddressesOf[t.identity] = {t.email} => LinkedNow(t)
           Signed(w) == workers[w].pc = "touch" /\ workers'[w].pc = "idle"
                        /\ restarts' = restarts /\ workers[w].user \in DOMAIN users'
                        => Named(workers[w])
<1>1. ASSUME IInv, Next PROVE \A w \in Workers : Signed(w)
  <2> SUFFICES ASSUME NEW w \in Workers, workers[w].pc = "touch", workers'[w].pc = "idle",
                      restarts' = restarts, workers[w].user \in DOMAIN users'
               PROVE  Named(workers[w])
    OBVIOUS
  <2> DEFINE t == workers[w]
  <2>1. TouchUser(w) /\ SignInOK(w)
    BY <1>1, OnlyTouchEnds DEF IInv, TasksOK
  <2>2. CASE t.linked
    <3>1. social' = Insert(social, t.identity, t.user)
      BY <2>1, <2>2 DEF TouchUser
    <3> QED
      BY <3>1 DEF Insert
  <2>3. CASE ~t.linked /\ t.created
    <3>1. AddressesOf[t.identity] # {t.email}
      BY <2>1, <2>3 DEF SignInOK
    <3>2. t \in SignIns /\ users' = Insert(users, t.user, NewUser(t.email))
      BY <1>1, <2>1, <2>3, TaskTyped DEF TouchUser, IInv
    <3>3. users'[t.user] = NewUser(t.email) /\ t.email \in Emails
      BY <3>2 DEF Insert, SignIns
    <3>4. users'[t.user].email = t.email
      BY <3>3, NewUserTyped
    <3> QED
      BY <3>1, <3>4
  <2>4. CASE ~t.linked /\ ~t.created
    <3>1. social' = social /\ users' = users
      BY <2>1, <2>4 DEF TouchUser
    <3> QED
      BY <2>1, <2>4, <3>1 DEF SignInOK, Linked
  <2> QED
    BY <2>2, <2>3, <2>4
<1>2. IInv /\ [Next]_vars => [\A w \in Workers : Signed(w)]_vars
  BY <1>1
<1> QED
  BY <1>2, IInvCorrect, PTL DEF Spec, SignedInAsNamed

-----------------------------------------------------------------------------
(* The contract of accounts *)

Registered == {[id |-> u, email |-> users[u].email] : u \in DOMAIN users}
Links == {[identity |-> i, id |-> social[i]] : i \in DOMAIN social}
Retired == {u \in issued : u \notin DOMAIN users /\ ~Drawn(u)}

\* A task that has drawn an id for a user that is not committed.
Draws(t, u) == t.pc \in {"link", "touch"} /\ t.created /\ t.user = u

\* What the sets say of the tables.
LEMMA AccountSets ==
    /\ \A u, e : [id |-> u, email |-> e] \in Registered <=> u \in DOMAIN users /\ users[u].email = e
    /\ \A a \in Registered : a.id \in DOMAIN users /\ users[a.id].email = a.email
    /\ \A l \in Links : l.identity \in DOMAIN social /\ social[l.identity] = l.id
<1>1. \A u, e : [id |-> u, email |-> e] \in Registered <=> u \in DOMAIN users /\ users[u].email = e
  BY DEF Registered
<1>2. \A a \in Registered : a.id \in DOMAIN users /\ users[a.id].email = a.email
  BY DEF Registered
<1>3. \A l \in Links : l.identity \in DOMAIN social /\ social[l.identity] = l.id
  BY DEF Links
<1> QED
  BY <1>1, <1>2, <1>3

\* The ids that are drawn change with the task of one goroutine only.
LEMMA DrawnStep ==
    ASSUME TypeOK, NEW w \in Workers, NEW s, Goto(w, s), NEW u, Draws(s, u) <=> Draws(workers[w], u)
    PROVE  Drawn(u)' <=> Drawn(u)
<1>1. \A v \in Workers : workers'[v] = IF v = w THEN s ELSE workers[v]
  BY DEF TypeOK, Goto
<1>2. /\ Drawn(u) <=> \E v \in Workers : Draws(workers[v], u)
      /\ Drawn(u)' <=> \E v \in Workers : Draws(workers'[v], u)
  BY DEF Drawn, Draws
<1>3. \A v \in Workers : Draws(workers'[v], u) <=> Draws(workers[v], u)
  BY <1>1
<1> QED
  BY <1>2, <1>3

\* A step that draws nothing and leaves ids, addresses and links as they are.
LEMMA SameAccounts ==
    ASSUME \A u : Drawn(u)' <=> Drawn(u), issued' = issued, social' = social,
           DOMAIN users' = DOMAIN users, \A u \in DOMAIN users : users'[u].email = users[u].email
    PROVE  UNCHANGED Contract!vars
<1>1. Registered' = Registered /\ Links' = Links
  BY DEF Registered, Links
<1>2. Retired' = Retired
  BY DEF Retired
<1> QED
  BY <1>1, <1>2 DEF Contract!vars, Registered, Links, Retired

\* A task that has drawn nothing is followed by one that has drawn nothing.
LEMMA PlainAccounts ==
    ASSUME TypeOK, NEW w \in Workers, NEW s, Goto(w, s),
           workers[w].pc \notin {"link", "touch"} \/ ~workers[w].created,
           s.pc \notin {"link", "touch"} \/ ~s.created,
           issued' = issued, social' = social,
           DOMAIN users' = DOMAIN users, \A u \in DOMAIN users : users'[u].email = users[u].email
    PROVE  UNCHANGED Contract!vars
<1>1. \A u : ~Draws(s, u) /\ ~Draws(workers[w], u)
  BY DEF Draws
<1>2. \A u : Drawn(u)' <=> Drawn(u)
  BY <1>1, DrawnStep
<1> QED
  BY <1>2, SameAccounts

LEMMA PlainFinish ==
    ASSUME TypeOK, NEW w \in Workers, Finish(w),
           workers[w].pc \notin {"link", "touch"} \/ ~workers[w].created,
           issued' = issued, social' = social,
           DOMAIN users' = DOMAIN users, \A u \in DOMAIN users : users'[u].email = users[u].email
    PROVE  UNCHANGED Contract!vars
BY IdleTyped, PlainAccounts DEF Finish

\* The user of a new row enters.
LEMMA InsertEnters ==
    ASSUME TypeOK, NEW u \in Ids, NEW e \in Emails, u \notin DOMAIN users, WithEmail(e) = {},
           u \notin Retired, users' = Insert(users, u, NewUser(e))
    PROVE  Contract!Enter(u, e)
<1>1. /\ DOMAIN users' = DOMAIN users \cup {u} /\ users'[u].email = e
      /\ \A v \in DOMAIN users : users'[v] = users[v]
  <2>1. /\ DOMAIN users' = DOMAIN users \cup {u} /\ users'[u] = NewUser(e)
        /\ \A v \in DOMAIN users : v # u => users'[v] = users[v]
    BY DEF Insert
  <2> QED
    BY <2>1, NewUserTyped
<1>2. Registered' = Registered \cup {[id |-> u, email |-> e]}
  BY <1>1 DEF Registered
<1>3. \A a \in Registered : a.id # u /\ a.email # e
  BY AccountSets DEF WithEmail
<1> QED
  BY <1>2, <1>3 DEF Contract!Enter, Contract!Registered, Contract!Account, Registered, Retired

LEMMA CreateUserAccounts ==
    ASSUME IInv, NEW u \in Ids, NEW e \in Emails, CreateUser(u, e)
    PROVE  Contract!CreateUser(u, e)
<1>1. /\ u \notin issued /\ WithEmail(e) = {} /\ users' = Insert(users, u, NewUser(e))
      /\ issued' = issued \cup {u} /\ UNCHANGED <<social, workers>>
  BY DEF CreateUser
<1>2. u \notin DOMAIN users /\ DOMAIN users' = DOMAIN users \cup {u}
  BY <1>1, UserTyped, InsertProps DEF IInv
<1>3. Contract!Enter(u, e)
  BY <1>1, <1>2, InsertEnters DEF Retired, IInv
<1>4. Retired' = Retired
  <2>1. \A v : Drawn(v)' <=> Drawn(v)
    BY <1>1 DEF Drawn
  <2> QED
    BY <1>1, <1>2, <2>1 DEF Retired
<1> QED
  BY <1>1, <1>3, <1>4 DEF Contract!CreateUser, Retired

LEMMA DeleteUserAccounts ==
    ASSUME IInv, NEW u \in Ids, DeleteUserByID(u)
    PROVE  Contract!DeleteUserByID(u)
<1>1. /\ u \in DOMAIN users /\ users' = Delete(users, {u}) /\ social' = Delete(social, LinksOf(u))
      /\ UNCHANGED <<issued, workers>>
  BY DEF DeleteUserByID
<1>2. /\ DOMAIN users' = DOMAIN users \ {u}
      /\ \A v \in DOMAIN users \ {u} : users'[v] = users[v]
  BY <1>1, DeleteProps, Zenon
<1>3. /\ DOMAIN social' = {i \in DOMAIN social : social[i] # u}
      /\ \A i \in DOMAIN social' : social'[i] = social[i]
  <2>1. /\ DOMAIN social' = DOMAIN social \ LinksOf(u)
        /\ \A i \in DOMAIN social \ LinksOf(u) : social'[i] = social[i]
    BY <1>1, DeleteProps, Zenon
  <2> QED
    BY <2>1 DEF LinksOf
<1>4. Registered' = {a \in Registered : a.id # u}
  BY <1>2 DEF Registered
<1>5. Links' = {l \in Links : l.id # u}
  BY <1>3 DEF Links
<1>6. Retired' = Retired \cup {u}
  <2>1. \A v : Drawn(v)' <=> Drawn(v)
    BY <1>1 DEF Drawn
  <2>2. ~Drawn(u)
    BY <1>1 DEF Drawn, IInv, TasksOK, SignInOK
  <2>3. u \in issued
    BY <1>1, UserTyped DEF IInv
  <2> QED
    BY <1>1, <1>2, <2>1, <2>2, <2>3 DEF Retired
<1>7. \E a \in Registered : a.id = u
  <2>1. [id |-> u, email |-> users[u].email] \in Registered
    BY <1>1 DEF Registered
  <2> QED
    BY <2>1
<1> QED
  BY <1>4, <1>5, <1>6, <1>7
     DEF Contract!DeleteUserByID, Contract!Registered, Registered, Links, Retired

\* An id is drawn, and no user has it yet: the accounts are as they were.
LEMMA InsertUserAccounts ==
    ASSUME IInv, NEW w \in Workers, InsertUser(w)
    PROVE  UNCHANGED Contract!vars
<1>1. workers[w].pc = "user" /\ UNCHANGED <<users, social>> /\ TypeOK
  BY DEF InsertUser, IInv
<1>2. CASE Finish(w) /\ UNCHANGED issued
  BY <1>1, <1>2, PlainFinish
<1>3. ASSUME NEW u \in Ids \ issued, Linkable(w, u, TRUE), issued' = issued \cup {u}
      PROVE  UNCHANGED Contract!vars
  <2> DEFINE s == [pc |-> "link", identity |-> workers[w].identity, email |-> workers[w].email,
                   user |-> u, created |-> TRUE, linked |-> FALSE]
  <2>1. Goto(w, s)
    BY <1>3 DEF Linkable
  <2>2. workers'[w] = s
    BY <1>1, <2>1 DEF Goto, TypeOK
  <2>3. Drawn(u)'
    BY <2>2 DEF Drawn
  <2>4. \A v : v # u => (Drawn(v)' <=> Drawn(v))
    <3>1. \A v : v # u => ~Draws(s, v) /\ ~Draws(workers[w], v)
      BY <1>1 DEF Draws
    <3> HIDE DEF s
    <3> QED
      BY <1>1, <2>1, <3>1, DrawnStep
  <2>5. u \notin Retired
    BY <1>3 DEF Retired
  <2>6. Retired' = Retired
    BY <1>1, <1>3, <2>3, <2>4, <2>5 DEF Retired
  <2> QED
    BY <1>1, <2>6 DEF Contract!vars, Retired
<1> QED
  BY <1>2, <1>3 DEF InsertUser

LEMMA InsertLinkAccounts ==
    ASSUME IInv, NEW w \in Workers, InsertLink(w)
    PROVE  UNCHANGED Contract!vars
<1> DEFINE t == workers[w]
<1>1. t.pc = "link" /\ t \in SignIns /\ UNCHANGED <<users, issued, social>> /\ TypeOK
  BY TaskTyped DEF InsertLink, IInv
<1>2. CASE ~t.created /\ Finish(w)
  BY <1>1, <1>2, PlainFinish
<1>3. ASSUME NEW s, s = [t EXCEPT !.pc = "touch"] \/ s = [t EXCEPT !.pc = "touch", !.linked = TRUE],
             Goto(w, s)
      PROVE  UNCHANGED Contract!vars
  <2>1. s.pc = "touch" /\ s.created = t.created /\ s.user = t.user
    BY <1>1, <1>3 DEF SignIns
  <2>2. \A u : Draws(s, u) <=> Draws(t, u)
    BY <1>1, <2>1 DEF Draws
  <2>3. \A u : Drawn(u)' <=> Drawn(u)
    BY <1>1, <1>3, <2>2, DrawnStep
  <2> QED
    BY <1>1, <2>3, SameAccounts
<1> QED
  BY <1>2, <1>3 DEF InsertLink

\* The COMMIT: what the transaction has inserted comes about at once.  A user whose
\* link another sign-in has overtaken comes about like a registered one.
LEMMA TouchUserAccounts ==
    ASSUME IInv, NEW w \in Workers, TouchUser(w)
    PROVE  \/ UNCHANGED Contract!vars
           \/ \E u \in Ids, e \in Emails :
                \/ Contract!CreateUser(u, e)
                \/ \E i \in Identities : Contract!SocialLogin(i, u, e)
<1>0. PICK t \in SignIns, e \in Emails : t = workers[w] /\ e = t.email
  <2>1. workers[w] \in SignIns
    BY TaskTyped DEF IInv, TouchUser
  <2> QED
    BY <2>1 DEF SignIns
<1>1. /\ t.pc = "touch" /\ Finish(w) /\ issued' = issued
      /\ users' = IF t.created THEN Insert(users, t.user, NewUser(e)) ELSE users
      /\ social' = IF t.linked THEN Insert(social, t.identity, t.user) ELSE social
  BY <1>0 DEF TouchUser
<1>2. /\ SignInOK(w) /\ TypeOK /\ t.identity \in Identities /\ t.user \in Ids
      /\ t.user \in issued
  <2>1. SignInOK(w) /\ TypeOK
    BY DEF IInv, TasksOK
  <2> QED
    BY <1>0, <1>1, <2>1 DEF SignIns, SignInOK
<1>3. \A u : u # t.user => (Drawn(u)' <=> Drawn(u))
  <2>1. \A u : u # t.user => ~Draws(t, u) /\ ~Draws(Idle, u)
    BY IdleTyped DEF Draws
  <2> QED
    BY <1>0, <1>1, <1>2, <2>1, DrawnStep DEF Finish
<1>4. ASSUME t.created
      PROVE  Contract!Enter(t.user, e) /\ Retired' = Retired
  <2>1. t.user \notin DOMAIN users /\ WithEmail(e) = {} /\ Drawn(t.user)
    BY <1>0, <1>1, <1>2, <1>4 DEF SignInOK, Drawn
  <2>2. users' = Insert(users, t.user, NewUser(e)) /\ t.user \notin Retired
    BY <1>1, <1>4, <2>1 DEF Retired
  <2>3. Contract!Enter(t.user, e)
    BY <1>2, <2>1, <2>2, InsertEnters
  <2>4. DOMAIN users' = DOMAIN users \cup {t.user}
    BY <2>2 DEF Insert
  <2>5. Retired' = Retired
    BY <1>1, <1>3, <2>1, <2>4 DEF Retired
  <2> QED
    BY <2>3, <2>5
<1>5. CASE ~t.linked /\ ~t.created
  BY <1>0, <1>1, <1>2, <1>5, PlainFinish
<1>6. CASE ~t.linked /\ t.created
  <2>1. social' = social
    BY <1>1, <1>6
  <2>2. Contract!CreateUser(t.user, e)
    BY <1>4, <1>6, <2>1 DEF Contract!CreateUser, Retired
  <2> QED
    BY <1>2, <2>2
<1>7. CASE t.linked
  <2>1. t.identity \notin DOMAIN social
    BY <1>0, <1>1, <1>2, <1>7 DEF SignInOK
  <2>2. Links' = Links \cup {[identity |-> t.identity, id |-> t.user]}
    <3>1. social' = Insert(social, t.identity, t.user)
      BY <1>1, <1>7
    <3>2. /\ DOMAIN social' = DOMAIN social \cup {t.identity} /\ social'[t.identity] = t.user
          /\ \A i \in DOMAIN social : i # t.identity => social'[i] = social[i]
      BY <3>1 DEF Insert
    <3> QED
      BY <2>1, <3>2 DEF Links
  <2>3. \A l \in Links : l.identity # t.identity
    BY <2>1, AccountSets
  <2>4. CASE t.created
    <3>1. Contract!SocialLogin(t.identity, t.user, e)
      BY <1>4, <2>2, <2>3, <2>4 DEF Contract!SocialLogin, Links, Retired
    <3> QED
      BY <1>2, <3>1
  <2>5. CASE ~t.created
    <3>1. /\ users' = users /\ t.user \in DOMAIN users /\ users[t.user].email = e
      BY <1>0, <1>1, <1>2, <1>7, <2>1, <2>5 DEF SignInOK, Linked
    <3>2. [id |-> t.user, email |-> e] \in Registered /\ Registered' = Registered
      BY <3>1 DEF Registered
    <3>3. Retired' = Retired
      BY <1>1, <1>3, <3>1 DEF Retired
    <3>4. Contract!SocialLogin(t.identity, t.user, e)
      BY <2>2, <2>3, <3>2, <3>3
         DEF Contract!SocialLogin, Contract!Account, Registered, Links, Retired
    <3> QED
      BY <1>2, <3>4
  <2> QED
    BY <2>4, <2>5
<1> QED
  BY <1>5, <1>6, <1>7

LEMMA SelectAccounts ==
    ASSUME IInv, NEW w \in Workers,
           SelectEmail(w) \/ \E i \in Identities : \E e \in AddressesOf[i] : SelectLink(w, i, e)
    PROVE  UNCHANGED Contract!vars
<1>1. /\ workers[w].pc \in {"idle", "email"} /\ UNCHANGED <<users, issued, social>> /\ TypeOK
  BY DEF SelectEmail, SelectLink, IInv
<1>2. ASSUME NEW s, Goto(w, s), s.pc \notin {"link", "touch"} \/ ~s.created
      PROVE  UNCHANGED Contract!vars
  BY <1>1, <1>2, PlainAccounts
<1>3. CASE \E i \in Identities : \E e \in AddressesOf[i] : SelectLink(w, i, e)
  BY <1>2, <1>3 DEF SelectLink
<1>4. CASE SelectEmail(w)
  <2>1. ASSUME NEW u, Linkable(w, u, FALSE) PROVE UNCHANGED Contract!vars
    BY <1>2, <2>1 DEF Linkable
  <2>2. CASE Goto(w, [workers[w] EXCEPT !.pc = "user"])
    <3>1. [workers[w] EXCEPT !.pc = "user"].pc = "user"
      BY <1>4, TaskTyped DEF SelectEmail, IInv
    <3> QED
      BY <1>2, <2>2, <3>1
  <2> QED
    BY <1>4, <2>1, <2>2 DEF SelectEmail
<1> QED
  BY <1>3, <1>4

\* The verdict and the payout account are no part of the contract.
LEMMA OtherAccounts ==
    ASSUME IInv, KYCSteps \/ PayoutSteps \/ MatchSteps
    PROVE  UNCHANGED Contract!vars
<1>1. TypeOK
  BY DEF IInv
<1>2. ASSUME NEW w \in Workers, NEW s, Goto(w, s), workers[w].pc \notin {"link", "touch"},
             s.pc \notin {"link", "touch"}, UNCHANGED <<users, issued, social>>
      PROVE  UNCHANGED Contract!vars
  BY <1>1, <1>2, PlainAccounts
<1>3. ASSUME NEW w \in Workers, Finish(w), workers[w].pc \notin {"link", "touch"},
             UNCHANGED <<users, issued, social>>
      PROVE  UNCHANGED Contract!vars
  BY <1>1, <1>3, PlainFinish
<1>4. CASE KYCSteps
  <2>1. ASSUME NEW w \in Workers, NEW u \in Ids, CheckKYC(w, u) PROVE UNCHANGED Contract!vars
    BY <1>2, <2>1 DEF CheckKYC
  <2>2. ASSUME NEW w \in Workers, NEW k \in KYCs, InsertKYC(w, k) PROVE UNCHANGED Contract!vars
    BY <1>3, <2>2 DEF InsertKYC
  <2>3. ASSUME NEW w \in Workers, NEW k \in KYCs, NEW d \in {"verified", "rejected"},
               ReviewKYCVerification(w, k, d)
        PROVE UNCHANGED Contract!vars
    BY <1>2, <2>3 DEF ReviewKYCVerification
  <2>4. ASSUME NEW w \in Workers, PublishVerdict(w) PROVE UNCHANGED Contract!vars
    <3>1. workers[w].pc = "publish" /\ Finish(w) /\ UNCHANGED <<issued, social>>
      BY <2>4 DEF PublishVerdict
    <3>2. DOMAIN users' = DOMAIN users /\ \A u \in DOMAIN users : users'[u].email = users[u].email
      <4>1. \A u \in DOMAIN users : users[u] \in UserRows
        BY <1>1, UserTyped
      <4>2. users' = [users EXCEPT ![kycs[workers[w].row].user] =
                          [@ EXCEPT !.kyc = workers[w].verdict]]
        BY <2>4 DEF PublishVerdict
      <4> QED
        BY <4>1, <4>2 DEF UserRows
    <3> QED
      BY <1>1, <3>1, <3>2, PlainFinish
  <2> QED
    BY <1>4, <2>1, <2>2, <2>3, <2>4 DEF KYCSteps
<1>5. CASE PayoutSteps
  <2>1. ASSUME NEW w \in Workers, NEW u \in Ids, StartOnboarding(w, u) PROVE UNCHANGED Contract!vars
    BY <1>2, <2>1 DEF StartOnboarding
  <2>2. ASSUME NEW w \in Workers, EnsurePayoutAccount(w) PROVE UNCHANGED Contract!vars
    BY <1>2, <1>3, <2>2 DEF EnsurePayoutAccount
  <2>3. ASSUME NEW w \in Workers, SetUserPayoutAccount(w) PROVE UNCHANGED Contract!vars
    <3>1. workers[w].pc = "record" /\ Finish(w) /\ UNCHANGED <<issued, social>>
      BY <2>3 DEF SetUserPayoutAccount
    <3>2. DOMAIN users' = DOMAIN users /\ \A u \in DOMAIN users : users'[u].email = users[u].email
      <4>1. \A u \in DOMAIN users : users[u] \in UserRows
        BY <1>1, UserTyped
      <4>2. users' = users \/ users' = [users EXCEPT ![workers[w].user] =
                                            [@ EXCEPT !.account = workers[w].account]]
        BY <2>3 DEF SetUserPayoutAccount
      <4> QED
        BY <4>1, <4>2 DEF UserRows
    <3> QED
      BY <1>1, <3>1, <3>2, PlainFinish
  <2> QED
    BY <1>5, <2>1, <2>2, <2>3 DEF PayoutSteps
<1>6. CASE MatchSteps
  <2>1. ASSUME \/ \E l \in Listings, u \in Ids : CreateTravelerListing(l, u)
               \/ \E r \in Requests, u \in Ids : CreateDeliveryRequest(r, u)
               \/ \E p \in Packages, verdict \in {"approved", "rejected", "rejected_high_risk"} :
                     ReviewPackageVerification(p, verdict)
        PROVE UNCHANGED Contract!vars
    <3>1. UNCHANGED <<users, issued, social, workers>>
      BY <2>1 DEF CreateTravelerListing, CreateDeliveryRequest, ReviewPackageVerification
    <3> QED
      BY <3>1 DEF Contract!vars, Drawn
  <2>2. ASSUME NEW w \in Workers, NEW r \in Requests,
               NEW status \in {"pending_review", "rejected_high_risk"}, CheckPackage(w, r, status)
        PROVE UNCHANGED Contract!vars
    BY <1>2, <2>2 DEF CheckPackage
  <2>3. ASSUME NEW w \in Workers, NEW p \in Packages, InsertPackage(w, p)
        PROVE UNCHANGED Contract!vars
    BY <1>3, <2>3 DEF InsertPackage
  <2>4. ASSUME NEW w \in Workers, NEW l \in Listings, NEW r \in Requests, CheckTraveler(w, l, r)
        PROVE UNCHANGED Contract!vars
    BY <1>2, <2>4 DEF CheckTraveler
  <2>5. ASSUME NEW w \in Workers, CheckApproved(w) PROVE UNCHANGED Contract!vars
    <3>1. [workers[w] EXCEPT !.pc = "match"].pc = "match"
      BY <1>1, <2>5, TaskTyped DEF CheckApproved
    <3> QED
      BY <1>2, <1>3, <2>5, <3>1 DEF CheckApproved
  <2>6. ASSUME NEW w \in Workers, InsertMatch(w) PROVE UNCHANGED Contract!vars
    BY <1>3, <2>6 DEF InsertMatch
  <2> QED
    BY <1>6, <2>1, <2>2, <2>3, <2>4, <2>5, <2>6 DEF MatchSteps
<1> QED
  BY <1>4, <1>5, <1>6

\* A restart loses the ids that open transactions have drawn.
LEMMA RestartAccounts ==
    ASSUME IInv, Restart
    PROVE  \E ids \in SUBSET Ids : Contract!Waste(ids)
<1>1. UNCHANGED <<users, issued, social>> /\ issued \subseteq Ids
  BY DEF Restart, IInv, TypeOK
<1>0. PICK lost \in SUBSET Ids : lost = {u \in issued : u \notin DOMAIN users /\ Drawn(u)}
  BY <1>1
<1>2. \A u : ~Drawn(u)'
  BY IdleTyped DEF Restart, Drawn
<1>3. Retired' = Retired \cup lost
  BY <1>0, <1>1, <1>2 DEF Retired
<1>4. \A u \in lost : \A a \in Registered : a.id # u
  BY <1>0, AccountSets
<1>5. Contract!Waste(lost)
  BY <1>1, <1>3, <1>4 DEF Contract!Waste, Contract!Registered, Registered, Retired
<1> QED
  BY <1>5

LEMMA AccountsStep == IInv /\ [Next]_vars => [Contract!Next]_(Contract!vars)
<1> SUFFICES ASSUME IInv, [Next]_vars PROVE [Contract!Next]_(Contract!vars)
  OBVIOUS
<1>1. CASE UserSteps
  <2>1. ASSUME NEW u \in Ids, NEW e \in Emails, CreateUser(u, e)
        PROVE [Contract!Next]_(Contract!vars)
    BY <2>1, CreateUserAccounts DEF Contract!Next
  <2>2. ASSUME NEW u \in Ids, DeleteUserByID(u) PROVE [Contract!Next]_(Contract!vars)
    BY <2>2, DeleteUserAccounts DEF Contract!Next
  <2>3. ASSUME NEW w \in Workers,
               \/ SelectEmail(w) \/ InsertUser(w) \/ InsertLink(w) \/ TouchUser(w)
               \/ \E i \in Identities : \E e \in AddressesOf[i] : SelectLink(w, i, e)
        PROVE [Contract!Next]_(Contract!vars)
    <3>1. CASE TouchUser(w)
      <4>1. CASE UNCHANGED Contract!vars
        BY <4>1
      <4>2. CASE \E u \in Ids, e \in Emails :
                    \/ Contract!CreateUser(u, e)
                    \/ \E i \in Identities : Contract!SocialLogin(i, u, e)
        BY <4>2 DEF Contract!Next
      <4> QED
        BY <3>1, <4>1, <4>2, TouchUserAccounts
    <3>2. CASE ~TouchUser(w)
      BY <2>3, <3>2, SelectAccounts, InsertUserAccounts, InsertLinkAccounts
    <3> QED
      BY <3>1, <3>2
  <2> QED
    BY <1>1, <2>1, <2>2, <2>3 DEF UserSteps
<1>2. CASE KYCSteps \/ PayoutSteps \/ MatchSteps
  BY <1>2, OtherAccounts
<1>3. CASE Restart
  BY <1>3, RestartAccounts DEF Contract!Next
<1>4. CASE UNCHANGED vars
  BY <1>4 DEF vars, Contract!vars, Drawn
<1> QED
  BY <1>1, <1>2, <1>3, <1>4 DEF Next

\* The tables keep the contract of accounts: the statements of a social sign-in,
\* whatever runs between them and whichever restart cuts them off, come to one
\* step of the contract at the COMMIT or to none.
THEOREM PostgresKeepsAccounts == Spec => KeepsAccounts
<1>1. Init => Contract!Init
  BY DEF Init, Contract!Init
<1> QED
  BY <1>1, AccountsStep, IInvCorrect, PTL DEF Spec, KeepsAccounts, Contract!Spec

-----------------------------------------------------------------------------
(* The contract of identity checks *)

CasesHeld == {[id |-> k, user |-> kycs[k].user, status |-> kycs[k].status] : k \in DOMAIN kycs}
Records == {[user |-> u, verdict |-> users[u].kyc] : u \in DOMAIN users}

LEMMA SameVerdicts ==
    ASSUME kycs' = kycs, DOMAIN users' = DOMAIN users,
           \A u \in DOMAIN users : users'[u].kyc = users[u].kyc
    PROVE  UNCHANGED Vetting!vars
<1>1. Records' = Records
  BY DEF Records
<1> QED
  BY <1>1 DEF Vetting!vars, Records

LEMMA InsertJoins ==
    ASSUME NEW u \in Ids, NEW e \in Emails, u \notin DOMAIN users,
           users' = Insert(users, u, NewUser(e)), kycs' = kycs
    PROVE  Vetting!Join(u)
<1>1. /\ DOMAIN users' = DOMAIN users \cup {u} /\ users'[u].kyc = "unverified"
      /\ \A v \in DOMAIN users : users'[v] = users[v]
  <2>1. /\ DOMAIN users' = DOMAIN users \cup {u} /\ users'[u] = NewUser(e)
        /\ \A v \in DOMAIN users : v # u => users'[v] = users[v]
    BY DEF Insert
  <2> QED
    BY <2>1, NewUserTyped
<1>2. Records' = Records \cup {[user |-> u, verdict |-> "unverified"]}
  BY <1>1 DEF Records
<1>3. \A s \in Records : s.user # u
  BY DEF Records
<1> QED
  BY <1>2, <1>3 DEF Vetting!Join, Vetting!Standing, Records

LEMMA UserStepsKeepVerdicts ==
    ASSUME IInv, UserSteps
    PROVE  \/ UNCHANGED Vetting!vars
           \/ \E u \in Ids : Vetting!Join(u) \/ Vetting!Leave(u)
<1>1. ASSUME NEW u \in Ids, NEW e \in Emails, CreateUser(u, e) PROVE Vetting!Join(u)
  <2>1. u \notin DOMAIN users /\ users' = Insert(users, u, NewUser(e)) /\ kycs' = kycs
    BY <1>1, UserTyped DEF CreateUser, IInv
  <2> QED
    BY <2>1, InsertJoins
<1>2. ASSUME NEW u \in Ids, DeleteUserByID(u) PROVE Vetting!Leave(u)
  <2>1. /\ DOMAIN users' = DOMAIN users \ {u} /\ kycs' = kycs
        /\ \A v \in DOMAIN users \ {u} : users'[v] = users[v]
    <3>1. users' = Delete(users, {u}) /\ kycs' = kycs
      BY <1>2 DEF DeleteUserByID
    <3> QED
      BY <3>1, DeleteProps, Zenon
  <2>2. Records' = {s \in Records : s.user # u}
    BY <2>1 DEF Records
  <2> QED
    BY <2>1, <2>2 DEF Vetting!Leave, Records
<1>3. ASSUME NEW w \in Workers,
             \/ SelectEmail(w) \/ InsertUser(w) \/ InsertLink(w)
             \/ \E i \in Identities : \E e \in AddressesOf[i] : SelectLink(w, i, e)
      PROVE  UNCHANGED Vetting!vars
  <2>1. UNCHANGED <<users, kycs>>
    BY <1>3 DEF SelectEmail, InsertUser, InsertLink, SelectLink
  <2> QED
    BY <2>1, SameVerdicts
<1>4. ASSUME NEW w \in Workers, TouchUser(w)
      PROVE  UNCHANGED Vetting!vars \/ \E u \in Ids : Vetting!Join(u)
  <2>1. PICK t \in SignIns, e \in Emails : t = workers[w] /\ e = t.email
    <3>1. workers[w] \in SignIns
      BY <1>4, TaskTyped DEF IInv, TouchUser
    <3> QED
      BY <3>1 DEF SignIns
  <2>2. kycs' = kycs /\ t.pc = "touch" /\ SignInOK(w) /\ t.user \in Ids
    BY <1>4, <2>1 DEF TouchUser, IInv, TasksOK, SignIns
  <2>3. CASE t.created
    <3>1. t.user \notin DOMAIN users /\ users' = Insert(users, t.user, NewUser(e))
      BY <1>4, <2>1, <2>2, <2>3 DEF TouchUser, SignInOK
    <3> QED
      BY <2>2, <3>1, InsertJoins
  <2>4. CASE ~t.created
    <3>1. users' = users
      BY <1>4, <2>1, <2>4 DEF TouchUser
    <3> QED
      BY <2>2, <3>1, SameVerdicts
  <2> QED
    BY <2>3, <2>4
<1> QED
  BY <1>1, <1>2, <1>3, <1>4 DEF UserSteps

LEMMA InsertKYCKeepsVerdicts ==
    ASSUME IInv, NEW w \in Workers, NEW k \in KYCs, InsertKYC(w, k)
    PROVE  UNCHANGED Vetting!vars \/ \E u \in Ids : Vetting!Submit(k, u)
<1>1. PICK u \in Ids : u = workers[w].user
  BY TaskTyped DEF InsertKYC, IInv
<1>2. k \notin DOMAIN kycs /\ UNCHANGED users
  BY DEF InsertKYC
<1>3. CASE u \in DOMAIN users
  <2> DEFINE row == [user |-> u, status |-> "pending_review"]
  <2>1. kycs' = Insert(kycs, k, row)
    BY <1>1, <1>3 DEF InsertKYC
  <2>2. /\ DOMAIN kycs' = DOMAIN kycs \cup {k} /\ kycs'[k] = row
        /\ \A j \in DOMAIN kycs : j # k => kycs'[j] = kycs[j]
    BY <2>1 DEF Insert
  <2>3. CasesHeld' = CasesHeld \cup {[id |-> k, user |-> u, status |-> "pending_review"]}
    BY <1>2, <2>2 DEF CasesHeld
  <2>4. \A c \in CasesHeld : c.id # k
    BY <1>2 DEF CasesHeld
  <2>5. Vetting!Submit(k, u)
    BY <1>2, <2>3, <2>4 DEF Vetting!Submit, Vetting!Case, CasesHeld
  <2> QED
    BY <2>5
<1>4. CASE u \notin DOMAIN users
  BY <1>1, <1>2, <1>4, SameVerdicts DEF InsertKYC
<1> QED
  BY <1>3, <1>4

\* The COMMIT of a review writes the case and the record of its owner.
LEMMA PublishKeepsVerdicts ==
    ASSUME IInv, NEW w \in Workers, PublishVerdict(w)
    PROVE  \E c \in CasesHeld, verdict \in {"verified", "rejected"} : Vetting!Review(c, verdict)
<1>1. PICK k \in KYCs, v \in {"verified", "rejected"} :
          k = workers[w].row /\ v = workers[w].verdict
  BY TaskTyped DEF PublishVerdict, IInv
<1>2. k \in DOMAIN kycs
  BY <1>1 DEF PublishVerdict, IInv, TasksOK
<1>3. PICK owner \in DOMAIN users : owner = kycs[k].user
  BY <1>2 DEF IInv, UsersOK
<1>4. PICK c \in CasesHeld : c = [id |-> k, user |-> owner, status |-> kycs[k].status]
  BY <1>2, <1>3 DEF CasesHeld
<1>5. kycs' = [kycs EXCEPT ![k].status = v] /\ users' = [users EXCEPT ![owner].kyc = v]
  BY <1>1, <1>3 DEF PublishVerdict
<1>6. /\ DOMAIN kycs' = DOMAIN kycs /\ kycs'[k].user = owner /\ kycs'[k].status = v
      /\ \A i \in DOMAIN kycs \ {k} : kycs'[i] = kycs[i]
  <2>1. kycs[k] \in KYCRows
    BY <1>2, KYCTyped DEF IInv
  <2> QED
    BY <1>2, <1>3, <1>5, <2>1 DEF KYCRows
<1>7. /\ DOMAIN users' = DOMAIN users
      /\ \A u \in DOMAIN users : users'[u].kyc = IF u = owner THEN v ELSE users[u].kyc
  <2>1. users[owner] \in UserRows
    BY UserTyped DEF IInv
  <2> QED
    BY <1>5, <2>1 DEF UserRows
<1>8. CasesHeld' = (CasesHeld \ {c}) \cup {[id |-> k, user |-> owner, status |-> v]}
  <2>1. ASSUME NEW i \in DOMAIN kycs, i # k
        PROVE [id |-> i, user |-> kycs'[i].user, status |-> kycs'[i].status]
                  = [id |-> i, user |-> kycs[i].user, status |-> kycs[i].status]
    BY <1>6, <2>1
  <2>2. \A d \in CasesHeld : d # c <=> d.id # k
    BY <1>3, <1>4 DEF CasesHeld
  <2> QED
    BY <1>2, <1>4, <1>6, <2>1, <2>2 DEF CasesHeld
<1>9. Records' = {IF s.user = owner THEN [user |-> s.user, verdict |-> v] ELSE s : s \in Records}
  <2> DEFINE Changed(s) == IF s.user = owner THEN [user |-> s.user, verdict |-> v] ELSE s
  <2>1. \A u \in DOMAIN users :
            [user |-> u, verdict |-> users'[u].kyc] = Changed([user |-> u, verdict |-> users[u].kyc])
    BY <1>7
  <2>2. Records' = {Changed([user |-> u, verdict |-> users[u].kyc]) : u \in DOMAIN users}
    BY <1>7, <2>1 DEF Records
  <2> HIDE DEF Changed
  <2>3. Records' = {Changed(s) : s \in Records}
    BY <2>2 DEF Records
  <2> QED
    BY <2>3 DEF Changed
<1>10. Vetting!Review(c, v)
  <2>1. c.id = k /\ c.user = owner
    BY <1>4
  <2> QED
    BY <1>8, <1>9, <2>1
       DEF Vetting!Review, Vetting!Case, Vetting!Standing, CasesHeld, Records
<1> QED
  BY <1>10

LEMMA PayoutKeepsVerdicts ==
    ASSUME IInv, PayoutSteps
    PROVE  UNCHANGED Vetting!vars
<1>1. kycs' = kycs
  BY DEF PayoutSteps, StartOnboarding, EnsurePayoutAccount, SetUserPayoutAccount
<1>2. \/ users' = users
      \/ \E u, a : users' = [users EXCEPT ![u] = [@ EXCEPT !.account = a]]
  BY DEF PayoutSteps, StartOnboarding, EnsurePayoutAccount, SetUserPayoutAccount
<1>3. \A u \in DOMAIN users : users[u] \in UserRows
  BY UserTyped DEF IInv
<1>4. DOMAIN users' = DOMAIN users /\ \A u \in DOMAIN users : users'[u].kyc = users[u].kyc
  BY <1>2, <1>3 DEF UserRows
<1> QED
  BY <1>1, <1>4, SameVerdicts

LEMMA VettingStep == IInv /\ [Next]_vars => [Vetting!Next]_(Vetting!vars)
<1> SUFFICES ASSUME IInv, [Next]_vars PROVE [Vetting!Next]_(Vetting!vars)
  OBVIOUS
<1>1. CASE UserSteps
  BY <1>1, UserStepsKeepVerdicts DEF Vetting!Next
<1>2. CASE KYCSteps
  <2>1. ASSUME NEW w \in Workers, NEW k \in KYCs, InsertKYC(w, k)
        PROVE [Vetting!Next]_(Vetting!vars)
    BY <2>1, InsertKYCKeepsVerdicts DEF Vetting!Next
  <2>2. ASSUME NEW w \in Workers, PublishVerdict(w) PROVE [Vetting!Next]_(Vetting!vars)
    BY <2>2, PublishKeepsVerdicts DEF Vetting!Next, Vetting!Verdicts, CasesHeld
  <2>3. ASSUME NEW w \in Workers,
               \/ \E u \in Ids : CheckKYC(w, u)
               \/ \E k \in KYCs, d \in {"verified", "rejected"} : ReviewKYCVerification(w, k, d)
        PROVE UNCHANGED Vetting!vars
    <3>1. UNCHANGED <<users, kycs>>
      BY <2>3 DEF CheckKYC, ReviewKYCVerification, UpdateKYC
    <3> QED
      BY <3>1, SameVerdicts
  <2> QED
    BY <1>2, <2>1, <2>2, <2>3 DEF KYCSteps
<1>3. CASE PayoutSteps
  BY <1>3, PayoutKeepsVerdicts
<1>4. CASE MatchSteps \/ Restart \/ UNCHANGED vars
  <2>1. UNCHANGED <<users, kycs>>
    BY <1>4 DEF MatchSteps, CreateTravelerListing, CreateDeliveryRequest,
                ReviewPackageVerification, CheckPackage, InsertPackage, CheckTraveler,
                CheckApproved, InsertMatch, Restart, vars
  <2> QED
    BY <2>1, SameVerdicts
<1> QED
  BY <1>1, <1>2, <1>3, <1>4 DEF Next

\* The tables keep the contract of identity checks: a review is two statements, and
\* what others see of it is one step, or none when a restart comes between them.
THEOREM PostgresKeepsVerdicts == Spec => KeepsVerdicts
<1>1. Init => Vetting!Init
  BY DEF Init, Vetting!Init
<1> QED
  BY <1>1, VettingStep, IInvCorrect, PTL DEF Spec, KeepsVerdicts, Vetting!Spec

=============================================================================
