--------------------------- MODULE Gateway_proofs ---------------------------
(***************************************************************************)
(* Proofs about Gateway, for any limit, window, lifetimes and numbers of   *)
(* users, requests and restarts.  The three parts of the module share the  *)
(* clock alone, so each has its own part of the invariant, and a step of   *)
(* one leaves the parts of the others as they are.                         *)
(***************************************************************************)
EXTENDS Gateway, SequenceTheorems, TLAPS

-----------------------------------------------------------------------------
(* The type invariant and IInv by the three parts *)

LimiterTypeOK ==
    /\ now \in Nat
    /\ entry \in [start : Nat, count : 0 .. Limit]
    /\ accepted \in Seq(Nat)

SessionsTypeOK ==
    /\ tokens \subseteq Tokens /\ revoked \subseteq tokens /\ loggedOut \subseteq tokens
    /\ workers \in [Workers -> WorkerStates]

FilesTypeOK ==
    /\ urls \subseteq URLs
    /\ uploads \in [Uploads -> UploadStates]
    /\ written \subseteq Paths \X Uploads

LimiterInv == LimiterTypeOK /\ LimiterOK /\ BurstBounded
SessionsInv == now \in Nat /\ SessionsTypeOK /\ ShutOK
FilesInv == now \in Nat /\ FilesTypeOK /\ FilesOK

LEMMA IInvParts == IInv <=> LimiterInv /\ SessionsInv /\ FilesInv /\ restarts \in Nat
BY DEF IInv, TypeOK, LimiterInv, SessionsInv, FilesInv, LimiterTypeOK, SessionsTypeOK,
       FilesTypeOK

-----------------------------------------------------------------------------
(* The limiter *)

\* The clock may only grow, and does not disturb what was counted.
LEMMA LimiterKept ==
    ASSUME LimiterInv, now' \in Nat, now' >= now, UNCHANGED limiter
    PROVE  LimiterInv'
<1>1. entry' = entry /\ accepted' = accepted
  BY DEF limiter
<1>2. \A i \in DOMAIN accepted : accepted[i] \in Nat
  BY DEF LimiterInv, LimiterTypeOK
<1> QED
  BY <1>1, <1>2 DEF LimiterInv, LimiterTypeOK, LimiterOK, BurstBounded

LEMMA allowRequestStep ==
    ASSUME LimiterInv, allowRequest
    PROVE  LimiterInv'
<1>1. PICK e \in Windows : Allowed(e) /\ entry' = [e EXCEPT !.count = @ + 1]
  BY DEF allowRequest
<1>2. now' = now /\ accepted' = Append(accepted, now)
  BY DEF allowRequest
<1> DEFINE n == Len(accepted)
<1>3. /\ n \in Nat /\ DOMAIN accepted = 1 .. n
      /\ Len(accepted') = n + 1 /\ DOMAIN accepted' = 1 .. n + 1
      /\ accepted'[n + 1] = now
      /\ \A i \in 1 .. n : accepted'[i] = accepted[i] /\ accepted[i] \in Nat
  BY <1>2 DEF LimiterInv, LimiterTypeOK
<1>4. /\ now \in Nat /\ Limit \in Nat \ {0} /\ Window \in Nat
      /\ e.start \in Nat /\ e.count \in Nat /\ e.count < Limit
      /\ entry'.start = e.start /\ entry'.count = e.count + 1
      /\ entry' \in [start : Nat, count : 0 .. Limit]
  <2>1. /\ entry \in [start : Nat, count : 0 .. Limit]
        /\ now \in Nat /\ Limit \in Nat \ {0} /\ Window \in Nat
    BY NumbersAssumption DEF LimiterInv, LimiterTypeOK
  <2>2. e \in [start : Nat, count : 0 .. Limit]
    BY <2>1 DEF Windows
  <2>3. e.start \in Nat /\ e.count \in Nat /\ e.count < Limit
    BY <1>1, <2>1, <2>2 DEF Allowed
  <2>4. entry'.start = e.start /\ entry'.count = e.count + 1
    BY <1>1, <2>2
  <2>5. entry' \in [start : Nat, count : 0 .. Limit]
    BY <1>1, <2>1, <2>2, <2>3
  <2> QED
    BY <2>1, <2>3, <2>4, <2>5
<1>5. accepted' \in Seq(Nat)
  BY <1>2, <1>4 DEF LimiterInv, LimiterTypeOK
<1>6. /\ entry.count \in Nat /\ entry.count <= Limit /\ entry.start \in Nat
      /\ entry.count <= n /\ entry.start <= now
      /\ entry.count = 0 => n = 0
      /\ \A i \in 1 .. n :
            /\ accepted[i] <= now
            /\ i > n - entry.count => accepted[i] >= entry.start /\ accepted[i] <= entry.start + Window
            /\ i <= n - entry.count => accepted[i] <= entry.start
            /\ i <= n - entry.count - Limit => accepted[i] + Window <= entry.start
  <2>1. /\ entry.count \in Nat /\ entry.count <= Limit /\ entry.start \in Nat
        /\ entry.count <= n /\ entry.start <= now
    BY <1>4 DEF LimiterInv, LimiterTypeOK, LimiterOK
  <2>2. entry.count = 0 => n = 0
    BY DEF LimiterInv, LimiterOK
  <2> QED
    BY <1>3, <2>1, <2>2 DEF LimiterInv, LimiterOK
<1> HIDE DEF n
<1>7. /\ e.count <= n /\ e.start <= now /\ now <= e.start + Window
      /\ \A i \in 1 .. n :
            /\ i > n - e.count => accepted[i] >= e.start /\ accepted[i] <= e.start + Window
            /\ i <= n - e.count => accepted[i] <= e.start
            /\ i <= n - e.count - Limit => accepted[i] + Window <= e.start
  <2>1. CASE e = entry /\ now <= e.start + Window
    BY <1>3, <1>6, <2>1
  <2>2. CASE e = [start |-> now, count |-> 0] /\ (entry.count = 0 \/ entry.start + Window <= now)
    <3>1. e.start = now /\ e.count = 0
      BY <2>2
    <3>2. ASSUME NEW i \in 1 .. n, i <= n - Limit PROVE accepted[i] + Window <= now
      <4>1. n # 0 /\ i <= n - entry.count
        BY <1>3, <1>4, <1>6, <3>2
      <4>2. accepted[i] <= entry.start /\ entry.start + Window <= now
        BY <1>6, <2>2, <4>1
      <4> QED
        BY <1>3, <1>4, <1>6, <4>2
    <3> QED
      BY <1>3, <1>4, <1>6, <3>1, <3>2
  <2> QED
    BY <1>1, <2>1, <2>2 DEF Windows
<1>8. LimiterOK'
  <2>1. Len(accepted') - entry'.count = n - e.count
    <3>1. Len(accepted') = n + 1 /\ entry'.count = e.count + 1 /\ n \in Nat /\ e.count \in Nat
      BY <1>3, <1>4
    <3> QED
      BY <3>1
  <2>2. entry'.count <= Len(accepted') /\ entry'.count # 0 /\ entry'.start <= now'
    BY <1>2, <1>3, <1>4, <1>7
  <2>3. ASSUME NEW i \in 1 .. n + 1
        PROVE  /\ accepted'[i] <= now
               /\ i > n - e.count => accepted'[i] >= e.start /\ accepted'[i] <= e.start + Window
               /\ i <= n - e.count => accepted'[i] <= e.start
               /\ i <= n - e.count - Limit => accepted'[i] + Window <= e.start
    <3>1. CASE i = n + 1
      BY <1>3, <1>4, <1>7, <3>1
    <3>2. CASE i \in 1 .. n
      BY <1>3, <1>6, <1>7, <3>2
    <3> QED
      BY <1>3, <3>1, <3>2
  <2> QED
    BY <1>2, <1>3, <1>4, <2>1, <2>2, <2>3 DEF LimiterOK
<1>9. BurstBounded'
  <2> SUFFICES ASSUME NEW i \in 1 .. n + 1, NEW j \in 1 .. n + 1, j - i >= 2 * Limit
               PROVE  accepted'[j] >= accepted'[i] + Window
    BY <1>3 DEF BurstBounded
  <2>1. i \in 1 .. n
    BY <1>3, <1>4
  <2>2. CASE j \in 1 .. n
    <3>1. accepted[j] >= accepted[i] + Window
      BY <1>3, <2>1, <2>2 DEF LimiterInv, BurstBounded
    <3> QED
      BY <1>3, <2>1, <2>2, <3>1
  <2>3. CASE j = n + 1
    <3>1. i <= n - e.count - Limit
      BY <1>3, <1>4, <2>3
    <3>2. accepted[i] + Window <= e.start /\ e.start <= now
      BY <1>7, <2>1, <3>1
    <3>3. accepted'[i] = accepted[i] /\ accepted[i] \in Nat /\ accepted'[j] = now
      BY <1>3, <2>1, <2>3
    <3> QED
      BY <1>4, <3>2, <3>3
  <2> QED
    BY <1>3, <2>2, <2>3
<1> QED
  BY <1>2, <1>4, <1>5, <1>8, <1>9 DEF LimiterInv, LimiterTypeOK

-----------------------------------------------------------------------------
(* Tokens *)

LEMMA IdleTyped == Idle \in WorkerStates
BY Zenon DEF Idle, WorkerStates

\* The clock may only grow and more tokens may be issued.
LEMMA SessionsKept ==
    ASSUME SessionsInv, now' \in Nat, now' >= now, tokens \subseteq tokens', tokens' \subseteq Tokens,
           UNCHANGED <<revoked, loggedOut, workers>>
    PROVE  SessionsInv'
<1>1. \A t \in tokens : ExpiresAt(t) \in Nat
  BY NumbersAssumption DEF SessionsInv, SessionsTypeOK, Tokens, ExpiresAt
<1>2. \A t \in tokens : now >= ExpiresAt(t) => now' >= ExpiresAt(t)
  BY <1>1 DEF SessionsInv
<1>3. ShutOK'
  <2>1. \A t \in loggedOut : t \in revoked \/ now' >= ExpiresAt(t)
    BY <1>2 DEF SessionsInv, SessionsTypeOK, ShutOK
  <2>2. ASSUME NEW w \in Workers
        PROVE  /\ workers[w].pc # "idle" => workers[w].token \in tokens'
               /\ workers[w].late => workers[w].token \in loggedOut
               /\ workers[w].pc = "parse" /\ workers[w].late => now' >= ExpiresAt(workers[w].token)
               /\ workers[w].pc = "serve" => ~workers[w].late
    BY <1>2 DEF SessionsInv, SessionsTypeOK, ShutOK
  <2> QED
    BY <2>1, <2>2 DEF ShutOK, ExpiresAt
<1> QED
  BY <1>3 DEF SessionsInv, SessionsTypeOK

\* A worker goes on: what must hold of it and of the list.
LEMMA WorkerStep ==
    ASSUME SessionsInv, NEW w \in Workers, NEW s \in WorkerStates,
           workers' = [workers EXCEPT ![w] = s],
           revoked' \subseteq tokens, loggedOut \subseteq loggedOut', loggedOut' \subseteq tokens,
           now' = now, tokens' = tokens,
           \A t \in loggedOut' : t \in revoked' \/ now >= ExpiresAt(t),
           s.pc # "idle" => s.token \in tokens,
           s.late => s.token \in loggedOut,
           s.pc = "parse" /\ s.late => now >= ExpiresAt(s.token),
           s.pc = "serve" => ~s.late
    PROVE  SessionsInv'
<1>1. SessionsTypeOK'
  BY DEF SessionsInv, SessionsTypeOK
<1>2. \A v \in Workers : workers'[v] = IF v = w THEN s ELSE workers[v]
  BY DEF SessionsInv, SessionsTypeOK
<1>3. ASSUME NEW v \in Workers
      PROVE  /\ workers'[v].pc # "idle" => workers'[v].token \in tokens
             /\ workers'[v].late => workers'[v].token \in loggedOut'
             /\ workers'[v].pc = "parse" /\ workers'[v].late => now >= ExpiresAt(workers'[v].token)
             /\ workers'[v].pc = "serve" => ~workers'[v].late
  BY <1>2, <1>3 DEF SessionsInv, ShutOK
<1> QED
  BY <1>1, <1>3 DEF SessionsInv, ShutOK, ExpiresAt

LEMMA ArriveStep ==
    ASSUME SessionsInv, NEW w \in Workers, NEW t \in tokens, Arrive(w, t)
    PROVE  SessionsInv'
<1>1. PICK b \in BOOLEAN : b = (t \in loggedOut)
  <2>1. CASE t \in loggedOut
    <3>1. TRUE = (t \in loggedOut)
      BY <2>1, Zenon
    <3> QED
      BY <3>1, Zenon
  <2>2. CASE t \notin loggedOut
    <3>1. FALSE = (t \in loggedOut)
      BY <2>2
    <3> QED
      BY <3>1, Zenon
  <2> QED
    BY <2>1, <2>2
<1> DEFINE s == [pc |-> "check", token |-> t, late |-> b]
<1>2. /\ workers' = [workers EXCEPT ![w] = s]
      /\ UNCHANGED <<now, tokens, revoked, loggedOut>>
  BY <1>1, Zenon DEF Arrive
<1>3. s \in WorkerStates
  BY DEF WorkerStates, SessionsInv, SessionsTypeOK
<1>4. s.pc = "check" /\ s.token = t /\ s.late = b
  OBVIOUS
<1>5. b => t \in loggedOut
  BY <1>1, Zenon
<1>6. \A u \in loggedOut' : u \in revoked' \/ now >= ExpiresAt(u)
  BY <1>2 DEF SessionsInv, ShutOK
<1> HIDE DEF s
<1> QED
  BY <1>2, <1>3, <1>4, <1>5, <1>6, WorkerStep DEF SessionsInv, SessionsTypeOK

\* What is known of a worker that has a token.
LEMMA BusyWorker ==
    ASSUME SessionsInv, NEW w \in Workers, workers[w].pc # "idle"
    PROVE  /\ workers[w].pc \in {"check", "parse", "serve"}
           /\ workers[w].token \in tokens
           /\ workers[w].late \in BOOLEAN
           /\ workers[w].late => workers[w].token \in loggedOut
           /\ now \in Nat /\ ExpiresAt(workers[w].token) \in Nat
           /\ \A pc \in {"parse", "serve"} :
                 /\ [workers[w] EXCEPT !.pc = pc] \in WorkerStates
                 /\ [workers[w] EXCEPT !.pc = pc].pc = pc
                 /\ [workers[w] EXCEPT !.pc = pc].token = workers[w].token
                 /\ [workers[w] EXCEPT !.pc = pc].late = workers[w].late
                 /\ [workers EXCEPT ![w].pc = pc] = [workers EXCEPT ![w] = [workers[w] EXCEPT !.pc = pc]]
<1>1. workers \in [Workers -> WorkerStates]
  BY DEF SessionsInv, SessionsTypeOK
<1>2. workers[w] \in [pc : {"check", "parse", "serve"}, token : Tokens, late : BOOLEAN]
  BY <1>1 DEF WorkerStates
<1>3. ASSUME NEW pc \in {"parse", "serve"}
      PROVE  /\ [workers[w] EXCEPT !.pc = pc] \in WorkerStates
             /\ [workers[w] EXCEPT !.pc = pc].pc = pc
             /\ [workers[w] EXCEPT !.pc = pc].token = workers[w].token
             /\ [workers[w] EXCEPT !.pc = pc].late = workers[w].late
             /\ [workers EXCEPT ![w].pc = pc] = [workers EXCEPT ![w] = [workers[w] EXCEPT !.pc = pc]]
  BY <1>1, <1>2 DEF WorkerStates
<1>4. workers[w].token \in tokens /\ (workers[w].late => workers[w].token \in loggedOut)
  BY DEF SessionsInv, ShutOK
<1> QED
  BY <1>2, <1>3, <1>4, NumbersAssumption DEF Tokens, ExpiresAt, SessionsInv

\* The worker is done, whatever became of its request.
LEMMA FinishStep ==
    ASSUME SessionsInv, NEW w \in Workers, Finish(w), UNCHANGED <<now, tokens>>,
           revoked' \subseteq tokens, loggedOut \subseteq loggedOut', loggedOut' \subseteq tokens,
           \A t \in loggedOut' : t \in revoked' \/ now >= ExpiresAt(t)
    PROVE  SessionsInv'
<1>1. Idle.pc = "idle" /\ ~Idle.late
  BY DEF Idle
<1> QED
  BY <1>1, IdleTyped, WorkerStep DEF Finish

LEMMA isTokenRevokedStep ==
    ASSUME SessionsInv, NEW w \in Workers, isTokenRevoked(w)
    PROVE  SessionsInv'
<1> DEFINE t == workers[w].token
<1>1. workers[w].pc = "check" /\ UNCHANGED <<now, tokens, loggedOut>>
  BY DEF isTokenRevoked
<1>2. t \in tokens /\ now \in Nat /\ ExpiresAt(t) \in Nat
  BY <1>1, BusyWorker
<1>3. CASE Finish(w) /\ UNCHANGED revoked
  <2>1. \A u \in loggedOut' : u \in revoked' \/ now >= ExpiresAt(u)
    BY <1>1, <1>3 DEF SessionsInv, ShutOK
  <2> QED
    BY <1>1, <1>3, <2>1, FinishStep DEF SessionsInv, SessionsTypeOK
<1>4. CASE /\ ~(t \in revoked /\ ExpiresAt(t) > now)
           /\ revoked' = revoked \ {t}
           /\ Continue(w, "parse")
  <2>1. t \in loggedOut => now >= ExpiresAt(t)
    BY <1>2, <1>4 DEF SessionsInv, ShutOK
  <2>2. \A u \in loggedOut' : u \in revoked' \/ now >= ExpiresAt(u)
    BY <1>1, <1>4, <2>1 DEF SessionsInv, ShutOK
  <2> DEFINE s == [workers[w] EXCEPT !.pc = "parse"]
  <2>3. /\ s \in WorkerStates /\ s.pc = "parse" /\ s.token = t /\ s.late = workers[w].late
        /\ workers' = [workers EXCEPT ![w] = s]
        /\ workers[w].late => t \in loggedOut
    BY <1>1, <1>4, BusyWorker DEF Continue
  <2> HIDE DEF s
  <2> QED
    BY <1>1, <1>2, <1>4, <2>1, <2>2, <2>3, WorkerStep DEF SessionsInv, SessionsTypeOK
<1> QED
  BY <1>3, <1>4 DEF isTokenRevoked

LEMMA ParseStep ==
    ASSUME SessionsInv, NEW w \in Workers, Parse(w)
    PROVE  SessionsInv'
<1> DEFINE t == workers[w].token
<1>1. workers[w].pc = "parse" /\ UNCHANGED <<now, tokens, revoked, loggedOut>>
  BY DEF Parse
<1>2. now \in Nat /\ ExpiresAt(t) \in Nat /\ t \in tokens
  BY <1>1, BusyWorker
<1>3. \A u \in loggedOut' : u \in revoked' \/ now >= ExpiresAt(u)
  BY <1>1 DEF SessionsInv, ShutOK
<1>4. CASE ~Valid(t)
  BY <1>1, <1>3, <1>4, FinishStep DEF Parse, SessionsInv, SessionsTypeOK
<1>5. CASE Valid(t)
  <2>1. ~workers[w].late
    BY <1>1, <1>2, <1>5 DEF Valid, SessionsInv, ShutOK
  <2> DEFINE s == [workers[w] EXCEPT !.pc = "serve"]
  <2>2. /\ s \in WorkerStates /\ s.pc = "serve" /\ s.token = t /\ s.late = workers[w].late
        /\ workers' = [workers EXCEPT ![w] = s]
    BY <1>1, <1>5, BusyWorker DEF Parse, Continue
  <2> HIDE DEF s
  <2> QED
    BY <1>1, <1>2, <1>3, <2>1, <2>2, WorkerStep DEF SessionsInv, SessionsTypeOK
<1> QED
  BY <1>4, <1>5

LEMMA logoutStep ==
    ASSUME SessionsInv, NEW w \in Workers, logout(w)
    PROVE  SessionsInv'
<1> DEFINE t == workers[w].token
<1>1. workers[w].pc = "serve" /\ Finish(w) /\ UNCHANGED <<now, tokens>>
  BY DEF logout
<1>2. t \in tokens
  BY <1>1, BusyWorker
<1>3. /\ revoked' \in {revoked, revoked \cup {t}}
      /\ loggedOut' \in {loggedOut, loggedOut \cup {t}}
      /\ loggedOut' = loggedOut \/ t \in revoked' \/ now >= ExpiresAt(t)
  BY DEF logout, revokeToken
<1>4. \A u \in loggedOut' : u \in revoked' \/ now >= ExpiresAt(u)
  BY <1>3 DEF SessionsInv, ShutOK
<1> QED
  BY <1>1, <1>2, <1>3, <1>4, FinishStep DEF SessionsInv, SessionsTypeOK

-----------------------------------------------------------------------------
(* Uploads *)

LEMMA FilesKept ==
    ASSUME FilesInv, now' \in Nat, urls' \subseteq URLs, UNCHANGED <<uploads, written>>
    PROVE  FilesInv'
BY DEF FilesInv, FilesTypeOK, FilesOK, HasFile, Path, Alike

\* What is known of an upload by where it is.
LEMMA UploadTyped ==
    ASSUME FilesInv, NEW i \in Uploads
    PROVE  /\ uploads[i].pc \in {"new", "open", "copy", "done", "cut"}
           /\ uploads[i].pc = "open" => uploads[i] \in [pc : {"open"}, url : URLs]
           /\ HasFile(i) => uploads[i] \in [pc : {"copy", "done", "cut"}, url : URLs, second : Nat]
BY DEF FilesInv, FilesTypeOK, UploadStates, HasFile

LEMMA OpenUploadStep ==
    ASSUME FilesInv, NEW i \in Uploads, NEW url \in urls, OpenUpload(i, url)
    PROVE  FilesInv'
<1> DEFINE s == [pc |-> "open", url |-> url]
<1>1. /\ uploads[i].pc = "new" /\ uploads' = [uploads EXCEPT ![i] = s]
      /\ UNCHANGED <<now, urls, written>>
  BY DEF OpenUpload, files
<1>2. s \in UploadStates /\ s.pc = "open"
  BY DEF UploadStates, FilesInv, FilesTypeOK
<1> HIDE DEF s
<1>3. \A j \in Uploads : uploads'[j] = IF j = i THEN s ELSE uploads[j]
  BY <1>1 DEF FilesInv, FilesTypeOK
<1>4. FilesTypeOK'
  BY <1>1, <1>2 DEF FilesInv, FilesTypeOK
<1>5. FilesOK'
  BY <1>1, <1>2, <1>3 DEF FilesInv, FilesTypeOK, FilesOK, HasFile, Path, Alike
<1> QED
  BY <1>1, <1>4, <1>5 DEF FilesInv

LEMMA CreateFileStep ==
    ASSUME FilesInv, NEW i \in Uploads, CreateFile(i)
    PROVE  FilesInv'
<1> DEFINE url == uploads[i].url
           s == [pc |-> "copy", url |-> url, second |-> now]
<1>1. /\ uploads[i].pc = "open" /\ uploads' = [uploads EXCEPT ![i] = s]
      /\ written' = {p \in written : p[1] # PathOf(url, now)}
      /\ UNCHANGED <<now, urls>>
  BY DEF CreateFile
<1>2. s \in UploadStates /\ s.pc = "copy" /\ s.url = url /\ s.second = now
  BY <1>1, UploadTyped DEF UploadStates, FilesInv
<1> HIDE DEF s
<1>3. \A j \in Uploads : uploads'[j] = IF j = i THEN s ELSE uploads[j]
  BY <1>1 DEF FilesInv, FilesTypeOK
<1>4. FilesTypeOK'
  BY <1>1, <1>2 DEF FilesInv, FilesTypeOK
<1>5. \A j \in Uploads : HasFile(j) => j # i /\ HasFile(j)' /\ Path(j)' = Path(j)
  BY <1>1, <1>3 DEF HasFile, Path
<1>6. \A p \in written' : HasFile(p[2])' /\ p[1] = Path(p[2])'
  BY <1>1, <1>5 DEF FilesInv, FilesTypeOK, FilesOK
<1>7. ASSUME NEW j \in Uploads, uploads'[j].pc = "done"
      PROVE  \/ <<Path(j)', j>> \in written'
             \/ \E k \in Uploads \ {j} : HasFile(k)' /\ Alike(j, k)'
  <2>1. j # i /\ uploads[j].pc = "done" /\ HasFile(j)
    BY <1>2, <1>3, <1>7 DEF HasFile
  <2>2. CASE \E k \in Uploads \ {j} : HasFile(k) /\ Alike(j, k)
    BY <1>3, <1>5, <2>1, <2>2 DEF Alike
  <2>3. CASE <<Path(j), j>> \in written /\ Path(j) # PathOf(url, now)
    BY <1>1, <1>5, <2>1, <2>3
  <2>4. CASE Path(j) = PathOf(url, now)
    <3>1. HasFile(i)' /\ Alike(j, i)'
      BY <1>2, <1>3, <2>1, <2>4 DEF HasFile, Alike, Path, PathOf
    <3> QED
      BY <2>1, <3>1
  <2> QED
    BY <2>1, <2>2, <2>3, <2>4 DEF FilesInv, FilesOK
<1> QED
  BY <1>1, <1>4, <1>6, <1>7 DEF FilesInv, FilesOK

\* An upload ends, with its content in the file or without.
LEMMA EndOfCopy ==
    ASSUME FilesInv, NEW i \in Uploads, uploads[i].pc = "copy", NEW pc \in {"done", "cut"},
           uploads' = [uploads EXCEPT ![i].pc = pc],
           written' = written \cup {<<Path(i), i>>} \/ (pc = "cut" /\ written' = written),
           now' = now, urls' = urls
    PROVE  FilesInv'
<1>1. uploads[i] \in [pc : {"copy", "done", "cut"}, url : URLs, second : Nat] /\ HasFile(i)
  BY UploadTyped DEF HasFile
<1>2. \A j \in Uploads : uploads'[j] = IF j = i THEN [uploads[i] EXCEPT !.pc = pc] ELSE uploads[j]
  BY DEF FilesInv, FilesTypeOK
<1>3. /\ uploads'[i].pc = pc /\ uploads'[i].url = uploads[i].url
      /\ uploads'[i].second = uploads[i].second
  BY <1>1, <1>2
<1>4. /\ \A j \in Uploads : HasFile(j)' <=> HasFile(j)
      /\ \A j \in Uploads : Path(j)' = Path(j)
      /\ \A j, k \in Uploads : Alike(j, k)' <=> Alike(j, k)
  BY <1>1, <1>2, <1>3 DEF HasFile, Path, Alike
<1>5. Path(i) \in Paths
  BY <1>1 DEF Path, PathOf, Paths, URLs
<1>6. FilesTypeOK'
  <2>1. uploads'[i] \in UploadStates
    BY <1>1, <1>2 DEF UploadStates
  <2>2. uploads' \in [Uploads -> UploadStates]
    BY <1>2, <2>1 DEF FilesInv, FilesTypeOK
  <2> QED
    BY <1>5, <2>2 DEF FilesInv, FilesTypeOK
<1>7. FilesOK'
  <2>1. \A p \in written' : HasFile(p[2])' /\ p[1] = Path(p[2])'
    BY <1>1, <1>4 DEF FilesInv, FilesTypeOK, FilesOK
  <2>2. ASSUME NEW j \in Uploads, uploads'[j].pc = "done"
        PROVE  \/ <<Path(j)', j>> \in written'
               \/ \E k \in Uploads \ {j} : HasFile(k)' /\ Alike(j, k)'
    <3>1. CASE j = i
      BY <1>3, <1>4, <2>2, <3>1
    <3>2. CASE j # i
      BY <1>2, <1>4, <2>2, <3>2 DEF FilesInv, FilesOK
    <3> QED
      BY <3>1, <3>2
  <2> QED
    BY <2>1, <2>2 DEF FilesOK
<1> QED
  BY <1>6, <1>7 DEF FilesInv

LEMMA RestartFiles ==
    ASSUME FilesInv, Restart
    PROVE  FilesInv'
<1>1. /\ uploads' = [i \in Uploads |-> IF uploads[i].pc = "open" THEN New ELSE Cut(i)]
      /\ UNCHANGED <<now, urls, written>>
  BY DEF Restart
<1>2. ASSUME NEW i \in Uploads
      PROVE  /\ uploads'[i] \in UploadStates
             /\ HasFile(i)' <=> HasFile(i)
             /\ HasFile(i) => /\ Path(i)' = Path(i)
                              /\ uploads'[i].url = uploads[i].url
                              /\ uploads'[i].second = uploads[i].second
             /\ uploads'[i].pc = "done" => uploads[i].pc = "done"
  <2>1. CASE uploads[i].pc = "open"
    BY <1>1, <2>1 DEF New, UploadStates, HasFile
  <2>2. CASE uploads[i].pc = "copy"
    <3>1. uploads[i] \in [pc : {"copy", "done", "cut"}, url : URLs, second : Nat]
      BY <2>2, UploadTyped DEF HasFile
    <3>2. uploads'[i] = [uploads[i] EXCEPT !.pc = "cut"]
      BY <1>1, <2>2 DEF Cut
    <3>3. /\ uploads'[i] \in [pc : {"copy", "done", "cut"}, url : URLs, second : Nat]
          /\ uploads'[i].pc = "cut" /\ uploads'[i].url = uploads[i].url
          /\ uploads'[i].second = uploads[i].second
      BY <3>1, <3>2
    <3> QED
      BY <2>2, <3>3 DEF UploadStates, HasFile, Path
  <2>3. CASE uploads[i].pc \notin {"open", "copy"}
    BY <1>1, <2>3 DEF Cut, HasFile, Path, FilesInv, FilesTypeOK
  <2> QED
    BY <2>1, <2>2, <2>3
<1>3. FilesTypeOK'
  BY <1>1, <1>2 DEF FilesInv, FilesTypeOK
<1>4. FilesOK'
  <2>1. \A p \in written' : HasFile(p[2])' /\ p[1] = Path(p[2])'
    BY <1>1, <1>2 DEF FilesInv, FilesTypeOK, FilesOK
  <2>2. ASSUME NEW j \in Uploads, uploads'[j].pc = "done"
        PROVE  \/ <<Path(j)', j>> \in written'
               \/ \E k \in Uploads \ {j} : HasFile(k)' /\ Alike(j, k)'
    <3>1. uploads[j].pc = "done" /\ HasFile(j)
      BY <1>2, <2>2 DEF HasFile
    <3>2. \A k \in Uploads : HasFile(k) /\ Alike(j, k) => HasFile(k)' /\ Alike(j, k)'
      BY <1>2, <3>1 DEF Alike
    <3> QED
      BY <1>1, <1>2, <3>1, <3>2 DEF FilesInv, FilesOK
  <2> QED
    BY <2>1, <2>2 DEF FilesOK
<1> QED
  BY <1>1, <1>3, <1>4 DEF FilesInv

-----------------------------------------------------------------------------
(* The inductive invariant *)

LEMMA InitIInv == Init => IInv
<1> SUFFICES ASSUME Init PROVE LimiterInv /\ SessionsInv /\ FilesInv /\ restarts \in Nat
  BY IInvParts
<1>1. LimiterInv
  BY NumbersAssumption DEF Init, NoEntry, LimiterInv, LimiterTypeOK, LimiterOK, BurstBounded
<1>2. SessionsInv
  <2>1. Idle.pc = "idle" /\ ~Idle.late
    BY DEF Idle
  <2> QED
    BY <2>1, IdleTyped DEF Init, SessionsInv, SessionsTypeOK, ShutOK
<1>3. FilesInv
  <2>1. New \in UploadStates /\ New.pc = "new"
    BY DEF New, UploadStates
  <2> QED
    BY <2>1 DEF Init, FilesInv, FilesTypeOK, FilesOK
<1> QED
  BY <1>1, <1>2, <1>3 DEF Init

LEMMA NextParts ==
    ASSUME LimiterInv, SessionsInv, FilesInv, restarts \in Nat, [Next]_vars
    PROVE  LimiterInv' /\ SessionsInv' /\ FilesInv' /\ (restarts \in Nat)'
<1>0. now \in Nat /\ now <= now /\ tokens \subseteq Tokens /\ urls \subseteq URLs
  BY DEF SessionsInv, SessionsTypeOK, FilesInv, FilesTypeOK
<1> DEFINE LimiterRests == now' = now /\ UNCHANGED limiter
           SessionsRest == now' = now /\ UNCHANGED sessions
           FilesRest == now' = now /\ UNCHANGED files
<1>1. LimiterRests => LimiterInv'
  BY <1>0, LimiterKept
<1>2. SessionsRest => SessionsInv'
  BY <1>0, SessionsKept DEF sessions
<1>3. FilesRest => FilesInv'
  BY <1>0, FilesKept DEF files
<1>4. CASE allowRequest
  BY <1>2, <1>3, <1>4, allowRequestStep DEF allowRequest
<1>5. ASSUME NEW u \in Users, Issue(u) PROVE LimiterInv' /\ SessionsInv' /\ FilesInv' /\ (restarts \in Nat)'
  <2>1. tokens \subseteq tokens' /\ tokens' \subseteq Tokens
    BY <1>0, <1>5 DEF Issue, Tokens
  <2> QED
    BY <1>0, <1>1, <1>3, <1>5, <2>1, SessionsKept DEF Issue
<1>6. ASSUME NEW w \in Workers,
             \/ \E t \in tokens : Arrive(w, t)
             \/ isTokenRevoked(w) \/ Parse(w) \/ logout(w) \/ Serve(w)
             \/ \E name \in Names : createUploadToken(w, name)
      PROVE  LimiterInv' /\ SessionsInv' /\ FilesInv' /\ (restarts \in Nat)'
  <2>1. CASE \E t \in tokens : Arrive(w, t)
    BY <1>1, <1>3, <2>1, ArriveStep DEF Arrive
  <2>2. CASE isTokenRevoked(w)
    BY <1>1, <1>3, <2>2, isTokenRevokedStep DEF isTokenRevoked
  <2>3. CASE Parse(w)
    BY <1>1, <1>3, <2>3, ParseStep DEF Parse
  <2>4. CASE logout(w)
    BY <1>1, <1>3, <2>4, logoutStep DEF logout
  <2>5. \A t \in loggedOut : t \in revoked \/ now >= ExpiresAt(t)
    BY DEF SessionsInv, ShutOK
  <2>6. CASE Serve(w)
    BY <1>1, <1>3, <2>5, <2>6, FinishStep DEF Serve, SessionsInv, SessionsTypeOK
  <2>7. ASSUME NEW name \in Names, createUploadToken(w, name)
        PROVE  LimiterInv' /\ SessionsInv' /\ FilesInv' /\ (restarts \in Nat)'
    <3>1. workers[w].pc = "serve" /\ workers[w].token \in Tokens
      BY <1>0, <2>7, BusyWorker DEF createUploadToken
    <3>2. urls' \subseteq URLs
      BY <1>0, <2>7, <3>1, NumbersAssumption DEF createUploadToken, URLs, Tokens
    <3>3. FilesInv'
      BY <1>0, <2>7, <3>2, FilesKept DEF createUploadToken
    <3>4. SessionsInv'
      BY <2>5, <2>7, FinishStep DEF createUploadToken, SessionsInv, SessionsTypeOK
    <3> QED
      BY <1>1, <2>7, <3>3, <3>4 DEF createUploadToken
  <2> QED
    BY <1>6, <2>1, <2>2, <2>3, <2>4, <2>6, <2>7
<1>7. ASSUME NEW i \in Uploads,
             \/ \E url \in urls : OpenUpload(i, url)
             \/ CreateFile(i) \/ CopyFile(i) \/ FailCopy(i)
      PROVE  LimiterInv' /\ SessionsInv' /\ FilesInv' /\ (restarts \in Nat)'
  <2>1. CASE \E url \in urls : OpenUpload(i, url)
    BY <1>1, <1>2, <2>1, OpenUploadStep DEF OpenUpload
  <2>2. CASE CreateFile(i)
    BY <1>1, <1>2, <2>2, CreateFileStep DEF CreateFile
  <2>3. CASE CopyFile(i)
    BY <1>1, <1>2, <2>3, EndOfCopy DEF CopyFile
  <2>4. CASE FailCopy(i)
    <3>1. uploads' = [uploads EXCEPT ![i].pc = "cut"]
      BY <2>4 DEF FailCopy, Cut
    <3> QED
      BY <1>1, <1>2, <2>4, <3>1, EndOfCopy DEF FailCopy
  <2> QED
    BY <1>7, <2>1, <2>2, <2>3, <2>4
<1>8. CASE Tick
  <2>1. now' \in Nat /\ now' >= now
    BY <1>0, <1>8 DEF Tick
  <2> QED
    BY <1>0, <1>8, <2>1, LimiterKept, SessionsKept, FilesKept DEF Tick, sessions, files
<1>9. CASE Restart
  <2>1. LimiterInv'
    BY <1>0, <1>9, NumbersAssumption
       DEF Restart, NoEntry, LimiterInv, LimiterTypeOK, LimiterOK, BurstBounded
  <2>2. SessionsInv'
    <3>1. Idle.pc = "idle" /\ ~Idle.late
      BY DEF Idle
    <3> QED
      BY <1>9, <3>1, IdleTyped DEF Restart, SessionsInv, SessionsTypeOK, ShutOK
  <2> QED
    BY <1>9, <2>1, <2>2, RestartFiles DEF Restart
<1>10. CASE UNCHANGED vars
  BY <1>1, <1>2, <1>3, <1>10 DEF vars
<1> QED
  BY <1>4, <1>5, <1>6, <1>7, <1>8, <1>9, <1>10 DEF Next

LEMMA NextIInv == IInv /\ [Next]_vars => IInv'
<1> SUFFICES ASSUME IInv, [Next]_vars PROVE IInv'
  OBVIOUS
<1>1. LimiterInv' /\ SessionsInv' /\ FilesInv' /\ (restarts \in Nat)'
  BY IInvParts, NextParts
<1> QED
  BY <1>1 DEF IInv, TypeOK, LimiterInv, SessionsInv, FilesInv, LimiterTypeOK, SessionsTypeOK,
              FilesTypeOK

\* The inductive invariant of the three parts, and with it the types.
THEOREM IInvCorrect == Spec => []IInv
BY InitIInv, NextIInv, PTL DEF Spec

\* authRequired, logout and isTokenRevoked: once a logout is answered no later
\* request with that token is served, until a restart.
THEOREM LoggedOutIsShutCorrect == Spec => []LoggedOutIsShut
<1>1. IInv => LoggedOutIsShut
  BY DEF IInv, ShutOK, LoggedOutIsShut
<1> QED
  BY <1>1, IInvCorrect, PTL

\* allowRequest: a client gets at most twice the limit in the time of a window.
THEOREM BurstBoundedCorrect == Spec => []BurstBounded
<1>1. IInv => BurstBounded
  BY DEF IInv
<1> QED
  BY <1>1, IInvCorrect, PTL

\* uploadViaSignedURL: a stored file is overwritten only by an upload of the
\* same user, name and second.
THEOREM UploadsKeptCorrect == Spec => []UploadsKept
<1>1. ASSUME IInv PROVE UploadsKept
  <2> SUFFICES ASSUME NEW i \in Uploads, uploads[i].pc = "done",
                      ~ \E j \in Uploads \ {i} : HasFile(j) /\ Alike(i, j)
               PROVE  \A j \in Uploads : <<Path(i), j>> \in written <=> j = i
    BY DEF UploadsKept
  <2>1. HasFile(i) /\ <<Path(i), i>> \in written
    BY <1>1 DEF IInv, FilesOK, HasFile
  <2>2. ASSUME NEW j \in Uploads, <<Path(i), j>> \in written, j # i PROVE FALSE
    <3>1. HasFile(j) /\ Path(i) = Path(j)
      BY <1>1, <2>2 DEF IInv, FilesOK
    <3>2. Alike(i, j)
      BY <3>1 DEF Path, PathOf, Alike
    <3> QED
      BY <2>2, <3>1, <3>2
  <2> QED
    BY <2>1, <2>2
<1> QED
  BY <1>1, IInvCorrect, PTL

=============================================================================
