------------------------------ MODULE Gateway ------------------------------
(***************************************************************************)
(* What stands before the handlers: the request limiter, the bearer tokens *)
(* with the list of revoked ones, and the signed upload URLs.              *)
(*                                                                         *)
(* The clock counts seconds, which is also what the tokens, the URLs and   *)
(* the names of uploaded files count in.  A token is its claims: Issue     *)
(* makes the same string of the same user and second.  Of the claims the   *)
(* role is left out; it is fixed by the token.  A request with a token is  *)
(* a worker that takes three steps, as the clock may tick and others may   *)
(* log out between them; an upload needs a URL only, and creates its file  *)
(* before it fills it.  What the limiter and the list know is memory of    *)
(* the process: a restart forgets it, files and the two secrets stay.      *)
(***************************************************************************)
EXTENDS Naturals, Sequences, FiniteSets

CONSTANTS
    Users, Names, Workers,
    Uploads,        \* ids of upload requests
    Limit, Window,  \* requests a client may make in a window, and its seconds
    TTL, UploadTTL,
    MaxTime, MaxRequests, MaxURLs, MaxRestarts,  \* bounds
    NoToken

ASSUME NumbersAssumption ==
    /\ Limit \in Nat \ {0} /\ Window \in Nat \ {0}
    /\ TTL \in Nat \ {0} /\ UploadTTL \in Nat \ {0}
    /\ MaxTime \in Nat /\ MaxRequests \in Nat
    /\ MaxURLs \in Nat /\ MaxRestarts \in Nat

VARIABLES
    now,
    entry,      \* rateLimitEntries of one path and client
    accepted,   \* when that client's requests were let through
    tokens,     \* tokens ever issued
    revoked,    \* revokedTokens
    loggedOut,  \* tokens whose logout was answered
    workers,
    urls,       \* upload URLs ever signed
    uploads,
    written,    \* what the files hold: pairs of a path and an upload
    restarts

limiter == <<entry, accepted>>
sessions == <<tokens, revoked, loggedOut, workers>>
files == <<urls, uploads, written>>
vars == <<now, limiter, sessions, files, restarts>>

-----------------------------------------------------------------------------
(* Data *)

Tokens == [user : Users, issued : Nat]
ExpiresAt(t) == t.issued + TTL

NoEntry == [start |-> 0, count |-> 0]

WorkerStates ==
    [pc : {"idle"}, token : {NoToken}, late : {FALSE}]
    \cup [pc : {"check", "parse", "serve"}, token : Tokens, late : BOOLEAN]
Idle == [pc |-> "idle", token |-> NoToken, late |-> FALSE]

URLs == [user : Users, name : Names, expires : Nat]
Paths == [user : Users, second : Nat, name : Names]

\* "open" has passed the check of the URL, "copy" has its file.
UploadStates ==
    [pc : {"new"}]
    \cup [pc : {"open"}, url : URLs]
    \cup [pc : {"copy", "done", "cut"}, url : URLs, second : Nat]
New == [pc |-> "new"]
HasFile(i) == uploads[i].pc \in {"copy", "done", "cut"}

\* Mutant: files are told apart by their names alone.
PathOfName(url, second) == [user |-> url.user, second |-> 0, name |-> url.name]

\* <uploadDir>/<user>/<second>_<name>
PathOf(url, second) == [user |-> url.user, second |-> second, name |-> url.name]

Path(i) == PathOf(uploads[i].url, uploads[i].second)

Init ==
    /\ now = 0
    /\ entry = NoEntry
    /\ accepted = <<>>
    /\ tokens = {} /\ revoked = {} /\ loggedOut = {}
    /\ workers = [w \in Workers |-> Idle]
    /\ urls = {}
    /\ uploads = [i \in Uploads |-> New]
    /\ written = {}
    /\ restarts = 0

-----------------------------------------------------------------------------
(* The limiter, before a sign-in *)

\* Mutant: one request more than the limit.
AllowedOneMore(e) == e.count <= Limit

Allowed(e) == e.count < Limit

\* A window ends when its seconds are over, somewhere within the last of them.
Windows ==
    {e \in {entry} : e.count > 0 /\ now <= e.start + Window}
    \cup {e \in {[start |-> now, count |-> 0]} :
             entry.count = 0 \/ entry.start + Window <= now}

\* A request that is refused changes nothing: it does not count.
allowRequest ==
    /\ Len(accepted) < MaxRequests
    /\ \E e \in Windows :
          /\ Allowed(e)
          /\ entry' = [e EXCEPT !.count = @ + 1]
    /\ accepted' = Append(accepted, now)
    /\ UNCHANGED <<now, sessions, files, restarts>>

\* A sign-in succeeded; of a second that has a token it gets the same one.
Issue(u) ==
    /\ tokens' = tokens \cup {[user |-> u, issued |-> now]}
    /\ UNCHANGED <<now, limiter, revoked, loggedOut, workers, files, restarts>>

-----------------------------------------------------------------------------
(* authRequired and logout *)

Continue(w, pc) == workers' = [workers EXCEPT ![w].pc = pc]
Finish(w) == workers' = [workers EXCEPT ![w] = Idle]

\* late: the request comes after the answer to a logout of its token.
Arrive(w, t) ==
    /\ workers[w].pc = "idle"
    /\ workers' = [workers EXCEPT ![w] =
           [pc |-> "check", token |-> t, late |-> t \in loggedOut]]
    /\ UNCHANGED <<now, limiter, tokens, revoked, loggedOut, files, restarts>>

\* Past its expiry a token is dropped from the list: Parse refuses it from then on.
isTokenRevoked(w) ==
    LET t == workers[w].token IN
    /\ workers[w].pc = "check"
    /\ \/ /\ t \in revoked /\ ExpiresAt(t) > now
          /\ Finish(w)
          /\ UNCHANGED revoked
       \/ /\ ~(t \in revoked /\ ExpiresAt(t) > now)
          /\ revoked' = revoked \ {t}
          /\ Continue(w, "parse")
    /\ UNCHANGED <<now, limiter, tokens, loggedOut, files, restarts>>

\* Mutant: a token is good to the end of its last second.
ValidInclusive(t) == now <= ExpiresAt(t)

Valid(t) == now < ExpiresAt(t)

Parse(w) ==
    /\ workers[w].pc = "parse"
    /\ IF Valid(workers[w].token) THEN Continue(w, "serve") ELSE Finish(w)
    /\ UNCHANGED <<now, limiter, tokens, revoked, loggedOut, files, restarts>>

\* Mutant: a token that expires this second is not worth keeping.
revokeTokenBarely(t) ==
    IF now + 1 >= ExpiresAt(t) THEN UNCHANGED revoked ELSE revoked' = revoked \cup {t}

\* In the very second of the expiry it depends on the fraction.
revokeToken(t) ==
    \/ now <= ExpiresAt(t) /\ revoked' = revoked \cup {t}
    \/ now >= ExpiresAt(t) /\ UNCHANGED revoked

\* logout parses the token once more; it may have expired since authRequired did.
logout(w) ==
    LET t == workers[w].token IN
    /\ workers[w].pc = "serve"
    /\ \/ revokeToken(t) /\ loggedOut' = loggedOut \cup {t}
       \/ ~Valid(t) /\ UNCHANGED <<revoked, loggedOut>>
    /\ Finish(w)
    /\ UNCHANGED <<now, limiter, tokens, files, restarts>>

createUploadToken(w, name) ==
    /\ workers[w].pc = "serve"
    /\ Cardinality(urls) < MaxURLs
    /\ urls' = urls \cup {[user |-> workers[w].token.user, name |-> name,
                           expires |-> now + UploadTTL]}
    /\ Finish(w)
    /\ UNCHANGED <<now, limiter, tokens, revoked, loggedOut, uploads, written, restarts>>

\* Any other handler.
Serve(w) ==
    /\ workers[w].pc = "serve"
    /\ Finish(w)
    /\ UNCHANGED <<now, limiter, tokens, revoked, loggedOut, files, restarts>>

-----------------------------------------------------------------------------
(* uploadViaSignedURL *)

\* A URL serves any number of uploads until it expires.
OpenUpload(i, url) ==
    /\ uploads[i].pc = "new"
    /\ now <= url.expires
    /\ uploads' = [uploads EXCEPT ![i] = [pc |-> "open", url |-> url]]
    /\ UNCHANGED <<now, limiter, sessions, urls, written, restarts>>

\* os.Create empties a file that exists.
CreateFile(i) ==
    LET url == uploads[i].url IN
    /\ uploads[i].pc = "open"
    /\ uploads' = [uploads EXCEPT ![i] = [pc |-> "copy", url |-> url, second |-> now]]
    /\ written' = {p \in written : p[1] # PathOf(url, now)}
    /\ UNCHANGED <<now, limiter, sessions, urls, restarts>>

CopyFile(i) ==
    /\ uploads[i].pc = "copy"
    /\ uploads' = [uploads EXCEPT ![i].pc = "done"]
    /\ written' = written \cup {<<Path(i), i>>}
    /\ UNCHANGED <<now, limiter, sessions, urls, restarts>>

\* The copy fails, or the process stops: some of the body may be written.
Cut(i) == IF uploads[i].pc = "copy" THEN [uploads[i] EXCEPT !.pc = "cut"] ELSE uploads[i]

FailCopy(i) ==
    /\ uploads[i].pc = "copy"
    /\ uploads' = [uploads EXCEPT ![i] = Cut(i)]
    /\ written' \in {written, written \cup {<<Path(i), i>>}}
    /\ UNCHANGED <<now, limiter, sessions, urls, restarts>>

-----------------------------------------------------------------------------
(* Time and restarts *)

Tick ==
    /\ now < MaxTime
    /\ now' = now + 1
    /\ UNCHANGED <<limiter, sessions, files, restarts>>

Restart ==
    /\ restarts < MaxRestarts
    /\ restarts' = restarts + 1
    /\ entry' = NoEntry /\ accepted' = <<>>
    /\ revoked' = {} /\ loggedOut' = {}
    /\ workers' = [w \in Workers |-> Idle]
    /\ uploads' = [i \in Uploads |-> IF uploads[i].pc = "open" THEN New ELSE Cut(i)]
    /\ UNCHANGED <<now, tokens, urls, written>>

-----------------------------------------------------------------------------
(* Specification *)

Next ==
    \/ allowRequest
    \/ \E u \in Users : Issue(u)
    \/ \E w \in Workers :
          \/ \E t \in tokens : Arrive(w, t)
          \/ isTokenRevoked(w) \/ Parse(w) \/ logout(w) \/ Serve(w)
          \/ \E name \in Names : createUploadToken(w, name)
    \/ \E i \in Uploads :
          \/ \E url \in urls : OpenUpload(i, url)
          \/ CreateFile(i) \/ CopyFile(i) \/ FailCopy(i)
    \/ Tick \/ Restart

Spec == Init /\ [][Next]_vars

-----------------------------------------------------------------------------
(* Properties *)

TypeOK ==
    /\ now \in Nat
    /\ entry \in [start : Nat, count : 0 .. Limit]
    /\ accepted \in Seq(Nat)
    /\ tokens \subseteq Tokens /\ revoked \subseteq tokens /\ loggedOut \subseteq tokens
    /\ workers \in [Workers -> WorkerStates]
    /\ urls \subseteq URLs
    /\ uploads \in [Uploads -> UploadStates]
    /\ written \subseteq Paths \X Uploads
    /\ restarts \in Nat

\* Once a logout is answered no request that comes later with that token is
\* served, until the process restarts: between them the list of revoked tokens,
\* which forgets, and the expiry leave no gap.
LoggedOutIsShut == \A w \in Workers : workers[w].pc = "serve" => ~workers[w].late

\* However requests fall on the windows, a client gets no more than twice the
\* limit in any span as long as a window.
BurstBounded ==
    \A i, j \in DOMAIN accepted : j - i >= 2 * Limit => accepted[j] >= accepted[i] + Window

\* Uploads of one user under one name in one second.
Alike(i, j) ==
    /\ uploads[j].url.user = uploads[i].url.user
    /\ uploads[j].url.name = uploads[i].url.name
    /\ uploads[j].second = uploads[i].second

\* What a finished upload stored stays as it was, unless the same user uploads
\* under the same name in the same second.
UploadsKept ==
    \A i \in Uploads : uploads[i].pc = "done" =>
        \/ \A j \in Uploads : <<Path(i), j>> \in written <=> j = i
        \/ \E j \in Uploads \ {i} : HasFile(j) /\ Alike(i, j)

-----------------------------------------------------------------------------
(* The inductive invariant behind the safety properties *)

\* The last entry.count requests belong to the window, the Limit before them to
\* earlier windows at most as old as the one before it.
LimiterOK ==
    LET first == Len(accepted) - entry.count IN
    /\ entry.count <= Len(accepted)
    /\ entry.count = 0 => accepted = <<>>
    /\ entry.start <= now
    /\ \A i \in DOMAIN accepted :
          /\ accepted[i] <= now
          /\ i > first => accepted[i] >= entry.start /\ accepted[i] <= entry.start + Window
          /\ i <= first => accepted[i] <= entry.start
          /\ i <= first - Limit => accepted[i] + Window <= entry.start

\* A token that was logged out is on the list as long as Parse would take it.
ShutOK ==
    /\ \A t \in loggedOut : t \in revoked \/ now >= ExpiresAt(t)
    /\ \A w \in Workers :
          /\ workers[w].pc # "idle" => workers[w].token \in tokens
          /\ workers[w].late => workers[w].token \in loggedOut
          /\ workers[w].pc = "parse" /\ workers[w].late => now >= ExpiresAt(workers[w].token)
          /\ workers[w].pc = "serve" => ~workers[w].late

\* A file holds what was written by uploads that have this file.
FilesOK ==
    /\ \A p \in written : HasFile(p[2]) /\ p[1] = Path(p[2])
    /\ \A i \in Uploads : uploads[i].pc = "done" =>
          \/ <<Path(i), i>> \in written
          \/ \E j \in Uploads \ {i} : HasFile(j) /\ Alike(i, j)

IInv == TypeOK /\ LimiterOK /\ BurstBounded /\ ShutOK /\ FilesOK

=============================================================================
