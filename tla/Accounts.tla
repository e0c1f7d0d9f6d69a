------------------------------ MODULE Accounts ------------------------------
(***************************************************************************)
(* Login, logout, password change and password reset, as the handlers of   *)
(* be/handlers/users.go and be/handlers/password_reset.go run them against *)
(* the tables users, sessions and password_resets (be/persist).            *)
(*                                                                         *)
(* net/http runs every request in a goroutine of its own and no handler    *)
(* opens a transaction around its database calls, so a handler is a        *)
(* sequence of atomic statements that interleave with those of every other *)
(* request.  One action below is one such statement (or the one explicit   *)
(* transaction, CreatePasswordReset) with the Go code up to the next one.  *)
(*                                                                         *)
(* A stored bcrypt hash is salted, so each write of users.password stores  *)
(* a value never seen before: it is numbered by the write that stored it.  *)
(* A client that knows the password of hash n passes the comparison with   *)
(* hash n and with no other.  Tokens are 32 random bytes: fresh, and       *)
(* presented only by a client they were delivered to.                      *)
(***************************************************************************)
EXTENDS Integers

CONSTANTS
    Users,       \* rows of users (created before the behaviour starts)
    SessionIds,  \* bounds the session tokens that can be issued
    ResetIds,    \* bounds the reset tokens that can be issued
    Reqs,        \* HTTP requests; each is served at most once
    NoUser, NoSession, NoReset,
    Faulty       \* may a database statement, an email or a client fail?

ASSUME AccountsAssumption ==
    /\ Faulty \in BOOLEAN
    /\ NoUser \notin Users
    /\ NoSession \notin SessionIds
    /\ NoReset \notin ResetIds

VARIABLES
    password,  \* users.password: the number of the stored hash
    sessions,  \* table sessions, with what became of each token
    resets,    \* table password_resets, with what became of each token
    cookies,   \* session tokens some client received as a cookie
    mailed,    \* reset tokens delivered by email
    pc,        \* where each request is in its handler
    loc,       \* each request's local variables
    \* history, read by no action of the program:
    cutoff,    \* hash whose owner's other sessions were last revoked
    latest,    \* most recently issued reset token of each user
    spent      \* password writes made on the authority of each reset token

db == <<password, sessions, resets>>
clients == <<cookies, mailed>>
history == <<cutoff, latest, spent>>
vars == <<db, clients, pc, loc, history>>

-----------------------------------------------------------------------------

\* "none" was never issued, "ended" is a row deleted by logout, "revoked" one
\* deleted by a password change or reset; an expired row stays in the table.
\* auth is the hash the session was opened on, late says that its request had
\* passed its password check before a revocation that it then outran.
SessionStatus == {"none", "live", "expired", "ended", "revoked"}
SessionRow == [st : SessionStatus, user : Users \cup {NoUser}, auth : Nat, late : BOOLEAN]
NoRow == [st |-> "none", user |-> NoUser, auth |-> 0, late |-> FALSE]

ResetStatus == {"none", "open", "expired", "used", "replaced"}
ResetRow == [st : ResetStatus, user : Users \cup {NoUser}]

PC == {"idle", "loginCreate", "logoutDelete", "changeVerify", "changeWrite",
       "changeRevoke", "forgotIssue", "forgotMail", "resetWrite", "resetRevoke",
       "resetCreate", "done"}

\* user: the account resolved so far; sid: the caller's own session; link: the
\* reset token in hand; seen: the hash compared with, or written, last.
Locals == [user : Users \cup {NoUser}, sid : SessionIds \cup {NoSession},
           link : ResetIds \cup {NoReset}, seen : Nat, late : BOOLEAN]
NoLocals == [user |-> NoUser, sid |-> NoSession, link |-> NoReset,
             seen |-> 0, late |-> FALSE]

Init ==
    /\ password = [u \in Users |-> 1]
    /\ sessions = [s \in SessionIds |-> NoRow]
    /\ resets = [t \in ResetIds |-> [st |-> "none", user |-> NoUser]]
    /\ cookies = {} /\ mailed = {}
    /\ pc = [r \in Reqs |-> "idle"]
    /\ loc = [r \in Reqs |-> NoLocals]
    /\ cutoff = [u \in Users |-> 0]
    /\ latest = [u \in Users |-> NoReset]
    /\ spent = [t \in ResetIds |-> 0]

Goto(r, from, to) ==
    /\ pc[r] = from
    /\ pc' = [pc EXCEPT ![r] = to]

\* The rows a DELETE on sessions finds: expired ones are still in the table.
InTable(s) == sessions[s].st \in {"live", "expired"}

\* GetSession: found and not past expires_at.
ValidSession(s) == sessions[s].st = "live"

\* CreateSession and the cookie with its token.  Under Faulty the row may be
\* stored while the client never learns of it.
OpenSession(r, s) ==
    /\ sessions[s].st = "none"
    /\ sessions' = [sessions EXCEPT ![s] =
           [st |-> "live", user |-> loc[r].user, auth |-> loc[r].seen, late |-> loc[r].late]]
    /\ \/ cookies' = cookies \cup {s}
       \/ Faulty /\ UNCHANGED cookies
    /\ UNCHANGED mailed

\* The WHERE of DeleteOtherSessions, and of DeleteAllSessions when keep is
\* NoSession.  (A slip: the comparison turned round.)
RevokesKeepOnly(s, u, keep) == InTable(s) /\ sessions[s].user = u /\ s = keep
Revokes(s, u, keep) == InTable(s) /\ sessions[s].user = u /\ s # keep

\* UpdateUserPassword: the next hash of this account.
StorePassword(u) == password' = [password EXCEPT ![u] = @ + 1]

\* Requests of u that passed their password check on a hash older than n and
\* will still open a session: no DELETE can reach a row they have not inserted.
Outrun(u, n) ==
    {q \in Reqs : /\ loc[q].user = u /\ loc[q].seen < n
                  /\ pc[q] \in {"loginCreate", "resetRevoke", "resetCreate"}}

Later(m, n) == IF m < n THEN n ELSE m

\* DELETE of the sessions of loc[r].user but keep, which from here on counts as
\* opened on the new hash.
Revoke(r, keep) ==
    LET u == loc[r].user
        n == loc[r].seen
    IN  /\ sessions' = [s \in SessionIds |->
             IF Revokes(s, u, keep) THEN [sessions[s] EXCEPT !.st = "revoked"]
             ELSE IF s = keep THEN [sessions[s] EXCEPT !.auth = Later(@, n)]
             ELSE sessions[s]]
        /\ cutoff' = [cutoff EXCEPT ![u] = Later(@, n)]
        /\ loc' = [q \in Reqs |->
             IF q \in Outrun(u, n) THEN [loc[q] EXCEPT !.late = TRUE] ELSE loc[q]]
        /\ UNCHANGED <<password, resets, clients, latest, spent>>

-----------------------------------------------------------------------------
(* UserLogin: GetUserByUsername and the bcrypt comparison on the hash it   *)
(* read, then CreateSession.  A refused login changes nothing here.        *)

LoginVerify(r, u) ==
    /\ Goto(r, "idle", "loginCreate")
    /\ loc' = [loc EXCEPT ![r].user = u, ![r].seen = password[u]]
    /\ UNCHANGED <<db, clients, history>>

LoginCreate(r, s) ==
    /\ Goto(r, "loginCreate", "done")
    /\ OpenSession(r, s)
    /\ UNCHANGED <<password, resets, loc, history>>

-----------------------------------------------------------------------------
(* UserLogout, behind AuthMiddleware.                                      *)

LogoutAuth(r, s) ==
    /\ s \in cookies /\ ValidSession(s)
    /\ Goto(r, "idle", "logoutDelete")
    /\ loc' = [loc EXCEPT ![r].sid = s]
    /\ UNCHANGED <<db, clients, history>>

LogoutDelete(r) ==
    LET s == loc[r].sid IN
    /\ Goto(r, "logoutDelete", "done")
    /\ sessions' = IF InTable(s) THEN [sessions EXCEPT ![s].st = "ended"] ELSE sessions
    /\ UNCHANGED <<password, resets, clients, loc, history>>

-----------------------------------------------------------------------------
(* ChangePassword, behind AuthMiddleware: GetUserByID and the comparison   *)
(* with the current password, UpdateUserPassword, DeleteOtherSessions.     *)

ChangeAuth(r, s) ==
    /\ s \in cookies /\ ValidSession(s)
    /\ Goto(r, "idle", "changeVerify")
    /\ loc' = [loc EXCEPT ![r].user = sessions[s].user, ![r].sid = s]
    /\ UNCHANGED <<db, clients, history>>

ChangeVerify(r) ==
    /\ Goto(r, "changeVerify", "changeWrite")
    /\ loc' = [loc EXCEPT ![r].seen = password[loc[r].user]]
    /\ UNCHANGED <<db, clients, history>>

\* Under Faulty the row may be updated although the handler gets an error.
ChangeWrite(r) ==
    /\ \/ Goto(r, "changeWrite", "changeRevoke")
       \/ Faulty /\ Goto(r, "changeWrite", "done")
    /\ StorePassword(loc[r].user)
    /\ loc' = [loc EXCEPT ![r].seen = password'[loc[r].user]]
    /\ UNCHANGED <<sessions, resets, clients, history>>

ChangeRevoke(r) ==
    /\ Goto(r, "changeRevoke", "done")
    /\ Revoke(r, loc[r].sid)

-----------------------------------------------------------------------------
(* RequestPasswordReset: GetUserByEmail, CreatePasswordReset, the email.   *)

ForgotLookup(r, u) ==
    /\ Goto(r, "idle", "forgotIssue")
    /\ loc' = [loc EXCEPT ![r].user = u]
    /\ UNCHANGED <<db, clients, history>>

\* WHERE user_id = u AND used_at IS NULL (a slip: only what has expired).
ExpiredOnly(x, u) == resets[x].user = u /\ resets[x].st = "expired"
Unused(x, u) == resets[x].user = u /\ resets[x].st \in {"open", "expired"}

\* One transaction: delete the account's unused resets, insert the new one.
\* The locks InnoDB takes for the DELETE order two of them for one account (or
\* abort one).  Under Faulty the COMMIT may succeed although its answer is lost.
ForgotIssue(r, t) ==
    LET u == loc[r].user IN
    /\ resets[t].st = "none"
    /\ \/ Goto(r, "forgotIssue", "forgotMail")
       \/ Faulty /\ Goto(r, "forgotIssue", "done")
    /\ resets' = [x \in ResetIds |->
         IF x = t THEN [st |-> "open", user |-> u]
         ELSE IF Unused(x, u) THEN [resets[x] EXCEPT !.st = "replaced"]
         ELSE resets[x]]
    /\ latest' = [latest EXCEPT ![u] = t]
    /\ loc' = [loc EXCEPT ![r].link = t]
    /\ UNCHANGED <<password, sessions, clients, cutoff, spent>>

ForgotMail(r) ==
    /\ Goto(r, "forgotMail", "done")
    /\ mailed' = mailed \cup {loc[r].link}
    /\ UNCHANGED <<db, cookies, loc, history>>

-----------------------------------------------------------------------------
(* ConfirmPasswordReset: ConsumePasswordReset (the guarded UPDATE; the     *)
(* SELECT after it reads a row nothing changes any more), the password,    *)
(* DeleteAllSessions, CreateSession.                                       *)

\* The WHERE of ConsumePasswordReset (a slip: without used_at IS NULL).
RedeemableAgain(t) == resets[t].st \in {"open", "used"}
Redeemable(t) == resets[t].st = "open"

ResetConsume(r, t) ==
    /\ t \in mailed /\ Redeemable(t)
    /\ \/ Goto(r, "idle", "resetWrite")
       \/ Faulty /\ Goto(r, "idle", "done")
    /\ resets' = [resets EXCEPT ![t].st = "used"]
    /\ loc' = [loc EXCEPT ![r].user = resets[t].user, ![r].link = t]
    /\ UNCHANGED <<password, sessions, clients, history>>

ResetWrite(r) ==
    /\ \/ Goto(r, "resetWrite", "resetRevoke")
       \/ Faulty /\ Goto(r, "resetWrite", "done")
    /\ StorePassword(loc[r].user)
    /\ spent' = [spent EXCEPT ![loc[r].link] = @ + 1]
    /\ loc' = [loc EXCEPT ![r].seen = password'[loc[r].user]]
    /\ UNCHANGED <<sessions, resets, clients, cutoff, latest>>

ResetRevoke(r) ==
    /\ Goto(r, "resetRevoke", "resetCreate")
    /\ Revoke(r, NoSession)

\* DeleteAllSessions failed: logged, and the handler carries on.
ResetRevokeFails(r) ==
    /\ Faulty
    /\ Goto(r, "resetRevoke", "resetCreate")
    /\ UNCHANGED <<db, clients, loc, history>>

ResetCreate(r, s) ==
    /\ Goto(r, "resetCreate", "done")
    /\ OpenSession(r, s)
    /\ UNCHANGED <<password, resets, loc, history>>

-----------------------------------------------------------------------------

\* The request ends here without a further effect: it was refused, a statement
\* or the email failed, dbQueryTimeout or the client cancelled it, or the
\* process died.  A crash is this step for every request in flight.
Abandon(r) ==
    /\ Faulty
    /\ pc[r] \notin {"idle", "done"}
    /\ pc' = [pc EXCEPT ![r] = "done"]
    /\ UNCHANGED <<db, clients, loc, history>>

SessionExpires(s) ==
    /\ sessions[s].st = "live"
    /\ sessions' = [sessions EXCEPT ![s].st = "expired"]
    /\ UNCHANGED <<password, resets, clients, pc, loc, history>>

ResetExpires(t) ==
    /\ resets[t].st = "open"
    /\ resets' = [resets EXCEPT ![t].st = "expired"]
    /\ UNCHANGED <<password, sessions, clients, pc, loc, history>>

Login(r) ==
    \/ \E u \in Users : LoginVerify(r, u)
    \/ \E s \in SessionIds : LoginCreate(r, s)

Logout(r) ==
    \/ \E s \in SessionIds : LogoutAuth(r, s)
    \/ LogoutDelete(r)

Change(r) ==
    \/ \E s \in SessionIds : ChangeAuth(r, s)
    \/ ChangeVerify(r)
    \/ ChangeWrite(r)
    \/ ChangeRevoke(r)

Forgot(r) ==
    \/ \E u \in Users : ForgotLookup(r, u)
    \/ \E t \in ResetIds : ForgotIssue(r, t)
    \/ ForgotMail(r)

Reset(r) ==
    \/ \E t \in ResetIds : ResetConsume(r, t)
    \/ ResetWrite(r)
    \/ ResetRevoke(r)
    \/ ResetRevokeFails(r)
    \/ \E s \in SessionIds : ResetCreate(r, s)

Next ==
    \/ \E r \in Reqs : Login(r) \/ Logout(r) \/ Change(r) \/ Forgot(r) \/ Reset(r) \/ Abandon(r)
    \/ \E s \in SessionIds : SessionExpires(s)
    \/ \E t \in ResetIds : ResetExpires(t)

Spec == Init /\ [][Next]_vars

-----------------------------------------------------------------------------
(* Type invariant.                                                         *)

\* Every table, local and history variable holds a value of its type.
TypeOK ==
    /\ password \in [Users -> Nat \ {0}]
    /\ sessions \in [SessionIds -> SessionRow]
    /\ resets \in [ResetIds -> ResetRow]
    /\ cookies \in SUBSET SessionIds /\ mailed \in SUBSET ResetIds
    /\ pc \in [Reqs -> PC]
    /\ loc \in [Reqs -> Locals]
    /\ cutoff \in [Users -> Nat]
    /\ latest \in [Users -> ResetIds \cup {NoReset}]
    /\ spent \in [ResetIds -> Nat]

-----------------------------------------------------------------------------
(* Safety.                                                                 *)

\* What the revocations of ChangePassword and ConfirmPasswordReset do achieve:
\* once one has run, a session opened on an older password is usable only if its
\* own request had already passed its password check at that moment (and had
\* merely not inserted its row yet).  No login that starts later, no order of
\* two changes or resets and no failed statement brings another one back.
LateSessionsOnly ==
    \A s \in SessionIds : ValidSession(s) =>
        \/ sessions[s].auth >= cutoff[sessions[s].user]
        \/ sessions[s].late

\* CreatePasswordReset: "only the most recently requested link should ever
\* work", and the most recent one is never deleted, however requests for the
\* account interleave with each other, with a confirmation or with expiry.
OnlyLatestLinkWorks ==
    /\ \A t \in ResetIds : Redeemable(t) => latest[resets[t].user] = t
    /\ \A u \in Users : latest[u] # NoReset => resets[latest[u]].st # "replaced"

\* ConsumePasswordReset: "two simultaneous submissions of the same reset link
\* can't both succeed" - one link sets the password at most once.
ResetTokenActsOnce == \A t \in ResetIds : spent[t] <= 1

\* DeleteOtherSessions and DeleteAllSessions log nobody out but the account
\* whose password was just replaced: a session is revoked only by a request of
\* its own account that has reached its revocation, and never by its own change.
RevocationStaysInAccount ==
    [][\A s \in SessionIds :
          sessions[s].st # "revoked" /\ sessions'[s].st = "revoked" =>
             \E r \in Reqs :
                /\ pc[r] \in {"changeRevoke", "resetRevoke"} /\ pc'[r] # pc[r]
                /\ loc[r].user = sessions[s].user
                /\ loc[r].sid # s]_vars

-----------------------------------------------------------------------------
(* What the comments promise and the interleavings break.                  *)

\* ChangePassword "then revokes every other session for this user - if a stolen
\* password is what prompted the change, this logs out whoever had it": after the
\* revocation no session opened on an older password is usable.
RevocationHolds ==
    \A s \in SessionIds : ValidSession(s) =>
        sessions[s].auth >= cutoff[sessions[s].user]

=============================================================================
