------------------------------- MODULE Invites -------------------------------
(***************************************************************************)
(* Invitations and signup: RequestInvite (be/handlers/invites.go), approve *)
(* and deny from the admin page (be/handlers/admin.go) and from the command *)
(* line (be/cmd/invite.go), and UserCreate (be/handlers/users.go), against *)
(* the tables invites and users (be/persist/invites.go, users.go).         *)
(*                                                                         *)
(* As in Accounts, one action is one SQL statement with the Go code up to  *)
(* the next one, and the statements of all requests and command line       *)
(* processes interleave.                                                   *)
(***************************************************************************)
CONSTANTS
    Emails,     \* addresses an invite can be requested for
    Names,      \* usernames
    InviteIds,  \* bounds the rows of invites; an id stands for its code too
    Reqs,       \* HTTP requests and CLI runs; each happens at most once
    NoInvite,   \* "no account has this username"
    Seeded,     \* account of a seed or of the time before invites
    NoName, NoEmail,
    Faulty      \* may a statement, an email or a process fail?

ASSUME InvitesAssumption ==
    /\ Faulty \in BOOLEAN
    /\ NoInvite \notin InviteIds /\ Seeded \notin InviteIds /\ NoInvite # Seeded
    /\ NoName \notin Names
    /\ NoEmail \notin Emails

VARIABLES
    invites,     \* status and address of each row
    redeemedBy,  \* invites.redeemed_by_user_id
    accounts,    \* users by username: the invite each account came from
    signedIn,    \* accounts with the session signup opens for them
    known,       \* codes that left the database: emailed, or printed as a link
    pc, loc      \* progress and local variables of each request

vars == <<invites, redeemedBy, accounts, signedIn, known, pc, loc>>

-----------------------------------------------------------------------------

Status == {"none", "requested", "approved", "denied", "redeemed"}
InviteRow == [st : Status, email : Emails \cup {NoEmail}]

PC == {"idle", "requestInsert", "approveMail", "cliMail", "mailFailed",
       "signupCreate", "signupMark", "signupSession", "done"}
Locals == [id : InviteIds \cup {NoInvite}, name : Names \cup {NoName},
           email : Emails \cup {NoEmail}]
NoLocals == [id |-> NoInvite, name |-> NoName, email |-> NoEmail]

Init ==
    /\ invites = [i \in InviteIds |-> [st |-> "none", email |-> NoEmail]]
    /\ redeemedBy = [i \in InviteIds |-> NoName]
    /\ accounts \in [Names -> {NoInvite, Seeded}]
    /\ signedIn = {}
    /\ known = {}
    /\ pc = [r \in Reqs |-> "idle"]
    /\ loc = [r \in Reqs |-> NoLocals]

Goto(r, from, to) ==
    /\ pc[r] = from
    /\ pc' = [pc EXCEPT ![r] = to]

\* The statement takes effect and the handler goes on, or (Faulty) it takes
\* effect but the handler gets an error and gives up.
GotoUnlessLost(r, from, to) ==
    \/ Goto(r, from, to)
    \/ Faulty /\ Goto(r, from, "done")

\* Outstanding: requested or approved, not yet redeemed.
Outstanding(i) == invites[i].st \in {"requested", "approved"}
HasOutstanding(e) == \E i \in InviteIds : invites[i].email = e /\ Outstanding(i)

\* UPDATE invites SET status = to WHERE ... AND status = from; affected one row.
\* FlipAny is the slip of leaving out the last condition.
FlipAny(i, from, to) ==
    /\ invites[i].st # "none"
    /\ invites' = [invites EXCEPT ![i].st = to]
Flip(i, from, to) ==
    /\ invites[i].st = from
    /\ invites' = [invites EXCEPT ![i].st = to]

\* The row CreateInviteRequest inserts.
NewInvite(e) == [st |-> "requested", email |-> e]

\* The UNIQUE index on users.username; AnyName is a table without it.
AnyName(n) == TRUE
NameFree(n) == accounts[n] = NoInvite

-----------------------------------------------------------------------------
(* RequestInvite: CreateInviteRequest counts, then inserts.                *)

\* A request for an address with an outstanding invite ends here unchanged.
RequestCount(r, e) ==
    /\ ~HasOutstanding(e)
    /\ Goto(r, "idle", "requestInsert")
    /\ loc' = [loc EXCEPT ![r].email = e]
    /\ UNCHANGED <<invites, redeemedBy, accounts, signedIn, known>>

RequestInsert(r, i) ==
    /\ Goto(r, "requestInsert", "done")
    /\ invites[i].st = "none"
    /\ invites' = [invites EXCEPT ![i] = NewInvite(loc[r].email)]
    /\ UNCHANGED <<redeemedBy, accounts, signedIn, known, loc>>

-----------------------------------------------------------------------------
(* decideInvite and what its three callers do with the answer.             *)

\* ApproveInviteRequest (to = "approveMail") or `be invite-approve` ("cliMail").
Approve(r, i, to) ==
    /\ GotoUnlessLost(r, "idle", to)
    /\ Flip(i, "requested", "approved")
    /\ loc' = [loc EXCEPT ![r].id = i]
    /\ UNCHANGED <<redeemedBy, accounts, signedIn, known>>

\* DenyInviteRequest or `be invite-deny`.
Deny(r, i) ==
    /\ Goto(r, "idle", "done")
    /\ Flip(i, "requested", "denied")
    /\ UNCHANGED <<redeemedBy, accounts, signedIn, known, loc>>

\* The invite email arrives.
ApproveMail(r) ==
    /\ Goto(r, "approveMail", "done") \/ Goto(r, "cliMail", "done")
    /\ known' = known \cup {loc[r].id}
    /\ UNCHANGED <<invites, redeemedBy, accounts, signedIn, loc>>

\* Sending fails in the handler: an error response and a log line with the address.
ApproveMailFails(r) ==
    /\ Faulty
    /\ Goto(r, "approveMail", "mailFailed")
    /\ UNCHANGED <<invites, redeemedBy, accounts, signedIn, known, loc>>

\* Sending fails in the command: it prints the link.
CliMailFails(r) ==
    /\ Faulty
    /\ Goto(r, "cliMail", "mailFailed")
    /\ known' = known \cup {loc[r].id}
    /\ UNCHANGED <<invites, redeemedBy, accounts, signedIn, loc>>

-----------------------------------------------------------------------------
(* UserCreate, past SignupLimiter (module AttemptLimiter).                 *)

\* RedeemInvite: the guarded UPDATE, and the SELECT of an address that no
\* statement changes.
Redeem(r, i, n) ==
    /\ i \in known
    /\ GotoUnlessLost(r, "idle", "signupCreate")
    /\ Flip(i, "approved", "redeemed")
    /\ loc' = [loc EXCEPT ![r] = [id |-> i, name |-> n, email |-> invites[i].email]]
    /\ UNCHANGED <<redeemedBy, accounts, signedIn, known>>

\* CreateUser: users.username is unique.
CreateUser(r) ==
    LET n == loc[r].name IN
    /\ GotoUnlessLost(r, "signupCreate", "signupMark")
    /\ NameFree(n)
    /\ accounts' = [accounts EXCEPT ![n] = loc[r].id]
    /\ UNCHANGED <<invites, redeemedBy, signedIn, known, loc>>

\* Duplicate username: the signup ends and its code stays redeemed.
UsernameTaken(r) ==
    /\ Goto(r, "signupCreate", "done")
    /\ ~NameFree(loc[r].name)
    /\ UNCHANGED <<invites, redeemedBy, accounts, signedIn, known, loc>>

\* MarkInviteRedeemedBy.
MarkRedeemedBy(r) ==
    /\ Goto(r, "signupMark", "signupSession")
    /\ redeemedBy' = [redeemedBy EXCEPT ![loc[r].id] = loc[r].name]
    /\ UNCHANGED <<invites, accounts, signedIn, known, loc>>

\* Its failure is logged and ignored.
MarkFails(r) ==
    /\ Faulty
    /\ Goto(r, "signupMark", "signupSession")
    /\ UNCHANGED <<invites, redeemedBy, accounts, signedIn, known, loc>>

\* CreateSession, which logs the new account in.
SignupSession(r) ==
    /\ Goto(r, "signupSession", "done")
    /\ signedIn' = signedIn \cup {loc[r].name}
    /\ UNCHANGED <<invites, redeemedBy, accounts, known, loc>>

-----------------------------------------------------------------------------

\* A statement failed, the context was cancelled, or the process died.
Abandon(r) ==
    /\ Faulty
    /\ pc[r] \notin {"idle", "done", "mailFailed"}
    /\ pc' = [pc EXCEPT ![r] = "done"]
    /\ UNCHANGED <<invites, redeemedBy, accounts, signedIn, known, loc>>

Request(r) ==
    \/ \E e \in Emails : RequestCount(r, e)
    \/ \E i \in InviteIds : RequestInsert(r, i)

Decide(r) ==
    \/ \E i \in InviteIds : Approve(r, i, "approveMail") \/ Approve(r, i, "cliMail") \/ Deny(r, i)
    \/ ApproveMail(r)
    \/ ApproveMailFails(r)
    \/ CliMailFails(r)

Signup(r) ==
    \/ \E i \in InviteIds, n \in Names : Redeem(r, i, n)
    \/ CreateUser(r)
    \/ UsernameTaken(r)
    \/ MarkRedeemedBy(r)
    \/ MarkFails(r)
    \/ SignupSession(r)

Next == \E r \in Reqs : Request(r) \/ Decide(r) \/ Signup(r) \/ Abandon(r)

Spec == Init /\ [][Next]_vars

-----------------------------------------------------------------------------

\* Every table and local variable holds a value of its type.
TypeOK ==
    /\ invites \in [InviteIds -> InviteRow]
    /\ redeemedBy \in [InviteIds -> Names \cup {NoName}]
    /\ accounts \in [Names -> InviteIds \cup {NoInvite, Seeded}]
    /\ signedIn \in SUBSET Names
    /\ known \in SUBSET InviteIds
    /\ pc \in [Reqs -> PC]
    /\ loc \in [Reqs -> Locals]

\* The handlers, the command line and every interleaving of them implement the
\* state machine of the invites table: in particular two redemptions of one code,
\* or an approval racing a denial, cannot both succeed, and a code whose signup
\* failed is never used for a second one.
Lifecycle == INSTANCE InviteLifecycle WITH
    status <- [i \in InviteIds |-> invites[i].st], owner <- accounts
ImplementsLifecycle == Lifecycle!LifecycleSpec

\* invite.go: "approving is the only thing that actually reveals a code to
\* anyone", and the code of a denied invite "never leaves the DB".
CodesSecretUntilApproved ==
    \A i \in known : invites[i].st \in {"approved", "redeemed"}

\* MarkInviteRedeemedBy records "who redeemed code": the audit trail may be
\* missing but never names an account that came from another invite, and only
\* accounts that exist are logged in by signup.
AuditTrailTruthful ==
    /\ \A i \in InviteIds : redeemedBy[i] # NoName => accounts[redeemedBy[i]] = i
    /\ \A n \in signedIn : accounts[n] \in InviteIds

-----------------------------------------------------------------------------
(* What the comments promise and the code does not keep.                   *)

\* ErrInviteRequestExists: "resubmitting the request form for the same address
\* shouldn't mint a second code for the owner to have to sort out".
OneOutstandingInvitePerEmail ==
    \A i, j \in InviteIds :
        Outstanding(i) /\ Outstanding(j) /\ invites[i].email = invites[j].email => i = j

\* ApproveInviteRequest, when the email failed: "The admin can still share the link
\* manually", "Check the server logs for the link": its code has left the database.
FailedMailLeavesLink ==
    \A r \in Reqs : pc[r] = "mailFailed" => loc[r].id \in known

=============================================================================
