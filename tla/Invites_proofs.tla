---------------------------- MODULE Invites_proofs ----------------------------
(***************************************************************************)
(* Proofs about Invites for any number of addresses, usernames, invites    *)
(* and requests, whatever fails: the implementation of the invites state   *)
(* machine, the secrecy of codes, the audit trail, and the finality of an  *)
(* approval whose email failed.  The inductive                             *)
(* invariant says that the request between the redemption of a code and    *)
(* the INSERT of its account is the only one holding that code, and that   *)
(* the code is redeemed and has no account yet.                            *)
(***************************************************************************)
EXTENDS Invites, TLAPS

HoldsCode == {"signupCreate", "signupMark", "signupSession"}
Approved == {"approveMail", "cliMail"}

RequestInv(r) ==
    /\ pc[r] \in HoldsCode \cup Approved => loc[r].id \in InviteIds
    /\ pc[r] \in Approved => invites[loc[r].id].st \in {"approved", "redeemed"}
    /\ pc[r] = "requestInsert" => loc[r].email \in Emails
    /\ pc[r] \in HoldsCode =>
        loc[r].name \in Names /\ invites[loc[r].id].st = "redeemed"
    /\ pc[r] = "signupCreate" => \A n \in Names : accounts[n] # loc[r].id
    /\ pc[r] \in {"signupMark", "signupSession"} => accounts[loc[r].name] = loc[r].id

OneHolder ==
    \A q, r \in Reqs :
        pc[q] \in HoldsCode /\ pc[r] \in HoldsCode /\ loc[q].id = loc[r].id => q = r

AccountsRedeemed ==
    \A n \in Names : accounts[n] \in InviteIds => invites[accounts[n]].st = "redeemed"

IInv ==
    /\ TypeOK
    /\ CodesSecretUntilApproved
    /\ AuditTrailTruthful
    /\ \A r \in Reqs : RequestInv(r)
    /\ OneHolder
    /\ AccountsRedeemed

-----------------------------------------------------------------------------

\* Goto and GotoUnlessLost move one request, to the label given or to the end.
LEMMA StepsTo ==
  ASSUME pc \in [Reqs -> PC], NEW r \in Reqs, NEW from, NEW to \in PC,
         GotoUnlessLost(r, from, to)
  PROVE  /\ pc[r] = from /\ pc' \in [Reqs -> PC] /\ pc'[r] \in {to, "done"}
         /\ \A q \in Reqs : q # r => pc'[q] = pc[q]
BY DEF GotoUnlessLost, Goto, PC

Flipped(i, from, to) ==
    /\ invites[i].st = from /\ invites'[i].st = to
    /\ invites' \in [InviteIds -> InviteRow]
    /\ \A j \in InviteIds :
        invites'[j].email = invites[j].email /\ (j # i => invites'[j] = invites[j])

\* The guarded UPDATE moves the status of one row and nothing else.
LEMMA FlipEffect ==
  ASSUME invites \in [InviteIds -> InviteRow], NEW i \in InviteIds,
         NEW from, NEW to \in Status, Flip(i, from, to)
  PROVE  Flipped(i, from, to)
BY DEF Flip, Flipped, InviteRow

-----------------------------------------------------------------------------

\* One request holds a redeemed code, its account does not exist until it made it.
THEOREM InductiveInvariant == Spec => []IInv
<1> USE InvitesAssumption
<1>1. Init => IInv
  BY DEF Init, IInv, TypeOK, CodesSecretUntilApproved, AuditTrailTruthful, RequestInv,
         OneHolder, AccountsRedeemed, HoldsCode, Approved, InviteRow, Status, PC, Locals, NoLocals
<1>2. IInv /\ [Next]_vars => IInv'
  <2> SUFFICES ASSUME IInv, [Next]_vars PROVE IInv'  OBVIOUS
  <2> USE DEF IInv, TypeOK, CodesSecretUntilApproved, AuditTrailTruthful, RequestInv,
             OneHolder, AccountsRedeemed, HoldsCode, Approved, InviteRow, Status, PC, Locals, NoLocals
  <2>1. ASSUME NEW r \in Reqs, NEW e \in Emails, RequestCount(r, e)
        PROVE  IInv'
    BY <2>1 DEF RequestCount, Goto
  <2>2. ASSUME NEW r \in Reqs, NEW i \in InviteIds, RequestInsert(r, i)
        PROVE  IInv'
    BY <2>2 DEF RequestInsert, NewInvite, Goto
  <2>3. ASSUME NEW r \in Reqs, NEW i \in InviteIds, NEW to \in Approved, Approve(r, i, to)
        PROVE  IInv'
    <3>1. /\ pc[r] = "idle" /\ pc' \in [Reqs -> PC] /\ pc'[r] \in {to, "done"}
          /\ \A q \in Reqs : q # r => pc'[q] = pc[q] /\ loc'[q] = loc[q]
      BY <2>3, StepsTo DEF Approve
    <3>2. /\ loc' \in [Reqs -> Locals] /\ loc'[r] = [loc[r] EXCEPT !.id = i]
          /\ UNCHANGED <<redeemedBy, accounts, signedIn, known>>
      BY <2>3 DEF Approve
    <3>3. Flipped(i, "requested", "approved")
      BY <2>3, FlipEffect DEF Approve
    <3>4. TypeOK' /\ CodesSecretUntilApproved' /\ AuditTrailTruthful'
      BY <3>1, <3>2, <3>3 DEF Flipped
    <3>5. RequestInv(r)'
      BY <3>1, <3>2, <3>3 DEF Flipped
    <3>6. ASSUME NEW q \in Reqs, q # r PROVE RequestInv(q)'
      BY <3>1, <3>2, <3>3, <3>6 DEF Flipped
    <3>7. OneHolder'
      <4>1. \A q \in Reqs : pc'[q] \in HoldsCode => pc'[q] = pc[q] /\ loc'[q] = loc[q]
        BY <3>1
      <4>2. QED
        BY <4>1
    <3>8. AccountsRedeemed'
      <4>1. \A j \in InviteIds : invites[j].st = "redeemed" => invites'[j].st = "redeemed"
        BY <3>3 DEF Flipped
      <4>2. QED
        BY <3>2, <4>1
    <3>9. QED
      BY <3>4, <3>5, <3>6, <3>7, <3>8
  <2>4. ASSUME NEW r \in Reqs, NEW i \in InviteIds, Deny(r, i)
        PROVE  IInv'
    <3>1. /\ pc[r] = "idle" /\ pc' \in [Reqs -> PC] /\ pc'[r] = "done"
          /\ \A q \in Reqs : q # r => pc'[q] = pc[q]
          /\ UNCHANGED <<redeemedBy, accounts, signedIn, known, loc>>
      BY <2>4 DEF Deny, Goto
    <3>2. Flipped(i, "requested", "denied")
      BY <2>4, FlipEffect DEF Deny
    <3>3. \A j \in InviteIds : invites[j].st \in {"approved", "redeemed"} =>
            invites'[j] = invites[j]
      BY <3>2 DEF Flipped
    <3>4. TypeOK' /\ CodesSecretUntilApproved' /\ AuditTrailTruthful'
      BY <3>1, <3>2, <3>3 DEF Flipped
    <3>5. ASSUME NEW q \in Reqs PROVE RequestInv(q)'
      BY <3>1, <3>3
    <3>6. OneHolder' /\ AccountsRedeemed'
      BY <3>1, <3>3
    <3>7. QED
      BY <3>4, <3>5, <3>6
  <2>5. ASSUME NEW r \in Reqs, ApproveMail(r)
        PROVE  IInv'
    <3>1. /\ pc[r] \in Approved /\ pc' \in [Reqs -> PC] /\ pc'[r] = "done"
          /\ \A q \in Reqs : q # r => pc'[q] = pc[q]
          /\ known' = known \cup {loc[r].id}
          /\ UNCHANGED <<invites, redeemedBy, accounts, signedIn, loc>>
      BY <2>5 DEF ApproveMail, Goto
    <3>2. QED
      BY <3>1
  <2>6. ASSUME NEW r \in Reqs, ApproveMailFails(r)
        PROVE  IInv'
    BY <2>6 DEF ApproveMailFails, Goto
  <2>7. ASSUME NEW r \in Reqs, CliMailFails(r)
        PROVE  IInv'
    BY <2>7 DEF CliMailFails, Goto
  <2>8. ASSUME NEW r \in Reqs, NEW i \in InviteIds, NEW n \in Names, Redeem(r, i, n)
        PROVE  IInv'
    <3>1. /\ pc[r] = "idle" /\ pc' \in [Reqs -> PC] /\ pc'[r] \in {"signupCreate", "done"}
          /\ \A q \in Reqs : q # r => pc'[q] = pc[q] /\ loc'[q] = loc[q]
      BY <2>8, StepsTo DEF Redeem
    <3>2. /\ loc' \in [Reqs -> Locals] /\ loc'[r].id = i /\ loc'[r].name = n
          /\ UNCHANGED <<redeemedBy, accounts, signedIn, known>>
      BY <2>8 DEF Redeem
    <3>3. Flipped(i, "approved", "redeemed")
      BY <2>8, FlipEffect DEF Redeem
    <3>4. TypeOK' /\ CodesSecretUntilApproved' /\ AuditTrailTruthful'
      BY <3>1, <3>2, <3>3 DEF Flipped
    <3>5. \A q \in Reqs : pc[q] \in HoldsCode => loc[q].id # i
      BY <3>3 DEF Flipped
    <3>6. RequestInv(r)'
      <4>1. pc'[r] \in {"signupCreate", "done"} /\ loc'[r].id = i /\ loc'[r].name = n
        BY <3>1, <3>2
      <4>2. invites[i].st = "approved" /\ invites'[i].st = "redeemed" /\ accounts' = accounts
        BY <3>2, <3>3 DEF Flipped
      <4>3. \A m \in Names : accounts'[m] # i
        BY <4>2
      <4>4. QED
        BY <4>1, <4>2, <4>3
    <3>7. ASSUME NEW q \in Reqs, q # r PROVE RequestInv(q)'
      <4>1. pc'[q] = pc[q] /\ loc'[q] = loc[q] /\ accounts' = accounts
        BY <3>1, <3>2, <3>7
      <4>2. \A j \in InviteIds :
              /\ invites[j].st = "redeemed" => invites'[j].st = "redeemed"
              /\ invites[j].st = "approved" => invites'[j].st \in {"approved", "redeemed"}
        BY <3>3 DEF Flipped
      <4>3. QED
        BY <4>1, <4>2
    <3>8. OneHolder'
      BY <3>1, <3>2, <3>5
    <3>9. AccountsRedeemed'
      <4>1. \A j \in InviteIds : invites[j].st = "redeemed" => invites'[j].st = "redeemed"
        BY <3>3 DEF Flipped
      <4>2. QED
        BY <3>2, <4>1
    <3>10. QED
      BY <3>4, <3>6, <3>7, <3>8, <3>9
  <2>9. ASSUME NEW r \in Reqs, CreateUser(r)
        PROVE  IInv'
    <3>1. /\ pc[r] = "signupCreate" /\ pc' \in [Reqs -> PC] /\ pc'[r] \in {"signupMark", "done"}
          /\ \A q \in Reqs : q # r => pc'[q] = pc[q]
      BY <2>9, StepsTo DEF CreateUser
    <3>2. /\ accounts[loc[r].name] = NoInvite
          /\ accounts' = [accounts EXCEPT ![loc[r].name] = loc[r].id]
          /\ UNCHANGED <<invites, redeemedBy, signedIn, known, loc>>
      BY <2>9 DEF CreateUser, NameFree
    <3>3. TypeOK' /\ CodesSecretUntilApproved' /\ AuditTrailTruthful'
      BY <3>1, <3>2
    <3>4. QED
      BY <3>1, <3>2, <3>3
  <2>10. ASSUME NEW r \in Reqs, UsernameTaken(r)
        PROVE  IInv'
    BY <2>10 DEF UsernameTaken, Goto
  <2>11. ASSUME NEW r \in Reqs, MarkRedeemedBy(r)
        PROVE  IInv'
    BY <2>11 DEF MarkRedeemedBy, Goto
  <2>12. ASSUME NEW r \in Reqs, MarkFails(r)
        PROVE  IInv'
    BY <2>12 DEF MarkFails, Goto
  <2>13. ASSUME NEW r \in Reqs, SignupSession(r)
        PROVE  IInv'
    BY <2>13 DEF SignupSession, Goto
  <2>14. ASSUME NEW r \in Reqs, Abandon(r)
        PROVE  IInv'
    BY <2>14 DEF Abandon
  <2>15. CASE UNCHANGED vars
    BY <2>15 DEF vars
  <2>16. QED
    BY <2>1, <2>2, <2>3, <2>4, <2>5, <2>6, <2>7, <2>8,
       <2>9, <2>10, <2>11, <2>12, <2>13, <2>14, <2>15
    DEF Next, Request, Decide, Signup, Approved
<1>3. QED
  BY <1>1, <1>2, PTL DEF Spec

\* Every table and local variable always holds a value of its type.
THEOREM TypeCorrect == Spec => []TypeOK
BY InductiveInvariant, PTL DEF IInv

\* Only approval reveals a code, and a denied code never leaves the database.
THEOREM CodesSecret == Spec => []CodesSecretUntilApproved
BY InductiveInvariant, PTL DEF IInv

\* redeemed_by_user_id never names an account made with another invite.
THEOREM AuditTrail == Spec => []AuditTrailTruthful
BY InductiveInvariant, PTL DEF IInv

\* A guarded UPDATE is a move of the state machine.
LEMMA FlipMoves ==
  ASSUME invites \in [InviteIds -> InviteRow], NEW i \in InviteIds,
         NEW from, NEW to \in Status, Flip(i, from, to), UNCHANGED accounts
  PROVE  Lifecycle!Move(i, from, to)
<1> DEFINE status == [x \in InviteIds |-> invites[x].st]
<1>1. Flipped(i, from, to)
  BY FlipEffect
<1>2. status' = [status EXCEPT ![i] = to]
  BY <1>1 DEF Flipped
<1>3. QED
  BY <1>1, <1>2 DEF Flipped, Lifecycle!Move

\* Handlers and command line implement the state machine of the invites table,
\* with at most one account per redeemed invite.
THEOREM Refinement == Spec => ImplementsLifecycle
<1> USE InvitesAssumption
<1>1. Init => Lifecycle!LifecycleInit
  BY DEF Init, Lifecycle!LifecycleInit
<1>2. IInv /\ [Next]_vars => [Lifecycle!LifecycleNext]_(Lifecycle!lifecycle)
  <2> SUFFICES ASSUME IInv, [Next]_vars
               PROVE  Lifecycle!LifecycleNext \/ UNCHANGED Lifecycle!lifecycle
    OBVIOUS
  <2> DEFINE Step == Lifecycle!LifecycleNext \/ UNCHANGED Lifecycle!lifecycle
  <2> USE DEF IInv, TypeOK, InviteRow, HoldsCode, Lifecycle!LifecycleNext, Lifecycle!Move,
             Lifecycle!Join, Lifecycle!lifecycle
  <2>1. ASSUME NEW r \in Reqs, NEW e \in Emails, RequestCount(r, e)
        PROVE  Step
    BY <2>1 DEF RequestCount, Goto
  <2>2. ASSUME NEW r \in Reqs, NEW i \in InviteIds, RequestInsert(r, i)
        PROVE  Step
    BY <2>2 DEF RequestInsert, NewInvite, Goto
  <2>3. ASSUME NEW r \in Reqs, NEW i \in InviteIds, NEW to \in Approved, Approve(r, i, to)
        PROVE  Step
    BY <2>3, FlipMoves DEF Approve, Status
  <2>4. ASSUME NEW r \in Reqs, NEW i \in InviteIds, Deny(r, i)
        PROVE  Step
    BY <2>4, FlipMoves DEF Deny, Status
  <2>5. ASSUME NEW r \in Reqs, ApproveMail(r)
        PROVE  Step
    BY <2>5 DEF ApproveMail, Goto
  <2>6. ASSUME NEW r \in Reqs, ApproveMailFails(r)
        PROVE  Step
    BY <2>6 DEF ApproveMailFails, Goto
  <2>7. ASSUME NEW r \in Reqs, CliMailFails(r)
        PROVE  Step
    BY <2>7 DEF CliMailFails, Goto
  <2>8. ASSUME NEW r \in Reqs, NEW i \in InviteIds, NEW n \in Names, Redeem(r, i, n)
        PROVE  Step
    BY <2>8, FlipMoves DEF Redeem, Status
  <2>9. ASSUME NEW r \in Reqs, CreateUser(r)
        PROVE  Step
    <3>1. /\ pc[r] = "signupCreate"
          /\ accounts[loc[r].name] = NoInvite
          /\ accounts' = [accounts EXCEPT ![loc[r].name] = loc[r].id]
          /\ invites' = invites
      BY <2>9 DEF CreateUser, NameFree, Goto, GotoUnlessLost
    <3>2. /\ loc[r].id \in InviteIds /\ loc[r].name \in Names
          /\ invites[loc[r].id].st = "redeemed"
          /\ \A n \in Names : accounts[n] # loc[r].id
      BY <3>1 DEF RequestInv
    <3>3. Lifecycle!Join(loc[r].id, loc[r].name)
      BY <3>1, <3>2
    <3>4. QED
      BY <3>2, <3>3
  <2>10. ASSUME NEW r \in Reqs, UsernameTaken(r)
        PROVE  Step
    BY <2>10 DEF UsernameTaken, Goto
  <2>11. ASSUME NEW r \in Reqs, MarkRedeemedBy(r)
        PROVE  Step
    BY <2>11 DEF MarkRedeemedBy, Goto
  <2>12. ASSUME NEW r \in Reqs, MarkFails(r)
        PROVE  Step
    BY <2>12 DEF MarkFails, Goto
  <2>13. ASSUME NEW r \in Reqs, SignupSession(r)
        PROVE  Step
    BY <2>13 DEF SignupSession, Goto
  <2>14. ASSUME NEW r \in Reqs, Abandon(r)
        PROVE  Step
    BY <2>14 DEF Abandon
  <2>15. CASE UNCHANGED vars
    BY <2>15 DEF vars
  <2>16. QED
    BY <2>1, <2>2, <2>3, <2>4, <2>5, <2>6, <2>7, <2>8,
       <2>9, <2>10, <2>11, <2>12, <2>13, <2>14, <2>15
    DEF Next, Request, Decide, Signup, Approved
<1>3. QED
  BY <1>1, <1>2, InductiveInvariant, PTL DEF Spec, ImplementsLifecycle, Lifecycle!LifecycleSpec

-----------------------------------------------------------------------------

\* What FailedMailLeavesLink is wrong about costs the address its invite: an approval
\* whose code nobody heard of is final.  No step of the program makes the code known,
\* takes the approval back, or lets the address ask for another one.
Unheard(i) ==
    /\ invites[i].st = "approved" /\ i \notin known
    /\ \A r \in Reqs : pc[r] \in {"approveMail", "cliMail"} => loc[r].id # i
CodeStaysLost ==
    [][\A i \in InviteIds : Unheard(i) =>
         /\ Unheard(i)'
         /\ \A r \in Reqs : pc[r] = "idle" /\ pc'[r] = "requestInsert"
                              => loc'[r].email # invites[i].email]_vars

\* What a request step can leave of an approval that nobody heard of: the row as
\* it was, the code unknown, and no mail on its way with it.
Kept(i) ==
    /\ invites'[i] = invites[i] /\ i \notin known'
    /\ \A q \in Reqs : pc'[q] \in Approved => loc'[q].id # i
    /\ \A q \in Reqs : pc'[q] = "requestInsert" =>
        pc[q] = "requestInsert" \/ loc'[q].email # invites[i].email

\* Each step of a request keeps it: the guarded UPDATEs move rows in another
\* state, mails carry other codes, and the address counts as outstanding.
LEMMA UnheardStep ==
  ASSUME IInv, [Next]_vars, NEW i \in InviteIds, Unheard(i)
  PROVE  Kept(i)
<1> USE DEF Kept, Unheard, Approved
<1>0. /\ TypeOK /\ invites[i].st = "approved" /\ i \notin known
      /\ \A q \in Reqs : pc[q] \in Approved => loc[q].id # i
  BY DEF IInv
<1>1. ASSUME NEW r \in Reqs, NEW e \in Emails, RequestCount(r, e)
      PROVE  Kept(i)
  <2>1. e # invites[i].email
    BY <1>0, <1>1 DEF RequestCount, HasOutstanding, Outstanding
  <2>2. QED
    BY <1>0, <1>1, <2>1 DEF RequestCount, Goto, TypeOK, Locals
<1>2. ASSUME NEW r \in Reqs, NEW j \in InviteIds, RequestInsert(r, j)
      PROVE  Kept(i)
  BY <1>0, <1>2 DEF RequestInsert, Goto, TypeOK
<1>3. ASSUME NEW r \in Reqs, NEW j \in InviteIds, NEW to \in Approved, Approve(r, j, to)
      PROVE  Kept(i)
  <2>1. /\ pc' \in [Reqs -> PC] /\ pc'[r] \in {to, "done"}
        /\ \A q \in Reqs : q # r => pc'[q] = pc[q] /\ loc'[q] = loc[q]
        /\ loc'[r].id = j /\ known' = known
    BY <1>0, <1>3, StepsTo DEF Approve, TypeOK, PC, Locals
  <2>2. Flipped(j, "requested", "approved")
    BY <1>0, <1>3, FlipEffect DEF Approve, TypeOK, Status
  <2>3. j # i /\ invites'[i] = invites[i]
    BY <1>0, <2>2 DEF Flipped
  <2>4. QED
    BY <1>0, <2>1, <2>3
<1>4. ASSUME NEW r \in Reqs, NEW j \in InviteIds, Deny(r, j)
      PROVE  Kept(i)
  BY <1>0, <1>4 DEF Deny, Goto, Flip, TypeOK
<1>5. ASSUME NEW r \in Reqs, ApproveMail(r)
      PROVE  Kept(i)
  BY <1>0, <1>5 DEF ApproveMail, Goto, TypeOK
<1>6. ASSUME NEW r \in Reqs, ApproveMailFails(r)
      PROVE  Kept(i)
  BY <1>0, <1>6 DEF ApproveMailFails, Goto, TypeOK
<1>7. ASSUME NEW r \in Reqs, CliMailFails(r)
      PROVE  Kept(i)
  BY <1>0, <1>7 DEF CliMailFails, Goto, TypeOK
<1>8. ASSUME NEW r \in Reqs, NEW j \in InviteIds, NEW n \in Names, Redeem(r, j, n)
      PROVE  Kept(i)
  <2>1. /\ pc'[r] \in {"signupCreate", "done"}
        /\ \A q \in Reqs : q # r => pc'[q] = pc[q] /\ loc'[q] = loc[q]
        /\ j \in known /\ known' = known
    BY <1>0, <1>8, StepsTo DEF Redeem, TypeOK, PC
  <2>2. Flipped(j, "approved", "redeemed")
    BY <1>0, <1>8, FlipEffect DEF Redeem, TypeOK, Status
  <2>3. j # i /\ invites'[i] = invites[i]
    BY <1>0, <2>1, <2>2 DEF Flipped
  <2>4. QED
    BY <1>0, <2>1, <2>3
<1>9. ASSUME NEW r \in Reqs, CreateUser(r)
      PROVE  Kept(i)
  BY <1>0, <1>9 DEF CreateUser, GotoUnlessLost, Goto, TypeOK
<1>10. ASSUME NEW r \in Reqs, UsernameTaken(r)
       PROVE  Kept(i)
  BY <1>0, <1>10 DEF UsernameTaken, Goto, TypeOK
<1>11. ASSUME NEW r \in Reqs, MarkRedeemedBy(r)
       PROVE  Kept(i)
  BY <1>0, <1>11 DEF MarkRedeemedBy, Goto, TypeOK
<1>12. ASSUME NEW r \in Reqs, MarkFails(r)
       PROVE  Kept(i)
  BY <1>0, <1>12 DEF MarkFails, Goto, TypeOK
<1>13. ASSUME NEW r \in Reqs, SignupSession(r)
       PROVE  Kept(i)
  BY <1>0, <1>13 DEF SignupSession, Goto, TypeOK
<1>14. ASSUME NEW r \in Reqs, Abandon(r)
       PROVE  Kept(i)
  BY <1>0, <1>14 DEF Abandon, TypeOK
<1>15. CASE UNCHANGED vars
  BY <1>0, <1>15 DEF vars
<1>16. QED
  BY <1>1, <1>2, <1>3, <1>4, <1>5, <1>6, <1>7, <1>8,
     <1>9, <1>10, <1>11, <1>12, <1>13, <1>14, <1>15
  DEF Next, Request, Decide, Signup

\* An approval whose email failed is final: the code is never heard of, and the
\* address never asks for another one.
THEOREM LostForGood == Spec => CodeStaysLost
<1> DEFINE Lost == \A i \in InviteIds : Unheard(i) =>
             /\ Unheard(i)'
             /\ \A r \in Reqs : pc[r] = "idle" /\ pc'[r] = "requestInsert"
                                  => loc'[r].email # invites[i].email
<1>1. IInv /\ [Next]_vars => [Lost]_vars
  <2> SUFFICES ASSUME IInv, [Next]_vars, NEW i \in InviteIds, Unheard(i)
               PROVE  /\ Unheard(i)'
                      /\ \A r \in Reqs : pc[r] = "idle" /\ pc'[r] = "requestInsert"
                                           => loc'[r].email # invites[i].email
    OBVIOUS
  <2>1. Kept(i)
    BY UnheardStep
  <2>2. QED
    BY <2>1 DEF Kept, Unheard, Approved
<1>2. QED
  BY <1>1, InductiveInvariant, PTL DEF Spec, CodeStaysLost

=============================================================================
