--------------------------- MODULE Accounts_proofs ---------------------------
(***************************************************************************)
(* Proofs about what a login runs through: Accounts, for any number of     *)
(* accounts, requests, session and reset tokens, whatever fails, and       *)
(* AttemptLimiter, for any number of keys and callers and any limits.      *)
(***************************************************************************)
EXTENDS Accounts, AttemptLimiter, FiniteSetTheorems, TLAPS

-----------------------------------------------------------------------------
(* Accounts.  The inductive invariant is built in three layers: the locals *)
(* of a request in flight name rows that exist (Shape); the hashes sessions*)
(* and requests rest on are related to the cutoff of the last revocation   *)
(* (Outran); and a reset token is held by one request at a time and is the *)
(* latest of its account while open (Tokens).                              *)

\* The handlers past the step that resolved the account they act on.
Resolved == PC \ {"idle", "logoutDelete", "done"}

Shape ==
    /\ TypeOK
    /\ \A r \in Reqs :
        /\ pc[r] \in Resolved => loc[r].user \in Users
        /\ pc[r] = "idle" => loc[r] = NoLocals
        /\ pc[r] \in {"logoutDelete", "changeVerify", "changeWrite", "changeRevoke"} =>
              loc[r].sid \in SessionIds
        /\ pc[r] \in {"resetWrite", "resetRevoke"} => loc[r].sid = NoSession
        /\ pc[r] \in {"forgotMail", "resetWrite"} => loc[r].link \in ResetIds
    /\ \A s \in SessionIds : sessions[s].st # "none" => sessions[s].user \in Users
    /\ \A t \in ResetIds : resets[t].st # "none" => resets[t].user \in Users

Outran ==
    /\ \A u \in Users : cutoff[u] <= password[u]
    /\ \A r \in Reqs :
        pc[r] \in {"loginCreate", "changeRevoke", "resetRevoke", "resetCreate"} =>
            loc[r].seen <= password[loc[r].user]
    /\ \A r \in Reqs :
        pc[r] \in {"loginCreate", "resetRevoke", "resetCreate"} =>
            loc[r].seen >= cutoff[loc[r].user] \/ loc[r].late
    /\ LateSessionsOnly

Tokens ==
    /\ OnlyLatestLinkWorks
    /\ ResetTokenActsOnce
    /\ \A u \in Users : latest[u] # NoReset =>
        resets[latest[u]].st # "none" /\ resets[latest[u]].user = u
    /\ \A t \in ResetIds : resets[t].st # "used" => spent[t] = 0
    /\ \A r \in Reqs : pc[r] = "resetWrite" =>
        resets[loc[r].link].st = "used" /\ spent[loc[r].link] = 0
    /\ \A q, r \in Reqs :
        pc[q] = "resetWrite" /\ pc[r] = "resetWrite" /\ loc[q].link = loc[r].link => q = r

-----------------------------------------------------------------------------

\* What the DELETE of a revocation leaves of sessions, cutoff and the requests,
\* field by field.
LEMMA RevokeEffect ==
    ASSUME TypeOK, NEW r \in Reqs, NEW keep, loc[r].user \in Users, Revoke(r, keep)
    PROVE  LET u == loc[r].user
               n == loc[r].seen
           IN  /\ sessions' \in [SessionIds -> SessionRow]
               /\ loc' \in [Reqs -> Locals]
               /\ cutoff' = [cutoff EXCEPT ![u] = Later(@, n)]
               /\ cutoff' \in [Users -> Nat]
               /\ \A q \in Reqs :
                   /\ loc'[q].user = loc[q].user /\ loc'[q].sid = loc[q].sid
                   /\ loc'[q].link = loc[q].link /\ loc'[q].seen = loc[q].seen
                   /\ loc'[q].late = (loc[q].late \/ q \in Outrun(u, n))
                   /\ q \notin Outrun(u, n) => loc'[q] = loc[q]
               /\ \A s \in SessionIds :
                   /\ sessions'[s].user = sessions[s].user
                   /\ sessions'[s].late = sessions[s].late
                   /\ sessions'[s].auth =
                        (IF ~Revokes(s, u, keep) /\ s = keep
                         THEN Later(sessions[s].auth, n) ELSE sessions[s].auth)
                   /\ sessions'[s].st =
                        (IF Revokes(s, u, keep) THEN "revoked" ELSE sessions[s].st)
<1> DEFINE u == loc[r].user
           n == loc[r].seen
<1>1. u \in Users /\ n \in Nat
  BY DEF TypeOK, Locals
<1>2. \A a, b \in Nat : Later(a, b) \in Nat
  BY DEF Later
<1>3. cutoff' = [cutoff EXCEPT ![u] = Later(@, n)] /\ cutoff' \in [Users -> Nat]
  BY <1>1, <1>2 DEF Revoke, TypeOK
<1>4. /\ loc' \in [Reqs -> Locals]
      /\ \A q \in Reqs :
          /\ loc'[q].user = loc[q].user /\ loc'[q].sid = loc[q].sid
          /\ loc'[q].link = loc[q].link /\ loc'[q].seen = loc[q].seen
          /\ loc'[q].late = (loc[q].late \/ q \in Outrun(u, n))
          /\ q \notin Outrun(u, n) => loc'[q] = loc[q]
  <2>1. loc' = [q \in Reqs |->
             IF q \in Outrun(u, n) THEN [loc[q] EXCEPT !.late = TRUE] ELSE loc[q]]
    BY DEF Revoke
  <2>2. ASSUME NEW q \in Reqs
        PROVE  /\ loc'[q] \in Locals
               /\ loc'[q].user = loc[q].user /\ loc'[q].sid = loc[q].sid
               /\ loc'[q].link = loc[q].link /\ loc'[q].seen = loc[q].seen
               /\ loc'[q].late = (loc[q].late \/ q \in Outrun(u, n))
    <3>1. loc[q] \in Locals
      BY DEF TypeOK
    <3>2. CASE q \in Outrun(u, n)
      BY <2>1, <3>1, <3>2 DEF Locals
    <3>3. CASE q \notin Outrun(u, n)
      BY <2>1, <3>1, <3>3 DEF Locals
    <3>4. QED
      BY <3>2, <3>3
  <2>3. QED
    BY <2>1, <2>2
<1>5. /\ sessions' \in [SessionIds -> SessionRow]
      /\ \A s \in SessionIds :
          /\ sessions'[s].user = sessions[s].user
          /\ sessions'[s].late = sessions[s].late
          /\ sessions'[s].auth =
               (IF ~Revokes(s, u, keep) /\ s = keep
                THEN Later(sessions[s].auth, n) ELSE sessions[s].auth)
          /\ sessions'[s].st =
               (IF Revokes(s, u, keep) THEN "revoked" ELSE sessions[s].st)
  <2>1. sessions' = [s \in SessionIds |->
             IF Revokes(s, u, keep) THEN [sessions[s] EXCEPT !.st = "revoked"]
             ELSE IF s = keep THEN [sessions[s] EXCEPT !.auth = Later(@, n)]
             ELSE sessions[s]]
    BY DEF Revoke
  <2>2. ASSUME NEW s \in SessionIds
        PROVE  /\ sessions'[s] \in SessionRow
               /\ sessions'[s].user = sessions[s].user
               /\ sessions'[s].late = sessions[s].late
               /\ sessions'[s].auth =
                    (IF ~Revokes(s, u, keep) /\ s = keep
                     THEN Later(sessions[s].auth, n) ELSE sessions[s].auth)
               /\ sessions'[s].st =
                    (IF Revokes(s, u, keep) THEN "revoked" ELSE sessions[s].st)
    <3>1. sessions[s] \in SessionRow /\ Later(sessions[s].auth, n) \in Nat
      BY <1>1, <1>2 DEF TypeOK, SessionRow
    <3>2. CASE Revokes(s, u, keep)
      BY <2>1, <3>1, <3>2 DEF SessionRow, SessionStatus
    <3>3. CASE ~Revokes(s, u, keep) /\ s = keep
      BY <2>1, <3>1, <3>3 DEF SessionRow, SessionStatus
    <3>4. CASE ~Revokes(s, u, keep) /\ s # keep
      BY <2>1, <3>1, <3>4
    <3>5. QED
      BY <3>2, <3>3, <3>4
  <2>3. QED
    BY <2>1, <2>2
<1>6. QED
  BY <1>3, <1>4, <1>5

\* What storing a password leaves of password and of the request that did it.
LEMMA StoreEffect ==
    ASSUME TypeOK, NEW r \in Reqs, loc[r].user \in Users, StorePassword(loc[r].user),
           loc' = [loc EXCEPT ![r].seen = password'[loc[r].user]]
    PROVE  /\ password' \in [Users -> Nat \ {0}]
           /\ password'[loc[r].user] = password[loc[r].user] + 1
           /\ \A u \in Users : u # loc[r].user => password'[u] = password[u]
           /\ loc' \in [Reqs -> Locals]
           /\ loc'[r].seen = password'[loc[r].user]
           /\ loc'[r].user = loc[r].user /\ loc'[r].sid = loc[r].sid
           /\ loc'[r].link = loc[r].link /\ loc'[r].late = loc[r].late
           /\ \A q \in Reqs : q # r => loc'[q] = loc[q]
<1>1. password' \in [Users -> Nat \ {0}]
  BY DEF TypeOK, StorePassword
<1>2. /\ password'[loc[r].user] = password[loc[r].user] + 1
      /\ \A u \in Users : u # loc[r].user => password'[u] = password[u]
  BY DEF TypeOK, StorePassword
<1>3. loc[r] \in Locals /\ password'[loc[r].user] \in Nat
  BY <1>1 DEF TypeOK
<1> DEFINE n == password'[loc[r].user]
<1>4. /\ loc'[r] = [loc[r] EXCEPT !.seen = n]
      /\ \A q \in Reqs : q # r => loc'[q] = loc[q]
  BY DEF TypeOK
<1>5. [loc[r] EXCEPT !.seen = n] \in Locals
  BY <1>3 DEF Locals
<1>6. loc' \in [Reqs -> Locals]
  BY <1>4, <1>5 DEF TypeOK
<1> HIDE DEF n
<1>7. QED
  BY <1>1, <1>2, <1>3, <1>4, <1>6 DEF Locals, n

\* Rows and locals stay of their types when a field changes.
LEMMA FieldTypes ==
    ASSUME TypeOK
    PROVE  /\ \A s \in SessionIds, x \in SessionStatus :
                [sessions[s] EXCEPT !.st = x] \in SessionRow
           /\ \A r \in Reqs, n \in Nat : [loc[r] EXCEPT !.seen = n] \in Locals
<1>1. \A s \in SessionIds, x \in SessionStatus : [sessions[s] EXCEPT !.st = x] \in SessionRow
  BY DEF TypeOK, SessionRow
<1>2. \A r \in Reqs, n \in Nat : [loc[r] EXCEPT !.seen = n] \in Locals
  BY DEF TypeOK, Locals
<1>3. QED
  BY <1>1, <1>2

\* Every variable keeps its type and every request in flight keeps hold of an
\* existing account, session and token.
THEOREM ShapeInvariant == Spec => []Shape
<1> USE AccountsAssumption
<1>1. Init => Shape
  BY DEF Init, Shape, TypeOK, Resolved, PC, SessionRow, SessionStatus, NoRow,
         ResetRow, ResetStatus, Locals, NoLocals
<1>2. Shape /\ [Next]_vars => Shape'
  <2> SUFFICES ASSUME Shape, [Next]_vars PROVE Shape'  OBVIOUS
  <2> USE DEF Shape, TypeOK, Resolved, PC, SessionRow, SessionStatus, ResetRow, ResetStatus,
             Locals, NoLocals, db, clients, history
  <2>1. ASSUME NEW r \in Reqs, NEW u \in Users, LoginVerify(r, u)
        PROVE  Shape'
    BY <2>1 DEF LoginVerify, Goto
  <2>2. ASSUME NEW r \in Reqs, NEW s \in SessionIds, LoginCreate(r, s)
        PROVE  Shape'
    BY <2>2 DEF LoginCreate, Goto, OpenSession
  <2>3. ASSUME NEW r \in Reqs, NEW s \in SessionIds, LogoutAuth(r, s)
        PROVE  Shape'
    BY <2>3 DEF LogoutAuth, Goto, ValidSession
  <2>4. ASSUME NEW r \in Reqs, LogoutDelete(r)
        PROVE  Shape'
    <3>1. /\ sessions' \in [SessionIds -> SessionRow]
          /\ \A s \in SessionIds :
              /\ sessions'[s].user = sessions[s].user
              /\ sessions'[s].st # "none" => sessions[s].st # "none"
      <4>1. loc[r].sid \in SessionIds
        BY <2>4 DEF LogoutDelete, Goto
      <4>2. "ended" \in SessionStatus /\ TypeOK
        OBVIOUS
      <4> HIDE DEF TypeOK, SessionRow, SessionStatus
      <4>3. [sessions[loc[r].sid] EXCEPT !.st = "ended"] \in SessionRow
        BY <4>1, <4>2, FieldTypes
      <4> USE DEF TypeOK, SessionRow, SessionStatus
      <4>4. QED
        BY <2>4, <4>1, <4>3 DEF LogoutDelete, InTable
    <3>2. /\ pc' \in [Reqs -> PC] /\ pc'[r] = "done"
          /\ \A q \in Reqs : q # r => pc'[q] = pc[q]
          /\ UNCHANGED <<password, resets, clients, loc, history>>
      BY <2>4 DEF LogoutDelete, Goto
    <3>3. QED
      BY <3>1, <3>2
  <2>5. ASSUME NEW r \in Reqs, NEW s \in SessionIds, ChangeAuth(r, s)
        PROVE  Shape'
    BY <2>5 DEF ChangeAuth, Goto, ValidSession
  <2>6. ASSUME NEW r \in Reqs, ChangeVerify(r)
        PROVE  Shape'
    <3>1. /\ pc[r] = "changeVerify" /\ pc' \in [Reqs -> PC] /\ pc'[r] = "changeWrite"
          /\ \A q \in Reqs : q # r => pc'[q] = pc[q] /\ loc'[q] = loc[q]
          /\ UNCHANGED <<db, clients, history>>
      BY <2>6 DEF ChangeVerify, Goto
    <3>2. /\ loc' \in [Reqs -> Locals]
          /\ loc'[r].user = loc[r].user /\ loc'[r].sid = loc[r].sid
      <4>1. password[loc[r].user] \in Nat
        BY <3>1
      <4>2. [loc[r] EXCEPT !.seen = password[loc[r].user]] \in Locals
        BY <4>1, FieldTypes
      <4>3. QED
        BY <2>6, <4>2 DEF ChangeVerify
    <3>3. QED
      BY <3>1, <3>2
  <2>7. ASSUME NEW r \in Reqs, ChangeWrite(r)
        PROVE  Shape'
    <3>1. loc[r].user \in Users /\ StorePassword(loc[r].user)
      BY <2>7 DEF ChangeWrite, Goto
    <3>2. /\ password' \in [Users -> Nat \ {0}]
          /\ loc' \in [Reqs -> Locals]
          /\ loc'[r].user = loc[r].user /\ loc'[r].sid = loc[r].sid
          /\ \A q \in Reqs : q # r => loc'[q] = loc[q]
      BY <2>7, <3>1, StoreEffect DEF ChangeWrite
    <3>3. /\ pc[r] = "changeWrite" /\ pc' \in [Reqs -> PC]
          /\ pc'[r] \in {"changeRevoke", "done"}
          /\ \A q \in Reqs : q # r => pc'[q] = pc[q]
      BY <2>7 DEF ChangeWrite, Goto
    <3>4. UNCHANGED <<sessions, resets, cookies, mailed, cutoff, latest, spent>>
      BY <2>7 DEF ChangeWrite
    <3>5. QED
      BY <3>1, <3>2, <3>3, <3>4
  <2>8. ASSUME NEW r \in Reqs, ChangeRevoke(r)
        PROVE  Shape'
    <3>1. loc[r].user \in Users /\ Revoke(r, loc[r].sid)
      BY <2>8 DEF ChangeRevoke, Goto
    <3>2. /\ UNCHANGED <<password, resets, clients, latest, spent>>
          /\ \A s \in SessionIds : Revokes(s, loc[r].user, loc[r].sid) => sessions[s].st # "none"
          /\ \A q \in Reqs : q \in Outrun(loc[r].user, loc[r].seen) =>
              pc[q] \in {"loginCreate", "resetRevoke", "resetCreate"}
      BY <3>1 DEF Revoke, Revokes, InTable, Outrun
    <3>3. /\ sessions' \in [SessionIds -> SessionRow]
          /\ loc' \in [Reqs -> Locals]
          /\ cutoff' \in [Users -> Nat]
      BY <3>1, RevokeEffect
    <3>4. \A q \in Reqs :
             /\ loc'[q].user = loc[q].user /\ loc'[q].sid = loc[q].sid
             /\ loc'[q].link = loc[q].link
             /\ q \notin Outrun(loc[r].user, loc[r].seen) => loc'[q] = loc[q]
      BY <3>1, RevokeEffect
    <3>5. \A s \in SessionIds :
             /\ sessions'[s].user = sessions[s].user
             /\ sessions'[s].st # "none" => sessions[s].st # "none"
      BY <3>1, <3>2, RevokeEffect
    <3>6. /\ pc[r] = "changeRevoke" /\ pc' \in [Reqs -> PC] /\ pc'[r] = "done"
          /\ \A q \in Reqs : q # r => pc'[q] = pc[q]
      BY <2>8 DEF ChangeRevoke, Goto
    <3>7. QED
      BY <3>1, <3>2, <3>3, <3>4, <3>5, <3>6 DEF clients
  <2>9. ASSUME NEW r \in Reqs, NEW u \in Users, ForgotLookup(r, u)
        PROVE  Shape'
    <3>1. /\ pc' \in [Reqs -> PC] /\ pc'[r] = "forgotIssue"
          /\ \A q \in Reqs : q # r => pc'[q] = pc[q] /\ loc'[q] = loc[q]
          /\ UNCHANGED <<db, clients, history>>
      BY <2>9 DEF ForgotLookup, Goto
    <3>2. loc' \in [Reqs -> Locals] /\ loc'[r].user = u
      <4>1. [loc[r] EXCEPT !.user = u] \in Locals
        OBVIOUS
      <4>2. QED
        BY <2>9, <4>1 DEF ForgotLookup
    <3>3. QED
      BY <3>1, <3>2
  <2>10. ASSUME NEW r \in Reqs, NEW t \in ResetIds, ForgotIssue(r, t)
        PROVE  Shape'
    <3>1. loc[r].user \in Users
      BY <2>10 DEF ForgotIssue, Goto
    <3>2. ASSUME NEW x \in ResetIds
          PROVE  resets'[x] \in ResetRow /\ (resets'[x].st # "none" => resets'[x].user \in Users)
      <4>1. resets'[x] = IF x = t THEN [st |-> "open", user |-> loc[r].user]
                         ELSE IF Unused(x, loc[r].user)
                              THEN [resets[x] EXCEPT !.st = "replaced"] ELSE resets[x]
        BY <2>10 DEF ForgotIssue
      <4>2. QED
        BY <3>1, <4>1 DEF Unused
    <3>3. resets' \in [ResetIds -> ResetRow]
      BY <2>10, <3>2 DEF ForgotIssue
    <3>4. latest' \in [Users -> ResetIds \cup {NoReset}]
      BY <2>10, <3>1 DEF ForgotIssue
    <3>5. /\ loc' \in [Reqs -> Locals]
          /\ loc'[r].user = loc[r].user /\ loc'[r].link = t
          /\ \A q \in Reqs : q # r => loc'[q] = loc[q]
      <4>1. loc' = [loc EXCEPT ![r] = [loc[r] EXCEPT !.link = t]]
        BY <2>10 DEF ForgotIssue
      <4>2. loc[r] \in Locals /\ [loc[r] EXCEPT !.link = t] \in Locals
        OBVIOUS
      <4>3. QED
        BY <4>1, <4>2
    <3>6. /\ pc[r] = "forgotIssue" /\ pc' \in [Reqs -> PC]
          /\ pc'[r] \in {"forgotMail", "done"}
          /\ \A q \in Reqs : q # r => pc'[q] = pc[q]
      BY <2>10 DEF ForgotIssue, Goto
    <3>7. UNCHANGED <<password, sessions, cookies, mailed, cutoff, spent>>
      BY <2>10 DEF ForgotIssue
    <3>8. QED
      BY <3>1, <3>2, <3>3, <3>4, <3>5, <3>6, <3>7
  <2>11. ASSUME NEW r \in Reqs, ForgotMail(r)
        PROVE  Shape'
    BY <2>11 DEF ForgotMail, Goto
  <2>12. ASSUME NEW r \in Reqs, NEW t \in ResetIds, ResetConsume(r, t)
        PROVE  Shape'
    BY <2>12 DEF ResetConsume, Goto, Redeemable
  <2>13. ASSUME NEW r \in Reqs, ResetWrite(r)
        PROVE  Shape'
    <3>1. loc[r].user \in Users /\ StorePassword(loc[r].user)
      BY <2>13 DEF ResetWrite, Goto
    <3>2. spent' \in [ResetIds -> Nat]
      <4>1. loc[r].link \in ResetIds /\ spent[loc[r].link] + 1 \in Nat
        BY <2>13 DEF ResetWrite, Goto
      <4>2. QED
        BY <2>13, <4>1 DEF ResetWrite
    <3>3. /\ password' \in [Users -> Nat \ {0}]
          /\ loc' \in [Reqs -> Locals]
          /\ loc'[r].user = loc[r].user /\ loc'[r].sid = loc[r].sid
          /\ \A q \in Reqs : q # r => loc'[q] = loc[q]
      BY <2>13, <3>1, StoreEffect DEF ResetWrite
    <3>4. /\ pc[r] = "resetWrite" /\ pc' \in [Reqs -> PC]
          /\ pc'[r] \in {"resetRevoke", "done"}
          /\ \A q \in Reqs : q # r => pc'[q] = pc[q]
      BY <2>13 DEF ResetWrite, Goto
    <3>5. UNCHANGED <<sessions, resets, cookies, mailed, cutoff, latest>>
      BY <2>13 DEF ResetWrite
    <3>6. QED
      BY <3>1, <3>2, <3>3, <3>4, <3>5
  <2>14. ASSUME NEW r \in Reqs, ResetRevoke(r)
        PROVE  Shape'
    <3>1. loc[r].user \in Users /\ Revoke(r, NoSession)
      BY <2>14 DEF ResetRevoke, Goto
    <3>2. /\ UNCHANGED <<password, resets, clients, latest, spent>>
          /\ \A s \in SessionIds : Revokes(s, loc[r].user, NoSession) => sessions[s].st # "none"
          /\ \A q \in Reqs : q \in Outrun(loc[r].user, loc[r].seen) =>
              pc[q] \in {"loginCreate", "resetRevoke", "resetCreate"}
      BY <3>1 DEF Revoke, Revokes, InTable, Outrun
    <3>3. /\ sessions' \in [SessionIds -> SessionRow]
          /\ loc' \in [Reqs -> Locals]
          /\ cutoff' \in [Users -> Nat]
      BY <3>1, RevokeEffect
    <3>4. \A q \in Reqs :
             /\ loc'[q].user = loc[q].user /\ loc'[q].sid = loc[q].sid
             /\ loc'[q].link = loc[q].link
             /\ q \notin Outrun(loc[r].user, loc[r].seen) => loc'[q] = loc[q]
      BY <3>1, RevokeEffect
    <3>5. \A s \in SessionIds :
             /\ sessions'[s].user = sessions[s].user
             /\ sessions'[s].st # "none" => sessions[s].st # "none"
      BY <3>1, <3>2, RevokeEffect
    <3>6. /\ pc[r] = "resetRevoke" /\ pc' \in [Reqs -> PC] /\ pc'[r] = "resetCreate"
          /\ \A q \in Reqs : q # r => pc'[q] = pc[q]
      BY <2>14 DEF ResetRevoke, Goto
    <3>7. QED
      BY <3>1, <3>2, <3>3, <3>4, <3>5, <3>6 DEF clients
  <2>15. ASSUME NEW r \in Reqs, ResetRevokeFails(r)
        PROVE  Shape'
    BY <2>15 DEF ResetRevokeFails, Goto
  <2>16. ASSUME NEW r \in Reqs, NEW s \in SessionIds, ResetCreate(r, s)
        PROVE  Shape'
    BY <2>16 DEF ResetCreate, Goto, OpenSession
  <2>17. ASSUME NEW r \in Reqs, Abandon(r)
        PROVE  Shape'
    BY <2>17 DEF Abandon
  <2>18. ASSUME NEW s \in SessionIds, SessionExpires(s)
        PROVE  Shape'
    <3>1. /\ sessions' \in [SessionIds -> SessionRow]
          /\ \A x \in SessionIds :
              /\ sessions'[x].user = sessions[x].user
              /\ sessions'[x].st # "none" => sessions[x].st # "none"
      BY <2>18 DEF SessionExpires
    <3>2. UNCHANGED <<password, resets, clients, pc, loc, history>>
      BY <2>18 DEF SessionExpires
    <3>3. QED
      BY <3>1, <3>2
  <2>19. ASSUME NEW t \in ResetIds, ResetExpires(t)
        PROVE  Shape'
    <3>1. /\ resets' \in [ResetIds -> ResetRow]
          /\ \A x \in ResetIds :
              /\ resets'[x].user = resets[x].user
              /\ resets'[x].st # "none" => resets[x].st # "none"
      BY <2>19 DEF ResetExpires
    <3>2. UNCHANGED <<password, sessions, clients, pc, loc, history>>
      BY <2>19 DEF ResetExpires
    <3>3. QED
      BY <3>1, <3>2
  <2>20. CASE UNCHANGED vars
    BY <2>20 DEF vars, db, clients, history
  <2>21. QED
    BY <2>1, <2>2, <2>3, <2>4, <2>5, <2>6, <2>7, <2>8, <2>9, <2>10, <2>11, <2>12, <2>13, <2>14, <2>15, <2>16, <2>17, <2>18, <2>19, <2>20 DEF Next, Login, Logout, Change, Forgot, Reset
<1>3. QED
  BY <1>1, <1>2, PTL DEF Spec

\* The hash every session and every login in flight rests on is not older than
\* the last revocation's, unless the login outran it.
THEOREM OutranInvariant == Spec => []Outran
<1> USE AccountsAssumption
<1>1. Init => Outran
  BY DEF Init, Outran, LateSessionsOnly, ValidSession, NoRow
<1>2. Shape /\ Outran /\ [Next]_vars => Outran'
  <2> SUFFICES ASSUME Shape, Outran, [Next]_vars PROVE Outran'  OBVIOUS
  <2> USE DEF Shape, TypeOK, Resolved, Locals, SessionRow, db, clients, history,
             Outran, LateSessionsOnly, ValidSession
  <2>1. ASSUME NEW r \in Reqs, NEW u \in Users, LoginVerify(r, u)
        PROVE  Outran'
    BY <2>1 DEF LoginVerify, Goto
  <2>2. ASSUME NEW r \in Reqs, NEW s \in SessionIds, LoginCreate(r, s)
        PROVE  Outran'
    BY <2>2 DEF LoginCreate, Goto, OpenSession
  <2>3. ASSUME NEW r \in Reqs, NEW s \in SessionIds, LogoutAuth(r, s)
        PROVE  Outran'
    BY <2>3 DEF LogoutAuth, Goto
  <2>4. ASSUME NEW r \in Reqs, LogoutDelete(r)
        PROVE  Outran'
    BY <2>4 DEF LogoutDelete, Goto, InTable
  <2>5. ASSUME NEW r \in Reqs, NEW s \in SessionIds, ChangeAuth(r, s)
        PROVE  Outran'
    BY <2>5 DEF ChangeAuth, Goto
  <2>6. ASSUME NEW r \in Reqs, ChangeVerify(r)
        PROVE  Outran'
    BY <2>6 DEF ChangeVerify, Goto
  <2>7. ASSUME NEW r \in Reqs, ChangeWrite(r)
        PROVE  Outran'
    BY <2>7 DEF ChangeWrite, Goto, StorePassword
  <2>8. ASSUME NEW r \in Reqs, ChangeRevoke(r)
        PROVE  Outran'
    BY <2>8 DEF ChangeRevoke, Goto, Revoke, Revokes, InTable, Later, Outrun
  <2>9. ASSUME NEW r \in Reqs, NEW u \in Users, ForgotLookup(r, u)
        PROVE  Outran'
    BY <2>9 DEF ForgotLookup, Goto
  <2>10. ASSUME NEW r \in Reqs, NEW t \in ResetIds, ForgotIssue(r, t)
        PROVE  Outran'
    BY <2>10 DEF ForgotIssue, Goto, Unused
  <2>11. ASSUME NEW r \in Reqs, ForgotMail(r)
        PROVE  Outran'
    BY <2>11 DEF ForgotMail, Goto
  <2>12. ASSUME NEW r \in Reqs, NEW t \in ResetIds, ResetConsume(r, t)
        PROVE  Outran'
    BY <2>12 DEF ResetConsume, Goto, Redeemable
  <2>13. ASSUME NEW r \in Reqs, ResetWrite(r)
        PROVE  Outran'
    BY <2>13 DEF ResetWrite, Goto, StorePassword
  <2>14. ASSUME NEW r \in Reqs, ResetRevoke(r)
        PROVE  Outran'
    BY <2>14 DEF ResetRevoke, Goto, Revoke, Revokes, InTable, Later, Outrun
  <2>15. ASSUME NEW r \in Reqs, ResetRevokeFails(r)
        PROVE  Outran'
    BY <2>15 DEF ResetRevokeFails, Goto
  <2>16. ASSUME NEW r \in Reqs, NEW s \in SessionIds, ResetCreate(r, s)
        PROVE  Outran'
    BY <2>16 DEF ResetCreate, Goto, OpenSession
  <2>17. ASSUME NEW r \in Reqs, Abandon(r)
        PROVE  Outran'
    BY <2>17 DEF Abandon
  <2>18. ASSUME NEW s \in SessionIds, SessionExpires(s)
        PROVE  Outran'
    BY <2>18 DEF SessionExpires
  <2>19. ASSUME NEW t \in ResetIds, ResetExpires(t)
        PROVE  Outran'
    BY <2>19 DEF ResetExpires
  <2>20. CASE UNCHANGED vars
    BY <2>20 DEF vars, db, clients, history
  <2>21. QED
    BY <2>1, <2>2, <2>3, <2>4, <2>5, <2>6, <2>7, <2>8, <2>9, <2>10,
       <2>11, <2>12, <2>13, <2>14, <2>15, <2>16, <2>17, <2>18, <2>19, <2>20
    DEF Next, Login, Logout, Change, Forgot, Reset
<1>3. QED
  BY <1>1, <1>2, ShapeInvariant, PTL DEF Spec

\* A reset token is held by one request at a time, never reopens, and is the
\* latest of its account as long as it is open.
THEOREM TokensInvariant == Spec => []Tokens
<1> USE AccountsAssumption
<1>1. Init => Tokens
  BY DEF Init, Tokens, OnlyLatestLinkWorks, Redeemable, ResetTokenActsOnce
<1>2. Shape /\ Tokens /\ [Next]_vars => Tokens'
  <2> SUFFICES ASSUME Shape, Tokens, [Next]_vars PROVE Tokens'  OBVIOUS
  <2> USE DEF Shape, TypeOK, Resolved, Locals, ResetRow, db, clients, history,
             Tokens, OnlyLatestLinkWorks, Redeemable, ResetTokenActsOnce
  <2>1. ASSUME NEW r \in Reqs, NEW u \in Users, LoginVerify(r, u)
        PROVE  Tokens'
    BY <2>1 DEF LoginVerify, Goto
  <2>2. ASSUME NEW r \in Reqs, NEW s \in SessionIds, LoginCreate(r, s)
        PROVE  Tokens'
    BY <2>2 DEF LoginCreate, Goto, OpenSession
  <2>3. ASSUME NEW r \in Reqs, NEW s \in SessionIds, LogoutAuth(r, s)
        PROVE  Tokens'
    BY <2>3 DEF LogoutAuth, Goto, ValidSession
  <2>4. ASSUME NEW r \in Reqs, LogoutDelete(r)
        PROVE  Tokens'
    BY <2>4 DEF LogoutDelete, Goto, InTable
  <2>5. ASSUME NEW r \in Reqs, NEW s \in SessionIds, ChangeAuth(r, s)
        PROVE  Tokens'
    BY <2>5 DEF ChangeAuth, Goto, ValidSession
  <2>6. ASSUME NEW r \in Reqs, ChangeVerify(r)
        PROVE  Tokens'
    BY <2>6 DEF ChangeVerify, Goto
  <2>7. ASSUME NEW r \in Reqs, ChangeWrite(r)
        PROVE  Tokens'
    BY <2>7 DEF ChangeWrite, Goto, StorePassword
  <2>8. ASSUME NEW r \in Reqs, ChangeRevoke(r)
        PROVE  Tokens'
    BY <2>8 DEF ChangeRevoke, Goto, Revoke, Revokes, InTable, Later, Outrun
  <2>9. ASSUME NEW r \in Reqs, NEW u \in Users, ForgotLookup(r, u)
        PROVE  Tokens'
    BY <2>9 DEF ForgotLookup, Goto
  <2>10. ASSUME NEW r \in Reqs, NEW t \in ResetIds, ForgotIssue(r, t)
        PROVE  Tokens'
    <3> DEFINE u == loc[r].user
    <3>1. u \in Users /\ pc[r] = "forgotIssue"
      BY <2>10 DEF ForgotIssue, Goto, Resolved, PC
    <3>2. /\ resets'[t].st = "open" /\ resets'[t].user = u /\ resets[t].st = "none"
          /\ \A x \in ResetIds \ {t} :
               /\ resets'[x].user = resets[x].user
               /\ resets'[x].st = IF Unused(x, u) THEN "replaced" ELSE resets[x].st
      BY <2>10 DEF ForgotIssue
    <3>3. latest'[u] = t /\ \A v \in Users \ {u} : latest'[v] = latest[v]
      BY <2>10, <3>1 DEF ForgotIssue
    <3>4. /\ pc'[r] # "resetWrite" /\ spent' = spent
          /\ \A q \in Reqs \ {r} : pc'[q] = pc[q] /\ loc'[q] = loc[q]
      BY <2>10 DEF ForgotIssue, Goto
    <3> HIDE DEF u
    <3>5. \A q \in Reqs : pc'[q] = "resetWrite" =>
            q # r /\ loc'[q].link = loc[q].link /\ loc[q].link \in ResetIds \ {t}
      BY <3>2, <3>4
    <3> HIDE DEF ForgotIssue, Goto, Tokens
    <3>6. \A v \in Users \ {u} : latest[v] # NoReset =>
            /\ latest[v] \in ResetIds \ {t} /\ resets[latest[v]].user = v
            /\ resets'[latest[v]].user = v /\ resets'[latest[v]].st = resets[latest[v]].st
      <4>1. \A v \in Users : latest[v] # NoReset =>
              latest[v] \in ResetIds /\ resets[latest[v]].st # "none" /\ resets[latest[v]].user = v
        BY DEF Tokens
      <4> QED
        BY <3>2, <4>1 DEF Unused
    <3>7. /\ \A x \in ResetIds : Redeemable(x)' => latest'[resets'[x].user] = x
          /\ \A v \in Users : latest'[v] # NoReset =>
               /\ resets'[latest'[v]].st # "none" /\ resets'[latest'[v]].user = v
               /\ resets'[latest'[v]].st # "replaced"
      <4>1. ASSUME NEW x \in ResetIds \ {t}, resets'[x].st = "open"
            PROVE  latest'[resets'[x].user] = x
        <5>1. resets[x].st = "open" /\ resets[x].user # u /\ resets[x].user \in Users
          BY <3>2, <4>1 DEF Unused
        <5>2. latest[resets[x].user] = x
          BY <5>1 DEF Tokens
        <5> QED
          BY <3>2, <3>3, <5>1, <5>2
      <4>2. \A v \in Users \ {u} : latest[v] # NoReset =>
               resets[latest[v]].st # "none" /\ resets[latest[v]].st # "replaced"
        BY DEF Tokens
      <4>3. \A x \in ResetIds : Redeemable(x)' => latest'[resets'[x].user] = x
        BY <3>2, <3>3, <4>1
      <4>4. ASSUME NEW v \in Users, latest'[v] # NoReset
            PROVE  /\ resets'[latest'[v]].st # "none" /\ resets'[latest'[v]].user = v
                   /\ resets'[latest'[v]].st # "replaced"
        <5>1. CASE v = u
          BY <3>2, <3>3, <5>1
        <5>2. CASE v # u
          BY <3>3, <3>6, <4>2, <4>4, <5>2
        <5> QED
          BY <5>1, <5>2
      <4> QED
        BY <4>3, <4>4
    <3>8. ResetTokenActsOnce' /\ \A x \in ResetIds : resets'[x].st # "used" => spent'[x] = 0
      BY <3>2, <3>4 DEF Unused, Tokens
    <3>9. \A q \in Reqs : pc'[q] = "resetWrite" =>
            resets'[loc'[q].link].st = "used" /\ spent'[loc'[q].link] = 0
      BY <3>2, <3>4, <3>5 DEF Unused, Tokens
    <3>10. \A p, q \in Reqs :
             pc'[p] = "resetWrite" /\ pc'[q] = "resetWrite" /\ loc'[p].link = loc'[q].link => p = q
      BY <3>4, <3>5 DEF Tokens
    <3> QED
      BY <3>7, <3>8, <3>9, <3>10 DEF Tokens
  <2>11. ASSUME NEW r \in Reqs, ForgotMail(r)
        PROVE  Tokens'
    BY <2>11 DEF ForgotMail, Goto
  <2>12. ASSUME NEW r \in Reqs, NEW t \in ResetIds, ResetConsume(r, t)
        PROVE  Tokens'
    BY <2>12 DEF ResetConsume, Goto
  <2>13. ASSUME NEW r \in Reqs, ResetWrite(r)
        PROVE  Tokens'
    BY <2>13 DEF ResetWrite, Goto, StorePassword
  <2>14. ASSUME NEW r \in Reqs, ResetRevoke(r)
        PROVE  Tokens'
    BY <2>14 DEF ResetRevoke, Goto, Revoke, Revokes, InTable, Later, Outrun
  <2>15. ASSUME NEW r \in Reqs, ResetRevokeFails(r)
        PROVE  Tokens'
    BY <2>15 DEF ResetRevokeFails, Goto
  <2>16. ASSUME NEW r \in Reqs, NEW s \in SessionIds, ResetCreate(r, s)
        PROVE  Tokens'
    BY <2>16 DEF ResetCreate, Goto, OpenSession
  <2>17. ASSUME NEW r \in Reqs, Abandon(r)
        PROVE  Tokens'
    BY <2>17 DEF Abandon
  <2>18. ASSUME NEW s \in SessionIds, SessionExpires(s)
        PROVE  Tokens'
    BY <2>18 DEF SessionExpires
  <2>19. ASSUME NEW t \in ResetIds, ResetExpires(t)
        PROVE  Tokens'
    BY <2>19 DEF ResetExpires
  <2>20. CASE UNCHANGED vars
    BY <2>20 DEF vars, db, clients, history
  <2>21. QED
    BY <2>1, <2>2, <2>3, <2>4, <2>5, <2>6, <2>7, <2>8, <2>9, <2>10,
       <2>11, <2>12, <2>13, <2>14, <2>15, <2>16, <2>17, <2>18, <2>19, <2>20
    DEF Next, Login, Logout, Change, Forgot, Reset
<1>3. QED
  BY <1>1, <1>2, ShapeInvariant, PTL DEF Spec

-----------------------------------------------------------------------------

\* Every variable always holds a value of its type.
THEOREM TypeCorrect == Spec => []TypeOK
BY ShapeInvariant, PTL DEF Shape

\* After a revocation, the only sessions opened on an older password are those
\* whose request had passed its password check before it (users.go, sessions.go).
THEOREM OnlyLateSessionsSurvive == Spec => []LateSessionsOnly
BY OutranInvariant, PTL DEF Outran

\* At most the most recently requested reset link of an account works, and that
\* one is never deleted (CreatePasswordReset).
THEOREM OnlyLatestLink == Spec => []OnlyLatestLinkWorks
BY TokensInvariant, PTL DEF Tokens

\* A reset link sets a password at most once (ConsumePasswordReset).
THEOREM ResetTokenOnce == Spec => []ResetTokenActsOnce
BY TokensInvariant, PTL DEF Tokens

\* A session is revoked only by a request of its own account that reached its
\* revocation, and never by the change made under it.
THEOREM RevocationIsOwn == Spec => RevocationStaysInAccount
<1> DEFINE Own == \A s \in SessionIds :
        sessions[s].st # "revoked" /\ sessions'[s].st = "revoked" =>
           \E r \in Reqs :
              /\ pc[r] \in {"changeRevoke", "resetRevoke"} /\ pc'[r] # pc[r]
              /\ loc[r].user = sessions[s].user
              /\ loc[r].sid # s
<1> USE AccountsAssumption
<1>1. Shape /\ [Next]_vars => Own
  <2> SUFFICES ASSUME Shape, [Next]_vars, NEW s \in SessionIds,
                      sessions[s].st # "revoked", sessions'[s].st = "revoked"
               PROVE  \E r \in Reqs :
                         /\ pc[r] \in {"changeRevoke", "resetRevoke"} /\ pc'[r] # pc[r]
                         /\ loc[r].user = sessions[s].user
                         /\ loc[r].sid # s
    OBVIOUS
  <2>1. ASSUME NEW r \in Reqs, NEW keep, loc[r].user \in Users, Revoke(r, keep),
               loc[r].sid = keep
        PROVE  loc[r].user = sessions[s].user /\ loc[r].sid # s
    <3>1. Revokes(s, loc[r].user, keep)
      BY <2>1, RevokeEffect DEF Shape
    <3>2. QED
      BY <2>1, <3>1 DEF Revokes
  <2>2. ASSUME NEW r \in Reqs, ChangeRevoke(r)
        PROVE  \E q \in Reqs :
                  /\ pc[q] \in {"changeRevoke", "resetRevoke"} /\ pc'[q] # pc[q]
                  /\ loc[q].user = sessions[s].user /\ loc[q].sid # s
    <3>1. loc[r].user \in Users /\ pc[r] = "changeRevoke" /\ pc'[r] = "done"
      BY <2>2 DEF ChangeRevoke, Goto, Shape, TypeOK, Resolved, PC
    <3>2. QED
      BY <2>1, <2>2, <3>1 DEF ChangeRevoke
  <2>3. ASSUME NEW r \in Reqs, ResetRevoke(r)
        PROVE  \E q \in Reqs :
                  /\ pc[q] \in {"changeRevoke", "resetRevoke"} /\ pc'[q] # pc[q]
                  /\ loc[q].user = sessions[s].user /\ loc[q].sid # s
    <3>1. /\ loc[r].user \in Users /\ pc[r] = "resetRevoke" /\ pc'[r] = "resetCreate"
          /\ loc[r].sid = NoSession
      BY <2>3 DEF ResetRevoke, Goto, Shape, TypeOK, Resolved, PC
    <3>2. QED
      BY <2>1, <2>3, <3>1 DEF ResetRevoke
  <2>4. ASSUME NEW r \in Reqs, NEW x \in SessionIds, LoginCreate(r, x) \/ ResetCreate(r, x)
        PROVE  FALSE
    BY <2>4 DEF LoginCreate, ResetCreate, OpenSession, Shape, TypeOK
  <2>5. ASSUME NEW r \in Reqs, LogoutDelete(r)
        PROVE  FALSE
    BY <2>5 DEF LogoutDelete, InTable, Shape, TypeOK, SessionRow
  <2>6. ASSUME NEW x \in SessionIds, SessionExpires(x)
        PROVE  FALSE
    BY <2>6 DEF SessionExpires, Shape, TypeOK, SessionRow
  <2>7. CASE UNCHANGED sessions
    BY <2>7
  <2>8. QED
    BY <2>2, <2>3, <2>4, <2>5, <2>6, <2>7
    DEF Next, Login, Logout, Change, Forgot, Reset, vars, db, clients, LoginVerify, LogoutAuth,
        ChangeAuth, ChangeVerify, ChangeWrite, ForgotLookup, ForgotIssue, ForgotMail,
        ResetConsume, ResetWrite, ResetRevokeFails, Abandon, ResetExpires
<1>2. Shape /\ [Next]_vars => [Own]_vars
  BY <1>1
<1>3. QED
  BY <1>2, ShapeInvariant, PTL DEF Spec, RevocationStaysInAccount, Own

-----------------------------------------------------------------------------
(* AttemptLimiter.  The invariant relates the entry of a key to the        *)
(* failures counted for it: all of them happened before the end of its     *)
(* window, so neither a reset nor a sweep, which wait for that end, loses a*)
(* failure that a new window would have to count.                          *)

Within(F, from, to) == {f \in F : from <= f.at /\ f.at <= to}

\* No lockout yet, or one that began when MaxFailed failures lay in one window.
Earned(a, F, t) ==
    LET began == a.lockedUntil - Duration IN
    a.lockedUntil # 0 =>
        began <= t /\ Cardinality(Within(F, began - Window, began)) >= MaxFailed

\* What entry a says of the failures F at time t.
Tracks(a, F, t) ==
    /\ a.windowStart <= t
    /\ \A f \in F : f.at <= a.windowStart + Window
    /\ a.count = Cardinality(Within(F, a.windowStart, t))
    /\ Earned(a, F, t)

KeyInv(k) ==
    /\ IsFiniteSet(failures[k])
    /\ \A f \in failures[k] : f.at <= now
    /\ attempts[k].in => Tracks(attempts[k], failures[k], now)
    /\ ~attempts[k].in => \A f \in failures[k] : f.at < now

\* A request is counted at most once.
Fresh == \A r \in Callers, k \in Keys :
    progress[r] # "done" => \A f \in failures[k] : f.req # r

IInv == AttemptsTypeOK /\ Fresh /\ \A k \in Keys : KeyInv(k)

-----------------------------------------------------------------------------

\* More failures fill a span at least as much, and a longer span holds more.
LEMMA WithinMonotone ==
  ASSUME NEW F, IsFiniteSet(F), NEW E, E \subseteq F,
         F \subseteq Failure, NEW a \in Int, NEW b \in Int, NEW c \in Int, c <= a
  PROVE  /\ IsFiniteSet(Within(E, a, b))
         /\ Cardinality(Within(E, a, b)) \in Nat
         /\ Cardinality(Within(F, c, b)) \in Nat
         /\ Cardinality(Within(E, a, b)) <= Cardinality(Within(F, c, b))
<1>1. IsFiniteSet(Within(F, c, b))
  BY FS_Subset DEF Within
<1>2. Within(E, a, b) \subseteq Within(F, c, b)
  BY DEF Within, Failure
<1>3. IsFiniteSet(Within(E, a, b)) /\ Cardinality(Within(E, a, b)) <= Cardinality(Within(F, c, b))
  BY <1>1, <1>2, FS_Subset
<1>4. QED
  BY <1>1, <1>3, FS_CardinalityType

\* An entry within its window still tracks the failures after Locked has seen it.
LEMMA LockTracks ==
  ASSUME now \in Nat, NEW a \in TrackedAttempt, NEW F, IsFiniteSet(F), F \subseteq Failure,
         Tracks(a, F, now), now - a.windowStart <= Window
  PROVE  Tracks(Locked(a), F, now)
<1> USE LimiterAssumption
<1>1. CASE ~(a.count >= MaxFailed)
  BY <1>1 DEF Locked
<1>2. CASE a.count >= MaxFailed
  <2>1. Locked(a) = [a EXCEPT !.lockedUntil = now + Duration]
    BY <1>2 DEF Locked
  <2>2. Cardinality(Within(F, now - Window, now)) >= a.count
    <3>1. now - Window \in Int /\ a.windowStart \in Int /\ now - Window <= a.windowStart
      BY DEF TrackedAttempt
    <3>2. QED
      BY <3>1, WithinMonotone DEF Tracks, TrackedAttempt
  <2>3. Cardinality(Within(F, now - Window, now)) >= MaxFailed
    <3>1. Cardinality(Within(F, now - Window, now)) \in Nat
      BY WithinMonotone DEF TrackedAttempt
    <3>2. QED
      BY <1>2, <2>2, <3>1 DEF TrackedAttempt
  <2>4. Earned(Locked(a), F, now)
    BY <2>1, <2>3 DEF Earned, TrackedAttempt
  <2>5. QED
    BY <2>1, <2>4 DEF Tracks, TrackedAttempt
<1>3. QED
  BY <1>1, <1>2

\* The entry recordFailure makes of its own key has its type.
LEMMA EntryType ==
  ASSUME AttemptsTypeOK, NEW k \in Keys
  PROVE  Counted(k) \in TrackedAttempt /\ Locked(Counted(k)) \in TrackedAttempt
<1> USE LimiterAssumption DEF AttemptsTypeOK, TrackedAttempt
<1>1. Counted(k) \in TrackedAttempt
  <2>1. attempts[k] \in TrackedAttempt
    OBVIOUS
  <2>2. CASE ~attempts[k].in \/ WindowOver(k)
    BY <2>2 DEF Counted
  <2>3. CASE ~(~attempts[k].in \/ WindowOver(k))
    BY <2>1, <2>3 DEF Counted
  <2>4. QED
    BY <2>2, <2>3
<1>2. \A a \in TrackedAttempt : Locked(a) \in TrackedAttempt
  BY DEF Locked
<1>3. QED
  BY <1>1, <1>2

\* Counting a failure: the entry made for key k tracks it and those before it.
LEMMA CountTracks ==
  ASSUME AttemptsTypeOK, NEW k \in Keys, KeyInv(k), NEW new \in Failure,
         new.at = now, new \notin failures[k]
  PROVE  /\ IsFiniteSet(failures[k] \cup {new})
         /\ Tracks(Counted(k), failures[k] \cup {new}, now)
         /\ now - Counted(k).windowStart <= Window
         /\ Counted(k).in
<1> DEFINE F == failures[k]
           G == F \cup {new}
           a == attempts[k]
<1> USE LimiterAssumption
<1>1. /\ now \in Nat /\ F \subseteq Failure /\ G \subseteq Failure /\ a \in TrackedAttempt
      /\ IsFiniteSet(F) /\ IsFiniteSet(G) /\ \A f \in F : f.at <= now
  BY FS_AddElement DEF AttemptsTypeOK, KeyInv
<1>2. CASE ~a.in \/ WindowOver(k)
  <2>1. Counted(k) = [in |-> TRUE, count |-> 1, windowStart |-> now, lockedUntil |-> 0]
    BY <1>2 DEF Counted
  <2>2. \A f \in F : f.at < now
    BY <1>1, <1>2 DEF KeyInv, Tracks, WindowOver, TrackedAttempt, Failure
  <2>3. Within(G, now, now) = {new}
    BY <1>1, <2>2 DEF Within, Failure
  <2>4. Cardinality(Within(G, now, now)) = 1
    BY <2>3, FS_Singleton
  <2>5. \A f \in G : f.at <= now + Window
    BY <1>1 DEF Failure
  <2>6. QED
    BY <1>1, <2>1, <2>4, <2>5 DEF Tracks, Earned
<1>3. CASE a.in /\ ~WindowOver(k)
  <2> DEFINE ws == a.windowStart
             W == Within(F, ws, now)
  <2>1. Counted(k) = [a EXCEPT !.count = @ + 1]
    BY <1>3 DEF Counted
  <2>2. /\ ws \in Nat /\ ws <= now /\ now - ws <= Window
        /\ \A f \in F : f.at <= ws + Window
        /\ a.count = Cardinality(W)
        /\ Earned(a, F, now)
    BY <1>1, <1>3 DEF KeyInv, Tracks, WindowOver, TrackedAttempt
  <2>3. Within(G, ws, now) = W \cup {new}
    BY <1>1, <2>2 DEF Within, Failure
  <2>4. IsFiniteSet(W) /\ new \notin W
    BY <1>1, FS_Subset DEF Within
  <2>5. Cardinality(Within(G, ws, now)) = a.count + 1
    <3>1. Cardinality(W \cup {new}) = Cardinality(W) + 1
      BY <2>4, FS_AddElement
    <3>2. QED
      BY <2>2, <2>3, <3>1
  <2>6. \A f \in G : f.at <= ws + Window
    BY <1>1, <2>2 DEF Failure
  <2>7. Earned(a, G, now)
    <3> DEFINE b == a.lockedUntil - Duration
    <3>1. b \in Int /\ b - Window \in Int
      BY <1>1 DEF TrackedAttempt
    <3>2. /\ Cardinality(Within(F, b - Window, b)) \in Nat
          /\ Cardinality(Within(G, b - Window, b)) \in Nat
          /\ Cardinality(Within(F, b - Window, b)) <= Cardinality(Within(G, b - Window, b))
      BY <1>1, <3>1, WithinMonotone
    <3>3. QED
      BY <2>2, <3>2 DEF Earned
  <2>8. QED
    BY <1>1, <1>3, <2>1, <2>2, <2>5, <2>6, <2>7 DEF Tracks, Earned, TrackedAttempt
<1>4. QED
  BY <1>2, <1>3

-----------------------------------------------------------------------------

\* Types are preserved.
LEMMA TypeStep == AttemptsTypeOK /\ [AttemptsNext]_attemptVars => AttemptsTypeOK'
<1> SUFFICES ASSUME AttemptsTypeOK, [AttemptsNext]_attemptVars PROVE AttemptsTypeOK'  OBVIOUS
<1> USE LimiterAssumption DEF AttemptsTypeOK, TrackedAttempt, Absent
<1>1. ASSUME NEW r \in Callers, Check(r) PROVE AttemptsTypeOK'
  BY <1>1 DEF Check
<1>2. ASSUME NEW r \in Callers, recordFailure(r) PROVE AttemptsTypeOK'
  <2>1. Locked(Counted(key[r])) \in TrackedAttempt
    BY EntryType
  <2>2. \A j \in Keys : Swept(j) \in TrackedAttempt
    BY DEF Swept
  <2>3. [req |-> r, at |-> now] \in Failure
    BY DEF Failure
  <2>4. QED
    BY <1>2, <2>1, <2>2, <2>3 DEF recordFailure
<1>3. ASSUME NEW r \in Callers, recordSuccess(r) PROVE AttemptsTypeOK'
  BY <1>3 DEF recordSuccess
<1>4. ASSUME NEW r \in Callers, NotReported(r) PROVE AttemptsTypeOK'
  BY <1>4 DEF NotReported
<1>5. CASE Restart
  BY <1>5 DEF Restart
<1>6. CASE Tick
  BY <1>6 DEF Tick
<1>7. CASE UNCHANGED attemptVars
  BY <1>7 DEF attemptVars
<1>8. QED
  BY <1>1, <1>2, <1>3, <1>4, <1>5, <1>6, <1>7 DEF AttemptsNext

\* Every entry tracks the failures of its key.
THEOREM LimiterInvariant == AttemptsSpec => []IInv
<1> USE LimiterAssumption
<1>1. AttemptsInit => IInv
  BY FS_EmptySet DEF AttemptsInit, IInv, AttemptsTypeOK, Fresh, KeyInv, Absent, TrackedAttempt
<1>2. IInv /\ [AttemptsNext]_attemptVars => IInv'
  <2> SUFFICES ASSUME IInv, [AttemptsNext]_attemptVars PROVE Fresh' /\ \A k \in Keys : KeyInv(k)'
    BY TypeStep DEF IInv
  <2>0. AttemptsTypeOK /\ Fresh /\ \A k \in Keys : KeyInv(k)
    BY DEF IInv
  <2>1. ASSUME NEW r \in Callers, Check(r) PROVE Fresh' /\ \A k \in Keys : KeyInv(k)'
    BY <2>0, <2>1 DEF Check, AttemptsTypeOK, Fresh, KeyInv
  <2>2. ASSUME NEW r \in Callers, recordFailure(r) PROVE Fresh' /\ \A k \in Keys : KeyInv(k)'
    <3> DEFINE new == [req |-> r, at |-> now]
    <3>0. PICK k \in Keys : k = key[r]
      BY <2>0 DEF AttemptsTypeOK
    <3>1. new \in Failure /\ now' = now
      BY <2>0, <2>2 DEF AttemptsTypeOK, Failure, recordFailure
    <3>2. new \notin failures[k]
      BY <2>0, <2>2, <3>0, <3>1 DEF Fresh, recordFailure
    <3>3. failures'[k] = failures[k] \cup {new} /\ attempts'[k] = Locked(Counted(k))
      BY <2>0, <2>2, <3>0, <3>1 DEF AttemptsTypeOK, recordFailure
    <3>4. KeyInv(k)'
      <4>1. Tracks(Locked(Counted(k)), failures[k] \cup {new}, now)
        BY <2>0, <3>1, <3>2, CountTracks, EntryType, LockTracks DEF AttemptsTypeOK
      <4>2. IsFiniteSet(failures[k] \cup {new}) /\ Counted(k).in
        BY <2>0, <3>1, <3>2, CountTracks
      <4>3. Locked(Counted(k)).in
        BY <2>0, <3>1, <4>2, EntryType DEF Locked, TrackedAttempt
      <4>4. \A f \in failures[k] \cup {new} : f.at <= now
        BY <2>0, <3>1 DEF KeyInv, AttemptsTypeOK
      <4>5. QED
        BY <3>1, <3>3, <4>1, <4>2, <4>3, <4>4 DEF KeyInv
    <3>5. ASSUME NEW j \in Keys, j # k PROVE KeyInv(j)'
      <4>1. failures'[j] = failures[j] /\ attempts'[j] = Swept(j)
        BY <2>0, <2>2, <3>0, <3>5 DEF AttemptsTypeOK, recordFailure
      <4>2. CASE attempts[j].in /\ expired(j)
        <5>1. ~Swept(j).in
          BY <4>2 DEF Swept, Absent
        <5>2. \A f \in failures[j] : f.at < now
          BY <2>0, <4>2 DEF KeyInv, Tracks, expired, WindowOver, AttemptsTypeOK, TrackedAttempt, Failure
        <5>3. QED
          BY <2>0, <3>1, <4>1, <5>1, <5>2 DEF KeyInv
      <4>3. CASE ~(attempts[j].in /\ expired(j))
        BY <2>0, <3>1, <4>1, <4>3 DEF KeyInv, Swept
      <4>4. QED
        BY <4>2, <4>3
    <3>6. Fresh'
      BY <2>0, <2>2 DEF Fresh, AttemptsTypeOK, recordFailure
    <3>7. QED
      BY <3>4, <3>5, <3>6
  <2>3. ASSUME NEW r \in Callers, recordSuccess(r) PROVE Fresh' /\ \A k \in Keys : KeyInv(k)'
    BY <2>0, <2>3, FS_EmptySet DEF recordSuccess, AttemptsTypeOK, Fresh, KeyInv, Absent
  <2>4. ASSUME NEW r \in Callers, NotReported(r) PROVE Fresh' /\ \A k \in Keys : KeyInv(k)'
    BY <2>0, <2>4 DEF NotReported, AttemptsTypeOK, Fresh, KeyInv
  <2>5. CASE Restart
    BY <2>0, <2>5, FS_EmptySet DEF Restart, AttemptsTypeOK, Fresh, KeyInv, Absent
  <2>6. CASE Tick
    <3>1. ASSUME NEW k \in Keys PROVE KeyInv(k)'
      <4>1. now \in Nat /\ now' = now + 1 /\ attempts' = attempts /\ failures' = failures
        BY <2>0, <2>6 DEF Tick, AttemptsTypeOK
      <4>2. /\ attempts[k] \in TrackedAttempt /\ failures[k] \subseteq Failure
            /\ \A f \in failures[k] : f.at <= now
        BY <2>0 DEF KeyInv, AttemptsTypeOK
      <4>3. Within(failures[k], attempts[k].windowStart, now + 1)
              = Within(failures[k], attempts[k].windowStart, now)
        BY <4>1, <4>2 DEF Within, TrackedAttempt, Failure
      <4>4. attempts[k].in => Tracks(attempts[k], failures[k], now + 1)
        BY <2>0, <4>1, <4>2, <4>3 DEF KeyInv, Tracks, Earned, TrackedAttempt
      <4>5. QED
        BY <2>0, <4>1, <4>2, <4>4 DEF KeyInv, Failure
    <3>2. QED
      BY <2>0, <2>6, <3>1 DEF Tick, Fresh
  <2>7. CASE UNCHANGED attemptVars
    BY <2>0, <2>7 DEF attemptVars, Fresh, KeyInv
  <2>8. QED
    BY <2>1, <2>2, <2>3, <2>4, <2>5, <2>6, <2>7 DEF AttemptsNext
<1>3. QED
  BY <1>1, <1>2, PTL DEF AttemptsSpec

\* Every entry, the clock and the history always hold values of their types.
THEOREM AttemptsTypeCorrect == AttemptsSpec => []AttemptsTypeOK
BY LimiterInvariant, PTL DEF IInv

\* No key is ever locked out without MaxFailed failures of its own in one window.
THEOREM EveryLockoutEarned == AttemptsSpec => []LockoutEarned
<1>1. IInv => LockoutEarned
  <2> SUFFICES ASSUME IInv, NEW k \in Keys, locked(k)
               PROVE  LET began == attempts[k].lockedUntil - Duration IN
                      Cardinality(Failed(k, began - Window, began)) >= MaxFailed
    BY DEF LockoutEarned
  <2>1. attempts[k].in /\ attempts[k].lockedUntil # 0
    BY DEF IInv, AttemptsTypeOK, TrackedAttempt, locked
  <2>2. Earned(attempts[k], failures[k], now)
    BY <2>1 DEF IInv, KeyInv, Tracks
  <2>3. QED
    BY <2>1, <2>2 DEF Earned, Failed, Within
<1>2. QED
  BY <1>1, LimiterInvariant, PTL

\* No failure in the open window is lost or counted twice.
THEOREM CountIsExact == AttemptsSpec => []CountExact
<1>1. IInv => CountExact
  BY DEF IInv, CountExact, KeyInv, Tracks, Failed, Within
<1>2. QED
  BY <1>1, LimiterInvariant, PTL

\* A report about one key leaves the lockouts and open windows of others alone.
THEOREM KeysDoNotInterfere == AttemptsSpec => KeysIndependent
<1>1. ASSUME AttemptsTypeOK, NEW r \in Callers, recordFailure(r) \/ recordSuccess(r),
             NEW k \in Keys \ {key[r]}
      PROVE  /\ locked(k)' = locked(k)
             /\ attempts[k].in /\ ~WindowOver(k) => attempts'[k] = attempts[k]
  <2>1. CASE recordFailure(r)
    <3>1. now' = now /\ attempts'[k] = Swept(k)
      BY <1>1, <2>1 DEF recordFailure, AttemptsTypeOK
    <3>2. attempts[k] \in TrackedAttempt /\ now \in Nat
      BY <1>1 DEF AttemptsTypeOK
    <3>3. attempts[k].in /\ expired(k) => ~locked(k) /\ WindowOver(k)
      BY <3>2 DEF expired, locked, TrackedAttempt
    <3>4. CASE attempts[k].in /\ expired(k)
      BY <3>1, <3>3, <3>4 DEF Swept, locked, Absent
    <3>5. CASE ~(attempts[k].in /\ expired(k))
      BY <3>1, <3>5 DEF Swept, locked
    <3>6. QED
      BY <3>4, <3>5
  <2>2. CASE recordSuccess(r)
    BY <1>1, <2>2 DEF recordSuccess, AttemptsTypeOK, locked
  <2>3. QED
    BY <1>1, <2>1, <2>2
<1>2. AttemptsTypeOK => [\A r \in Callers : recordFailure(r) \/ recordSuccess(r) =>
                      \A k \in Keys \ {key[r]} :
                          /\ locked(k)' = locked(k)
                          /\ attempts[k].in /\ ~WindowOver(k) => attempts'[k] = attempts[k]]_attemptVars
  BY <1>1
<1>3. QED
  BY <1>2, AttemptsTypeCorrect, PTL DEF KeysIndependent

\* After every recorded failure the map holds open windows and running lockouts only.
THEOREM SweepKeepsMapBounded == AttemptsSpec => SweepBoundsMap
<1>1. ASSUME AttemptsTypeOK, NEW r \in Callers, recordFailure(r), NEW k \in Keys, attempts'[k].in
      PROVE  ~expired(k)'
  <2>1. now \in Nat /\ now' = now /\ attempts[k] \in TrackedAttempt
    BY <1>1 DEF AttemptsTypeOK, recordFailure
  <2>2. CASE k = key[r]
    <3>1. attempts'[k] = Locked(Counted(k)) /\ Counted(k) \in TrackedAttempt
      BY <1>1, <2>2, EntryType DEF AttemptsTypeOK, recordFailure
    <3>2. now - Counted(k).windowStart <= Window
      BY <2>1, LimiterAssumption DEF Counted, WindowOver, TrackedAttempt
    <3>3. Locked(Counted(k)).windowStart = Counted(k).windowStart
      BY <3>1 DEF Locked, TrackedAttempt
    <3>4. ~(now' - attempts'[k].windowStart > Window)
      BY <2>1, <3>1, <3>2, <3>3, LimiterAssumption DEF TrackedAttempt
    <3>5. QED
      BY <3>4 DEF expired, WindowOver
  <2>3. CASE k # key[r]
    <3>1. attempts'[k] = Swept(k)
      BY <1>1, <2>3 DEF AttemptsTypeOK, recordFailure
    <3>2. attempts'[k] = attempts[k] /\ ~expired(k)
      BY <1>1, <3>1 DEF Swept, Absent
    <3>3. QED
      BY <2>1, <3>2 DEF expired, WindowOver
  <2>4. QED
    BY <2>2, <2>3
<1>2. AttemptsTypeOK => [\A r \in Callers : recordFailure(r) =>
                      \A k \in Keys : attempts'[k].in => ~expired(k)']_attemptVars
  BY <1>1
<1>3. QED
  BY <1>2, AttemptsTypeCorrect, PTL DEF SweepBoundsMap

=============================================================================
