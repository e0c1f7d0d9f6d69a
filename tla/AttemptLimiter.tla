--------------------------- MODULE AttemptLimiter ---------------------------
(***************************************************************************)
(* attemptLimiter (be/handlers/attemptLimiter.go) with the handlers that   *)
(* ask it first and report to it later.  A login or signup asks locked,    *)
(* then talks to the database, then calls recordFailure or recordSuccess;  *)
(* the public invite and password reset forms ask locked and call          *)
(* recordFailure at once, yet as a second critical section.  Each call is  *)
(* atomic (one mutex), and calls of different requests interleave.         *)
(***************************************************************************)
EXTENDS Integers, FiniteSets

CONSTANTS
    Keys,            \* usernames or addresses
    Callers,         \* requests; each is served at most once
    MaxFailed,       \* maxFailedAttempts
    Window,          \* attemptLockoutWindow, in ticks of the clock
    Duration,        \* attemptLockoutDuration
    MaxTime          \* bounds the clock

ASSUME LimiterAssumption ==
    /\ MaxFailed \in Nat \ {0}
    /\ Window \in Nat \ {0}
    /\ Duration \in Nat \ {0}
    /\ MaxTime \in Nat

VARIABLES
    now,       \* time.Now()
    attempts,  \* the map: a tracked attempt of each key in it
    progress,  \* progress of each request
    key,       \* the key a request is about
    failures   \* history: requests of each key counted since it was last cleared,
               \* with the time of the count

attemptVars == <<now, attempts, progress, key, failures>>

-----------------------------------------------------------------------------

Absent == [in |-> FALSE, count |-> 0, windowStart |-> 0, lockedUntil |-> 0]
TrackedAttempt == [in : BOOLEAN, count : Nat, windowStart : Nat, lockedUntil : Nat]
Failure == [req : Callers, at : Nat]

AttemptsInit ==
    /\ now = 1
    /\ attempts = [k \in Keys |-> Absent]
    /\ progress = [r \in Callers |-> "idle"]
    /\ key \in [Callers -> Keys]
    /\ failures = [k \in Keys |-> {}]

\* locked: a key that is not in the map was never locked, nor is a zero lockedUntil
\* in the future.
locked(k) == attempts[k].in /\ now < attempts[k].lockedUntil

WindowOver(k) == now - attempts[k].windowStart > Window

\* expired: the window is over and so is the lockout.
expired(k) == WindowOver(k) /\ now > attempts[k].lockedUntil

\* The sweep of the other keys.  (A slip: there is none.)
SweptNever(k) == attempts[k]
Swept(k) == IF attempts[k].in /\ expired(k) THEN Absent ELSE attempts[k]

\* The entry of recordFailure's own key with this failure counted: a new one when
\* there is none or its window is over.  (A slip: a new window, the old count.)
CountedOn(k) ==
    IF ~attempts[k].in \/ WindowOver(k)
    THEN [in |-> TRUE, count |-> attempts[k].count + 1, windowStart |-> now, lockedUntil |-> 0]
    ELSE [attempts[k] EXCEPT !.count = @ + 1]
Counted(k) ==
    IF ~attempts[k].in \/ WindowOver(k)
    THEN [in |-> TRUE, count |-> 1, windowStart |-> now, lockedUntil |-> 0]
    ELSE [attempts[k] EXCEPT !.count = @ + 1]

\* The same entry, locked once its count has reached the maximum.  (A slip: one
\* failure early.)
LockedEarly(a) ==
    IF a.count + 1 >= MaxFailed THEN [a EXCEPT !.lockedUntil = now + Duration] ELSE a
Locked(a) ==
    IF a.count >= MaxFailed THEN [a EXCEPT !.lockedUntil = now + Duration] ELSE a

-----------------------------------------------------------------------------

\* The handler asks locked; a locked key is answered 429 and nothing changes.
Check(r) ==
    /\ progress[r] = "idle"
    /\ ~locked(key[r])
    /\ progress' = [progress EXCEPT ![r] = "checked"]
    /\ UNCHANGED <<now, attempts, key, failures>>

recordFailure(r) ==
    LET k == key[r] IN
    /\ progress[r] = "checked"
    /\ progress' = [progress EXCEPT ![r] = "done"]
    /\ attempts' = [j \in Keys |-> IF j = k THEN Locked(Counted(k)) ELSE Swept(j)]
    /\ failures' = [failures EXCEPT ![k] = @ \cup {[req |-> r, at |-> now]}]
    /\ UNCHANGED <<now, key>>

recordSuccess(r) ==
    LET k == key[r] IN
    /\ progress[r] = "checked"
    /\ progress' = [progress EXCEPT ![r] = "done"]
    /\ attempts' = [attempts EXCEPT ![k] = Absent]
    /\ failures' = [failures EXCEPT ![k] = {}]
    /\ UNCHANGED <<now, key>>

\* A signup with a bad invite, a database error after the password matched:
\* the handler returns without a word to the limiter.
NotReported(r) ==
    /\ progress[r] = "checked"
    /\ progress' = [progress EXCEPT ![r] = "done"]
    /\ UNCHANGED <<now, attempts, key, failures>>

\* The map lives in memory; requests in flight die with the process.
Restart ==
    /\ attempts' = [k \in Keys |-> Absent]
    /\ failures' = [k \in Keys |-> {}]
    /\ progress' = [r \in Callers |-> IF progress[r] = "checked" THEN "done" ELSE progress[r]]
    /\ UNCHANGED <<now, key>>

Tick ==
    /\ now < MaxTime
    /\ now' = now + 1
    /\ UNCHANGED <<attempts, progress, key, failures>>

AttemptsNext ==
    \/ \E r \in Callers : Check(r) \/ recordFailure(r) \/ recordSuccess(r) \/ NotReported(r)
    \/ Restart
    \/ Tick

AttemptsSpec == AttemptsInit /\ [][AttemptsNext]_attemptVars

-----------------------------------------------------------------------------

\* Every entry of the map, the clock and the history hold values of their types.
AttemptsTypeOK ==
    /\ now \in Nat \ {0}
    /\ attempts \in [Keys -> TrackedAttempt]
    /\ progress \in [Callers -> {"idle", "checked", "done"}]
    /\ key \in [Callers -> Keys]
    /\ failures \in [Keys -> SUBSET Failure]

\* The failures of k counted between two times.
Failed(k, from, to) == {f \in failures[k] : from <= f.at /\ f.at <= to}

\* attemptLimiter: a key is locked out only "once it crosses maxFailedAttempts
\* within attemptLockoutWindow": at the moment the running lockout began, that many
\* failures of this very key, and no success after them, lay inside one window.
LockoutEarned ==
    \A k \in Keys : locked(k) =>
        LET began == attempts[k].lockedUntil - Duration IN
        Cardinality(Failed(k, began - Window, began)) >= MaxFailed

\* The count of an entry is exactly the failures since its window opened: none is
\* lost when two requests report at once, none survives a success or a restart.
CountExact ==
    \A k \in Keys : attempts[k].in =>
        attempts[k].count = Cardinality(Failed(k, attempts[k].windowStart, now))

\* recordFailure "sweeps fully-expired entries out of the map so it doesn't grow
\* unbounded": after each one, every entry left has an open window or a lockout.
SweepBoundsMap ==
    [][\A r \in Callers : recordFailure(r) =>
          \A k \in Keys : attempts'[k].in => ~expired(k)']_attemptVars

\* A report about one key, with the sweep it runs, neither ends the lockout of
\* another key nor forgets failures of it that still count.
KeysIndependent ==
    [][\A r \in Callers : recordFailure(r) \/ recordSuccess(r) =>
          \A k \in Keys \ {key[r]} :
              /\ locked(k)' = locked(k)
              /\ attempts[k].in /\ ~WindowOver(k) => attempts'[k] = attempts[k]]_attemptVars

=============================================================================
