------------------------------ MODULE Lockout ------------------------------
(***************************************************************************)
(* The count of failed second factors of one user and the lock it leads to *)
(* (auth/mfa_lockout.go), as ValidateTOTPCode, ValidateBackupCode and      *)
(* WebAuthnAuthFinish drive it: each looks at the lock, verifies, and      *)
(* then either counts a failure, in two statements, or clears the count.   *)
(* What verifies is in Codes and Enrollment.                               *)
(***************************************************************************)
EXTENDS Integers, FiniteSets, Functions

CONSTANTS
  Verifiers,    \* requests that verify at one time
  Soft,         \* mfaSoftLockoutThreshold
  Hard,         \* mfaHardCapThreshold
  LockWindow,   \* mfaWindowDuration
  BackoffCap,   \* mfaBackoffCapMinutes
  MaxWrong,     \* bound: failures counted
  MaxClock      \* bound: the clock, in minutes

ASSUME LockoutAssumption ==
  /\ IsFiniteSet(Verifiers)
  /\ Soft \in Nat /\ Hard \in Nat /\ Soft < Hard
  /\ LockWindow \in Nat /\ BackoffCap \in Nat \ {0}
  /\ MaxWrong \in Nat
  /\ MaxClock \in Nat \ {0}

VARIABLES
  clock,
  lock,     \* row of user_mfa_lockout; no row when start = 0
  checks,   \* the requests, each with the time it came in
  wrong,    \* history: how many failures were counted, by time
  since,    \* history: how many since the count was last cleared
  raced     \* history: whether a count was read that was about to change

lockoutVars == <<clock, lock, checks, wrong, since, raced>>

Clock == 1 .. MaxClock
Wrongs == 0 .. MaxWrong
Lock == [count: Wrongs, start: 0 .. MaxClock, last: 0 .. MaxClock]

NoLock == [count |-> 0, start |-> 0, last |-> 0]
NoCheck == [pc |-> "idle"]

LockoutTypeOK ==
  /\ clock \in Clock
  /\ lock \in Lock
  /\ checks \in [Verifiers ->
       {NoCheck} \cup [pc: {"verify", "right", "wrong"}, at: Clock]
                 \cup [pc: {"count"}, at: Clock, row: Lock]]
  /\ wrong \in [Clock -> Wrongs]
  /\ since \in Wrongs
  /\ raced \in BOOLEAN

LockoutInit ==
  /\ clock = 1
  /\ lock = NoLock
  /\ checks = [v \in Verifiers |-> NoCheck]
  /\ wrong = [t \in Clock |-> 0]
  /\ since = 0
  /\ raced = FALSE

\* Failures counted at t or later.
WrongFrom(t) == FoldFunctionOnSet(+, 0, wrong, t .. MaxClock)

InWindow(row, t) == row.start # 0 /\ t - row.start < LockWindow

Backoff(count) ==
  LET b == 2 ^ (count - Soft) IN IF b < BackoffCap THEN b ELSE BackoffCap

\* computeLockoutState: when the row stops refusing; 0 when it refuses nobody.
LockedUntil(row, t) ==
  IF ~InWindow(row, t) THEN 0
  ELSE IF row.count >= Hard THEN row.start + LockWindow
  ELSE IF row.count >= Soft THEN row.last + Backoff(row.count)
  ELSE 0

\* Mutant: a window that has passed starts anew and keeps its count.
CountedOn(row, t) ==
  IF InWindow(row, t)
  THEN [row EXCEPT !.count = @ + 1, !.last = t]
  ELSE [row EXCEPT !.count = @ + 1, !.start = t, !.last = t]

\* The row that recordMFAFailure writes for a failure, from the row it read;
\* the time is the one at which the request came in.
Counted(row, t) ==
  IF InWindow(row, t)
  THEN [row EXCEPT !.count = @ + 1, !.last = t]
  ELSE [count |-> 1, start |-> t, last |-> t]

\* Somebody else has read the count and is about to write it.
Counting(v) == \E u \in Verifiers \ {v} : checks[u].pc = "count"

\* Once the count has been raced for, it says less than the failures.
Race(now, failures) ==
  /\ raced' = (raced \/ now)
  /\ since' = IF raced' THEN 0 ELSE failures

To(v, step) == checks' = [checks EXCEPT ![v] = step]

-----------------------------------------------------------------------------

\* checkMFALockout
Enter(v) ==
  /\ checks[v] = NoCheck
  /\ clock >= LockedUntil(lock, clock)
  /\ To(v, [pc |-> "verify", at |-> clock])
  /\ UNCHANGED <<clock, lock, wrong, since, raced>>

\* A code or an assertion is right or wrong; an attempt that is refused for
\* another reason (a replay, an error) ends in Abandon.
Verify(v) ==
  /\ checks[v].pc = "verify"
  /\ \E verdict \in {"right", "wrong"} :
       To(v, [checks[v] EXCEPT !.pc = verdict])
  /\ UNCHANGED <<clock, lock, wrong, since, raced>>

\* recordMFAFailure reads ...
ReadFailures(v) ==
  /\ checks[v].pc = "wrong"
  /\ WrongFrom(1) < MaxWrong
  /\ wrong' = [wrong EXCEPT ![clock] = @ + 1]
  /\ Race(Counting(v), IF InWindow(lock, checks[v].at) THEN since + 1 ELSE 1)
  /\ To(v, [pc |-> "count", at |-> checks[v].at, row |-> lock])
  /\ UNCHANGED <<clock, lock>>

\* ... and writes, whatever the row is by now.
WriteFailure(v) ==
  /\ checks[v].pc = "count"
  /\ lock' = Counted(checks[v].row, checks[v].at)
  /\ To(v, NoCheck)
  /\ UNCHANGED <<clock, wrong, since, raced>>

\* clearMFAFailuresIfLocked deletes the row, locked or not.
ClearFailures(v) ==
  /\ checks[v].pc = "right"
  /\ lock' = NoLock
  /\ Race(Counting(v), 0)
  /\ To(v, NoCheck)
  /\ UNCHANGED <<clock, wrong>>

\* A statement fails, or the process dies.
Abandon(v) ==
  /\ checks[v] # NoCheck
  /\ Race(checks[v].pc = "count", since)
  /\ To(v, NoCheck)
  /\ UNCHANGED <<clock, lock, wrong>>

\* AdminFullResetUserMFA, WebAuthnRegisterFinish
AdminReset ==
  /\ lock # NoLock
  /\ lock' = NoLock
  /\ Race(\E v \in Verifiers : checks[v].pc = "count", 0)
  /\ UNCHANGED <<clock, checks, wrong>>

TickClock ==
  /\ clock < MaxClock
  /\ clock' = clock + 1
  /\ UNCHANGED <<lock, checks, wrong, since, raced>>

LockoutNext ==
  \/ \E v \in Verifiers :
       \/ Enter(v) \/ Verify(v) \/ ReadFailures(v) \/ WriteFailure(v)
       \/ ClearFailures(v) \/ Abandon(v)
  \/ AdminReset \/ TickClock

LockoutSpec == LockoutInit /\ [][LockoutNext]_lockoutVars

-----------------------------------------------------------------------------
(* Properties.                                                             *)

(* The row never counts a failure that did not happen since the window it  *)
(* names began, whatever the order of the writes; and where no request     *)
(* read a count that another was about to write, it counts every failure   *)
(* since the count was last cleared, but for the one that a request is     *)
(* about to write (auth/mfa_lockout.go:102).                               *)
FailuresAddUp ==
  /\ lock.start # 0 => lock.count <= WrongFrom(lock.start)
  /\ ~raced /\ (\A v \in Verifiers : checks[v].pc # "count") => lock.count = since

(* The lock does what it is for: without a success in between, and where   *)
(* no count was lost to a race, no more failures fit into one window than  *)
(* mfaHardCapThreshold and those of the requests that had passed           *)
(* checkMFALockout by then (auth/mfa_lockout.go:35, :156).                 *)
GuessesBounded == since <= Hard + Cardinality(Verifiers) - 1

(* The count and the lock do their work: see the two parts.                *)
LockHolds == FailuresAddUp /\ GuessesBounded
=============================================================================
