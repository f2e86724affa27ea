----------------------------- MODULE Scheduler -----------------------------
(***************************************************************************)
(* The clock of billing: when the scheduler's loop meters the users and    *)
(* when it sweeps, across slow rounds, skipped rounds and restarts of the  *)
(* process (billing/scheduler.go).  Ledger says what a tick and a sweep    *)
(* do to the accounts, and lets them happen at any time.                   *)
(***************************************************************************)
EXTENDS Naturals, FiniteSets

CONSTANTS
  Users,        \* the billable users
  Interval,     \* cfg.TickInterval, in units of the clock
  Day,          \* a UTC day, in units of the clock
  SweepAt,      \* cfg.SweepAtUTC, within the day
  MaxTime,      \* bound: the clock
  MaxRestarts,  \* bound: how often the process dies
  MayLag,       \* TRUE: a round may take long
  MayFail       \* TRUE: the rate and a user's tick may fail

ASSUME SchedulerAssumption ==
  /\ Interval \in Nat \ {0}
  /\ Day \in Nat \ {0}
  /\ SweepAt \in 0 .. Day - 1
  /\ MaxTime \in Nat
  /\ MaxRestarts \in Nat
  /\ MayLag \in BOOLEAN
  /\ MayFail \in BOOLEAN

VARIABLES
  now,       \* the wall clock
  proc,      \* the goroutine of Scheduler.Run
  charged,   \* how often a user was metered in the hour of a boundary
  swept,     \* how often the users were swept on a day
  restarts

vars == <<now, proc, charged, swept, restarts>>

Time == 0 .. MaxTime
Later == 0 .. MaxTime + Interval
DayOf(t) == t \div Day
Days == {DayOf(t) : t \in Time}

Truncate(t) == t - (t % Interval)
Boundaries == {t \in Time : t % Interval = 0}

\* lastSweepDate = ""
Never == MaxTime + 1

Down == [pc |-> "down"]

\* since is when the process started, missed whether it has let a boundary go
\* by: both are there for the properties only.
Process ==
  {Down}
  \cup [pc: {"sleep"}, target: {t \in Later : t % Interval = 0},
        last: Days \cup {Never}, since: Time, missed: BOOLEAN]
  \cup [pc: {"tick"}, at: Time, todo: SUBSET Users,
        last: Days \cup {Never}, since: Time, missed: BOOLEAN]

TypeOK ==
  /\ now \in Time
  /\ proc \in Process
  /\ charged \in [Users -> [Boundaries -> Nat]]
  /\ swept \in [Days -> Nat]
  /\ restarts \in 0 .. MaxRestarts

\* Mutant: a boundary counts as the next one of itself.
NextInclusive(t) == IF t % Interval = 0 THEN t ELSE Truncate(t) + Interval

\* Mutant: an interval from now on, aligned with nothing.
NextUnaligned(t) == t + Interval

\* nextTickBoundary: strictly after t.
NextBoundary(t) == Truncate(t) + Interval

\* Mutant: lastSweepDate is not looked at.
SweepAgain(at, last) == at % Day >= SweepAt

\* Mutant: the sweep is due at its minute only.
SweepOnTheDot(at, last) == last # DayOf(at) /\ at % Day = SweepAt

\* shouldRunSweep
ShouldSweep(at, last) == last # DayOf(at) /\ at % Day >= SweepAt

Sleep(last, since, missed) ==
  [pc |-> "sleep", target |-> NextBoundary(now), last |-> last,
   since |-> since, missed |-> missed]

Init ==
  /\ now = 0
  /\ proc = Sleep(Never, 0, FALSE)
  /\ charged = [u \in Users |-> [b \in Boundaries |-> 0]]
  /\ swept = [d \in Days |-> 0]
  /\ restarts = 0

\* Run starts: what was ticked or swept before is not known to it.
Start ==
  /\ proc = Down
  /\ proc' = Sleep(Never, now, FALSE)
  /\ UNCHANGED <<now, charged, swept, restarts>>

\* sleepUntil returns and the rate is at hand.
Wake ==
  /\ proc.pc = "sleep"
  /\ now >= proc.target
  /\ proc' = [pc |-> "tick", at |-> now, todo |-> Users, last |-> proc.last,
              since |-> proc.since, missed |-> proc.missed]
  /\ UNCHANGED <<now, charged, swept, restarts>>

\* Without a rate the tick is skipped.
SkipTick ==
  /\ MayFail
  /\ proc.pc = "sleep"
  /\ now >= proc.target
  /\ proc' = Sleep(proc.last, proc.since, TRUE)
  /\ UNCHANGED <<now, charged, swept, restarts>>

\* TickAllActiveUsers, user by user; a user whose statement fails is passed
\* over, and so are all when the users cannot be listed.
TickUser(u) ==
  /\ proc.pc = "tick"
  /\ u \in proc.todo
  /\ \/ charged' = [charged EXCEPT ![u][Truncate(proc.at)] = @ + 1]
     \/ MayFail /\ UNCHANGED charged
  /\ proc' = [proc EXCEPT !.todo = @ \ {u}]
  /\ UNCHANGED <<now, swept, restarts>>

\* The rest of the round is judged by the time at which it began.  A sweep
\* that fails counts as the sweep of the day.
EndRound ==
  /\ proc.pc = "tick"
  /\ proc.todo = {}
  /\ \/ /\ ShouldSweep(proc.at, proc.last)
        /\ swept' = [swept EXCEPT ![DayOf(proc.at)] = @ + 1]
        /\ proc' = Sleep(DayOf(proc.at), proc.since, proc.missed)
     \/ /\ ~ShouldSweep(proc.at, proc.last)
        /\ proc' = Sleep(proc.last, proc.since, proc.missed)
        /\ UNCHANGED swept
  /\ UNCHANGED <<now, charged, restarts>>

\* The process dies, with whatever the round has done so far.
Stop ==
  /\ proc # Down
  /\ restarts < MaxRestarts
  /\ restarts' = restarts + 1
  /\ proc' = Down
  /\ UNCHANGED <<now, charged, swept>>

Due == proc.pc = "tick" \/ (proc.pc = "sleep" /\ now >= proc.target)

\* Time passes; over a boundary while a round is due or going on, if it may lag.
Advance ==
  /\ now < MaxTime
  /\ Due => MayLag
  /\ now' = now + 1
  /\ proc' = IF Due /\ (now + 1) % Interval = 0
             THEN [proc EXCEPT !.missed = TRUE] ELSE proc
  /\ UNCHANGED <<charged, swept, restarts>>

Next ==
  \/ Start \/ Wake \/ SkipTick \/ EndRound \/ Stop \/ Advance
  \/ \E u \in Users : TickUser(u)

Spec == Init /\ [][Next]_vars

-----------------------------------------------------------------------------
(***************************************************************************)
(* Properties                                                              *)
(***************************************************************************)

\* No user pays twice for an hour, whenever the process dies, comes back, or
\* takes more than an hour for a round: the upsert of TickUser adds whatever
\* it is given, and nothing but the choice of the next boundary protects it.
ChargedOncePerHour ==
  \A u \in Users, b \in Boundaries : charged[u][b] <= 1

\* One process sweeps at most once a day; only a restart adds a sweep.
OneSweepPerProcess == \A d \in Days : swept[d] <= 1 + restarts

\* A process that was there before the last boundary of a day, and let none go
\* by, has swept on that day.
NoDaySkipped ==
  proc # Down /\ ~proc.missed =>
    \A d \in Days :
      (d + 1) * Day <= now /\ proc.since < Truncate((d + 1) * Day - 1) =>
        swept[d] >= 1
=============================================================================
