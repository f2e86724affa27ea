-------------------------- MODULE Scheduler_proofs --------------------------
(***************************************************************************)
(* What holds of the scheduler for any tick interval, any length of the    *)
(* day, any users, and any number of restarts.                             *)
(***************************************************************************)
EXTENDS Scheduler, TLAPS

-----------------------------------------------------------------------------
(***************************************************************************)
(* Boundaries and days                                                     *)
(***************************************************************************)

LEMMA DivMod ==
  ASSUME NEW t \in Nat, NEW k \in Nat \ {0}
  PROVE  /\ t \div k \in Nat
         /\ t % k \in 0 .. k - 1
         /\ t = k * (t \div k) + (t % k)
  BY SMT

LEMMA MultMod ==
  ASSUME NEW q \in Nat, NEW k \in Nat \ {0}
  PROVE  (k * q) % k = 0
  BY SMT

LEMMA Monotone ==
  ASSUME NEW k \in Nat \ {0}, NEW p \in Nat, NEW q \in Nat, p <= q
  PROVE  k * p <= k * q
  BY SMT

LEMMA QuotientOrder ==
  ASSUME NEW k \in Nat \ {0}, NEW p \in Nat, NEW q \in Nat,
         NEW r \in 0 .. k - 1, k * p <= k * q + r
  PROVE  p <= q
<1>1. SUFFICES ASSUME p >= q + 1
               PROVE  FALSE
  BY SMT
<1>2. k * p >= k * (q + 1)
  BY <1>1, SMT
<1>3. k * (q + 1) = k * q + k
  BY SMT
<1>4. QED BY <1>2, <1>3, SMT

\* Truncate is the last boundary at or before a time.
LEMMA TruncateIsBoundary ==
  ASSUME NEW t \in Nat
  PROVE  /\ Truncate(t) \in Nat
         /\ Truncate(t) <= t
         /\ t < Truncate(t) + Interval
         /\ Truncate(t) % Interval = 0
<1>1. Interval \in Nat \ {0}
  BY SchedulerAssumption
<1>2. /\ t \div Interval \in Nat
      /\ t % Interval \in 0 .. Interval - 1
      /\ t = Interval * (t \div Interval) + (t % Interval)
  BY <1>1, DivMod
<1>3. Truncate(t) = Interval * (t \div Interval)
  BY <1>1, <1>2, SMT DEF Truncate
<1>4. Truncate(t) % Interval = 0
  BY <1>1, <1>2, <1>3, MultMod
<1>5. Truncate(t) \in Nat /\ Truncate(t) <= t
      /\ t < Truncate(t) + Interval
  BY <1>1, <1>2, SMT DEF Truncate
<1>6. QED BY <1>4, <1>5

LEMMA TruncateIsLast ==
  ASSUME NEW t \in Nat, NEW b \in Nat, b % Interval = 0, b <= t
  PROVE  b <= Truncate(t)
<1>1. Interval \in Nat \ {0}
  BY SchedulerAssumption
<1>2. /\ t \div Interval \in Nat
      /\ t % Interval \in 0 .. Interval - 1
      /\ t = Interval * (t \div Interval) + (t % Interval)
  BY <1>1, DivMod
<1>3. /\ b \div Interval \in Nat
      /\ b = Interval * (b \div Interval) + 0
  BY <1>1, DivMod
<1> DEFINE p == b \div Interval
           q == t \div Interval
           r == t % Interval
<1>4. p <= q
  <2>1. Interval * p <= Interval * q + r
    BY <1>1, <1>2, <1>3, SMT
  <2> HIDE DEF p, q, r
  <2>2. p \in Nat /\ q \in Nat /\ r \in 0 .. Interval - 1
    BY <1>2, <1>3 DEF p, q, r
  <2>3. QED BY <1>1, <2>1, <2>2, QuotientOrder
<1>5. Interval * p <= Interval * q
  BY <1>1, <1>2, <1>3, <1>4, Monotone
<1>6. QED BY <1>1, <1>2, <1>3, <1>5, SMT DEF Truncate

LEMMA NextIsBoundary ==
  ASSUME NEW b \in Nat, b % Interval = 0
  PROVE  (b + Interval) % Interval = 0
<1>1. Interval \in Nat \ {0}
  BY SchedulerAssumption
<1> DEFINE q == b \div Interval
<1>2. q \in Nat /\ b = Interval * q + 0
  BY <1>1, DivMod
<1>3. b + Interval = Interval * (q + 1)
  BY <1>1, <1>2, SMT
<1>4. q + 1 \in Nat
  BY <1>2
<1> HIDE DEF q
<1>5. QED BY <1>1, <1>3, <1>4, MultMod

\* The next boundary is a boundary, and later than now.
LEMMA NextBoundaryIsLater ==
  ASSUME NEW t \in Time
  PROVE  /\ NextBoundary(t) \in Later
         /\ NextBoundary(t) % Interval = 0
         /\ NextBoundary(t) > t
<1>1. Interval \in Nat \ {0} /\ MaxTime \in Nat /\ t \in Nat
  BY SchedulerAssumption DEF Time
<1>2. /\ Truncate(t) \in Nat /\ Truncate(t) <= t
      /\ t < Truncate(t) + Interval /\ Truncate(t) % Interval = 0
  BY <1>1, TruncateIsBoundary
<1> DEFINE b == Truncate(t)
<1>3. (b + Interval) % Interval = 0
  <2>1. b \in Nat /\ b % Interval = 0
    BY <1>2
  <2> HIDE DEF b
  <2>2. QED BY <2>1, NextIsBoundary
<1>4. QED BY <1>1, <1>2, <1>3, SMT DEF NextBoundary, Later, Time

LEMMA DayIsMonotone ==
  ASSUME NEW s \in Time, NEW t \in Time, s <= t
  PROVE  DayOf(s) \in Nat /\ DayOf(t) \in Nat /\ DayOf(s) <= DayOf(t)
<1>1. Day \in Nat \ {0} /\ s \in Nat /\ t \in Nat
  BY SchedulerAssumption DEF Time
<1> DEFINE p == s \div Day
           q == t \div Day
           r == t % Day
<1>2. p \in Nat /\ s % Day \in 0 .. Day - 1 /\ s = Day * p + (s % Day)
  BY <1>1, DivMod
<1>3. q \in Nat /\ r \in 0 .. Day - 1 /\ t = Day * q + r
  BY <1>1, DivMod
<1>4. Day * p <= Day * q + r
  BY <1>1, <1>2, <1>3, SMT
<1> HIDE DEF p, q, r
<1>5. p <= q
  BY <1>1, <1>2, <1>3, <1>4, QuotientOrder
<1>6. QED BY <1>2, <1>3, <1>5 DEF DayOf, p, q

LEMMA DayOfTime ==
  ASSUME NEW t \in Time
  PROVE  DayOf(t) \in Days /\ DayOf(t) # Never
<1>1. DayOf(t) \in Days
  BY DEF Days
<1>2. Day \in Nat \ {0} /\ MaxTime \in Nat /\ t \in Nat
  BY SchedulerAssumption DEF Time
<1> DEFINE q == t \div Day
<1>3. q \in Nat /\ t % Day \in 0 .. Day - 1 /\ t = Day * q + (t % Day)
  BY <1>2, DivMod
<1>4. 1 * q <= Day * q
  BY <1>2, <1>3, SMT
<1>5. q <= t
  BY <1>2, <1>3, <1>4, SMT
<1>6. QED BY <1>1, <1>2, <1>5, SMT DEF DayOf, Never, Time

-----------------------------------------------------------------------------
(***************************************************************************)
(* Types                                                                   *)
(***************************************************************************)

LEMMA SleepType ==
  ASSUME now \in Time, NEW last \in Days \cup {Never}, NEW since \in Time,
         NEW missed \in BOOLEAN
  PROVE  Sleep(last, since, missed) \in Process
<1>1. NextBoundary(now) \in {t \in Later : t % Interval = 0}
  BY NextBoundaryIsLater
<1>2. QED BY <1>1 DEF Sleep, Process

LEMMA InitType ==
  ASSUME Init
  PROVE  TypeOK
<1>1. now \in Time /\ restarts \in 0 .. MaxRestarts
  BY SchedulerAssumption DEF Init, Time
<1>2. proc \in Process
  BY <1>1, SleepType DEF Init
<1>3. QED BY <1>1, <1>2 DEF Init, TypeOK

LEMMA NextType ==
  ASSUME TypeOK, [Next]_vars
  PROVE  TypeOK'
<1>1. CASE Start
  <2>1. proc' = Sleep(Never, now, FALSE)
    BY <1>1 DEF Start
  <2>2. proc' \in Process
    BY <2>1, SleepType DEF TypeOK
  <2>3. QED BY <1>1, <2>2 DEF TypeOK, Start
<1>2. CASE Wake
  <2>1. proc' \in Process
    BY <1>2 DEF TypeOK, Wake, Process, Down
  <2>2. QED BY <1>2, <2>1 DEF TypeOK, Wake
<1>3. CASE SkipTick
  <2>1. proc.last \in Days \cup {Never} /\ proc.since \in Time
    BY <1>3 DEF TypeOK, SkipTick, Process, Down
  <2>2. proc' = Sleep(proc.last, proc.since, TRUE)
    BY <1>3 DEF SkipTick
  <2>3. proc' \in Process
    BY <2>1, <2>2, SleepType DEF TypeOK
  <2>4. QED BY <1>3, <2>3 DEF TypeOK, SkipTick
<1>4. CASE EndRound
  <2>1. /\ proc.last \in Days \cup {Never} /\ proc.since \in Time
        /\ proc.missed \in BOOLEAN /\ proc.at \in Time
    BY <1>4 DEF TypeOK, EndRound, Process, Down
  <2>2. DayOf(proc.at) \in Days
    BY <2>1, DayOfTime
  <2>3. \/ proc' = Sleep(DayOf(proc.at), proc.since, proc.missed)
        \/ proc' = Sleep(proc.last, proc.since, proc.missed)
    BY <1>4 DEF EndRound
  <2>4. proc' \in Process
    BY <2>1, <2>2, <2>3, SleepType DEF TypeOK
  <2>5. swept' \in [Days -> Nat]
    BY <1>4 DEF EndRound, TypeOK
  <2>6. QED BY <1>4, <2>4, <2>5 DEF TypeOK, EndRound
<1>5. CASE Stop
  <2>1. restarts' \in 0 .. MaxRestarts
    BY <1>5, SchedulerAssumption DEF Stop, TypeOK
  <2>2. QED BY <1>5, <2>1 DEF TypeOK, Stop, Process
<1>6. CASE Advance
  <2>1. now' \in Time
    BY <1>6, SchedulerAssumption DEF Advance, TypeOK, Time
  <2>2. proc' \in Process
    BY <1>6 DEF Advance, TypeOK, Process, Down, Due
  <2>3. QED BY <1>6, <2>1, <2>2 DEF TypeOK, Advance
<1>7. ASSUME NEW u \in Users, TickUser(u)
      PROVE  TypeOK'
  <2>1. proc' \in Process
    BY <1>7 DEF TypeOK, TickUser, Process, Down
  <2>2. charged' \in [Users -> [Boundaries -> Nat]]
    BY <1>7 DEF TickUser, TypeOK
  <2>3. QED BY <1>7, <2>1, <2>2 DEF TypeOK, TickUser
<1>8. CASE UNCHANGED vars
  BY <1>8 DEF TypeOK, vars
<1>9. QED
  BY <1>1, <1>2, <1>3, <1>4, <1>5, <1>6, <1>7, <1>8 DEF Next

\* Every variable keeps its type; in particular the loop of Run always waits for
\* a boundary, never for a time between two.
THEOREM TypeCorrect == Spec => []TypeOK
<1>1. Init => TypeOK
  BY InitType
<1>2. TypeOK /\ [Next]_vars => TypeOK'
  BY NextType
<1>3. QED BY <1>1, <1>2, PTL DEF Spec

-----------------------------------------------------------------------------
(***************************************************************************)
(* No hour is charged twice.  A boundary is charged in the round that      *)
(* wakes in its interval; it was not charged before, because the process   *)
(* slept until that boundary or an earlier one, and no process ever waits  *)
(* for a boundary that is not ahead of the clock.                          *)
(***************************************************************************)

\* Nothing is charged ahead of the clock.
NotAhead == \A u \in Users, b \in Boundaries : b > now => charged[u][b] = 0

\* What the process waits for has not been charged, nor has anything later.
TargetIsNew ==
  proc.pc = "sleep" =>
    \A u \in Users, b \in Boundaries : b >= proc.target => charged[u][b] = 0

\* In a round, the users still to come have not been charged for its hour.
RoundIsNew ==
  proc.pc = "tick" =>
    /\ proc.at <= now
    /\ \A u \in proc.todo : charged[u][Truncate(proc.at)] = 0

ChargeInv == ChargedOncePerHour /\ NotAhead /\ TargetIsNew /\ RoundIsNew

LEMMA BoundaryFacts ==
  /\ now \in Time => now \in Nat
  /\ \A b \in Boundaries : b \in Time /\ b \in Nat /\ b % Interval = 0
  BY SchedulerAssumption DEF Time, Boundaries

LEMMA TruncateInBoundaries ==
  ASSUME NEW t \in Time
  PROVE  Truncate(t) \in Boundaries /\ Truncate(t) <= t
<1>1. t \in Nat /\ t <= MaxTime /\ MaxTime \in Nat
  BY SchedulerAssumption DEF Time
<1>2. QED BY <1>1, TruncateIsBoundary, SMT DEF Boundaries, Time

\* Whoever goes to sleep waits for a boundary that is ahead of the clock.
LEMMA SleepKeepsChargeInv ==
  ASSUME TypeOK, ChargeInv, NEW last, NEW since, NEW missed,
         proc' = Sleep(last, since, missed), UNCHANGED <<now, charged>>
  PROVE  ChargeInv'
<1>1. now \in Time /\ NextBoundary(now) > now /\ NextBoundary(now) \in Nat
  <2>1. now \in Time
    BY DEF TypeOK
  <2>2. NextBoundary(now) > now /\ NextBoundary(now) \in Later
    BY <2>1, NextBoundaryIsLater
  <2>3. QED BY <2>1, <2>2, SchedulerAssumption DEF Later
<1>2. proc'.pc = "sleep" /\ proc'.target = NextBoundary(now)
  BY DEF Sleep
<1>3. ASSUME NEW u \in Users, NEW b \in Boundaries, b >= proc'.target
      PROVE  charged'[u][b] = 0
  <2>1. b > now
    BY <1>1, <1>2, <1>3, BoundaryFacts, SMT
  <2>2. QED BY <2>1 DEF ChargeInv, NotAhead
<1>4. TargetIsNew' /\ RoundIsNew'
  BY <1>2, <1>3 DEF TargetIsNew, RoundIsNew
<1>5. QED BY <1>4 DEF ChargeInv, ChargedOncePerHour, NotAhead

LEMMA WakeKeepsChargeInv ==
  ASSUME TypeOK, ChargeInv, Wake
  PROVE  ChargeInv'
<1>1. /\ now \in Time /\ now \in Nat
      /\ proc.pc = "sleep" /\ proc.target <= now
      /\ proc.target \in Nat /\ proc.target % Interval = 0
  <2>1. now \in Time /\ proc \in Process /\ proc.pc = "sleep"
    BY DEF TypeOK, Wake
  <2>2. proc.target \in Later /\ proc.target % Interval = 0
    BY <2>1 DEF Process, Down
  <2>3. QED BY <2>1, <2>2, SchedulerAssumption DEF Wake, Later, Time
<1>2. /\ proc'.pc = "tick" /\ proc'.at = now /\ proc'.todo = Users
      /\ UNCHANGED <<now, charged>>
  BY DEF Wake
<1>3. Truncate(now) \in Boundaries /\ proc.target <= Truncate(now)
  BY <1>1, TruncateInBoundaries, TruncateIsLast
<1>4. \A u \in Users : charged[u][Truncate(now)] = 0
  <2>1. Truncate(now) >= proc.target
    BY <1>1, <1>3, BoundaryFacts, SMT
  <2>2. QED BY <1>1, <1>3, <2>1 DEF ChargeInv, TargetIsNew
<1>5. Truncate(proc'.at) = Truncate(now)
  BY <1>2
<1>6. RoundIsNew'
  <2>1. proc'.at <= now'
    BY <1>1, <1>2
  <2>2. \A u \in proc'.todo : charged'[u][Truncate(proc'.at)] = 0
    BY <1>2, <1>4, <1>5
  <2>3. QED BY <2>1, <2>2 DEF RoundIsNew
<1>7. TargetIsNew'
  BY <1>2 DEF TargetIsNew
<1>8. QED BY <1>2, <1>6, <1>7 DEF ChargeInv, ChargedOncePerHour, NotAhead

LEMMA TickUserKeepsChargeInv ==
  ASSUME TypeOK, ChargeInv, NEW u \in Users, TickUser(u)
  PROVE  ChargeInv'
<1> DEFINE t == Truncate(proc.at)
<1>1. /\ proc.pc = "tick" /\ u \in proc.todo /\ proc.todo \subseteq Users
      /\ proc.at \in Time /\ now \in Time /\ proc.at <= now
      /\ proc'.pc = "tick" /\ proc'.at = proc.at
      /\ proc'.todo = proc.todo \ {u} /\ now' = now
  <2>1. proc \in Process /\ now \in Time /\ proc.pc = "tick"
    BY DEF TypeOK, TickUser
  <2>2. QED BY <2>1 DEF TickUser, Process, Down, ChargeInv, RoundIsNew
<1>2. t \in Boundaries /\ t <= proc.at
  BY <1>1, TruncateInBoundaries
<1>3. charged[u][t] = 0
  BY <1>1 DEF ChargeInv, RoundIsNew
<1>4. charged \in [Users -> [Boundaries -> Nat]]
  BY DEF TypeOK
<1>5. \/ charged' = [charged EXCEPT ![u][t] = @ + 1]
      \/ charged' = charged
  BY DEF TickUser
<1> HIDE DEF t
<1>6. \A v \in Users, b \in Boundaries :
        charged'[v][b] = charged[v][b] \/ (v = u /\ b = t /\ charged'[v][b] = 1)
  BY <1>2, <1>3, <1>4, <1>5
<1>7. ChargedOncePerHour'
  <2>1. \A v \in Users, b \in Boundaries : charged[v][b] <= 1
    BY DEF ChargeInv, ChargedOncePerHour
  <2>2. \A v \in Users, b \in Boundaries : charged'[v][b] <= 1
    BY <1>6, <2>1
  <2>3. QED BY <2>2 DEF ChargedOncePerHour
<1>8. NotAhead'
  <2>1. t <= now
    BY <1>1, <1>2, BoundaryFacts, SMT DEF Time
  <2>2. \A v \in Users, b \in Boundaries : b > now => b # t
    BY <1>1, <1>2, <2>1, BoundaryFacts, SMT
  <2>3. \A v \in Users, b \in Boundaries : b > now => charged'[v][b] = 0
    BY <1>6, <2>2 DEF ChargeInv, NotAhead
  <2>4. QED BY <1>1, <2>3 DEF NotAhead
<1>9. RoundIsNew'
  <2>1. \A v \in proc'.todo : charged'[v][t] = 0
    BY <1>1, <1>2, <1>6 DEF ChargeInv, RoundIsNew, t
  <2>2. QED BY <1>1, <2>1 DEF RoundIsNew, t
<1>10. TargetIsNew'
  BY <1>1 DEF TargetIsNew
<1>11. QED BY <1>7, <1>8, <1>9, <1>10 DEF ChargeInv

LEMMA AdvanceKeepsChargeInv ==
  ASSUME TypeOK, ChargeInv, Advance
  PROVE  ChargeInv'
<1>1. /\ now \in Nat /\ now' = now + 1 /\ charged' = charged
      /\ \A b \in Boundaries : b \in Nat
  BY BoundaryFacts DEF TypeOK, Advance
<1>2. proc' = proc \/ proc' = [proc EXCEPT !.missed = TRUE]
  BY DEF Advance
<1>3. /\ proc'.pc = proc.pc
      /\ proc.pc = "sleep" => proc'.target = proc.target
      /\ proc.pc = "tick" => /\ proc'.at = proc.at /\ proc'.todo = proc.todo
                             /\ proc.at \in Nat
  BY <1>2, SchedulerAssumption DEF TypeOK, Process, Down, Time
<1>4. NotAhead'
  BY <1>1 DEF ChargeInv, NotAhead
<1>5. TargetIsNew'
  BY <1>1, <1>3 DEF ChargeInv, TargetIsNew
<1>6. RoundIsNew'
  BY <1>1, <1>3 DEF ChargeInv, RoundIsNew, Truncate
<1>7. QED BY <1>1, <1>4, <1>5, <1>6 DEF ChargeInv, ChargedOncePerHour

LEMMA NextKeepsChargeInv ==
  ASSUME TypeOK, ChargeInv, [Next]_vars
  PROVE  ChargeInv'
<1>1. CASE Start
  BY <1>1, SleepKeepsChargeInv DEF Start
<1>2. CASE Wake
  BY <1>2, WakeKeepsChargeInv
<1>3. CASE SkipTick
  BY <1>3, SleepKeepsChargeInv DEF SkipTick
<1>4. CASE EndRound
  <2>1. /\ UNCHANGED <<now, charged>>
        /\ \/ proc' = Sleep(DayOf(proc.at), proc.since, proc.missed)
           \/ proc' = Sleep(proc.last, proc.since, proc.missed)
    BY <1>4 DEF EndRound
  <2>2. QED BY <2>1, SleepKeepsChargeInv
<1>5. CASE Stop
  BY <1>5 DEF Stop, Down, ChargeInv, ChargedOncePerHour, NotAhead, TargetIsNew,
              RoundIsNew
<1>6. CASE Advance
  BY <1>6, AdvanceKeepsChargeInv
<1>7. ASSUME NEW u \in Users, TickUser(u)
      PROVE  ChargeInv'
  BY <1>7, TickUserKeepsChargeInv
<1>8. CASE UNCHANGED vars
  BY <1>8 DEF vars, ChargeInv, ChargedOncePerHour, NotAhead, TargetIsNew,
              RoundIsNew
<1>9. QED
  BY <1>1, <1>2, <1>3, <1>4, <1>5, <1>6, <1>7, <1>8 DEF Next

\* No user pays twice for an hour, with any tick interval, however late a round
\* begins, however long it takes, and whenever the process dies and comes back
\* (Run, nextTickBoundary).
THEOREM ChargedOnceHolds == Spec => []ChargedOncePerHour
<1>1. Init => ChargeInv
  <2> SUFFICES ASSUME Init
               PROVE  ChargeInv
    OBVIOUS
  <2>1. \A u \in Users, b \in Boundaries : charged[u][b] = 0
    BY DEF Init
  <2>2. proc.pc = "sleep"
    BY DEF Init, Sleep
  <2>3. QED
    BY <2>1, <2>2 DEF ChargeInv, ChargedOncePerHour, NotAhead, TargetIsNew,
                      RoundIsNew
<1>2. TypeOK /\ ChargeInv /\ [Next]_vars => ChargeInv'
  BY NextKeepsChargeInv
<1>3. ChargeInv => ChargedOncePerHour
  BY DEF ChargeInv
<1>4. QED BY <1>1, <1>2, <1>3, TypeCorrect, PTL DEF Spec

-----------------------------------------------------------------------------
(***************************************************************************)
(* A process remembers the day of its last sweep, and time does not go     *)
(* back: a day it has swept is not later than the one it remembers.        *)
(***************************************************************************)

\* Days are numbers.
LEMMA DaysAreNumbers == \A d \in Days : d \in Nat
<1> SUFFICES ASSUME NEW t \in Time
             PROVE  DayOf(t) \in Nat
  BY DEF Days
<1>1. t <= t
  BY SchedulerAssumption DEF Time
<1>2. QED BY <1>1, DayIsMonotone

\* The time by which the process judges the day.
Clock == IF proc.pc = "tick" THEN proc.at ELSE now

\* Without the sweep of the process itself, one sweep per process before it.
SweptBefore ==
  /\ proc.pc = "down" => \A d \in Days : swept[d] <= restarts
  /\ proc.pc # "down" =>
       /\ Clock \in Time /\ Clock <= now
       /\ proc.last # Never => proc.last <= DayOf(Clock)
       /\ \A d \in Days :
            proc.last = Never \/ d > proc.last => swept[d] <= restarts

SweepInv == OneSweepPerProcess /\ SweptBefore

\* Steps that neither sweep nor change what the process remembers.
LEMMA SameMemory ==
  ASSUME TypeOK, TypeOK', SweepInv, UNCHANGED <<swept, restarts>>,
         proc.pc # "down", proc'.pc # "down", proc'.last = proc.last,
         Clock' \in Time, Clock' <= now', Clock <= Clock'
  PROVE  SweepInv'
<1>1. proc.last # Never => proc.last <= DayOf(Clock')
  <2> SUFFICES ASSUME proc.last # Never
               PROVE  proc.last <= DayOf(Clock')
    OBVIOUS
  <2>1. Clock \in Time /\ proc.last <= DayOf(Clock)
    BY DEF SweepInv, SweptBefore
  <2>2. DayOf(Clock) \in Nat /\ DayOf(Clock') \in Nat
        /\ DayOf(Clock) <= DayOf(Clock')
    BY <2>1, DayIsMonotone
  <2>3. proc.last \in Nat
    BY DaysAreNumbers DEF TypeOK, Process, Down
  <2>4. QED BY <2>1, <2>2, <2>3, SMT
<1>2. OneSweepPerProcess'
  BY DEF SweepInv, OneSweepPerProcess
<1>3. \A d \in Days : proc.last = Never \/ d > proc.last => swept[d] <= restarts
  BY DEF SweepInv, SweptBefore
<1>4. DayOf(Clock)' = DayOf(Clock')
  BY DEF DayOf
<1>5. SweptBefore'
  BY <1>1, <1>3, <1>4 DEF SweptBefore
<1>6. QED BY <1>2, <1>5 DEF SweepInv

LEMMA EndRoundKeepsSweepInv ==
  ASSUME TypeOK, TypeOK', SweepInv, EndRound
  PROVE  SweepInv'
<1>1. /\ proc.pc = "tick" /\ proc.at \in Time /\ proc.at <= now /\ now \in Time
      /\ proc.last \in Days \cup {Never} /\ swept \in [Days -> Nat]
      /\ restarts \in Nat /\ now' = now /\ restarts' = restarts
      /\ Clock = proc.at
  BY SchedulerAssumption
     DEF TypeOK, EndRound, Process, Down, SweepInv, SweptBefore, Clock
<1>2. now \in Nat /\ now <= now
  BY <1>1, SchedulerAssumption DEF Time
<1>3. CASE /\ ShouldSweep(proc.at, proc.last)
           /\ swept' = [swept EXCEPT ![DayOf(proc.at)] = @ + 1]
           /\ proc' = Sleep(DayOf(proc.at), proc.since, proc.missed)
  <2> DEFINE today == DayOf(proc.at)
  <2>1. today \in Days /\ today # Never /\ today \in Nat
    BY <1>1, DayOfTime, DaysAreNumbers
  <2>2. proc.last # today
    BY <1>3 DEF ShouldSweep
  <2>3. proc.last = Never \/ today > proc.last
    <3>1. proc.last # Never => proc.last <= today /\ proc.last \in Nat
      BY <1>1, DaysAreNumbers DEF SweepInv, SweptBefore
    <3>2. QED BY <2>1, <2>2, <3>1, SMT
  <2>4. swept[today] <= restarts
    BY <1>1, <2>1, <2>3 DEF SweepInv, SweptBefore
  <2>5. \A d \in Days : d > today => proc.last = Never \/ d > proc.last
    BY <1>1, <2>1, <2>3, DaysAreNumbers, SMT
  <2>6. proc'.pc = "sleep" /\ proc'.last = today /\ Clock' = now'
    BY <1>3 DEF Sleep, Clock
  <2>7. today <= DayOf(now)
    BY <1>1, DayIsMonotone
  <2> HIDE DEF today
  <2>8. swept' = [swept EXCEPT ![today] = @ + 1]
    BY <1>3 DEF today
  <2>9. OneSweepPerProcess'
    <3>1. \A d \in Days : swept[d] <= 1 + restarts
      BY DEF SweepInv, OneSweepPerProcess
    <3>2. \A d \in Days : swept'[d] <= 1 + restarts
      BY <1>1, <2>1, <2>4, <2>8, <3>1
    <3>3. QED BY <1>1, <3>2 DEF OneSweepPerProcess
  <2>10. \A d \in Days : d > today => swept'[d] <= restarts
    <3>1. \A d \in Days : d > today => d # today
      BY <2>1, DaysAreNumbers, SMT
    <3>2. QED BY <1>1, <2>5, <2>8, <3>1 DEF SweepInv, SweptBefore
  <2>11. SweptBefore'
    <3>1. Clock' \in Time /\ Clock' <= now'
      BY <1>1, <1>2, <2>6
    <3>2. DayOf(Clock)' = DayOf(now)
      BY <1>1, <2>6 DEF DayOf
    <3>3. QED BY <1>1, <2>1, <2>6, <2>7, <2>10, <3>1, <3>2 DEF SweptBefore
  <2>12. QED BY <2>9, <2>11 DEF SweepInv
<1>4. CASE /\ UNCHANGED swept
           /\ proc' = Sleep(proc.last, proc.since, proc.missed)
  <2>1. proc'.pc = "sleep" /\ proc'.last = proc.last /\ Clock' = now
    BY <1>1, <1>4 DEF Sleep, Clock
  <2>2. QED BY <1>1, <1>2, <1>4, <2>1, SameMemory
<1>5. QED BY <1>3, <1>4 DEF EndRound

LEMMA NextKeepsSweepInv ==
  ASSUME TypeOK, TypeOK', SweepInv, [Next]_vars
  PROVE  SweepInv'
<1>0. /\ now \in Time /\ now \in Nat /\ now' \in Time /\ now' \in Nat
      /\ restarts \in Nat /\ swept \in [Days -> Nat] /\ proc \in Process
  BY SchedulerAssumption DEF TypeOK, Time
<1>1. CASE Start
  <2>1. /\ proc.pc = "down" /\ proc'.pc = "sleep" /\ proc'.last = Never
        /\ Clock' = now' /\ UNCHANGED <<now, swept, restarts>>
    BY <1>1 DEF Start, Down, Sleep, Clock
  <2>2. QED
    BY <1>0, <2>1 DEF SweepInv, SweptBefore, OneSweepPerProcess
<1>2. CASE Wake
  <2>1. /\ proc.pc = "sleep" /\ proc'.pc = "tick" /\ proc'.last = proc.last
        /\ Clock = now /\ Clock' = now /\ UNCHANGED <<now, swept, restarts>>
    BY <1>2 DEF Wake, Clock
  <2>2. QED BY <1>0, <2>1, SameMemory
<1>3. CASE SkipTick
  <2>1. /\ proc.pc = "sleep" /\ proc'.pc = "sleep" /\ proc'.last = proc.last
        /\ Clock = now /\ Clock' = now /\ UNCHANGED <<now, swept, restarts>>
    BY <1>3 DEF SkipTick, Sleep, Clock
  <2>2. QED BY <1>0, <2>1, SameMemory
<1>4. CASE EndRound
  BY <1>4, EndRoundKeepsSweepInv
<1>5. CASE Stop
  <2>1. /\ proc'.pc = "down" /\ restarts' = restarts + 1 /\ swept' = swept
    BY <1>5 DEF Stop, Down
  <2>2. \A d \in Days : swept[d] <= 1 + restarts
    BY DEF SweepInv, OneSweepPerProcess
  <2>3. \A d \in Days : swept'[d] <= restarts' /\ swept'[d] <= 1 + restarts'
    BY <1>0, <2>1, <2>2
  <2>4. QED BY <2>1, <2>3 DEF SweepInv, SweptBefore, OneSweepPerProcess
<1>6. CASE Advance
  <2>1. now' = now + 1 /\ UNCHANGED <<swept, restarts>>
    BY <1>6 DEF Advance
  <2>2. proc' = proc \/ proc' = [proc EXCEPT !.missed = TRUE]
    BY <1>6 DEF Advance
  <2>3. CASE proc.pc = "down"
    <3>1. proc'.pc = "down"
      BY <1>6, <2>3 DEF Advance, Due
    <3>2. QED BY <2>1, <2>3, <3>1 DEF SweepInv, SweptBefore, OneSweepPerProcess
  <2>4. CASE proc.pc # "down"
    <3>1. /\ proc'.pc = proc.pc /\ proc'.last = proc.last
          /\ proc.pc = "tick" => proc'.at = proc.at /\ proc.at \in Time
      BY <1>0, <2>2, <2>4 DEF Process, Down
    <3>2. Clock \in Time /\ Clock <= now /\ Clock \in Nat
      BY <2>4, SchedulerAssumption DEF SweepInv, SweptBefore, Time
    <3>3. Clock' = Clock \/ Clock' = now'
      BY <3>1 DEF Clock
    <3>4. Clock' \in Time /\ Clock' <= now' /\ Clock <= Clock'
      BY <1>0, <2>1, <3>2, <3>3, SMT
    <3>5. QED BY <2>1, <2>4, <3>1, <3>4, SameMemory
  <2>5. QED BY <2>3, <2>4
<1>7. ASSUME NEW u \in Users, TickUser(u)
      PROVE  SweepInv'
  <2>1. /\ proc.pc = "tick" /\ UNCHANGED <<now, swept, restarts>>
        /\ proc' = [proc EXCEPT !.todo = @ \ {u}]
    BY <1>7 DEF TickUser
  <2>2. /\ proc'.pc = "tick" /\ proc'.last = proc.last /\ proc'.at = proc.at
        /\ proc.at \in Time
    BY <1>0, <2>1 DEF Process, Down
  <2>3. /\ Clock = proc.at /\ Clock' = proc.at /\ proc.at <= now
        /\ proc.at <= proc.at
    BY <2>1, <2>2, SchedulerAssumption DEF Clock, SweepInv, SweptBefore, Time
  <2>4. QED BY <2>1, <2>2, <2>3, SameMemory
<1>8. CASE UNCHANGED vars
  BY <1>8 DEF vars, SweepInv, SweptBefore, OneSweepPerProcess, Clock, DayOf
<1>9. QED
  BY <1>1, <1>2, <1>3, <1>4, <1>5, <1>6, <1>7, <1>8 DEF Next

\* One process sweeps at most once a day, so the sweeps of a day are at most one
\* more than the restarts (Run, lastSweepDate and shouldRunSweep).
THEOREM OneSweepHolds == Spec => []OneSweepPerProcess
<1>1. Init => SweepInv
  <2> SUFFICES ASSUME Init
               PROVE  SweepInv
    OBVIOUS
  <2>1. /\ proc.pc = "sleep" /\ proc.last = Never /\ restarts = 0 /\ Clock = 0
        /\ now = 0 /\ 0 \in Time /\ \A d \in Days : swept[d] = 0
    BY SchedulerAssumption DEF Init, Sleep, Clock, Time
  <2>2. QED BY <2>1 DEF SweepInv, SweptBefore, OneSweepPerProcess
<1>2. TypeOK /\ TypeOK' /\ SweepInv /\ [Next]_vars => SweepInv'
  BY NextKeepsSweepInv
<1>3. SweepInv => OneSweepPerProcess
  BY DEF SweepInv
<1>4. QED BY <1>1, <1>2, <1>3, TypeCorrect, PTL DEF Spec

-----------------------------------------------------------------------------
(***************************************************************************)
(* A process that lets no boundary go by sweeps on every day: the round    *)
(* of the last boundary of a day begins on that day and after the time of  *)
(* the sweep, if the intervals fill the day and the sweep is due an        *)
(* interval before it ends.                                                *)
(***************************************************************************)

\* What config.go leaves to the operator: an hour divides the day, and 00:15 is
\* before 23:00.
DayIsFilled == Day % Interval = 0 /\ SweepAt + Interval <= Day

LastOf(d) == Truncate((d + 1) * Day - 1)

\* Two boundaries are an interval apart.
LEMMA BoundariesApart ==
  ASSUME NEW a \in Nat, NEW b \in Nat, a % Interval = 0, b % Interval = 0,
         a < b
  PROVE  a + Interval <= b
<1>1. Interval \in Nat \ {0}
  BY SchedulerAssumption
<1> DEFINE p == a \div Interval
           q == b \div Interval
<1>2. p \in Nat /\ a = Interval * p + 0
  BY <1>1, DivMod
<1>3. q \in Nat /\ b = Interval * q + 0
  BY <1>1, DivMod
<1> HIDE DEF p, q
<1>4. p + 1 <= q
  <2> SUFFICES ASSUME q <= p
               PROVE  FALSE
    BY <1>2, <1>3, SMT
  <2>1. Interval * q <= Interval * p
    BY <1>1, <1>2, <1>3, Monotone
  <2>2. QED BY <1>1, <1>2, <1>3, <2>1, SMT
<1>5. Interval * (p + 1) <= Interval * q
  BY <1>1, <1>2, <1>3, <1>4, Monotone
<1>6. Interval * (p + 1) = Interval * p + Interval
  BY <1>1, <1>2, SMT
<1>7. QED BY <1>1, <1>2, <1>3, <1>5, <1>6, SMT

\* Within an interval of a boundary, Truncate gives that boundary.
LEMMA TruncateIsUnique ==
  ASSUME NEW t \in Nat, NEW b \in Nat, b % Interval = 0, b <= t,
         t < b + Interval
  PROVE  Truncate(t) = b
<1>1. Interval \in Nat \ {0}
  BY SchedulerAssumption
<1>2. /\ Truncate(t) \in Nat /\ Truncate(t) <= t
      /\ Truncate(t) % Interval = 0 /\ b <= Truncate(t)
  BY TruncateIsBoundary, TruncateIsLast
<1> DEFINE c == Truncate(t)
<1> HIDE DEF c
<1>3. c \in Nat /\ c <= t /\ c % Interval = 0 /\ b <= c
  BY <1>2 DEF c
<1>4. CASE b < c
  <2>1. b + Interval <= c
    BY <1>3, <1>4, BoundariesApart
  <2>2. QED BY <1>1, <1>3, <2>1, SMT
<1>5. CASE b = c
  BY <1>5 DEF c
<1>6. QED BY <1>3, <1>4, <1>5, SMT

\* Every day is a whole number of intervals, so a day begins at a boundary.
LEMMA DayBeginsAtBoundary ==
  ASSUME DayIsFilled, NEW n \in Nat
  PROVE  n * Day \in Nat /\ (n * Day) % Interval = 0
<1>1. Interval \in Nat \ {0} /\ Day \in Nat \ {0}
  BY SchedulerAssumption
<1> DEFINE k == Day \div Interval
<1>2. k \in Nat /\ Day = Interval * k + 0
  BY <1>1, DivMod DEF DayIsFilled
<1> HIDE DEF k
<1>3. n * Day = Interval * (k * n) /\ k * n \in Nat
  <2>1. k * n \in Nat
    BY <1>2, SMT
  <2>2. n * (Interval * k) = Interval * (k * n)
    BY <1>1, <1>2, SMT
  <2>3. Day = Interval * k
    BY <1>1, <1>2, SMT
  <2>4. QED BY <2>1, <2>2, <2>3
<1>4. QED BY <1>1, <1>3, MultMod, SMT

LEMMA LastOfDay ==
  ASSUME DayIsFilled, NEW d \in Nat
  PROVE  /\ LastOf(d) \in Nat
         /\ LastOf(d) % Interval = 0
         /\ LastOf(d) + Interval = (d + 1) * Day
<1>1. Interval \in Nat \ {0} /\ Day \in Nat \ {0}
  BY SchedulerAssumption
<1> DEFINE e == (d + 1) * Day
<1>2. e \in Nat /\ e % Interval = 0
  BY DayBeginsAtBoundary
<1>3. e >= 1
  BY <1>1, SMT
<1> HIDE DEF e
<1>4. e - 1 \in Nat
  BY <1>2, <1>3, SMT
<1> DEFINE b == Truncate(e - 1)
<1>5. /\ b \in Nat /\ b <= e - 1 /\ e - 1 < b + Interval
      /\ b % Interval = 0
  BY <1>4, TruncateIsBoundary
<1> HIDE DEF b
<1>6. b < e
  BY <1>2, <1>5, SMT
<1>7. b + Interval <= e
  BY <1>2, <1>5, <1>6, BoundariesApart
<1>8. b + Interval = e
  BY <1>1, <1>2, <1>5, <1>7, SMT
<1>9. QED BY <1>5, <1>8 DEF LastOf, b, e

\* From the last boundary of a day to its end the sweep of the day is due.
LEMMA DueAtTheEnd ==
  ASSUME DayIsFilled, NEW d \in Nat, NEW t \in Nat,
         LastOf(d) <= t, t < LastOf(d) + Interval
  PROVE  DayOf(t) = d /\ t % Day >= SweepAt
<1>1. /\ Interval \in Nat \ {0} /\ Day \in Nat \ {0} /\ SweepAt \in Nat
      /\ SweepAt + Interval <= Day
  BY SchedulerAssumption DEF DayIsFilled
<1>2. LastOf(d) \in Nat /\ LastOf(d) + Interval = (d + 1) * Day
  BY LastOfDay
<1>3. (d + 1) * Day = Day * d + Day
  BY <1>1, SMT
<1> DEFINE x == Day * d
           q == t \div Day
           r == t % Day
           l == LastOf(d)
<1>4. x \in Nat
  BY <1>1, SMT
<1>5. q \in Nat /\ r \in 0 .. Day - 1 /\ t = Day * q + r
  BY <1>1, DivMod
<1>6. l \in Nat /\ l + Interval = x + Day /\ l <= t /\ t < l + Interval
  BY <1>2, <1>3
<1>7. q <= d
  <2>1. t - x \in 0 .. Day - 1
    <3> HIDE DEF x, q, r, l
    <3>1. QED BY <1>1, <1>4, <1>6, SMT
  <2>2. Day * q <= t
    <3> HIDE DEF r
    <3>1. QED BY <1>1, <1>5, SMT
  <2> DEFINE s == t - x
  <2>3. s \in 0 .. Day - 1 /\ Day * q <= Day * d + s
    <3>1. t = x + (t - x)
      BY <1>4, SMT
    <3>2. QED BY <2>1, <2>2, <3>1
  <2> HIDE DEF x, q, r, l, s
  <2>4. QED BY <1>1, <1>5, <2>3, QuotientOrder
<1>8. d <= q
  <2>1. Day * d <= Day * q + r
    <3>1. x <= t
      <4> HIDE DEF x, q, r, l
      <4>1. QED BY <1>1, <1>4, <1>6, SMT
    <3>2. QED BY <1>5, <3>1
  <2> HIDE DEF x, q, r, l
  <2>2. QED BY <1>1, <1>5, <2>1, QuotientOrder
<1>9. q = d
  <2> HIDE DEF q
  <2>1. QED BY <1>5, <1>7, <1>8, SMT
<1>10. t = x + r
  BY <1>5, <1>9
<1>11. r >= SweepAt
  <2> HIDE DEF x, q, r, l
  <2>1. QED BY <1>1, <1>4, <1>5, <1>6, <1>10, SMT
<1>12. QED BY <1>9, <1>11 DEF DayOf

\* The boundary whose round comes next or goes on.
Round == IF proc.pc = "tick" THEN Truncate(proc.at) ELSE proc.target

\* A process that let no boundary go by is less than an interval behind.
Timely ==
  proc.pc # "down" /\ ~proc.missed =>
    /\ proc.since <= now
    /\ proc.pc = "tick" => proc.at <= now
    /\ now < Round + Interval

\* The day it remembers has been swept.
Remembers == proc.pc # "down" /\ proc.last # Never => swept[proc.last] >= 1

\* Whenever the round of the last boundary of a day is over, the day is swept.
DaysDone ==
  proc.pc # "down" /\ ~proc.missed =>
    \A d \in Days :
      proc.since < LastOf(d) /\ LastOf(d) < Round => swept[d] >= 1

DayInv == Timely /\ Remembers /\ DaysDone

\* Everything the steps need to know of a process that runs.
LEMMA Running ==
  ASSUME TypeOK, proc.pc # "down"
  PROVE  /\ now \in Nat /\ now \in Time
         /\ proc.since \in Nat /\ proc.since \in Time
         /\ proc.last \in Days \cup {Never} /\ proc.missed \in BOOLEAN
         /\ proc.pc \in {"sleep", "tick"}
         /\ proc.pc = "tick" => proc.at \in Nat /\ proc.at \in Time
         /\ Round \in Nat /\ Round % Interval = 0
<1>1. /\ now \in Time /\ proc.since \in Time
      /\ proc.last \in Days \cup {Never} /\ proc.missed \in BOOLEAN
      /\ proc.pc \in {"sleep", "tick"}
      /\ proc.pc = "tick" => proc.at \in Time
      /\ proc.pc = "sleep" => proc.target \in Later /\ proc.target % Interval = 0
  BY DEF TypeOK, Process, Down
<1>2. Time \subseteq Nat /\ Later \subseteq Nat
  BY SchedulerAssumption DEF Time, Later
<1>3. CASE proc.pc = "tick"
  BY <1>1, <1>2, <1>3, TruncateIsBoundary DEF Round
<1>4. CASE proc.pc = "sleep"
  BY <1>1, <1>2, <1>4 DEF Round
<1>5. QED BY <1>1, <1>2, <1>3, <1>4

\* Steps of a process that change neither its round nor what it has swept.
LEMMA SameRound ==
  ASSUME TypeOK, TypeOK', DayInv, UNCHANGED <<now, swept>>,
         proc.pc # "down", proc'.pc # "down", proc'.last = proc.last,
         proc'.since = proc.since, ~proc'.missed => ~proc.missed,
         Round' = Round, proc'.pc = "tick" /\ ~proc'.missed => proc'.at <= now
  PROVE  DayInv'
<1>1. Timely'
  BY DEF DayInv, Timely
<1>2. Remembers'
  BY DEF DayInv, Remembers
<1>3. \A d : LastOf(d)' = LastOf(d)
  BY DEF LastOf, Truncate
<1>4. DaysDone'
  BY <1>3 DEF DayInv, DaysDone
<1>5. QED BY <1>1, <1>2, <1>4 DEF DayInv

LEMMA StartKeepsDayInv ==
  ASSUME DayIsFilled, TypeOK, TypeOK', Start
  PROVE  DayInv'
<1>1. /\ now \in Time /\ now \in Nat
  BY SchedulerAssumption DEF TypeOK, Time
<1>2. /\ proc'.pc = "sleep" /\ proc'.since = now /\ proc'.last = Never
      /\ proc'.target = NextBoundary(now) /\ now' = now
  BY DEF Start, Sleep
<1>3. Round' = NextBoundary(now)
  BY <1>2 DEF Round
<1>4. NextBoundary(now) \in Nat /\ now < NextBoundary(now)
  BY <1>1, NextBoundaryIsLater, SchedulerAssumption DEF Later
<1>5. now <= now /\ now < NextBoundary(now) + Interval
  BY <1>1, <1>4, SchedulerAssumption
<1>6. Timely'
  BY <1>2, <1>3, <1>5 DEF Timely
<1>7. Remembers'
  BY <1>2 DEF Remembers
<1>8. ASSUME NEW d \in Days, now < LastOf(d), LastOf(d) < NextBoundary(now)
      PROVE  FALSE
  <2>1. LastOf(d) \in Nat /\ LastOf(d) % Interval = 0
    BY LastOfDay, DaysAreNumbers
  <2>2. Truncate(now) \in Nat /\ Truncate(now) <= now /\ Truncate(now) % Interval = 0
    BY <1>1, TruncateIsBoundary
  <2>3. Truncate(now) < LastOf(d)
    BY <1>1, <1>8, <2>1, <2>2
  <2>4. Truncate(now) + Interval <= LastOf(d)
    BY <2>1, <2>2, <2>3, BoundariesApart
  <2>5. QED BY <1>8, <2>1, <2>2, <2>4, SchedulerAssumption DEF NextBoundary
<1>9. DaysDone'
  <2>1. \A d : LastOf(d)' = LastOf(d)
    BY DEF LastOf, Truncate
  <2>2. QED BY <1>2, <1>3, <1>8, <2>1 DEF DaysDone
<1>10. QED BY <1>6, <1>7, <1>9 DEF DayInv

LEMMA WakeKeepsDayInv ==
  ASSUME TypeOK, TypeOK', DayInv, Wake
  PROVE  DayInv'
<1>1. /\ proc.pc = "sleep" /\ now >= proc.target /\ UNCHANGED <<now, swept>>
      /\ proc'.pc = "tick" /\ proc'.at = now /\ proc'.last = proc.last
      /\ proc'.since = proc.since /\ proc'.missed = proc.missed
  BY DEF Wake
<1>2. /\ now \in Nat /\ proc.target \in Nat /\ proc.target % Interval = 0
      /\ Round = proc.target
  BY <1>1, Running DEF Round
<1>3. now <= now
  BY <1>2
<1>4. CASE ~proc.missed
  <2>1. now < proc.target + Interval
    BY <1>1, <1>2, <1>4 DEF DayInv, Timely
  <2>2. Truncate(now) = proc.target
    BY <1>1, <1>2, <2>1, TruncateIsUnique
  <2>3. Round' = Round
    BY <1>1, <1>2, <2>2 DEF Round, Truncate
  <2>4. QED BY <1>1, <1>3, <2>3, SameRound
<1>5. CASE proc.missed
  BY <1>1, <1>5 DEF DayInv, Timely, Remembers, DaysDone
<1>6. QED BY <1>4, <1>5

\* A round ends: the next one is an interval later, and if this was the last of
\* a day then that day is swept now or was before.
LEMMA EndRoundKeepsDayInv ==
  ASSUME DayIsFilled, TypeOK, TypeOK', DayInv, EndRound
  PROVE  DayInv'
<1> DEFINE today == DayOf(proc.at)
<1>1. /\ proc.pc = "tick" /\ proc.pc # "down" /\ now' = now
      /\ now \in Nat /\ now \in Time /\ proc.at \in Nat /\ proc.at \in Time
      /\ proc.since \in Nat /\ proc.last \in Days \cup {Never}
      /\ Round = Truncate(proc.at) /\ Round \in Nat /\ Round % Interval = 0
      /\ swept \in [Days -> Nat] /\ swept' \in [Days -> Nat]
  BY Running DEF EndRound, Round, TypeOK
<1>2. today \in Days /\ today # Never
  BY <1>1, DayOfTime
<1>3. /\ proc'.pc = "sleep" /\ proc'.target = NextBoundary(now)
      /\ proc'.since = proc.since /\ proc'.missed = proc.missed
      /\ \/ /\ proc.last # today /\ proc.at % Day >= SweepAt
            /\ swept' = [swept EXCEPT ![today] = @ + 1]
            /\ proc'.last = today
         \/ /\ ~(proc.last # today /\ proc.at % Day >= SweepAt)
            /\ swept' = swept /\ proc'.last = proc.last
  BY DEF EndRound, ShouldSweep, Sleep
<1> HIDE DEF today
<1>4. \A d \in Days : swept'[d] >= swept[d]
  BY <1>1, <1>2, <1>3
<1>5. Remembers'
  <2>1. CASE proc'.last = today
    <3>1. CASE swept' = [swept EXCEPT ![today] = @ + 1]
      BY <1>1, <1>2, <2>1, <3>1 DEF Remembers
    <3>2. CASE swept' = swept /\ proc'.last = proc.last
      BY <1>1, <3>2 DEF DayInv, Remembers
    <3>3. QED BY <1>3, <3>1, <3>2
  <2>2. CASE proc'.last = proc.last /\ swept' = swept
    BY <1>1, <2>2 DEF DayInv, Remembers
  <2>3. QED BY <1>3, <2>1, <2>2
<1>6. Round' = NextBoundary(now)
  BY <1>3 DEF Round
<1>7. CASE proc.missed
  BY <1>3, <1>5, <1>7 DEF DayInv, Timely, DaysDone
<1>8. CASE ~proc.missed
  <2>1. /\ proc.since <= now /\ proc.at <= now /\ now < Round + Interval
    BY <1>1, <1>8 DEF DayInv, Timely
  <2>2. Round <= proc.at
    BY <1>1, TruncateIsBoundary
  <2>3. Round <= now
    BY <1>1, <2>1, <2>2
  <2>4. Truncate(now) = Round
    BY <1>1, <2>1, <2>3, TruncateIsUnique
  <2>5. Round' = Round + Interval
    BY <1>6, <2>4 DEF NextBoundary
  <2>6. now < Round + Interval /\ now < Round' + Interval
    BY <1>1, <2>1, <2>5, SchedulerAssumption
  <2>7. Timely'
    BY <1>1, <1>3, <2>1, <2>6 DEF Timely
  <2>8. ASSUME NEW d \in Days, proc.since < LastOf(d), LastOf(d) < Round'
        PROVE  swept'[d] >= 1
    <3>1. LastOf(d) \in Nat /\ LastOf(d) % Interval = 0 /\ d \in Nat
      BY LastOfDay, DaysAreNumbers
    <3>2. swept[d] \in Nat /\ swept'[d] \in Nat /\ swept'[d] >= swept[d]
      BY <1>1, <1>4
    <3>3. CASE LastOf(d) < Round
      <4>1. swept[d] >= 1
        BY <1>1, <1>8, <2>8, <3>3 DEF DayInv, DaysDone
      <4>2. QED BY <3>2, <4>1
    <3>4. CASE Round < LastOf(d)
      <4>1. Round + Interval <= LastOf(d)
        BY <1>1, <3>1, <3>4, BoundariesApart
      <4>2. QED BY <1>1, <2>5, <2>8, <3>1, <4>1, SchedulerAssumption
    <3>5. CASE LastOf(d) = Round
      <4>1. proc.at < LastOf(d) + Interval
        BY <1>1, <2>1, <3>5, SchedulerAssumption
      <4>2. DayOf(proc.at) = d /\ proc.at % Day >= SweepAt
        BY <1>1, <2>2, <3>1, <3>5, <4>1, DueAtTheEnd
      <4>3. today = d
        BY <4>2 DEF today
      <4>4. CASE proc.last = today
        <5>1. swept[d] >= 1
          BY <1>1, <1>2, <4>3, <4>4 DEF DayInv, Remembers
        <5>2. QED BY <3>2, <5>1
      <4>5. CASE proc.last # today
        <5>1. swept' = [swept EXCEPT ![d] = @ + 1]
          BY <1>3, <4>2, <4>3, <4>5
        <5>2. QED BY <1>1, <3>2, <5>1
      <4>6. QED BY <4>4, <4>5
    <3>6. QED BY <1>1, <3>1, <3>3, <3>4, <3>5
  <2>9. \A d : LastOf(d)' = LastOf(d)
    BY DEF LastOf, Truncate
  <2>10. DaysDone'
    BY <1>3, <2>8, <2>9 DEF DaysDone
  <2>11. QED BY <1>5, <2>7, <2>10 DEF DayInv
<1>9. QED BY <1>1, <1>7, <1>8, Running

\* Time passes: over the boundary of the next round only for a process that
\* has let it go by.
LEMMA AdvanceKeepsDayInv ==
  ASSUME TypeOK, TypeOK', DayInv, Advance
  PROVE  DayInv'
<1>1. CASE proc.pc = "down"
  <2>1. proc' = proc
    BY <1>1 DEF Advance, Due
  <2>2. QED BY <1>1, <2>1 DEF DayInv, Timely, Remembers, DaysDone
<1>2. CASE proc.pc # "down"
  <2>1. /\ now \in Nat /\ now' = now + 1 /\ swept' = swept /\ proc \in Process
        /\ proc.since \in Nat /\ proc.pc \in {"sleep", "tick"}
        /\ proc.pc = "tick" => proc.at \in Nat
        /\ Round \in Nat /\ Round % Interval = 0
    BY <1>2, Running DEF Advance, TypeOK
  <2>2. proc' = proc \/ proc' = [proc EXCEPT !.missed = TRUE]
    BY DEF Advance
  <2>3. /\ proc'.pc = proc.pc /\ proc'.last = proc.last
        /\ proc'.since = proc.since
        /\ proc.pc = "tick" => proc'.at = proc.at
        /\ proc.pc = "sleep" => proc'.target = proc.target
    BY <1>2, <2>1, <2>2 DEF Process, Down
  <2>4. Round' = Round
    BY <2>1, <2>3 DEF Round, Truncate
  <2>5. Remembers'
    BY <1>2, <2>1, <2>3 DEF DayInv, Remembers
  <2>6. CASE proc' # proc
    <3>1. proc'.missed
      BY <1>2, <2>1, <2>2, <2>6 DEF Process, Down
    <3>2. QED BY <2>5, <3>1 DEF DayInv, Timely, DaysDone
  <2>7. CASE proc' = proc /\ proc.missed
    BY <2>5, <2>7 DEF DayInv, Timely, DaysDone
  <2>8. CASE proc' = proc /\ ~proc.missed
    <3>1. /\ proc.since <= now /\ now < Round + Interval
          /\ proc.pc = "tick" => proc.at <= now
      BY <1>2, <2>8 DEF DayInv, Timely
    <3>2. now + 1 < Round + Interval
      <4>1. CASE Due
        <5>1. (now + 1) % Interval # 0
          <6> SUFFICES ASSUME (now + 1) % Interval = 0
                       PROVE  FALSE
            OBVIOUS
          <6>1. proc' = [proc EXCEPT !.missed = TRUE]
            BY <4>1 DEF Advance
          <6>2. proc'.missed
            BY <1>2, <2>1, <6>1 DEF Process, Down
          <6>3. QED BY <2>8, <6>2
        <5>2. (Round + Interval) % Interval = 0
          BY <2>1, NextIsBoundary
        <5>3. now + 1 # Round + Interval
          BY <5>1, <5>2
        <5>4. QED BY <2>1, <3>1, <5>3, SchedulerAssumption
      <4>2. CASE ~Due
        <5>1. proc.pc = "sleep" /\ ~(now >= proc.target) /\ Round = proc.target
          BY <2>1, <4>2 DEF Due, Round
        <5>2. QED BY <2>1, <5>1, SchedulerAssumption
      <4>3. QED BY <4>1, <4>2
    <3>3. proc.since <= now + 1 /\ (proc.pc = "tick" => proc.at <= now + 1)
      BY <2>1, <3>1
    <3>4. Timely'
      BY <2>1, <2>3, <2>4, <3>2, <3>3 DEF Timely
    <3>5. \A d : LastOf(d)' = LastOf(d)
      BY DEF LastOf, Truncate
    <3>6. DaysDone'
      BY <1>2, <2>1, <2>4, <2>8, <3>5 DEF DayInv, DaysDone
    <3>7. QED BY <2>5, <3>4, <3>6 DEF DayInv
  <2>9. QED BY <2>6, <2>7, <2>8
<1>3. QED BY <1>1, <1>2

LEMMA NextKeepsDayInv ==
  ASSUME DayIsFilled, TypeOK, TypeOK', DayInv, [Next]_vars
  PROVE  DayInv'
<1>1. CASE Start
  BY <1>1, StartKeepsDayInv
<1>2. CASE Wake
  BY <1>2, WakeKeepsDayInv
<1>3. CASE SkipTick
  <2>1. /\ proc.pc # "down" /\ swept' = swept
        /\ proc'.pc = "sleep" /\ proc'.missed /\ proc'.last = proc.last
    BY <1>3 DEF SkipTick, Sleep
  <2>2. QED BY <2>1 DEF DayInv, Timely, Remembers, DaysDone
<1>4. CASE EndRound
  BY <1>4, EndRoundKeepsDayInv
<1>5. CASE Stop
  <2>1. proc'.pc = "down"
    BY <1>5 DEF Stop, Down
  <2>2. QED BY <2>1 DEF DayInv, Timely, Remembers, DaysDone
<1>6. CASE Advance
  BY <1>6, AdvanceKeepsDayInv
<1>7. ASSUME NEW u \in Users, TickUser(u)
      PROVE  DayInv'
  <2>1. /\ proc.pc = "tick" /\ UNCHANGED <<now, swept>>
        /\ proc' = [proc EXCEPT !.todo = @ \ {u}]
    BY <1>7 DEF TickUser
  <2>2. proc \in Process
    BY DEF TypeOK
  <2>3. /\ proc'.pc = "tick" /\ proc'.last = proc.last /\ proc'.at = proc.at
        /\ proc'.since = proc.since /\ proc'.missed = proc.missed
    BY <2>1, <2>2 DEF Process, Down
  <2>4. Round' = Round
    BY <2>1, <2>3 DEF Round, Truncate
  <2>5. ~proc.missed => proc.at <= now
    BY <2>1 DEF DayInv, Timely
  <2>6. QED BY <2>1, <2>3, <2>4, <2>5, SameRound
<1>8. CASE UNCHANGED vars
  BY <1>8 DEF vars, DayInv, Timely, Remembers, DaysDone, Round, LastOf, Truncate
<1>9. QED
  BY <1>1, <1>2, <1>3, <1>4, <1>5, <1>6, <1>7, <1>8 DEF Next

\* A process that lets no boundary go by, because of a slow round or for want of
\* a rate, sweeps on every day whose last boundary it was there to wait for:
\* lastSweepDate, shouldRunSweep and nextTickBoundary leave no day out, as long
\* as the sweep is due an interval before the day ends.
THEOREM NoDaySkippedHolds ==
  ASSUME DayIsFilled
  PROVE  Spec => []NoDaySkipped
<1>1. Init => DayInv
  <2> SUFFICES ASSUME Init
               PROVE  DayInv
    OBVIOUS
  <2>1. now = 0 /\ 0 \in Time
    BY SchedulerAssumption DEF Init, Time
  <2>2. /\ proc.pc = "sleep" /\ proc.since = 0 /\ proc.last = Never
        /\ proc.target = Truncate(0) + Interval
    BY <2>1 DEF Init, Sleep, NextBoundary
  <2>3. Truncate(0) = 0
    <3>1. 0 % Interval = 0
      BY SchedulerAssumption
    <3>2. QED BY <3>1, SchedulerAssumption, TruncateIsUnique
  <2>4. Round = Interval
    BY <2>2, <2>3, SchedulerAssumption DEF Round
  <2>5. Timely
    BY <2>1, <2>2, <2>4, SchedulerAssumption DEF Timely
  <2>6. ASSUME NEW d \in Days, 0 < LastOf(d), LastOf(d) < Interval
        PROVE  FALSE
    <3>1. LastOf(d) \in Nat /\ LastOf(d) % Interval = 0
      BY LastOfDay, DaysAreNumbers
    <3>2. 0 + Interval <= LastOf(d)
      BY <2>6, <3>1, BoundariesApart, SchedulerAssumption
    <3>3. QED BY <2>6, <3>1, <3>2, SchedulerAssumption
  <2>7. QED BY <2>2, <2>4, <2>5, <2>6 DEF DayInv, Remembers, DaysDone
<1>2. TypeOK /\ TypeOK' /\ DayInv /\ [Next]_vars => DayInv'
  BY NextKeepsDayInv
<1>3. TypeOK /\ DayInv => NoDaySkipped
  <2> SUFFICES ASSUME TypeOK, DayInv, proc.pc # "down", ~proc.missed,
                      NEW d \in Days, (d + 1) * Day <= now,
                      proc.since < LastOf(d)
               PROVE  swept[d] >= 1
    BY DEF NoDaySkipped, LastOf, Down, TypeOK, Process
  <2>1. /\ LastOf(d) \in Nat /\ LastOf(d) + Interval <= now
    BY LastOfDay, DaysAreNumbers
  <2>2. now \in Nat /\ Round \in Nat
    BY Running
  <2>3. now < Round + Interval
    BY DEF DayInv, Timely
  <2>4. LastOf(d) < Round
    BY <2>1, <2>2, <2>3, SchedulerAssumption
  <2>5. QED BY <2>4 DEF DayInv, DaysDone
<1>4. QED BY <1>1, <1>2, <1>3, TypeCorrect, PTL DEF Spec
=============================================================================
