------------------------------- MODULE Limits -------------------------------
(***************************************************************************)
(* The three limiters that slow a visitor down, seen from one entity id:   *)
(* the flood guard (handlers/flood_guard.go), the guard against the        *)
(* enumeration of shares (handlers/share_enumeration.go) and the rows of   *)
(* failed attempts for a share or an authentication endpoint               *)
(* (handlers/rate_limiting.go).  They share no state; a behaviour is about *)
(* one of them.                                                            *)
(***************************************************************************)
EXTENDS Integers

CONSTANTS
  TopTier,
  Penalty,        \* the penalty of a tier; tier 0 has none
  FloodHits,      \* hits of a window that reach a tier (floodTierNThreshold)
  FloodWindow, TierDecayPeriod, TierFullResetPeriod,
  EnumHits,       \* unique ids that reach a tier (enumThreshold...)
  EnumWindow,
  AttemptHits,    \* failures that reach a tier (calculateSharePenalty)
  Retention,      \* shareAccessAttemptRetention
  MaxHits,        \* bound: what a counter reaches
  MaxMinute         \* bound: the clock

Tiers == 0 .. TopTier

IsThresholds(h) ==
  /\ h \in [Tiers -> Nat]
  /\ h[0] = 0
  /\ \A t, u \in Tiers : t <= u => h[t] <= h[u]

ASSUME LimitsAssumption ==
  /\ TopTier \in Nat
  /\ Penalty \in [Tiers -> Nat]
  /\ Penalty[0] = 0
  /\ \A t, u \in Tiers : t <= u => Penalty[t] <= Penalty[u]
  /\ IsThresholds(FloodHits) /\ IsThresholds(EnumHits)
  /\ IsThresholds(AttemptHits)
  /\ FloodWindow \in Nat /\ EnumWindow \in Nat
  /\ TierDecayPeriod \in Nat \ {0} /\ TierFullResetPeriod \in Nat
  /\ Retention \in Nat
  /\ MaxHits \in Nat /\ MaxMinute \in Nat \ {0}

\* No penalty outlasts the silence that lowers a tier, nor the retention: an
\* hour and half an hour against an hour, six hours and thirty days.
ASSUME PenaltiesEnd ==
  \A t \in Tiers : /\ Penalty[t] <= TierDecayPeriod
                   /\ Penalty[t] <= TierFullResetPeriod
                   /\ Penalty[t] <= Retention

VARIABLES
  minute,
  guard,     \* the limiter this behaviour is about
  flood,     \* floodTracker; there is one when last > 0
  enum,      \* enumerationTracker; there is one when last > 0
  attempts   \* row of share_access_attempts

limitsVars == <<minute, guard, flood, enum, attempts>>

Minutes == 1 .. MaxMinute
Later == 0 .. MaxMinute + Penalty[TopTier]

NoFlood == [hits |-> 0, peak |-> 0, first |-> 0, last |-> 0, until |-> 0]
NoEnum == [unique |-> 0, last |-> 0, until |-> 0]
NoAttempts == [failed |-> 0, updated |-> 0, until |-> 0]

LimitsTypeOK ==
  /\ minute \in Minutes
  /\ guard \in {"flood", "enum", "attempts"}
  /\ flood \in [hits: 0 .. MaxHits, peak: Tiers, first: 0 .. MaxMinute,
                last: 0 .. MaxMinute, until: Later]
  /\ enum \in [unique: 0 .. MaxHits, last: 0 .. MaxMinute, until: Later]
  /\ attempts \in [failed: 0 .. MaxHits, updated: 0 .. MaxMinute, until: Later]

LimitsInit ==
  /\ minute = 1
  /\ guard \in {"flood", "enum", "attempts"}
  /\ flood = NoFlood
  /\ enum = NoEnum
  /\ attempts = NoAttempts

\* The highest tier whose threshold the count has reached (tierForHits, the
\* switch of RecordShareNotFound, calculateSharePenalty).
TierFor(thresholds, count) ==
  CHOOSE t \in Tiers :
    /\ thresholds[t] <= count
    /\ \A u \in Tiers : thresholds[u] <= count => u <= t

Bump(count) == IF count < MaxHits THEN count + 1 ELSE count

\* until as the code asks for it: unset, or passed.
Over(until) == until = 0 \/ minute > until

-----------------------------------------------------------------------------
(* The flood guard.                                                        *)

\* decayTier
Decayed(t) ==
  IF minute - t.last >= TierFullResetPeriod THEN 0
  ELSE LET lost == (minute - t.last) \div TierDecayPeriod IN
       IF t.peak > lost THEN t.peak - lost ELSE 0

\* The tracker as the hit finds it: a window that has passed starts anew.
FloodWindowed ==
  IF flood.last = 0 THEN [NoFlood EXCEPT !.first = minute]
  ELSE IF minute - flood.first > FloodWindow
       THEN [flood EXCEPT !.hits = 0, !.first = minute, !.peak = Decayed(flood)]
       ELSE flood

\* RecordUnauthorizedHit, for a 401 or 404 of the router and for every request
\* while blocked.  The larger tier of the window's and the remembered one is
\* both the penalty's and the new remembered one.
FloodHit ==
  /\ guard = "flood"
  /\ LET t == FloodWindowed
         hits == Bump(t.hits)
         current == TierFor(FloodHits, hits)
         effective == IF t.peak > current THEN t.peak ELSE current
     IN flood' = [t EXCEPT !.hits = hits, !.last = minute, !.peak = effective,
                           !.until = IF effective > 0 THEN minute + Penalty[effective]
                                     ELSE @]
  /\ UNCHANGED <<minute, guard, enum, attempts>>

\* cleanup
FloodCleanup ==
  /\ guard = "flood"
  /\ Over(flood.until)
  /\ minute - flood.last >= TierFullResetPeriod
  /\ flood' = NoFlood
  /\ UNCHANGED <<minute, guard, enum, attempts>>

-----------------------------------------------------------------------------
(* The enumeration guard.                                                  *)

\* Mutant: the block is not asked for.
EnumForgotten == minute - enum.last > EnumWindow

EnumStale == minute - enum.last > EnumWindow /\ Over(enum.until)

\* RecordShareNotFound, for a share id that does not exist and for every
\* request while blocked; the id may have been counted in this window before.
EnumHit ==
  /\ guard = "enum"
  /\ LET t == IF EnumStale THEN NoEnum ELSE enum IN
     \E unique \in {t.unique, Bump(t.unique)} \ {0} :
       LET tier == TierFor(EnumHits, unique) IN
       enum' = [unique |-> unique, last |-> minute,
                until |-> IF tier > 0 THEN minute + Penalty[tier] ELSE t.until]
  /\ UNCHANGED <<minute, guard, flood, attempts>>

\* cleanup
EnumCleanup ==
  /\ guard = "enum"
  /\ EnumStale
  /\ enum' = NoEnum
  /\ UNCHANGED <<minute, guard, flood, attempts>>

-----------------------------------------------------------------------------
(* The rows of failed attempts.                                            *)

\* recordFailedAttempt, recordAuthFailedAttempt: a wrong token or code, and a
\* request that comes while limited.  Nothing ever lowers the count; a trigger
\* keeps updated_at.
FailedAttempt ==
  /\ guard = "attempts"
  /\ LET failed == Bump(attempts.failed) IN
     attempts' = [failed |-> failed, updated |-> minute,
                  until |-> minute + Penalty[TierFor(AttemptHits, failed)]]
  /\ UNCHANGED <<minute, guard, flood, enum>>

\* pruneShareAccessAttempts
Prune ==
  /\ guard = "attempts"
  /\ attempts.updated < minute - Retention
  /\ attempts' = NoAttempts
  /\ UNCHANGED <<minute, guard, flood, enum>>

-----------------------------------------------------------------------------

TickLimits ==
  /\ minute < MaxMinute
  /\ minute' = minute + 1
  /\ UNCHANGED <<guard, flood, enum, attempts>>

\* The two guards live in memory only.
RestartGuards ==
  /\ guard # "attempts"
  /\ flood' = NoFlood
  /\ enum' = NoEnum
  /\ UNCHANGED <<minute, guard, attempts>>

LimitsNext ==
  \/ FloodHit \/ FloodCleanup
  \/ EnumHit \/ EnumCleanup
  \/ FailedAttempt \/ Prune
  \/ TickLimits \/ RestartGuards

LimitsSpec == LimitsInit /\ [][LimitsNext]_limitsVars

-----------------------------------------------------------------------------
(* Properties.                                                             *)

(* A visitor who is blocked is never let go earlier by asking again, by    *)
(* the end of a counting window, by the decay of a remembered tier or by   *)
(* the cleaning of old entries; a restart alone forgets the two guards in  *)
(* memory (handlers/flood_guard.go:162, share_enumeration.go:82,           *)
(* rate_limiting.go:134).                                                  *)
BlockNeverShortened ==
  [][~RestartGuards =>
       /\ Over(flood.until) \/ flood'.until >= flood.until
       /\ Over(enum.until) \/ enum'.until >= enum.until
       /\ Over(attempts.until) \/ attempts'.until >= attempts.until]_limitsVars
=============================================================================
