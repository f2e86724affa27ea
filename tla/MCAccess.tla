------------------------------ MODULE MCAccess ------------------------------
(***************************************************************************)
(* Small instances of the machines through which a user gets in and stays  *)
(* in, of the accounts themselves, and of the credits ledger.  They share  *)
(* no state: a behaviour explores the one that part names and leaves the   *)
(* others as they begin.                                                   *)
(***************************************************************************)
EXTENDS Sessions, Codes, Lockout, Enrollment, Limits, Accounts, MCLedger

VARIABLE part

AccessVars ==
  <<part, sessionsVars, codesVars, lockoutVars, enrollmentVars, limitsVars,
    accountsVars, vars>>

AccessInit ==
  /\ part \in {"sessions", "codes", "lockout", "enrollment", "limits",
              "accounts", "ledger"}
  /\ SessionsInit /\ CodesInit /\ LockoutInit /\ EnrollmentInit
  /\ LimitsInit /\ (guard = "flood" \/ part = "limits")
  /\ AccountsInit /\ Init

AccessNext ==
  \/ /\ part = "sessions" /\ SessionsNext
     /\ UNCHANGED <<part, codesVars, lockoutVars, enrollmentVars, limitsVars,
                    accountsVars, vars>>
  \/ /\ part = "codes" /\ CodesNext
     /\ UNCHANGED <<part, sessionsVars, lockoutVars, enrollmentVars,
                    limitsVars, accountsVars, vars>>
  \/ /\ part = "lockout" /\ LockoutNext
     /\ UNCHANGED <<part, sessionsVars, codesVars, enrollmentVars, limitsVars,
                    accountsVars, vars>>
  \/ /\ part = "enrollment" /\ EnrollmentNext
     /\ UNCHANGED <<part, sessionsVars, codesVars, lockoutVars, limitsVars,
                    accountsVars, vars>>
  \/ /\ part = "limits" /\ LimitsNext
     /\ UNCHANGED <<part, sessionsVars, codesVars, lockoutVars,
                    enrollmentVars, accountsVars, vars>>
  \/ /\ part = "accounts" /\ AccountsNext
     /\ UNCHANGED <<part, sessionsVars, codesVars, lockoutVars,
                    enrollmentVars, limitsVars, vars>>
  \/ /\ part = "ledger" /\ Next
     /\ UNCHANGED <<part, sessionsVars, codesVars, lockoutVars,
                    enrollmentVars, limitsVars, accountsVars>>

AccessSpec == AccessInit /\ [][AccessNext]_AccessVars

\* Penalties of one minute and four, for tiers 1 and 2.
AccessPenalty == 0 :> 0 @@ 1 :> 1 @@ 2 :> 4
AccessHits    == 0 :> 0 @@ 1 :> 2 @@ 2 :> 4

\* Sound: the requests and commands of each machine are interchangeable, and so
\* are the names that people register under and the ceremonies.
Symmetry == {p @@ q @@ r : p \in Permutations(Handlers), q \in Permutations(Names),
                           r \in Permutations(Ceremonies)}

\* The values of all variables of the machine that is explored.
AccessTypeOK ==
  /\ part = "sessions"   => SessionsTypeOK
  /\ part = "codes"      => CodesTypeOK
  /\ part = "lockout"    => LockoutTypeOK
  /\ part = "enrollment" => EnrollmentTypeOK
  /\ part = "limits"     => LimitsTypeOK
  /\ part = "accounts"   => AccountsTypeOK
  /\ part = "ledger"     => TypeOK

(* The counter of failed codes and the lock, and the factors and codes of  *)
(* an enrolment (LockHolds, FactorsHold).                                  *)
MFAHolds == LockHolds /\ FactorsHold
=============================================================================
