----------------------------- MODULE Enrollment -----------------------------
(***************************************************************************)
(* The second factors of one user, a TOTP secret and a security key, and   *)
(* whether the user has backup codes: enrolling, resuming, verifying,      *)
(* resetting and removing a factor (auth/mfa_setup.go, mfa_enrollment.go,  *)
(* mfa_webauthn.go, mfa_webauthn_store.go, mfa_webauthn_session.go,        *)
(* mfa_admin_reset.go and the handlers that call them).  A transaction is  *)
(* one step, and so is a read that a later statement relies on.            *)
(***************************************************************************)
EXTENDS Integers

CONSTANTS
  Enrollers,   \* requests served at one time
  MaxRows      \* bound: rows of user_mfa_credentials ever made

ASSUME EnrollmentAssumption == MaxRows \in Nat \ {0}

VARIABLES
  cred,        \* user_mfa_credentials: at most one row for a method
  hasCodes,    \* whether user_mfa_backup_codes has rows
  challenge,    \* whether webAuthnSessions holds a registration
  enrolling,   \* the requests
  rows,        \* rows made so far; a row is named by its number
  verified,    \* history: rows for which a code or a key was found right
  overlapped,  \* history: rows made while a TOTP verification was under way
  stripped     \* history: codes were deleted with an enrolment under way

enrollmentVars ==
  <<cred, hasCodes, challenge, enrolling, rows, verified, overlapped, stripped>>

Methods == {"totp", "webauthn"}
Ids == 1 .. MaxRows

NoCred == [id |-> 0, done |-> FALSE]
NoEnrol == [pc |-> "idle"]

EnrollmentTypeOK ==
  /\ cred \in [Methods -> [id: 0 .. MaxRows, done: BOOLEAN]]
  /\ hasCodes \in BOOLEAN
  /\ challenge \in BOOLEAN
  /\ enrolling \in [Enrollers ->
       {NoEnrol} \cup [pc: {"store"}, method: Methods, issue: BOOLEAN]
                 \cup [pc: {"reissue", "session", "enable"}]
                 \cup [pc: {"save"}, id: Ids]
                 \cup [pc: {"remove"}, method: Methods, id: Ids]]
  /\ rows \in 0 .. MaxRows
  /\ verified \subseteq Ids
  /\ overlapped \subseteq Ids
  /\ stripped \in BOOLEAN

EnrollmentInit ==
  /\ cred = [m \in Methods |-> NoCred]
  /\ hasCodes = FALSE
  /\ challenge = FALSE
  /\ enrolling = [e \in Enrollers |-> NoEnrol]
  /\ rows = 0
  /\ verified = {}
  /\ overlapped = {}
  /\ stripped = FALSE

Proceeds(e, step) == enrolling' = [enrolling EXCEPT ![e] = step]

HasRow(m) == cred[m].id # 0
PendingRow(m) == HasRow(m) /\ ~cred[m].done

\* HasCompletedMFA; ShouldIssueBackupCodes is its negation.
HasCompleted(c) == \E m \in Methods : c[m].done

\* GetPendingMFAMethodType looks at the newest pending row alone.
NewestPending(m) ==
  PendingRow(m) /\ \A n \in Methods : PendingRow(n) => cred[n].id <= cred[m].id

\* A row INSERTed for m, by request or not; codes says whether the same
\* transaction stores backup codes.
Insert(m, codes) ==
  /\ rows < MaxRows
  /\ rows' = rows + 1
  /\ cred' = [cred EXCEPT ![m] = [id |-> rows + 1, done |-> FALSE]]
  /\ overlapped' = IF \E e \in Enrollers : enrolling[e].pc = "enable"
                   THEN overlapped \cup {rows + 1} ELSE overlapped
  /\ hasCodes' = (hasCodes \/ codes)
  /\ stripped' = (stripped /\ ~codes)

-----------------------------------------------------------------------------
(* Enrolling.                                                              *)

\* MFASetup of a new secret; WebAuthnRegisterBegin of a new key.
Setup(e, m) ==
  /\ enrolling[e] = NoEnrol
  /\ ~HasRow(m)
  /\ Proceeds(e, [pc |-> "store", method |-> m, issue |-> ~HasCompleted(cred)])
  /\ UNCHANGED <<cred, hasCodes, challenge, rows, verified, overlapped,
                 stripped>>

\* StoreMFASetupWithPolicy, StoreWebAuthnPendingSetup.  CanAddMFAMethod and
\* UNIQUE (username, method_type) ask the same of the table.
StoreSetup(e) ==
  /\ enrolling[e].pc = "store"
  /\ LET m == enrolling[e].method IN
       IF HasRow(m)
       THEN /\ Proceeds(e, NoEnrol)
            /\ UNCHANGED <<cred, hasCodes, rows, overlapped, stripped>>
       ELSE /\ Insert(m, enrolling[e].issue)
            /\ Proceeds(e, IF m = "webauthn" THEN [pc |-> "session"]
                           ELSE NoEnrol)
  /\ UNCHANGED <<challenge, verified>>

\* GetPendingMFASetup hands the pending secret out again, with new codes when
\* no factor is completed; RegenerateBackupCodes wants one completed.
Resume(e) ==
  /\ enrolling[e] = NoEnrol
  /\ PendingRow("totp") /\ ~HasCompleted(cred)
  /\ Proceeds(e, [pc |-> "reissue"])
  /\ UNCHANGED <<cred, hasCodes, challenge, rows, verified, overlapped,
                 stripped>>

RegenerateBackupCodes(e) ==
  /\ enrolling[e] = NoEnrol
  /\ HasCompleted(cred)
  /\ Proceeds(e, [pc |-> "reissue"])
  /\ UNCHANGED <<cred, hasCodes, challenge, rows, verified, overlapped,
                 stripped>>

StoreBackupCodes(e) ==
  /\ enrolling[e].pc = "reissue"
  /\ hasCodes' = TRUE
  /\ stripped' = FALSE
  /\ Proceeds(e, NoEnrol)
  /\ UNCHANGED <<cred, challenge, rows, verified, overlapped>>

\* WebAuthnRegisterBegin of a key whose enrolment is pending issues no codes.
ResumeKey(e) ==
  /\ enrolling[e] = NoEnrol
  /\ NewestPending("webauthn")
  /\ Proceeds(e, [pc |-> "session"])
  /\ UNCHANGED <<cred, hasCodes, challenge, rows, verified, overlapped,
                 stripped>>

SaveWebAuthnSession(e) ==
  /\ enrolling[e].pc = "session"
  /\ challenge' = TRUE
  /\ Proceeds(e, NoEnrol)
  /\ UNCHANGED <<cred, hasCodes, rows, verified, overlapped, stripped>>

-----------------------------------------------------------------------------
(* Completing.                                                             *)

\* CompleteMFASetup finds the code right for the pending secret ...
VerifyTOTP(e) ==
  /\ enrolling[e] = NoEnrol
  /\ PendingRow("totp")
  /\ verified' = verified \cup {cred["totp"].id}
  /\ Proceeds(e, [pc |-> "enable"])
  /\ UNCHANGED <<cred, hasCodes, challenge, rows, overlapped, stripped>>

\* ... and enables the row that is there by then: the UPDATE names the method.
EnableTOTP(e) ==
  /\ enrolling[e].pc = "enable"
  /\ cred' = [cred EXCEPT !["totp"].done = HasRow("totp")]
  /\ Proceeds(e, NoEnrol)
  /\ UNCHANGED <<hasCodes, challenge, rows, verified, overlapped, stripped>>

\* WebAuthnRegisterFinish takes the session away, then verifies the key
\* against it for the row that is pending.
FinishKey(e) ==
  /\ enrolling[e] = NoEnrol
  /\ challenge
  /\ challenge' = FALSE
  /\ \/ /\ PendingRow("webauthn")
        /\ verified' = verified \cup {cred["webauthn"].id}
        /\ Proceeds(e, [pc |-> "save", id |-> cred["webauthn"].id])
     \/ UNCHANGED <<verified, enrolling>>
  /\ UNCHANGED <<cred, hasCodes, rows, overlapped, stripped>>

\* The row that saveWebAuthnCredential updates: the UPDATE names its id.
SavedRow(id) == cred["webauthn"].id = id

\* The sessions are cleared only after the failures have been.
SaveKey(e) ==
  /\ enrolling[e].pc = "save"
  /\ cred' = [cred EXCEPT !["webauthn"].done = @ \/ SavedRow(enrolling[e].id)]
  /\ challenge' \in {FALSE, challenge}
  /\ Proceeds(e, NoEnrol)
  /\ UNCHANGED <<hasCodes, rows, verified, overlapped, stripped>>

-----------------------------------------------------------------------------
(* Resetting and removing.                                                 *)

\* MFAReset, after its backup code or with a token that RecoverWithBackupCode
\* gave for one: resetTOTPMethod, resetWebAuthnMethod.
ResetMFAMethod(e, m) ==
  /\ enrolling[e] = NoEnrol
  /\ rows > 0
  /\ Insert(m, TRUE)
  /\ UNCHANGED <<challenge, enrolling, verified>>

\* An enrolment that will not issue codes is under way.
Uncoded(c) ==
  \/ \E m \in Methods : c[m].id # 0 /\ ~c[m].done
  \/ \E e \in Enrollers : enrolling[e].pc = "store" /\ ~enrolling[e].issue

DeleteCodes(c) ==
  /\ hasCodes' = FALSE
  /\ stripped' = Uncoded(c)

\* Mutant: the codes go with any factor.
CodesGoEarly(c) == TRUE

\* The codes go with the last completed factor.
CodesGo(c) == ~HasCompleted(c)

\* RemoveUserCredential and AdminScopedResetUserMFA read the row ...
ReadCredential(e, m) ==
  /\ enrolling[e] = NoEnrol
  /\ HasRow(m)
  /\ Proceeds(e, [pc |-> "remove", method |-> m, id |-> cred[m].id])
  /\ UNCHANGED <<cred, hasCodes, challenge, rows, verified, overlapped,
                 stripped>>

\* ... and then delete it by its id.  Its sessions end too: see Sessions.
RemoveCredential(e) ==
  /\ enrolling[e].pc = "remove"
  /\ LET r == enrolling[e]
         left == IF cred[r.method].id = r.id
                 THEN [cred EXCEPT ![r.method] = NoCred] ELSE cred
     IN /\ cred' = left
        /\ IF CodesGo(left) THEN DeleteCodes(left)
           ELSE UNCHANGED <<hasCodes, stripped>>
  /\ Proceeds(e, NoEnrol)
  /\ UNCHANGED <<challenge, rows, verified, overlapped>>

AdminFullResetUserMFA ==
  /\ hasCodes \/ \E m \in Methods : HasRow(m)
  /\ cred' = [m \in Methods |-> NoCred]
  /\ DeleteCodes(cred')
  /\ UNCHANGED <<challenge, enrolling, rows, verified, overlapped>>

-----------------------------------------------------------------------------

\* A check or a statement fails.
RefuseEnrol(e) ==
  /\ enrolling[e] # NoEnrol
  /\ Proceeds(e, NoEnrol)
  /\ UNCHANGED <<cred, hasCodes, challenge, rows, verified, overlapped,
                 stripped>>

\* A restart; and webAuthnSessionTTL ends a ceremony.
LoseCeremony ==
  /\ challenge' = FALSE
  /\ enrolling' \in {enrolling, [e \in Enrollers |-> NoEnrol]}
  /\ UNCHANGED <<cred, hasCodes, rows, verified, overlapped, stripped>>

EnrollmentNext ==
  \/ \E e \in Enrollers :
       \/ \E m \in Methods : \/ Setup(e, m) \/ ReadCredential(e, m)
                            \/ ResetMFAMethod(e, m)
       \/ StoreSetup(e) \/ Resume(e) \/ RegenerateBackupCodes(e)
       \/ StoreBackupCodes(e) \/ ResumeKey(e) \/ SaveWebAuthnSession(e)
       \/ VerifyTOTP(e) \/ EnableTOTP(e) \/ FinishKey(e) \/ SaveKey(e)
       \/ RemoveCredential(e) \/ RefuseEnrol(e)
  \/ AdminFullResetUserMFA \/ LoseCeremony

EnrollmentSpec == EnrollmentInit /\ [][EnrollmentNext]_enrollmentVars

-----------------------------------------------------------------------------
(* Properties.                                                             *)

(* An enabled factor is the very secret or key that was verified.  A key   *)
(* enabled always is; a TOTP secret that a reset put in place while a code *)
(* for its predecessor was being verified is the one exception, because    *)
(* the UPDATE names the method and not the row (auth/mfa_setup.go:183).    *)
EnabledWasVerified ==
  \A m \in Methods : cred[m].done =>
    \/ cred[m].id \in verified
    \/ m = "totp" /\ cred[m].id \in overlapped

(* Whoever has a completed factor has backup codes, in whatever order      *)
(* factors are begun, completed, reset and removed, unless the codes were  *)
(* deleted with the last completed factor while another was being enrolled *)
(* and none were issued since (auth/mfa_setup.go:383,                      *)
(* mfa_admin_reset.go:113).                                                *)
CodesForFactors == HasCompleted(cred) => hasCodes \/ stripped

(* What is enabled was verified and comes with codes: see the two parts.   *)
FactorsHold == EnabledWasVerified /\ CodesForFactors

=============================================================================
