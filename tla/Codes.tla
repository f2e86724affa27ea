-------------------------------- MODULE Codes --------------------------------
(***************************************************************************)
(* One TOTP code and one backup code of a user, presented by any number of *)
(* requests at once: MFAAuth, RecoverWithBackupCode and MFAReset with what *)
(* they call of auth/mfa_totp.go and auth/mfa_backup_codes.go.  The lock   *)
(* that these look at first, and the failures they count, are in Lockout;  *)
(* here a request that is refused does not begin.                          *)
(***************************************************************************)
EXTENDS Integers

CONSTANTS
  Presenters,   \* requests that present a code at one time
  Code,         \* the window of the TOTP code
  Skew,         \* TOTPSkew: windows it is good for before and after its own
  UsageKept,    \* windows for which CleanupMFALogs keeps a use
  Sets,         \* numbers of the sets of backup codes
  MaxAccepted,  \* bound: how often the TOTP code is accepted in a window
  MaxWindow     \* bound: the clock, in windows of TOTPPeriod

ASSUME CodesAssumption ==
  /\ Code \in Nat /\ Skew \in Nat /\ UsageKept \in Nat
  /\ Sets \subseteq Nat /\ 1 \in Sets
  /\ MaxAccepted \in Nat
  /\ MaxWindow \in Nat \ {0}

VARIABLES
  window,     \* the current window of the clock
  usage,      \* mfa_usage_log: windows the TOTP code is logged as used in
  backup,     \* the backup code's row: of which set it is, and whether unused
  presented,  \* the requests
  accepted,   \* history: how often the TOTP code was accepted, by window
  excused,    \* history: of these, how many overlapped or went unlogged
  redeemed    \* history: how often the backup code of each set was accepted

codesVars ==
  <<window, usage, backup, presented, accepted, excused, redeemed>>

Windows == 1 .. MaxWindow
NoCode == [pc |-> "idle"]

CodesTypeOK ==
  /\ window \in Windows
  /\ usage \subseteq Windows
  /\ backup \in [set: Sets, unused: BOOLEAN]
  /\ presented \in [Presenters ->
       {NoCode} \cup [pc: {"replay", "log"}, use: Windows, late: BOOLEAN]
               \cup [pc: {"consume"}, set: Sets]]
  /\ accepted \in [Windows -> 0 .. MaxAccepted]
  /\ excused \in [Windows -> Nat]
  /\ redeemed \in [Sets -> Nat]

CodesInit ==
  /\ window = 1
  /\ usage = {}
  /\ backup = [set |-> 1, unused |-> TRUE]
  /\ presented = [p \in Presenters |-> NoCode]
  /\ accepted = [w \in Windows |-> 0]
  /\ excused = [w \in Windows |-> 0]
  /\ redeemed = [s \in Sets |-> 0]

Goes(p, step) == presented' = [presented EXCEPT ![p] = step]

-----------------------------------------------------------------------------
(* ValidateTOTPCode.                                                       *)

\* The clock is read and the code found good.
PresentCode(p) ==
  /\ presented[p] = NoCode
  /\ Code - window \in -Skew .. Skew
  /\ Goes(p, [pc |-> "replay", use |-> window, late |-> FALSE])
  /\ UNCHANGED <<window, usage, backup, accepted, excused, redeemed>>

\* Mutant: a use is looked for under the code's own window.
UsedInOwn(use) == Code \in usage

Used(use) == use \in usage

\* checkTOTPReplay looks under the window just read, not under the code's own.
\* A code that passes is late when another request has passed with it before
\* and not logged it yet.
CheckReplay(p) ==
  /\ presented[p].pc = "replay"
  /\ IF Used(presented[p].use)
     THEN Goes(p, NoCode)
     ELSE Goes(p, [presented[p] EXCEPT !.pc = "log", !.late =
            @ \/ \E q \in Presenters : /\ presented[q].pc = "log"
                                       /\ presented[q].use = presented[p].use])
  /\ UNCHANGED <<window, usage, backup, accepted, excused, redeemed>>

\* logTOTPUsage; the code is accepted even when that fails.
LogUsage(p) ==
  /\ presented[p].pc = "log"
  /\ LET use == presented[p].use IN
       /\ accepted[use] < MaxAccepted
       /\ accepted' = [accepted EXCEPT ![use] = @ + 1]
       /\ \/ /\ usage' = usage \cup {use}
             /\ excused' = IF presented[p].late
                           THEN [excused EXCEPT ![use] = @ + 1] ELSE excused
          \/ /\ UNCHANGED usage
             /\ excused' = [excused EXCEPT ![use] = @ + 1]
  /\ Goes(p, NoCode)
  /\ UNCHANGED <<window, backup, redeemed>>

-----------------------------------------------------------------------------
(* ValidateBackupCode.                                                     *)

\* The SELECTs find the code unused.
FindBackupCode(p) ==
  /\ presented[p] = NoCode
  /\ backup.unused
  /\ Goes(p, [pc |-> "consume", set |-> backup.set])
  /\ UNCHANGED <<window, usage, backup, accepted, excused, redeemed>>

\* Mutant: the UPDATE names the code only.
RedeemableAgain(set) == backup.set = set

\* The WHERE clause of the UPDATE: the same code, still unused.
Redeemable(set) == backup.set = set /\ backup.unused

ConsumeBackupCode(p) ==
  /\ presented[p].pc = "consume"
  /\ LET set == presented[p].set IN
       IF Redeemable(set)
       THEN /\ backup' = [backup EXCEPT !.unused = FALSE]
            /\ redeemed' = [redeemed EXCEPT ![set] = @ + 1]
       ELSE UNCHANGED <<backup, redeemed>>
  /\ Goes(p, NoCode)
  /\ UNCHANGED <<window, usage, accepted, excused>>

-----------------------------------------------------------------------------
(* What goes on beside the requests.                                       *)

\* A statement fails or the process dies: nothing is accepted.
GiveUp(p) ==
  /\ presented[p] # NoCode
  /\ Goes(p, NoCode)
  /\ UNCHANGED <<window, usage, backup, accepted, excused, redeemed>>

\* storeBackupCodesTx, in RegenerateBackupCodes, a reset or a pending setup.
NewBackupCodes ==
  /\ backup.set + 1 \in Sets
  /\ backup' = [set |-> backup.set + 1, unused |-> TRUE]
  /\ UNCHANGED <<window, usage, presented, accepted, excused, redeemed>>

\* CleanupMFALogs.  A request may be so slow that it looks for a use only then.
CleanupMFALogs ==
  LET old == {w \in usage : window - w > UsageKept} IN
  /\ old # {}
  /\ usage' = usage \ old
  /\ presented' = [p \in Presenters |->
       IF presented[p].pc = "replay" /\ presented[p].use \in old
       THEN [presented[p] EXCEPT !.late = TRUE] ELSE presented[p]]
  /\ UNCHANGED <<window, backup, accepted, excused, redeemed>>

TickWindow ==
  /\ window < MaxWindow
  /\ window' = window + 1
  /\ UNCHANGED <<usage, backup, presented, accepted, excused, redeemed>>

CodesNext ==
  \/ \E p \in Presenters :
       \/ PresentCode(p) \/ CheckReplay(p) \/ LogUsage(p)
       \/ FindBackupCode(p) \/ ConsumeBackupCode(p) \/ GiveUp(p)
  \/ NewBackupCodes \/ CleanupMFALogs \/ TickWindow

CodesSpec == CodesInit /\ [][CodesNext]_codesVars

-----------------------------------------------------------------------------
(* Properties.                                                             *)

(* A backup code is accepted once: not by two requests at the same time,   *)
(* nor again after a new set was stored, in no order of the lookups and    *)
(* the UPDATE (auth/mfa_backup_codes.go:68).                               *)
BackupCodeOnce == \A s \in Sets : redeemed[s] <= 1

(* A TOTP code is accepted a second time in one window only by requests    *)
(* that overlapped, or when its use could not be logged or was deleted     *)
(* while a slow request was under way: the check for a replay and the log  *)
(* are two statements (auth/mfa_totp.go:66, :74).                          *)
CodeOncePerWindow == \A w \in Windows : accepted[w] <= 1 + excused[w]

(* Neither code is accepted twice: see the two parts.                      *)
CodesHold == BackupCodeOnce /\ CodeOncePerWindow
=============================================================================
