------------------------------ MODULE Accounts ------------------------------
(***************************************************************************)
(* The accounts and their OPAQUE records: registration, login,             *)
(* re-registration after a key rotation, the rotation of the server keys,  *)
(* deletion, and the bootstrap of the first administrator.                 *)
(*                                                                         *)
(* A ceremony is a row of opaque_auth_sessions: its first request creates  *)
(* it, its second (finalize) reads it, makes its checks, and then changes  *)
(* the account in a transaction, so every check may be stale by then.      *)
(***************************************************************************)
EXTENDS Integers, FiniteSets

CONSTANTS
  Names,          \* user names, folded
  Ceremonies,     \* rows of opaque_auth_sessions, each used once
  Callers,        \* finalize and login requests in progress
  MaxKey,         \* bound: generations of the OPAQUE server keys
  MaxToken        \* bound: bootstrap tokens generated

ASSUME AccountsAssumption == MaxKey \in Nat \ {0} /\ MaxToken \in Nat \ {0}

VARIABLES
  user,           \* name |-> its row of users
  record,         \* name |-> server key its OPAQUE record was made with, 0: none
  ceremony,       \* ceremony |-> its row
  caller,         \* caller |-> its request
  handoff,        \* names with a live re-registration token
  storedKey,      \* the OPAQUE server keys in system_keys
  loadedKey,      \* the OPAQUE server keys in memory
  rotor,          \* where a key replacement stands
  boot,           \* the bootstrap_token row
  bootFile,       \* the token in the file for the operator, 0: none
  bootHeld,       \* the token the operator has read, 0: none
  startup,        \* where the start of the process stands
  madeWith        \* ghost: token |-> administrators made with it

accountsVars == <<user, record, ceremony, caller, handoff, storedKey, loadedKey, rotor,
                  boot, bootFile, bootHeld, startup, madeWith>>
bootVars == <<boot, bootFile, bootHeld, startup, madeWith>>
keyState == <<storedKey, loadedKey, rotor>>

Kinds      == {"registration", "reregistration", "authentication",
               "adminLogin", "bootstrap"}
NoUser     == [row |-> "none", flagged |-> FALSE, admin |-> FALSE, seen |-> FALSE]
NewRow     == [kind |-> "registration", name |-> "none", key |-> 0, at |-> "new"]
NoCall     == [at |-> "idle", subject |-> "none", row |-> NewRow]
ActiveName(u) == user[u].row = "active"
Serving    == startup = "up"

-----------------------------------------------------------------------------
AccountsInit ==
  /\ user     = [u \in Names |-> NoUser]
  /\ record   = [u \in Names |-> 0]
  /\ ceremony = [s \in Ceremonies |-> NewRow]
  /\ caller   = [c \in Callers |-> NoCall]
  /\ handoff  = {}
  /\ storedKey = 1 /\ loadedKey = 1 /\ rotor = "idle"
  /\ boot = [id |-> 0, consumed |-> FALSE] /\ bootFile = 0 /\ bootHeld = 0
  /\ startup = "check"
  /\ madeWith = [t \in 1..MaxToken |-> 0]

(* CreateAuthSession, and the ceremony's end: DeleteAuthSession or expiry,  *)
(* which leaves nothing of the row.                                        *)
OpenRow(s, kind, u, key) ==
  /\ ceremony[s].at = "new"
  /\ ceremony' = [ceremony EXCEPT ![s] = [kind |-> kind, name |-> u, key |-> key, at |-> "open"]]

Closed(s) == [ceremony EXCEPT ![s] = [NewRow EXCEPT !.at = "ended"]]

ExpireRow(s) ==
  /\ ceremony[s].at = "open" /\ ceremony' = Closed(s)
  /\ UNCHANGED <<user, record, caller, handoff, keyState, bootVars>>

-----------------------------------------------------------------------------
(* The first request of each ceremony.                                     *)

\* CreateRegistrationResponse draws the ceremony's secret from the server
\* keys in memory.
SecretDrawn == loadedKey

OpaqueRegisterResponse(s, u) ==
  /\ Serving /\ ~ActiveName(u)
  /\ OpenRow(s, "registration", u, SecretDrawn)
  /\ UNCHANGED <<user, record, caller, handoff, keyState, bootVars>>

ReregisterResponse(s, u) ==
  /\ Serving /\ u \in handoff /\ ActiveName(u) /\ user[u].flagged
  /\ OpenRow(s, "reregistration", u, SecretDrawn)
  /\ UNCHANGED <<user, record, caller, handoff, keyState, bootVars>>

\* ValidateBootstrapToken
TokenAccepted == bootHeld # 0 /\ bootHeld = boot.id /\ ~boot.consumed

BootstrapRegisterResponse(s, u) ==
  /\ Serving /\ TokenAccepted /\ ~ActiveName(u)
  /\ OpenRow(s, "bootstrap", u, SecretDrawn)
  /\ UNCHANGED <<user, record, caller, handoff, keyState, bootVars>>

(* OpaqueAuthResponse: with a record the login starts; without one the     *)
(* flag is read next, and an unflagged account is answered with a made-up  *)
(* record (key 0), which no password opens.                                *)
LoginWithRecord(s, u) ==
  /\ Serving /\ record[u] # 0
  /\ OpenRow(s, "authentication", u, record[u])
  /\ UNCHANGED <<user, record, caller, handoff, keyState, bootVars>>

LoginNoRecord(c, u) ==
  /\ Serving /\ caller[c].at = "idle" /\ record[u] = 0
  /\ caller' = [caller EXCEPT ![c] = [at |-> "flag", subject |-> u, row |-> NewRow]]
  /\ UNCHANGED <<user, record, ceremony, handoff, keyState, bootVars>>

LoginHandoff(c) ==
  LET u == caller[c].subject IN
  /\ caller[c].at = "flag" /\ ActiveName(u) /\ user[u].flagged
  /\ handoff' = handoff \cup {u}
  /\ caller' = [caller EXCEPT ![c] = NoCall]
  /\ UNCHANGED <<user, record, ceremony, keyState, bootVars>>

LoginFakeRecord(c, s) ==
  LET u == caller[c].subject IN
  /\ caller[c].at = "flag" /\ ~(ActiveName(u) /\ user[u].flagged)
  /\ OpenRow(s, "authentication", u, 0)
  /\ caller' = [caller EXCEPT ![c] = NoCall]
  /\ UNCHANGED <<user, record, handoff, keyState, bootVars>>

(* AdminOpaqueAuthResponse answers all but an administrator who has a      *)
(* record with a made-up one.                                              *)
AdminOpaqueAuthResponse(s, u) ==
  /\ Serving
  /\ OpenRow(s, "adminLogin", u,
             IF ActiveName(u) /\ user[u].admin THEN record[u] ELSE 0)
  /\ UNCHANGED <<user, record, caller, handoff, keyState, bootVars>>

ExpireHandoff(u) ==
  /\ handoff' = handoff \ {u}
  /\ UNCHANGED <<user, record, ceremony, caller, keyState, bootVars>>

-----------------------------------------------------------------------------
(* The checks of a finalize.  A registration of a name taken meanwhile     *)
(* ends its ceremony; one that goes on keeps what it read of the row.      *)
ChecksPass(s) ==
  CASE ceremony[s].kind = "registration"   -> ~ActiveName(ceremony[s].name)
    [] ceremony[s].kind = "reregistration" ->
         /\ ceremony[s].name \in handoff
         /\ ActiveName(ceremony[s].name) /\ user[ceremony[s].name].flagged
    [] ceremony[s].kind = "bootstrap"      -> TokenAccepted
    [] OTHER                               -> FALSE

FinalizeRead(c, s) ==
  /\ Serving /\ caller[c].at = "idle" /\ ceremony[s].at = "open" /\ ChecksPass(s)
  /\ caller' = [caller EXCEPT ![c] = [at |-> "commit", subject |-> s, row |-> ceremony[s]]]
  /\ UNCHANGED <<user, record, ceremony, handoff, keyState, bootVars>>

FinalizeTaken(s) ==
  /\ Serving /\ ceremony[s].at = "open" /\ ceremony[s].kind = "registration" /\ ~ChecksPass(s)
  /\ ceremony' = Closed(s)
  /\ UNCHANGED <<user, record, caller, handoff, keyState, bootVars>>

(* OpaqueAuthFinalize: right or wrong, the row is deleted; the account is  *)
(* not touched.                                                            *)
OpaqueAuthFinalize(s) ==
  /\ Serving /\ ceremony[s].at = "open" /\ ceremony[s].kind = "authentication"
  /\ ceremony' = Closed(s)
  /\ UNCHANGED <<user, record, caller, handoff, keyState, bootVars>>

(* AdminOpaqueAuthFinalize deletes the row whether the user is still an    *)
(* administrator, the password right or neither.                           *)
AdminOpaqueAuthFinalize(s) ==
  /\ Serving /\ ceremony[s].at = "open" /\ ceremony[s].kind = "adminLogin"
  /\ ceremony' = Closed(s)
  /\ UNCHANGED <<user, record, caller, handoff, keyState, bootVars>>

(* An administrator whose second factor follows has logged in, which       *)
(* deletes the bootstrap token.                                            *)
AdminLogin(u) ==
  /\ Serving /\ ActiveName(u) /\ user[u].admin
  /\ user' = [user EXCEPT ![u].seen = TRUE]
  /\ boot' = [id |-> 0, consumed |-> FALSE]
  /\ UNCHANGED <<record, ceremony, caller, handoff, keyState, bootFile,
                 bootHeld, startup, madeWith>>

\* StoreUserRecord completes the record with the ceremony's secret.
RecordMade(c) == caller[c].row.key

Committing(c, kind) == caller[c].at = "commit" /\ caller[c].row.kind = kind

(* The names are unique in users, those of deleted accounts included.      *)
(* CreateUser makes an administrator of a name that is spelt as one of     *)
(* ADMIN_USERNAMES (models/user.go:71); names that fold alike may not be.  *)
RegisterCommit(c) ==
  LET s == caller[c].subject
      u == caller[c].row.name IN
  /\ Committing(c, "registration") /\ user[u].row = "none"
  /\ \E listed \in BOOLEAN :
       user' = [user EXCEPT ![u] = [NoUser EXCEPT !.row = "active", !.admin = listed]]
  /\ record' = [record EXCEPT ![u] = RecordMade(c)]
  /\ ceremony' = Closed(s)
  /\ caller' = [caller EXCEPT ![c] = NoCall]
  /\ UNCHANGED <<handoff, keyState, bootVars>>

(* The record is replaced and the flag cleared in one transaction, which   *)
(* fails for an account deleted meanwhile.                                 *)
ReregisterCommit(c) ==
  LET s == caller[c].subject
      u == caller[c].row.name IN
  /\ Committing(c, "reregistration") /\ ActiveName(u)
  /\ record' = [record EXCEPT ![u] = RecordMade(c)]
  /\ user'   = [user EXCEPT ![u].flagged = FALSE]
  /\ ceremony' = Closed(s)
  /\ caller' = [caller EXCEPT ![c] = NoCall]
  /\ UNCHANGED <<handoff, keyState, bootVars>>

\* Mutant: the token is consumed whether or not it was.
ConsumableAnyway == boot.id # 0

\* UPDATE ... SET consumed_at WHERE consumed_at IS NULL has changed one row.
Consumable == boot.id # 0 /\ ~boot.consumed

BootstrapCommit(c) ==
  LET s == caller[c].subject
      u == caller[c].row.name IN
  /\ Committing(c, "bootstrap") /\ Consumable /\ user[u].row = "none"
  /\ boot' = [boot EXCEPT !.consumed = TRUE]
  /\ user' = [user EXCEPT ![u] = [NoUser EXCEPT !.row = "active", !.admin = TRUE]]
  /\ record' = [record EXCEPT ![u] = RecordMade(c)]
  /\ madeWith' = [madeWith EXCEPT ![boot.id] = @ + 1]
  /\ ceremony' = Closed(s)
  /\ caller' = [caller EXCEPT ![c] = NoCall]
  /\ UNCHANGED <<handoff, keyState, bootFile, bootHeld, startup>>

\* A failing statement, or a check that fails by now, ends the request.
GiveUpCall(c) ==
  /\ caller[c].at # "idle" /\ caller' = [caller EXCEPT ![c] = NoCall]
  /\ UNCHANGED <<user, record, ceremony, handoff, keyState, bootVars>>

-----------------------------------------------------------------------------
(* Administration of accounts.                                             *)

\* Mutant: an account is flagged only when its record is still there.
FlaggedOf(u) == record[u] # 0

\* The flag goes to every account whose record is removed.
Flaggable(u) == ActiveName(u)

FlagUser(u) ==
  /\ Serving /\ ActiveName(u)
  /\ record' = [record EXCEPT ![u] = 0]
  /\ user'   = [user EXCEPT ![u].flagged = Flaggable(u)]
  /\ UNCHANGED <<ceremony, caller, handoff, keyState, bootVars>>

AllFlagged ==
  /\ record' = [u \in Names |-> 0]
  /\ user'   = [u \in Names |-> [user[u] EXCEPT !.flagged = @ \/ Flaggable(u)]]

FlagAllUsers ==
  /\ Serving /\ AllFlagged
  /\ UNCHANGED <<ceremony, caller, handoff, keyState, bootVars>>

DeleteUser(u) ==
  /\ Serving /\ ActiveName(u)
  /\ user' = [user EXCEPT ![u].row = "deleted"]
  /\ UNCHANGED <<record, ceremony, caller, handoff, keyState, bootVars>>

(* The clean-up of test accounts removes the rows.                         *)
CleanupTestUser(u) ==
  /\ Serving /\ user[u].row # "none"
  /\ user'   = [user EXCEPT ![u] = NoUser]
  /\ record' = [record EXCEPT ![u] = 0]
  /\ UNCHANGED <<ceremony, caller, handoff, keyState, bootVars>>

(* RotateOpaqueServerKeysDeployment flags everybody, then replaces the     *)
(* keys; ReplaceOpaqueServerKeysGuarded asks first that nobody is left.    *)
RotateFlag ==
  /\ Serving /\ rotor = "idle" /\ storedKey < MaxKey /\ AllFlagged
  /\ rotor' = "store"
  /\ UNCHANGED <<ceremony, caller, handoff, storedKey, loadedKey, bootVars>>

NobodyLeft == \A u \in Names : record[u] = 0 /\ (ActiveName(u) => user[u].flagged)

ReplaceGuarded ==
  /\ Serving /\ rotor = "idle" /\ storedKey < MaxKey
  /\ NobodyLeft
  /\ rotor' = "store"
  /\ UNCHANGED <<user, record, ceremony, caller, handoff, storedKey,
                 loadedKey, bootVars>>

ReplaceStore ==
  /\ rotor = "store" /\ rotor' = "reload"
  /\ storedKey' = storedKey + 1
  /\ UNCHANGED <<user, record, ceremony, caller, handoff, loadedKey,
                 bootVars>>

ReplaceReload ==
  /\ rotor = "reload" /\ rotor' = "idle"
  /\ loadedKey' = storedKey
  /\ UNCHANGED <<user, record, ceremony, caller, handoff, storedKey,
                 bootVars>>

\* The new keys were not stored; or they were and stay so, as the check of them
\* fails or the old ones cannot be put back after a failed reload; or those are
\* put back, and loaded if this time the reload succeeds.
ReplaceFail ==
  /\ rotor # "idle" /\ rotor' = "idle"
  /\ \/ UNCHANGED <<storedKey, loadedKey>>
     \/ /\ rotor = "reload"
        /\ storedKey' = storedKey - 1 /\ loadedKey' \in {loadedKey, storedKey'}
  /\ UNCHANGED <<user, record, ceremony, caller, handoff, bootVars>>

-----------------------------------------------------------------------------
(* A restart, and CheckAndGenerateBootstrapToken before serving.           *)
RestartAccounts ==
  /\ startup' = "check"
  /\ caller' = [c \in Callers |-> NoCall]
  /\ loadedKey' = storedKey /\ rotor' = "idle"
  /\ UNCHANGED <<user, record, ceremony, handoff, storedKey, boot, bootFile,
                 bootHeld, madeWith>>

AdminSeen == \E u \in Names : user[u].admin /\ user[u].seen

BootCheck(force) ==
  /\ startup = "check"
  /\ \/ /\ boot.id # 0 /\ ~force
        /\ startup' = "up" /\ UNCHANGED <<boot, bootFile>>
     \/ /\ boot.id = 0 /\ ~force /\ AdminSeen
        /\ startup' = "up" /\ bootFile' = 0 /\ UNCHANGED boot
     \/ /\ force \/ (boot.id = 0 /\ ~AdminSeen)
        /\ \E t \in 1..MaxToken :
             /\ \A o \in 1..MaxToken : (boot.id >= o \/ bootFile >= o \/ bootHeld >= o
                                        \/ madeWith[o] > 0) => t > o
             /\ boot' = [id |-> t, consumed |-> FALSE]
        /\ startup' = "file" /\ UNCHANGED bootFile
  /\ UNCHANGED <<user, record, ceremony, caller, handoff, keyState, bootHeld,
                 madeWith>>

BootWriteFile ==
  /\ startup = "file" /\ startup' = "up"
  /\ bootFile' = boot.id
  /\ UNCHANGED <<user, record, ceremony, caller, handoff, keyState, boot,
                 bootHeld, madeWith>>

\* The file cannot be written: the row is deleted and the process ends.
BootFileFail ==
  /\ startup = "file" /\ startup' = "check"
  /\ boot' = [id |-> 0, consumed |-> FALSE]
  /\ UNCHANGED <<user, record, ceremony, caller, handoff, keyState, bootFile,
                 bootHeld, madeWith>>

ReadToken ==
  /\ bootHeld' = bootFile
  /\ UNCHANGED <<user, record, ceremony, caller, handoff, keyState, boot,
                 bootFile, startup, madeWith>>

AccountsNext ==
  \/ \E s \in Ceremonies, u \in Names :
       \/ OpaqueRegisterResponse(s, u) \/ ReregisterResponse(s, u)
       \/ BootstrapRegisterResponse(s, u) \/ LoginWithRecord(s, u)
       \/ AdminOpaqueAuthResponse(s, u)
  \/ \E c \in Callers : \E u \in Names : LoginNoRecord(c, u)
  \/ \E c \in Callers, s \in Ceremonies : LoginFakeRecord(c, s) \/ FinalizeRead(c, s)
  \/ \E c \in Callers :
       LoginHandoff(c) \/ RegisterCommit(c) \/ ReregisterCommit(c) \/ BootstrapCommit(c)
       \/ GiveUpCall(c)
  \/ \E s \in Ceremonies : ExpireRow(s) \/ FinalizeTaken(s) \/ OpaqueAuthFinalize(s)
                              \/ AdminOpaqueAuthFinalize(s)
  \/ \E u \in Names :
       ExpireHandoff(u) \/ AdminLogin(u) \/ FlagUser(u) \/ DeleteUser(u) \/ CleanupTestUser(u)
  \/ FlagAllUsers \/ RotateFlag \/ ReplaceGuarded \/ ReplaceStore \/ ReplaceReload \/ ReplaceFail
  \/ RestartAccounts \/ \E force \in BOOLEAN : BootCheck(force)
  \/ BootWriteFile \/ BootFileFail \/ ReadToken

AccountsSpec == AccountsInit /\ [][AccountsNext]_accountsVars

-----------------------------------------------------------------------------
CeremonyRows == [kind : Kinds, name : Names \cup {"none"}, key : 0..MaxKey,
                 at : {"new", "open", "ended"}]

\* The values the variables range over: rows of the tables, ceremonies,
\* requests, keys and tokens.
AccountsTypeOK ==
  /\ user \in [Names -> [row : {"none", "active", "deleted"}, flagged : BOOLEAN,
                         admin : BOOLEAN, seen : BOOLEAN]]
  /\ record \in [Names -> 0..MaxKey]
  /\ ceremony \in [Ceremonies -> CeremonyRows]
  /\ caller \in [Callers -> [at : {"idle", "flag", "commit"}, row : CeremonyRows,
                             subject : Names \cup Ceremonies \cup {"none"}]]
  /\ handoff \subseteq Names
  /\ storedKey \in 1..MaxKey /\ loadedKey \in 1..MaxKey /\ rotor \in {"idle", "store", "reload"}
  /\ boot \in [id : 0..MaxToken, consumed : BOOLEAN]
  /\ bootFile \in 0..MaxToken /\ bootHeld \in 0..MaxToken
  /\ startup \in {"check", "file", "up"}
  /\ madeWith \in [1..MaxToken -> Nat]

\* An active account can always be entered: it has an OPAQUE record, or the
\* flag that leads its login into re-registration; never neither, which would
\* send it down the path of unknown names (auth/opaque_rotation.go:36).
AccountReachable == \A u \in Names : ActiveName(u) => record[u] # 0 \/ user[u].flagged

\* A bootstrap token makes one administrator, however many finalize requests
\* passed its validation before the first of them committed.
OneAdminPerToken == \A t \in 1..MaxToken : madeWith[t] <= 1

\* No account is lost and none is made twice: see the two parts.
AccountsHold == AccountReachable /\ OneAdminPerToken
=============================================================================
