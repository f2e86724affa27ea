------------------------------ MODULE Masters ------------------------------
(***************************************************************************)
(* The two master keys and their offline rotations.  The envelope master   *)
(* (secrets.env) wraps every row of system_keys; the user-secret master (a *)
(* file of its own) wraps every MFA credential.  arkfile-admin applies a   *)
(* rotation while the service is stopped, under a mandate the running      *)
(* service issued: it draws a master, re-encrypts the rows in one          *)
(* transaction and replaces the master on disk, and it may die anywhere in *)
(* between.                                                                *)
(***************************************************************************)
EXTENDS Integers, FiniteSets

CONSTANTS
  SystemKeys,     \* rows of system_keys
  EntityKeys,     \* the rows among them a rotation draws afresh (EntityID master)
  Enrolled,          \* accounts with MFA credentials
  Methods,        \* kinds of credential: one row for each user and method
  MaxMasters      \* bound: masters drawn, the two first ones included

ASSUME MastersAssumption ==
  /\ EntityKeys \subseteq SystemKeys
  /\ MaxMasters \in Nat /\ MaxMasters >= 2

VARIABLES
  wrappedBy,      \* system key |-> the envelope master it is stored under
  envMaster,      \* ARKFILE_MASTER_KEY of secrets.env
  spares,         \* envelope masters in recovery files and backups of secrets.env
  process,        \* the envelope master the running service holds, 0: stopped
  mandates,       \* kinds of rotation with an unused, unexpired mandate
  tool,           \* the rotation in progress
  drawn,          \* masters drawn so far
  sealedBy,       \* credential |-> the user-secret master it is stored under
  content,        \* credential |-> the credential whose secret its row holds
  userMaster,     \* the user-secret master file
  userSpares      \* user-secret masters in backup files

mastersVars == <<wrappedBy, envMaster, spares, process, mandates, tool, drawn,
                 sealedBy, content, userMaster, userSpares>>

Credentials == Enrolled \X Methods
Rotations == {"envelope", "userSecret"}
NoTool    == [kind |-> "none", at |-> "idle", from |-> 0, to |-> 0]

MastersInit ==
  /\ wrappedBy = [k \in SystemKeys |-> 1] /\ envMaster = 1 /\ spares = {} /\ process = 1
  /\ mandates = {} /\ tool = NoTool /\ drawn = 2
  /\ sealedBy = [c \in Credentials |-> 2] /\ content = [c \in Credentials |-> c]
  /\ userMaster = 2 /\ userSpares = {}

envelopeVars   == <<wrappedBy, envMaster, spares>>
userSecretVars == <<sealedBy, content, userMaster, userSpares>>

-----------------------------------------------------------------------------
(* The service: it issues mandates, stores keys under the master it        *)
(* started with, stops, and starts only if secrets.env opens its rows.     *)
PrepareRotation(kind) ==
  /\ process # 0
  /\ mandates' = mandates \cup {kind}
  /\ UNCHANGED <<envelopeVars, userSecretVars, process, tool, drawn>>

ExpireMandate(kind) ==
  /\ mandates' = mandates \ {kind}
  /\ UNCHANGED <<envelopeVars, userSecretVars, process, tool, drawn>>

StoreSystemKey(k) ==
  /\ process # 0
  /\ wrappedBy' = [wrappedBy EXCEPT ![k] = process]
  /\ UNCHANGED <<envMaster, spares, userSecretVars, process, mandates, tool,
                 drawn>>

StopService ==
  /\ process' = 0
  /\ UNCHANGED <<envelopeVars, userSecretVars, mandates, tool, drawn>>

StartService ==
  /\ process = 0 /\ \A k \in SystemKeys : wrappedBy[k] = envMaster
  /\ process' = envMaster
  /\ UNCHANGED <<envelopeVars, userSecretVars, mandates, tool, drawn>>

(* The operator installs by hand a master of a file that opens the rows.   *)
InstallSpare(m) ==
  /\ process = 0 /\ tool = NoTool /\ \A k \in SystemKeys : wrappedBy[k] = m
  /\ envMaster' = m
  /\ UNCHANGED <<wrappedBy, spares, userSecretVars, process, mandates, tool,
                 drawn>>

-----------------------------------------------------------------------------
(* An apply: the service must be stopped when it begins, the mandate is    *)
(* verified with a key stored under the master of secrets.env and consumed *)
(* once.  The new master exists only in the tool until it is written.      *)
Apply(kind) ==
  /\ tool = NoTool /\ process = 0 /\ kind \in mandates /\ drawn < MaxMasters
  /\ \A k \in SystemKeys \ EntityKeys : wrappedBy[k] = envMaster
  /\ mandates' = mandates \ {kind}
  /\ drawn' = drawn + 1
  /\ tool' = [kind |-> kind, at |-> "drawn", to |-> drawn + 1,
              from |-> IF kind = "envelope" THEN envMaster ELSE userMaster]
  /\ UNCHANGED <<envelopeVars, userSecretVars, process>>

\* Mutant: the recovery file is written once the rows are re-encrypted.
EnvelopeStepsLate(at) ==
  CASE at = "drawn" -> "backup" [] at = "backup" -> "reseal" [] at = "reseal" -> "recovery"
    [] at = "recovery" -> "install" [] OTHER -> "idle"

\* The order of the steps of an envelope rotation.
EnvelopeSteps(at) ==
  CASE at = "drawn" -> "recovery" [] at = "recovery" -> "backup" [] at = "backup" -> "reseal"
    [] at = "reseal" -> "install" [] OTHER -> "idle"

InEnvelope(at) == tool.kind = "envelope" /\ EnvelopeSteps(tool.at) = at
Passed(at)     == tool' = IF at = "install" THEN NoTool ELSE [tool EXCEPT !.at = at]

WriteRecoveryFile ==
  /\ InEnvelope("recovery") /\ Passed("recovery")
  /\ spares' = spares \cup {tool.to}
  /\ UNCHANGED <<wrappedBy, envMaster, userSecretVars, process, mandates,
                 drawn>>

BackupSecretsEnv ==
  /\ InEnvelope("backup") /\ Passed("backup")
  /\ spares' = spares \cup {envMaster}
  /\ UNCHANGED <<wrappedBy, envMaster, userSecretVars, process, mandates,
                 drawn>>

(* ReencryptAllSystemKeys: one transaction over all rows.                  *)
ResealSystemKeys ==
  /\ InEnvelope("reseal") /\ Passed("reseal")
  /\ \A k \in SystemKeys \ EntityKeys : wrappedBy[k] = tool.from
  /\ wrappedBy' = [k \in SystemKeys |-> tool.to]
  /\ UNCHANGED <<envMaster, spares, userSecretVars, process, mandates, drawn>>

RewriteSecretsEnv ==
  /\ InEnvelope("install") /\ Passed("install")
  /\ envMaster' = tool.to
  /\ UNCHANGED <<wrappedBy, spares, userSecretVars, process, mandates, drawn>>

(* The rotation of the user-secret master: a copy of the old file, the     *)
(* rows, then the new file.                                                *)
BackupUserMaster ==
  /\ tool.kind = "userSecret" /\ tool.at = "drawn"
  /\ userSpares' = userSpares \cup {userMaster}
  /\ tool' = [tool EXCEPT !.at = "backup"]
  /\ UNCHANGED <<envelopeVars, sealedBy, content, userMaster, process,
                 mandates, drawn>>

(* The UPDATE of each row names its user only, so every row of a user ends *)
(* with what the last of them held.                                        *)
ResealCredentials ==
  /\ tool.kind = "userSecret" /\ tool.at = "backup"
  /\ \A c \in Credentials : sealedBy[c] = tool.from
  /\ sealedBy' = [c \in Credentials |-> tool.to]
  /\ \E last \in [Enrolled -> Methods] :
       content' = [c \in Credentials |-> content[<<c[1], last[c[1]]>>]]
  /\ tool' = [tool EXCEPT !.at = "reseal"]
  /\ UNCHANGED <<envelopeVars, userMaster, userSpares, process, mandates,
                 drawn>>

WriteUserMaster ==
  /\ tool.kind = "userSecret" /\ tool.at = "reseal"
  /\ userMaster' = tool.to
  /\ tool' = NoTool
  /\ UNCHANGED <<envelopeVars, sealedBy, content, userSpares, process,
                 mandates, drawn>>

\* The tool dies, or a step of it fails and it returns.
AbandonApply ==
  /\ tool # NoTool /\ tool' = NoTool
  /\ UNCHANGED <<envelopeVars, userSecretVars, process, mandates, drawn>>

MastersNext ==
  \/ \E kind \in Rotations : PrepareRotation(kind) \/ ExpireMandate(kind) \/ Apply(kind)
  \/ \E k \in SystemKeys : StoreSystemKey(k)
  \/ StopService \/ StartService
  \/ \E m \in spares : InstallSpare(m)
  \/ WriteRecoveryFile \/ BackupSecretsEnv \/ ResealSystemKeys \/ RewriteSecretsEnv
  \/ BackupUserMaster \/ ResealCredentials \/ WriteUserMaster
  \/ AbandonApply

MastersSpec == MastersInit /\ [][MastersNext]_mastersVars

-----------------------------------------------------------------------------
\* The values the variables range over: masters are numbers in the order they
\* are drawn.
MastersTypeOK ==
  /\ wrappedBy \in [SystemKeys -> 1..MaxMasters]
  /\ envMaster \in 1..MaxMasters /\ spares \subseteq 1..MaxMasters
  /\ process \in 0..MaxMasters
  /\ mandates \subseteq Rotations
  /\ tool \in [kind : Rotations \cup {"none"},
               at : {"idle", "drawn", "recovery", "backup", "reseal"},
               from : 0..MaxMasters, to : 0..MaxMasters]
  /\ drawn \in 2..MaxMasters
  /\ sealedBy \in [Credentials -> 1..MaxMasters]
  /\ content \in [Credentials -> Credentials]
  /\ userMaster \in 1..MaxMasters /\ userSpares \subseteq 1..MaxMasters

\* ApplyEnvelopeMasterRotation promises that the new master "can never be
\* lost": whatever step the tool dies at, and even if the service is started
\* while it runs, every row of system_keys is under a master some file holds.
MasterNeverLost == \A k \in SystemKeys : wrappedBy[k] \in {envMaster} \cup spares

\* ReencryptAllUserSecretWrappedRows "re-encrypts MFA credentials": after a
\* rotation each row still holds the secret of its own credential.
CredentialsKept == \A c \in Credentials : content[c] = c
=============================================================================
