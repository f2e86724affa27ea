--------------------------- MODULE Service_proofs ---------------------------
(***************************************************************************)
(* What holds of the machines that administrators, owners and the server's *)
(* own clock drive, and of the programs on a user's machine: of the master *)
(* keys for any system keys, any credentials and any number of rotations,  *)
(* wherever they are cut short; of the signing keys of the tokens for any  *)
(* number of versions and of tokens; of the shares of a file for any       *)
(* number of shares, visitors and owners, any limits and any length of the *)
(* file; of the command line client for any commands, users and token      *)
(* pairs; of recovery with any factors and codes; and of the roles of      *)
(* storage providers for any changes at one time.                          *)
(***************************************************************************)
EXTENDS MCService, Scheduler_proofs, Sums_proofs

-----------------------------------------------------------------------------
(***************************************************************************)
(* Masters: the inductive invariant                                        *)
(***************************************************************************)

MasterNumbers == 1 .. MaxMasters
Tool == [kind : Rotations \cup {"none"},
         at : {"idle", "drawn", "recovery", "backup", "reseal"},
         from : 0..MaxMasters, to : 0..MaxMasters]

\* A master in the tool that has drawn it is one of those drawn.
ToolTyped ==
  tool # NoTool => /\ tool.kind \in Rotations
                   /\ tool.to \in MasterNumbers /\ tool.from \in MasterNumbers

MastersTypes ==
  /\ wrappedBy \in [SystemKeys -> MasterNumbers] /\ envMaster \in MasterNumbers
  /\ sealedBy \in [Credentials -> MasterNumbers] /\ userMaster \in MasterNumbers
  /\ content \in [Credentials -> Credentials]
  /\ process \in 0 .. MaxMasters /\ drawn \in 2 .. MaxMasters
  /\ spares \subseteq MasterNumbers /\ userSpares \subseteq MasterNumbers
  /\ mandates \subseteq Rotations
  /\ tool \in Tool /\ ToolTyped

LEMMA NoToolTyped == NoTool \in Tool /\ NoTool.kind = "none"
  BY MastersAssumption DEF NoTool, Tool

LEMMA NumbersTyped ==
  /\ 1 \in MasterNumbers /\ 2 \in MasterNumbers
  /\ MasterNumbers \subseteq 0 .. MaxMasters
  /\ 0 \in 0 .. MaxMasters
  BY MastersAssumption DEF MasterNumbers

LEMMA InitMasters == MastersInit => MastersTypes
<1>1. SUFFICES ASSUME MastersInit
               PROVE  MastersTypes
  OBVIOUS
<1>2. /\ wrappedBy \in [SystemKeys -> MasterNumbers] /\ envMaster \in MasterNumbers
      /\ sealedBy \in [Credentials -> MasterNumbers] /\ userMaster \in MasterNumbers
      /\ content \in [Credentials -> Credentials]
      /\ process \in 0 .. MaxMasters /\ drawn \in 2 .. MaxMasters
  BY <1>1, NumbersTyped, MastersAssumption DEF MastersInit
<1>3. tool \in Tool /\ ToolTyped
  BY <1>1, NoToolTyped DEF MastersInit, ToolTyped
<1>4. QED BY <1>1, <1>2, <1>3 DEF MastersInit, MastersTypes

\* Where the tool goes on from.
LEMMA PassedTyped ==
  ASSUME MastersTypes,
         NEW at \in {"recovery", "backup", "reseal", "install"},
         InEnvelope(at), Passed(at)
  PROVE  /\ tool' \in Tool /\ ToolTyped'
         /\ tool # NoTool /\ tool.kind = "envelope"
         /\ tool.to \in MasterNumbers /\ tool.from \in MasterNumbers
<1>1. tool.kind = "envelope" /\ tool # NoTool
  BY NoToolTyped DEF InEnvelope
<1>2. tool.to \in MasterNumbers /\ tool.from \in MasterNumbers /\ tool \in Tool
  BY <1>1 DEF ToolTyped, MastersTypes, Tool
<1>3. CASE at = "install"
  BY <1>1, <1>2, <1>3, NoToolTyped DEF Passed, ToolTyped
<1>4. CASE at # "install"
  <2>1. tool' = [tool EXCEPT !.at = at]
    BY <1>4 DEF Passed
  <2>2. tool' \in Tool /\ tool'.kind = "envelope" /\ tool'.to = tool.to
        /\ tool'.from = tool.from
    BY <1>1, <1>2, <1>4, <2>1 DEF Tool
  <2>3. QED BY <1>1, <1>2, <2>2 DEF ToolTyped, Rotations
<1>5. QED BY <1>3, <1>4

LEMMA ApplyTyped ==
  ASSUME MastersTypes, NEW kind \in Rotations, Apply(kind)
  PROVE  /\ tool' \in Tool /\ ToolTyped' /\ drawn' \in 2 .. MaxMasters
         /\ tool'.kind = kind /\ tool'.at = "drawn"
<1>1. drawn + 1 \in MasterNumbers /\ drawn + 1 \in 2 .. MaxMasters
  BY MastersAssumption DEF Apply, MastersTypes, MasterNumbers
<1> DEFINE from == IF kind = "envelope" THEN envMaster ELSE userMaster
<1>2. from \in MasterNumbers
  BY DEF MastersTypes
<1> HIDE DEF from
<1>3. /\ tool' = [kind |-> kind, at |-> "drawn", to |-> drawn + 1, from |-> from]
      /\ drawn' = drawn + 1
  BY DEF Apply, from
<1>4. QED BY <1>1, <1>2, <1>3, NumbersTyped DEF ToolTyped, Tool

LEMMA StepMasters ==
  ASSUME MastersTypes, MastersNext
  PROVE  MastersTypes'
<1>1. ASSUME NEW kind \in Rotations, PrepareRotation(kind) \/ ExpireMandate(kind)
      PROVE  MastersTypes'
  BY <1>1 DEF MastersTypes, PrepareRotation, ExpireMandate, envelopeVars,
              userSecretVars, ToolTyped
<1>2. ASSUME NEW kind \in Rotations, Apply(kind)
      PROVE  MastersTypes'
  <2>1. UNCHANGED <<envelopeVars, userSecretVars, process>> /\ mandates' \subseteq mandates
    BY <1>2 DEF Apply
  <2>2. QED
    BY <1>2, <2>1, ApplyTyped DEF MastersTypes, envelopeVars, userSecretVars
<1>3. ASSUME NEW k \in SystemKeys, StoreSystemKey(k)
      PROVE  MastersTypes'
  <2>1. process \in MasterNumbers
    BY <1>3 DEF StoreSystemKey, MastersTypes, MasterNumbers
  <2>2. QED BY <1>3, <2>1 DEF MastersTypes, StoreSystemKey, userSecretVars, ToolTyped
<1>4. CASE StopService \/ StartService
  BY <1>4, NumbersTyped
  DEF MastersTypes, StopService, StartService, envelopeVars, userSecretVars, ToolTyped
<1>5. ASSUME NEW m \in spares, InstallSpare(m)
      PROVE  MastersTypes'
  BY <1>5 DEF MastersTypes, InstallSpare, userSecretVars, ToolTyped
<1>6. CASE WriteRecoveryFile
  <2>1. tool' \in Tool /\ ToolTyped' /\ tool.to \in MasterNumbers
    BY <1>6, PassedTyped DEF WriteRecoveryFile, MastersTypes
  <2>2. QED BY <1>6, <2>1 DEF MastersTypes, WriteRecoveryFile, userSecretVars
<1>7. CASE BackupSecretsEnv
  <2>1. tool' \in Tool /\ ToolTyped'
    BY <1>7, PassedTyped DEF BackupSecretsEnv, MastersTypes
  <2>2. QED BY <1>7, <2>1 DEF MastersTypes, BackupSecretsEnv, userSecretVars
<1>8. CASE ResealSystemKeys
  <2>1. tool' \in Tool /\ ToolTyped' /\ tool.to \in MasterNumbers
    BY <1>8, PassedTyped DEF ResealSystemKeys, MastersTypes
  <2>2. QED BY <1>8, <2>1 DEF MastersTypes, ResealSystemKeys, userSecretVars
<1>9. CASE RewriteSecretsEnv
  <2>1. tool' \in Tool /\ ToolTyped' /\ tool.to \in MasterNumbers
    BY <1>9, PassedTyped DEF RewriteSecretsEnv, MastersTypes
  <2>2. QED BY <1>9, <2>1 DEF MastersTypes, RewriteSecretsEnv, userSecretVars
<1>10. CASE BackupUserMaster
  BY <1>10, NoToolTyped
  DEF MastersTypes, BackupUserMaster, envelopeVars, ToolTyped, Tool, Rotations
<1>11. CASE ResealCredentials
  <2>1. tool # NoTool /\ tool.to \in MasterNumbers
    BY <1>11, NoToolTyped DEF MastersTypes, ResealCredentials, ToolTyped
  <2>2. tool' \in Tool /\ ToolTyped'
    BY <1>11, <2>1
    DEF MastersTypes, ResealCredentials, ToolTyped, Tool, Rotations
  <2>3. PICK last \in [Enrolled -> Methods] :
          content' = [c \in Credentials |-> content[<<c[1], last[c[1]]>>]]
    BY <1>11 DEF ResealCredentials
  <2>4. content' \in [Credentials -> Credentials]
    <3>1. ASSUME NEW c \in Credentials
          PROVE  <<c[1], last[c[1]]>> \in Credentials
      BY DEF Credentials
    <3>2. QED BY <2>3, <3>1 DEF MastersTypes
  <2>5. QED
    BY <1>11, <2>1, <2>2, <2>4 DEF MastersTypes, ResealCredentials, envelopeVars
<1>12. CASE WriteUserMaster
  <2>1. tool # NoTool /\ tool.to \in MasterNumbers
    BY <1>12, NoToolTyped DEF MastersTypes, WriteUserMaster, ToolTyped
  <2>2. QED
    BY <1>12, <2>1, NoToolTyped
    DEF MastersTypes, WriteUserMaster, envelopeVars, ToolTyped
<1>13. CASE AbandonApply
  BY <1>13, NoToolTyped
  DEF MastersTypes, AbandonApply, envelopeVars, userSecretVars, ToolTyped
<1>14. QED
  BY <1>1, <1>2, <1>3, <1>4, <1>5, <1>6, <1>7, <1>8, <1>9, <1>10, <1>11, <1>12, <1>13
  DEF MastersNext

-----------------------------------------------------------------------------
(***************************************************************************)
(* No master is lost                                                       *)
(***************************************************************************)

Held == {envMaster} \cup spares

\* The running service holds a master of some file, and a rotation has written
\* the new master, and then the old one, before it goes on.
WrittenFirst ==
  /\ process # 0 => process \in Held
  /\ tool.kind = "envelope" =>
       /\ tool.at \in {"recovery", "backup", "reseal"} => tool.to \in spares
       /\ tool.at \in {"backup", "reseal"} => envMaster \in spares

MastersInv == MastersTypes /\ MasterNeverLost /\ WrittenFirst

LEMMA StepOrder ==
  ASSUME NEW at \in {"idle", "drawn", "recovery", "backup", "reseal"}
  PROVE  /\ EnvelopeSteps(at) = "recovery" => at = "drawn"
         /\ EnvelopeSteps(at) = "backup" => at = "recovery"
         /\ EnvelopeSteps(at) = "reseal" => at = "backup"
         /\ EnvelopeSteps(at) = "install" => at = "reseal"
  BY DEF EnvelopeSteps

\* A step of a rotation as the tool sees it.
LEMMA PassedFields ==
  ASSUME MastersTypes, NEW at \in {"recovery", "backup", "reseal"},
         InEnvelope(at), Passed(at)
  PROVE  /\ tool'.kind = "envelope" /\ tool'.at = at /\ tool'.to = tool.to
         /\ tool.at \in {"idle", "drawn", "recovery", "backup", "reseal"}
  BY DEF MastersTypes, Tool, InEnvelope, Passed

\* A step that loses no file and moves no key or tool.
LEMMA HeldGrows ==
  ASSUME MastersInv, Held \subseteq Held', spares \subseteq spares',
         UNCHANGED <<wrappedBy, envMaster>>,
         process' \in {0, process, envMaster},
         tool' = tool \/ tool'.kind # "envelope" \/ tool'.at = "drawn"
  PROVE  MasterNeverLost' /\ WrittenFirst'
<1>1. MasterNeverLost'
  BY DEF MastersInv, MasterNeverLost, Held
<1>2. process' # 0 => process' \in Held'
  BY DEF MastersInv, WrittenFirst, Held
<1>3. tool'.kind = "envelope" =>
        /\ tool'.at \in {"recovery", "backup", "reseal"} => tool'.to \in spares'
        /\ tool'.at \in {"backup", "reseal"} => envMaster' \in spares'
  BY DEF MastersInv, WrittenFirst
<1>4. QED BY <1>1, <1>2, <1>3 DEF WrittenFirst

LEMMA StepKept ==
  ASSUME MastersInv, MastersNext
  PROVE  MasterNeverLost' /\ WrittenFirst'
<1>1. ASSUME NEW kind \in Rotations, PrepareRotation(kind) \/ ExpireMandate(kind)
      PROVE  MasterNeverLost' /\ WrittenFirst'
  BY <1>1, HeldGrows DEF PrepareRotation, ExpireMandate, envelopeVars, Held
<1>2. ASSUME NEW kind \in Rotations, Apply(kind)
      PROVE  MasterNeverLost' /\ WrittenFirst'
  <2>1. tool'.at = "drawn"
    BY <1>2, ApplyTyped DEF MastersInv
  <2>2. QED BY <1>2, <2>1, HeldGrows DEF Apply, envelopeVars, Held
<1>3. ASSUME NEW k \in SystemKeys, StoreSystemKey(k)
      PROVE  MasterNeverLost' /\ WrittenFirst'
  <2>1. process \in Held
    BY <1>3 DEF StoreSystemKey, MastersInv, WrittenFirst
  <2>2. wrappedBy \in [SystemKeys -> MasterNumbers]
    BY DEF MastersInv, MastersTypes
  <2>3. QED
    BY <1>3, <2>1, <2>2 DEF StoreSystemKey, MastersInv, MasterNeverLost,
                            WrittenFirst, Held
<1>4. CASE StopService \/ StartService
  BY <1>4, HeldGrows DEF StopService, StartService, envelopeVars, Held
<1>5. ASSUME NEW m \in spares, InstallSpare(m)
      PROVE  MasterNeverLost' /\ WrittenFirst'
  <2>1. tool.kind = "none"
    BY <1>5, NoToolTyped DEF InstallSpare
  <2>2. QED
    BY <1>5, <2>1 DEF InstallSpare, MasterNeverLost, WrittenFirst
<1>6. CASE WriteRecoveryFile
  <2>1. tool'.at = "recovery" /\ tool'.to = tool.to
    BY <1>6, PassedFields DEF WriteRecoveryFile, MastersInv
  <2>2. /\ spares' = spares \cup {tool.to}
        /\ UNCHANGED <<wrappedBy, envMaster, process>>
    BY <1>6 DEF WriteRecoveryFile
  <2>3. QED
    BY <2>1, <2>2 DEF MastersInv, MasterNeverLost, WrittenFirst, Held
<1>7. CASE BackupSecretsEnv
  <2>1. /\ tool.kind = "envelope" /\ tool.at = "recovery"
        /\ tool'.at = "backup" /\ tool'.to = tool.to
    BY <1>7, PassedFields, StepOrder DEF BackupSecretsEnv, InEnvelope, MastersInv
  <2>2. /\ spares' = spares \cup {envMaster}
        /\ UNCHANGED <<wrappedBy, envMaster, process>>
    BY <1>7 DEF BackupSecretsEnv
  <2>3. QED
    BY <2>1, <2>2 DEF MastersInv, MasterNeverLost, WrittenFirst, Held
<1>8. CASE ResealSystemKeys
  <2>1. /\ tool.kind = "envelope" /\ tool.at = "backup"
        /\ tool'.at = "reseal" /\ tool'.to = tool.to
    BY <1>8, PassedFields, StepOrder DEF ResealSystemKeys, InEnvelope, MastersInv
  <2>2. /\ wrappedBy' = [k \in SystemKeys |-> tool.to]
        /\ UNCHANGED <<envMaster, spares, process>>
    BY <1>8 DEF ResealSystemKeys
  <2>3. QED
    BY <2>1, <2>2 DEF MastersInv, MasterNeverLost, WrittenFirst, Held
<1>9. CASE RewriteSecretsEnv
  <2>1. /\ tool.kind = "envelope" /\ tool.at = "reseal"
        /\ tool'.kind = "none"
    BY <1>9, StepOrder, NoToolTyped
    DEF RewriteSecretsEnv, InEnvelope, Passed, MastersInv, MastersTypes, Tool
  <2>2. /\ envMaster' = tool.to
        /\ UNCHANGED <<wrappedBy, spares, process>>
    BY <1>9 DEF RewriteSecretsEnv
  <2>3. QED
    BY <2>1, <2>2 DEF MastersInv, MasterNeverLost, WrittenFirst, Held
<1>10. CASE BackupUserMaster
  <2>1. tool'.kind = "userSecret"
    BY <1>10 DEF BackupUserMaster, MastersInv, MastersTypes, Tool
  <2>2. QED BY <1>10, <2>1, HeldGrows DEF BackupUserMaster, envelopeVars, Held
<1>11. CASE ResealCredentials
  <2>1. tool'.kind = "userSecret"
    BY <1>11 DEF ResealCredentials, MastersInv, MastersTypes, Tool
  <2>2. QED BY <1>11, <2>1, HeldGrows DEF ResealCredentials, envelopeVars, Held
<1>12. CASE WriteUserMaster \/ AbandonApply
  <2>1. tool'.kind = "none"
    BY <1>12, NoToolTyped DEF WriteUserMaster, AbandonApply
  <2>2. QED
    BY <1>12, <2>1, HeldGrows DEF WriteUserMaster, AbandonApply, envelopeVars, Held
<1>13. QED
  BY <1>1, <1>2, <1>3, <1>4, <1>5, <1>6, <1>7, <1>8, <1>9, <1>10, <1>11, <1>12
  DEF MastersNext

LEMMA MastersInvariant == MastersSpec => []MastersInv
<1>1. MastersInit => MastersInv
  BY InitMasters, NoToolTyped
  DEF MastersInit, MastersInv, MasterNeverLost, WrittenFirst, Held
<1>2. ASSUME MastersInv, [MastersNext]_mastersVars
      PROVE  MastersInv'
  <2>1. CASE MastersNext
    BY <1>2, <2>1, StepMasters, StepKept DEF MastersInv
  <2>2. CASE UNCHANGED mastersVars
    BY <1>2, <2>2 DEF mastersVars, MastersInv, MastersTypes, ToolTyped,
                      MasterNeverLost, WrittenFirst, Held
  <2>3. QED BY <1>2, <2>1, <2>2
<1>3. QED BY <1>1, <1>2, PTL DEF MastersSpec

(* Every variable of the masters keeps its type.                           *)
THEOREM MastersTypeCorrect == MastersSpec => []MastersTypeOK
<1>1. MastersInv => MastersTypeOK
  BY DEF MastersInv, MastersTypes, MastersTypeOK, MasterNumbers, Tool
<1>2. QED BY <1>1, MastersInvariant, PTL

(* Wherever an envelope rotation is cut short, and whatever the service    *)
(* stores meanwhile, each system key is under a master some file holds     *)
(* (auth/envelope_rotation_apply.go).                                      *)
THEOREM MasterKept == MastersSpec => []MasterNeverLost
<1>1. MastersInv => MasterNeverLost
  BY DEF MastersInv
<1>2. QED BY <1>1, MastersInvariant, PTL

-----------------------------------------------------------------------------
(***************************************************************************)
(* SigningKeys: versions and rings                                         *)
(***************************************************************************)

LEMMA MaxIsGreatest ==
  ASSUME NEW S \in SUBSET Versions, S # {}
  PROVE  Max(S) \in S /\ \A s \in S : s <= Max(S)
<1>1. MaxVersion \in Nat /\ Versions \subseteq 0 .. MaxVersion
  BY KeyAssumption DEF Versions
<1>2. \E m \in S : \A s \in S : s <= m
  BY <1>1, GreatestExists
<1>3. \E m \in S : \A s \in S : m >= s
  BY <1>1, <1>2
<1>4. Max(S) \in S /\ \A s \in S : Max(S) >= s
  BY <1>3 DEF Max
<1>5. QED BY <1>1, <1>4

\* The seeds stored for a tier.
SeedsOf(t) == {keyRow[t][v] : v \in Stored(t)}

LEMMA NextIsNew ==
  ASSUME NEW t \in KeyTiers, NextVersion(t) \in Versions
  PROVE  keyRow[t][NextVersion(t)] = 0
<1>1. Stored(t) \in SUBSET Versions
  BY DEF Stored
<1>2. NextVersion(t) \notin Stored(t)
  <2>1. CASE Stored(t) = {}
    BY <2>1
  <2>2. CASE Stored(t) # {}
    <3>1. /\ Max(Stored(t)) \in Versions
          /\ \A s \in Stored(t) : s <= Max(Stored(t))
      BY <1>1, <2>2, MaxIsGreatest
    <3>2. Max(Stored(t)) \in Nat
      BY <3>1, KeyAssumption DEF Versions
    <3>3. Max(Stored(t)) + 1 \notin Stored(t)
      BY <3>1, <3>2
    <3>4. QED BY <2>2, <3>3 DEF NextVersion
  <2>3. QED BY <2>1, <2>2
<1>3. QED BY <1>2 DEF Stored

\* A ring that signs with one of the keys it verifies, all of them stored.
Good(t, r) == r.signing \in r.verify /\ r.verify = SeedsOf(t)

LEMMA RingIsGood ==
  ASSUME KeysTypeOK, NEW t \in KeyTiers, Stored(t) # {}
  PROVE  Good(t, RingOf(t)) /\ RingOf(t) \in RingType
<1>1. Stored(t) \in SUBSET Versions
  BY DEF Stored
<1>2. ActiveVersion(t) \in Stored(t)
  BY <1>1, MaxIsGreatest DEF ActiveVersion
<1>3. /\ keyRow[t][ActiveVersion(t)] \in SeedsOf(t)
      /\ keyRow[t][ActiveVersion(t)] \in 0 .. MaxSeed
      /\ SeedsOf(t) \subseteq 0 .. MaxSeed /\ ActiveVersion(t) \in 0 .. MaxVersion
  <2>1. keyRow[t] \in [Versions -> 0 .. MaxSeed]
    BY DEF KeysTypeOK
  <2>2. \A v \in Stored(t) : keyRow[t][v] \in 0 .. MaxSeed
    BY <1>1, <2>1
  <2>3. ActiveVersion(t) \in Versions /\ Versions \subseteq 0 .. MaxVersion
    BY <1>1, <1>2, KeyAssumption DEF Versions
  <2>4. QED BY <1>2, <2>2, <2>3 DEF SeedsOf
<1>4. RingOf(t) = [active |-> ActiveVersion(t),
                   signing |-> keyRow[t][ActiveVersion(t)], verify |-> SeedsOf(t)]
  BY DEF RingOf, SeedsOf
<1>5. QED BY <1>3, <1>4 DEF Good, RingType

-----------------------------------------------------------------------------
(***************************************************************************)
(* SigningKeys: the inductive invariant, for one request at a time         *)
(***************************************************************************)
OneKeeper == \A k, l \in Keepers : k = l

\* A seed whose row is there or was retired by hand.
Known(t, s) == s \in SeedsOf(t) \/ <<t, s>> \in retired

RingsKnown ==
  \A t \in KeyTiers : /\ ring[t].signing \in ring[t].verify
                      /\ \A s \in ring[t].verify : s # 0 /\ Known(t, s)

\* What a request that rotates or retires goes by.
KeeperHolds(k) ==
  /\ keeping[k].at \in {"seed", "pointer", "drop"} => keeping[k].version \in Versions
  /\ keeping[k].at = "seed" => keyRow[keeping[k].tier][keeping[k].version] = 0
  /\ keeping[k].at \in {"loadFull", "install"} => Good("temp", keeping[k].loaded["temp"])
  /\ keeping[k].at = "install" => Good("full", keeping[k].loaded["full"])

KeysInv ==
  /\ KeysTypeOK
  /\ RingsKnown
  /\ \A k \in Keepers : KeeperHolds(k)
  /\ IssuedStillVerified

LEMMA SeedsNotZero ==
  ASSUME NEW t \in KeyTiers
  PROVE  0 \notin SeedsOf(t)
  BY DEF SeedsOf, Stored

LEMMA InitKeys == KeysInit => KeysInv
<1>1. SUFFICES ASSUME KeysInit
               PROVE  KeysInv
  OBVIOUS
<1>2. /\ 1 \in Versions /\ 0 \in 0 .. MaxSeed /\ 1 \in 0 .. MaxSeed /\ 2 \in 0 .. MaxSeed
      /\ 0 \in 0 .. MaxVersion /\ 2 \in 2 .. MaxSeed
  BY KeyAssumption DEF Versions
<1>3. keyRow \in [KeyTiers -> [Versions -> 0 .. MaxSeed]]
  BY <1>1, <1>2 DEF KeysInit
<1>4. NoRing \in RingType
  BY <1>2 DEF NoRing, RingType
<1>5. NoKeep.at = "idle" /\ NoKeep \in [at : {"idle", "seed", "pointer", "list", "drop",
                                    "loadTemp", "loadFull", "install"},
                              tier : KeyTiers, version : 0..MaxVersion,
                              loaded : [KeyTiers -> RingType]]
  BY <1>2, <1>4 DEF NoKeep, KeyTiers
<1>6. ASSUME NEW t \in KeyTiers
      PROVE  Stored(t) = {1} /\ ring[t] = RingOf(t) /\ ring[t] \in RingType
             /\ Good(t, ring[t])
  <2>1. keyRow[t][1] # 0 /\ \A v \in Versions : v # 1 => keyRow[t][v] = 0
    BY <1>1, <1>2 DEF KeysInit
  <2>2. Stored(t) = {1}
    BY <1>2, <2>1 DEF Stored
  <2>3. pointer[t] = 0 /\ ring[t] = RingOf(t)
    BY <1>1 DEF KeysInit
  <2>4. Max(Stored(t)) = 1
    BY <1>2, <2>2, MaxIsGreatest
  <2>5. ActiveVersion(t) = 1
    BY <2>2, <2>3, <2>4 DEF ActiveVersion
  <2>6. keyRow[t][1] \in 0 .. MaxSeed /\ SeedsOf(t) = {keyRow[t][1]}
        /\ 1 \in 0 .. MaxVersion
    BY <1>2, <1>3, <2>2, KeyAssumption DEF SeedsOf
  <2>7. RingOf(t) = [active |-> 1, signing |-> keyRow[t][1], verify |-> SeedsOf(t)]
    BY <2>5 DEF RingOf, SeedsOf
  <2>8. QED BY <2>2, <2>3, <2>6, <2>7 DEF RingType, Good
<1>7. ring \in [KeyTiers -> RingType]
  BY <1>1, <1>6 DEF KeysInit
<1>8. KeysTypeOK
  BY <1>1, <1>2, <1>3, <1>5, <1>7 DEF KeysInit, KeysTypeOK
<1>9. RingsKnown
  BY <1>6, SeedsNotZero DEF RingsKnown, Known, Good
<1>10. \A k \in Keepers : KeeperHolds(k)
  BY <1>1, <1>5 DEF KeysInit, KeeperHolds
<1>11. IssuedStillVerified
  BY <1>1 DEF KeysInit, IssuedStillVerified
<1>12. QED BY <1>8, <1>9, <1>10, <1>11 DEF KeysInv

-----------------------------------------------------------------------------
(* SigningKeys: the steps.                                                 *)

KeepRow == [at : {"idle", "seed", "pointer", "list", "drop", "loadTemp", "loadFull",
                  "install"},
            tier : KeyTiers, version : 0..MaxVersion, loaded : [KeyTiers -> RingType]]

LEMMA NoKeepIsRow == NoKeep \in KeepRow /\ NoKeep.at = "idle" /\ NoKeep.tier = "temp"
<1>1. 0 \in 0 .. MaxVersion /\ 0 \in 0 .. MaxSeed
  BY KeyAssumption
<1>2. NoRing \in RingType
  BY <1>1 DEF NoRing, RingType
<1>3. QED BY <1>1, <1>2 DEF NoKeep, KeepRow, KeyTiers

\* A request moves on and leaves rows, rings and tokens alone.
LEMMA MoveKeeps ==
  ASSUME KeysInv, NEW k \in Keepers, NEW w \in KeepRow,
         keeping' = [keeping EXCEPT ![k] = w],
         UNCHANGED <<keyRow, ring, seeds, live, retired>>,
         pointer' \in [KeyTiers -> 0 .. MaxVersion],
         w.at \in {"seed", "pointer", "drop"} => w.version \in Versions,
         w.at = "seed" => keyRow[w.tier][w.version] = 0,
         w.at \notin {"loadFull", "install"}
  PROVE  KeysInv'
<1>1. keeping' \in [Keepers -> KeepRow]
  BY DEF KeysInv, KeysTypeOK, KeepRow
<1>2. KeysTypeOK'
  BY <1>1 DEF KeysInv, KeysTypeOK, KeepRow
<1>3. \A t \in KeyTiers : SeedsOf(t)' = SeedsOf(t)
  BY DEF SeedsOf, Stored
<1>4. RingsKnown'
  BY <1>3 DEF KeysInv, RingsKnown, Known
<1>5. keeping'[k] = w /\ \A l \in Keepers : l # k => keeping'[l] = keeping[l]
  BY DEF KeysInv, KeysTypeOK
<1>6. ASSUME NEW l \in Keepers
      PROVE  KeeperHolds(l)'
  <2>1. CASE l = k
    BY <1>5, <2>1 DEF KeeperHolds
  <2>2. CASE l # k
    <3>1. KeeperHolds(l) /\ keeping'[l] = keeping[l]
      BY <1>5, <2>2 DEF KeysInv
    <3>2. "temp" \in KeyTiers /\ "full" \in KeyTiers
      BY DEF KeyTiers
    <3>3. QED BY <1>3, <3>1, <3>2 DEF KeeperHolds, Good
  <2>3. QED BY <2>1, <2>2
<1>7. IssuedStillVerified'
  BY DEF KeysInv, IssuedStillVerified
<1>8. QED BY <1>2, <1>4, <1>6, <1>7 DEF KeysInv

LEMMA KeeperIsRow ==
  ASSUME KeysInv, NEW k \in Keepers
  PROVE  /\ keeping[k] \in KeepRow /\ keeping[k].tier \in KeyTiers
         /\ keeping[k].version \in 0 .. MaxVersion
         /\ keeping[k].loaded \in [KeyTiers -> RingType]
         /\ KeeperHolds(k)
  BY DEF KeysInv, KeysTypeOK, KeepRow

LEMMA StepsMove ==
  ASSUME KeysInv, NEW k \in Keepers,
         \/ Rotate(k) \/ ListFull(k) \/ StorePointer(k) \/ GiveUpKeys(k)
         \/ \E v \in Versions : Retire(k, v)
  PROVE  KeysInv'
<1>0. keeping[k] \in KeepRow /\ KeeperHolds(k)
  BY KeeperIsRow
<1>1. Versions \subseteq 0 .. MaxVersion
  BY KeyAssumption DEF Versions
<1>2. pointer \in [KeyTiers -> 0 .. MaxVersion]
  BY DEF KeysInv, KeysTypeOK
<1>3. CASE Rotate(k)
  <2> DEFINE n == NextVersion("temp")
  <2>1. n \in Versions /\ keyRow["temp"][n] = 0
    BY <1>3, NextIsNew DEF Rotate, KeyTiers
  <2> HIDE DEF n
  <2> DEFINE w == [NoKeep EXCEPT !.at = "seed", !.version = n]
  <2>2. /\ w \in KeepRow /\ w.at = "seed" /\ w.tier = "temp" /\ w.version = n
    BY <1>1, <2>1, NoKeepIsRow DEF KeepRow
  <2>3. /\ keeping' = [keeping EXCEPT ![k] = w]
        /\ UNCHANGED <<keyRow, pointer, ring, seeds, live, retired>>
    BY <1>3 DEF Rotate, n
  <2> HIDE DEF w
  <2>4. QED BY <1>2, <2>1, <2>2, <2>3, MoveKeeps
<1>4. CASE ListFull(k)
  <2> DEFINE n == NextVersion("full")
  <2>1. n \in Versions /\ keyRow["full"][n] = 0
    BY <1>4, NextIsNew DEF ListFull, KeyTiers
  <2> HIDE DEF n
  <2> DEFINE w == [keeping[k] EXCEPT !.at = "seed", !.tier = "full", !.version = n]
  <2>2. /\ w \in KeepRow /\ w.at = "seed" /\ w.tier = "full" /\ w.version = n
    BY <1>0, <1>1, <2>1 DEF KeepRow, KeyTiers
  <2>3. /\ keeping' = [keeping EXCEPT ![k] = w]
        /\ UNCHANGED <<keyRow, pointer, ring, seeds, live, retired>>
    BY <1>4 DEF ListFull, n, KeysInv, KeysTypeOK
  <2> HIDE DEF w
  <2>4. QED BY <1>2, <2>1, <2>2, <2>3, MoveKeeps
<1>5. CASE StorePointer(k)
  <2> DEFINE at == IF keeping[k].tier = "temp" THEN "list" ELSE "loadTemp"
             w == [keeping[k] EXCEPT !.at = at]
  <2>1. w \in KeepRow /\ w.at \in {"list", "loadTemp"}
    BY <1>0 DEF KeepRow
  <2>2. keeping[k].version \in 0 .. MaxVersion
    BY KeeperIsRow
  <2>3. /\ keeping' = [keeping EXCEPT ![k] = w]
        /\ pointer' \in [KeyTiers -> 0 .. MaxVersion]
        /\ UNCHANGED <<keyRow, ring, seeds, live, retired>>
    BY <1>2, <1>5, <2>2 DEF StorePointer, Keep, KeysInv, KeysTypeOK
  <2> HIDE DEF w
  <2>4. QED BY <2>1, <2>3, MoveKeeps
<1>6. CASE GiveUpKeys(k)
  BY <1>2, <1>6, NoKeepIsRow, MoveKeeps DEF GiveUpKeys
<1>7. ASSUME NEW v \in Versions, Retire(k, v)
      PROVE  KeysInv'
  <2> DEFINE w == [NoKeep EXCEPT !.at = "drop", !.version = v]
  <2>1. w \in KeepRow /\ w.at = "drop" /\ w.version = v
    BY <1>1, NoKeepIsRow DEF KeepRow
  <2>2. /\ keeping' = [keeping EXCEPT ![k] = w]
        /\ UNCHANGED <<keyRow, pointer, ring, seeds, live, retired>>
    BY <1>7 DEF Retire
  <2> HIDE DEF w
  <2>3. QED BY <1>2, <2>1, <2>2, MoveKeeps
<1>8. QED BY <1>3, <1>4, <1>5, <1>6, <1>7

\* A seed is stored in an empty row: the tier's seeds grow by it.
LEMMA SeedIsAdded ==
  ASSUME KeysInv, NEW t \in KeyTiers, NEW v \in Versions, NEW s \in 1 .. MaxSeed,
         keyRow[t][v] = 0, keyRow' = [keyRow EXCEPT ![t][v] = s]
  PROVE  /\ keyRow' \in [KeyTiers -> [Versions -> 0 .. MaxSeed]]
         /\ SeedsOf(t)' = SeedsOf(t) \cup {s}
         /\ \A u \in KeyTiers : u # t => SeedsOf(u)' = SeedsOf(u)
<1>1. /\ keyRow \in [KeyTiers -> [Versions -> 0 .. MaxSeed]] /\ s \in 0 .. MaxSeed /\ s # 0
      /\ keyRow[t] \in [Versions -> 0 .. MaxSeed]
  BY KeyAssumption DEF KeysInv, KeysTypeOK
<1>2. /\ keyRow'[t] = [keyRow[t] EXCEPT ![v] = s]
      /\ \A u \in KeyTiers : u # t => keyRow'[u] = keyRow[u]
  BY <1>1
<1>3. keyRow'[t][v] = s /\ \A x \in Versions : x # v => keyRow'[t][x] = keyRow[t][x]
  BY <1>1, <1>2
<1>4. keyRow' \in [KeyTiers -> [Versions -> 0 .. MaxSeed]]
  BY <1>1
<1>5. Stored(t)' = Stored(t) \cup {v} /\ v \notin Stored(t)
  BY <1>1, <1>3 DEF Stored
<1>6. \A x \in Stored(t) : x \in Versions /\ x # v /\ keyRow'[t][x] = keyRow[t][x]
  BY <1>3, <1>5 DEF Stored
<1>7. SeedsOf(t)' = SeedsOf(t) \cup {s}
  BY <1>3, <1>5, <1>6 DEF SeedsOf
<1>8. \A u \in KeyTiers : u # t => SeedsOf(u)' = SeedsOf(u)
  BY <1>2 DEF SeedsOf, Stored
<1>9. QED BY <1>4, <1>7, <1>8

\* Rows are added to or retired, nothing a ring holds becomes unknown.
LEMMA RowsStep ==
  ASSUME KeysInv, OneKeeper, NEW k \in Keepers, NEW w \in KeepRow,
         keeping' = [keeping EXCEPT ![k] = w],
         UNCHANGED <<pointer, ring, live>>,
         keyRow' \in [KeyTiers -> [Versions -> 0 .. MaxSeed]],
         seeds' \in 2 .. MaxSeed,
         retired' \subseteq KeyTiers \X (0 .. MaxSeed), retired \subseteq retired',
         \A t \in KeyTiers : \A s \in SeedsOf(t) : Known(t, s)',
         w.at \in {"seed", "pointer", "drop"} => w.version \in Versions,
         w.at # "seed",
         w.at \in {"loadFull", "install"} => Good("temp", w.loaded["temp"])',
         w.at = "install" => Good("full", w.loaded["full"])'
  PROVE  KeysInv'
<1>1. keeping' \in [Keepers -> KeepRow]
  BY DEF KeysInv, KeysTypeOK, KeepRow
<1>2. KeysTypeOK'
  BY <1>1 DEF KeysInv, KeysTypeOK, KeepRow
<1>3. ASSUME NEW t \in KeyTiers, NEW s, Known(t, s)
      PROVE  Known(t, s)'
  BY <1>3 DEF Known
<1>4. RingsKnown'
  BY <1>3 DEF KeysInv, RingsKnown
<1>5. ASSUME NEW l \in Keepers
      PROVE  KeeperHolds(l)'
  <2>1. l = k /\ keeping'[l] = w
    BY DEF OneKeeper, KeysInv, KeysTypeOK
  <2>2. QED BY <2>1 DEF KeeperHolds, Good
<1>6. IssuedStillVerified'
  BY DEF KeysInv, IssuedStillVerified
<1>7. QED BY <1>2, <1>4, <1>5, <1>6 DEF KeysInv

LEMMA SeedIsStored ==
  ASSUME KeysInv, OneKeeper, NEW k \in Keepers, StoreSeed(k)
  PROVE  KeysInv'
<1>0. keeping[k] \in KeepRow /\ KeeperHolds(k)
  BY KeeperIsRow
<1>1. PICK t \in KeyTiers : t = keeping[k].tier
  BY KeeperIsRow
<1>2. PICK v \in Versions : v = keeping[k].version
  BY <1>0 DEF StoreSeed, KeeperHolds
<1>3. PICK s \in 1 .. MaxSeed : s = seeds + 1 /\ seeds' = s
  BY KeyAssumption DEF StoreSeed, KeysInv, KeysTypeOK
<1>4. PICK w \in KeepRow : w = [keeping[k] EXCEPT !.at = "pointer"]
  BY <1>0 DEF KeepRow
<1>5. /\ keyRow' = [keyRow EXCEPT ![t][v] = s]
      /\ keeping' = [keeping EXCEPT ![k] = w]
      /\ UNCHANGED <<pointer, ring, live, retired>>
      /\ w.at = "pointer" /\ w.version = v
      /\ keyRow[t][v] = 0
  BY <1>0, <1>1, <1>2, <1>3, <1>4 DEF StoreSeed, Keep, KeysInv, KeysTypeOK, KeeperHolds, KeepRow
<1>6. /\ keyRow' \in [KeyTiers -> [Versions -> 0 .. MaxSeed]]
      /\ SeedsOf(t)' = SeedsOf(t) \cup {s}
      /\ \A u \in KeyTiers : u # t => SeedsOf(u)' = SeedsOf(u)
  BY <1>5, SeedIsAdded
<1>7. \A u \in KeyTiers : \A x \in SeedsOf(u) : Known(u, x)'
  BY <1>6 DEF Known
<1>8. /\ retired' \subseteq KeyTiers \X (0 .. MaxSeed) /\ retired \subseteq retired'
      /\ seeds' \in 2 .. MaxSeed
  BY <1>3, <1>5, KeyAssumption DEF KeysInv, KeysTypeOK
<1>9. QED BY <1>5, <1>6, <1>7, <1>8, RowsStep

LEMMA RowIsDropped ==
  ASSUME KeysInv, OneKeeper, NEW k \in Keepers, DropRow(k)
  PROVE  KeysInv'
<1>0. keeping[k] \in KeepRow /\ KeeperHolds(k)
  BY KeeperIsRow
<1>1. PICK t \in KeyTiers : t = keeping[k].tier
  BY KeeperIsRow
<1>2. PICK v \in Versions : v = keeping[k].version
  BY <1>0 DEF DropRow, KeeperHolds
<1> DEFINE at == IF t = "temp" THEN "drop" ELSE "loadTemp"
<1> HIDE DEF at
<1>30. at \in {"drop", "loadTemp"}
  BY DEF at
<1>31. [keeping[k] EXCEPT !.tier = "full", !.at = at] \in KeepRow
  BY <1>0, <1>30 DEF KeepRow, KeyTiers
<1>3. PICK w \in KeepRow : w = [keeping[k] EXCEPT !.tier = "full", !.at = at]
  BY <1>31
<1>4. /\ keyRow' = [keyRow EXCEPT ![t][v] = 0]
      /\ retired' = retired \cup {<<t, keyRow[t][v]>>}
      /\ keeping' = [keeping EXCEPT ![k] = w]
      /\ UNCHANGED <<pointer, ring, seeds, live>>
      /\ w.at \in {"drop", "loadTemp"} /\ w.version = v
  <2>1. w.at \in {"drop", "loadTemp"} /\ w.version = v
    BY <1>0, <1>2, <1>3, <1>30 DEF KeepRow
  <2>2. /\ keyRow' = [keyRow EXCEPT ![t][v] = 0]
        /\ retired' = retired \cup {<<t, keyRow[t][v]>>}
        /\ UNCHANGED <<pointer, ring, seeds, live>>
    BY <1>1, <1>2 DEF DropRow
  <2>3. keeping' = [keeping EXCEPT ![k] = w]
    BY <1>1, <1>3 DEF DropRow, KeysInv, KeysTypeOK, at
  <2>4. QED BY <2>1, <2>2, <2>3
<1>5. /\ keyRow \in [KeyTiers -> [Versions -> 0 .. MaxSeed]] /\ 0 \in 0 .. MaxSeed
      /\ seeds \in 2 .. MaxSeed
      /\ keyRow[t] \in [Versions -> 0 .. MaxSeed]
      /\ retired \subseteq KeyTiers \X (0 .. MaxSeed)
  BY <1>1, KeyAssumption DEF KeysInv, KeysTypeOK
<1>6. /\ keyRow' \in [KeyTiers -> [Versions -> 0 .. MaxSeed]]
      /\ \A u \in KeyTiers, x \in Versions :
           keyRow'[u][x] = (IF u = t /\ x = v THEN 0 ELSE keyRow[u][x])
  BY <1>1, <1>2, <1>4, <1>5
<1>7. keyRow[t][v] \in 0 .. MaxSeed
  BY <1>2, <1>5
<1>8. retired' \subseteq KeyTiers \X (0 .. MaxSeed) /\ retired \subseteq retired'
  BY <1>1, <1>4, <1>5, <1>7
<1>9. ASSUME NEW u \in KeyTiers, NEW s \in SeedsOf(u)
      PROVE  Known(u, s)'
  <2>1. PICK x \in Stored(u) : s = keyRow[u][x]
    BY DEF SeedsOf
  <2>2. x \in Versions /\ keyRow[u][x] # 0
    BY DEF Stored
  <2>3. CASE u = t /\ x = v
    BY <1>4, <2>1, <2>3 DEF Known
  <2>4. CASE ~ (u = t /\ x = v)
    <3>0. PICK y : y = s
      OBVIOUS
    <3>1. keyRow'[u][x] = y /\ y # 0
      BY <1>6, <2>1, <2>2, <2>4, <3>0
    <3>2. x \in Stored(u)'
      BY <2>2, <3>1 DEF Stored
    <3>3. y \in SeedsOf(u)'
      BY <3>1, <3>2 DEF SeedsOf
    <3>4. QED BY <3>0, <3>3 DEF Known
  <2>5. QED BY <2>3, <2>4
<1>10. QED BY <1>4, <1>5, <1>6, <1>8, <1>9, RowsStep

\* A tier is loaded: the ring is of what is stored, a fresh seed included.
LEMMA RingIsLoaded ==
  ASSUME KeysInv, NEW k \in Keepers, NEW t \in KeyTiers, Load(k, t)
  PROVE  \E r \in RingType :
           /\ Good(t, r)'
           /\ keeping' = [keeping EXCEPT
                ![k].loaded[t] = r, ![k].at = IF t = "temp" THEN "loadFull" ELSE "install"]
           /\ keyRow' \in [KeyTiers -> [Versions -> 0 .. MaxSeed]]
           /\ seeds' \in 2 .. MaxSeed
           /\ \A u \in KeyTiers : SeedsOf(u) \subseteq SeedsOf(u)'
           /\ \A u \in KeyTiers : u # t => SeedsOf(u)' = SeedsOf(u)
<1>1. /\ KeysTypeOK /\ seeds \in 2 .. MaxSeed
      /\ keyRow \in [KeyTiers -> [Versions -> 0 .. MaxSeed]]
  BY DEF KeysInv, KeysTypeOK
<1>2. CASE Stored(t) # {}
  <2>1. PICK r \in RingType : r = RingOf(t) /\ Good(t, r)
    BY <1>1, <1>2, RingIsGood
  <2>2. keyRow' = keyRow /\ seeds' = seeds
    BY <1>2 DEF Load
  <2>3. \A u \in KeyTiers : SeedsOf(u)' = SeedsOf(u)
    BY <2>2 DEF SeedsOf, Stored
  <2>4. Good(t, r)'
    BY <2>1, <2>3 DEF Good
  <2>5. keeping' = [keeping EXCEPT
                ![k].loaded[t] = r, ![k].at = IF t = "temp" THEN "loadFull" ELSE "install"]
    BY <1>2, <2>1 DEF Load
  <2>6. QED BY <1>1, <2>2, <2>3, <2>4, <2>5
<1>3. CASE Stored(t) = {}
  <2>1. PICK s \in 1 .. MaxSeed : s = seeds + 1 /\ seeds' = s
    BY <1>1, <1>3, KeyAssumption DEF Load
  <2>2. 1 \in Versions /\ keyRow[t][1] = 0
    BY <1>3, KeyAssumption DEF Stored, Versions
  <2>3. keyRow' = [keyRow EXCEPT ![t][1] = s]
    BY <1>3, <2>1 DEF Load
  <2>4. /\ keyRow' \in [KeyTiers -> [Versions -> 0 .. MaxSeed]]
        /\ SeedsOf(t)' = SeedsOf(t) \cup {s}
        /\ \A u \in KeyTiers : u # t => SeedsOf(u)' = SeedsOf(u)
    BY <2>2, <2>3, SeedIsAdded
  <2>5. SeedsOf(t) = {}
    BY <1>3 DEF SeedsOf
  <2>6. PICK r : r = [active |-> 1, signing |-> s, verify |-> {s}]
    OBVIOUS
  <2>7. r \in RingType
    BY <2>6, KeyAssumption DEF RingType
  <2>8. r.signing = s /\ r.verify = {s}
    BY <2>6
  <2>9. Good(t, r)'
    BY <2>4, <2>5, <2>8 DEF Good
  <2>10. keeping' = [keeping EXCEPT
                ![k].loaded[t] = r, ![k].at = IF t = "temp" THEN "loadFull" ELSE "install"]
    BY <1>3, <2>1, <2>6 DEF Load
  <2>11. seeds' \in 2 .. MaxSeed /\ \A u \in KeyTiers : SeedsOf(u) \subseteq SeedsOf(u)'
    BY <1>1, <2>1, <2>4
  <2>12. QED BY <2>4, <2>7, <2>9, <2>10, <2>11
<1>4. QED BY <1>2, <1>3

LEMMA LoadKeeps ==
  ASSUME KeysInv, OneKeeper, NEW k \in Keepers, LoadTemp(k) \/ LoadFull(k)
  PROVE  KeysInv'
<1>1. PICK t \in KeyTiers : /\ Load(k, t)
                            /\ \/ t = "temp" /\ keeping[k].at = "loadTemp"
                               \/ t = "full" /\ keeping[k].at = "loadFull"
  BY DEF LoadTemp, LoadFull, KeyTiers
<1> DEFINE at == IF t = "temp" THEN "loadFull" ELSE "install"
<1>2. PICK r \in RingType :
           /\ Good(t, r)'
           /\ keeping' = [keeping EXCEPT ![k].loaded[t] = r, ![k].at = at]
           /\ keyRow' \in [KeyTiers -> [Versions -> 0 .. MaxSeed]]
           /\ seeds' \in 2 .. MaxSeed
           /\ \A u \in KeyTiers : SeedsOf(u) \subseteq SeedsOf(u)'
           /\ \A u \in KeyTiers : u # t => SeedsOf(u)' = SeedsOf(u)
  BY <1>1, RingIsLoaded
<1>3. /\ keeping[k] \in KeepRow /\ KeeperHolds(k)
      /\ keeping[k].loaded \in [KeyTiers -> RingType]
  BY KeeperIsRow
<1>4. PICK rings \in [KeyTiers -> RingType] : rings = [keeping[k].loaded EXCEPT ![t] = r]
  BY <1>2, <1>3
<1>5. at \in {"loadFull", "install"}
  OBVIOUS
<1>6. keeping' = [keeping EXCEPT ![k] = [keeping[k] EXCEPT !.loaded = rings, !.at = at]]
  BY <1>2, <1>4 DEF KeysInv, KeysTypeOK
<1>7. [keeping[k] EXCEPT !.loaded = rings, !.at = at] \in KeepRow
  <2> HIDE DEF at
  <2> QED BY <1>3, <1>4, <1>5 DEF KeepRow
<1>8. PICK w \in KeepRow : w = [keeping[k] EXCEPT !.loaded = rings, !.at = at]
  BY <1>7
<1>9. w.loaded = rings /\ w.at = at
  BY <1>3, <1>8 DEF KeepRow
<1>10. rings[t] = r /\ \A u \in KeyTiers : u # t => rings[u] = keeping[k].loaded[u]
  BY <1>3, <1>4
<1>11. "temp" \in KeyTiers /\ "full" \in KeyTiers
  BY DEF KeyTiers
<1>12. Good("temp", w.loaded["temp"])' /\ (t = "full" => Good("full", w.loaded["full"])')
  <2>1. CASE t = "temp"
    BY <1>2, <1>9, <1>10, <2>1
  <2>2. CASE t = "full"
    <3>1. Good("full", w.loaded["full"])'
      BY <1>2, <1>9, <1>10, <2>2
    <3>2. keeping[k].at = "loadFull"
      BY <1>1, <2>2
    <3>3. Good("temp", keeping[k].loaded["temp"])
      BY <1>3, <3>2 DEF KeeperHolds
    <3>4. w.loaded["temp"] = keeping[k].loaded["temp"]
      BY <1>9, <1>10, <1>11, <2>2
    <3>5. Good("temp", w.loaded["temp"])
      BY <3>3, <3>4
    <3>6. SeedsOf("temp")' = SeedsOf("temp")
      BY <1>2, <1>11, <2>2
    <3>7. Good("temp", w.loaded["temp"])'
      BY <3>5, <3>6 DEF Good
    <3>8. QED BY <3>1, <3>7
  <2>3. QED BY <1>1, <2>1, <2>2
<1>13. UNCHANGED <<pointer, ring, live, retired>>
  BY <1>1 DEF Load
<1>14. /\ retired' \subseteq KeyTiers \X (0 .. MaxSeed) /\ retired \subseteq retired'
  BY <1>13 DEF KeysInv, KeysTypeOK
<1>15. \A u \in KeyTiers : \A s \in SeedsOf(u) : Known(u, s)'
  BY <1>2 DEF Known
<1>16. keeping' = [keeping EXCEPT ![k] = w]
  BY <1>6, <1>8
<1>17. w.at = "install" => t = "full"
  BY <1>1, <1>9
<1>18. w.at \notin {"seed", "pointer", "drop"}
  BY <1>5, <1>9
<1>19. QED BY <1>2, <1>12, <1>13, <1>14, <1>15, <1>16, <1>17, <1>18, RowsStep

\* Rings of what is stored replace those in memory: a live token's key is
\* among them or was retired.
LEMMA RingsReplaced ==
  ASSUME KeysInv, UNCHANGED <<keyRow, pointer, seeds, live, retired>>,
         ring' \in [KeyTiers -> RingType],
         \A t \in KeyTiers : Good(t, ring'[t]),
         keeping' \in [Keepers -> KeepRow],
         \A k \in Keepers : keeping'[k].at = "idle" \/ keeping'[k] = keeping[k]
  PROVE  KeysInv'
<1>1. \A t \in KeyTiers : SeedsOf(t)' = SeedsOf(t)
  BY DEF SeedsOf, Stored
<1>2. KeysTypeOK'
  BY DEF KeysInv, KeysTypeOK, KeepRow
<1>3. RingsKnown'
  BY <1>1, SeedsNotZero DEF RingsKnown, Known, Good
<1>4. ASSUME NEW k \in Keepers
      PROVE  KeeperHolds(k)'
  <2>1. CASE keeping'[k].at = "idle"
    BY <2>1 DEF KeeperHolds
  <2>2. CASE keeping'[k] = keeping[k]
    <3>1. KeeperHolds(k) /\ "temp" \in KeyTiers /\ "full" \in KeyTiers
      BY DEF KeysInv, KeyTiers
    <3>2. QED BY <1>1, <2>2, <3>1 DEF KeeperHolds, Good
  <2>3. QED BY <2>1, <2>2
<1>5. IssuedStillVerified'
  <2>1. ASSUME NEW token \in live
        PROVE  token \in retired \/ token[2] \in ring'[token[1]].verify
    <3>1. token \in KeyTiers \X (1 .. MaxSeed)
      BY DEF KeysInv, KeysTypeOK
    <3>2. token[1] \in KeyTiers /\ token = <<token[1], token[2]>>
      BY <3>1
    <3>3. token \in retired \/ token[2] \in ring[token[1]].verify
      BY DEF KeysInv, IssuedStillVerified
    <3>4. token \in retired \/ Known(token[1], token[2])
      BY <3>2, <3>3 DEF KeysInv, RingsKnown
    <3>5. QED BY <3>2, <3>4 DEF Known, Good
  <2>2. QED BY <2>1 DEF IssuedStillVerified
<1>6. QED BY <1>2, <1>3, <1>4, <1>5 DEF KeysInv

LEMMA RingsInstalled ==
  ASSUME KeysInv, NEW k \in Keepers, Install(k)
  PROVE  KeysInv'
<1>1. KeeperHolds(k) /\ keeping[k].loaded \in [KeyTiers -> RingType]
  BY KeeperIsRow
<1>2. \A t \in KeyTiers : Good(t, keeping[k].loaded[t])
  BY <1>1 DEF Install, KeeperHolds, KeyTiers
<1>3. keeping \in [Keepers -> KeepRow]
  BY DEF KeysInv, KeysTypeOK, KeepRow
<1>4. /\ keeping' \in [Keepers -> KeepRow]
      /\ \A l \in Keepers : keeping'[l].at = "idle" \/ keeping'[l] = keeping[l]
  BY <1>3, NoKeepIsRow DEF Install
<1>5. ring' = keeping[k].loaded /\ UNCHANGED <<keyRow, pointer, seeds, live, retired>>
  BY DEF Install
<1>6. QED BY <1>1, <1>2, <1>4, <1>5, RingsReplaced

LEMMA KeysRestart ==
  ASSUME KeysInv, RestartKeys
  PROVE  KeysInv'
<1>1. \A t \in KeyTiers : ring'[t] = RingOf(t)
  BY DEF RestartKeys
<1>2. \A t \in KeyTiers : Good(t, ring'[t]) /\ ring'[t] \in RingType
  BY <1>1, RingIsGood DEF RestartKeys, KeysInv
<1>3. ring' \in [KeyTiers -> RingType]
  BY <1>2 DEF RestartKeys
<1>4. keeping' \in [Keepers -> KeepRow] /\ \A k \in Keepers : keeping'[k].at = "idle"
  BY NoKeepIsRow DEF RestartKeys
<1>5. QED BY <1>2, <1>3, <1>4, RingsReplaced DEF RestartKeys

LEMMA TokensMove ==
  ASSUME KeysInv,
         \/ \E t \in KeyTiers : Issue(t)
         \/ \E token \in live : ExpireToken(token)
  PROVE  KeysInv'
<1>1. UNCHANGED <<keyRow, pointer, ring, keeping, seeds, retired>>
  BY DEF Issue, ExpireToken
<1>2. \A t \in KeyTiers : SeedsOf(t)' = SeedsOf(t)
  BY <1>1 DEF SeedsOf, Stored
<1>3. \A token \in live' : \/ token \in live
                           \/ \E t \in KeyTiers : token = <<t, ring[t].signing>>
  BY DEF Issue, ExpireToken
<1>4. ASSUME NEW t \in KeyTiers
      PROVE  ring[t].signing \in 1 .. MaxSeed /\ ring[t].signing \in ring[t].verify
  <2>1. ring[t] \in RingType
    BY DEF KeysInv, KeysTypeOK
  <2>2. ring[t].signing \in 0 .. MaxSeed
    BY <2>1 DEF RingType
  <2>3. ring[t].signing \in ring[t].verify /\ ring[t].signing # 0
    BY DEF KeysInv, RingsKnown
  <2>4. QED BY <2>2, <2>3, KeyAssumption
<1>5. live \subseteq KeyTiers \X (1 .. MaxSeed)
  BY DEF KeysInv, KeysTypeOK
<1>6. live' \subseteq KeyTiers \X (1 .. MaxSeed)
  BY <1>3, <1>4, <1>5
<1>7. KeysTypeOK'
  BY <1>1, <1>6 DEF KeysInv, KeysTypeOK
<1>8. RingsKnown'
  BY <1>1, <1>2 DEF KeysInv, RingsKnown, Known
<1>9. \A k \in Keepers : KeeperHolds(k)'
  BY <1>1, <1>2 DEF KeysInv, KeeperHolds, Good, KeyTiers
<1>10. IssuedStillVerified'
  <2>1. ASSUME NEW token \in live'
        PROVE  token \in retired \/ token[2] \in ring[token[1]].verify
    <3>1. CASE token \in live
      BY <3>1 DEF KeysInv, IssuedStillVerified
    <3>2. CASE \E t \in KeyTiers : token = <<t, ring[t].signing>>
      BY <1>4, <3>2
    <3>3. QED BY <1>3, <3>1, <3>2
  <2>2. QED BY <1>1, <2>1 DEF IssuedStillVerified
<1>11. QED BY <1>7, <1>8, <1>9, <1>10 DEF KeysInv

LEMMA KeysKeep ==
  ASSUME OneKeeper
  PROVE  KeysInv /\ [KeysNext]_keyVars => KeysInv'
<1>1. SUFFICES ASSUME KeysInv, KeysNext
               PROVE  KeysInv'
  <2>1. ASSUME KeysInv, UNCHANGED keyVars
        PROVE  KeysInv'
    <3>1. UNCHANGED <<keyRow, pointer, ring, keeping, seeds, live, retired>>
      BY <2>1 DEF keyVars
    <3>2. \A t \in KeyTiers : SeedsOf(t)' = SeedsOf(t)
      BY <3>1 DEF SeedsOf, Stored
    <3>3. KeysTypeOK' /\ RingsKnown' /\ IssuedStillVerified'
      BY <2>1, <3>1, <3>2
         DEF KeysInv, KeysTypeOK, RingsKnown, Known, IssuedStillVerified
    <3>4. \A k \in Keepers : KeeperHolds(k)'
      BY <2>1, <3>1, <3>2 DEF KeysInv, KeeperHolds, Good, KeyTiers
    <3>5. QED BY <3>3, <3>4 DEF KeysInv
  <2>2. QED BY <2>1
<1>2. ASSUME NEW k \in Keepers,
             \/ Rotate(k) \/ StoreSeed(k) \/ StorePointer(k) \/ ListFull(k)
             \/ \E v \in Versions : Retire(k, v)
             \/ DropRow(k) \/ LoadTemp(k) \/ LoadFull(k) \/ Install(k) \/ GiveUpKeys(k)
      PROVE  KeysInv'
  BY <1>1, <1>2, StepsMove, SeedIsStored, RowIsDropped, LoadKeeps, RingsInstalled
<1>3. CASE \/ \E t \in KeyTiers : Issue(t)
           \/ \E token \in live : ExpireToken(token)
  BY <1>1, <1>3, TokensMove
<1>4. CASE RestartKeys
  BY <1>1, <1>4, KeysRestart
<1>5. QED BY <1>1, <1>2, <1>3, <1>4 DEF KeysNext

\* The promise of RotateJWTSigningKeys: while one administrator at a time
\* rotates or retires, whatever crashes or fails in between, a token that has
\* not expired is verified by the ring of its tier unless its own key was
\* retired by hand; for any number of versions.
THEOREM IssuedStillVerifiedHolds ==
  ASSUME OneKeeper
  PROVE  KeysSpec => []IssuedStillVerified
<1>1. KeysInv => IssuedStillVerified
  BY DEF KeysInv
<1>2. QED BY <1>1, InitKeys, KeysKeep, PTL DEF KeysSpec

-----------------------------------------------------------------------------
(***************************************************************************)
(* SigningKeys: the types, for any number of requests at a time            *)
(***************************************************************************)
KeeperTyped(w) ==
  /\ w.at \in {"seed", "pointer", "drop"} => w.version \in Versions
  /\ w.at \in {"loadFull", "install"} => w.loaded["temp"].signing # 0
  /\ w.at = "install" => w.loaded["full"].signing # 0

KeysTyped ==
  /\ KeysTypeOK
  /\ \A t \in KeyTiers : ring[t].signing # 0
  /\ \A k \in Keepers : KeeperTyped(keeping[k])

\* A request moves on, with whatever rows, pointers and seeds.
LEMMA TypedMove ==
  ASSUME KeysTyped, NEW k \in Keepers, NEW w \in KeepRow, KeeperTyped(w),
         keeping' = [keeping EXCEPT ![k] = w],
         keyRow' \in [KeyTiers -> [Versions -> 0 .. MaxSeed]],
         pointer' \in [KeyTiers -> 0 .. MaxVersion],
         ring' \in [KeyTiers -> RingType], \A t \in KeyTiers : ring'[t].signing # 0,
         seeds' \in 2 .. MaxSeed, live' = live,
         retired' \subseteq KeyTiers \X (0 .. MaxSeed)
  PROVE  KeysTyped'
<1>1. keeping' \in [Keepers -> KeepRow]
  BY DEF KeysTyped, KeysTypeOK, KeepRow
<1>2. KeysTypeOK'
  BY <1>1 DEF KeysTyped, KeysTypeOK, KeepRow
<1>3. keeping'[k] = w /\ \A l \in Keepers : l # k => keeping'[l] = keeping[l]
  BY DEF KeysTyped, KeysTypeOK
<1>4. \A l \in Keepers : KeeperTyped(keeping'[l])
  BY <1>3 DEF KeysTyped
<1>5. QED BY <1>2, <1>4 DEF KeysTyped, KeeperTyped

\* The ring of what is stored signs with a seed.
LEMMA RingSigns ==
  ASSUME KeysTypeOK, NEW t \in KeyTiers, Stored(t) # {}
  PROVE  RingOf(t) \in RingType /\ RingOf(t).signing # 0
  BY RingIsGood, SeedsNotZero DEF Good

LEMMA TypedKeeper ==
  ASSUME KeysTyped, NEW k \in Keepers,
         \/ Rotate(k) \/ StoreSeed(k) \/ StorePointer(k) \/ ListFull(k)
         \/ \E v \in Versions : Retire(k, v)
         \/ DropRow(k) \/ LoadTemp(k) \/ LoadFull(k) \/ Install(k) \/ GiveUpKeys(k)
  PROVE  KeysTyped'
<1>1. /\ keyRow \in [KeyTiers -> [Versions -> 0 .. MaxSeed]]
      /\ pointer \in [KeyTiers -> 0 .. MaxVersion]
      /\ ring \in [KeyTiers -> RingType] /\ \A t \in KeyTiers : ring[t].signing # 0
      /\ seeds \in 2 .. MaxSeed /\ retired \subseteq KeyTiers \X (0 .. MaxSeed)
      /\ keeping[k] \in KeepRow /\ KeeperTyped(keeping[k])
      /\ keeping \in [Keepers -> KeepRow]
  BY DEF KeysTyped, KeysTypeOK, KeepRow
<1>2. /\ Versions \subseteq 0 .. MaxVersion /\ 1 \in Versions /\ 0 \in 0 .. MaxSeed
      /\ MaxSeed \in Nat
  BY KeyAssumption DEF Versions
<1>3. PICK t \in KeyTiers : t = keeping[k].tier
  BY <1>1 DEF KeepRow
<1>4. ASSUME \/ Rotate(k) \/ ListFull(k) \/ \E v \in Versions : Retire(k, v)
      PROVE  \E w \in KeepRow : /\ KeeperTyped(w) /\ keeping' = [keeping EXCEPT ![k] = w]
                                 /\ UNCHANGED <<keyRow, pointer, ring, seeds, live, retired>>
  <2>1. CASE Rotate(k)
    <3>1. PICK n \in Versions : n = NextVersion("temp")
      BY <2>1 DEF Rotate
    <3>2. PICK w : w = [NoKeep EXCEPT !.at = "seed", !.version = n]
      OBVIOUS
    <3>3. w \in KeepRow /\ KeeperTyped(w)
      BY <1>2, <3>2, NoKeepIsRow DEF KeepRow, KeeperTyped
    <3>4. QED BY <2>1, <3>1, <3>2, <3>3 DEF Rotate
  <2>2. CASE ListFull(k)
    <3>1. PICK n \in Versions : n = NextVersion("full")
      BY <2>2 DEF ListFull
    <3>2. PICK w : w = [keeping[k] EXCEPT !.at = "seed", !.tier = "full", !.version = n]
      OBVIOUS
    <3>3. w \in KeepRow /\ KeeperTyped(w)
      BY <1>1, <1>2, <3>2 DEF KeepRow, KeeperTyped, KeyTiers
    <3>4. keeping' = [keeping EXCEPT ![k] = w]
      BY <1>1, <2>2, <3>1, <3>2 DEF ListFull
    <3>5. QED BY <2>2, <3>3, <3>4 DEF ListFull
  <2>3. ASSUME NEW v \in Versions, Retire(k, v)
        PROVE  \E w \in KeepRow : /\ KeeperTyped(w) /\ keeping' = [keeping EXCEPT ![k] = w]
                                   /\ UNCHANGED <<keyRow, pointer, ring, seeds, live, retired>>
    <3>1. PICK w : w = [NoKeep EXCEPT !.at = "drop", !.version = v]
      OBVIOUS
    <3>2. w \in KeepRow /\ KeeperTyped(w)
      BY <1>2, <3>1, NoKeepIsRow DEF KeepRow, KeeperTyped
    <3>3. QED BY <2>3, <3>1, <3>2 DEF Retire
  <2>4. QED BY <1>4, <2>1, <2>2, <2>3
<1>5. CASE \/ Rotate(k) \/ ListFull(k) \/ \E v \in Versions : Retire(k, v)
  BY <1>1, <1>4, <1>5, TypedMove
<1>6. CASE StoreSeed(k)
  <2>1. PICK w : w = [keeping[k] EXCEPT !.at = "pointer"]
    OBVIOUS
  <2>2. w \in KeepRow /\ KeeperTyped(w) /\ keeping[k].version \in Versions
    BY <1>1, <1>6, <2>1 DEF KeepRow, KeeperTyped, StoreSeed
  <2>3. keeping' = [keeping EXCEPT ![k] = w] /\ UNCHANGED <<pointer, ring, live, retired>>
    BY <1>1, <1>6, <2>1 DEF StoreSeed, Keep
  <2>4. seeds' \in 2 .. MaxSeed /\ seeds + 1 \in 0 .. MaxSeed
    BY <1>1, <1>2, <1>6 DEF StoreSeed
  <2>5. keyRow' \in [KeyTiers -> [Versions -> 0 .. MaxSeed]]
    BY <1>1, <1>3, <1>6, <2>2, <2>4 DEF StoreSeed
  <2>6. QED BY <1>1, <2>2, <2>3, <2>4, <2>5, TypedMove
<1>7. CASE StorePointer(k)
  <2>1. PICK at \in {"list", "loadTemp"} : at = IF t = "temp" THEN "list" ELSE "loadTemp"
    OBVIOUS
  <2>2. PICK w : w = [keeping[k] EXCEPT !.at = at]
    OBVIOUS
  <2>3. w \in KeepRow /\ KeeperTyped(w) /\ keeping[k].version \in 0 .. MaxVersion
    BY <1>1, <2>1, <2>2 DEF KeepRow, KeeperTyped
  <2>4. keeping' = [keeping EXCEPT ![k] = w]
    BY <1>1, <1>3, <1>7, <2>1, <2>2 DEF StorePointer, Keep
  <2>5. /\ pointer' \in [KeyTiers -> 0 .. MaxVersion]
        /\ UNCHANGED <<keyRow, ring, seeds, live, retired>>
    BY <1>1, <1>3, <1>7, <2>3 DEF StorePointer
  <2>6. QED BY <1>1, <2>3, <2>4, <2>5, TypedMove
<1>8. CASE DropRow(k)
  <2>1. PICK at \in {"drop", "loadTemp"} : at = IF t = "temp" THEN "drop" ELSE "loadTemp"
    OBVIOUS
  <2>2. PICK w : w = [keeping[k] EXCEPT !.tier = "full", !.at = at]
    OBVIOUS
  <2>3. w \in KeepRow /\ KeeperTyped(w) /\ keeping[k].version \in Versions
    BY <1>1, <1>8, <2>1, <2>2 DEF KeepRow, KeeperTyped, DropRow, KeyTiers
  <2>4. keeping' = [keeping EXCEPT ![k] = w]
    BY <1>1, <1>3, <1>8, <2>1, <2>2 DEF DropRow
  <2>5. PICK v \in Versions : v = keeping[k].version
    BY <2>3
  <2>6. keyRow[t][v] \in 0 .. MaxSeed
    BY <1>1
  <2>7. /\ keyRow' = [keyRow EXCEPT ![t][v] = 0]
        /\ retired' = retired \cup {<<t, keyRow[t][v]>>}
        /\ UNCHANGED <<pointer, ring, seeds, live>>
    BY <1>3, <1>8, <2>5 DEF DropRow
  <2>8. /\ keyRow' \in [KeyTiers -> [Versions -> 0 .. MaxSeed]]
        /\ retired' \subseteq KeyTiers \X (0 .. MaxSeed)
    BY <1>1, <1>2, <2>6, <2>7
  <2>9. QED BY <1>1, <2>3, <2>4, <2>7, <2>8, TypedMove
<1>9. ASSUME NEW u \in KeyTiers, Load(k, u),
             \/ u = "temp" /\ keeping[k].at = "loadTemp"
             \/ u = "full" /\ keeping[k].at = "loadFull"
      PROVE  KeysTyped'
  <2>1. PICK r \in RingType :
          /\ r.signing # 0 /\ seeds' \in 2 .. MaxSeed
          /\ keyRow' \in [KeyTiers -> [Versions -> 0 .. MaxSeed]]
          /\ keeping' = [keeping EXCEPT ![k].loaded[u] = r,
                           ![k].at = IF u = "temp" THEN "loadFull" ELSE "install"]
    <3>1. CASE Stored(u) # {}
      <4>1. PICK r \in RingType : r = RingOf(u) /\ r.signing # 0
        BY <3>1, RingSigns DEF KeysTyped
      <4>2. QED BY <1>1, <1>9, <3>1, <4>1 DEF Load
    <3>2. CASE Stored(u) = {}
      <4>1. PICK s \in 1 .. MaxSeed : s = seeds + 1 /\ seeds' = s
        BY <1>1, <1>2, <1>9, <3>2 DEF Load
      <4>2. PICK r : r = [active |-> 1, signing |-> s, verify |-> {s}]
        OBVIOUS
      <4>3. r \in RingType /\ r.signing # 0 /\ s \in 0 .. MaxSeed
        BY <1>2, <4>2 DEF RingType
      <4>4. keyRow' = [keyRow EXCEPT ![u][1] = s] /\ seeds' \in 2 .. MaxSeed
        BY <1>1, <1>9, <3>2, <4>1 DEF Load
      <4>5. keyRow' \in [KeyTiers -> [Versions -> 0 .. MaxSeed]]
        BY <1>1, <1>2, <4>3, <4>4
      <4>6. keeping' = [keeping EXCEPT ![k].loaded[u] = r,
                           ![k].at = IF u = "temp" THEN "loadFull" ELSE "install"]
        BY <1>9, <3>2, <4>1, <4>2 DEF Load
      <4>7. QED BY <4>3, <4>4, <4>5, <4>6
    <3>3. QED BY <3>1, <3>2
  <2>2. PICK at \in {"loadFull", "install"} : at = IF u = "temp" THEN "loadFull" ELSE "install"
    OBVIOUS
  <2>3. PICK rings \in [KeyTiers -> RingType] : rings = [keeping[k].loaded EXCEPT ![u] = r]
    BY <1>1 DEF KeepRow
  <2>4. PICK w : w = [keeping[k] EXCEPT !.loaded = rings, !.at = at]
    OBVIOUS
  <2>5. w \in KeepRow /\ w.loaded = rings /\ w.at = at
    BY <1>1, <2>2, <2>3, <2>4 DEF KeepRow
  <2>6. /\ rings[u] = r /\ \A x \in KeyTiers : x # u => rings[x] = keeping[k].loaded[x]
    BY <1>1, <2>3 DEF KeepRow
  <2>7. KeeperTyped(w)
    <3>1. CASE u = "temp"
      BY <2>1, <2>2, <2>5, <2>6, <3>1 DEF KeeperTyped
    <3>2. CASE u = "full"
      <4>1. rings["temp"] = keeping[k].loaded["temp"] /\ rings["temp"].signing # 0
        BY <1>1, <1>9, <2>6, <3>2 DEF KeeperTyped, KeyTiers
      <4>2. QED BY <2>1, <2>2, <2>5, <2>6, <3>2, <4>1 DEF KeeperTyped
    <3>3. QED BY <1>9, <3>1, <3>2
  <2>8. keeping' = [keeping EXCEPT ![k] = w]
    BY <1>1, <2>1, <2>2, <2>3, <2>4
  <2>9. UNCHANGED <<pointer, ring, live, retired>>
    BY <1>9 DEF Load
  <2>10. QED BY <1>1, <2>1, <2>5, <2>7, <2>8, <2>9, TypedMove
<1>10. CASE LoadTemp(k) \/ LoadFull(k)
  BY <1>9, <1>10 DEF LoadTemp, LoadFull, KeyTiers
<1>11. NoKeep \in KeepRow /\ KeeperTyped(NoKeep)
  BY NoKeepIsRow DEF KeeperTyped
<1>12. CASE Install(k)
  <2>1. /\ ring' \in [KeyTiers -> RingType] /\ \A u \in KeyTiers : ring'[u].signing # 0
    BY <1>1, <1>12 DEF Install, KeepRow, KeeperTyped, KeyTiers
  <2>2. QED BY <1>1, <1>11, <1>12, <2>1, TypedMove DEF Install
<1>13. CASE GiveUpKeys(k)
  BY <1>1, <1>11, <1>13, TypedMove DEF GiveUpKeys
<1>14. QED BY <1>5, <1>6, <1>7, <1>8, <1>10, <1>12, <1>13

LEMMA TypedRest ==
  ASSUME KeysTyped,
         \/ \E t \in KeyTiers : Issue(t)
         \/ \E token \in live : ExpireToken(token)
         \/ RestartKeys
  PROVE  KeysTyped'
<1>1. CASE \/ \E t \in KeyTiers : Issue(t)
           \/ \E token \in live : ExpireToken(token)
  <2>1. UNCHANGED <<keyRow, pointer, ring, keeping, seeds, retired>>
    BY <1>1 DEF Issue, ExpireToken
  <2>2. \A t \in KeyTiers : ring[t].signing \in 1 .. MaxSeed
    <3>1. ASSUME NEW t \in KeyTiers
          PROVE  ring[t].signing \in 1 .. MaxSeed
      <4>1. ring[t] \in RingType /\ ring[t].signing # 0
        BY DEF KeysTyped, KeysTypeOK
      <4>2. ring[t].signing \in 0 .. MaxSeed
        BY <4>1 DEF RingType
      <4>3. QED BY <4>1, <4>2, KeyAssumption
    <3>2. QED BY <3>1
  <2>3. live \subseteq KeyTiers \X (1 .. MaxSeed)
    BY DEF KeysTyped, KeysTypeOK
  <2>4. live' \subseteq KeyTiers \X (1 .. MaxSeed)
    BY <1>1, <2>2, <2>3 DEF Issue, ExpireToken
  <2>5. KeysTypeOK'
    BY <2>1, <2>4 DEF KeysTyped, KeysTypeOK
  <2>6. QED BY <2>1, <2>5 DEF KeysTyped, KeeperTyped
<1>2. CASE RestartKeys
  <2>1. \A t \in KeyTiers : ring'[t] \in RingType /\ ring'[t].signing # 0
    BY <1>2, RingSigns DEF RestartKeys, KeysTyped
  <2>2. ring' \in [KeyTiers -> RingType]
    BY <1>2, <2>1 DEF RestartKeys
  <2>3. keeping' \in [Keepers -> KeepRow] /\ \A k \in Keepers : keeping'[k].at = "idle"
    BY <1>2, NoKeepIsRow DEF RestartKeys
  <2>4. KeysTypeOK'
    BY <1>2, <2>2, <2>3 DEF RestartKeys, KeysTyped, KeysTypeOK, KeepRow
  <2>5. QED BY <2>1, <2>3, <2>4 DEF KeysTyped, KeeperTyped
<1>3. QED BY <1>1, <1>2

\* Rows, pointers, rings and requests of both tiers keep the values they
\* range over, however many administrators rotate and retire at a time: no
\* ring is ever without a seed to sign with, no version beyond the bound.
THEOREM KeysTypeCorrect == KeysSpec => []KeysTypeOK
<1>1. KeysInit => KeysTyped
  <2>1. SUFFICES ASSUME KeysInit
                 PROVE  KeysTyped
    OBVIOUS
  <2>2. KeysInv
    BY <2>1, InitKeys
  <2>3. \A t \in KeyTiers : ring[t].signing # 0
    BY <2>2 DEF KeysInv, RingsKnown
  <2>4. \A k \in Keepers : keeping[k].at = "idle"
    BY <2>1, NoKeepIsRow DEF KeysInit
  <2>5. QED BY <2>2, <2>3, <2>4 DEF KeysInv, KeysTyped, KeeperTyped
<1>2. KeysTyped /\ [KeysNext]_keyVars => KeysTyped'
  <2>1. SUFFICES ASSUME KeysTyped, [KeysNext]_keyVars
                 PROVE  KeysTyped'
    OBVIOUS
  <2>2. CASE UNCHANGED keyVars
    BY <2>1, <2>2 DEF keyVars, KeysTyped, KeysTypeOK, KeeperTyped
  <2>3. CASE KeysNext
    BY <2>1, <2>3, TypedKeeper, TypedRest DEF KeysNext
  <2>4. QED BY <2>1, <2>2, <2>3
<1>3. KeysTyped => KeysTypeOK
  BY DEF KeysTyped
<1>4. QED BY <1>1, <1>2, <1>3, PTL DEF KeysSpec

-----------------------------------------------------------------------------
(***************************************************************************)
(* Shares: the inductive invariant                                         *)
(***************************************************************************)

ShareRow == [made: BOOLEAN, limit: AccessLimits \cup {0}, count: Counts,
             reason: Reasons, expired: BOOLEAN]
Get == {NoRequest} \cup [pc: {"count", "fetch"}, share: Shares, chunk: Chunks]
OwnerWork ==
  {NoRequest} \cup [pc: {"revoke"}, share: Shares, reason: Reasons \ {""}]

\* While the file is there, whatever works on a share works on one that was
\* made, and a share that was not has sent nothing.
WorksOnMade ==
  file => /\ \A r \in Requests : gets[r] # NoRequest => share[gets[r].share].made
          /\ \A o \in Owners : owner[o] # NoRequest => share[owner[o].share].made
          /\ \A s \in Shares : ~share[s].made => started[s] = 0

\* With the file the shares go, and none is made again.
GoneWithFile == ~file => \A s \in Shares : ~share[s].made

\* Only a first chunk is counted.
CountsFirst ==
  \A r \in Requests : gets[r] # NoRequest /\ gets[r].pc = "count" => gets[r].chunk = 0

\* What ListShares found is still so when it is written.
FoundStillSo ==
  \A o \in Owners : owner[o] # NoRequest /\ share[owner[o].share].made =>
    /\ owner[o].reason = "exhausted" => Exhausted(owner[o].share)
    /\ owner[o].reason = "time" => share[owner[o].share].expired

SharesInv ==
  /\ SharesTypeOK
  /\ WorksOnMade /\ GoneWithFile /\ CountsFirst /\ FoundStillSo
  /\ DownloadsWithinLimit

LEMMA NoRequestHasNoShare ==
  ASSUME NEW g \in Get, g.pc \in {"count", "fetch"}
  PROVE  /\ g # NoRequest
         /\ g \in [pc: {"count", "fetch"}, share: Shares, chunk: Chunks]
  BY DEF Get, NoRequest

LEMMA PendingFinite ==
  ASSUME NEW s \in Shares
  PROVE  IsFiniteSet(Pending(s)) /\ Cardinality(Pending(s)) \in Nat
<1>1. Pending(s) \in SUBSET Requests
  BY DEF Pending
<1>2. QED BY <1>1, SharesAssumption, FS_Subset, FS_CardinalityType

LEMMA CountsTyped ==
  ASSUME SharesTypeOK, NEW s \in Shares
  PROVE  /\ started[s] \in Nat
         /\ share[s].count \in Nat
         /\ share[s].limit \in Nat
<1>1. Counts \subseteq Nat /\ AccessLimits \cup {0} \subseteq Nat
  BY SharesAssumption DEF Counts
<1>2. share[s] \in ShareRow /\ started[s] \in Counts
  BY DEF SharesTypeOK, ShareRow
<1>3. QED BY <1>1, <1>2 DEF ShareRow

LEMMA InitShares == SharesInit => SharesInv
<1>1. SUFFICES ASSUME SharesInit
               PROVE  SharesInv
  OBVIOUS
<1>2. SharesTypeOK
  <2>1. 0 \in Counts
    BY SharesAssumption DEF Counts
  <2>2. NoShare \in ShareRow
    BY <2>1 DEF NoShare, ShareRow, Reasons
  <2>3. QED BY <1>1, <2>1, <2>2 DEF SharesInit, SharesTypeOK, ShareRow
<1>3. WorksOnMade /\ GoneWithFile /\ CountsFirst /\ FoundStillSo
  BY <1>1 DEF SharesInit, WorksOnMade, GoneWithFile, CountsFirst, FoundStillSo
<1>4. DownloadsWithinLimit
  BY <1>1 DEF SharesInit, DownloadsWithinLimit, NoShare
<1>5. QED BY <1>2, <1>3, <1>4 DEF SharesInv

-----------------------------------------------------------------------------
(***************************************************************************)
(* One lemma for each action                                               *)
(***************************************************************************)

\* A step that leaves the requests and what was sent alone.
LEMMA LimitStays ==
  ASSUME DownloadsWithinLimit, UNCHANGED <<gets, started>>,
         \A s \in Shares : share'[s].made =>
            /\ share[s].made
            /\ share'[s].limit = share[s].limit
            /\ share'[s].count = share[s].count
  PROVE  DownloadsWithinLimit'
<1>1. \A s \in Shares : Pending(s)' = Pending(s)
  BY DEF Pending
<1>2. QED BY <1>1 DEF DownloadsWithinLimit

LEMMA CreateInv ==
  ASSUME SharesInv, NEW s \in Shares, CreateFileShare(s)
  PROVE  SharesInv'
<1>1. /\ file /\ ~share[s].made
      /\ UNCHANGED <<file, gets, owner, started>>
      /\ share \in [Shares -> ShareRow]
      /\ gets \in [Requests -> Get] /\ owner \in [Owners -> OwnerWork]
      /\ started \in [Shares -> Counts]
  BY DEF CreateFileShare, SharesInv, SharesTypeOK, ShareRow, Get, OwnerWork
<1>2. PICK limit \in AccessLimits :
        share' = [share EXCEPT ![s] = [NoShare EXCEPT !.made = TRUE,
                                                      !.limit = limit]]
  BY DEF CreateFileShare
<1> DEFINE n == [NoShare EXCEPT !.made = TRUE, !.limit = limit]
<1>3. /\ n \in ShareRow
      /\ n.made /\ n.limit = limit /\ n.count = 0 /\ n.reason = ""
  <2>1. NoShare \in ShareRow /\ NoShare.count = 0 /\ NoShare.reason = ""
    BY SharesAssumption DEF NoShare, ShareRow, Counts, Reasons
  <2>2. QED BY <2>1 DEF ShareRow
<1> HIDE DEF n
<1>4. share' = [share EXCEPT ![s] = n] /\ share'[s] = n
  BY <1>1, <1>2 DEF n
<1>5. \A t \in Shares : t # s => share'[t] = share[t]
  BY <1>1, <1>4
<1>6. /\ started[s] = 0
      /\ \A r \in Requests : gets[r] # NoRequest => gets[r].share # s
      /\ \A o \in Owners : owner[o] # NoRequest => owner[o].share # s
  BY <1>1 DEF SharesInv, WorksOnMade
<1>7. share' \in [Shares -> ShareRow]
  BY <1>1, <1>3, <1>4
<1>8. SharesTypeOK'
  BY <1>1, <1>7 DEF SharesInv, SharesTypeOK, ShareRow
<1>9. \A r \in Requests : gets[r] # NoRequest => gets[r].share \in Shares
  BY <1>1 DEF Get
<1>10. \A o \in Owners : owner[o] # NoRequest => owner[o].share \in Shares
  BY <1>1 DEF OwnerWork
<1>11. WorksOnMade'
  BY <1>1, <1>3, <1>4, <1>5, <1>6, <1>9, <1>10 DEF SharesInv, WorksOnMade
<1>12. GoneWithFile' /\ CountsFirst'
  BY <1>1 DEF SharesInv, GoneWithFile, CountsFirst
<1>13. FoundStillSo'
  BY <1>1, <1>5, <1>6, <1>10 DEF SharesInv, FoundStillSo, Exhausted
<1>14. DownloadsWithinLimit'
  <2>1. \A t \in Shares : Pending(t)' = Pending(t)
    BY <1>1 DEF Pending
  <2>2. Pending(s) = {}
    <3>1. \A r \in Requests : gets[r].pc = "fetch" => gets[r] # NoRequest
      BY DEF NoRequest
    <3>2. QED BY <1>6, <3>1 DEF Pending
  <2>3. limit \in Nat
    BY SharesAssumption
  <2>4. Cardinality(Pending(s)) = 0
    BY <2>2, FS_EmptySet
  <2>5. SUFFICES ASSUME NEW t \in Shares, share'[t].made
                 PROVE  /\ share'[t].limit # 0 => share'[t].count <= share'[t].limit
                        /\ started[t] + Cardinality(Pending(t)) <= share'[t].count
    BY <1>1, <2>1 DEF DownloadsWithinLimit
  <2>6. CASE t = s
    <3>1. Cardinality(Pending(t)) = 0 /\ started[t] = 0 /\ share'[t] = n
      BY <1>4, <1>6, <2>4, <2>6, Zenon
    <3>2. share'[t].limit = limit /\ share'[t].count = 0
      BY <1>3, <3>1
    <3>3. QED BY <2>3, <3>1, <3>2
  <2>7. CASE t # s
    BY <1>5, <2>5, <2>7 DEF DownloadsWithinLimit, SharesInv
  <2>8. QED BY <2>6, <2>7
<1>15. QED BY <1>8, <1>11, <1>12, <1>13, <1>14 DEF SharesInv

LEMMA ExpireInv ==
  ASSUME SharesInv, NEW s \in Shares, Expire(s)
  PROVE  SharesInv'
<1>1. /\ share' = [share EXCEPT ![s].expired = TRUE]
      /\ UNCHANGED <<file, gets, owner, started>>
      /\ share \in [Shares -> ShareRow] /\ owner \in [Owners -> OwnerWork]
      /\ gets \in [Requests -> Get]
  BY DEF Expire, SharesInv, SharesTypeOK, ShareRow, Get, OwnerWork
<1>2. \A t \in Shares : /\ share'[t].made = share[t].made
                        /\ share'[t].limit = share[t].limit
                        /\ share'[t].count = share[t].count
                        /\ share[t].expired => share'[t].expired
  <2>1. PICK n : n = share[s] /\ n \in ShareRow
    BY <1>1
  <2>2. PICK x : x = [n EXCEPT !.expired = TRUE]
    OBVIOUS
  <2>3. x.made = n.made /\ x.limit = n.limit /\ x.count = n.count /\ x.expired
    BY <2>1, <2>2 DEF ShareRow
  <2>4. share' = [share EXCEPT ![s] = x]
    BY <1>1, <2>1, <2>2
  <2>5. \A t \in Shares : share'[t] = IF t = s THEN x ELSE share[t]
    BY <1>1, <2>4
  <2>6. QED BY <2>1, <2>3, <2>5
<1>3. SharesTypeOK'
  <2>1. PICK n : n = share[s] /\ n \in ShareRow
    BY <1>1
  <2>2. PICK x : x = [n EXCEPT !.expired = TRUE]
    OBVIOUS
  <2>3. x \in ShareRow
    BY <2>1, <2>2 DEF ShareRow
  <2>4. share' = [share EXCEPT ![s] = x]
    BY <1>1, <2>1, <2>2
  <2>5. share' \in [Shares -> ShareRow]
    BY <1>1, <2>3, <2>4
  <2>6. QED BY <1>1, <2>5 DEF SharesInv, SharesTypeOK, ShareRow
<1>4. \A r \in Requests : gets[r] # NoRequest => gets[r].share \in Shares
  BY <1>1 DEF Get
<1>5. \A o \in Owners : owner[o] # NoRequest => owner[o].share \in Shares
  BY <1>1 DEF OwnerWork
<1>6. WorksOnMade' /\ GoneWithFile' /\ CountsFirst'
  BY <1>1, <1>2, <1>4, <1>5 DEF SharesInv, WorksOnMade, GoneWithFile, CountsFirst
<1>7. FoundStillSo'
  BY <1>1, <1>2, <1>5 DEF SharesInv, FoundStillSo, Exhausted
<1>8. DownloadsWithinLimit'
  BY <1>1, <1>2, LimitStays DEF SharesInv
<1>9. QED BY <1>3, <1>6, <1>7, <1>8 DEF SharesInv

LEMMA AskInv ==
  ASSUME SharesInv, NEW r \in Requests, NEW s \in Shares, NEW c \in Chunks,
         AskChunk(r, s, c)
  PROVE  SharesInv'
<1> DEFINE g == [pc |-> IF c = 0 THEN "count" ELSE "fetch", share |-> s, chunk |-> c]
<1>1. /\ gets' = [gets EXCEPT ![r] = g] /\ gets[r] = NoRequest
      /\ share[s].made /\ file
      /\ UNCHANGED <<share, file, owner, started>>
      /\ gets \in [Requests -> Get]
  BY DEF AskChunk, Open, SharesInv, SharesTypeOK, Get
<1>2. g \in Get /\ g # NoRequest /\ g.share = s /\ g.chunk = c
      /\ (g.pc = "count" => c = 0) /\ (g.pc = "fetch" => c # 0)
  BY DEF Get, NoRequest
<1> HIDE DEF g
<1>3. gets'[r] = g /\ \A q \in Requests : q # r => gets'[q] = gets[q]
  BY <1>1
<1>4. SharesTypeOK'
  BY <1>1, <1>2 DEF SharesInv, SharesTypeOK, Get
<1>5. WorksOnMade' /\ GoneWithFile' /\ FoundStillSo'
  BY <1>1, <1>2, <1>3 DEF SharesInv, WorksOnMade, GoneWithFile, FoundStillSo,
                          Exhausted
<1>6. CountsFirst'
  BY <1>1, <1>2, <1>3 DEF SharesInv, CountsFirst
<1>7. ASSUME NEW t \in Shares
      PROVE  Pending(t)' = Pending(t)
  <2>1. gets[r].pc # "fetch"
    BY <1>1 DEF NoRequest
  <2>2. QED BY <1>2, <1>3, <2>1 DEF Pending
<1>8. DownloadsWithinLimit'
  BY <1>1, <1>7 DEF SharesInv, DownloadsWithinLimit
<1>9. QED BY <1>4, <1>5, <1>6, <1>8 DEF SharesInv

\* A request that ends without an answer.
LEMMA DroppedInv ==
  ASSUME SharesInv, NEW r \in Requests, gets' = [gets EXCEPT ![r] = NoRequest],
         UNCHANGED <<share, file, owner, started>>
  PROVE  SharesInv'
<1>1. gets \in [Requests -> Get]
  BY DEF SharesInv, SharesTypeOK, Get
<1>2. gets'[r] = NoRequest /\ \A q \in Requests : q # r => gets'[q] = gets[q]
  BY <1>1
<1>3. SharesTypeOK'
  BY <1>1 DEF SharesInv, SharesTypeOK, Get
<1>4. WorksOnMade' /\ GoneWithFile' /\ FoundStillSo' /\ CountsFirst'
  BY <1>2 DEF SharesInv, WorksOnMade, GoneWithFile, FoundStillSo, CountsFirst,
              Exhausted
<1>5. ASSUME NEW t \in Shares
      PROVE  /\ Cardinality(Pending(t)') <= Cardinality(Pending(t))
             /\ Cardinality(Pending(t)') \in Nat
  <2>1. Pending(t)' \in SUBSET Pending(t)
    BY <1>2 DEF Pending, NoRequest
  <2>2. QED BY <2>1, PendingFinite, FS_Subset, FS_CardinalityType
<1>6. DownloadsWithinLimit'
  <2>1. \A t \in Shares : started[t] \in Nat /\ share[t].count \in Nat
    BY CountsTyped DEF SharesInv
  <2>2. QED BY <1>5, <2>1, PendingFinite DEF SharesInv, DownloadsWithinLimit
<1>7. QED BY <1>3, <1>4, <1>6 DEF SharesInv

\* An access is counted by the request that then fetches the first chunk.
LEMMA CountInv ==
  ASSUME SharesInv, NEW r \in Requests, CountAccess(r)
  PROVE  SharesInv'
<1>1. /\ share \in [Shares -> ShareRow] /\ gets \in [Requests -> Get]
      /\ owner \in [Owners -> OwnerWork]
      /\ UNCHANGED <<file, owner, started>>
  BY DEF CountAccess, SharesInv, SharesTypeOK, ShareRow, Get, OwnerWork
<1> DEFINE s == gets[r].share
<1>2. /\ gets[r] # NoRequest /\ s \in Shares /\ gets[r].chunk = 0
      /\ gets[r].pc = "count"
      /\ gets[r] \in [pc: {"count", "fetch"}, share: Shares, chunk: Chunks]
  BY <1>1, NoRequestHasNoShare DEF CountAccess, SharesInv, CountsFirst
<1>3. CASE ~MayCount(s)
  <2>1. gets' = [gets EXCEPT ![r] = NoRequest] /\ UNCHANGED share
    BY <1>3 DEF CountAccess
  <2>2. QED BY <1>1, <2>1, DroppedInv
<1>4. CASE MayCount(s)
  <2>1. /\ share[s].count < MaxStarts
        /\ share' = [share EXCEPT ![s].count = @ + 1]
        /\ gets' = [gets EXCEPT ![r].pc = "fetch"]
        /\ share[s].limit = 0 \/ share[s].count < share[s].limit
    BY <1>4 DEF CountAccess, MayCount
  <2> DEFINE g == [gets[r] EXCEPT !.pc = "fetch"]
  <2>2. g \in Get /\ g.pc = "fetch" /\ g.share = s /\ g.chunk = 0 /\ g # NoRequest
    BY <1>2 DEF Get, NoRequest
  <2>3. gets' = [gets EXCEPT ![r] = g]
    BY <1>1, <2>1
  <2> HIDE DEF g, s
  <2>4. gets'[r] = g /\ \A q \in Requests : q # r => gets'[q] = gets[q]
    BY <1>1, <2>3
  <2>5. /\ \A t \in Shares : /\ share'[t].made = share[t].made
                             /\ share'[t].limit = share[t].limit
                             /\ share'[t].expired = share[t].expired
                             /\ share[t].count <= share'[t].count
                             /\ t # s => share'[t] = share[t]
        /\ share'[s].count = share[s].count + 1
    BY <1>1, <1>2, <2>1, CountsTyped DEF ShareRow, SharesInv
  <2>6. SharesTypeOK'
    <3>1. share[s].count + 1 \in Counts
      BY <1>2, <2>1, CountsTyped, SharesAssumption DEF Counts, SharesInv
    <3>2. share' \in [Shares -> ShareRow]
      BY <1>1, <1>2, <2>1, <3>1 DEF ShareRow
    <3>3. QED
      BY <1>1, <2>2, <2>3, <3>2 DEF SharesInv, SharesTypeOK, ShareRow, Get
  <2>7. \A o \in Owners : owner[o] # NoRequest => owner[o].share \in Shares
    BY <1>1 DEF OwnerWork
  <2>8. \A q \in Requests : gets[q] # NoRequest => gets[q].share \in Shares
    BY <1>1 DEF Get
  <2>9. WorksOnMade'
    BY <1>1, <1>2, <2>2, <2>4, <2>5, <2>7, <2>8 DEF SharesInv, WorksOnMade, s
  <2>10. GoneWithFile' /\ CountsFirst'
    BY <1>1, <2>2, <2>4, <2>5 DEF SharesInv, GoneWithFile, CountsFirst
  <2>11. FoundStillSo'
    <3>1. ASSUME NEW t \in Shares, Exhausted(t)
          PROVE  Exhausted(t)'
      BY <2>5, <3>1, CountsTyped, <2>6 DEF Exhausted, SharesInv
    <3>2. QED BY <1>1, <2>5, <2>7, <3>1 DEF SharesInv, FoundStillSo
  <2>12. DownloadsWithinLimit'
    <3>1. SUFFICES ASSUME NEW t \in Shares, share'[t].made
                   PROVE  /\ share'[t].limit # 0 => share'[t].count <= share'[t].limit
                          /\ started[t] + Cardinality(Pending(t)') <= share'[t].count
      BY <1>1 DEF DownloadsWithinLimit
    <3>2. /\ started[t] \in Nat /\ share[t].count \in Nat
          /\ share[t].limit \in Nat /\ Cardinality(Pending(t)) \in Nat
      BY CountsTyped, PendingFinite DEF SharesInv
    <3>3. CASE t = s
      <4>1. Pending(t)' = Pending(t) \cup {r}
        BY <2>2, <2>4, <3>3 DEF Pending
      <4>2. r \notin Pending(t)
        BY <1>2 DEF Pending
      <4>3. Cardinality(Pending(t)') = Cardinality(Pending(t)) + 1
        BY <4>1, <4>2, PendingFinite, FS_AddElement
      <4>4. share'[t].count = share[t].count + 1 /\ share'[t].limit = share[t].limit
        BY <2>5, <3>3
      <4>5. /\ started[t] + Cardinality(Pending(t)) <= share[t].count
            /\ share[t].limit = 0 \/ share[t].count < share[t].limit
        BY <2>1, <2>5, <3>1, <3>3 DEF SharesInv, DownloadsWithinLimit
      <4>6. QED BY <3>2, <4>3, <4>4, <4>5
    <3>4. CASE t # s
      <4>1. Pending(t)' = Pending(t)
        BY <1>2, <2>2, <2>4, <3>4 DEF Pending, s
      <4>2. QED BY <2>5, <3>1, <3>4, <4>1 DEF SharesInv, DownloadsWithinLimit
    <3>5. QED BY <3>3, <3>4
  <2>13. QED BY <2>6, <2>9, <2>10, <2>11, <2>12 DEF SharesInv
<1>5. QED BY <1>3, <1>4

LEMMA SendInv ==
  ASSUME SharesInv, NEW r \in Requests, SendChunk(r)
  PROVE  SharesInv'
<1>1. /\ share \in [Shares -> ShareRow] /\ gets \in [Requests -> Get]
      /\ started \in [Shares -> Counts]
      /\ UNCHANGED <<share, file, owner>>
      /\ gets' = [gets EXCEPT ![r] = NoRequest]
      /\ file
  BY DEF SendChunk, SharesInv, SharesTypeOK, ShareRow, Get
<1>2. PICK s \in Shares :
        gets[r] # NoRequest /\ gets[r].share = s /\ gets[r].pc = "fetch"
  BY <1>1, NoRequestHasNoShare DEF SendChunk
<1>3. CASE gets[r].chunk # 0
  <2>1. UNCHANGED started
    BY <1>3 DEF SendChunk
  <2>2. QED BY <1>1, <2>1, DroppedInv
<1>4. CASE gets[r].chunk = 0
  <2>1. started' = [started EXCEPT ![s] = @ + 1]
    BY <1>2, <1>4 DEF SendChunk
  <2>2. /\ gets'[r] = NoRequest
        /\ \A q \in Requests : q # r => gets'[q] = gets[q]
        /\ share[s].made
    BY <1>1, <1>2 DEF SharesInv, WorksOnMade
  <2>3. r \in Pending(s)
    BY <1>2, <1>4 DEF Pending
  <2>4. \A t \in Shares : Pending(t)' = Pending(t) \ {r}
    BY <2>2 DEF Pending, NoRequest
  <2>5. /\ Cardinality(Pending(s)') = Cardinality(Pending(s)) - 1
        /\ Cardinality(Pending(s)) \in Nat
        /\ Cardinality(Pending(s)') \in Nat
    <3>1. IsFiniteSet(Pending(s)) /\ Cardinality(Pending(s)) \in Nat
      BY <1>2, PendingFinite
    <3>2. /\ IsFiniteSet(Pending(s) \ {r})
          /\ Cardinality(Pending(s) \ {r}) = Cardinality(Pending(s)) - 1
      BY <2>3, <3>1, FS_RemoveElement
    <3>3. Cardinality(Pending(s) \ {r}) \in Nat
      BY <3>2, FS_CardinalityType
    <3>4. Pending(s)' = Pending(s) \ {r}
      BY <1>2, <2>4
    <3>5. QED BY <3>1, <3>2, <3>3, <3>4
  <2>6. /\ started[s] \in Nat /\ share[s].count \in Nat
        /\ started[s] + Cardinality(Pending(s)) <= share[s].count
    BY <1>2, <2>2, CountsTyped DEF SharesInv, DownloadsWithinLimit
  <2>7. /\ started'[s] = started[s] + 1
        /\ \A t \in Shares : t # s => started'[t] = started[t]
    BY <1>1, <1>2, <2>1
  <2>8. SharesTypeOK'
    <3>1. share[s].count \in 0 .. MaxStarts
      BY <1>1, <1>2 DEF ShareRow, Counts
    <3>2. started[s] + 1 \in Counts
      BY <2>5, <2>6, <3>1, SharesAssumption DEF Counts
    <3>3. started' \in [Shares -> Counts]
      BY <1>1, <1>2, <2>1, <3>2
    <3>4. QED BY <1>1, <3>3 DEF SharesInv, SharesTypeOK, Get
  <2>9. WorksOnMade'
    BY <1>1, <2>2, <2>7 DEF SharesInv, WorksOnMade
  <2>10. GoneWithFile' /\ CountsFirst' /\ FoundStillSo'
    BY <1>1, <2>2 DEF SharesInv, GoneWithFile, CountsFirst, FoundStillSo, Exhausted
  <2>11. DownloadsWithinLimit'
    <3>1. SUFFICES ASSUME NEW t \in Shares, share[t].made
                   PROVE  /\ share[t].limit # 0 => share[t].count <= share[t].limit
                          /\ started'[t] + Cardinality(Pending(t)') <= share[t].count
      BY <1>1 DEF DownloadsWithinLimit
    <3>2. share[t].limit # 0 => share[t].count <= share[t].limit
      BY <3>1 DEF SharesInv, DownloadsWithinLimit
    <3>3. CASE t = s
      <4>1. Pending(t)' = Pending(s)'
        BY <1>2, <2>4, <3>3
      <4>2. QED BY <2>5, <2>6, <2>7, <3>2, <3>3, <4>1
    <3>4. CASE t # s
      <4>1. r \notin Pending(t)
        BY <1>2, <3>4 DEF Pending
      <4>2. Pending(t)' = Pending(t)
        BY <2>4, <4>1
      <4>3. QED BY <2>7, <3>1, <3>2, <3>4, <4>2 DEF SharesInv, DownloadsWithinLimit
    <3>5. QED BY <3>3, <3>4
  <2>12. QED BY <2>8, <2>9, <2>10, <2>11 DEF SharesInv
<1>5. QED BY <1>3, <1>4

\* The steps of the owner and of administrators.
LEMMA ListReadInv ==
  ASSUME SharesInv, NEW o \in Owners, NEW s \in Shares,
         NEW reason \in Reasons \ {""}, ReadShare(o, s, reason),
         reason = "exhausted" => Exhausted(s),
         reason = "time" => share[s].expired
  PROVE  SharesInv'
<1> DEFINE w == [pc |-> "revoke", share |-> s, reason |-> reason]
<1>1. /\ owner' = [owner EXCEPT ![o] = w] /\ share[s].made
      /\ UNCHANGED <<share, file, gets, started>>
      /\ owner \in [Owners -> OwnerWork]
  BY DEF ReadShare, SharesInv, SharesTypeOK, OwnerWork
<1>2. w \in OwnerWork /\ w # NoRequest /\ w.share = s /\ w.reason = reason
  BY DEF OwnerWork, NoRequest
<1> HIDE DEF w
<1>3. owner'[o] = w /\ \A q \in Owners : q # o => owner'[q] = owner[q]
  BY <1>1
<1>4. SharesTypeOK'
  BY <1>1, <1>2 DEF SharesInv, SharesTypeOK, OwnerWork
<1>5. WorksOnMade' /\ GoneWithFile' /\ CountsFirst'
  BY <1>1, <1>2, <1>3 DEF SharesInv, WorksOnMade, GoneWithFile, CountsFirst
<1>6. FoundStillSo'
  <2>1. SUFFICES ASSUME NEW q \in Owners, owner'[q] # NoRequest,
                        share[owner'[q].share].made
                 PROVE  /\ owner'[q].reason = "exhausted" => Exhausted(owner'[q].share)
                        /\ owner'[q].reason = "time" => share[owner'[q].share].expired
    BY <1>1 DEF FoundStillSo, Exhausted
  <2>2. CASE q = o
    BY <1>2, <1>3, <2>2
  <2>3. CASE q # o
    BY <1>3, <2>1, <2>3 DEF SharesInv, FoundStillSo
  <2>4. QED BY <2>2, <2>3
<1>7. DownloadsWithinLimit'
  BY <1>1, LimitStays DEF SharesInv
<1>8. QED BY <1>4, <1>5, <1>6, <1>7 DEF SharesInv

LEMMA OwnerReads ==
  ASSUME SharesInv, NEW o \in Owners, NEW s \in Shares,
         \/ RevokeShare(o, s) \/ AdminRevokeShare(o, s)
         \/ ListExpired(o, s) \/ ListExhausted(o, s)
  PROVE  SharesInv'
<1>1. {"owner", "admin", "time", "exhausted"} \subseteq Reasons \ {""}
  BY DEF Reasons
<1>2. CASE RevokeShare(o, s)
  BY <1>1, <1>2, ListReadInv DEF RevokeShare
<1>3. CASE AdminRevokeShare(o, s)
  BY <1>1, <1>3, ListReadInv DEF AdminRevokeShare
<1>4. CASE ListExpired(o, s)
  BY <1>1, <1>4, ListReadInv DEF ListExpired
<1>5. CASE ListExhausted(o, s)
  BY <1>1, <1>5, ListReadInv DEF ListExhausted
<1>6. QED BY <1>2, <1>3, <1>4, <1>5

LEMMA WriteInv ==
  ASSUME SharesInv, NEW o \in Owners, WriteRevocation(o)
  PROVE  SharesInv'
<1>1. /\ share \in [Shares -> ShareRow] /\ owner \in [Owners -> OwnerWork]
      /\ gets \in [Requests -> Get]
      /\ UNCHANGED <<file, gets, started>>
      /\ owner' = [owner EXCEPT ![o] = NoRequest] /\ owner[o] # NoRequest
  BY DEF WriteRevocation, SharesInv, SharesTypeOK, ShareRow, OwnerWork, Get
<1>2. PICK s \in Shares, reason \in Reasons :
        owner[o].share = s /\ owner[o].reason = reason
  BY <1>1 DEF OwnerWork
<1>3. share' = share \/ share' = [share EXCEPT ![s].reason = reason]
  BY <1>2 DEF WriteRevocation
<1>4. /\ share' \in [Shares -> ShareRow]
      /\ \A t \in Shares : /\ share'[t].made = share[t].made
                           /\ share'[t].limit = share[t].limit
                           /\ share'[t].count = share[t].count
                           /\ share'[t].expired = share[t].expired
  BY <1>1, <1>3 DEF ShareRow
<1>5. owner'[o] = NoRequest /\ \A q \in Owners : q # o => owner'[q] = owner[q]
  BY <1>1
<1>6. SharesTypeOK'
  BY <1>1, <1>4 DEF SharesInv, SharesTypeOK, ShareRow, OwnerWork
<1>7. \A r \in Requests : gets[r] # NoRequest => gets[r].share \in Shares
  BY <1>1 DEF Get
<1>8. \A q \in Owners : owner[q] # NoRequest => owner[q].share \in Shares
  BY <1>1 DEF OwnerWork
<1>9. WorksOnMade' /\ GoneWithFile' /\ CountsFirst'
  BY <1>1, <1>4, <1>5, <1>7, <1>8 DEF SharesInv, WorksOnMade, GoneWithFile,
                                      CountsFirst
<1>10. FoundStillSo'
  BY <1>4, <1>5, <1>8 DEF SharesInv, FoundStillSo, Exhausted
<1>11. DownloadsWithinLimit'
  BY <1>1, <1>4, LimitStays DEF SharesInv
<1>12. QED BY <1>6, <1>9, <1>10, <1>11 DEF SharesInv

LEMMA DeleteInv ==
  ASSUME SharesInv, DeleteFile
  PROVE  SharesInv'
<1>1. /\ ~file' /\ UNCHANGED <<gets, owner, started>>
      /\ share' = [s \in Shares |-> NoShare]
      /\ file' \in BOOLEAN
  BY DEF DeleteFile
<1>2. NoShare \in ShareRow /\ ~NoShare.made
  BY SharesAssumption DEF NoShare, ShareRow, Counts, Reasons
<1>3. SharesTypeOK'
  BY <1>1, <1>2 DEF SharesInv, SharesTypeOK, ShareRow
<1>4. owner \in [Owners -> OwnerWork]
  BY DEF SharesInv, SharesTypeOK, OwnerWork
<1>5. \A o \in Owners : owner[o] # NoRequest => owner[o].share \in Shares
  BY <1>4 DEF OwnerWork
<1>6. WorksOnMade' /\ GoneWithFile' /\ CountsFirst' /\ FoundStillSo'
  BY <1>1, <1>2, <1>5 DEF SharesInv, WorksOnMade, GoneWithFile, CountsFirst,
                          FoundStillSo
<1>7. DownloadsWithinLimit'
  BY <1>1, <1>2, LimitStays DEF SharesInv
<1>8. QED BY <1>3, <1>6, <1>7 DEF SharesInv

-----------------------------------------------------------------------------
(***************************************************************************)
(* Theorems                                                                *)
(***************************************************************************)

LEMMA SharesStep ==
  ASSUME SharesInv, [SharesNext]_sharesVars
  PROVE  SharesInv'
<1>1. CASE UNCHANGED sharesVars
  BY <1>1 DEF sharesVars, SharesInv, SharesTypeOK, WorksOnMade, GoneWithFile,
              CountsFirst, FoundStillSo, Exhausted, DownloadsWithinLimit, Pending
<1>2. ASSUME NEW s \in Shares, CreateFileShare(s) \/ Expire(s)
      PROVE  SharesInv'
  BY <1>2, CreateInv, ExpireInv
<1>3. ASSUME NEW r \in Requests, LoseChunk(r)
      PROVE  SharesInv'
  BY <1>3, DroppedInv DEF LoseChunk
<1>4. ASSUME NEW r \in Requests,
             \/ \E s \in Shares, c \in Chunks : AskChunk(r, s, c)
             \/ CountAccess(r) \/ SendChunk(r)
      PROVE  SharesInv'
  BY <1>4, AskInv, CountInv, SendInv
<1>5. ASSUME NEW o \in Owners,
             \/ \E s \in Shares : \/ RevokeShare(o, s) \/ AdminRevokeShare(o, s)
                                  \/ ListExpired(o, s) \/ ListExhausted(o, s)
             \/ WriteRevocation(o)
      PROVE  SharesInv'
  BY <1>5, OwnerReads, WriteInv
<1>6. CASE DeleteFile
  BY <1>6, DeleteInv
<1>7. QED BY <1>1, <1>2, <1>3, <1>4, <1>5, <1>6 DEF SharesNext

LEMMA SharesInvariant == SharesSpec => []SharesInv
  BY InitShares, SharesStep, PTL DEF SharesSpec

(* Every variable of the shares keeps its type.                            *)
THEOREM SharesTypeCorrect == SharesSpec => []SharesTypeOK
<1>1. SharesInv => SharesTypeOK
  BY DEF SharesInv
<1>2. QED BY <1>1, SharesInvariant, PTL

(* The first chunk of a share is sent no more often than its limit allows  *)
(* and never uncounted, for any number of visitors who ask, retry and      *)
(* leave (handlers/file_shares.go:869).                                    *)
THEOREM LimitKept == SharesSpec => []DownloadsWithinLimit
<1>1. SharesInv => DownloadsWithinLimit
  BY DEF SharesInv
<1>2. QED BY <1>1, SharesInvariant, PTL

\* What RevokedForGood says of one share.
StaysRevoked(s) ==
  share[s].made /\ share[s].reason # "" =>
    \/ ~share'[s].made
    \/ /\ share'[s].reason # ""
       /\ share'[s].reason = "exhausted" => Exhausted(s)
       /\ share'[s].reason = "time" => share[s].expired

\* The reason a revocation gives is the one it was given at, or one that was
\* found and still is so.
ReasonsTrue ==
  \A s \in Shares : share[s].made =>
    /\ share[s].reason = "exhausted" => Exhausted(s)
    /\ share[s].reason = "time" => share[s].expired

\* A count at its limit stays there when it grows.
LEMMA StaysAtLimit ==
  ASSUME NEW limit \in Nat, NEW count \in Nat, NEW later \in Nat,
         count >= limit, count <= later
  PROVE  later >= limit
  OBVIOUS

\* A step that writes the reason of no share that was made.
LEMMA ReasonsStay ==
  ASSUME SharesTypeOK, ReasonsTrue,
         \A s \in Shares : share'[s].made /\ ~share[s].made => share'[s].reason = "",
         \A s \in Shares : share'[s].made /\ share[s].made =>
           /\ share'[s].reason = share[s].reason
           /\ share'[s].limit = share[s].limit
           /\ share'[s].count \in Nat /\ share[s].count <= share'[s].count
           /\ share[s].expired => share'[s].expired
  PROVE  ReasonsTrue' /\ \A s \in Shares : StaysRevoked(s)
<1>1. ASSUME NEW s \in Shares, share'[s].made
      PROVE  /\ share'[s].reason = "exhausted" => Exhausted(s)'
             /\ share'[s].reason = "time" => share'[s].expired
  <2>1. CASE ~share[s].made
    BY <1>1, <2>1
  <2>2. CASE share[s].made
    <3>1. /\ share'[s].limit = share[s].limit
          /\ share'[s].count \in Nat /\ share[s].count <= share'[s].count
      BY <1>1, <2>2
    <3>2. share[s].count \in Nat /\ share[s].limit \in Nat
      BY CountsTyped
    <3>3. ASSUME share[s].limit # 0, share[s].count >= share[s].limit
          PROVE  share'[s].limit # 0 /\ share'[s].count >= share'[s].limit
      <4>1. share'[s].count >= share[s].limit
        BY <3>1, <3>2, <3>3, StaysAtLimit
      <4>2. QED BY <3>1, <3>3, <4>1, Zenon
    <3>4. Exhausted(s) => Exhausted(s)'
      BY <3>3 DEF Exhausted
    <3>5. QED BY <1>1, <2>2, <3>4 DEF ReasonsTrue
  <2>3. QED BY <2>1, <2>2
<1>2. ReasonsTrue'
  BY <1>1 DEF ReasonsTrue
<1>3. ASSUME NEW s \in Shares
      PROVE  StaysRevoked(s)
  BY DEF StaysRevoked, ReasonsTrue
<1>4. QED BY <1>2, <1>3

LEMMA ReasonsStep ==
  ASSUME SharesInv, ReasonsTrue, [SharesNext]_sharesVars
  PROVE  ReasonsTrue' /\ \A s \in Shares : StaysRevoked(s)
<1>1. /\ share \in [Shares -> ShareRow]
      /\ owner \in [Owners -> OwnerWork] /\ gets \in [Requests -> Get]
  BY DEF SharesInv, SharesTypeOK, ShareRow, OwnerWork, Get
<1>2. \A s \in Shares : share[s].count \in Nat
  BY CountsTyped DEF SharesInv
<1>3. CASE UNCHANGED share
  <2>1. \A s \in Shares : share[s].count <= share[s].count
    BY <1>2
  <2>2. QED BY <1>2, <1>3, <2>1, ReasonsStay DEF SharesInv
<1>4. ASSUME NEW s \in Shares, CreateFileShare(s)
      PROVE  ReasonsTrue' /\ \A t \in Shares : StaysRevoked(t)
  <2>1. PICK limit \in AccessLimits :
          share' = [share EXCEPT ![s] = [NoShare EXCEPT !.made = TRUE,
                                                        !.limit = limit]]
    BY <1>4 DEF CreateFileShare
  <2>2. /\ share'[s].made /\ share'[s].reason = "" /\ ~share[s].made
        /\ \A t \in Shares : t # s => share'[t] = share[t]
    BY <1>1, <1>4, <2>1 DEF CreateFileShare, NoShare
  <2>3. \A t \in Shares : share[t].count <= share[t].count
    BY <1>2
  <2>4. QED BY <1>2, <2>2, <2>3, ReasonsStay DEF SharesInv
<1>5. ASSUME NEW s \in Shares, Expire(s)
      PROVE  ReasonsTrue' /\ \A t \in Shares : StaysRevoked(t)
  <2>1. \A t \in Shares : /\ share'[t].made = share[t].made
                          /\ share'[t].reason = share[t].reason
                          /\ share'[t].limit = share[t].limit
                          /\ share'[t].count = share[t].count
                          /\ share[t].expired => share'[t].expired
    BY <1>1, <1>5 DEF Expire, ShareRow
  <2>2. \A t \in Shares : share[t].count <= share[t].count
    BY <1>2
  <2>3. QED BY <1>2, <2>1, <2>2, ReasonsStay DEF SharesInv
<1>6. ASSUME NEW r \in Requests, CountAccess(r)
      PROVE  ReasonsTrue' /\ \A t \in Shares : StaysRevoked(t)
  <2>1. PICK s \in Shares : gets[r].share = s
    BY <1>1, <1>6, NoRequestHasNoShare DEF CountAccess
  <2>2. UNCHANGED share \/ share' = [share EXCEPT ![s].count = @ + 1]
    BY <1>6, <2>1 DEF CountAccess
  <2>3. \A t \in Shares : /\ share'[t].made = share[t].made
                          /\ share'[t].reason = share[t].reason
                          /\ share'[t].limit = share[t].limit
                          /\ share'[t].expired = share[t].expired
                          /\ share'[t].count \in Nat
                          /\ share[t].count <= share'[t].count
    BY <1>1, <1>2, <2>2 DEF ShareRow
  <2>4. QED BY <2>3, ReasonsStay DEF SharesInv
<1>7. ASSUME NEW o \in Owners, WriteRevocation(o)
      PROVE  ReasonsTrue' /\ \A t \in Shares : StaysRevoked(t)
  <2>1. PICK s \in Shares, reason \in Reasons \ {""} :
          owner[o].share = s /\ owner[o].reason = reason
    BY <1>1, <1>7 DEF WriteRevocation, OwnerWork
  <2>2. CASE ~share[s].made
    <3>1. UNCHANGED share
      BY <1>7, <2>1, <2>2 DEF WriteRevocation
    <3>2. QED BY <1>3, <3>1
  <2>3. CASE share[s].made
    <3>1. share' = [share EXCEPT ![s].reason = reason]
      BY <1>7, <2>1, <2>3 DEF WriteRevocation
    <3>2. /\ share'[s].reason = reason /\ reason # ""
          /\ \A t \in Shares : /\ share'[t].made = share[t].made
                               /\ share'[t].limit = share[t].limit
                               /\ share'[t].count = share[t].count
                               /\ share'[t].expired = share[t].expired
                               /\ t # s => share'[t].reason = share[t].reason
      BY <1>1, <3>1 DEF ShareRow
    <3>3. /\ reason = "exhausted" => Exhausted(s)
          /\ reason = "time" => share[s].expired
      BY <1>7, <2>1, <2>3 DEF WriteRevocation, SharesInv, FoundStillSo
    <3>4. \A t \in Shares : Exhausted(t)' = Exhausted(t)
      BY <3>2 DEF Exhausted
    <3>5. ReasonsTrue'
      BY <3>2, <3>3, <3>4 DEF ReasonsTrue
    <3>6. ASSUME NEW t \in Shares
          PROVE  StaysRevoked(t)
      BY <3>2, <3>3 DEF StaysRevoked, ReasonsTrue
    <3>7. QED BY <3>5, <3>6
  <2>4. QED BY <2>2, <2>3
<1>8. CASE DeleteFile
  <2>1. \A t \in Shares : ~share'[t].made
    BY <1>8 DEF DeleteFile, NoShare
  <2>2. QED BY <2>1, ReasonsStay DEF SharesInv
<1>9. \/ UNCHANGED share \/ DeleteFile
      \/ \E s \in Shares : CreateFileShare(s) \/ Expire(s)
      \/ \E r \in Requests : CountAccess(r)
      \/ \E o \in Owners : WriteRevocation(o)
  BY DEF SharesNext, sharesVars, AskChunk, SendChunk, LoseChunk, RevokeShare,
         AdminRevokeShare, ListExpired, ListExhausted, ReadShare
<1>10. QED BY <1>3, <1>4, <1>5, <1>6, <1>7, <1>8, <1>9

(* A share revoked is never open again, and is said to be used up or       *)
(* expired only when it is, for any number of owners and administrators    *)
(* who list and revoke at once (handlers/file_shares.go:490,               *)
(* handlers/admin.go:1380).                                                *)
THEOREM RevokedForGoodHolds == SharesSpec => RevokedForGood
<1>1. SharesInit => ReasonsTrue
  <2>1. ~NoShare.made
    BY DEF NoShare
  <2>2. QED BY <2>1 DEF SharesInit, ReasonsTrue
<1>2. ASSUME SharesInv, ReasonsTrue, [SharesNext]_sharesVars
      PROVE  /\ ReasonsTrue'
             /\ [\A s \in Shares : share[s].made /\ share[s].reason # "" =>
                   \/ ~share'[s].made
                   \/ /\ share'[s].reason # ""
                      /\ share'[s].reason = "exhausted" => Exhausted(s)
                      /\ share'[s].reason = "time" => share[s].expired]_sharesVars
  BY <1>2, ReasonsStep DEF StaysRevoked
<1>3. QED BY <1>1, <1>2, SharesInvariant, PTL DEF SharesSpec, RevokedForGood

-----------------------------------------------------------------------------
(***************************************************************************)
(* Client: the inductive invariant                                         *)
(***************************************************************************)

CmdRecord ==
  [pc: ClientSteps, user: Anyone, pair: 0 .. MaxPairs, key: Anyone,
   drift: BOOLEAN, file: SUBSET FileIds, back: ClientSteps]

\* The pair n was issued for u.
PairOf(n, u) == n \in Pairs /\ u \in People /\ issued[n].user = u

\* What a command has in hand at each of its steps.
HandOK(c) ==
  /\ c.pc \in {"idle", "remove"} \/ c.pair # 0
  /\ c.pc \in {"ready", "hit", "stale", "sending", "added", "rotated"} =>
       c.drift \/ c.key = c.user
  /\ c.pc = "hit" => c.file # {}
  /\ c.pc = "rotated" => c.back \in {"ready", "sending"}

\* Whoever keeps a pair, in the session file, in the agent or in a command,
\* keeps it under the name it was issued for.
PairsOwned ==
  /\ \A n \in Pairs : issued[n].user \in People =>
       issued[n].family \in Pairs /\ issued[issued[n].family].user \in People
  /\ sessionFile.pair # 0 => PairOf(sessionFile.pair, sessionFile.user)
  /\ agent.bound # 0 => PairOf(agent.bound, agent.owner)
  /\ \A p \in Commands : cmd[p].pair # 0 => PairOf(cmd[p].pair, cmd[p].user)
  /\ \A p \in Commands : HandOK(cmd[p])

FamilyOf(n) == issued[n].family

\* To send the refresh token of n would end no session.
Unspent(n) == issued[n].used => issued[n].revoked

\* While calm, a family is in the hands of one command at most, which has its
\* latest pair, and the session file has that pair too unless the command is
\* about to save it.
CalmKept ==
  calm =>
    /\ \A p, q \in Commands :
         p # q /\ cmd[p].pair # 0 /\ cmd[q].pair # 0 =>
           FamilyOf(cmd[p].pair) # FamilyOf(cmd[q].pair)
    /\ \A p \in Commands : cmd[p].pair # 0 => Unspent(cmd[p].pair)
    /\ sessionFile.pair # 0 =>
         \/ Unspent(sessionFile.pair)
         \/ \E p \in Commands :
              /\ cmd[p].pc = "rotated"
              /\ FamilyOf(cmd[p].pair) = FamilyOf(sessionFile.pair)

ClientInv ==
  /\ ClientStateOK
  /\ PairsOwned
  /\ CalmKept
  /\ ClientHolds

\* The step is p's; the command keeps the pair it has in hand or is done.
OnlyMoves(p) ==
  /\ cmd' \in [Commands -> CmdRecord]
  /\ \A q \in Commands : q # p => cmd'[q] = cmd[q]
KeepsHand(p) ==
  cmd'[p].pair # 0 => cmd'[p].pair = cmd[p].pair /\ cmd'[p].user = cmd[p].user

LEMMA CmdTyped ==
  ASSUME ClientStateOK
  PROVE  cmd \in [Commands -> CmdRecord]
  BY DEF ClientStateOK, CmdRecord

LEMMA NoCommandTyped ==
  NoCommand \in CmdRecord /\ NoCommand.pc = "idle" /\ NoCommand.pair = 0 /\ HandOK(NoCommand)
  BY ClientAssumption DEF NoCommand, CmdRecord, ClientSteps, Anyone, HandOK

LEMMA DoneMoves ==
  ASSUME ClientStateOK, NEW p \in Commands, Done(p)
  PROVE  /\ OnlyMoves(p) /\ KeepsHand(p) /\ HandOK(cmd'[p])
         /\ cmd'[p] = NoCommand /\ cmd'[p].pair = 0 /\ cmd'[p].pc = "idle"
<1>1. cmd' = [cmd EXCEPT ![p] = NoCommand] /\ cmd \in [Commands -> CmdRecord]
  BY CmdTyped DEF Done
<1>2. cmd'[p] = NoCommand /\ OnlyMoves(p)
  BY <1>1, NoCommandTyped DEF OnlyMoves
<1>3. QED BY <1>2, NoCommandTyped DEF KeepsHand

\* A command goes on with what it has.
LEMMA GoMoves ==
  ASSUME ClientStateOK, NEW p \in Commands, NEW s \in ClientSteps, Go(p, s)
  PROVE  /\ OnlyMoves(p) /\ KeepsHand(p)
         /\ cmd'[p].pc = s /\ cmd'[p].pair = cmd[p].pair /\ cmd'[p].user = cmd[p].user
         /\ cmd'[p].key = cmd[p].key /\ cmd'[p].drift = cmd[p].drift
         /\ cmd'[p].file = cmd[p].file /\ cmd'[p].back = cmd[p].back
  BY CmdTyped DEF Go, OnlyMoves, KeepsHand, CmdRecord

\* A command's record is replaced by another that holds the same pair.
LEMMA RecordMoves ==
  ASSUME cmd \in [Commands -> CmdRecord], NEW p \in Commands, NEW e \in CmdRecord,
         e.pair = cmd[p].pair, e.user = cmd[p].user, cmd' = [cmd EXCEPT ![p] = e]
  PROVE  OnlyMoves(p) /\ KeepsHand(p) /\ cmd'[p] = e
<1>1. cmd' \in [Commands -> CmdRecord]
  OBVIOUS
<1>2. \A q \in Commands : cmd'[q] = IF q = p THEN e ELSE cmd[q]
  OBVIOUS
<1>3. QED BY <1>1, <1>2 DEF OnlyMoves, KeepsHand

LEMMA FileMoves ==
  ASSUME ClientStateOK, NEW p \in Commands, NEW s \in ClientSteps,
         NEW F, F \subseteq FileIds,
         cmd' = [cmd EXCEPT ![p].pc = s, ![p].file = F]
  PROVE  /\ OnlyMoves(p) /\ KeepsHand(p)
         /\ cmd'[p].pc = s /\ cmd'[p].pair = cmd[p].pair /\ cmd'[p].user = cmd[p].user
         /\ cmd'[p].key = cmd[p].key /\ cmd'[p].drift = cmd[p].drift
         /\ cmd'[p].file = F /\ cmd'[p].back = cmd[p].back
<1>1. cmd \in [Commands -> CmdRecord]
  BY CmdTyped
<1>2. PICK c : c = cmd[p] /\ c \in CmdRecord
  BY <1>1
<1>3. PICK d : d = [c EXCEPT !.pc = s, !.file = F]
  OBVIOUS
<1>4. /\ d \in CmdRecord /\ d.pc = s /\ d.file = F
      /\ d.pair = c.pair /\ d.user = c.user /\ d.key = c.key
      /\ d.drift = c.drift /\ d.back = c.back
  BY <1>2, <1>3 DEF CmdRecord
<1>5. cmd' = [cmd EXCEPT ![p] = d]
  BY <1>1, <1>2, <1>3
<1>6. OnlyMoves(p) /\ KeepsHand(p) /\ cmd'[p] = d
  BY <1>1, <1>2, <1>4, <1>5, RecordMoves
<1>7. QED BY <1>2, <1>4, <1>6

LEMMA KeyMoves ==
  ASSUME ClientStateOK, NEW p \in Commands, NEW k \in Anyone, NEW d \in BOOLEAN,
         cmd' = [cmd EXCEPT ![p].pc = "ready", ![p].key = k, ![p].drift = d]
  PROVE  /\ OnlyMoves(p) /\ KeepsHand(p)
         /\ cmd'[p].pc = "ready" /\ cmd'[p].pair = cmd[p].pair /\ cmd'[p].user = cmd[p].user
         /\ cmd'[p].key = k /\ cmd'[p].drift = d
         /\ cmd'[p].file = cmd[p].file /\ cmd'[p].back = cmd[p].back
<1>1. cmd \in [Commands -> CmdRecord] /\ "ready" \in ClientSteps
  BY CmdTyped DEF ClientSteps
<1>2. PICK c : c = cmd[p] /\ c \in CmdRecord
  BY <1>1
<1>3. PICK e : e = [c EXCEPT !.pc = "ready", !.key = k, !.drift = d]
  OBVIOUS
<1>4. /\ e \in CmdRecord /\ e.pc = "ready" /\ e.key = k /\ e.drift = d
      /\ e.pair = c.pair /\ e.user = c.user /\ e.file = c.file /\ e.back = c.back
  BY <1>1, <1>2, <1>3 DEF CmdRecord
<1>5. cmd' = [cmd EXCEPT ![p] = e]
  BY <1>1, <1>2, <1>3
<1>6. OnlyMoves(p) /\ KeepsHand(p) /\ cmd'[p] = e
  BY <1>1, <1>2, <1>4, <1>5, RecordMoves
<1>7. QED BY <1>2, <1>4, <1>6

LEMMA SavedMoves ==
  ASSUME ClientStateOK, NEW p \in Commands,
         cmd' = [cmd EXCEPT ![p].pc = cmd[p].back, ![p].back = "idle"]
  PROVE  /\ OnlyMoves(p) /\ KeepsHand(p)
         /\ cmd'[p].pc = cmd[p].back /\ cmd'[p].pair = cmd[p].pair
         /\ cmd'[p].user = cmd[p].user /\ cmd'[p].key = cmd[p].key
         /\ cmd'[p].drift = cmd[p].drift /\ cmd'[p].file = cmd[p].file
<1>1. cmd \in [Commands -> CmdRecord] /\ "idle" \in ClientSteps
  BY CmdTyped DEF ClientSteps
<1>2. PICK c : c = cmd[p] /\ c \in CmdRecord
  BY <1>1
<1>3. PICK e : e = [c EXCEPT !.pc = c.back, !.back = "idle"]
  OBVIOUS
<1>4. /\ e \in CmdRecord /\ e.pc = c.back /\ e.pair = c.pair /\ e.user = c.user
      /\ e.key = c.key /\ e.drift = c.drift /\ e.file = c.file
  BY <1>1, <1>2, <1>3 DEF CmdRecord
<1>5. cmd' = [cmd EXCEPT ![p] = e]
  BY <1>1, <1>2, <1>3
<1>6. OnlyMoves(p) /\ KeepsHand(p) /\ cmd'[p] = e
  BY <1>1, <1>2, <1>4, <1>5, RecordMoves
<1>7. QED BY <1>2, <1>4, <1>6

LEMMA AdoptMoves ==
  ASSUME ClientStateOK, NEW p \in Commands, NEW n \in Pairs,
         cmd' = [cmd EXCEPT ![p] = Adopt(@, n)]
  PROVE  /\ OnlyMoves(p)
         /\ cmd'[p].pc = "rotated" /\ cmd'[p].pair = n /\ cmd'[p].user = cmd[p].user
         /\ cmd'[p].key = cmd[p].key /\ cmd'[p].drift = cmd[p].drift
         /\ cmd'[p].back = cmd[p].pc
<1>1. cmd \in [Commands -> CmdRecord] /\ n \in 0 .. MaxPairs
  BY CmdTyped, ClientAssumption DEF Pairs
<1>2. PICK c : c = Adopt(cmd[p], n)
  OBVIOUS
<1>3. c = [pc |-> "rotated", user |-> cmd[p].user, pair |-> n, key |-> cmd[p].key,
           drift |-> cmd[p].drift, file |-> cmd[p].file, back |-> cmd[p].pc]
  BY <1>1, <1>2 DEF Adopt, CmdRecord
<1>4. c \in CmdRecord
  BY <1>1, <1>3 DEF CmdRecord, ClientSteps
<1>5. cmd'[p] = c /\ OnlyMoves(p)
  BY <1>1, <1>2, <1>4 DEF OnlyMoves
<1>6. QED BY <1>3, <1>5

LEMMA BeginMoves ==
  ASSUME ClientStateOK, NEW p \in Commands, NEW s \in ClientSteps, NEW u \in Anyone,
         NEW n \in 0 .. MaxPairs,
         cmd' = [cmd EXCEPT ![p] = [NoCommand EXCEPT !.pc = s, !.user = u, !.pair = n]]
  PROVE  OnlyMoves(p) /\ cmd'[p].pc = s /\ cmd'[p].pair = n /\ cmd'[p].user = u
<1>1. PICK c : c = [NoCommand EXCEPT !.pc = s, !.user = u, !.pair = n]
  OBVIOUS
<1>2. /\ c = [pc |-> s, user |-> u, pair |-> n, key |-> NoOne,
              drift |-> FALSE, file |-> {}, back |-> "idle"]
      /\ c \in CmdRecord
  BY <1>1 DEF NoCommand, CmdRecord, ClientSteps, Anyone
<1>3. cmd'[p] = c /\ OnlyMoves(p)
  BY <1>1, <1>2, CmdTyped DEF OnlyMoves
<1>4. QED BY <1>2, <1>3

-----------------------------------------------------------------------------
\* The agent starts, stops or forgets, or a file goes: no command moves.
LEMMA Aside ==
  ASSUME PairsOwned, CalmKept, UNCHANGED <<sessionFile, issued, cmd, calm>>,
         agent'.bound # 0 => agent'.bound = agent.bound /\ agent'.owner = agent.owner
  PROVE  PairsOwned' /\ CalmKept'
<1>1. PairsOwned'
  BY DEF PairsOwned, PairOf
<1>2. CalmKept'
  BY DEF CalmKept, Unspent, FamilyOf
<1>3. QED BY <1>1, <1>2

\* A step of p that issues nothing: the session file stays, goes, or has the
\* pair of p, the agent keeps a key of the pair of p if it takes one, and a
\* rotation is saved unless the calm is over.
LEMMA Quietly ==
  ASSUME ClientStateOK, PairsOwned, CalmKept, NEW p \in Commands,
         OnlyMoves(p), KeepsHand(p), HandOK(cmd'[p]), UNCHANGED issued,
         \/ UNCHANGED sessionFile
         \/ sessionFile' = NoSession
         \/ sessionFile' = Loaded(p) /\ cmd[p].pair # 0,
         agent'.bound # 0 =>
           \/ agent'.bound = agent.bound /\ agent'.owner = agent.owner
           \/ agent'.bound = cmd[p].pair /\ agent'.owner = cmd[p].user,
         calm' => calm /\ (cmd[p].pc = "rotated" => sessionFile' = Loaded(p))
  PROVE  PairsOwned' /\ CalmKept'
<1>1. PairsOwned'
  <2>1. sessionFile'.pair # 0 =>
          /\ sessionFile'.pair \in Pairs /\ sessionFile'.user \in People
          /\ issued[sessionFile'.pair].user = sessionFile'.user
    BY DEF PairsOwned, PairOf, NoSession, Loaded
  <2>2. agent'.bound # 0 =>
          /\ agent'.bound \in Pairs /\ agent'.owner \in People
          /\ issued[agent'.bound].user = agent'.owner
    BY DEF PairsOwned, PairOf
  <2>3. \A q \in Commands : cmd'[q].pair # 0 =>
          /\ cmd'[q].pair \in Pairs /\ cmd'[q].user \in People
          /\ issued[cmd'[q].pair].user = cmd'[q].user
    BY DEF PairsOwned, PairOf, OnlyMoves, KeepsHand
  <2>4. \A q \in Commands : HandOK(cmd'[q])
    BY DEF PairsOwned, OnlyMoves
  <2>5. QED BY <2>1, <2>2, <2>3, <2>4 DEF PairsOwned, PairOf
<1>2. ASSUME calm'
      PROVE  /\ \A q, r \in Commands :
                  q # r /\ cmd'[q].pair # 0 /\ cmd'[r].pair # 0 =>
                    issued[cmd'[q].pair].family # issued[cmd'[r].pair].family
             /\ \A q \in Commands : cmd'[q].pair # 0 => Unspent(cmd'[q].pair)
             /\ sessionFile'.pair # 0 =>
                  \/ Unspent(sessionFile'.pair)
                  \/ \E q \in Commands :
                       /\ cmd'[q].pc = "rotated"
                       /\ issued[cmd'[q].pair].family = issued[sessionFile'.pair].family
  <2>1. \A q \in Commands : cmd'[q].pair # 0 => cmd'[q].pair = cmd[q].pair
    BY DEF OnlyMoves, KeepsHand
  <2>2. \A q, r \in Commands :
          q # r /\ cmd'[q].pair # 0 /\ cmd'[r].pair # 0 =>
            issued[cmd'[q].pair].family # issued[cmd'[r].pair].family
    BY <1>2, <2>1 DEF CalmKept, FamilyOf
  <2>3. \A q \in Commands : cmd'[q].pair # 0 => Unspent(cmd'[q].pair)
    BY <1>2, <2>1 DEF CalmKept
  <2>4. ASSUME sessionFile' = Loaded(p), cmd[p].pair # 0
        PROVE  Unspent(sessionFile'.pair)
    BY <1>2, <2>4 DEF Loaded, CalmKept
  <2>5. ASSUME UNCHANGED sessionFile, sessionFile.pair # 0
        PROVE  \/ Unspent(sessionFile'.pair)
               \/ \E q \in Commands :
                    /\ cmd'[q].pc = "rotated"
                    /\ issued[cmd'[q].pair].family = issued[sessionFile'.pair].family
    <3>1. CASE cmd[p].pc = "rotated"
      <4>1. sessionFile' = Loaded(p) /\ cmd[p].pair # 0
        BY <1>2, <3>1 DEF PairsOwned, HandOK
      <4>2. QED BY <2>4, <4>1
    <3>2. CASE cmd[p].pc # "rotated"
      <4>1. CASE Unspent(sessionFile.pair)
        BY <2>5, <4>1
      <4>2. CASE \E q \in Commands :
                   /\ cmd[q].pc = "rotated"
                   /\ FamilyOf(cmd[q].pair) = FamilyOf(sessionFile.pair)
        <5>1. PICK q \in Commands : cmd[q].pc = "rotated"
                   /\ FamilyOf(cmd[q].pair) = FamilyOf(sessionFile.pair)
          BY <4>2
        <5>2. cmd'[q] = cmd[q]
          BY <3>2, <5>1 DEF OnlyMoves
        <5>3. QED BY <2>5, <5>1, <5>2 DEF FamilyOf
      <4>3. QED BY <1>2, <2>5, <4>1, <4>2 DEF CalmKept
    <3>3. QED BY <3>1, <3>2
  <2>6. QED BY <2>2, <2>3, <2>4, <2>5 DEF NoSession
<1>3. CalmKept'
  BY <1>2 DEF CalmKept, FamilyOf, Unspent
<1>4. QED BY <1>1, <1>3

SessionRecord == [user: Anyone, pair: 0 .. MaxPairs]
AgentRecord == [up: BOOLEAN, owner: Anyone, bound: 0 .. MaxPairs]

\* What such a step leaves of the types, when no file is written.
LEMMA QuietlyTyped ==
  ASSUME ClientStateOK, NEW p \in Commands, OnlyMoves(p), UNCHANGED server,
         sessionFile' \in SessionRecord, agent' \in AgentRecord,
         digests' \subseteq FileIds,
         calm' \in BOOLEAN, reused' \in BOOLEAN
  PROVE  ClientStateOK'
  BY DEF ClientStateOK, OnlyMoves, CmdRecord, server, SessionRecord, AgentRecord

LEMMA HeldTyped ==
  ASSUME ClientStateOK
  PROVE  /\ sessionFile \in SessionRecord /\ agent \in AgentRecord
         /\ digests \subseteq FileIds /\ NoSession \in SessionRecord
         /\ calm \in BOOLEAN /\ reused \in BOOLEAN
         /\ \A p \in Commands :
              /\ Loaded(p) \in SessionRecord
              /\ cmd[p] \in CmdRecord
              /\ cmd[p].file \subseteq FileIds /\ cmd[p].user \in Anyone
              /\ cmd[p].pair \in 0 .. MaxPairs /\ cmd[p].pc \in ClientSteps
<1>1. NoSession \in SessionRecord
  BY ClientAssumption DEF NoSession, SessionRecord, Anyone
<1>2. cmd \in [Commands -> CmdRecord]
  BY CmdTyped
<1>3. \A p \in Commands : Loaded(p) \in SessionRecord
  BY <1>2 DEF CmdRecord, Loaded, SessionRecord
<1>4. QED BY <1>1, <1>2, <1>3 DEF ClientStateOK, SessionRecord, AgentRecord, CmdRecord

LEMMA KeyHeldTyped ==
  ASSUME ClientStateOK, NEW u \in Anyone, NEW n \in 0 .. MaxPairs,
         Hold([owner |-> u, bound |-> n])
  PROVE  agent' \in AgentRecord /\ agent'.owner = u /\ agent'.bound = n
<1>1. agent' = [up |-> agent.up, owner |-> u, bound |-> n]
  BY DEF Hold
<1>2. QED BY <1>1 DEF ClientStateOK, AgentRecord

LEMMA WipeTyped ==
  ASSUME ClientStateOK, Wipe
  PROVE  agent' \in AgentRecord /\ agent'.bound = 0 /\ digests' = {}
<1>1. agent' = [up |-> agent.up, owner |-> NoOne, bound |-> 0] /\ digests' = {}
  BY DEF Wipe, Hold, NoKey
<1>2. QED BY <1>1, ClientAssumption DEF ClientStateOK, AgentRecord, Anyone

FileRecord == [owner: Anyone, key: Anyone, drift: BOOLEAN, there: BOOLEAN]

\* A file is deleted: its owner and its key are what they were.
LEMMA FileGoes ==
  ASSUME ClientStateOK, KeyOfOwner, NEW f \in FileIds,
         files' = [files EXCEPT ![f].there = FALSE]
  PROVE  files' \in [FileIds -> FileRecord] /\ KeyOfOwner'
<1>1. files \in [FileIds -> FileRecord]
  BY DEF ClientStateOK, FileRecord
<1>2. files' \in [FileIds -> FileRecord]
  BY <1>1 DEF FileRecord
<1>3. \A g \in FileIds :
        /\ files'[g].owner = files[g].owner /\ files'[g].key = files[g].key
        /\ files'[g].drift = files[g].drift
  BY <1>1 DEF FileRecord
<1>4. \A g \in FileIds : files[g] = NoFileYet => files[g].key = files[g].owner
  BY DEF NoFileYet
<1>5. QED BY <1>2, <1>3, <1>4 DEF KeyOfOwner

-----------------------------------------------------------------------------
(* Each action keeps the invariant.                                        *)

LEMMA AsideKeeps ==
  ASSUME ClientInv, AgentStarts \/ AgentStops \/ KeyExpires \/ DeletedElsewhere
  PROVE  ClientInv'
<1>1. ClientStateOK'
  <2>1. ASSUME AgentStarts PROVE ClientStateOK'
    BY <2>1 DEF ClientInv, ClientStateOK, AgentStarts, server, history
  <2>2. ASSUME AgentStops PROVE ClientStateOK'
    BY <2>2, ClientAssumption DEF ClientInv, ClientStateOK, AgentStops, server, history, Anyone
  <2>3. ASSUME KeyExpires PROVE ClientStateOK'
    <3>1. agent' \in AgentRecord /\ digests' = {}
      BY <2>3, WipeTyped DEF KeyExpires, ClientInv
    <3>2. QED BY <2>3, <3>1 DEF ClientInv, ClientStateOK, KeyExpires, server, history, AgentRecord
  <2>4. ASSUME DeletedElsewhere PROVE ClientStateOK'
    <3>1. files' \in [FileIds -> FileRecord]
      BY <2>4, FileGoes DEF ClientInv, ClientHolds, DeletedElsewhere, Vanishes
    <3>2. UNCHANGED <<sessionFile, agent, digests, issued, cmd, calm, reused>>
      BY <2>4 DEF DeletedElsewhere, Vanishes
    <3>3. QED BY <3>1, <3>2 DEF ClientInv, ClientStateOK, FileRecord
  <2>5. QED BY <2>1, <2>2, <2>3, <2>4
<1>2. PairsOwned' /\ CalmKept'
  <2>1. agent'.bound # 0 => agent'.bound = agent.bound /\ agent'.owner = agent.owner
    BY WipeTyped DEF ClientInv, ClientStateOK, AgentStarts, AgentStops, KeyExpires,
       DeletedElsewhere, Vanishes
  <2>2. UNCHANGED <<sessionFile, issued, cmd, calm>>
    BY DEF AgentStarts, AgentStops, KeyExpires, DeletedElsewhere, Vanishes, server, history
  <2>3. QED BY <2>1, <2>2, Aside DEF ClientInv
<1>3. ClientHolds'
  <2>1. CASE DeletedElsewhere
    <3>1. KeyOfOwner'
      BY <2>1, FileGoes DEF ClientInv, ClientHolds, DeletedElsewhere, Vanishes
    <3>2. QED BY <2>1, <3>1 DEF ClientInv, ClientHolds, SessionSurvives,
                              DeletedElsewhere, Vanishes
  <2>2. CASE AgentStarts \/ AgentStops \/ KeyExpires
    BY <2>2 DEF ClientInv, ClientHolds, KeyOfOwner, SessionSurvives,
                AgentStarts, AgentStops, KeyExpires, server, history
  <2>3. QED BY <2>1, <2>2
<1>4. QED BY <1>1, <1>2, <1>3 DEF ClientInv

\* The history and the files stay.
LEMMA HoldsOn ==
  ASSUME ClientHolds, UNCHANGED <<files, reused>>
  PROVE  ClientHolds'
  BY DEF ClientHolds, KeyOfOwner, SessionSurvives

\* A quiet step that sets no history but, maybe, the calm.
LEMMA QuietStep ==
  ASSUME ClientInv, NEW p \in Commands,
         OnlyMoves(p), KeepsHand(p), HandOK(cmd'[p]),
         UNCHANGED <<issued, files, reused>>,
         \/ sessionFile' = sessionFile
         \/ sessionFile' = NoSession
         \/ sessionFile' = Loaded(p) /\ cmd[p].pair # 0,
         agent' \in AgentRecord,
         agent'.bound # 0 =>
           \/ agent'.bound = agent.bound /\ agent'.owner = agent.owner
           \/ agent'.bound = cmd[p].pair /\ agent'.owner = cmd[p].user,
         digests' \subseteq FileIds,
         calm' \in BOOLEAN,
         calm' => calm /\ (cmd[p].pc = "rotated" => sessionFile' = Loaded(p))
  PROVE  ClientInv'
<1>1. PairsOwned' /\ CalmKept'
  BY Quietly DEF ClientInv
<1>2. sessionFile' \in SessionRecord
  BY HeldTyped DEF ClientInv
<1>3. ClientStateOK'
  BY <1>2, QuietlyTyped, HeldTyped DEF ClientInv, server
<1>4. ClientHolds'
  BY HoldsOn DEF ClientInv
<1>5. QED BY <1>1, <1>3, <1>4 DEF ClientInv

\* A command that ends where no rotation is pending.
LEMMA DoneKeeps ==
  ASSUME ClientInv, NEW p \in Commands, Done(p), cmd[p].pc # "rotated",
         UNCHANGED <<issued, files, calm, reused>>,
         sessionFile' = sessionFile \/ sessionFile' = NoSession,
         agent' \in AgentRecord,
         agent'.bound # 0 => agent'.bound = agent.bound /\ agent'.owner = agent.owner,
         digests' \subseteq FileIds
  PROVE  ClientInv'
<1>1. OnlyMoves(p) /\ KeepsHand(p) /\ HandOK(cmd'[p])
  BY DoneMoves DEF ClientInv
<1>2. calm' \in BOOLEAN
  BY HeldTyped DEF ClientInv
<1>3. QED BY <1>1, <1>2, QuietStep

LEMMA LoginKeeps ==
  ASSUME ClientInv, NEW p \in Commands,
         LoginSaved(p) \/ KeyStored(p) \/ FilesListed(p) \/ CacheFilled(p)
  PROVE  ClientInv'
<1>0. /\ HandOK(cmd[p]) /\ ClientStateOK
      /\ agent \in AgentRecord /\ digests \subseteq FileIds /\ calm \in BOOLEAN
      /\ cmd[p].user \in Anyone /\ cmd[p].pair \in 0 .. MaxPairs
      /\ cmd[p].file \subseteq FileIds
  BY HeldTyped DEF ClientInv, PairsOwned
<1>1. ASSUME LoginSaved(p) PROVE ClientInv'
  <2>1. /\ OnlyMoves(p) /\ KeepsHand(p) /\ cmd'[p].pc = "store"
        /\ cmd'[p].pair = cmd[p].pair
    BY <1>0, <1>1, GoMoves DEF LoginSaved, ClientSteps
  <2>2. HandOK(cmd'[p]) /\ cmd[p].pair # 0 /\ cmd[p].pc # "rotated"
    BY <1>0, <1>1, <2>1 DEF HandOK, LoginSaved, Is
  <2>3. QED BY <1>0, <1>1, <2>1, <2>2, QuietStep DEF LoginSaved, server, history
<1>2. ASSUME KeyStored(p) PROVE ClientInv'
  <2>1. /\ OnlyMoves(p) /\ KeepsHand(p) /\ cmd'[p].pc = "list"
        /\ cmd'[p].pair = cmd[p].pair
    BY <1>0, <1>2, GoMoves DEF KeyStored, ClientSteps
  <2>2. HandOK(cmd'[p]) /\ cmd[p].pc # "rotated"
    BY <1>0, <1>2, <2>1 DEF HandOK, KeyStored, Is
  <2>3. /\ agent' \in AgentRecord /\ digests' \subseteq FileIds
        /\ \/ agent' = agent
           \/ agent'.bound = cmd[p].pair /\ agent'.owner = cmd[p].user
    <3>1. CASE agent.up
      BY <1>0, <1>2, <3>1, KeyHeldTyped DEF KeyStored, TakeKey
    <3>2. CASE ~agent.up
      BY <1>0, <1>2, <3>2 DEF KeyStored, KeepAgent
    <3>3. QED BY <3>1, <3>2
  <2>4. UNCHANGED <<sessionFile, issued, files, calm, reused>>
    BY <1>2 DEF KeyStored, server, history
  <2>5. QED BY <1>0, <2>1, <2>2, <2>3, <2>4, QuietStep
<1>3. ASSUME FilesListed(p) PROVE ClientInv'
  <2>1. PICK F : F = {f \in OwnFiles(cmd[p].user) : files[f].key = cmd[p].user}
    OBVIOUS
  <2>2. F \subseteq FileIds
    BY <2>1 DEF OwnFiles
  <2>3. /\ OnlyMoves(p) /\ KeepsHand(p) /\ cmd'[p].pc = "fill"
        /\ cmd'[p].pair = cmd[p].pair
    <3>1. cmd' = [cmd EXCEPT ![p].pc = "fill", ![p].file = F] /\ "fill" \in ClientSteps
      BY <1>3, <2>1 DEF FilesListed, ClientSteps
    <3>2. QED BY <1>0, <2>2, <3>1, FileMoves
  <2>4. HandOK(cmd'[p]) /\ cmd[p].pc # "rotated"
    BY <1>0, <1>3, <2>3 DEF HandOK, FilesListed, Is
  <2>5. UNCHANGED <<sessionFile, agent, digests, issued, files, calm, reused>>
    BY <1>3 DEF FilesListed, server, history
  <2>6. QED BY <1>0, <2>3, <2>4, <2>5, QuietStep
<1>4. ASSUME CacheFilled(p) PROVE ClientInv'
  <2>1. digests' \subseteq FileIds /\ cmd[p].pc # "rotated"
    BY <1>0, <1>4 DEF CacheFilled, Is
  <2>2. UNCHANGED <<sessionFile, agent, issued, files, calm, reused>> /\ Done(p)
    BY <1>4 DEF CacheFilled, server, history
  <2>3. QED BY <1>0, <2>1, <2>2, DoneKeeps
<1>5. QED BY <1>1, <1>2, <1>3, <1>4

LEMMA KeyKeeps ==
  ASSUME ClientInv, NEW p \in Commands, KeyGiven(p) \/ KeyRefused(p)
  PROVE  ClientInv'
<1>0. /\ HandOK(cmd[p]) /\ ClientStateOK
      /\ agent \in AgentRecord /\ digests \subseteq FileIds /\ calm \in BOOLEAN
  BY HeldTyped DEF ClientInv, PairsOwned
<1>1. ASSUME KeyGiven(p) PROVE ClientInv'
  <2>1. agent.owner = sessionFile.user /\ agent.owner \in Anyone
    BY <1>0, <1>1 DEF KeyGiven, BoundTo, ClientInv, PairsOwned, PairOf, AgentRecord
  <2>2. /\ OnlyMoves(p) /\ KeepsHand(p) /\ cmd'[p].pc = "ready"
        /\ cmd'[p].pair = cmd[p].pair /\ cmd'[p].user = cmd[p].user
        /\ cmd'[p].key = agent.owner
        /\ cmd'[p].drift = (sessionFile.user # cmd[p].user)
    <3>1. PICK k, d : k = agent.owner /\ d = (sessionFile.user # cmd[p].user)
      OBVIOUS
    <3>2. k \in Anyone /\ d \in BOOLEAN
      BY <2>1, <3>1
    <3>3. cmd' = [cmd EXCEPT ![p].pc = "ready", ![p].key = k, ![p].drift = d]
      BY <1>1, <3>1 DEF KeyGiven
    <3>4. QED BY <1>0, <3>1, <3>2, <3>3, KeyMoves
  <2>3. HandOK(cmd'[p]) /\ cmd[p].pc # "rotated"
    BY <1>0, <1>1, <2>1, <2>2 DEF HandOK, KeyGiven, Is
  <2>4. UNCHANGED <<sessionFile, agent, digests, issued, files, calm, reused>>
    BY <1>1 DEF KeyGiven, server, history
  <2>5. QED BY <1>0, <2>2, <2>3, <2>4, QuietStep
<1>2. ASSUME KeyRefused(p) PROVE ClientInv'
  <2>1. /\ agent' \in AgentRecord /\ digests' \subseteq FileIds
        /\ agent' = agent \/ agent'.bound = 0
    <3>1. CASE sessionFile.pair # 0 /\ agent.bound # 0
      BY <1>0, <1>2, <3>1, WipeTyped DEF KeyRefused
    <3>2. CASE ~(sessionFile.pair # 0 /\ agent.bound # 0)
      BY <1>0, <1>2, <3>2 DEF KeyRefused, KeepAgent
    <3>3. QED BY <3>1, <3>2
  <2>2. UNCHANGED <<sessionFile, issued, files, calm, reused>> /\ Done(p)
        /\ cmd[p].pc # "rotated"
    BY <1>2 DEF KeyRefused, server, history, Is
  <2>3. QED BY <2>1, <2>2, DoneKeeps
<1>3. QED BY <1>1, <1>2

\* A command that works on a file goes on, to where it needs no more than it has.
LEMMA FileStepKeeps ==
  ASSUME ClientInv, NEW p \in Commands, NEW F, F \subseteq FileIds, NEW s \in ClientSteps,
         cmd' = [cmd EXCEPT ![p].pc = s, ![p].file = F],
         cmd[p].pc \in {"ready", "hit", "stale", "added"},
         s \in {"ready", "hit", "sending"}, s = "hit" => F # {},
         UNCHANGED <<sessionFile, agent, issued, files, calm, reused>>,
         digests' \subseteq FileIds
  PROVE  ClientInv'
<1>1. HandOK(cmd[p]) /\ ClientStateOK /\ agent \in AgentRecord /\ calm \in BOOLEAN
  BY HeldTyped DEF ClientInv, PairsOwned
<1>2. /\ OnlyMoves(p) /\ KeepsHand(p) /\ cmd'[p].pc = s /\ cmd'[p].pair = cmd[p].pair
      /\ cmd'[p].user = cmd[p].user /\ cmd'[p].key = cmd[p].key
      /\ cmd'[p].drift = cmd[p].drift /\ cmd'[p].file = F
  BY <1>1, CmdTyped DEF OnlyMoves, KeepsHand, CmdRecord
<1>3. HandOK(cmd'[p])
  BY <1>1, <1>2 DEF HandOK
<1>4. QED BY <1>1, <1>2, <1>3, QuietStep

LEMMA UploadKeeps ==
  ASSUME ClientInv, NEW p \in Commands,
         \/ DigestFound(p) \/ IsDuplicate(p) \/ TakenForDuplicate(p) \/ NotConfirmed(p)
         \/ StaleDigestRemoved(p) \/ DigestAdded(p)
  PROVE  ClientInv'
<1>0. /\ HandOK(cmd[p]) /\ ClientStateOK
      /\ agent \in AgentRecord /\ digests \subseteq FileIds /\ calm \in BOOLEAN
      /\ cmd[p].file \subseteq FileIds
      /\ {"ready", "hit", "stale", "sending", "added"} \subseteq ClientSteps
  BY HeldTyped DEF ClientInv, PairsOwned, ClientSteps
<1>1. ASSUME DigestFound(p) PROVE ClientInv'
  <2>1. PICK f \in digests : cmd' = [cmd EXCEPT ![p].pc = "hit", ![p].file = {f}]
    BY <1>1 DEF DigestFound
  <2>2. UNCHANGED <<sessionFile, agent, digests, issued, files, calm, reused>>
    BY <1>1 DEF DigestFound, server, history
  <2>3. {f} \subseteq FileIds /\ {f} # {} /\ "hit" \in ClientSteps
    BY <1>0
  <2>4. cmd[p].pc \in {"ready", "hit", "stale", "added"}
    BY <1>1 DEF DigestFound, Is
  <2>5. QED BY <1>0, <2>1, <2>2, <2>3, <2>4, FileStepKeeps
<1>2. ASSUME IsDuplicate(p) \/ TakenForDuplicate(p) \/ DigestAdded(p)
      PROVE  ClientInv'
  <2>1. cmd' = [cmd EXCEPT ![p].pc = "ready", ![p].file = {}] /\ "ready" \in ClientSteps
    BY <1>0, <1>2 DEF IsDuplicate, TakenForDuplicate, Refused, DigestAdded
  <2>2. UNCHANGED <<sessionFile, agent, issued, files, calm, reused>>
        /\ digests' \subseteq FileIds
    BY <1>0, <1>2 DEF IsDuplicate, TakenForDuplicate, Refused, DigestAdded, server, history
  <2>3. cmd[p].pc \in {"ready", "hit", "stale", "added"}
    BY <1>2 DEF IsDuplicate, TakenForDuplicate, Refused, DigestAdded, Is
  <2>4. {} \subseteq FileIds
    OBVIOUS
  <2>5. QED BY <2>1, <2>2, <2>3, <2>4, FileStepKeeps
<1>3. ASSUME StaleDigestRemoved(p) PROVE ClientInv'
  <2>1. cmd' = [cmd EXCEPT ![p].pc = "sending", ![p].file = {}] /\ "sending" \in ClientSteps
    BY <1>0, <1>3 DEF StaleDigestRemoved
  <2>2. UNCHANGED <<sessionFile, agent, issued, files, calm, reused>>
        /\ digests' \subseteq FileIds
    BY <1>0, <1>3 DEF StaleDigestRemoved, server, history
  <2>3. cmd[p].pc \in {"ready", "hit", "stale", "added"}
    BY <1>3 DEF StaleDigestRemoved, Is
  <2>4. {} \subseteq FileIds
    OBVIOUS
  <2>5. QED BY <2>1, <2>2, <2>3, <2>4, FileStepKeeps
<1>4. ASSUME NotConfirmed(p) PROVE ClientInv'
  <2>1. /\ OnlyMoves(p) /\ KeepsHand(p) /\ cmd'[p].pc = "stale"
        /\ cmd'[p].pair = cmd[p].pair /\ cmd'[p].user = cmd[p].user
        /\ cmd'[p].key = cmd[p].key /\ cmd'[p].drift = cmd[p].drift
    BY <1>0, <1>4, GoMoves DEF NotConfirmed
  <2>2. HandOK(cmd'[p]) /\ cmd[p].pc # "rotated"
    BY <1>0, <1>4, <2>1 DEF HandOK, NotConfirmed, Is
  <2>3. UNCHANGED <<sessionFile, agent, digests, issued, files, calm, reused>>
    BY <1>4 DEF NotConfirmed, server, history
  <2>4. QED BY <1>0, <2>1, <2>2, <2>3, QuietStep
<1>5. QED BY <1>1, <1>2, <1>3, <1>4

LEMMA EndKeeps ==
  ASSUME ClientInv, NEW p \in Commands,
         \/ RotationSaved(p) \/ DigestRemoved(p) \/ AgentCleared(p)
         \/ SessionRemoved(p) \/ Ends(p)
  PROVE  ClientInv'
<1>0. /\ HandOK(cmd[p]) /\ ClientStateOK /\ cmd[p] \in CmdRecord
      /\ agent \in AgentRecord /\ digests \subseteq FileIds /\ calm \in BOOLEAN
  BY HeldTyped DEF ClientInv, PairsOwned
<1>1. ASSUME RotationSaved(p) PROVE ClientInv'
  <2>1. /\ OnlyMoves(p) /\ KeepsHand(p) /\ cmd'[p].pc = cmd[p].back
        /\ cmd'[p].pair = cmd[p].pair /\ cmd'[p].user = cmd[p].user
        /\ cmd'[p].key = cmd[p].key /\ cmd'[p].drift = cmd[p].drift
    BY <1>0, <1>1, SavedMoves DEF RotationSaved
  <2>2. HandOK(cmd'[p]) /\ cmd[p].pair # 0
    BY <1>0, <1>1, <2>1 DEF HandOK, RotationSaved, Is
  <2>3. /\ UNCHANGED <<agent, digests, issued, files, reused>>
        /\ sessionFile' = Loaded(p) \/ sessionFile' = sessionFile
        /\ calm' \in BOOLEAN /\ (calm' => calm /\ sessionFile' = Loaded(p))
    <3>1. UNCHANGED <<agent, digests, issued, files, reused>>
      BY <1>1 DEF RotationSaved, server
    <3>2. CASE sessionFile' = Loaded(p) /\ UNCHANGED calm
      BY <1>0, <3>1, <3>2
    <3>3. CASE sessionFile' = sessionFile /\ calm' = FALSE
      BY <3>1, <3>3
    <3>4. QED BY <1>1, <3>2, <3>3 DEF RotationSaved
  <2>4. QED BY <1>0, <2>1, <2>2, <2>3, QuietStep
<1>2. ASSUME DigestRemoved(p) PROVE ClientInv'
  <2>1. /\ Done(p) /\ cmd[p].pc # "rotated" /\ digests' \subseteq FileIds
        /\ UNCHANGED <<sessionFile, agent, issued, files, calm, reused>>
    BY <1>0, <1>2 DEF DigestRemoved, Without, server, Is
  <2>2. QED BY <1>0, <2>1, DoneKeeps
<1>3. ASSUME AgentCleared(p) PROVE ClientInv'
  <2>1. /\ OnlyMoves(p) /\ KeepsHand(p) /\ cmd'[p].pc = "remove"
    BY <1>0, <1>3, GoMoves DEF AgentCleared, ClientSteps
  <2>2. HandOK(cmd'[p]) /\ cmd[p].pc # "rotated"
    BY <1>3, <2>1 DEF HandOK, AgentCleared, Is
  <2>3. agent' \in AgentRecord /\ agent'.bound = 0 /\ digests' \subseteq FileIds
    BY <1>0, <1>3, WipeTyped DEF AgentCleared
  <2>4. UNCHANGED <<sessionFile, issued, files, calm, reused>>
    BY <1>3 DEF AgentCleared, server, history
  <2>5. QED BY <1>0, <2>1, <2>2, <2>3, <2>4, QuietStep
<1>4. ASSUME SessionRemoved(p) PROVE ClientInv'
  <2>1. /\ Done(p) /\ cmd[p].pc # "rotated" /\ sessionFile' = NoSession
        /\ UNCHANGED <<digests, agent, issued, files, calm, reused>>
    BY <1>4 DEF SessionRemoved, server, history, Is
  <2>2. QED BY <1>0, <2>1, DoneKeeps
<1>5. ASSUME Ends(p) PROVE ClientInv'
  <2>1. OnlyMoves(p) /\ KeepsHand(p) /\ HandOK(cmd'[p])
    BY <1>0, <1>5, DoneMoves DEF Ends
  <2>2. /\ UNCHANGED <<sessionFile, agent, digests, issued, files, reused>>
        /\ calm' \in BOOLEAN /\ (calm' => calm /\ cmd[p].pc # "rotated")
    BY <1>0, <1>5 DEF Ends, server, Is
  <2>3. QED BY <1>0, <2>1, <2>2, QuietStep
<1>6. QED BY <1>1, <1>2, <1>3, <1>4, <1>5

-----------------------------------------------------------------------------
(* The steps that write files.                                             *)

LEMMA FileKeeps ==
  ASSUME ClientInv, NEW p \in Commands, Uploaded(p) \/ FileDeleted(p)
  PROVE  ClientInv'
<1>0. /\ HandOK(cmd[p]) /\ ClientStateOK /\ cmd[p] \in CmdRecord
      /\ calm \in BOOLEAN /\ KeyOfOwner
      /\ files \in [FileIds -> FileRecord]
  BY HeldTyped DEF ClientInv, PairsOwned, ClientHolds, ClientStateOK, FileRecord
<1>1. UNCHANGED <<sessionFile, agent, digests, issued, calm, reused>>
  BY DEF Uploaded, FileDeleted, Vanishes, history
<1>2. /\ OnlyMoves(p) /\ KeepsHand(p) /\ HandOK(cmd'[p]) /\ cmd[p].pc # "rotated"
      /\ files' \in [FileIds -> FileRecord] /\ KeyOfOwner'
  <2>1. CASE Uploaded(p)
    <3>1. PICK f \in FileIds :
            /\ files[f] = NoFileYet
            /\ files' = [files EXCEPT ![f] = [owner |-> cmd[p].user, key |-> cmd[p].key,
                                              drift |-> cmd[p].drift, there |-> TRUE]]
            /\ cmd' = [cmd EXCEPT ![p].pc = "added", ![p].file = {f}]
      BY <2>1 DEF Uploaded
    <3>2. /\ OnlyMoves(p) /\ KeepsHand(p) /\ cmd'[p].pc = "added"
          /\ cmd'[p].pair = cmd[p].pair /\ cmd'[p].user = cmd[p].user
          /\ cmd'[p].key = cmd[p].key /\ cmd'[p].drift = cmd[p].drift
      BY <1>0, <3>1, CmdTyped DEF OnlyMoves, KeepsHand, CmdRecord, ClientSteps
    <3>3. HandOK(cmd'[p]) /\ cmd[p].pc # "rotated" /\ (cmd[p].drift \/ cmd[p].key = cmd[p].user)
      BY <1>0, <2>1, <3>2 DEF HandOK, Uploaded, Is
    <3>4. files' \in [FileIds -> FileRecord]
      BY <1>0, <3>1 DEF FileRecord, CmdRecord
    <3>5. KeyOfOwner'
      <4>1. /\ files'[f].owner = cmd[p].user /\ files'[f].key = cmd[p].key
            /\ files'[f].drift = cmd[p].drift
        BY <1>0, <3>1
      <4>2. \A g \in FileIds : g # f => files'[g] = files[g]
        BY <1>0, <3>1
      <4>3. QED BY <1>0, <3>3, <4>1, <4>2 DEF KeyOfOwner
    <3>6. QED BY <3>2, <3>3, <3>4, <3>5
  <2>2. CASE FileDeleted(p)
    <3>1. PICK f \in OwnFiles(cmd[p].user) :
            /\ files' = [files EXCEPT ![f].there = FALSE]
            /\ cmd' = [cmd EXCEPT ![p].pc = "deleted", ![p].file = {f}]
      BY <2>2 DEF FileDeleted, Vanishes
    <3>2. f \in FileIds
      BY DEF OwnFiles
    <3>3. /\ OnlyMoves(p) /\ KeepsHand(p) /\ cmd'[p].pc = "deleted"
          /\ cmd'[p].pair = cmd[p].pair
      BY <1>0, <3>1, <3>2, CmdTyped DEF OnlyMoves, KeepsHand, CmdRecord, ClientSteps
    <3>4. HandOK(cmd'[p]) /\ cmd[p].pc # "rotated"
      BY <1>0, <2>2, <3>3 DEF HandOK, FileDeleted, Is
    <3>5. files' \in [FileIds -> FileRecord] /\ KeyOfOwner'
      BY <1>0, <3>1, <3>2, FileGoes
    <3>6. QED BY <3>3, <3>4, <3>5
  <2>3. QED BY <2>1, <2>2
<1>3. PairsOwned' /\ CalmKept'
  BY <1>0, <1>1, <1>2, Quietly DEF ClientInv
<1>4. ClientStateOK'
  BY <1>0, <1>1, <1>2 DEF ClientStateOK, FileRecord, OnlyMoves, CmdRecord
<1>5. ClientHolds'
  BY <1>1, <1>2 DEF ClientInv, ClientHolds, SessionSurvives
<1>6. QED BY <1>3, <1>4, <1>5 DEF ClientInv

-----------------------------------------------------------------------------
(* The steps that load a session, or get tokens or a refusal.              *)

TokenRecord ==
  [user: Anyone, family: 0 .. MaxPairs, used: BOOLEAN, revoked: BOOLEAN, ended: BOOLEAN]

\* At most more pairs are revoked or ended.
FlagsOnly ==
  \A n \in Pairs :
    /\ issued'[n].user = issued[n].user /\ issued'[n].family = issued[n].family
    /\ issued'[n].used = issued[n].used
    /\ issued[n].revoked => issued'[n].revoked

LEMMA SessionLoaded ==
  ASSUME ClientInv, NEW p \in Commands, NEW s \in {"begun", "delete", "clear"},
         LoadSession(p, s), FlagsOnly, issued' \in [Pairs -> TokenRecord],
         UNCHANGED <<sessionFile, agent, digests, files, reused>>
  PROVE  ClientInv'
<1>0. /\ ClientStateOK /\ PairsOwned /\ sessionFile \in SessionRecord
      /\ calm \in BOOLEAN /\ HandOK(cmd[p])
      /\ PairOf(sessionFile.pair, sessionFile.user) /\ sessionFile.pair # 0
      /\ cmd[p].pc = "idle"
  BY HeldTyped DEF ClientInv, PairsOwned, LoadSession, Is
<1>1. /\ OnlyMoves(p) /\ cmd'[p].pc = s /\ cmd'[p].pair = sessionFile.pair
      /\ cmd'[p].user = sessionFile.user
  <2>1. PICK u, n : u = sessionFile.user /\ n = sessionFile.pair
    OBVIOUS
  <2>2. u \in Anyone /\ n \in 0 .. MaxPairs /\ s \in ClientSteps
    BY <1>0, <2>1 DEF SessionRecord, ClientSteps
  <2>3. cmd' = [cmd EXCEPT ![p] = [NoCommand EXCEPT !.pc = s, !.user = u, !.pair = n]]
    BY <2>1 DEF LoadSession
  <2>4. OnlyMoves(p) /\ cmd'[p].pc = s /\ cmd'[p].pair = n /\ cmd'[p].user = u
    BY <1>0, <2>2, <2>3, BeginMoves
  <2>5. QED BY <2>1, <2>4
<1>2. HandOK(cmd'[p])
  BY <1>0, <1>1 DEF HandOK
<1>3. PairsOwned'
  BY <1>0, <1>1, <1>2 DEF PairsOwned, PairOf, OnlyMoves, FlagsOnly
<1>4. ASSUME calm'
      PROVE  /\ calm
             /\ \A q \in Commands \ {p} : cmd[q].pair # 0 =>
                  issued[cmd[q].pair].family # issued[sessionFile.pair].family
             /\ Unspent(sessionFile.pair)
  <2>1. calm /\ ~SharesSession(p)
    BY <1>4 DEF LoadSession
  <2>2. \A q \in Commands \ {p} : cmd[q].pair # 0 =>
          issued[cmd[q].pair].family # issued[sessionFile.pair].family
    BY <2>1 DEF SharesSession
  <2>3. ASSUME NEW q \in Commands, cmd[q].pc = "rotated",
               FamilyOf(cmd[q].pair) = FamilyOf(sessionFile.pair)
        PROVE  FALSE
    <3>1. q # p /\ cmd[q].pair # 0
      BY <1>0, <2>3 DEF PairsOwned, HandOK
    <3>2. QED BY <2>2, <2>3, <3>1 DEF FamilyOf
  <2>4. Unspent(sessionFile.pair)
    BY <1>0, <2>1, <2>3 DEF ClientInv, CalmKept
  <2>5. QED BY <2>1, <2>2, <2>4
<1>5. CalmKept'
  <2>1. ASSUME calm'
        PROVE  /\ \A q, r \in Commands :
                    q # r /\ cmd'[q].pair # 0 /\ cmd'[r].pair # 0 =>
                      issued'[cmd'[q].pair].family # issued'[cmd'[r].pair].family
               /\ \A q \in Commands : cmd'[q].pair # 0 =>
                    (issued'[cmd'[q].pair].used => issued'[cmd'[q].pair].revoked)
               /\ issued'[sessionFile.pair].used => issued'[sessionFile.pair].revoked
    <3>1. \A q \in Commands : cmd'[q].pair # 0 =>
            /\ cmd'[q].pair \in Pairs
            /\ issued'[cmd'[q].pair].family = issued[cmd'[q].pair].family
            /\ issued'[cmd'[q].pair].used = issued[cmd'[q].pair].used
            /\ issued[cmd'[q].pair].revoked => issued'[cmd'[q].pair].revoked
      BY <1>0, <1>1 DEF OnlyMoves, PairsOwned, PairOf, FlagsOnly
    <3>2. \A q \in Commands : q # p => cmd'[q].pair = cmd[q].pair
      BY <1>1 DEF OnlyMoves
    <3>3. \A q, r \in Commands :
            q # r /\ cmd'[q].pair # 0 /\ cmd'[r].pair # 0 =>
              issued[cmd'[q].pair].family # issued[cmd'[r].pair].family
      BY <1>1, <1>4, <2>1, <3>2 DEF ClientInv, CalmKept, FamilyOf
    <3>4. \A q \in Commands : cmd'[q].pair # 0 => Unspent(cmd'[q].pair)
      BY <1>1, <1>4, <2>1, <3>2 DEF ClientInv, CalmKept
    <3>5. QED BY <1>0, <1>1, <3>1, <3>3, <3>4 DEF Unspent
  <2>2. QED BY <2>1 DEF CalmKept, FamilyOf, Unspent
<1>6. ClientStateOK'
  <2>1. calm' \in BOOLEAN
    BY DEF LoadSession
  <2>2. QED BY <1>0, <1>1, <2>1 DEF ClientStateOK, OnlyMoves, CmdRecord, TokenRecord
<1>7. ClientHolds'
  BY HoldsOn DEF ClientInv
<1>8. QED BY <1>3, <1>5, <1>6, <1>7 DEF ClientInv

LEMMA BeginKeeps ==
  ASSUME ClientInv, NEW p \in Commands, UploadBegun(p) \/ DeleteBegun(p) \/ AllRevoked(p)
  PROVE  ClientInv'
<1>0. issued \in [Pairs -> TokenRecord]
  BY DEF ClientInv, ClientStateOK, TokenRecord
<1>1. ASSUME UploadBegun(p) \/ DeleteBegun(p) PROVE ClientInv'
  <2>1. issued' = issued /\ UNCHANGED <<sessionFile, agent, digests, files, reused>>
    BY <1>1 DEF UploadBegun, DeleteBegun, server
  <2>2. FlagsOnly
    BY <2>1 DEF FlagsOnly
  <2>3. QED BY <1>0, <1>1, <2>1, <2>2, SessionLoaded DEF UploadBegun, DeleteBegun
<1>2. ASSUME AllRevoked(p) PROVE ClientInv'
  <2>1. issued' = [n \in Pairs |->
          [issued[n] EXCEPT !.revoked = @ \/ issued[n].user = sessionFile.user,
                            !.ended = @ \/ issued[n].user = sessionFile.user]]
    BY <1>2 DEF AllRevoked
  <2>2. \A n \in Pairs :
          /\ issued'[n] \in TokenRecord
          /\ issued'[n].user = issued[n].user /\ issued'[n].family = issued[n].family
          /\ issued'[n].used = issued[n].used
          /\ issued[n].revoked => issued'[n].revoked
    <3>1. TAKE n \in Pairs
    <3>2. issued[n] \in TokenRecord
      BY <1>0
    <3>3. issued'[n] = [issued[n] EXCEPT !.revoked = @ \/ issued[n].user = sessionFile.user,
                                         !.ended = @ \/ issued[n].user = sessionFile.user]
      BY <2>1
    <3>4. QED BY <3>2, <3>3 DEF TokenRecord
  <2>3. issued' \in [Pairs -> TokenRecord]
    BY <2>1, <2>2
  <2>4. FlagsOnly
    BY <2>2 DEF FlagsOnly
  <2>5. UNCHANGED <<sessionFile, agent, digests, files, reused>> /\ LoadSession(p, "clear")
    BY <1>2 DEF AllRevoked
  <2>6. QED BY <2>3, <2>4, <2>5, SessionLoaded
<1>3. QED BY <1>1, <1>2

\* A pair still to be issued is nobody's, and no family's.
LEMMA FreshPair ==
  ASSUME PairsOwned, NEW n, MayIssue(n)
  PROVE  /\ n \in Pairs /\ issued[n].user \notin People
         /\ \A m \in Pairs : issued[m].user \in People =>
              m # n /\ issued[m].family \in Pairs /\ issued[m].family # n
<1>1. n \in Pairs /\ issued[n].user = NoOne
  BY DEF MayIssue, Unissued
<1>2. QED BY <1>1, NoOneAssumption DEF PairsOwned

LEMMA PairKeeps ==
  ASSUME ClientInv, NEW p \in Commands, NEW u \in People, LoginPair(p, u)
  PROVE  ClientInv'
<1>0. /\ ClientStateOK /\ PairsOwned /\ issued \in [Pairs -> TokenRecord]
      /\ agent \in AgentRecord /\ sessionFile \in SessionRecord
      /\ digests \subseteq FileIds /\ calm \in BOOLEAN
      /\ cmd[p].pc = "idle"
  BY HeldTyped DEF ClientInv, ClientStateOK, TokenRecord, LoginPair, Is
<1>1. PICK n \in Pairs :
        /\ MayIssue(n)
        /\ issued' = [issued EXCEPT ![n] = [Unissued EXCEPT !.user = u, !.family = n]]
        /\ cmd' = [cmd EXCEPT ![p] = [NoCommand EXCEPT !.pc = "save", !.user = u, !.pair = n]]
  BY DEF LoginPair
<1>2. UNCHANGED <<sessionFile, agent, digests, files, calm, reused>>
  BY DEF LoginPair, history
<1>3. u \in Anyone /\ n \in 0 .. MaxPairs /\ n # 0 /\ "save" \in ClientSteps
  BY ClientAssumption DEF Anyone, Pairs, ClientSteps
<1>4. OnlyMoves(p) /\ cmd'[p].pc = "save" /\ cmd'[p].pair = n /\ cmd'[p].user = u
  BY <1>0, <1>1, <1>3, BeginMoves
<1>5. /\ issued'[n] = [user |-> u, family |-> n, used |-> FALSE, revoked |-> FALSE,
                       ended |-> FALSE]
      /\ \A m \in Pairs : m # n => issued'[m] = issued[m]
      /\ issued' \in [Pairs -> TokenRecord]
  <2>1. PICK t : t = [Unissued EXCEPT !.user = u, !.family = n]
    OBVIOUS
  <2>2. t = [user |-> u, family |-> n, used |-> FALSE, revoked |-> FALSE, ended |-> FALSE]
    BY <2>1 DEF Unissued
  <2>3. t \in TokenRecord
    BY <1>3, <2>2 DEF TokenRecord
  <2>4. issued' = [issued EXCEPT ![n] = t]
    BY <1>1, <2>1
  <2>5. QED BY <1>0, <2>2, <2>3, <2>4
<1>6. /\ issued[n].user \notin People
      /\ \A m \in Pairs : issued[m].user \in People =>
           m # n /\ issued[m].family \in Pairs /\ issued[m].family # n
  BY <1>0, <1>1, FreshPair
<1>7. HandOK(cmd'[p])
  BY <1>3, <1>4 DEF HandOK
<1>8. PairsOwned'
  <2>1. \A m \in Pairs : issued'[m].user \in People =>
          issued'[m].family \in Pairs /\ issued'[issued'[m].family].user \in People
    BY <1>0, <1>5, <1>6 DEF PairsOwned
  <2>2. sessionFile'.pair # 0 =>
          /\ sessionFile'.pair \in Pairs /\ sessionFile'.user \in People
          /\ issued'[sessionFile'.pair].user = sessionFile'.user
    BY <1>0, <1>2, <1>5, <1>6 DEF PairsOwned, PairOf
  <2>3. agent'.bound # 0 =>
          /\ agent'.bound \in Pairs /\ agent'.owner \in People
          /\ issued'[agent'.bound].user = agent'.owner
    BY <1>0, <1>2, <1>5, <1>6 DEF PairsOwned, PairOf
  <2>4. \A q \in Commands : cmd'[q].pair # 0 =>
          /\ cmd'[q].pair \in Pairs /\ cmd'[q].user \in People
          /\ issued'[cmd'[q].pair].user = cmd'[q].user
    BY <1>0, <1>4, <1>5, <1>6 DEF PairsOwned, PairOf, OnlyMoves
  <2>5. \A q \in Commands : HandOK(cmd'[q])
    BY <1>0, <1>4, <1>7 DEF PairsOwned, OnlyMoves
  <2>6. QED BY <2>1, <2>2, <2>3, <2>4, <2>5 DEF PairsOwned, PairOf
<1>9. CalmKept'
  <2>1. ASSUME calm'
        PROVE  /\ \A q, r \in Commands :
                    q # r /\ cmd'[q].pair # 0 /\ cmd'[r].pair # 0 =>
                      issued'[cmd'[q].pair].family # issued'[cmd'[r].pair].family
               /\ \A q \in Commands : cmd'[q].pair # 0 =>
                    (issued'[cmd'[q].pair].used => issued'[cmd'[q].pair].revoked)
               /\ sessionFile'.pair # 0 =>
                    \/ issued'[sessionFile'.pair].used => issued'[sessionFile'.pair].revoked
                    \/ \E q \in Commands :
                         /\ cmd'[q].pc = "rotated"
                         /\ issued'[cmd'[q].pair].family = issued'[sessionFile'.pair].family
    <3>0. CalmKept /\ calm
      BY <1>2, <2>1 DEF ClientInv
    <3>1. \A q \in Commands : q # p /\ cmd[q].pair # 0 =>
            /\ cmd'[q] = cmd[q] /\ issued'[cmd[q].pair] = issued[cmd[q].pair]
            /\ issued[cmd[q].pair].family # n
      BY <1>0, <1>4, <1>5, <1>6 DEF PairsOwned, PairOf, OnlyMoves
    <3>2. \A q \in Commands : q # p => cmd'[q] = cmd[q]
      BY <1>4 DEF OnlyMoves
    <3>3. issued'[cmd'[p].pair].family = n /\ ~issued'[cmd'[p].pair].used
      BY <1>4, <1>5
    <3>4. \A q, r \in Commands :
            q # r /\ cmd'[q].pair # 0 /\ cmd'[r].pair # 0 =>
              issued'[cmd'[q].pair].family # issued'[cmd'[r].pair].family
      BY <3>0, <3>1, <3>2, <3>3 DEF CalmKept, FamilyOf
    <3>5. \A q \in Commands : cmd'[q].pair # 0 =>
            (issued'[cmd'[q].pair].used => issued'[cmd'[q].pair].revoked)
      BY <3>0, <3>1, <3>2, <3>3 DEF CalmKept, Unspent
    <3>6. ASSUME sessionFile'.pair # 0
          PROVE  \/ issued'[sessionFile'.pair].used => issued'[sessionFile'.pair].revoked
                 \/ \E q \in Commands :
                      /\ cmd'[q].pc = "rotated"
                      /\ issued'[cmd'[q].pair].family = issued'[sessionFile'.pair].family
      <4>1. issued'[sessionFile'.pair] = issued[sessionFile.pair] /\ sessionFile.pair # 0
        BY <1>0, <1>2, <1>5, <1>6, <3>6 DEF PairsOwned, PairOf
      <4>2. CASE Unspent(sessionFile.pair)
        BY <4>1, <4>2 DEF Unspent
      <4>3. CASE \E q \in Commands :
                   /\ cmd[q].pc = "rotated"
                   /\ FamilyOf(cmd[q].pair) = FamilyOf(sessionFile.pair)
        <5>1. PICK q \in Commands : cmd[q].pc = "rotated"
                   /\ FamilyOf(cmd[q].pair) = FamilyOf(sessionFile.pair)
          BY <4>3
        <5>2. q # p /\ cmd[q].pair # 0
          BY <1>0, <5>1 DEF PairsOwned, HandOK
        <5>3. QED BY <3>1, <4>1, <5>1, <5>2 DEF FamilyOf
      <4>4. QED BY <3>0, <4>1, <4>2, <4>3 DEF CalmKept
    <3>7. QED BY <3>4, <3>5, <3>6
  <2>2. QED BY <2>1 DEF CalmKept, FamilyOf, Unspent
<1>10. ClientStateOK'
  BY <1>0, <1>2, <1>4, <1>5 DEF ClientStateOK, OnlyMoves, CmdRecord, TokenRecord
<1>11. ClientHolds'
  BY <1>2, HoldsOn DEF ClientInv
<1>12. QED BY <1>8, <1>9, <1>10, <1>11 DEF ClientInv

LEMMA RefreshKeeps ==
  ASSUME ClientInv, NEW p \in Commands, Refreshed(p)
  PROVE  ClientInv'
<1> DEFINE o == cmd[p].pair
<1>0. /\ ClientStateOK /\ PairsOwned /\ issued \in [Pairs -> TokenRecord]
      /\ agent \in AgentRecord /\ sessionFile \in SessionRecord
      /\ digests \subseteq FileIds /\ calm \in BOOLEAN
      /\ cmd[p].pc \in {"ready", "sending"} /\ HandOK(cmd[p]) /\ cmd[p].user \in Anyone
  BY HeldTyped DEF ClientInv, ClientStateOK, TokenRecord, Refreshed, MayRefresh, PairsOwned
<1>1. o # 0 /\ o \in Pairs /\ cmd[p].user \in People /\ issued[o].user = cmd[p].user
  BY <1>0 DEF HandOK, PairsOwned, PairOf
<1>2. PICK n \in Pairs :
        /\ MayIssue(n)
        /\ issued' = [issued EXCEPT
             ![o].used = TRUE,
             ![n] = [Unissued EXCEPT !.user = cmd[p].user, !.family = issued[o].family]]
        /\ \/ cmd' = [cmd EXCEPT ![p] = Adopt(@, n)] /\ UNCHANGED calm
           \/ Done(p) /\ calm' = FALSE
  BY DEF Refreshed
<1>3. UNCHANGED <<sessionFile, agent, digests, files, reused>>
  BY DEF Refreshed
<1>4. /\ issued[n].user \notin People
      /\ \A m \in Pairs : issued[m].user \in People =>
           m # n /\ issued[m].family \in Pairs /\ issued[m].family # n
  BY <1>0, <1>2, FreshPair
<1>5. o # n /\ issued[o].family \in Pairs /\ issued[o].family # n
  BY <1>1, <1>4
<1>6. /\ issued'[n] = [user |-> cmd[p].user, family |-> issued[o].family, used |-> FALSE,
                       revoked |-> FALSE, ended |-> FALSE]
      /\ issued'[o].user = issued[o].user /\ issued'[o].family = issued[o].family
      /\ \A m \in Pairs : m # n /\ m # o => issued'[m] = issued[m]
      /\ issued' \in [Pairs -> TokenRecord]
  <2>1. PICK t, x, a : /\ a = cmd[p].user /\ x = issued[o].family
                       /\ t = [Unissued EXCEPT !.user = a, !.family = x]
    OBVIOUS
  <2>2. t = [user |-> a, family |-> x, used |-> FALSE, revoked |-> FALSE, ended |-> FALSE]
    BY <2>1 DEF Unissued
  <2>3. t \in TokenRecord
    <3>1. a \in Anyone /\ x \in 0 .. MaxPairs
      BY <1>0, <1>1, <2>1 DEF TokenRecord
    <3>2. QED BY <2>2, <3>1 DEF TokenRecord
  <2>4. PICK w : w = [issued[o] EXCEPT !.used = TRUE]
    OBVIOUS
  <2>5. w \in TokenRecord /\ w.user = issued[o].user /\ w.family = issued[o].family
    BY <1>0, <1>1, <2>4 DEF TokenRecord
  <2>6. issued' = [[issued EXCEPT ![o] = w] EXCEPT ![n] = t]
    BY <1>0, <1>1, <1>2, <2>1, <2>4
  <2>7. QED BY <1>0, <1>1, <1>5, <2>1, <2>2, <2>3, <2>5, <2>6
<1>7. /\ OnlyMoves(p) /\ HandOK(cmd'[p])
      /\ \/ /\ cmd'[p].pair = n /\ cmd'[p].user = cmd[p].user
            /\ cmd'[p].pc = "rotated" /\ calm' = calm
         \/ cmd'[p].pair = 0 /\ calm' = FALSE
  <2>1. CASE cmd' = [cmd EXCEPT ![p] = Adopt(@, n)] /\ UNCHANGED calm
    <3>1. /\ OnlyMoves(p)
          /\ cmd'[p].pc = "rotated" /\ cmd'[p].pair = n /\ cmd'[p].user = cmd[p].user
          /\ cmd'[p].key = cmd[p].key /\ cmd'[p].drift = cmd[p].drift
          /\ cmd'[p].back = cmd[p].pc
      BY <1>0, <2>1, AdoptMoves
    <3>2. HandOK(cmd'[p])
      BY <1>0, <3>1, ClientAssumption DEF HandOK, Pairs
    <3>3. QED BY <2>1, <3>1, <3>2
  <2>2. CASE Done(p) /\ calm' = FALSE
    BY <1>0, <2>2, DoneMoves
  <2>3. QED BY <1>2, <2>1, <2>2
<1> HIDE DEF o
<1>8. PairsOwned'
  <2>0. \A m \in Pairs : issued[m].user \in People =>
          issued'[m].user = issued[m].user /\ issued'[m].family = issued[m].family
    BY <1>4, <1>6
  <2>1. \A m \in Pairs : issued'[m].user \in People =>
          issued'[m].family \in Pairs /\ issued'[issued'[m].family].user \in People
    <3>1. TAKE m \in Pairs
    <3>2. HAVE issued'[m].user \in People
    <3>3. CASE m = n
      BY <1>0, <1>1, <1>5, <1>6, <2>0, <3>3 DEF PairsOwned
    <3>4. CASE m # n
      <4>1. issued[m].user \in People
        BY <1>6, <3>2, <3>4
      <4>2. QED BY <1>0, <2>0, <4>1 DEF PairsOwned
    <3>5. QED BY <3>3, <3>4
  <2>2. sessionFile'.pair # 0 =>
          /\ sessionFile'.pair \in Pairs /\ sessionFile'.user \in People
          /\ issued'[sessionFile'.pair].user = sessionFile'.user
    BY <1>0, <1>3, <2>0 DEF PairsOwned, PairOf
  <2>3. agent'.bound # 0 =>
          /\ agent'.bound \in Pairs /\ agent'.owner \in People
          /\ issued'[agent'.bound].user = agent'.owner
    BY <1>0, <1>3, <2>0 DEF PairsOwned, PairOf
  <2>4. \A q \in Commands : cmd'[q].pair # 0 =>
          /\ cmd'[q].pair \in Pairs /\ cmd'[q].user \in People
          /\ issued'[cmd'[q].pair].user = cmd'[q].user
    BY <1>0, <1>1, <1>6, <1>7, <2>0 DEF PairsOwned, PairOf, OnlyMoves
  <2>5. \A q \in Commands : HandOK(cmd'[q])
    BY <1>0, <1>7 DEF PairsOwned, OnlyMoves
  <2>6. QED BY <2>1, <2>2, <2>3, <2>4, <2>5 DEF PairsOwned, PairOf
<1>9. CalmKept'
  <2>1. ASSUME calm'
        PROVE  /\ \A q, r \in Commands :
                    q # r /\ cmd'[q].pair # 0 /\ cmd'[r].pair # 0 =>
                      issued'[cmd'[q].pair].family # issued'[cmd'[r].pair].family
               /\ \A q \in Commands : cmd'[q].pair # 0 =>
                    (issued'[cmd'[q].pair].used => issued'[cmd'[q].pair].revoked)
               /\ sessionFile'.pair # 0 =>
                    \/ issued'[sessionFile'.pair].used => issued'[sessionFile'.pair].revoked
                    \/ \E q \in Commands :
                         /\ cmd'[q].pc = "rotated"
                         /\ issued'[cmd'[q].pair].family = issued'[sessionFile'.pair].family
    <3>0. /\ CalmKept /\ calm
          /\ cmd'[p].pair = n /\ cmd'[p].pc = "rotated"
      BY <1>7, <2>1 DEF ClientInv
    <3>1. \A q \in Commands : q # p /\ cmd[q].pair # 0 =>
            /\ cmd'[q] = cmd[q] /\ issued[cmd[q].pair].family # issued[o].family
            /\ issued'[cmd[q].pair] = issued[cmd[q].pair]
      <4>1. TAKE q \in Commands
      <4>2. HAVE q # p /\ cmd[q].pair # 0
      <4>3. issued[cmd[q].pair].family # issued[o].family
        BY <1>1, <3>0, <4>2 DEF CalmKept, FamilyOf, o
      <4>4. cmd[q].pair \in Pairs /\ cmd[q].pair # n
        BY <1>0, <1>4, <4>2 DEF PairsOwned, PairOf
      <4>5. QED BY <1>6, <1>7, <4>2, <4>3, <4>4 DEF OnlyMoves
    <3>2. \A q \in Commands : q # p => cmd'[q] = cmd[q]
      BY <1>7 DEF OnlyMoves
    <3>3. issued'[cmd'[p].pair].family = issued[o].family /\ ~issued'[cmd'[p].pair].used
      BY <1>6, <3>0
    <3>4. \A q, r \in Commands :
            q # r /\ cmd'[q].pair # 0 /\ cmd'[r].pair # 0 =>
              issued'[cmd'[q].pair].family # issued'[cmd'[r].pair].family
      BY <3>0, <3>1, <3>2, <3>3 DEF CalmKept, FamilyOf
    <3>5. \A q \in Commands : cmd'[q].pair # 0 =>
            (issued'[cmd'[q].pair].used => issued'[cmd'[q].pair].revoked)
      BY <3>0, <3>1, <3>2, <3>3 DEF CalmKept, Unspent
    <3>6. ASSUME sessionFile'.pair # 0
          PROVE  \/ issued'[sessionFile'.pair].used => issued'[sessionFile'.pair].revoked
                 \/ \E q \in Commands :
                      /\ cmd'[q].pc = "rotated"
                      /\ issued'[cmd'[q].pair].family = issued'[sessionFile'.pair].family
      <4>1. /\ sessionFile' = sessionFile /\ sessionFile.pair # 0
            /\ sessionFile.pair \in Pairs /\ sessionFile.pair # n
            /\ issued'[sessionFile.pair].family = issued[sessionFile.pair].family
        BY <1>0, <1>3, <1>4, <1>6, <3>6 DEF PairsOwned, PairOf
      <4>2. CASE issued[sessionFile.pair].family = issued[o].family
        BY <3>0, <3>3, <4>1, <4>2
      <4>3. CASE issued[sessionFile.pair].family # issued[o].family
        <5>1. issued'[sessionFile.pair] = issued[sessionFile.pair]
          BY <1>6, <4>1, <4>3
        <5>2. CASE Unspent(sessionFile.pair)
          BY <4>1, <5>1, <5>2 DEF Unspent
        <5>3. CASE \E q \in Commands :
                     /\ cmd[q].pc = "rotated"
                     /\ FamilyOf(cmd[q].pair) = FamilyOf(sessionFile.pair)
          <6>1. PICK q \in Commands : cmd[q].pc = "rotated"
                     /\ FamilyOf(cmd[q].pair) = FamilyOf(sessionFile.pair)
            BY <5>3
          <6>2. q # p /\ cmd[q].pair # 0
            BY <1>0, <6>1 DEF PairsOwned, HandOK
          <6>3. QED BY <3>1, <4>1, <5>1, <6>1, <6>2 DEF FamilyOf
        <5>4. QED BY <3>0, <4>1, <5>2, <5>3 DEF CalmKept
      <4>4. QED BY <4>2, <4>3
    <3>7. QED BY <3>4, <3>5, <3>6
  <2>2. QED BY <2>1 DEF CalmKept, FamilyOf, Unspent
<1>10. ClientStateOK'
  <2>1. calm' \in BOOLEAN
    BY <1>0, <1>7
  <2>2. QED BY <1>0, <1>3, <1>6, <1>7, <2>1 DEF ClientStateOK, OnlyMoves, CmdRecord, TokenRecord
<1>11. ClientHolds'
  BY <1>3, HoldsOn DEF ClientInv
<1>12. QED BY <1>8, <1>9, <1>10, <1>11 DEF ClientInv

LEMMA RefusedKeeps ==
  ASSUME ClientInv, NEW p \in Commands, RefreshRefused(p)
  PROVE  ClientInv'
<1>0. /\ ClientStateOK /\ PairsOwned /\ CalmKept /\ issued \in [Pairs -> TokenRecord]
      /\ agent \in AgentRecord /\ sessionFile \in SessionRecord
      /\ digests \subseteq FileIds /\ calm \in BOOLEAN /\ reused \in BOOLEAN
      /\ cmd[p].pc \in {"ready", "sending"} /\ HandOK(cmd[p])
  BY HeldTyped DEF ClientInv, ClientStateOK, TokenRecord, RefreshRefused, MayRefresh, PairsOwned
<1>1. /\ OnlyMoves(p) /\ KeepsHand(p) /\ HandOK(cmd'[p]) /\ cmd'[p].pair = 0
      /\ UNCHANGED <<sessionFile, agent, digests, files, calm>>
  BY <1>0, DoneMoves DEF RefreshRefused
<1>2. cmd[p].pair # 0 /\ cmd[p].pair \in Pairs
  BY <1>0 DEF HandOK, PairsOwned, PairOf
<1>3. /\ issued[cmd[p].pair].revoked \/ issued[cmd[p].pair].used
      /\ issued' = IF issued[cmd[p].pair].revoked THEN issued
                   ELSE Fall(issued[cmd[p].pair].family, issued[cmd[p].pair].user)
      /\ reused' = (reused \/ (calm /\ ~issued[cmd[p].pair].revoked))
  BY DEF RefreshRefused
<1>4. calm => issued[cmd[p].pair].revoked
  BY <1>0, <1>2, <1>3 DEF CalmKept, Unspent
<1>5. reused' = reused
  BY <1>0, <1>3, <1>4
<1>6. ClientHolds'
  BY <1>1, <1>5, HoldsOn DEF ClientInv
<1>7. FlagsOnly /\ issued' \in [Pairs -> TokenRecord]
  <2>1. CASE issued' = issued
    BY <1>0, <2>1 DEF FlagsOnly
  <2>2. CASE issued' = Fall(issued[cmd[p].pair].family, issued[cmd[p].pair].user)
    <3>1. PICK y, a : y = issued[cmd[p].pair].family /\ a = issued[cmd[p].pair].user
      OBVIOUS
    <3>2. issued' = [m \in Pairs |->
            [issued[m] EXCEPT !.revoked = @ \/ issued[m].family = y,
                              !.ended = @ \/ issued[m].user = a]]
      BY <2>2, <3>1 DEF Fall
    <3>3. \A m \in Pairs :
            /\ issued'[m] \in TokenRecord
            /\ issued'[m].user = issued[m].user /\ issued'[m].family = issued[m].family
            /\ issued'[m].used = issued[m].used
            /\ issued[m].revoked => issued'[m].revoked
      <4>1. TAKE m \in Pairs
      <4>2. issued[m] \in TokenRecord
        BY <1>0
      <4>3. issued'[m] = [issued[m] EXCEPT !.revoked = @ \/ issued[m].family = y,
                                           !.ended = @ \/ issued[m].user = a]
        BY <3>2
      <4>4. QED BY <4>2, <4>3 DEF TokenRecord
    <3>4. QED BY <3>2, <3>3 DEF FlagsOnly
  <2>3. QED BY <1>3, <2>1, <2>2
<1>8. ClientStateOK'
  BY <1>0, <1>1, <1>5, <1>7 DEF ClientStateOK, OnlyMoves, CmdRecord, TokenRecord
<1>9. PairsOwned' /\ CalmKept'
  <2>1. CASE calm
    <3>1. issued' = issued
      BY <1>3, <1>4, <2>1
    <3>2. QED BY <1>0, <1>1, <2>1, <3>1, Quietly
  <2>2. CASE ~calm
    <3>1. CalmKept'
      BY <1>1, <2>2 DEF CalmKept
    <3>2. PairsOwned'
      BY <1>0, <1>1, <1>7 DEF PairsOwned, PairOf, FlagsOnly, OnlyMoves, KeepsHand
    <3>3. QED BY <3>1, <3>2
  <2>3. QED BY <2>1, <2>2
<1>10. QED BY <1>6, <1>8, <1>9 DEF ClientInv

-----------------------------------------------------------------------------

LEMMA ClientStarts ==
  ASSUME ClientInit
  PROVE  ClientInv
<1>1. 0 \in 0 .. MaxPairs /\ "idle" \in ClientSteps /\ NoOne \in Anyone
  BY ClientAssumption DEF ClientSteps, Anyone
<1>2. ClientStateOK
  <2>1. cmd \in [Commands -> CmdRecord]
    BY NoCommandTyped DEF ClientInit
  <2>2. sessionFile \in [user: Anyone, pair: 0 .. MaxPairs]
    BY <1>1 DEF ClientInit, NoSession
  <2>3. agent \in [up: BOOLEAN, owner: Anyone, bound: 0 .. MaxPairs]
    BY <1>1 DEF ClientInit
  <2>4. issued \in [Pairs -> TokenRecord]
    BY <1>1 DEF ClientInit, Unissued, TokenRecord
  <2>5. files \in [FileIds -> FileRecord]
    BY <1>1 DEF ClientInit, NoFileYet, FileRecord
  <2>6. QED BY <2>1, <2>2, <2>3, <2>4, <2>5
            DEF ClientInit, ClientStateOK, CmdRecord, TokenRecord, FileRecord
<1>3. \A p \in Commands : cmd[p] = NoCommand
  BY DEF ClientInit
<1>4. \A n \in Pairs : issued[n].user = NoOne /\ ~issued[n].used
  BY DEF ClientInit, Unissued
<1>5. sessionFile.pair = 0 /\ agent.bound = 0
  BY DEF ClientInit, NoSession
<1>6. PairsOwned
  BY <1>3, <1>4, <1>5, NoOneAssumption, NoCommandTyped DEF PairsOwned
<1>7. CalmKept
  BY <1>3, <1>5, NoCommandTyped DEF CalmKept
<1>8. ClientHolds
  BY DEF ClientInit, ClientHolds, KeyOfOwner, SessionSurvives
<1>9. QED BY <1>2, <1>6, <1>7, <1>8 DEF ClientInv

LEMMA ClientStep ==
  ASSUME ClientInv, ClientNext
  PROVE  ClientInv'
<1>1. CASE AgentStarts \/ AgentStops \/ KeyExpires \/ DeletedElsewhere
  BY <1>1, AsideKeeps
<1>2. ASSUME NEW p \in Commands,
             \/ \E u \in People : LoginPair(p, u)
             \/ LoginSaved(p) \/ KeyStored(p) \/ FilesListed(p) \/ CacheFilled(p)
             \/ UploadBegun(p) \/ KeyGiven(p) \/ KeyRefused(p)
             \/ DigestFound(p)
             \/ IsDuplicate(p) \/ TakenForDuplicate(p) \/ NotConfirmed(p)
             \/ StaleDigestRemoved(p) \/ Uploaded(p) \/ DigestAdded(p)
             \/ Refreshed(p) \/ RefreshRefused(p) \/ RotationSaved(p)
             \/ DeleteBegun(p) \/ FileDeleted(p) \/ DigestRemoved(p)
             \/ AllRevoked(p) \/ AgentCleared(p) \/ SessionRemoved(p)
             \/ Ends(p)
      PROVE  ClientInv'
  BY <1>2, PairKeeps, LoginKeeps, BeginKeeps, KeyKeeps, UploadKeeps,
     FileKeeps, RefreshKeeps, RefusedKeeps, EndKeeps
<1>3. QED BY <1>1, <1>2 DEF ClientNext

LEMMA ClientStutters ==
  ASSUME ClientInv, UNCHANGED clientVars
  PROVE  ClientInv'
<1>1. UNCHANGED <<sessionFile, agent, digests, issued, files, cmd, calm, reused>>
  BY DEF clientVars
<1>2. ClientStateOK'
  BY <1>1 DEF ClientInv, ClientStateOK
<1>3. PairsOwned' /\ CalmKept'
  BY <1>1, Aside DEF ClientInv
<1>4. ClientHolds'
  BY <1>1, HoldsOn DEF ClientInv
<1>5. QED BY <1>2, <1>3, <1>4 DEF ClientInv

LEMMA ClientInvHolds == ClientSpec => []ClientInv
<1>1. ClientInit => ClientInv
  BY ClientStarts
<1>2. ClientInv /\ [ClientNext]_clientVars => ClientInv'
  BY ClientStep, ClientStutters
<1>3. QED BY <1>1, <1>2, PTL DEF ClientSpec

-----------------------------------------------------------------------------
(* What is refused as a duplicate: on top of ClientInv, whose the digests  *)
(* and the files in hand are, and that the gone ones among them are known. *)

Working == {"ready", "hit", "stale", "sending", "added", "rotated"}
KeyTaken == Working \cup {"list", "fill"}

AllOf(F, u) == \A f \in F : files[f].owner = u

\* Until commands of two accounts run at one time, those at work are of one
\* account, and so are the digests they find and the files they have in hand.
OneAccount ==
  /\ \A p, q \in Commands :
       cmd[p].pair # 0 /\ cmd[q].pair # 0 => cmd[p].user = cmd[q].user
  /\ agent.bound # 0 => AllOf(digests, agent.owner)
  /\ \A p \in Commands :
       /\ AllOf(cmd[p].file, cmd[p].user)
       /\ cmd[p].pc \in Working => AllOf(digests, cmd[p].user)
       /\ cmd[p].pc = "begun" /\ sessionFile.pair # 0 => sessionFile.user = cmd[p].user
       /\ cmd[p].pc \in KeyTaken /\ agent.bound # 0 => agent.owner = cmd[p].user

\* Of each file that is gone and kept or in hand the agent was not told.
Accounted(F) == \A f \in F : files[f].there \/ f \in untold

DuplicatesInv ==
  /\ crossed \in BOOLEAN /\ untold \subseteq FileIds /\ misled = FALSE
  /\ ~agent.up => agent.bound = 0
  /\ \A p \in Commands : cmd[p].pair = 0 => cmd[p].file = {}
  /\ crossed \/ OneAccount
  /\ Accounted(digests)
  /\ \A p \in Commands : Accounted(cmd[p].file)

LEMMA DuplicatesStart ==
  ASSUME ClientInit
  PROVE  DuplicatesInv
<1>1. \A p \in Commands : cmd[p].pair = 0 /\ cmd[p].file = {} /\ cmd[p].pc = "idle"
  BY DEF ClientInit, NoCommand
<1>2. digests = {} /\ agent.bound = 0 /\ agent.up
  BY DEF ClientInit
<1>3. OneAccount
  BY <1>1, <1>2 DEF OneAccount, AllOf, Working, KeyTaken
<1>4. QED BY <1>1, <1>2, <1>3 DEF ClientInit, DuplicatesInv, Accounted

\* A command at work on files, or that took the key, has a pair.
LEMMA WorkingHasPair ==
  ASSUME ClientInv, NEW p \in Commands, cmd[p].pc \in KeyTaken
  PROVE  cmd[p].pair # 0
  BY DEF ClientInv, PairsOwned, HandOK, KeyTaken, Working

\* A command goes on under its own name: what it takes in hand is its own or a
\* digest found at work, what it leaves in the agent is its own too.
LEMMA GoesOn ==
  ASSUME ClientInv, DuplicatesInv, NEW p \in Commands, OnlyMoves(p),
         UNCHANGED <<files, crossed, untold, misled>>,
         cmd'[p].pair = 0 => cmd'[p].file = {},
         cmd'[p].pair # 0 => cmd[p].pair # 0 /\ cmd'[p].user = cmd[p].user,
         \A f \in cmd'[p].file :
           \/ f \in cmd[p].file
           \/ files[f].there /\ files[f].owner = cmd[p].user
           \/ f \in digests /\ cmd[p].pc \in Working,
         cmd'[p].pc \in Working =>
           cmd[p].pc \in Working \/ (agent.bound # 0 /\ agent.owner = cmd[p].user),
         cmd'[p].pc \in KeyTaken =>
           /\ cmd'[p].pair # 0
           /\ \/ cmd[p].pc \in KeyTaken
              \/ agent'.bound # 0 => agent'.owner = cmd[p].user,
         cmd'[p].pc # "begun",
         ~agent'.up => agent'.bound = 0,
         \/ agent'.owner = agent.owner /\ agent'.bound = agent.bound
         \/ agent'.bound = 0
         \/ agent'.owner = cmd[p].user /\ cmd[p].pair # 0 /\ digests' = {},
         \A f \in digests' :
           \/ f \in digests
           \/ f \in cmd[p].file /\ cmd[p].pc \in KeyTaken /\ agent' = agent,
         \/ sessionFile' = sessionFile
         \/ sessionFile'.pair = 0
         \/ sessionFile'.user = cmd[p].user /\ cmd[p].pair # 0
  PROVE  DuplicatesInv'
<1>1. \A q \in Commands : q # p => cmd'[q] = cmd[q]
  BY DEF OnlyMoves
<1>2. \A q \in Commands : cmd[q].pc \in KeyTaken => cmd[q].pair # 0
  BY WorkingHasPair
<1>3. \A q \in Commands : cmd[q].pc = "begun" => cmd[q].pair # 0
  BY DEF ClientInv, PairsOwned, HandOK
<1>4. /\ \A f \in digests' : files[f].there \/ f \in untold
      /\ \A q \in Commands : \A f \in cmd'[q].file : files[f].there \/ f \in untold
      /\ \A q \in Commands : cmd'[q].pair = 0 => cmd'[q].file = {}
  BY <1>1 DEF DuplicatesInv, Accounted
<1>5. ASSUME ~crossed
      PROVE  /\ \A q, r \in Commands :
                  cmd'[q].pair # 0 /\ cmd'[r].pair # 0 => cmd'[q].user = cmd'[r].user
             /\ agent'.bound # 0 => \A f \in digests' : files[f].owner = agent'.owner
             /\ \A q \in Commands :
                  /\ \A f \in cmd'[q].file : files[f].owner = cmd'[q].user
                  /\ cmd'[q].pc \in Working =>
                       \A f \in digests' : files[f].owner = cmd'[q].user
                  /\ cmd'[q].pc = "begun" /\ sessionFile'.pair # 0 =>
                       sessionFile'.user = cmd'[q].user
                  /\ cmd'[q].pc \in KeyTaken /\ agent'.bound # 0 =>
                       agent'.owner = cmd'[q].user
  <2>0. OneAccount /\ (\A q \in Commands : cmd[q].pair = 0 => cmd[q].file = {})
    BY <1>5 DEF DuplicatesInv
  <2>1. \A q \in Commands :
          cmd'[q].pair # 0 => cmd[q].pair # 0 /\ cmd'[q].user = cmd[q].user
    BY <1>1
  <2>2. \A q, r \in Commands :
          cmd'[q].pair # 0 /\ cmd'[r].pair # 0 => cmd'[q].user = cmd'[r].user
    BY <2>0, <2>1 DEF OneAccount
  <2>3. agent'.bound # 0 => \A f \in digests' : files[f].owner = agent'.owner
    BY <2>0 DEF OneAccount, AllOf
  <2>4. ASSUME NEW q \in Commands
        PROVE  \A f \in cmd'[q].file : files[f].owner = cmd'[q].user
    BY <1>1, <2>0 DEF OneAccount, AllOf
  <2>5. ASSUME NEW q \in Commands, cmd'[q].pc \in Working, NEW f \in digests'
        PROVE  files[f].owner = cmd'[q].user
    <3>1. cmd'[q].pc \in KeyTaken /\ cmd'[q].pair # 0
      BY <1>1, <1>2, <2>5 DEF KeyTaken
    <3>2. cmd[q].pair # 0 /\ cmd'[q].user = cmd[q].user
      BY <2>1, <3>1
    <3>3. CASE f \in digests
      <4>1. CASE cmd[q].pc \in Working
        BY <2>0, <3>2, <3>3, <4>1 DEF OneAccount, AllOf
      <4>2. CASE cmd[q].pc \notin Working
        BY <1>1, <2>0, <2>5, <3>2, <3>3, <4>2 DEF OneAccount, AllOf
      <4>3. QED BY <4>1, <4>2
    <3>4. CASE f \in cmd[p].file /\ cmd[p].pc \in KeyTaken
      <4>1. cmd[p].pair # 0 /\ files[f].owner = cmd[p].user
        BY <1>2, <2>0, <3>4 DEF OneAccount, AllOf
      <4>2. QED BY <2>0, <3>2, <4>1 DEF OneAccount
    <3>5. QED BY <2>5, <3>3, <3>4
  <2>6. ASSUME NEW q \in Commands, cmd'[q].pc = "begun", sessionFile'.pair # 0
        PROVE  sessionFile'.user = cmd'[q].user
    BY <1>1, <1>3, <2>0, <2>6 DEF OneAccount
  <2>7. ASSUME NEW q \in Commands, cmd'[q].pc \in KeyTaken, agent'.bound # 0
        PROVE  agent'.owner = cmd'[q].user
    <3>1. cmd[q].pair # 0 /\ cmd'[q].user = cmd[q].user
      BY <1>1, <1>2, <2>1, <2>7
    <3>2. CASE agent'.owner = cmd[p].user /\ cmd[p].pair # 0
      BY <2>0, <3>1, <3>2 DEF OneAccount
    <3>3. CASE agent'.owner = agent.owner /\ agent'.bound = agent.bound
      BY <1>1, <2>0, <2>7, <3>1, <3>3 DEF OneAccount
    <3>4. QED BY <2>7, <3>2, <3>3
  <2>8. QED BY <2>2, <2>3, <2>4, <2>5, <2>6, <2>7
<1>6. crossed' \/ OneAccount'
  <2>1. SUFFICES ASSUME ~crossed PROVE OneAccount'
    OBVIOUS
  <2>2. QED BY <1>5, <2>1 DEF OneAccount, AllOf
<1>7. QED BY <1>4, <1>6 DEF DuplicatesInv, Accounted

\* The actions of a command that goes on, up to the upload.
LEMMA LoginGoesOn ==
  ASSUME ClientInv, DuplicatesInv, NEW p \in Commands,
         LoginSaved(p) \/ KeyStored(p) \/ FilesListed(p) \/ CacheFilled(p)
  PROVE  DuplicatesInv'
<1>0. /\ ClientStateOK /\ HandOK(cmd[p])
      /\ (~agent.up => agent.bound = 0) /\ (cmd[p].pair = 0 => cmd[p].file = {})
  BY DEF ClientInv, PairsOwned, DuplicatesInv
<1>1. UNCHANGED <<files, crossed, untold, misled>>
  BY DEF LoginSaved, KeyStored, FilesListed, CacheFilled, server, history, duplicates
<1>2. ASSUME LoginSaved(p) PROVE DuplicatesInv'
  <2>1. /\ OnlyMoves(p) /\ cmd'[p].pc = "store" /\ cmd'[p].file = cmd[p].file
        /\ cmd'[p].pair = cmd[p].pair /\ cmd'[p].user = cmd[p].user
    BY <1>0, <1>2, GoMoves DEF LoginSaved, ClientSteps
  <2>2. cmd[p].pair # 0
    BY <1>0, <1>2 DEF HandOK, LoginSaved, Is
  <2>3. sessionFile' = sessionFile \/ sessionFile'.user = cmd[p].user
    BY <1>2 DEF LoginSaved, Loaded
  <2>4. UNCHANGED <<agent, digests>>
    BY <1>2 DEF LoginSaved
  <2>5. QED BY <1>0, <1>1, <2>1, <2>2, <2>3, <2>4, GoesOn DEF Working, KeyTaken
<1>3. ASSUME KeyStored(p) PROVE DuplicatesInv'
  <2>1. /\ OnlyMoves(p) /\ cmd'[p].pc = "list" /\ cmd'[p].file = cmd[p].file
        /\ cmd'[p].pair = cmd[p].pair /\ cmd'[p].user = cmd[p].user
    BY <1>0, <1>3, GoMoves DEF KeyStored, ClientSteps
  <2>2. cmd[p].pair # 0 /\ sessionFile' = sessionFile
    BY <1>0, <1>3 DEF HandOK, KeyStored, Is
  <2>3. \/ agent'.up /\ agent'.owner = cmd[p].user /\ digests' = {}
        \/ ~agent.up /\ agent' = agent /\ digests' = digests
    BY <1>3 DEF KeyStored, TakeKey, Hold, KeepAgent
  <2>4. QED BY <1>0, <1>1, <2>1, <2>2, <2>3, GoesOn DEF Working, KeyTaken
<1>4. ASSUME FilesListed(p) PROVE DuplicatesInv'
  <2>1. PICK F : F = {f \in OwnFiles(cmd[p].user) : files[f].key = cmd[p].user}
    OBVIOUS
  <2>2. F \subseteq FileIds /\ \A f \in F : files[f].there /\ files[f].owner = cmd[p].user
    BY <2>1 DEF OwnFiles
  <2>3. /\ OnlyMoves(p) /\ cmd'[p].pc = "fill" /\ cmd'[p].file = F
        /\ cmd'[p].pair = cmd[p].pair /\ cmd'[p].user = cmd[p].user
    <3>1. cmd' = [cmd EXCEPT ![p].pc = "fill", ![p].file = F] /\ "fill" \in ClientSteps
      BY <1>4, <2>1 DEF FilesListed, ClientSteps
    <3>2. F \subseteq FileIds
      BY <2>2
    <3>3. QED BY <1>0, <3>1, <3>2, CmdTyped DEF OnlyMoves, CmdRecord
  <2>4. cmd[p].pair # 0 /\ cmd[p].pc = "list"
    BY <1>0, <1>4 DEF HandOK, FilesListed, Is
  <2>5. UNCHANGED <<sessionFile, agent, digests>>
    BY <1>4 DEF FilesListed
  <2>6. QED BY <1>0, <1>1, <2>2, <2>3, <2>4, <2>5, GoesOn DEF Working, KeyTaken
<1>5. ASSUME CacheFilled(p) PROVE DuplicatesInv'
  <2>1. /\ OnlyMoves(p) /\ cmd'[p].pair = 0 /\ cmd'[p].file = {} /\ cmd'[p].pc = "idle"
    BY <1>0, <1>5, DoneMoves DEF CacheFilled, NoCommand
  <2>2. /\ UNCHANGED <<sessionFile, agent>> /\ cmd[p].pc = "fill"
        /\ digests' = cmd[p].file \/ digests' = digests
    BY <1>5 DEF CacheFilled, Is
  <2>3. QED BY <1>0, <1>1, <2>1, <2>2, GoesOn DEF Working, KeyTaken
<1>6. QED BY <1>2, <1>3, <1>4, <1>5

LEMMA KeyGoesOn ==
  ASSUME ClientInv, DuplicatesInv, NEW p \in Commands, KeyGiven(p) \/ KeyRefused(p)
  PROVE  DuplicatesInv'
<1>0. /\ ClientStateOK /\ HandOK(cmd[p])
      /\ (~agent.up => agent.bound = 0) /\ (cmd[p].pair = 0 => cmd[p].file = {})
  BY DEF ClientInv, PairsOwned, DuplicatesInv
<1>1. UNCHANGED <<files, crossed, untold, misled>>
  BY DEF KeyGiven, KeyRefused, server, history, duplicates
<1>2. ASSUME KeyGiven(p) PROVE DuplicatesInv'
  <2>1. agent.owner = sessionFile.user /\ agent.owner \in Anyone
    BY <1>2, HeldTyped DEF KeyGiven, BoundTo, ClientInv, PairsOwned, PairOf, AgentRecord
  <2>2. PICK k, d : k = agent.owner /\ d = (sessionFile.user # cmd[p].user)
    OBVIOUS
  <2>3. k \in Anyone /\ d \in BOOLEAN
        /\ cmd' = [cmd EXCEPT ![p].pc = "ready", ![p].key = k, ![p].drift = d]
    BY <1>2, <2>1, <2>2 DEF KeyGiven
  <2>4. /\ OnlyMoves(p) /\ cmd'[p].pc = "ready" /\ cmd'[p].file = cmd[p].file
        /\ cmd'[p].pair = cmd[p].pair /\ cmd'[p].user = cmd[p].user
    BY <1>0, <2>3, KeyMoves
  <2>5. cmd[p].pair # 0 /\ cmd[p].pc = "begun"
    BY <1>0, <1>2 DEF HandOK, KeyGiven, Is
  <2>6. UNCHANGED <<sessionFile, agent, digests>> /\ agent.bound # 0 /\ sessionFile.pair # 0
    BY <1>2 DEF KeyGiven
  <2>7. CASE crossed
    <3>1. ~agent'.up => agent'.bound = 0
      BY <1>0, <2>6
    <3>2. \A q \in Commands : cmd'[q].pair = 0 => cmd'[q].file = {}
      BY <2>4 DEF OnlyMoves, DuplicatesInv
    <3>3. Accounted(digests)' /\ \A q \in Commands : Accounted(cmd[q].file)'
      BY <1>1, <2>4, <2>6 DEF OnlyMoves, DuplicatesInv, Accounted
    <3>4. QED BY <1>1, <2>7, <3>1, <3>2, <3>3 DEF DuplicatesInv
  <2>8. CASE ~crossed
    <3>1. agent.owner = cmd[p].user
      BY <2>1, <2>5, <2>6, <2>8 DEF DuplicatesInv, OneAccount
    <3>2. QED BY <1>0, <1>1, <2>4, <2>5, <2>6, <3>1, GoesOn DEF Working, KeyTaken
  <2>9. QED BY <2>7, <2>8
<1>3. ASSUME KeyRefused(p) PROVE DuplicatesInv'
  <2>1. /\ OnlyMoves(p) /\ cmd'[p].pair = 0 /\ cmd'[p].file = {} /\ cmd'[p].pc = "idle"
    BY <1>0, <1>3, DoneMoves DEF KeyRefused, NoCommand
  <2>2. /\ agent' = agent \/ agent'.bound = 0
        /\ digests' \subseteq digests /\ sessionFile' = sessionFile
    BY <1>3 DEF KeyRefused, KeepAgent, Wipe, Hold, NoKey
  <2>3. QED BY <1>0, <1>1, <2>1, <2>2, GoesOn DEF Working, KeyTaken
<1>4. QED BY <1>2, <1>3

\* What is in hand and refused is excused.
LEMMA RefusedIsExcused ==
  ASSUME ClientInv, DuplicatesInv, NEW p \in Commands, Refused(p)
  PROVE  misled' = misled
<1>1. ASSUME NEW f \in cmd[p].file PROVE Excused(p, f)
  <2>1. files[f].there \/ f \in untold
    BY DEF DuplicatesInv, Accounted
  <2>2. files[f].owner = cmd[p].user \/ crossed
    BY DEF DuplicatesInv, OneAccount, AllOf
  <2>3. QED BY <2>1, <2>2 DEF Excused
<1>2. QED BY <1>1 DEF Refused, DuplicatesInv

LEMMA UploadGoesOn ==
  ASSUME ClientInv, DuplicatesInv, NEW p \in Commands,
         \/ DigestFound(p) \/ IsDuplicate(p) \/ TakenForDuplicate(p) \/ NotConfirmed(p)
         \/ StaleDigestRemoved(p) \/ DigestAdded(p)
  PROVE  DuplicatesInv'
<1>0. /\ ClientStateOK /\ HandOK(cmd[p]) /\ digests \subseteq FileIds
      /\ (~agent.up => agent.bound = 0) /\ (cmd[p].pair = 0 => cmd[p].file = {})
      /\ {"ready", "hit", "stale", "sending", "added"} \subseteq ClientSteps
  BY DEF ClientInv, ClientStateOK, PairsOwned, DuplicatesInv, ClientSteps
<1>1. UNCHANGED <<sessionFile, agent, files, crossed, untold, misled>>
  BY RefusedIsExcused
     DEF DigestFound, IsDuplicate, TakenForDuplicate, Refused, NotConfirmed,
         StaleDigestRemoved, DigestAdded, server, history, duplicates
<1>2. cmd[p].pc \in Working /\ cmd[p].pair # 0
  BY <1>0 DEF HandOK, DigestFound, IsDuplicate, TakenForDuplicate, NotConfirmed,
              StaleDigestRemoved, DigestAdded, Is, Working
<1>3. /\ OnlyMoves(p) /\ cmd'[p].pc \in Working
      /\ cmd'[p].pair = cmd[p].pair /\ cmd'[p].user = cmd[p].user
      /\ \A f \in cmd'[p].file : f \in digests \/ f \in cmd[p].file
  <2>1. CASE DigestFound(p)
    <3>1. PICK F : /\ F \subseteq digests
                   /\ cmd' = [cmd EXCEPT ![p].pc = "hit", ![p].file = F]
      BY <2>1 DEF DigestFound
    <3>2. F \subseteq FileIds /\ "hit" \in ClientSteps
      BY <1>0, <3>1
    <3>3. /\ OnlyMoves(p) /\ cmd'[p].pc = "hit" /\ cmd'[p].file = F
          /\ cmd'[p].pair = cmd[p].pair /\ cmd'[p].user = cmd[p].user
      <4>1. cmd' = [cmd EXCEPT ![p].pc = "hit", ![p].file = F]
        BY <3>1
      <4>2. QED BY <1>0, <3>2, <4>1, CmdTyped DEF OnlyMoves, CmdRecord
    <3>4. QED BY <3>1, <3>3 DEF Working
  <2>2. CASE IsDuplicate(p) \/ TakenForDuplicate(p) \/ StaleDigestRemoved(p) \/ DigestAdded(p)
    <3>1. PICK s, F : /\ s \in {"ready", "sending"} /\ F = {}
                      /\ cmd' = [cmd EXCEPT ![p].pc = s, ![p].file = F]
      BY <2>2 DEF IsDuplicate, TakenForDuplicate, Refused, StaleDigestRemoved, DigestAdded
    <3>2. s \in ClientSteps /\ F \subseteq FileIds
      BY <1>0, <3>1
    <3>3. /\ OnlyMoves(p) /\ cmd'[p].pc = s /\ cmd'[p].file = F
          /\ cmd'[p].pair = cmd[p].pair /\ cmd'[p].user = cmd[p].user
      <4>1. cmd' = [cmd EXCEPT ![p].pc = s, ![p].file = F]
        BY <3>1
      <4>2. QED BY <1>0, <3>2, <4>1, CmdTyped DEF OnlyMoves, CmdRecord
    <3>4. QED BY <3>1, <3>3 DEF Working
  <2>3. CASE NotConfirmed(p)
    BY <1>0, <2>3, GoMoves DEF NotConfirmed, Working
  <2>4. QED BY <2>1, <2>2, <2>3
<1>4. \A f \in digests' : f \in digests \/ f \in cmd[p].file
  BY DEF DigestFound, IsDuplicate, TakenForDuplicate, Refused, NotConfirmed,
         StaleDigestRemoved, DigestAdded
<1>5. QED BY <1>0, <1>1, <1>2, <1>3, <1>4, GoesOn DEF Working, KeyTaken

LEMMA EndGoesOn ==
  ASSUME ClientInv, DuplicatesInv, NEW p \in Commands,
         \/ Refreshed(p) \/ RefreshRefused(p) \/ RotationSaved(p) \/ AgentCleared(p)
         \/ SessionRemoved(p) \/ Ends(p)
  PROVE  DuplicatesInv'
<1>0. /\ ClientStateOK /\ HandOK(cmd[p])
      /\ (~agent.up => agent.bound = 0) /\ (cmd[p].pair = 0 => cmd[p].file = {})
  BY DEF ClientInv, PairsOwned, DuplicatesInv
<1>1. UNCHANGED <<files, crossed, untold, misled>>
  BY DEF Refreshed, RefreshRefused, RotationSaved, AgentCleared, SessionRemoved, Ends,
         server, history, duplicates
<1>2. ASSUME Done(p), UNCHANGED <<agent, digests>>,
             sessionFile' = sessionFile \/ sessionFile'.pair = 0
      PROVE  DuplicatesInv'
  <2>1. /\ OnlyMoves(p) /\ cmd'[p].pair = 0 /\ cmd'[p].file = {} /\ cmd'[p].pc = "idle"
    BY <1>0, <1>2, DoneMoves DEF NoCommand
  <2>2. QED BY <1>0, <1>1, <1>2, <2>1, GoesOn DEF Working, KeyTaken
<1>3. ASSUME Refreshed(p) PROVE DuplicatesInv'
  <2>1. cmd[p].pc \in Working /\ cmd[p].pair # 0 /\ UNCHANGED <<sessionFile, agent, digests>>
    BY <1>0, <1>3 DEF Refreshed, MayRefresh, HandOK, Working
  <2>2. ASSUME NEW n \in Pairs, cmd' = [cmd EXCEPT ![p] = Adopt(@, n)]
        PROVE  DuplicatesInv'
    <3>0. n # 0
      BY ClientAssumption DEF Pairs
    <3>1. /\ OnlyMoves(p) /\ cmd'[p].pc = "rotated" /\ cmd'[p].pair = n
          /\ cmd'[p].user = cmd[p].user /\ n # 0
      BY <1>0, <2>2, <3>0, AdoptMoves
    <3>2. cmd'[p].file = cmd[p].file
      BY <1>0, <2>2, CmdTyped DEF Adopt, CmdRecord
    <3>3. QED BY <1>0, <1>1, <2>1, <3>1, <3>2, GoesOn DEF Working, KeyTaken
  <2>3. QED BY <1>2, <1>3, <2>1, <2>2 DEF Refreshed
<1>4. ASSUME RotationSaved(p) PROVE DuplicatesInv'
  <2>1. /\ OnlyMoves(p) /\ cmd'[p].pc = cmd[p].back /\ cmd'[p].pair = cmd[p].pair
        /\ cmd'[p].user = cmd[p].user /\ cmd'[p].file = cmd[p].file
    BY <1>0, <1>4, SavedMoves DEF RotationSaved
  <2>2. cmd[p].pc = "rotated" /\ cmd[p].back \in {"ready", "sending"} /\ cmd[p].pair # 0
    BY <1>0, <1>4 DEF RotationSaved, Is, HandOK
  <2>3. UNCHANGED <<agent, digests>>
        /\ (sessionFile' = sessionFile \/ sessionFile'.user = cmd[p].user)
    BY <1>4 DEF RotationSaved, Loaded
  <2>4. QED BY <1>0, <1>1, <2>1, <2>2, <2>3, GoesOn DEF Working, KeyTaken
<1>5. ASSUME AgentCleared(p) PROVE DuplicatesInv'
  <2>1. /\ OnlyMoves(p) /\ cmd'[p].pc = "remove" /\ cmd'[p].pair = cmd[p].pair
        /\ cmd'[p].user = cmd[p].user /\ cmd'[p].file = cmd[p].file
    BY <1>0, <1>5, GoMoves DEF AgentCleared, ClientSteps
  <2>2. agent'.bound = 0 /\ digests' = {} /\ sessionFile' = sessionFile
    BY <1>5 DEF AgentCleared, Wipe, Hold, NoKey
  <2>3. QED BY <1>0, <1>1, <2>1, <2>2, GoesOn DEF Working, KeyTaken
<1>6. QED
  BY <1>2, <1>3, <1>4, <1>5 DEF RefreshRefused, SessionRemoved, NoSession, Ends

\* A command begins under the name u, its hands empty: where no account is at
\* work that is not u, OneAccount holds as it did.
LEMMA Begun ==
  ASSUME ClientInv, DuplicatesInv, NEW p \in Commands, NEW u, OnlyMoves(p), Begins(p, u),
         UNCHANGED <<sessionFile, agent, digests, files, untold, misled>>,
         cmd'[p].user = u, cmd'[p].file = {},
         cmd'[p].pc \in {"save", "begun", "delete", "clear"},
         cmd'[p].pc = "begun" => sessionFile.user = u
  PROVE  DuplicatesInv'
<1>1. \A q \in Commands : q # p => cmd'[q] = cmd[q]
  BY DEF OnlyMoves
<1>2. /\ \A q \in Commands : cmd'[q].pair = 0 => cmd'[q].file = {}
      /\ \A q \in Commands : \A f \in cmd'[q].file : files[f].there \/ f \in untold
      /\ \A f \in digests' : files[f].there \/ f \in untold
  BY <1>1 DEF DuplicatesInv, Accounted
<1>3. crossed' \in BOOLEAN
  BY DEF Begins, DuplicatesInv
<1>4. ASSUME ~crossed' PROVE OneAccount'
  <2>1. /\ ~crossed
        /\ \A q \in Commands : q # p /\ cmd[q].pair # 0 => cmd[q].user = u
    BY <1>4 DEF Begins
  <2>2. OneAccount
    BY <2>1 DEF DuplicatesInv
  <2>3. \A q, r \in Commands :
          cmd'[q].pair # 0 /\ cmd'[r].pair # 0 => cmd'[q].user = cmd'[r].user
    BY <1>1, <2>1
  <2>4. ASSUME NEW q \in Commands, q # p
        PROVE  /\ \A f \in cmd'[q].file : files[f].owner = cmd'[q].user
               /\ cmd'[q].pc \in Working => \A f \in digests : files[f].owner = cmd'[q].user
               /\ cmd'[q].pc = "begun" /\ sessionFile.pair # 0 =>
                    sessionFile.user = cmd'[q].user
               /\ cmd'[q].pc \in KeyTaken /\ agent.bound # 0 => agent.owner = cmd'[q].user
    BY <1>1, <2>2, <2>4 DEF OneAccount, AllOf
  <2>5. cmd'[p].pc \notin KeyTaken /\ cmd'[p].pc \notin Working
    BY DEF KeyTaken, Working
  <2>6. agent.bound # 0 => \A f \in digests : files[f].owner = agent.owner
    BY <2>2 DEF OneAccount, AllOf
  <2>7. QED BY <2>3, <2>4, <2>5, <2>6 DEF OneAccount, AllOf
<1>5. QED BY <1>2, <1>3, <1>4 DEF DuplicatesInv, Accounted

LEMMA BeginsGoOn ==
  ASSUME ClientInv, DuplicatesInv, NEW p \in Commands,
         \/ \E u \in People : LoginPair(p, u)
         \/ UploadBegun(p) \/ DeleteBegun(p) \/ AllRevoked(p)
  PROVE  DuplicatesInv'
<1>0. ClientStateOK
  BY DEF ClientInv
<1>1. ASSUME NEW s \in {"save", "begun", "delete", "clear"}, NEW u \in Anyone,
             NEW n \in 0 .. MaxPairs,
             cmd' = [cmd EXCEPT ![p] = [NoCommand EXCEPT !.pc = s, !.user = u, !.pair = n]]
      PROVE  OnlyMoves(p) /\ cmd'[p].pc = s /\ cmd'[p].user = u /\ cmd'[p].file = {}
  <2>1. s \in ClientSteps
    BY DEF ClientSteps
  <2>2. cmd'[p].file = {}
    BY <1>0, <1>1, CmdTyped DEF NoCommand
  <2>3. QED BY <1>0, <1>1, <2>1, <2>2, BeginMoves
<1>2. ASSUME NEW u \in People, LoginPair(p, u) PROVE DuplicatesInv'
  <2>1. PICK n \in Pairs :
          cmd' = [cmd EXCEPT ![p] = [NoCommand EXCEPT !.pc = "save", !.user = u, !.pair = n]]
    BY <1>2 DEF LoginPair
  <2>2. u \in Anyone /\ n \in 0 .. MaxPairs
    BY DEF Anyone, Pairs
  <2>3. OnlyMoves(p) /\ cmd'[p].pc = "save" /\ cmd'[p].user = u /\ cmd'[p].file = {}
    BY <1>1, <2>1, <2>2
  <2>4. Begins(p, u) /\ UNCHANGED <<sessionFile, agent, digests, files, untold, misled>>
    BY <1>2 DEF LoginPair
  <2>5. QED BY <2>3, <2>4, Begun
<1>3. ASSUME UploadBegun(p) \/ DeleteBegun(p) \/ AllRevoked(p) PROVE DuplicatesInv'
  <2>1. PICK s \in {"begun", "delete", "clear"} : LoadSession(p, s)
    BY <1>3 DEF UploadBegun, DeleteBegun, AllRevoked
  <2>2. PICK u, n : u = sessionFile.user /\ n = sessionFile.pair
    OBVIOUS
  <2>3. u \in Anyone /\ n \in 0 .. MaxPairs
    BY <1>0, <2>2 DEF ClientStateOK
  <2>4. cmd' = [cmd EXCEPT ![p] = [NoCommand EXCEPT !.pc = s, !.user = u, !.pair = n]]
    BY <2>1, <2>2 DEF LoadSession
  <2>5. OnlyMoves(p) /\ cmd'[p].pc = s /\ cmd'[p].user = u /\ cmd'[p].file = {}
    BY <1>1, <2>3, <2>4
  <2>6. UNCHANGED <<sessionFile, agent, digests, files, untold, misled>>
    BY <1>3 DEF UploadBegun, DeleteBegun, AllRevoked, server
  <2>7. Begins(p, u)
    BY <2>1, <2>2 DEF LoadSession
  <2>8. QED BY <2>2, <2>5, <2>6, <2>7, Begun
<1>4. QED BY <1>2, <1>3

\* What becomes of the invariant when a file goes: it is untold from then on.
LEMMA VanishesGoesOn ==
  ASSUME ClientInv, DuplicatesInv, NEW f \in FileIds, Vanishes(f)
  PROVE  /\ \A g \in FileIds : files'[g].owner = files[g].owner
         /\ untold' \subseteq FileIds
         /\ \A g \in FileIds :
              files[g].there \/ g \in untold => files'[g].there \/ g \in untold'
<1>1. files \in [FileIds -> FileRecord]
  BY DEF ClientInv, ClientStateOK, FileRecord
<1>2. PICK c : c = files[f] /\ c \in FileRecord
  BY <1>1
<1>3. PICK d : d = [c EXCEPT !.there = FALSE]
  OBVIOUS
<1>4. d.owner = c.owner
  BY <1>2, <1>3 DEF FileRecord
<1>5. files' = [files EXCEPT ![f] = d]
  BY <1>1, <1>2, <1>3 DEF Vanishes
<1>6. untold' = untold \cup {f} /\ untold \subseteq FileIds
  BY DEF Vanishes, DuplicatesInv
<1>7. QED BY <1>1, <1>2, <1>4, <1>5, <1>6

LEMMA DeletionGoesOn ==
  ASSUME ClientInv, DuplicatesInv, NEW p \in Commands,
         Uploaded(p) \/ FileDeleted(p) \/ DigestRemoved(p)
  PROVE  DuplicatesInv'
<1>0. /\ ClientStateOK /\ HandOK(cmd[p]) /\ files \in [FileIds -> FileRecord]
      /\ digests \subseteq FileIds /\ (\A q \in Commands : cmd[q].file \subseteq FileIds)
      /\ \A q \in Commands : cmd[q].pair = 0 => cmd[q].file = {}
  BY HeldTyped DEF ClientInv, PairsOwned, ClientStateOK, FileRecord, DuplicatesInv
<1>1. ASSUME Uploaded(p) PROVE DuplicatesInv'
  <2>1. PICK f \in FileIds :
          /\ files[f] = NoFileYet
          /\ files' = [files EXCEPT ![f] = [owner |-> cmd[p].user, key |-> cmd[p].key,
                                            drift |-> cmd[p].drift, there |-> TRUE]]
          /\ cmd' = [cmd EXCEPT ![p].pc = "added", ![p].file = {f}]
    BY <1>1 DEF Uploaded
  <2>2. /\ OnlyMoves(p) /\ cmd'[p].pc = "added" /\ cmd'[p].file = {f}
        /\ cmd'[p].pair = cmd[p].pair /\ cmd'[p].user = cmd[p].user
    <3>1. PICK F : F = {f}
      OBVIOUS
    <3>2. F \subseteq FileIds /\ "added" \in ClientSteps
      BY <3>1 DEF ClientSteps
    <3>3. cmd' = [cmd EXCEPT ![p].pc = "added", ![p].file = F]
      BY <2>1, <3>1
    <3>4. /\ OnlyMoves(p) /\ cmd'[p].pc = "added" /\ cmd'[p].file = F
          /\ cmd'[p].pair = cmd[p].pair /\ cmd'[p].user = cmd[p].user
      BY <1>0, <3>2, <3>3, CmdTyped DEF OnlyMoves, CmdRecord
    <3>5. QED BY <3>1, <3>4
  <2>3. \A q \in Commands : q # p => cmd'[q] = cmd[q]
    BY <2>2 DEF OnlyMoves
  <2>4. cmd[p].pc \in Working /\ cmd[p].pair # 0
    BY <1>0, <1>1 DEF Uploaded, Is, Working, HandOK
  <2>5. UNCHANGED <<sessionFile, agent, digests, crossed, untold, misled>>
    BY <1>1 DEF Uploaded, history, duplicates
  <2>6. /\ files'[f].owner = cmd[p].user /\ files'[f].there
        /\ \A g \in FileIds : g # f => files'[g] = files[g]
    BY <1>0, <2>1
  <2>7. /\ \A g \in digests : files'[g].there \/ g \in untold
        /\ \A q \in Commands : \A g \in cmd'[q].file : files'[g].there \/ g \in untold
    BY <1>0, <2>2, <2>3, <2>6 DEF DuplicatesInv, Accounted
  <2>8. \A q \in Commands : cmd'[q].pair = 0 => cmd'[q].file = {}
    BY <1>0, <2>2, <2>3, <2>4
  <2>9. ASSUME ~crossed PROVE OneAccount'
    <3>1. OneAccount
      BY <2>9 DEF DuplicatesInv
    <3>2. \A q \in Commands : cmd'[q].pair = cmd[q].pair /\ cmd'[q].user = cmd[q].user
      BY <2>2, <2>3
    <3>3. \A q \in Commands : cmd[q].pair # 0 => cmd[q].user = cmd[p].user
      BY <2>4, <3>1 DEF OneAccount
    <3>4. agent.bound # 0 => \A g \in digests : files'[g].owner = agent.owner
      BY <1>0, <2>4, <2>6, <3>1 DEF OneAccount, AllOf, KeyTaken
    <3>5. \A q \in Commands : \A g \in cmd'[q].file : files'[g].owner = cmd'[q].user
      <4>1. TAKE q \in Commands
      <4>2. TAKE g \in cmd'[q].file
      <4>3. CASE q = p
        BY <2>2, <2>6, <4>2, <4>3
      <4>4. CASE q # p
        <5>1. g \in cmd[q].file /\ g \in FileIds /\ cmd[q].pair # 0 /\ cmd'[q].user = cmd[q].user
          BY <1>0, <2>3, <4>2, <4>4
        <5>2. QED BY <2>6, <3>1, <3>3, <5>1 DEF OneAccount, AllOf
      <4>5. QED BY <4>3, <4>4
    <3>6. \A q \in Commands : cmd'[q].pc \in Working =>
            \A g \in digests : files'[g].owner = cmd'[q].user
      <4>1. \A q \in Commands : cmd'[q].pc \in Working => cmd[q].pc \in Working
        BY <2>3, <2>4
      <4>2. \A q \in Commands : cmd[q].pc \in Working => cmd[q].pair # 0
        BY WorkingHasPair DEF KeyTaken
      <4>3. QED BY <1>0, <2>6, <3>1, <3>2, <3>3, <4>1, <4>2 DEF OneAccount, AllOf
    <3>7. \A q \in Commands :
            /\ cmd'[q].pc = "begun" /\ sessionFile.pair # 0 => sessionFile.user = cmd'[q].user
            /\ cmd'[q].pc \in KeyTaken /\ agent.bound # 0 => agent.owner = cmd'[q].user
      BY <2>2, <2>3, <2>4, <3>1 DEF OneAccount, KeyTaken
    <3>8. \A q, r \in Commands :
            cmd'[q].pair # 0 /\ cmd'[r].pair # 0 => cmd'[q].user = cmd'[r].user
      BY <3>2, <3>3
    <3>9. QED BY <2>5, <3>4, <3>5, <3>6, <3>7, <3>8 DEF OneAccount, AllOf
  <2>10. QED BY <2>5, <2>7, <2>8, <2>9 DEF DuplicatesInv, Accounted
<1>2. ASSUME FileDeleted(p) PROVE DuplicatesInv'
  <2>1. PICK f \in FileIds :
          /\ files[f].owner = cmd[p].user /\ Vanishes(f)
          /\ cmd' = [cmd EXCEPT ![p].pc = "deleted", ![p].file = {f}]
    BY <1>2 DEF FileDeleted, OwnFiles
  <2>2. /\ OnlyMoves(p) /\ cmd'[p].pc = "deleted" /\ cmd'[p].file = {f}
        /\ cmd'[p].pair = cmd[p].pair /\ cmd'[p].user = cmd[p].user
    <3>1. PICK F : F = {f}
      OBVIOUS
    <3>2. F \subseteq FileIds /\ "deleted" \in ClientSteps
      BY <3>1 DEF ClientSteps
    <3>3. cmd' = [cmd EXCEPT ![p].pc = "deleted", ![p].file = F]
      BY <2>1, <3>1
    <3>4. /\ OnlyMoves(p) /\ cmd'[p].pc = "deleted" /\ cmd'[p].file = F
          /\ cmd'[p].pair = cmd[p].pair /\ cmd'[p].user = cmd[p].user
      BY <1>0, <3>2, <3>3, CmdTyped DEF OnlyMoves, CmdRecord
    <3>5. QED BY <3>1, <3>4
  <2>3. \A q \in Commands : q # p => cmd'[q] = cmd[q]
    BY <2>2 DEF OnlyMoves
  <2>4. cmd[p].pair # 0
    BY <1>0, <1>2 DEF FileDeleted, Is, HandOK
  <2>5. UNCHANGED <<sessionFile, agent, digests, crossed, misled>>
    BY <2>1 DEF Vanishes
  <2>6. /\ \A g \in FileIds : files'[g].owner = files[g].owner
        /\ untold' \subseteq FileIds
        /\ \A g \in FileIds :
             files[g].there \/ g \in untold => files'[g].there \/ g \in untold'
    BY <2>1, VanishesGoesOn
  <2>7. f \in untold'
    BY <2>1 DEF Vanishes
  <2>8. /\ \A g \in digests : files'[g].there \/ g \in untold'
        /\ \A q \in Commands : \A g \in cmd'[q].file : files'[g].there \/ g \in untold'
    BY <1>0, <2>2, <2>3, <2>6, <2>7 DEF DuplicatesInv, Accounted
  <2>9. \A q \in Commands : cmd'[q].pair = 0 => cmd'[q].file = {}
    BY <1>0, <2>2, <2>3, <2>4
  <2>10. ASSUME ~crossed PROVE OneAccount'
    <3>1. OneAccount
      BY <2>10 DEF DuplicatesInv
    <3>2. \A q \in Commands : cmd'[q].pair = cmd[q].pair /\ cmd'[q].user = cmd[q].user
      BY <2>2, <2>3
    <3>3. \A q \in Commands : \A g \in cmd'[q].file : files'[g].owner = cmd'[q].user
      <4>1. \A g \in cmd'[p].file : files'[g].owner = cmd'[p].user
        BY <2>1, <2>2, <2>6
      <4>2. ASSUME NEW q \in Commands, q # p, NEW g \in cmd'[q].file
            PROVE  files'[g].owner = cmd'[q].user
        <5>1. g \in cmd[q].file /\ g \in FileIds /\ cmd'[q].user = cmd[q].user
          BY <1>0, <2>3, <4>2
        <5>2. QED BY <2>6, <3>1, <5>1 DEF OneAccount, AllOf
      <4>3. QED BY <4>1, <4>2
    <3>4. \A q \in Commands :
            /\ cmd'[q].pc \in Working => cmd[q].pc \in Working
            /\ cmd'[q].pc \in KeyTaken => cmd[q].pc \in KeyTaken
            /\ cmd'[q].pc = "begun" => cmd[q].pc = "begun"
      BY <2>2, <2>3 DEF Working, KeyTaken
    <3>5. \A g \in digests : files'[g].owner = files[g].owner
      BY <1>0, <2>6
    <3>6. QED BY <2>5, <3>1, <3>2, <3>3, <3>4, <3>5 DEF OneAccount, AllOf
  <2>11. QED BY <2>5, <2>6, <2>8, <2>9, <2>10 DEF DuplicatesInv, Accounted
<1>3. ASSUME DigestRemoved(p) PROVE DuplicatesInv'
  <2>1. /\ OnlyMoves(p) /\ cmd'[p].pair = 0 /\ cmd'[p].file = {} /\ cmd'[p].pc = "idle"
    BY <1>0, <1>3, DoneMoves DEF DigestRemoved, NoCommand
  <2>2. \A q \in Commands : q # p => cmd'[q] = cmd[q]
    BY <2>1 DEF OnlyMoves
  <2>3. /\ digests' = digests \ cmd[p].file
        /\ untold' = untold \ (cmd[p].file \ InOtherHands(p))
        /\ UNCHANGED <<sessionFile, agent, files, crossed, misled>>
    BY <1>3 DEF DigestRemoved, Without, server
  <2>4. \A q \in Commands : q # p => cmd[q].file \subseteq InOtherHands(p)
    BY DEF InOtherHands
  <2>5. /\ \A g \in digests' : files[g].there \/ g \in untold'
        /\ \A q \in Commands : \A g \in cmd'[q].file : files[g].there \/ g \in untold'
    BY <2>1, <2>2, <2>3, <2>4 DEF DuplicatesInv, Accounted
  <2>6. ASSUME ~crossed PROVE OneAccount'
    <3>1. OneAccount
      BY <2>6 DEF DuplicatesInv
    <3>2. cmd'[p].pc \notin KeyTaken /\ cmd'[p].pc \notin Working
      BY <2>1 DEF KeyTaken, Working
    <3>3. QED BY <2>1, <2>2, <2>3, <3>1, <3>2 DEF OneAccount, AllOf
  <2>7. QED BY <1>0, <2>1, <2>2, <2>3, <2>5, <2>6 DEF DuplicatesInv, Accounted
<1>4. QED BY <1>1, <1>2, <1>3

LEMMA AsideGoesOn ==
  ASSUME ClientInv, DuplicatesInv, AgentStarts \/ AgentStops \/ KeyExpires \/ DeletedElsewhere
  PROVE  DuplicatesInv'
<1>0. /\ digests \subseteq FileIds /\ (\A q \in Commands : cmd[q].file \subseteq FileIds)
  BY HeldTyped DEF ClientInv, ClientStateOK
<1>1. CASE DeletedElsewhere
  <2>1. PICK f \in FileIds : Vanishes(f) /\ UNCHANGED cmd
    BY <1>1 DEF DeletedElsewhere
  <2>2. UNCHANGED <<sessionFile, agent, digests, crossed, misled, cmd>>
    BY <2>1 DEF Vanishes
  <2>3. /\ \A g \in FileIds : files'[g].owner = files[g].owner
        /\ untold' \subseteq FileIds
        /\ \A g \in FileIds :
             files[g].there \/ g \in untold => files'[g].there \/ g \in untold'
    BY <2>1, VanishesGoesOn
  <2>4. OneAccount => OneAccount'
    BY <1>0, <2>2, <2>3 DEF OneAccount, AllOf
  <2>5. Accounted(digests)' /\ \A q \in Commands : Accounted(cmd[q].file)'
    BY <1>0, <2>2, <2>3 DEF DuplicatesInv, Accounted
  <2>6. QED BY <2>2, <2>3, <2>4, <2>5 DEF DuplicatesInv
<1>2. CASE AgentStarts \/ AgentStops \/ KeyExpires
  <2>1. UNCHANGED <<sessionFile, files, cmd, crossed, untold, misled>>
    BY <1>2 DEF AgentStarts, AgentStops, KeyExpires, server, history, duplicates
  <2>2. \/ agent'.up /\ agent'.owner = agent.owner /\ agent'.bound = agent.bound
           /\ digests' = digests
        \/ agent'.bound = 0 /\ digests' = {}
    <3>1. CASE AgentStarts
      BY <3>1, HeldTyped DEF AgentStarts, ClientInv, AgentRecord
    <3>2. CASE AgentStops \/ KeyExpires
      BY <3>2 DEF AgentStops, KeyExpires, Wipe, Hold, NoKey
    <3>3. QED BY <1>2, <3>1, <3>2
  <2>3. OneAccount => OneAccount'
    BY <2>1, <2>2 DEF OneAccount, AllOf
  <2>4. QED BY <2>1, <2>2, <2>3 DEF DuplicatesInv, Accounted
<1>3. QED BY <1>1, <1>2

LEMMA DuplicatesStep ==
  ASSUME ClientInv, DuplicatesInv, ClientNext
  PROVE  DuplicatesInv'
<1>1. CASE AgentStarts \/ AgentStops \/ KeyExpires \/ DeletedElsewhere
  BY <1>1, AsideGoesOn
<1>2. ASSUME NEW p \in Commands,
             \/ \E u \in People : LoginPair(p, u)
             \/ LoginSaved(p) \/ KeyStored(p) \/ FilesListed(p) \/ CacheFilled(p)
             \/ UploadBegun(p) \/ KeyGiven(p) \/ KeyRefused(p)
             \/ DigestFound(p)
             \/ IsDuplicate(p) \/ TakenForDuplicate(p) \/ NotConfirmed(p)
             \/ StaleDigestRemoved(p) \/ Uploaded(p) \/ DigestAdded(p)
             \/ Refreshed(p) \/ RefreshRefused(p) \/ RotationSaved(p)
             \/ DeleteBegun(p) \/ FileDeleted(p) \/ DigestRemoved(p)
             \/ AllRevoked(p) \/ AgentCleared(p) \/ SessionRemoved(p)
             \/ Ends(p)
      PROVE  DuplicatesInv'
  BY <1>2, BeginsGoOn, LoginGoesOn, KeyGoesOn, UploadGoesOn, DeletionGoesOn, EndGoesOn
<1>3. QED BY <1>1, <1>2 DEF ClientNext

LEMMA DuplicatesInvHolds == ClientSpec => []DuplicatesInv
<1>1. ClientInit => DuplicatesInv
  BY DuplicatesStart
<1>2. ClientInv /\ DuplicatesInv /\ [ClientNext]_clientVars => DuplicatesInv'
  <2>1. ASSUME DuplicatesInv, UNCHANGED clientVars PROVE DuplicatesInv'
    <3>1. UNCHANGED <<sessionFile, agent, digests, files, cmd, crossed, untold, misled>>
      BY <2>1 DEF clientVars
    <3>2. QED BY <2>1, <3>1 DEF DuplicatesInv, OneAccount, AllOf, Accounted
  <2>2. QED BY <2>1, DuplicatesStep
<1>3. QED BY <1>1, <1>2, ClientInvHolds, PTL DEF ClientSpec

(* A file refused as a duplicate is one the account itself uploaded and    *)
(* that is there, in any interleaving of any number of commands, logins,   *)
(* expiries and deletions, but for the two things RefusedIsOwn excuses     *)
(* (cmd/arkfile-client/dedup.go:96).                                       *)
THEOREM DuplicatesKept == ClientSpec => []RefusedIsOwn
<1>1. DuplicatesInv => RefusedIsOwn
  BY DEF DuplicatesInv, RefusedIsOwn
<1>2. QED BY <1>1, DuplicatesInvHolds, PTL

-----------------------------------------------------------------------------
(* Whatever commands run side by side and whenever the agent goes, the     *)
(* session file, the agent and the commands hold what they may hold.       *)
THEOREM ClientTypeCorrect == ClientSpec => []ClientTypeOK
<1>1. ClientInv /\ DuplicatesInv => ClientTypeOK
  BY DEF ClientInv, DuplicatesInv, ClientTypeOK
<1>2. QED BY <1>1, ClientInvHolds, DuplicatesInvHolds, PTL

(* A file goes up under the key of its owner, and a calm session never     *)
(* sends a refresh token twice (cmd/arkfile-client/main.go:525,            *)
(* main.go:1414).                                                          *)
THEOREM ClientKept == ClientSpec => []ClientHolds
<1>1. ClientInv => ClientHolds
  BY DEF ClientInv
<1>2. QED BY <1>1, ClientInvHolds, PTL

-----------------------------------------------------------------------------
(***************************************************************************)
(* Recovery: the inductive invariant                                       *)
(***************************************************************************)

\* Every completed factor is at hand.
HeldAll == \A k \in FactorKinds : factor[k].done => <<k, factor[k].id>> \in held

\* Rows after which the codes of the server are the ones written down: a
\* completed one, a key, a secret that reached the phone.
CodesCount ==
  \/ AnyCompleted(factor)
  \/ HasFactor("webauthn")
  \/ HasFactor("totp") /\ <<"totp", factor["totp"].id>> \in held
SheetKept == unlucky \/ (CodesCount => SheetFits)

\* No secret or key that is still to be made is held or has a row.
HeldMade ==
  /\ \A h \in held : h[2] <= made.rows
  /\ \A k \in FactorKinds : factor[k].id <= made.rows

RecoveryInv ==
  /\ RecoveryTypeOK
  /\ HeldMade
  /\ losses = 0 => HeldAll /\ SheetKept
  /\ losses = 1 => HeldAll \/ SheetKept

FactorRecord == [id: Numbers, done: BOOLEAN]
TokenPair == [temp: {"none", "live", "dead"}, full: {"none", "live", "dead"}]
DoingRecord ==
  {Nothing} \cup [pc: {"enrol"}, kind: FactorKinds, with: {"temp", "full"}]
            \cup [pc: {"second", "reset"}]

\* What the steps need of the types.
LEMMA RecoveryTypes ==
  ASSUME RecoveryTypeOK
  PROVE  /\ factor \in [FactorKinds -> FactorRecord]
         /\ codeSet \in 0 .. MaxSets /\ codesLeft \in 0 .. CodesPerSet
         /\ held \subseteq FactorKinds \X Numbers /\ sheet \in 0 .. MaxSets
         /\ tokens \in TokenPair /\ doing \in DoingRecord
         /\ made \in [rows: 0 .. MaxEnrolled, sets: 0 .. MaxSets]
         /\ made.rows \in Nat /\ made.sets \in Nat
         /\ TokenUsed \in {"temp", "full"}
         /\ "totp" \in FactorKinds /\ "webauthn" \in FactorKinds
         /\ \A k \in FactorKinds : factor[k].id \in Numbers /\ factor[k].done \in BOOLEAN
         /\ unlucky \in BOOLEAN /\ losses \in 0 .. MaxLosses
         /\ program \in {"admin", "client"}
  BY RecoveryAssumption
     DEF RecoveryTypeOK, FactorRecord, TokenPair, DoingRecord, TokenUsed, FactorKinds, Numbers

LEMMA TokensTyped ==
  ASSUME RecoveryTypeOK
  PROVE  /\ {NoTokens, TempOnly, FullOnly} \subseteq TokenPair
         /\ [tokens EXCEPT !.temp = "live"] \in TokenPair
         /\ [tokens EXCEPT !.temp = "none"] \in TokenPair
         /\ [tokens EXCEPT !.temp = IF @ = "live" THEN "dead" ELSE @] \in TokenPair
         /\ [tokens EXCEPT !.full = IF @ = "live" THEN "dead" ELSE @] \in TokenPair
         /\ \A with \in {"temp", "full"} : TokensAfter(with) \in TokenPair
<1>1. tokens \in TokenPair
  BY DEF RecoveryTypeOK, TokenPair
<1>2. {NoTokens, TempOnly, FullOnly} \subseteq TokenPair
  BY DEF NoTokens, TempOnly, FullOnly, TokenPair
<1>3. /\ [tokens EXCEPT !.temp = "live"] \in TokenPair
      /\ [tokens EXCEPT !.temp = "none"] \in TokenPair
      /\ [tokens EXCEPT !.temp = IF @ = "live" THEN "dead" ELSE @] \in TokenPair
      /\ [tokens EXCEPT !.full = IF @ = "live" THEN "dead" ELSE @] \in TokenPair
  BY <1>1 DEF TokenPair
<1>4. \A with \in {"temp", "full"} : TokensAfter(with) \in TokenPair
  BY <1>2, <1>3 DEF TokensAfter
<1>5. QED BY <1>2, <1>3, <1>4

\* A step that loses nothing keeps the invariant if it keeps the parts.
LEMMA NothingLost ==
  ASSUME RecoveryInv, RecoveryTypeOK', HeldMade', losses' = losses,
         HeldAll => HeldAll', SheetKept => SheetKept'
  PROVE  RecoveryInv'
  BY DEF RecoveryInv

\* Neither the factors nor the codes change, except that codes are used.
LEMMA SameFactors ==
  ASSUME RecoveryInv, RecoveryTypeOK',
         UNCHANGED <<factor, held, codeSet, sheet, made, losses, unlucky>>
  PROVE  RecoveryInv'
<1>1. HeldMade'
  BY DEF RecoveryInv, HeldMade
<1>2. HeldAll => HeldAll'
  BY DEF HeldAll
<1>3. SheetKept => SheetKept'
  BY DEF SheetKept, CodesCount, AnyCompleted, HasFactor, SheetFits
<1>4. QED BY <1>1, <1>2, <1>3, NothingLost

LEMMA SessionKeeps ==
  ASSUME RecoveryInv,
         \/ LoginToSetUp \/ LoginBegun \/ LoginWithFactor \/ LoginWithCode
         \/ CodeBurnt \/ CommandEnds \/ TokenEnds
  PROVE  RecoveryInv'
<1>0. RecoveryTypeOK
  BY DEF RecoveryInv
<1>1. UNCHANGED <<program, factor, held, codeSet, sheet, made, losses, unlucky>>
  BY DEF LoginToSetUp, LoginBegun, LoginWithFactor, LoginWithCode, CodeBurnt, CommandEnds,
         TokenEnds
<1>2. codesLeft' \in 0 .. CodesPerSet
  <2>1. CASE codesLeft' = codesLeft
    BY <1>0, <2>1, RecoveryTypes
  <2>2. CASE codesLeft > 0 /\ codesLeft' = codesLeft - 1
    BY <1>0, <2>2, RecoveryTypes, RecoveryAssumption
  <2>3. QED
    BY <2>1, <2>2 DEF LoginToSetUp, LoginBegun, LoginWithFactor, LoginWithCode, CodeBurnt,
       CommandEnds, TokenEnds, KnowsCode
<1>3. tokens' \in TokenPair
  BY <1>0, RecoveryTypes, TokensTyped
     DEF LoginToSetUp, LoginBegun, LoginWithFactor, LoginWithCode, CodeBurnt,
         CommandEnds, TokenEnds
<1>4. doing' \in DoingRecord
  <2>1. {doing, Nothing, [pc |-> "second"], [pc |-> "reset"]} \subseteq DoingRecord
    BY <1>0, RecoveryTypes DEF DoingRecord
  <2>2. doing' \in {doing, Nothing, [pc |-> "second"], [pc |-> "reset"]}
    BY DEF LoginToSetUp, LoginBegun, LoginWithFactor, LoginWithCode, CodeBurnt,
           CommandEnds, TokenEnds, RecoveryGoesOn
  <2>3. QED BY <2>1, <2>2
<1>5. RecoveryTypeOK'
  BY <1>0, <1>1, <1>2, <1>3, <1>4 DEF RecoveryTypeOK, TokenPair, DoingRecord
<1>6. QED BY <1>1, <1>5, SameFactors

\* The server makes a set of codes: it is seen, or bad luck counts.
LEMMA IssuedTyped ==
  ASSUME RecoveryTypeOK, NEW shown \in BOOLEAN, NEW bad \in BOOLEAN, Issued(shown, bad)
  PROVE  /\ codeSet' \in 0 .. MaxSets /\ codesLeft' \in 0 .. CodesPerSet
         /\ sheet' \in 0 .. MaxSets /\ unlucky' \in BOOLEAN
         /\ made.sets + 1 \in 0 .. MaxSets
         /\ shown => SheetFits'
         /\ ~shown => unlucky' = (unlucky \/ bad)
<1>1. made.sets \in Nat /\ MaxSets \in Nat /\ made.sets + 1 <= MaxSets
  BY RecoveryTypes, RecoveryAssumption DEF Issued
<1>2. /\ codeSet' \in 0 .. MaxSets /\ sheet' \in 0 .. MaxSets
      /\ made.sets + 1 \in 0 .. MaxSets
  BY <1>1, RecoveryTypes DEF Issued
<1>3. codesLeft' \in 0 .. CodesPerSet
  BY RecoveryAssumption DEF Issued
<1>4. unlucky' \in BOOLEAN
  BY RecoveryTypes DEF Issued
<1>5. shown => SheetFits'
  BY <1>1 DEF Issued, SheetFits
<1>6. QED BY <1>2, <1>3, <1>4, <1>5 DEF Issued

LEMMA EitherIssued ==
  ASSUME RecoveryTypeOK, NEW issue \in BOOLEAN, NEW shown \in BOOLEAN, NEW bad \in BOOLEAN,
         IF issue THEN Issued(shown, bad) ELSE SameCodes
  PROVE  /\ codeSet' \in 0 .. MaxSets /\ codesLeft' \in 0 .. CodesPerSet
         /\ sheet' \in 0 .. MaxSets /\ unlucky' \in BOOLEAN
         /\ made.sets + (IF issue THEN 1 ELSE 0) \in 0 .. MaxSets
         /\ issue /\ shown => SheetFits'
         /\ issue /\ ~shown => unlucky' = (unlucky \/ bad)
         /\ ~issue => unlucky' = unlucky /\ (SheetFits' <=> SheetFits)
<1>1. CASE issue
  BY <1>1, IssuedTyped
<1>2. CASE ~issue
  <2>1. UNCHANGED <<codeSet, codesLeft, sheet, unlucky>>
    BY <1>2 DEF SameCodes
  <2>2. made.sets + 0 \in 0 .. MaxSets
    BY RecoveryTypes
  <2>3. SheetFits' <=> SheetFits
    BY <2>1 DEF SheetFits
  <2>4. QED BY <1>2, <2>1, <2>2, <2>3, RecoveryTypes
<1>3. QED BY <1>1, <1>2

LEMMA SecretKeeps ==
  ASSUME RecoveryInv, TOTPSetUp
  PROVE  RecoveryInv'
<1>0. RecoveryTypeOK /\ HeldMade
  BY DEF RecoveryInv
<1>1. PICK new, id, issue :
        /\ new = ~HasFactor("totp")
        /\ id = IF new THEN made.rows + 1 ELSE factor["totp"].id
        /\ issue = ~AnyCompleted(factor)
  OBVIOUS
<1>2. PICK answered \in BOOLEAN :
        /\ id <= MaxEnrolled
        /\ factor' = [factor EXCEPT !["totp"].id = id]
        /\ made' = [rows |-> IF new THEN id ELSE made.rows,
                    sets |-> made.sets + (IF issue THEN 1 ELSE 0)]
        /\ IF issue THEN Issued(answered, SheetFits) ELSE SameCodes
        /\ TOTPShown(answered, id)
  BY <1>1 DEF TOTPSetUp, CodesWithFactor
<1>3. /\ UNCHANGED <<program, tokens, losses>>
      /\ ~factor["totp"].done
  BY DEF TOTPSetUp
<1>4. new \in BOOLEAN /\ issue \in BOOLEAN /\ SheetFits \in BOOLEAN /\ id \in Numbers /\ id \in Nat
  BY <1>0, <1>1, <1>2, RecoveryTypes, RecoveryAssumption
     DEF HasFactor, AnyCompleted, SheetFits, Numbers
<1>5. /\ factor' \in [FactorKinds -> FactorRecord]
      /\ factor'["totp"].id = id /\ ~factor'["totp"].done
      /\ factor'["webauthn"] = factor["webauthn"]
  BY <1>0, <1>2, <1>3, <1>4, RecoveryTypes DEF FactorRecord, FactorKinds
<1>6. AnyCompleted(factor)' <=> AnyCompleted(factor)
  BY <1>3, <1>5 DEF AnyCompleted, FactorKinds
<1>7. /\ held \subseteq held' /\ held' \subseteq held \cup {<<"totp", id>>}
      /\ ~answered => held' = held
      /\ held' \subseteq FactorKinds \X Numbers /\ doing' \in DoingRecord
  <2>1. held' = IF answered THEN held \cup {<<"totp", id>>} ELSE held
    BY <1>2 DEF TOTPShown
  <2>2. doing' \in {Nothing, [pc |-> "enrol", kind |-> "totp", with |-> TokenUsed]}
    BY <1>2 DEF TOTPShown
  <2>3. doing' \in DoingRecord
    BY <1>0, <2>2, RecoveryTypes DEF DoingRecord
  <2>4. QED BY <1>0, <1>4, <2>1, <2>3, RecoveryTypes
<1>8. /\ codeSet' \in 0 .. MaxSets /\ codesLeft' \in 0 .. CodesPerSet
      /\ sheet' \in 0 .. MaxSets /\ unlucky' \in BOOLEAN
      /\ made.sets + (IF issue THEN 1 ELSE 0) \in 0 .. MaxSets
      /\ issue /\ answered => SheetFits'
      /\ issue /\ ~answered => unlucky' = (unlucky \/ SheetFits)
      /\ ~issue => unlucky' = unlucky /\ (SheetFits' <=> SheetFits)
  BY <1>0, <1>2, <1>4, EitherIssued
<1>9. /\ made' \in [rows: 0 .. MaxEnrolled, sets: 0 .. MaxSets]
      /\ made'.rows = IF new THEN id ELSE made.rows
  BY <1>0, <1>2, <1>4, <1>8, RecoveryTypes DEF Numbers
<1>10. RecoveryTypeOK'
  BY <1>0, <1>3, <1>5, <1>7, <1>8, <1>9 DEF RecoveryTypeOK, FactorRecord, DoingRecord
<1>11. HeldMade'
  <2>1. made.rows \in Nat /\ made.rows <= made'.rows /\ made'.rows \in Nat /\ id <= made'.rows
    BY <1>0, <1>1, <1>4, <1>9, RecoveryTypes DEF HeldMade
  <2>2. \A h \in held : h[2] \in Nat
    BY <1>0, RecoveryTypes DEF Numbers
  <2>3. \A h \in held' : h[2] <= made'.rows
    BY <1>0, <1>7, <2>1, <2>2 DEF HeldMade
  <2>4. \A k \in FactorKinds : factor[k].id \in Nat
    BY <1>0, RecoveryTypes DEF Numbers
  <2>5. \A k \in FactorKinds : factor'[k].id <= made'.rows
    BY <1>0, <1>5, <2>1, <2>4 DEF HeldMade, FactorKinds
  <2>6. QED BY <2>3, <2>5 DEF HeldMade
<1>12. HeldAll => HeldAll'
  BY <1>5, <1>7 DEF HeldAll, FactorKinds
<1>13. ASSUME SheetKept PROVE SheetKept'
  <2>1. CASE issue /\ answered
    BY <1>8, <2>1 DEF SheetKept
  <2>2. CASE issue /\ ~answered /\ (unlucky \/ SheetFits)
    BY <1>8, <2>2 DEF SheetKept
  <2>3. CASE issue /\ ~answered /\ ~(unlucky \/ SheetFits)
    <3>1. ~CodesCount
      BY <1>13, <2>3 DEF SheetKept
    <3>2. ~AnyCompleted(factor)' /\ ~HasFactor("webauthn")'
      BY <1>5, <1>6, <3>1 DEF CodesCount, HasFactor
    <3>3. <<"totp", id>> \notin held \/ id = 0
      <4>1. CASE new
        <5>1. id = made.rows + 1 /\ made.rows \in Nat
          BY <1>0, <1>1, <4>1, RecoveryTypes
        <5>2. ASSUME <<"totp", id>> \in held PROVE FALSE
          <6>1. <<"totp", id>>[2] <= made.rows
            BY <1>0, <5>2 DEF HeldMade
          <6>2. QED BY <5>1, <6>1
        <5>3. QED BY <5>2
      <4>2. CASE ~new
        BY <1>1, <3>1, <4>2 DEF CodesCount, HasFactor
      <4>3. QED BY <1>4, <4>1, <4>2
    <3>4. ~CodesCount'
      BY <1>5, <1>7, <2>3, <3>2, <3>3 DEF CodesCount, HasFactor
    <3>5. QED BY <3>4 DEF SheetKept
  <2>4. CASE ~issue
    <3>1. CodesCount /\ unlucky' = unlucky /\ (SheetFits' <=> SheetFits)
      BY <1>1, <1>8, <2>4 DEF CodesCount
    <3>2. unlucky \/ SheetFits
      BY <1>13, <3>1 DEF SheetKept
    <3>3. unlucky' \/ SheetFits'
      BY <3>1, <3>2
    <3>4. QED BY <3>3 DEF SheetKept
  <2>5. QED BY <1>4, <2>1, <2>2, <2>3, <2>4
<1>14. QED BY <1>3, <1>10, <1>11, <1>12, <1>13, NothingLost

LEMMA KeyAskedKeeps ==
  ASSUME RecoveryInv, KeySetUp
  PROVE  RecoveryInv'
<1>0. RecoveryTypeOK /\ HeldMade
  BY DEF RecoveryInv
<1>1. PICK new, id, issue :
        /\ new = ~HasFactor("webauthn")
        /\ id = IF new THEN made.rows + 1 ELSE factor["webauthn"].id
        /\ issue = (new /\ ~AnyCompleted(factor))
  OBVIOUS
<1>2. PICK answered \in BOOLEAN :
        /\ id <= MaxEnrolled
        /\ factor' = [factor EXCEPT !["webauthn"].id = id]
        /\ made' = [rows |-> IF new THEN id ELSE made.rows,
                    sets |-> made.sets + (IF issue THEN 1 ELSE 0)]
        /\ IF issue THEN Issued(answered, TRUE) ELSE SameCodes
        /\ KeyAsked(answered)
  BY <1>1 DEF KeySetUp
<1>3. /\ UNCHANGED <<program, tokens, losses>>
      /\ ~factor["webauthn"].done
  BY DEF KeySetUp
<1>4. new \in BOOLEAN /\ issue \in BOOLEAN /\ id \in Numbers /\ id \in Nat
  BY <1>0, <1>1, <1>2, RecoveryTypes, RecoveryAssumption
     DEF HasFactor, AnyCompleted, Numbers
<1>5. /\ factor' \in [FactorKinds -> FactorRecord]
      /\ factor'["webauthn"].id = id /\ ~factor'["webauthn"].done
      /\ factor'["totp"] = factor["totp"]
  BY <1>0, <1>2, <1>3, <1>4, RecoveryTypes DEF FactorRecord, FactorKinds
<1>6. AnyCompleted(factor)' <=> AnyCompleted(factor)
  BY <1>3, <1>5 DEF AnyCompleted, FactorKinds
<1>7. held' = held /\ doing' \in DoingRecord
  <2>1. doing' \in {Nothing, [pc |-> "enrol", kind |-> "webauthn", with |-> TokenUsed]}
    BY <1>2 DEF KeyAsked
  <2>2. QED BY <1>0, <1>2, <2>1, RecoveryTypes DEF DoingRecord, KeyAsked
<1>8. /\ codeSet' \in 0 .. MaxSets /\ codesLeft' \in 0 .. CodesPerSet
      /\ sheet' \in 0 .. MaxSets /\ unlucky' \in BOOLEAN
      /\ made.sets + (IF issue THEN 1 ELSE 0) \in 0 .. MaxSets
      /\ issue /\ answered => SheetFits'
      /\ issue /\ ~answered => unlucky' = (unlucky \/ TRUE)
      /\ ~issue => unlucky' = unlucky /\ (SheetFits' <=> SheetFits)
  BY <1>0, <1>2, <1>4, EitherIssued
<1>9. /\ made' \in [rows: 0 .. MaxEnrolled, sets: 0 .. MaxSets]
      /\ made'.rows = IF new THEN id ELSE made.rows
  BY <1>0, <1>2, <1>4, <1>8, RecoveryTypes DEF Numbers
<1>10. RecoveryTypeOK'
  BY <1>0, <1>3, <1>5, <1>7, <1>8, <1>9, RecoveryTypes
     DEF RecoveryTypeOK, FactorRecord, DoingRecord
<1>11. HeldMade'
  <2>1. made.rows \in Nat /\ made.rows <= made'.rows /\ made'.rows \in Nat /\ id <= made'.rows
    BY <1>0, <1>1, <1>4, <1>9, RecoveryTypes DEF HeldMade
  <2>2. \A h \in held : h[2] \in Nat
    BY <1>0, RecoveryTypes DEF Numbers
  <2>3. \A k \in FactorKinds : factor[k].id \in Nat
    BY <1>0, RecoveryTypes DEF Numbers
  <2>4. \A k \in FactorKinds : factor'[k].id <= made'.rows
    BY <1>0, <1>5, <2>1, <2>3 DEF HeldMade, FactorKinds
  <2>5. QED BY <1>0, <1>7, <2>1, <2>2, <2>4 DEF HeldMade
<1>12. HeldAll => HeldAll'
  BY <1>5, <1>7 DEF HeldAll, FactorKinds
<1>13. ASSUME SheetKept PROVE SheetKept'
  <2>1. CASE issue
    BY <1>2, <1>8, <2>1 DEF SheetKept
  <2>2. CASE ~issue
    <3>1. CodesCount
      BY <1>1, <1>4, <2>2 DEF CodesCount
    <3>2. unlucky \/ SheetFits
      BY <1>13, <3>1 DEF SheetKept
    <3>3. unlucky' = unlucky /\ (SheetFits' <=> SheetFits)
      BY <1>8, <2>2
    <3>4. unlucky' \/ SheetFits'
      BY <3>2, <3>3
    <3>5. QED BY <3>4 DEF SheetKept
  <2>3. QED BY <1>4, <2>1, <2>2
<1>14. QED BY <1>3, <1>10, <1>11, <1>12, <1>13, NothingLost

\* A pending factor is completed with what is at hand: its codes count already.
LEMMA CompletionKeeps ==
  ASSUME RecoveryInv, NEW k \in FactorKinds,
         \/ TOTPVerified /\ k = "totp"
         \/ KeyFinished /\ k = "webauthn"
  PROVE  RecoveryInv'
<1>0. RecoveryTypeOK /\ HeldMade
  BY DEF RecoveryInv
<1>1. /\ HasFactor(k) /\ factor' = [factor EXCEPT ![k].done = TRUE] /\ doing' = Nothing
      /\ UNCHANGED <<program, codeSet, codesLeft, sheet, made, losses, unlucky>>
      /\ k = "totp" => <<k, factor[k].id>> \in held /\ held' = held
      /\ k = "webauthn" => held' = held \cup {<<k, factor[k].id>>}
  BY DEF TOTPVerified, KeyFinished, BeingEnrolled
<1>2. tokens' \in TokenPair
  <2>1. tokens \in TokenPair
    BY <1>0, RecoveryTypes
  <2>2. \A with : TokensAfter(with) \in TokenPair
    BY <1>0, TokensTyped DEF TokensAfter
  <2>3. QED BY <2>1, <2>2 DEF TOTPVerified, KeyFinished
<1>3. /\ factor' \in [FactorKinds -> FactorRecord]
      /\ \A j \in FactorKinds : factor'[j].id = factor[j].id
      /\ \A j \in FactorKinds : j # k => factor'[j].done = factor[j].done
      /\ factor'[k].done
  BY <1>0, <1>1, RecoveryTypes DEF FactorRecord
<1>4. /\ held' \subseteq FactorKinds \X Numbers /\ held \subseteq held'
      /\ held' \subseteq held \cup {<<k, factor[k].id>>}
      /\ <<k, factor[k].id>> \in held'
  BY <1>0, <1>1, RecoveryTypes DEF FactorKinds
<1>5. RecoveryTypeOK'
  BY <1>0, <1>1, <1>2, <1>3, <1>4, RecoveryTypes
     DEF RecoveryTypeOK, FactorRecord, TokenPair
<1>6. HeldMade'
  BY <1>0, <1>1, <1>3, <1>4 DEF HeldMade
<1>7. HeldAll => HeldAll'
  BY <1>3, <1>4 DEF HeldAll
<1>8. CodesCount
  BY <1>1 DEF CodesCount, FactorKinds
<1>9. SheetKept => SheetKept'
  <2>1. SheetFits' <=> SheetFits
    BY <1>1 DEF SheetFits
  <2>2. QED BY <1>1, <1>8, <2>1 DEF SheetKept
<1>10. QED BY <1>1, <1>5, <1>6, <1>7, <1>9, NothingLost

LEMMA ResetKeeps ==
  ASSUME RecoveryInv, NEW k \in FactorKinds, FactorReset(k)
  PROVE  RecoveryInv'
<1>0. RecoveryTypeOK /\ HeldMade
  BY DEF RecoveryInv
<1>1. PICK answered \in BOOLEAN :
        Issued(answered, TRUE) /\ ResetSaved(answered, k, made.rows + 1)
  BY DEF FactorReset
<1>2. PICK id : id = made.rows + 1
  OBVIOUS
<1>3. /\ made' = [rows |-> id, sets |-> made.sets + 1]
      /\ factor' = [factor EXCEPT ![k] = [id |-> id, done |-> FALSE]]
      /\ doing' = Nothing
      /\ UNCHANGED <<program, losses>>
      /\ id <= MaxEnrolled
  BY <1>0, <1>2, RecoveryTypes, RecoveryAssumption DEF FactorReset
<1>4. id \in Numbers /\ id \in Nat /\ made.rows \in Nat
  BY <1>0, <1>2, <1>3, RecoveryTypes, RecoveryAssumption DEF Numbers
<1>5. /\ codeSet' \in 0 .. MaxSets /\ codesLeft' \in 0 .. CodesPerSet
      /\ sheet' \in 0 .. MaxSets /\ unlucky' \in BOOLEAN
      /\ made.sets + 1 \in 0 .. MaxSets
      /\ answered => SheetFits'
      /\ ~answered => unlucky' = (unlucky \/ TRUE)
  BY <1>0, <1>1, IssuedTyped
<1>6. /\ factor' \in [FactorKinds -> FactorRecord]
      /\ factor'[k].id = id /\ ~factor'[k].done
      /\ \A j \in FactorKinds : j # k => factor'[j] = factor[j]
  BY <1>0, <1>3, <1>4, RecoveryTypes DEF FactorRecord
<1>7. made' \in [rows: 0 .. MaxEnrolled, sets: 0 .. MaxSets] /\ made'.rows = id
  BY <1>3, <1>4, <1>5 DEF Numbers
<1>8. /\ held \subseteq held' /\ held' \subseteq held \cup {<<k, id>>}
      /\ held' \subseteq FactorKinds \X Numbers
      /\ tokens' \in TokenPair
  <2>1. held' = (IF answered /\ k = "totp" THEN held \cup {<<k, id>>} ELSE held)
    BY <1>1, <1>2 DEF ResetSaved
  <2>2. tokens' \in {tokens, [tokens EXCEPT !.temp = "live"]}
    BY <1>1 DEF ResetSaved
  <2>3. tokens' \in TokenPair
    BY <1>0, <2>2, RecoveryTypes, TokensTyped
  <2>4. QED BY <1>0, <1>4, <2>1, <2>3, RecoveryTypes
<1>9. RecoveryTypeOK'
  BY <1>0, <1>3, <1>5, <1>6, <1>7, <1>8, RecoveryTypes
     DEF RecoveryTypeOK, FactorRecord, TokenPair
<1>10. HeldMade'
  <2>1. \A h \in held : h[2] \in Nat
    BY <1>0, RecoveryTypes DEF Numbers
  <2>2. \A h \in held' : h[2] <= id
    BY <1>0, <1>2, <1>4, <1>8, <2>1 DEF HeldMade
  <2>3. \A j \in FactorKinds : factor[j].id \in Nat
    BY <1>0, RecoveryTypes DEF Numbers
  <2>4. \A j \in FactorKinds : factor'[j].id <= id
    BY <1>0, <1>2, <1>4, <1>6, <2>3 DEF HeldMade
  <2>5. QED BY <1>7, <2>2, <2>4 DEF HeldMade
<1>11. HeldAll => HeldAll'
  BY <1>6, <1>8 DEF HeldAll
<1>12. SheetKept'
  BY <1>5 DEF SheetKept
<1>13. QED BY <1>3, <1>9, <1>10, <1>11, <1>12, NothingLost

LEMMA CodesKeep ==
  ASSUME RecoveryInv, CodesRegenerated
  PROVE  RecoveryInv'
<1>0. RecoveryTypeOK /\ HeldMade
  BY DEF RecoveryInv
<1>1. PICK answered \in BOOLEAN : Issued(answered, TRUE)
  BY DEF CodesRegenerated
<1>2. /\ codeSet' \in 0 .. MaxSets /\ codesLeft' \in 0 .. CodesPerSet
      /\ sheet' \in 0 .. MaxSets /\ unlucky' \in BOOLEAN
      /\ made.sets + 1 \in 0 .. MaxSets
      /\ answered => SheetFits'
      /\ ~answered => unlucky' = (unlucky \/ TRUE)
  BY <1>0, <1>1, IssuedTyped
<1>3. UNCHANGED <<program, factor, held, tokens, doing, losses>>
  BY DEF CodesRegenerated
<1>4. /\ made' \in [rows: 0 .. MaxEnrolled, sets: 0 .. MaxSets]
      /\ made'.rows = made.rows
  <2>1. made' = [rows |-> made.rows, sets |-> made.sets + 1]
    BY <1>0, RecoveryTypes DEF CodesRegenerated
  <2>2. QED BY <1>0, <1>2, <2>1, RecoveryTypes
<1>5. RecoveryTypeOK'
  BY <1>0, <1>2, <1>3, <1>4 DEF RecoveryTypeOK
<1>6. HeldMade'
  BY <1>0, <1>3, <1>4 DEF HeldMade
<1>7. HeldAll => HeldAll'
  BY <1>3 DEF HeldAll
<1>8. SheetKept'
  BY <1>2 DEF SheetKept
<1>9. QED BY <1>3, <1>5, <1>6, <1>7, <1>8, NothingLost

LEMMA DeletionKeeps ==
  ASSUME RecoveryInv, NEW ks, ks \subseteq FactorKinds, FactorsDeleted(ks)
  PROVE  RecoveryInv'
<1>0. RecoveryTypeOK /\ HeldMade
  BY DEF RecoveryInv
<1>1. PICK left : left = [k \in FactorKinds |-> IF k \in ks THEN NoFactor ELSE factor[k]]
  OBVIOUS
<1>2. /\ factor' = left
      /\ IF CodesGoWith(left)
         THEN /\ codeSet' = 0 /\ codesLeft' = 0
              /\ unlucky' = (\E k \in FactorKinds : left[k].id # 0 /\ ~left[k].done)
         ELSE UNCHANGED <<codeSet, codesLeft, unlucky>>
      /\ UNCHANGED <<program, held, sheet, doing, made, losses>>
  BY <1>1 DEF FactorsDeleted
<1>3. /\ left \in [FactorKinds -> FactorRecord]
      /\ \A k \in FactorKinds :
           \/ left[k].id = 0 /\ ~left[k].done
           \/ left[k] = factor[k]
  <2>1. NoFactor \in FactorRecord /\ NoFactor.id = 0 /\ ~NoFactor.done
    BY RecoveryAssumption DEF NoFactor, FactorRecord, Numbers
  <2>2. QED BY <1>0, <1>1, <2>1, RecoveryTypes
<1>4. tokens' \in TokenPair
  BY <1>0, RecoveryTypes, TokensTyped DEF FactorsDeleted
<1>5. codeSet' \in 0 .. MaxSets /\ codesLeft' \in 0 .. CodesPerSet /\ unlucky' \in BOOLEAN
  <2>1. CASE CodesGoWith(left)
    <3>1. codeSet' = 0 /\ codesLeft' = 0 /\ unlucky' \in BOOLEAN
      BY <1>2, <2>1
    <3>2. QED BY <3>1, RecoveryAssumption
  <2>2. CASE ~CodesGoWith(left)
    BY <1>0, <1>2, <2>2, RecoveryTypes
  <2>3. QED BY <2>1, <2>2
<1>6. RecoveryTypeOK'
  BY <1>0, <1>2, <1>3, <1>4, <1>5 DEF RecoveryTypeOK, FactorRecord, TokenPair
<1>7. HeldMade'
  BY <1>0, <1>2, <1>3, RecoveryTypes DEF HeldMade
<1>8. HeldAll => HeldAll'
  BY <1>2, <1>3 DEF HeldAll
<1>9. ASSUME SheetKept PROVE SheetKept'
  <2>1. CASE AnyCompleted(left)
    <3>1. AnyCompleted(factor)
      BY <1>3, <2>1 DEF AnyCompleted
    <3>2. unlucky \/ SheetFits
      BY <1>9, <3>1 DEF SheetKept, CodesCount
    <3>3. UNCHANGED <<codeSet, sheet, unlucky>>
      BY <1>2, <2>1 DEF CodesGoWith
    <3>4. SheetFits' <=> SheetFits
      BY <3>3 DEF SheetFits
    <3>5. QED BY <3>2, <3>3, <3>4 DEF SheetKept
  <2>2. CASE ~AnyCompleted(left) /\ \E k \in FactorKinds : left[k].id # 0 /\ ~left[k].done
    BY <1>2, <2>2 DEF SheetKept, CodesGoWith
  <2>3. CASE ~AnyCompleted(left) /\ ~\E k \in FactorKinds : left[k].id # 0 /\ ~left[k].done
    <3>1. \A k \in FactorKinds : left[k].id = 0
      BY <2>3 DEF AnyCompleted
    <3>2. ~CodesCount'
      BY <1>2, <2>3, <3>1 DEF CodesCount, HasFactor, FactorKinds, AnyCompleted
    <3>3. QED BY <3>2 DEF SheetKept
  <2>4. QED BY <2>1, <2>2, <2>3
<1>10. QED BY <1>2, <1>6, <1>7, <1>8, <1>9, NothingLost

LEMMA LossKeeps ==
  ASSUME RecoveryInv, Lost
  PROVE  RecoveryInv'
<1>0. RecoveryTypeOK /\ HeldMade
  BY DEF RecoveryInv
<1>1. /\ UNCHANGED <<program, factor, codeSet, codesLeft, tokens, doing, made, unlucky>>
      /\ losses' = losses + 1 /\ losses < MaxLosses
      /\ held' \subseteq held
      /\ \/ sheet' = sheet
         \/ sheet' = 0 /\ held' = held
  BY DEF Lost
<1>2. RecoveryTypeOK'
  <2>1. losses' \in 0 .. MaxLosses /\ sheet' \in 0 .. MaxSets
    BY <1>0, <1>1, RecoveryTypes, RecoveryAssumption
  <2>2. QED BY <1>0, <1>1, <2>1 DEF RecoveryTypeOK
<1>3. HeldMade'
  BY <1>0, <1>1 DEF HeldMade
<1>4. losses \in Nat
  BY <1>0, RecoveryTypes
<1>5. ASSUME losses' = 1 PROVE HeldAll' \/ SheetKept'
  <2>1. HeldAll /\ SheetKept
    BY <1>1, <1>4, <1>5 DEF RecoveryInv
  <2>2. CASE sheet' = sheet
    <3>1. CodesCount' => CodesCount
      BY <1>1 DEF CodesCount, AnyCompleted, HasFactor
    <3>2. SheetFits' <=> SheetFits
      BY <1>1, <2>2 DEF SheetFits
    <3>3. SheetKept'
      BY <1>1, <2>1, <3>1, <3>2 DEF SheetKept
    <3>4. QED BY <3>3
  <2>3. CASE held' = held
    BY <1>1, <2>1, <2>3 DEF HeldAll
  <2>4. QED BY <1>1, <2>2, <2>3
<1>6. losses' # 0
  BY <1>1, <1>4
<1>7. QED BY <1>2, <1>3, <1>5, <1>6 DEF RecoveryInv

-----------------------------------------------------------------------------

LEMMA RecoveryStarts ==
  ASSUME RecoveryInit
  PROVE  RecoveryInv
<1>1. NoFactor \in FactorRecord /\ NoFactor.id = 0 /\ ~NoFactor.done
  BY RecoveryAssumption DEF NoFactor, FactorRecord, Numbers
<1>2. \A k \in FactorKinds : factor[k].id = 0 /\ ~factor[k].done
  BY <1>1 DEF RecoveryInit
<1>3. RecoveryTypeOK
  <2>1. factor \in [FactorKinds -> FactorRecord]
    BY <1>1 DEF RecoveryInit
  <2>2. TempOnly \in TokenPair
    BY DEF TempOnly, TokenPair
  <2>3. 0 \in 0 .. MaxSets /\ 0 \in 0 .. MaxEnrolled /\ 0 \in 0 .. CodesPerSet /\ 0 \in 0 .. MaxLosses
    BY RecoveryAssumption
  <2>4. made \in [rows: 0 .. MaxEnrolled, sets: 0 .. MaxSets]
    BY <2>3 DEF RecoveryInit
  <2>5. QED
    BY <2>1, <2>2, <2>3, <2>4
       DEF RecoveryInit, RecoveryTypeOK, FactorRecord, TokenPair
<1>4. HeldMade
  BY <1>2 DEF HeldMade, RecoveryInit
<1>5. HeldAll
  BY <1>2 DEF HeldAll
<1>6. ~CodesCount
  BY <1>2 DEF CodesCount, AnyCompleted, HasFactor, FactorKinds
<1>7. QED BY <1>3, <1>4, <1>5, <1>6 DEF RecoveryInv, SheetKept

LEMMA RecoveryStep ==
  ASSUME RecoveryInv, [RecoveryNext]_recoveryVars
  PROVE  RecoveryInv'
<1>1. CASE UNCHANGED recoveryVars
  <2>1. UNCHANGED <<program, factor, codeSet, codesLeft, held, sheet, tokens, doing, made,
                    losses, unlucky>>
    BY <1>1 DEF recoveryVars
  <2>2. RecoveryTypeOK'
    BY <2>1 DEF RecoveryInv, RecoveryTypeOK
  <2>3. QED BY <2>1, <2>2, SameFactors
<1>2. CASE \/ LoginToSetUp \/ LoginBegun \/ LoginWithFactor \/ LoginWithCode
           \/ CodeBurnt \/ CommandEnds \/ TokenEnds
  BY <1>2, SessionKeeps
<1>3. CASE TOTPSetUp \/ KeySetUp
  BY <1>3, SecretKeeps, KeyAskedKeeps
<1>4. CASE TOTPVerified \/ KeyFinished
  <2>1. "totp" \in FactorKinds /\ "webauthn" \in FactorKinds
    BY DEF FactorKinds
  <2>2. CASE TOTPVerified
    BY <2>1, <2>2, CompletionKeeps
  <2>3. CASE KeyFinished
    BY <2>1, <2>3, CompletionKeeps
  <2>4. QED BY <1>4, <2>2, <2>3
<1>5. CASE \E k \in FactorKinds : FactorReset(k)
  BY <1>5, ResetKeeps
<1>6. CASE \E k \in FactorKinds : FactorRemoved(k)
  <2>1. PICK k \in FactorKinds : FactorRemoved(k)
    BY <1>6
  <2>2. FactorsDeleted({k}) /\ {k} \subseteq FactorKinds
    BY <2>1 DEF FactorRemoved
  <2>3. QED BY <2>2, DeletionKeeps
<1>7. CASE ResetByAdmin
  <2>1. CASE FactorsDeleted(FactorKinds)
    BY <2>1, DeletionKeeps
  <2>2. CASE \E k \in FactorKinds : FactorsDeleted({k})
    <3>1. PICK k \in FactorKinds : FactorsDeleted({k})
      BY <2>2
    <3>2. {k} \subseteq FactorKinds
      OBVIOUS
    <3>3. QED BY <3>1, <3>2, DeletionKeeps
  <2>3. QED BY <1>7, <2>1, <2>2 DEF ResetByAdmin
<1>8. CASE CodesRegenerated
  BY <1>8, CodesKeep
<1>9. CASE Lost
  BY <1>9, LossKeeps
<1>10. QED
  BY <1>1, <1>2, <1>3, <1>4, <1>5, <1>6, <1>7, <1>8, <1>9 DEF RecoveryNext

LEMMA RecoveryInvHolds == RecoverySpec => []RecoveryInv
<1>1. RecoveryInit => RecoveryInv
  BY RecoveryStarts
<1>2. RecoveryInv /\ [RecoveryNext]_recoveryVars => RecoveryInv'
  BY RecoveryStep
<1>3. QED BY <1>1, <1>2, PTL DEF RecoverySpec

(* Whatever is lost, and whoever answers or does not, the rows, the codes  *)
(* and the tokens stay what they may be.                                   *)
THEOREM RecoveryTypeCorrect == RecoverySpec => []RecoveryTypeOK
<1>1. RecoveryInv => RecoveryTypeOK
  BY DEF RecoveryInv
<1>2. QED BY <1>1, RecoveryInvHolds, PTL

LEMMA RecoveryInvSuffices ==
  ASSUME RecoveryInv
  PROVE  RecoveryHolds
<1>0. RecoveryTypeOK
  BY DEF RecoveryInv
<1>1. HeldAll => HasWayIn
  BY DEF HeldAll, HasWayIn, AnyCompleted, CanAnswer
<1>2. SheetKept /\ ~unlucky /\ AnyCompleted(factor) => SheetFits
  BY DEF SheetKept, CodesCount
<1>3. SheetFits => codeSet # 0
  BY DEF SheetFits
<1>4. WayIn
  <2>1. CASE losses = 0
    BY <1>1, <2>1 DEF RecoveryInv, WayIn
  <2>2. CASE losses = 1 /\ ~unlucky /\ (codesLeft > 0 \/ codeSet = 0)
    <3>1. HeldAll \/ SheetKept
      BY <2>2 DEF RecoveryInv
    <3>2. SheetKept => HasWayIn
      BY <1>2, <1>3, <2>2 DEF HasWayIn, KnowsCode
    <3>3. QED BY <1>1, <3>1, <3>2 DEF WayIn
  <2>3. QED BY <2>1, <2>2 DEF WayIn
<1>5. SheetIsGood
  BY <1>2 DEF RecoveryInv, SheetIsGood
<1>6. QED BY <1>4, <1>5 DEF RecoveryHolds

(* Whoever loses nothing gets in, so does who misses one thing but for the *)
(* exceptions, and the codes of a completed factor are the ones written    *)
(* down (auth/mfa_setup.go:77, handlers/auth.go:993).                      *)
THEOREM RecoveryKept == RecoverySpec => []RecoveryHolds
<1>1. RecoveryInv => RecoveryHolds
  BY RecoveryInvSuffices
<1>2. QED BY <1>1, RecoveryInvHolds, PTL

-----------------------------------------------------------------------------
(***************************************************************************)
(* StorageRoles: how a start deals the roles out                           *)
(***************************************************************************)

Bit(b) == IF b THEN 1 ELSE 0
Members(T) == Bit(1 \in T) + Bit(2 \in T) + Bit(3 \in T)
Upto(T, s) == Bit(1 \in T /\ 1 <= s) + Bit(2 \in T /\ 2 <= s) + Bit(3 \in T /\ 3 <= s)

\* Three slots at most: sets of them are counted one by one.
LEMMA MembersCounted ==
  ASSUME NEW T, T \subseteq 1 .. 3
  PROVE  Cardinality(T) = Members(T)
<1>0. \A t \in T : t = 1 \/ t = 2 \/ t = 3
  OBVIOUS
<1>1. \A A, x : IsFiniteSet(A) =>
        /\ IsFiniteSet(A \cup {x})
        /\ Cardinality(A \cup {x}) = IF x \in A THEN Cardinality(A) ELSE Cardinality(A) + 1
  BY FS_AddElement
<1>2. IsFiniteSet({}) /\ Cardinality({}) = 0
  BY FS_EmptySet
<1>3. /\ IsFiniteSet(T \cap {1})
      /\ Cardinality(T \cap {1}) = Bit(1 \in T)
  <2>1. CASE 1 \in T
    <3>1. T \cap {1} = {} \cup {1}
      BY <2>1
    <3>2. IsFiniteSet({} \cup {1}) /\ Cardinality({} \cup {1}) = 0 + 1
      BY <1>1, <1>2
    <3>3. QED BY <2>1, <3>1, <3>2 DEF Bit
  <2>2. CASE 1 \notin T
    <3>1. T \cap {1} = {}
      BY <2>2
    <3>2. QED BY <1>2, <2>2, <3>1 DEF Bit
  <2>3. QED BY <2>1, <2>2
<1>4. /\ IsFiniteSet(T \cap {1, 2})
      /\ Cardinality(T \cap {1, 2}) = Bit(1 \in T) + Bit(2 \in T)
  <2>0. Bit(1 \in T) \in Int
    BY DEF Bit
  <2>1. CASE 2 \in T
    <3>1. T \cap {1, 2} = (T \cap {1}) \cup {2} /\ 2 \notin T \cap {1}
      BY <2>1
    <3>2. QED BY <1>1, <1>3, <2>0, <2>1, <3>1 DEF Bit
  <2>2. CASE 2 \notin T
    <3>1. T \cap {1, 2} = T \cap {1}
      BY <2>2
    <3>2. Bit(2 \in T) = 0
      BY <2>2 DEF Bit
    <3>3. QED BY <1>3, <2>0, <3>1, <3>2
  <2>3. QED BY <2>1, <2>2
<1>5. Cardinality(T) = Bit(1 \in T) + Bit(2 \in T) + Bit(3 \in T)
  <2>0. Bit(1 \in T) \in Int /\ Bit(2 \in T) \in Int
    BY DEF Bit
  <2>1. CASE 3 \in T
    <3>0. \A t : t \in T <=> t \in (T \cap {1, 2}) \cup {3}
      BY <1>0, <2>1
    <3>1. T = (T \cap {1, 2}) \cup {3} /\ 3 \notin T \cap {1, 2}
      BY <3>0
    <3>2. QED BY <1>1, <1>4, <2>0, <2>1, <3>1 DEF Bit
  <2>2. CASE 3 \notin T
    <3>1. T = T \cap {1, 2}
      BY <1>0, <2>2
    <3>2. Bit(3 \in T) = 0
      BY <2>2 DEF Bit
    <3>3. QED BY <1>4, <2>0, <3>1, <3>2, Bit(1 \in T) + Bit(2 \in T) + 0 = Bit(1 \in T) + Bit(2 \in T)
  <2>3. QED BY <2>1, <2>2
<1>6. QED BY <1>5 DEF Members

LEMMA UptoCounted ==
  ASSUME NEW T, T \subseteq 1 .. 3, NEW s \in 1 .. 3
  PROVE  Cardinality({t \in T : t <= s}) = Upto(T, s)
<1>1. PICK U : U = {t \in T : t <= s}
  OBVIOUS
<1>2. U \subseteq 1 .. 3
  BY <1>1
<1>3. /\ (1 \in U) <=> (1 \in T /\ 1 <= s)
      /\ (2 \in U) <=> (2 \in T /\ 2 <= s)
      /\ (3 \in U) <=> (3 \in T /\ 3 <= s)
  BY <1>1
<1>4. Members(U) = Upto(T, s)
  BY <1>3 DEF Members, Upto, Bit
<1>5. QED BY <1>1, <1>2, <1>4, MembersCounted

LEMMA LeastIs ==
  ASSUME NEW T, T \subseteq 1 .. 3
  PROVE  /\ T = {} => Least(T) = 0
         /\ T # {} => Least(T) \in T /\ \A t \in T : Least(T) <= t
<1>1. ASSUME T # {}
      PROVE  \E s \in T : \A t \in T : s <= t
  <2>0. \A t \in T : t = 1 \/ t = 2 \/ t = 3
    OBVIOUS
  <2>1. CASE 1 \in T
    BY <2>1
  <2>2. CASE 1 \notin T /\ 2 \in T
    BY <2>0, <2>2
  <2>3. CASE 1 \notin T /\ 2 \notin T
    <3>1. \A t \in T : t = 3
      BY <2>0, <2>3
    <3>2. PICK t \in T : t = 3
      BY <1>1, <3>1
    <3>3. QED BY <3>1, <3>2
  <2>4. QED BY <2>1, <2>2, <2>3
<1>2. QED BY <1>1 DEF Least

\* The k-th of a set of slots, if it has so many.
LEMMA KthIs ==
  ASSUME NEW T, T \subseteq 1 .. 3, NEW k \in Int
  PROVE  \/ Kth(T, k) \in T /\ Upto(T, Kth(T, k)) = k
         \/ Kth(T, k) = 0 /\ \A s \in T : Upto(T, s) # k
<1>1. PICK U : U = {s \in T : Cardinality({t \in T : t <= s}) = k}
  OBVIOUS
<1>2. U \subseteq 1 .. 3 /\ Kth(T, k) = Least(U)
  BY <1>1 DEF Kth
<1>3. \A s \in T : s \in U <=> Upto(T, s) = k
  BY <1>1, UptoCounted
<1>4. QED BY <1>1, <1>2, <1>3, LeastIs

LEMMA RoleSet ==
  /\ Roles = {"primary", "secondary", "tertiary"}
  /\ RoleNames[1] = "primary" /\ RoleNames[2] = "secondary" /\ RoleNames[3] = "tertiary"
  /\ (CHOOSE i \in Order : RoleNames[i] = "primary") = 1
  /\ (CHOOSE i \in Order : RoleNames[i] = "secondary") = 2
  /\ (CHOOSE i \in Order : RoleNames[i] = "tertiary") = 3
<1>1. RoleNames[1] = "primary" /\ RoleNames[2] = "secondary" /\ RoleNames[3] = "tertiary"
  BY DEF RoleNames
<1>2. \A i : i \in Order <=> i = 1 \/ i = 2 \/ i = 3
  BY DEF Order
<1>3. Roles = {"primary", "secondary", "tertiary"}
  BY <1>1, <1>2 DEF Roles
<1>4. QED BY <1>1, <1>2, <1>3

-----------------------------------------------------------------------------

First(n, role, r) == Least({s \in 1 .. n : role[s] = r})
Others(n, role) == {s \in 1 .. n : \A r \in Roles : First(n, role, r) # s}

\* The first provider of each role.
LEMMA FirstIs ==
  ASSUME NEW n \in Slots, NEW role, NEW r
  PROVE  /\ First(n, role, r) \in 0 .. n
         /\ First(n, role, r) # 0 => role[First(n, role, r)] = r
         /\ First(n, role, r) = 0 => \A s \in 1 .. n : role[s] # r
<1>1. n \in 1 .. 3
  BY RolesAssumption DEF Slots
<1>2. PICK T : T = {s \in 1 .. n : role[s] = r}
  OBVIOUS
<1>3. T \subseteq 1 .. 3 /\ First(n, role, r) = Least(T)
  BY <1>1, <1>2 DEF First
<1>4. QED BY <1>1, <1>2, <1>3, LeastIs

\* StillOpen roles up to the i-th.
StillOpen(n, role, i) ==
  Bit(First(n, role, "primary") = 0 /\ 1 <= i) + Bit(First(n, role, "secondary") = 0 /\ 2 <= i)
  + Bit(First(n, role, "tertiary") = 0 /\ 3 <= i)

LEMMA OpenCounted ==
  ASSUME NEW n \in Slots, NEW role, NEW i \in 1 .. 3
  PROVE  Cardinality({j \in 1 .. i : First(n, role, RoleNames[j]) = 0}) = StillOpen(n, role, i)
<1>1. PICK U : U = {j \in 1 .. i : First(n, role, RoleNames[j]) = 0}
  OBVIOUS
<1>2. U \subseteq 1 .. 3
  BY <1>1
<1>3. /\ (1 \in U) <=> (First(n, role, "primary") = 0 /\ 1 <= i)
      /\ (2 \in U) <=> (First(n, role, "secondary") = 0 /\ 2 <= i)
      /\ (3 \in U) <=> (First(n, role, "tertiary") = 0 /\ 3 <= i)
  BY <1>1, RoleSet
<1>4. Members(U) = StillOpen(n, role, i)
  BY <1>3 DEF Members, StillOpen, Bit
<1>5. QED BY <1>1, <1>2, <1>4, MembersCounted

LEMMA ResolvedIs ==
  ASSUME NEW n \in Slots, NEW role
  PROVE  /\ Resolve(n, role)["primary"] =
              IF First(n, role, "primary") # 0 THEN First(n, role, "primary")
              ELSE Kth(Others(n, role), StillOpen(n, role, 1))
         /\ Resolve(n, role)["secondary"] =
              IF First(n, role, "secondary") # 0 THEN First(n, role, "secondary")
              ELSE Kth(Others(n, role), StillOpen(n, role, 2))
         /\ Resolve(n, role)["tertiary"] =
              IF First(n, role, "tertiary") # 0 THEN First(n, role, "tertiary")
              ELSE Kth(Others(n, role), StillOpen(n, role, 3))
         /\ Resolve(n, role) = [r \in Roles |-> Resolve(n, role)[r]]
<1>1. Resolve(n, role) =
        [r \in Roles |->
           IF First(n, role, r) # 0 THEN First(n, role, r)
           ELSE Kth(Others(n, role),
                    Cardinality({j \in 1 .. (CHOOSE i \in Order : RoleNames[i] = r) :
                                   First(n, role, RoleNames[j]) = 0}))]
  BY DEF Resolve, First, Others
<1>2. "primary" \in Roles /\ "secondary" \in Roles /\ "tertiary" \in Roles
  BY RoleSet
<1>3. /\ Cardinality({j \in 1 .. 1 : First(n, role, RoleNames[j]) = 0}) = StillOpen(n, role, 1)
      /\ Cardinality({j \in 1 .. 2 : First(n, role, RoleNames[j]) = 0}) = StillOpen(n, role, 2)
      /\ Cardinality({j \in 1 .. 3 : First(n, role, RoleNames[j]) = 0}) = StillOpen(n, role, 3)
  BY OpenCounted
<1>4. /\ (CHOOSE i \in Order : RoleNames[i] = "primary") = 1
      /\ (CHOOSE i \in Order : RoleNames[i] = "secondary") = 2
      /\ (CHOOSE i \in Order : RoleNames[i] = "tertiary") = 3
  BY RoleSet
<1>5. Resolve(n, role)["primary"] =
        IF First(n, role, "primary") # 0 THEN First(n, role, "primary")
        ELSE Kth(Others(n, role), StillOpen(n, role, 1))
  <2>1. Resolve(n, role)["primary"] =
          IF First(n, role, "primary") # 0 THEN First(n, role, "primary")
          ELSE Kth(Others(n, role),
                   Cardinality({j \in 1 .. (CHOOSE i \in Order : RoleNames[i] = "primary") :
                                  First(n, role, RoleNames[j]) = 0}))
    BY <1>1, <1>2, Zenon
  <2>2. QED BY <1>3, <1>4, <2>1
<1>6. Resolve(n, role)["secondary"] =
        IF First(n, role, "secondary") # 0 THEN First(n, role, "secondary")
        ELSE Kth(Others(n, role), StillOpen(n, role, 2))
  <2>1. Resolve(n, role)["secondary"] =
          IF First(n, role, "secondary") # 0 THEN First(n, role, "secondary")
          ELSE Kth(Others(n, role),
                   Cardinality({j \in 1 .. (CHOOSE i \in Order : RoleNames[i] = "secondary") :
                                  First(n, role, RoleNames[j]) = 0}))
    BY <1>1, <1>2, Zenon
  <2>2. QED BY <1>3, <1>4, <2>1
<1>7. Resolve(n, role)["tertiary"] =
        IF First(n, role, "tertiary") # 0 THEN First(n, role, "tertiary")
        ELSE Kth(Others(n, role), StillOpen(n, role, 3))
  <2>1. Resolve(n, role)["tertiary"] =
          IF First(n, role, "tertiary") # 0 THEN First(n, role, "tertiary")
          ELSE Kth(Others(n, role),
                   Cardinality({j \in 1 .. (CHOOSE i \in Order : RoleNames[i] = "tertiary") :
                                  First(n, role, RoleNames[j]) = 0}))
    BY <1>1, <1>2, Zenon
  <2>2. QED BY <1>3, <1>4, <2>1
<1>8. Resolve(n, role) = [r \in Roles |-> Resolve(n, role)[r]]
  BY <1>1
<1>9. QED BY <1>5, <1>6, <1>7, <1>8

\* f: the providers that have a role; T: the others; o: how many roles are open
\* so far; k: the providers dealt to the open roles; a: the providers of the roles.
Dealing(n, f1, f2, f3, T, o1, o2, o3, k1, k2, k3, a1, a2, a3) ==
  /\ n \in 1 .. 3 /\ f1 \in 0 .. n /\ f2 \in 0 .. n /\ f3 \in 0 .. n
  /\ f1 # 0 => f1 # f2 /\ f1 # f3
  /\ f2 # 0 => f2 # f3
  /\ T \subseteq 1 .. 3
  /\ \A s \in 1 .. 3 : s \in T <=> s <= n /\ f1 # s /\ f2 # s /\ f3 # s
  /\ o1 \in Int /\ o2 \in Int /\ o3 \in Int
  /\ o1 = Bit(f1 = 0) /\ o2 = o1 + Bit(f2 = 0) /\ o3 = o2 + Bit(f3 = 0)
  /\ \/ k1 \in T /\ Upto(T, k1) = o1
     \/ k1 = 0 /\ (\A s \in T : Upto(T, s) # o1)
  /\ \/ k2 \in T /\ Upto(T, k2) = o2
     \/ k2 = 0 /\ (\A s \in T : Upto(T, s) # o2)
  /\ \/ k3 \in T /\ Upto(T, k3) = o3
     \/ k3 = 0 /\ (\A s \in T : Upto(T, s) # o3)
  /\ a1 = IF f1 # 0 THEN f1 ELSE k1
  /\ a2 = IF f2 # 0 THEN f2 ELSE k2
  /\ a3 = IF f3 # 0 THEN f3 ELSE k3

\* Every provider is dealt a role, each its own, and keeps the one it is the
\* first of: for no more providers than roles.
LEMMA Dealt ==
  ASSUME NEW n, NEW f1, NEW f2, NEW f3, NEW T, NEW o1, NEW o2, NEW o3,
         NEW k1, NEW k2, NEW k3, NEW a1, NEW a2, NEW a3,
         Dealing(n, f1, f2, f3, T, o1, o2, o3, k1, k2, k3, a1, a2, a3)
  PROVE  /\ a1 \in 0 .. n /\ a2 \in 0 .. n /\ a3 \in 0 .. n
         /\ a1 # 0 => a1 # a2 /\ a1 # a3
         /\ a2 # 0 => a2 # a3
         /\ \A s \in 1 .. n : a1 = s \/ a2 = s \/ a3 = s
<1>0. /\ n \in 1 .. 3 /\ f1 \in 0 .. n /\ f2 \in 0 .. n /\ f3 \in 0 .. n
      /\ f1 # 0 => f1 # f2 /\ f1 # f3
      /\ f2 # 0 => f2 # f3
      /\ T \subseteq 1 .. 3
      /\ \A s \in 1 .. 3 : s \in T <=> s <= n /\ f1 # s /\ f2 # s /\ f3 # s
      /\ o1 \in Int /\ o2 \in Int /\ o3 \in Int
      /\ o1 = Bit(f1 = 0) /\ o2 = o1 + Bit(f2 = 0) /\ o3 = o2 + Bit(f3 = 0)
      /\ \/ k1 \in T /\ Upto(T, k1) = o1
         \/ k1 = 0 /\ (\A s \in T : Upto(T, s) # o1)
      /\ \/ k2 \in T /\ Upto(T, k2) = o2
         \/ k2 = 0 /\ (\A s \in T : Upto(T, s) # o2)
      /\ \/ k3 \in T /\ Upto(T, k3) = o3
         \/ k3 = 0 /\ (\A s \in T : Upto(T, s) # o3)
      /\ a1 = IF f1 # 0 THEN f1 ELSE k1
      /\ a2 = IF f2 # 0 THEN f2 ELSE k2
      /\ a3 = IF f3 # 0 THEN f3 ELSE k3
  BY DEF Dealing
<1>1. \A s \in T : s \in 1 .. n /\ s # f1 /\ s # f2 /\ s # f3
  BY <1>0
<1>2. a1 \in 0 .. n /\ a2 \in 0 .. n /\ a3 \in 0 .. n
  <2>1. k1 \in 0 .. n /\ k2 \in 0 .. n /\ k3 \in 0 .. n
    <3>1. 0 \in 0 .. n /\ \A s \in T : s \in 0 .. n
      BY <1>0, <1>1
    <3>2. k1 = 0 \/ k1 \in T
      BY <1>0
    <3>3. k2 = 0 \/ k2 \in T
      BY <1>0
    <3>4. k3 = 0 \/ k3 \in T
      BY <1>0
    <3>5. QED BY <1>0, <3>1, <3>2, <3>3, <3>4
  <2>2. QED BY <1>0, <2>1
<1>3. /\ f1 = 0 /\ f2 = 0 => o1 # o2
      /\ f1 = 0 /\ f3 = 0 => o1 # o3
      /\ f2 = 0 /\ f3 = 0 => o2 # o3
  BY <1>0 DEF Bit
<1>4. /\ f1 = 0 /\ f2 = 0 /\ k1 # 0 => k1 # k2
      /\ f1 = 0 /\ f3 = 0 /\ k1 # 0 => k1 # k3
      /\ f2 = 0 /\ f3 = 0 /\ k2 # 0 => k2 # k3
  BY <1>0, <1>3
<1>5. /\ a1 # 0 => a1 # a2 /\ a1 # a3
      /\ a2 # 0 => a2 # a3
  BY <1>0, <1>1, <1>4
<1>6. ASSUME NEW s \in 1 .. n, s \in T
      PROVE  a1 = s \/ a2 = s \/ a3 = s
  <2>1. \A t \in T : Upto(T, t) = Upto(T, s) => t = s
    <3>1. TAKE t \in T
    <3>2. (t = 1 \/ t = 2 \/ t = 3) /\ (s = 1 \/ s = 2 \/ s = 3)
      BY <1>0, <1>6
    <3>3. QED BY <1>0, <1>6, <3>2 DEF Upto, Bit
  <2>2. \/ f1 = 0 /\ Upto(T, s) = o1
        \/ f2 = 0 /\ Upto(T, s) = o2
        \/ f3 = 0 /\ Upto(T, s) = o3
    <3>1. /\ (1 \in T) <=> (1 <= n /\ f1 # 1 /\ f2 # 1 /\ f3 # 1)
          /\ (2 \in T) <=> (2 <= n /\ f1 # 2 /\ f2 # 2 /\ f3 # 2)
          /\ (3 \in T) <=> (3 <= n /\ f1 # 3 /\ f2 # 3 /\ f3 # 3)
      BY <1>0
    <3>2. s = 1 \/ s = 2 \/ s = 3
      BY <1>0
    <3>3. CASE s = 1
      BY <1>0, <1>6, <3>1, <3>3 DEF Upto, Bit
    <3>4. CASE s = 2
      BY <1>0, <1>6, <3>1, <3>4 DEF Upto, Bit
    <3>5. CASE s = 3
      BY <1>0, <1>6, <3>1, <3>5 DEF Upto, Bit
    <3>6. QED BY <1>0, <3>2, <3>3, <3>4, <3>5
  <2>3. QED BY <1>0, <1>6, <2>1, <2>2
<1>7. \A s \in 1 .. n : a1 = s \/ a2 = s \/ a3 = s
  <2>1. TAKE s \in 1 .. n
  <2>2. CASE s \in T
    BY <1>0, <1>6, <2>2
  <2>3. CASE s \notin T
    <3>1. s \in 1 .. 3 /\ s # 0 /\ s <= n
      BY <1>0
    <3>2. f1 = s \/ f2 = s \/ f3 = s
      BY <1>0, <2>3, <3>1
    <3>3. QED BY <1>0, <3>1, <3>2
  <2>4. QED BY <1>0, <2>2, <2>3
<1>8. QED BY <1>2, <1>5, <1>7

\* What a start makes of the rows it reads.
LEMMA RegisteredIs ==
  ASSUME NEW n \in Slots, NEW role
  PROVE  /\ Registered(n, role) \in [Roles -> 0 .. n]
         /\ \A s \in 1 .. n : \E r \in Roles : Registered(n, role)[r] = s
         /\ IsPrimary(n, role) =>
              /\ Registered(n, role)["primary"] # 0
              /\ \A r, t \in Roles :
                   Registered(n, role)[r] = Registered(n, role)[t] =>
                     r = t \/ Registered(n, role)[r] = 0
              /\ \A s \in 1 .. n, r \in Roles :
                   role[s] = r => /\ Registered(n, role)[r] \in 1 .. n
                                  /\ role[Registered(n, role)[r]] = r
<1>0. n \in 1 .. 3
  BY RolesAssumption DEF Slots
<1>1. PICK f1, f2, f3 :
        /\ f1 = First(n, role, "primary") /\ f2 = First(n, role, "secondary")
        /\ f3 = First(n, role, "tertiary")
  OBVIOUS
<1>2. /\ f1 \in 0 .. n /\ f2 \in 0 .. n /\ f3 \in 0 .. n
      /\ f1 # 0 => role[f1] = "primary"
      /\ f2 # 0 => role[f2] = "secondary"
      /\ f3 # 0 => role[f3] = "tertiary"
      /\ f1 = 0 => \A s \in 1 .. n : role[s] # "primary"
      /\ f2 = 0 => \A s \in 1 .. n : role[s] # "secondary"
      /\ f3 = 0 => \A s \in 1 .. n : role[s] # "tertiary"
  BY <1>1, FirstIs
<1>3. /\ f1 # 0 => f1 # f2 /\ f1 # f3
      /\ f2 # 0 => f2 # f3
  BY <1>2
<1>4. PICK T : T = Others(n, role)
  OBVIOUS
<1>5. /\ T \subseteq 1 .. 3
      /\ \A s \in 1 .. 3 : s \in T <=> s <= n /\ f1 # s /\ f2 # s /\ f3 # s
  BY <1>0, <1>1, <1>4, RoleSet DEF Others
<1>6. PICK o1, o2, o3 :
        /\ o1 = StillOpen(n, role, 1) /\ o2 = StillOpen(n, role, 2) /\ o3 = StillOpen(n, role, 3)
  OBVIOUS
<1>7. /\ o1 \in Int /\ o2 \in Int /\ o3 \in Int
      /\ o1 = Bit(f1 = 0) /\ o2 = o1 + Bit(f2 = 0) /\ o3 = o2 + Bit(f3 = 0)
  BY <1>1, <1>6 DEF StillOpen, Bit
<1>8. PICK k1, k2, k3 : k1 = Kth(T, o1) /\ k2 = Kth(T, o2) /\ k3 = Kth(T, o3)
  OBVIOUS
<1>9. /\ \/ k1 \in T /\ Upto(T, k1) = o1
         \/ k1 = 0 /\ (\A s \in T : Upto(T, s) # o1)
      /\ \/ k2 \in T /\ Upto(T, k2) = o2
         \/ k2 = 0 /\ (\A s \in T : Upto(T, s) # o2)
      /\ \/ k3 \in T /\ Upto(T, k3) = o3
         \/ k3 = 0 /\ (\A s \in T : Upto(T, s) # o3)
  <2>1. \A k \in Int : \/ Kth(T, k) \in T /\ Upto(T, Kth(T, k)) = k
                       \/ Kth(T, k) = 0 /\ (\A s \in T : Upto(T, s) # k)
    BY <1>5, KthIs
  <2>2. QED BY <1>7, <1>8, <2>1
<1>10. PICK a : a = Resolve(n, role)
  OBVIOUS
<1>11. /\ a["primary"] = IF f1 # 0 THEN f1 ELSE k1
       /\ a["secondary"] = IF f2 # 0 THEN f2 ELSE k2
       /\ a["tertiary"] = IF f3 # 0 THEN f3 ELSE k3
       /\ a = [r \in Roles |-> a[r]]
  BY <1>1, <1>4, <1>6, <1>8, <1>10, ResolvedIs
<1>12. PICK a1, a2, a3 : a1 = a["primary"] /\ a2 = a["secondary"] /\ a3 = a["tertiary"]
  OBVIOUS
<1>13. /\ a1 = IF f1 # 0 THEN f1 ELSE k1
       /\ a2 = IF f2 # 0 THEN f2 ELSE k2
       /\ a3 = IF f3 # 0 THEN f3 ELSE k3
  BY <1>11, <1>12
<1>14. /\ a1 \in 0 .. n /\ a2 \in 0 .. n /\ a3 \in 0 .. n
       /\ a1 # 0 => a1 # a2 /\ a1 # a3
       /\ a2 # 0 => a2 # a3
       /\ \A s \in 1 .. n : a1 = s \/ a2 = s \/ a3 = s
  <2>1. Dealing(n, f1, f2, f3, T, o1, o2, o3, k1, k2, k3, a1, a2, a3)
    BY <1>0, <1>2, <1>3, <1>5, <1>7, <1>9, <1>13 DEF Dealing
  <2>2. QED BY <2>1, Dealt
<1>15. PICK g : g = Registered(n, role)
  OBVIOUS
<1>16. g = [a EXCEPT !["primary"] = IF @ = 0 THEN 1 ELSE @]
  BY <1>10, <1>15 DEF Registered
<1>17. /\ g["primary"] = IF a1 = 0 THEN 1 ELSE a1
       /\ g["secondary"] = a2 /\ g["tertiary"] = a3
       /\ g \in [Roles -> 0 .. n]
  BY <1>0, <1>11, <1>12, <1>14, <1>16, RoleSet
<1>18. \A s \in 1 .. n : \E r \in Roles : g[r] = s
  BY <1>14, <1>17, RoleSet
<1>19. ASSUME IsPrimary(n, role)
       PROVE  /\ g["primary"] # 0
              /\ \A r, t \in Roles : g[r] = g[t] => r = t \/ g[r] = 0
              /\ \A s \in 1 .. n, r \in Roles :
                   role[s] = r => g[r] \in 1 .. n /\ role[g[r]] = r
  <2>1. f1 # 0 /\ a1 = f1
    BY <1>2, <1>13, <1>19 DEF IsPrimary
  <2>2. g["primary"] = f1
    BY <1>17, <2>1
  <2>3. \A r, t \in Roles : g[r] = g[t] => r = t \/ g[r] = 0
    BY <1>14, <1>17, <2>1, <2>2, RoleSet
  <2>4. ASSUME NEW s \in 1 .. n, NEW r \in Roles, role[s] = r
        PROVE  g[r] \in 1 .. n /\ role[g[r]] = r
    <3>1. CASE r = "primary"
      BY <1>2, <2>1, <2>2, <3>1
    <3>2. CASE r = "secondary"
      BY <1>2, <1>13, <1>17, <2>4, <3>2
    <3>3. CASE r = "tertiary"
      BY <1>2, <1>13, <1>17, <2>4, <3>3
    <3>4. QED BY <3>1, <3>2, <3>3, RoleSet
  <2>5. QED BY <2>1, <2>2, <2>3, <2>4
<1>20. QED BY <1>15, <1>17, <1>18, <1>19

-----------------------------------------------------------------------------
(***************************************************************************)
(* StorageRoles: the inductive invariant                                   *)
(***************************************************************************)

Idle == \A a \in Admins : changes[a] = NoChange

\* The registry and the rows of the configured providers tell the same.
Agree(role, reg) == \A s \in 1 .. configured : reg[role[s]] = s

Swapped(reg) ==
  [reg EXCEPT !["primary"] = reg["secondary"], !["secondary"] = reg["primary"]]
Restored(c) == [dbRole EXCEPT ![c.p] = c.had]

\* How far a change that is alone has come.
ChangeKept(c) ==
  /\ c.p \in 1 .. configured
  /\ c.swap => /\ \/ c.to = "primary" /\ c.had = "secondary"
                  \/ c.to = "secondary" /\ c.had = "primary"
               /\ c.q \in 1 .. configured /\ c.q = registry[c.to]
  /\ c.pc = "first" => Agree(dbRole, registry) /\ dbRole[c.p] = c.had
  /\ c.pc \in {"second", "undo"} => Agree(Restored(c), registry) /\ dbRole[c.p] = c.to
  /\ c.pc = "swap" => c.swap /\ Agree(dbRole, Swapped(registry))

\* Unless rows and registry may differ, changes come one at a time.
ChangesKept ==
  ~astray =>
    /\ ~headless
    /\ \A a, b \in Admins : a # b => changes[a] = NoChange \/ changes[b] = NoChange
    /\ Idle => Agree(dbRole, registry)
    /\ \A a \in Admins : changes[a] # NoChange => ChangeKept(changes[a])

\* A second provider was there at the start if any role can be changed.
SecondThere ==
  ~headless /\ registry["secondary"] = 0 =>
    Idle /\ \A s \in 1 .. configured : dbRole[s] # "secondary"

RowsNamed ==
  /\ \A s \in 1 .. configured : dbRole[s] \in Roles
  /\ registry \in [Roles -> 0 .. configured]

RolesInv ==
  /\ RolesTypeOK
  /\ RowsNamed
  /\ EveryProviderPlaced
  /\ SecondThere
  /\ ChangesKept

ChangeRecord ==
  [pc: {"first", "second", "undo", "swap"}, p: Slots, to: Roles, q: 0 .. SlotCount,
   had: Roles, swap: BOOLEAN]
RowsRecord == [Slots -> Roles \cup {"none"}]

LEMMA RolesTypes ==
  ASSUME RolesTypeOK
  PROVE  /\ configured \in Slots /\ dbRole \in RowsRecord
         /\ registry \in [Roles -> 0 .. SlotCount]
         /\ changes \in [Admins -> {NoChange} \cup ChangeRecord]
         /\ headless \in BOOLEAN /\ astray \in BOOLEAN
         /\ SlotCount \in 1 .. 3 /\ 1 .. configured \subseteq Slots
         /\ \A a \in Admins : changes[a].pc # "idle" => changes[a] \in ChangeRecord
         /\ \A c \in ChangeRecord : c # NoChange /\ c.pc # "idle"
         /\ NoChange.pc = "idle"
<1>1. configured \in Slots /\ SlotCount \in 1 .. 3
  BY RolesAssumption DEF RolesTypeOK
<1>2. 1 .. configured \subseteq Slots
  BY <1>1 DEF Slots
<1>3. changes \in [Admins -> {NoChange} \cup ChangeRecord]
  BY DEF RolesTypeOK, ChangeRecord
<1>4. NoChange.pc = "idle"
  BY DEF NoChange
<1>5. \A c \in ChangeRecord : c # NoChange /\ c.pc # "idle"
  BY <1>4 DEF ChangeRecord
<1>6. QED BY <1>1, <1>2, <1>3, <1>4, <1>5 DEF RolesTypeOK, RowsRecord

\* A change goes on: only its step changes.
LEMMA ProceedMoves ==
  ASSUME RolesTypeOK, NEW a \in Admins, changes[a] \in ChangeRecord,
         NEW pc \in {"first", "second", "undo", "swap"}, Proceed(a, pc)
  PROVE  /\ changes' \in [Admins -> {NoChange} \cup ChangeRecord]
         /\ changes'[a].pc = pc /\ changes'[a].p = changes[a].p
         /\ changes'[a].to = changes[a].to /\ changes'[a].q = changes[a].q
         /\ changes'[a].had = changes[a].had /\ changes'[a].swap = changes[a].swap
         /\ changes'[a] # NoChange
         /\ \A b \in Admins : b # a => changes'[b] = changes[b]
<1>1. changes \in [Admins -> {NoChange} \cup ChangeRecord]
  BY RolesTypes
<1>2. PICK c : c = [changes[a] EXCEPT !.pc = pc]
  OBVIOUS
<1>3. /\ c \in ChangeRecord
      /\ c.pc = pc /\ c.p = changes[a].p /\ c.to = changes[a].to /\ c.q = changes[a].q
      /\ c.had = changes[a].had /\ c.swap = changes[a].swap
  BY <1>2 DEF ChangeRecord
<1>4. c # NoChange
  BY <1>3, RolesTypes
<1>5. changes' = [changes EXCEPT ![a] = c]
  BY <1>2 DEF Proceed
<1>6. QED BY <1>1, <1>3, <1>4, <1>5

LEMMA EndMoves ==
  ASSUME RolesTypeOK, NEW a \in Admins, EndChange(a)
  PROVE  /\ changes' \in [Admins -> {NoChange} \cup ChangeRecord]
         /\ changes'[a] = NoChange
         /\ \A b \in Admins : b # a => changes'[b] = changes[b]
  BY RolesTypes DEF EndChange

\* A provider of the registry is a configured one; roles go by one provider each.
LEMMA RegistryFacts ==
  ASSUME RolesInv, ~headless
  PROVE  /\ registry["primary"] # 0
         /\ \A r, t \in Roles : registry[r] = registry[t] => r = t \/ registry[r] = 0
         /\ \A r \in Roles : registry[r] \in 0 .. configured
  BY DEF RolesInv, EveryProviderPlaced, RowsNamed

-----------------------------------------------------------------------------

LEMMA AskKeeps ==
  ASSUME RolesInv, NEW a \in Admins,
         NEW p \in 1 .. configured, NEW to \in Roles, NEW q \in 0 .. configured,
         NEW had \in Roles, NEW swap \in BOOLEAN,
         Ask(a, Change(p, to, q, had, swap)),
         q = registry[to], dbRole[p] = had \/ p = registry[had],
         swap => /\ q # 0
                 /\ \/ to = "primary" /\ had = "secondary"
                    \/ to = "secondary" /\ had = "primary",
         registry["secondary"] # 0 \/ dbRole[p] = "secondary"
  PROVE  RolesInv'
<1>0. RolesTypeOK /\ RowsNamed /\ EveryProviderPlaced /\ SecondThere /\ ChangesKept
  BY DEF RolesInv
<1>1. PICK c : c = Change(p, to, q, had, swap)
  OBVIOUS
<1>2. /\ c.pc = "first" /\ c.p = p /\ c.to = to /\ c.q = q /\ c.had = had /\ c.swap = swap
      /\ c \in ChangeRecord
  <2>1. p \in Slots /\ q \in 0 .. SlotCount
    BY <1>0, RolesTypes DEF Slots
  <2>2. QED BY <1>1, <2>1 DEF Change, ChangeRecord
<1>3. /\ changes[a] = NoChange /\ changes' = [changes EXCEPT ![a] = c]
      /\ astray' = (astray \/ \E b \in Admins : changes[b] # NoChange)
      /\ UNCHANGED <<configured, dbRole, registry, headless>>
  BY <1>1 DEF Ask
<1>4. /\ changes' \in [Admins -> {NoChange} \cup ChangeRecord] /\ changes'[a] = c
      /\ \A b \in Admins : b # a => changes'[b] = changes[b]
      /\ c # NoChange
  BY <1>0, <1>2, <1>3, RolesTypes
<1>5. RolesTypeOK'
  BY <1>0, <1>3, <1>4 DEF RolesTypeOK, ChangeRecord
<1>6. RowsNamed' /\ EveryProviderPlaced'
  BY <1>0, <1>3 DEF RowsNamed, EveryProviderPlaced, InRegistry
<1>7. SecondThere'
  BY <1>0, <1>3 DEF SecondThere
<1>8. ASSUME ~astray'
      PROVE  /\ ~headless' /\ ~Idle'
             /\ \A b, d \in Admins : b # d => changes'[b] = NoChange \/ changes'[d] = NoChange
             /\ \A b \in Admins : changes'[b] # NoChange => ChangeKept(changes[b])'
  <2>1. ~astray /\ Idle
    BY <1>3, <1>8 DEF Idle
  <2>2. ~headless /\ Agree(dbRole, registry)
    BY <1>0, <2>1 DEF ChangesKept
  <2>3. \A b \in Admins : b # a => changes'[b] = NoChange
    BY <1>4, <2>1 DEF Idle
  <2>4. dbRole[p] = had
    <3>1. registry[dbRole[p]] = p /\ dbRole[p] \in Roles /\ p # 0
      BY <1>0, <2>2 DEF Agree, RowsNamed
    <3>2. QED BY <2>2, <3>1, RegistryFacts
  <2>5. ChangeKept(changes[a])'
    <3>1. Agree(dbRole, registry)'
      BY <1>3, <2>2 DEF Agree
    <3>2. /\ changes'[a].p \in 1 .. configured' /\ changes'[a].pc = "first"
          /\ dbRole'[changes'[a].p] = changes'[a].had
          /\ changes'[a].swap =>
               /\ \/ changes'[a].to = "primary" /\ changes'[a].had = "secondary"
                  \/ changes'[a].to = "secondary" /\ changes'[a].had = "primary"
               /\ changes'[a].q \in 1 .. configured'
               /\ changes'[a].q = registry'[changes'[a].to]
      BY <1>2, <1>3, <1>4, <2>4
    <3>3. QED BY <3>1, <3>2 DEF ChangeKept
  <2>6. ~Idle'
    BY <1>4 DEF Idle
  <2>7. QED BY <1>3, <2>2, <2>3, <2>5, <2>6
<1>9. ChangesKept'
  BY <1>8 DEF ChangesKept
<1>10. QED BY <1>5, <1>6, <1>7, <1>9 DEF RolesInv

LEMMA AdminAsks ==
  ASSUME RolesInv, NEW a \in Admins,
         \/ \E p \in Slots : \/ AdminSetPrimary(a, p) \/ AdminSetSecondary(a, p)
                             \/ AdminSetTertiary(a, p)
         \/ AdminSwapProviders(a)
  PROVE  RolesInv'
<1>0. /\ registry \in [Roles -> 0 .. configured] /\ configured \in Slots
      /\ "primary" \in Roles /\ "secondary" \in Roles /\ "tertiary" \in Roles
      /\ configured \in Nat
  BY RoleSet, RolesTypes DEF RolesInv, RowsNamed, Slots
<1>1. \A p \in Slots : InRegistry(p) => p \in 1 .. configured
  BY <1>0 DEF InRegistry, Slots
<1>2. ASSUME NEW p \in Slots, AdminSetPrimary(a, p) PROVE RolesInv'
  <2>1. /\ Ask(a, Change(p, "primary", registry["primary"], "secondary", TRUE))
        /\ p \in 1 .. configured /\ dbRole[p] = "secondary"
        /\ registry["primary"] # 0 /\ registry["primary"] \in 0 .. configured
    BY <1>0, <1>1, <1>2 DEF AdminSetPrimary
  <2>2. QED BY <1>0, <2>1, AskKeeps
<1>3. ASSUME NEW p \in Slots, AdminSetSecondary(a, p) PROVE RolesInv'
  <2>1. /\ p \in 1 .. configured
        /\ registry["secondary"] # 0 /\ registry["secondary"] \in 0 .. configured
    BY <1>0, <1>1, <1>3 DEF AdminSetSecondary
  <2>2. CASE /\ dbRole[p] = "primary"
             /\ Ask(a, Change(p, "secondary", registry["secondary"], "primary", TRUE))
    BY <1>0, <2>1, <2>2, AskKeeps
  <2>3. CASE /\ dbRole[p] = "tertiary"
             /\ Ask(a, Change(p, "secondary", registry["secondary"], "tertiary", FALSE))
    BY <1>0, <2>1, <2>3, AskKeeps
  <2>4. QED BY <1>3, <2>2, <2>3 DEF AdminSetSecondary
<1>4. ASSUME NEW p \in Slots, AdminSetTertiary(a, p) PROVE RolesInv'
  <2>1. /\ Ask(a, Change(p, "tertiary", registry["tertiary"], "secondary", FALSE))
        /\ p \in 1 .. configured /\ dbRole[p] = "secondary"
        /\ registry["tertiary"] \in 0 .. configured
    BY <1>0, <1>1, <1>4 DEF AdminSetTertiary
  <2>2. QED BY <1>0, <2>1, AskKeeps
<1>5. ASSUME AdminSwapProviders(a) PROVE RolesInv'
  <2>1. /\ Ask(a, Change(registry["primary"], "secondary", registry["secondary"],
                         "primary", TRUE))
        /\ registry["primary"] \in 1 .. configured
        /\ registry["secondary"] # 0 /\ registry["secondary"] \in 0 .. configured
    <3>1. registry["primary"] # 0 /\ registry["primary"] \in 0 .. configured
      BY <1>0, <1>5 DEF AdminSwapProviders
    <3>2. registry["primary"] \in 1 .. configured
      BY <1>0, <3>1
    <3>3. registry["secondary"] # 0 /\ registry["secondary"] \in 0 .. configured
      BY <1>0, <1>5 DEF AdminSwapProviders
    <3>4. QED BY <1>5, <3>2, <3>3 DEF AdminSwapProviders
  <2>2. PICK p : p = registry["primary"]
    OBVIOUS
  <2>3. Ask(a, Change(p, "secondary", registry["secondary"], "primary", TRUE))
        /\ p \in 1 .. configured
    BY <2>1, <2>2
  <2>4. QED BY <1>0, <2>1, <2>2, <2>3, AskKeeps
<1>6. QED BY <1>2, <1>3, <1>4, <1>5

\* A change that takes its next step while the registry stays.
LEMMA StepKeeps ==
  ASSUME RolesInv, NEW a \in Admins, changes[a] # NoChange,
         UNCHANGED <<configured, registry, headless>>,
         changes' \in [Admins -> {NoChange} \cup ChangeRecord],
         \A b \in Admins : b # a => changes'[b] = changes[b],
         dbRole' \in RowsRecord, \A s \in 1 .. configured : dbRole'[s] \in Roles,
         astray' \in BOOLEAN,
         ~astray' =>
           /\ ~astray
           /\ changes'[a] = NoChange => Agree(dbRole, registry)'
           /\ changes'[a] # NoChange => ChangeKept(changes[a])'
  PROVE  RolesInv'
<1>0. RolesTypeOK /\ RowsNamed /\ EveryProviderPlaced /\ SecondThere /\ ChangesKept
  BY DEF RolesInv
<1>1. RolesTypeOK'
  BY <1>0 DEF RolesTypeOK, ChangeRecord, RowsRecord
<1>2. RowsNamed' /\ EveryProviderPlaced'
  BY <1>0 DEF RowsNamed, EveryProviderPlaced, InRegistry
<1>3. SecondThere'
  BY <1>0 DEF SecondThere, Idle
<1>4. ChangesKept'
  <2>1. ASSUME ~astray'
        PROVE  /\ ~headless'
               /\ \A b, d \in Admins : b # d => changes'[b] = NoChange \/ changes'[d] = NoChange
               /\ Idle' => Agree(dbRole, registry)'
               /\ \A b \in Admins : changes'[b] # NoChange => ChangeKept(changes[b])'
    <3>1. ~headless /\ \A b \in Admins : b # a => changes[b] = NoChange
      BY <1>0, <2>1 DEF ChangesKept
    <3>2. \A b \in Admins : b # a => changes'[b] = NoChange
      BY <3>1
    <3>3. QED BY <2>1, <3>1, <3>2 DEF Idle
  <2>2. QED BY <2>1 DEF ChangesKept
<1>5. QED BY <1>1, <1>2, <1>3, <1>4 DEF RolesInv

\* What is known of a change that is alone.
LEMMA AloneKept ==
  ASSUME RolesInv, NEW a \in Admins, changes[a] # NoChange, ~astray
  PROVE  ~headless /\ ChangeKept(changes[a])
  BY DEF RolesInv, ChangesKept

LEMMA FirstKeeps ==
  ASSUME RolesInv, NEW a \in Admins, UpdateFirst(a)
  PROVE  RolesInv'
<1>0. /\ RolesTypeOK /\ dbRole \in RowsRecord /\ changes[a] \in ChangeRecord
      /\ changes[a] # NoChange /\ astray \in BOOLEAN
      /\ changes[a].p \in Slots /\ changes[a].to \in Roles
      /\ \A s \in 1 .. configured : dbRole[s] \in Roles
      /\ 1 .. configured \subseteq Slots
  BY RolesTypes DEF RolesInv, UpdateFirst, RowsNamed, ChangeRecord
<1>1. UNCHANGED <<configured, registry, headless, astray>> /\ changes[a].pc = "first"
  BY DEF UpdateFirst
<1>2. CASE dbRole' = [dbRole EXCEPT ![changes[a].p] = changes[a].to] /\ Proceed(a, "second")
  <2>1. /\ changes' \in [Admins -> {NoChange} \cup ChangeRecord]
        /\ changes'[a].pc = "second" /\ changes'[a].p = changes[a].p
        /\ changes'[a].to = changes[a].to /\ changes'[a].q = changes[a].q
        /\ changes'[a].had = changes[a].had /\ changes'[a].swap = changes[a].swap
        /\ changes'[a] # NoChange
        /\ \A b \in Admins : b # a => changes'[b] = changes[b]
    BY <1>0, <1>2, ProceedMoves
  <2>2. /\ dbRole' \in RowsRecord
        /\ \A s \in 1 .. configured : dbRole'[s] \in Roles
        /\ dbRole'[changes[a].p] = changes[a].to
        /\ \A s \in Slots : s # changes[a].p => dbRole'[s] = dbRole[s]
    BY <1>0, <1>2 DEF RowsRecord
  <2>3. ASSUME ~astray' PROVE ChangeKept(changes[a])'
    <3>1. ChangeKept(changes[a])
      BY <1>0, <1>1, <2>3, AloneKept
    <3>2. Agree(dbRole, registry) /\ dbRole[changes[a].p] = changes[a].had
          /\ changes[a].p \in 1 .. configured
      BY <1>1, <3>1 DEF ChangeKept
    <3>3. \A s \in Slots : [dbRole' EXCEPT ![changes'[a].p] = changes'[a].had][s] = dbRole[s]
      BY <1>0, <2>1, <2>2, <3>2 DEF RowsRecord
    <3>4. Agree(Restored(changes[a]), registry)'
      BY <1>0, <1>1, <3>2, <3>3 DEF Agree, Restored
    <3>5. QED BY <1>1, <2>1, <2>2, <3>1, <3>4 DEF ChangeKept
  <2>4. QED BY <1>0, <1>1, <2>1, <2>2, <2>3, StepKeeps
<1>3. CASE UNCHANGED dbRole /\ EndChange(a)
  <2>1. /\ changes' \in [Admins -> {NoChange} \cup ChangeRecord]
        /\ changes'[a] = NoChange
        /\ \A b \in Admins : b # a => changes'[b] = changes[b]
    BY <1>0, <1>3, EndMoves
  <2>2. ASSUME ~astray' PROVE Agree(dbRole, registry)'
    <3>1. ChangeKept(changes[a])
      BY <1>0, <1>1, <2>2, AloneKept
    <3>2. Agree(dbRole, registry)
      BY <1>1, <3>1 DEF ChangeKept
    <3>3. QED BY <1>1, <1>3, <3>2 DEF Agree
  <2>3. QED BY <1>0, <1>1, <1>3, <2>1, <2>2, StepKeeps
<1>4. QED BY <1>2, <1>3 DEF UpdateFirst

LEMMA SecondKeeps ==
  ASSUME RolesInv, NEW a \in Admins, UpdateSecond(a)
  PROVE  RolesInv'
<1> DEFINE c == changes[a]
<1>0. /\ RolesTypeOK /\ dbRole \in RowsRecord /\ c \in ChangeRecord
      /\ c # NoChange /\ astray \in BOOLEAN
      /\ c.p \in Slots /\ c.to \in Roles /\ c.had \in Roles /\ c.q \in 0 .. SlotCount
      /\ c.swap \in BOOLEAN
      /\ \A s \in 1 .. configured : dbRole[s] \in Roles
      /\ 1 .. configured \subseteq Slots
  BY RolesTypes DEF RolesInv, UpdateSecond, RowsNamed, ChangeRecord
<1>1. UNCHANGED <<configured, registry, headless>> /\ c.pc = "second"
  BY DEF UpdateSecond
<1>2. CASE /\ dbRole' = IF c.q = 0 THEN dbRole ELSE [dbRole EXCEPT ![c.q] = c.had]
           /\ IF c.swap THEN Proceed(a, "swap") ELSE EndChange(a)
           /\ astray' = (astray \/ ~c.swap)
  <2>1. /\ dbRole' \in RowsRecord
        /\ \A s \in 1 .. configured : dbRole'[s] \in Roles
    <3>1. CASE c.q = 0
      BY <1>0, <1>2, <3>1
    <3>2. CASE c.q # 0
      <4>1. c.q \in Slots
        BY <1>0, <3>2, RolesTypes DEF Slots
      <4>2. QED BY <1>0, <1>2, <3>2, <4>1 DEF RowsRecord
    <3>3. QED BY <3>1, <3>2
  <2>2. CASE ~c.swap
    <3>1. /\ changes' \in [Admins -> {NoChange} \cup ChangeRecord]
          /\ \A b \in Admins : b # a => changes'[b] = changes[b]
      BY <1>0, <1>2, <2>2, EndMoves
    <3>2. astray'
      BY <1>2, <2>2
    <3>3. astray' \in BOOLEAN
      BY <1>2
    <3>4. QED BY <1>0, <1>1, <2>1, <3>1, <3>2, <3>3, StepKeeps
  <2>3. CASE c.swap
    <3>1. /\ changes' \in [Admins -> {NoChange} \cup ChangeRecord]
          /\ changes'[a].pc = "swap" /\ changes'[a].p = c.p
          /\ changes'[a].to = c.to /\ changes'[a].q = c.q
          /\ changes'[a].had = c.had /\ changes'[a].swap = c.swap
          /\ changes'[a] # NoChange
          /\ \A b \in Admins : b # a => changes'[b] = changes[b]
      BY <1>0, <1>2, <2>3, ProceedMoves
    <3>2. astray' = astray
      BY <1>0, <1>2, <2>3
    <3>3. ASSUME ~astray' PROVE ChangeKept(changes[a])'
      <4>1. ~headless /\ ChangeKept(c)
        BY <1>0, <3>2, <3>3, AloneKept
      <4>2. /\ c.p \in 1 .. configured /\ c.q \in 1 .. configured /\ c.q = registry[c.to]
            /\ \/ c.to = "primary" /\ c.had = "secondary"
               \/ c.to = "secondary" /\ c.had = "primary"
            /\ Agree(Restored(c), registry) /\ dbRole[c.p] = c.to
        BY <1>1, <2>3, <4>1 DEF ChangeKept
      <4>3. \A s \in 1 .. configured :
              registry[IF s = c.p THEN c.had ELSE dbRole[s]] = s
        <5>1. \A s \in 1 .. configured :
                Restored(c)[s] = IF s = c.p THEN c.had ELSE dbRole[s]
          BY <1>0, <4>2 DEF Restored, RowsRecord
        <5>2. QED BY <4>2, <5>1 DEF Agree
      <4>4. c.q # c.p /\ c.q # 0
        BY <1>0, <4>1, <4>2, <4>3, RegistryFacts
      <4>5. \A s \in Slots : dbRole'[s] = IF s = c.q THEN c.had ELSE dbRole[s]
        BY <1>0, <1>2, <4>4 DEF RowsRecord
      <4>6. /\ Swapped(registry)["primary"] = registry["secondary"]
            /\ Swapped(registry)["secondary"] = registry["primary"]
            /\ Swapped(registry)["tertiary"] = registry["tertiary"]
        BY <1>0, RolesTypes, RoleSet DEF Swapped
      <4>7. ASSUME NEW s \in 1 .. configured
            PROVE  Swapped(registry)[dbRole'[s]] = s
        <5>1. dbRole'[s] = (IF s = c.q THEN c.had ELSE dbRole[s]) /\ dbRole[s] \in Roles
          BY <1>0, <4>5
        <5>2. CASE s = c.p
          BY <4>2, <4>3, <4>4, <4>6, <5>1, <5>2
        <5>3. CASE s = c.q
          BY <4>2, <4>6, <5>1, <5>3
        <5>4. CASE s # c.p /\ s # c.q
          <6>1. registry[dbRole[s]] = s /\ registry[c.had] = c.p
            BY <4>2, <4>3, <5>4
          <6>2. dbRole[s] # c.had /\ dbRole[s] # c.to
            BY <4>2, <5>4, <6>1
          <6>3. dbRole[s] = "tertiary"
            BY <4>2, <5>1, <6>2, RoleSet
          <6>4. QED BY <4>6, <5>1, <5>4, <6>1, <6>3
        <5>5. QED BY <5>2, <5>3, <5>4
      <4>8. Agree(dbRole, Swapped(registry))'
        BY <1>1, <4>7 DEF Agree, Swapped
      <4>9. QED BY <1>1, <2>3, <3>1, <4>2, <4>8 DEF ChangeKept
    <3>4. QED BY <1>0, <1>1, <2>1, <3>1, <3>2, <3>3, StepKeeps
  <2>4. QED BY <1>0, <2>2, <2>3
<1>3. CASE c.q # 0 /\ Proceed(a, "undo") /\ UNCHANGED <<dbRole, astray>>
  <2>1. /\ changes' \in [Admins -> {NoChange} \cup ChangeRecord]
        /\ changes'[a].pc = "undo" /\ changes'[a].p = c.p
        /\ changes'[a].to = c.to /\ changes'[a].q = c.q
        /\ changes'[a].had = c.had /\ changes'[a].swap = c.swap
        /\ changes'[a] # NoChange
        /\ \A b \in Admins : b # a => changes'[b] = changes[b]
    BY <1>0, <1>3, ProceedMoves
  <2>2. ASSUME ~astray' PROVE ChangeKept(changes[a])'
    <3>1. ChangeKept(c)
      BY <1>0, <1>3, <2>2, AloneKept
    <3>2. Agree(Restored(c), registry) /\ dbRole[c.p] = c.to
      BY <1>1, <3>1 DEF ChangeKept
    <3>3. Agree(Restored(changes[a]), registry)'
      BY <1>1, <1>3, <2>1, <3>2 DEF Agree, Restored
    <3>4. QED BY <1>1, <1>3, <2>1, <3>1, <3>2, <3>3 DEF ChangeKept
  <2>3. QED BY <1>0, <1>1, <1>3, <2>1, <2>2, StepKeeps
<1>4. QED BY <1>2, <1>3 DEF UpdateSecond

LEMMA UndoKeeps ==
  ASSUME RolesInv, NEW a \in Admins, UndoFirst(a)
  PROVE  RolesInv'
<1>0. /\ RolesTypeOK /\ dbRole \in RowsRecord /\ changes[a] \in ChangeRecord
      /\ changes[a] # NoChange /\ astray \in BOOLEAN
      /\ changes[a].p \in Slots /\ changes[a].had \in Roles
      /\ \A s \in 1 .. configured : dbRole[s] \in Roles
      /\ 1 .. configured \subseteq Slots
  BY RolesTypes DEF RolesInv, UndoFirst, RowsNamed, ChangeRecord
<1>1. UNCHANGED <<configured, registry, headless>> /\ changes[a].pc = "undo" /\ EndChange(a)
  BY DEF UndoFirst
<1>2. /\ changes' \in [Admins -> {NoChange} \cup ChangeRecord]
      /\ changes'[a] = NoChange
      /\ \A b \in Admins : b # a => changes'[b] = changes[b]
  BY <1>0, <1>1, EndMoves
<1>3. CASE dbRole' = Restored(changes[a]) /\ UNCHANGED astray
  <2>1. dbRole' \in RowsRecord /\ \A s \in 1 .. configured : dbRole'[s] \in Roles
    BY <1>0, <1>3 DEF RowsRecord, Restored
  <2>2. ASSUME ~astray' PROVE Agree(dbRole, registry)'
    <3>1. ChangeKept(changes[a])
      BY <1>0, <1>3, <2>2, AloneKept
    <3>2. Agree(Restored(changes[a]), registry)
      BY <1>1, <3>1 DEF ChangeKept
    <3>3. QED BY <1>1, <1>3, <3>2 DEF Agree
  <2>3. QED BY <1>0, <1>1, <1>2, <1>3, <2>1, <2>2, StepKeeps
<1>4. CASE UNCHANGED dbRole /\ astray' = TRUE
  BY <1>0, <1>1, <1>2, <1>4, StepKeeps
<1>5. QED BY <1>3, <1>4 DEF UndoFirst, Undone, Restored

LEMMA SwapKeeps ==
  ASSUME RolesInv, NEW a \in Admins, SwapPrimarySecondary(a)
  PROVE  RolesInv'
<1>0. /\ RolesTypeOK /\ RowsNamed /\ EveryProviderPlaced /\ SecondThere /\ ChangesKept
      /\ changes[a] \in ChangeRecord /\ changes[a] # NoChange /\ changes[a].pc = "swap"
      /\ registry \in [Roles -> 0 .. configured] /\ configured \in Slots
  BY RolesTypes DEF RolesInv, SwapPrimarySecondary, RowsNamed
<1>1. UNCHANGED <<configured, dbRole, headless, astray>> /\ EndChange(a)
      /\ registry' = Swapped(registry)
  BY DEF SwapPrimarySecondary, Swapped
<1>2. /\ changes' \in [Admins -> {NoChange} \cup ChangeRecord]
      /\ changes'[a] = NoChange
      /\ \A b \in Admins : b # a => changes'[b] = changes[b]
  BY <1>0, <1>1, EndMoves
<1>3. /\ registry' \in [Roles -> 0 .. configured]
      /\ registry'["primary"] = registry["secondary"]
      /\ registry'["secondary"] = registry["primary"]
      /\ registry'["tertiary"] = registry["tertiary"]
  BY <1>0, <1>1, RoleSet DEF Swapped
<1>4. RolesTypeOK'
  <2>1. 0 .. configured \subseteq 0 .. SlotCount
    BY <1>0, RolesTypes DEF Slots
  <2>2. registry' \in [Roles -> 0 .. SlotCount]
    BY <1>3, <2>1
  <2>3. QED BY <1>0, <1>1, <1>2, <2>2 DEF RolesTypeOK, ChangeRecord
<1>5. RowsNamed'
  BY <1>0, <1>1, <1>3 DEF RowsNamed
<1>6. ~headless => registry["secondary"] # 0
  BY <1>0 DEF SecondThere, Idle
<1>7. EveryProviderPlaced'
  <2>1. \A s \in 1 .. configured : \E r \in Roles : registry'[r] = s
    BY <1>0, <1>3, RoleSet DEF EveryProviderPlaced, InRegistry
  <2>2. ASSUME ~headless
        PROVE  /\ registry'["primary"] # 0
               /\ \A r, t \in Roles : registry'[r] = registry'[t] => r = t \/ registry'[r] = 0
    BY <1>0, <1>3, <1>6, <2>2, RoleSet DEF EveryProviderPlaced
  <2>3. QED BY <1>1, <2>1, <2>2 DEF EveryProviderPlaced, InRegistry
<1>8. SecondThere'
  BY <1>0, <1>1, <1>3 DEF SecondThere, EveryProviderPlaced
<1>9. ChangesKept'
  <2>1. ASSUME ~astray'
        PROVE  /\ ~headless'
               /\ \A b \in Admins : changes'[b] = NoChange
               /\ Agree(dbRole, registry)'
    <3>1. ~headless /\ \A b \in Admins : b # a => changes[b] = NoChange
      BY <1>0, <1>1, <2>1 DEF ChangesKept
    <3>2. ChangeKept(changes[a])
      BY <1>0, <1>1, <2>1, AloneKept
    <3>3. Agree(dbRole, Swapped(registry))
      BY <1>0, <3>2 DEF ChangeKept
    <3>4. QED BY <1>1, <1>2, <3>1, <3>3 DEF Agree
  <2>2. QED BY <2>1 DEF ChangesKept
<1>10. QED BY <1>4, <1>5, <1>7, <1>8, <1>9 DEF RolesInv

-----------------------------------------------------------------------------

LEMMA NameIsRole == \A s \in Slots : RoleNames[s] \in Roles
  BY RolesAssumption DEF Slots, Order, Roles

\* What a start makes of the rows of n providers, of which it read those or nothing.
StartedWell(n, read, rows, reg) ==
  /\ reg \in [Roles -> 0 .. n] /\ reg \in [Roles -> 0 .. SlotCount]
  /\ \A s \in 1 .. n : \E r \in Roles : reg[r] = s
  /\ IsPrimary(n, read) =>
       /\ reg["primary"] # 0
       /\ \A r, t \in Roles : reg[r] = reg[t] => r = t \/ reg[r] = 0
       /\ reg["secondary"] = 0 => \A s \in 1 .. n : rows[s] # "secondary"
       /\ Distinct(n, read) => \A s \in 1 .. n : reg[rows[s]] = s

LEMMA StartsWell ==
  ASSUME NEW n \in Slots, NEW read, NEW rows \in RowsRecord,
         IsPrimary(n, read) => read = rows,
         \A s \in 1 .. n : rows[s] \in Roles
  PROVE  StartedWell(n, read, rows, Registered(n, read))
<1>0. SlotCount \in 1 .. 3 /\ n \in 1 .. SlotCount
  BY RolesAssumption DEF Slots
<1>1. PICK g : g = Registered(n, read)
  OBVIOUS
<1>2. /\ g \in [Roles -> 0 .. n]
      /\ \A s \in 1 .. n : \E r \in Roles : g[r] = s
      /\ IsPrimary(n, read) =>
           /\ g["primary"] # 0
           /\ \A r, t \in Roles : g[r] = g[t] => r = t \/ g[r] = 0
           /\ \A s \in 1 .. n, r \in Roles :
                read[s] = r => g[r] \in 1 .. n /\ read[g[r]] = r
  BY <1>1, RegisteredIs
<1>3. g \in [Roles -> 0 .. SlotCount]
  <2>1. 0 .. n \subseteq 0 .. SlotCount
    BY <1>0
  <2>2. QED BY <1>2, <2>1
<1>4. ASSUME IsPrimary(n, read), NEW s \in 1 .. n, rows[s] = "secondary"
      PROVE  g["secondary"] # 0
  <2>1. read[s] = "secondary" /\ "secondary" \in Roles
    BY <1>4, RoleSet
  <2>2. g["secondary"] \in 1 .. n
    BY <1>2, <1>4, <2>1
  <2>3. QED BY <1>0, <2>2
<1>5. ASSUME IsPrimary(n, read), Distinct(n, read), NEW s \in 1 .. n
      PROVE  g[rows[s]] = s
  <2>1. read = rows /\ rows[s] \in Roles
    BY <1>5
  <2>2. g[rows[s]] \in 1 .. n /\ read[g[rows[s]]] = read[s]
    BY <1>2, <1>5, <2>1
  <2>3. QED BY <1>5, <2>2 DEF Distinct
<1>6. QED BY <1>1, <1>2, <1>3, <1>4, <1>5 DEF StartedWell

LEMMA RolesStart ==
  ASSUME RolesInit
  PROVE  RolesInv
<1>0. SlotCount \in 1 .. 3 /\ configured \in Slots /\ configured \in 1 .. 3
  BY RolesAssumption DEF RolesInit, Slots
<1>1. /\ dbRole = [s \in Slots |-> IF s <= configured THEN RoleNames[s] ELSE "none"]
      /\ registry = Registered(configured, dbRole)
      /\ changes = [a \in Admins |-> NoChange]
      /\ headless = FALSE /\ astray = FALSE
  BY DEF RolesInit
<1>2. dbRole \in RowsRecord
  BY <1>1, NameIsRole DEF RowsRecord
<1>3. \A s \in 1 .. configured : s \in Slots /\ dbRole[s] = RoleNames[s] /\ dbRole[s] \in Roles
  BY <1>0, <1>1, NameIsRole DEF Slots
<1>4. IsPrimary(configured, dbRole)
  <2>1. 1 \in 1 .. configured
    BY <1>0
  <2>2. dbRole[1] = "primary"
    BY <1>3, <2>1, RoleSet
  <2>3. QED BY <2>1, <2>2 DEF IsPrimary
<1>5. Distinct(configured, dbRole)
  <2>1. ASSUME NEW s \in 1 .. configured PROVE dbRole[s] # "none"
    BY <1>3, RoleSet
  <2>2. ASSUME NEW s \in 1 .. configured, NEW t \in 1 .. configured, s # t
        PROVE  dbRole[s] # dbRole[t]
    <3>1. dbRole[s] = RoleNames[s] /\ dbRole[t] = RoleNames[t]
      BY <1>3
    <3>2. (s = 1 \/ s = 2 \/ s = 3) /\ (t = 1 \/ t = 2 \/ t = 3)
      BY <1>0
    <3>3. QED BY <2>2, <3>1, <3>2, RoleSet
  <2>3. QED BY <2>1, <2>2 DEF Distinct
<1>6. StartedWell(configured, dbRole, dbRole, registry)
  BY <1>0, <1>1, <1>2, <1>3, StartsWell
<1>7. RolesTypeOK
  BY <1>0, <1>1, <1>2, <1>6 DEF RolesTypeOK, RowsRecord, StartedWell
<1>8. RowsNamed /\ EveryProviderPlaced
  BY <1>1, <1>3, <1>4, <1>6 DEF StartedWell, RowsNamed, EveryProviderPlaced, InRegistry
<1>9. SecondThere
  BY <1>1, <1>4, <1>6 DEF StartedWell, SecondThere, Idle
<1>10. ChangesKept
  BY <1>1, <1>4, <1>5, <1>6 DEF StartedWell, ChangesKept, Agree
<1>11. QED BY <1>7, <1>8, <1>9, <1>10 DEF RolesInv

LEMMA RestartKeeps ==
  ASSUME RolesInv, NEW n \in Slots, RestartServer(n)
  PROVE  RolesInv'
<1>0. dbRole \in RowsRecord /\ SlotCount \in 1 .. 3
  BY RolesTypes DEF RolesInv
<1>1. PICK read \in {dbRole', [s \in Slots |-> "none"]} :
        /\ registry' = Registered(n, read)
        /\ headless' = ~IsPrimary(n, read)
        /\ astray' = ~(Distinct(n, read) /\ IsPrimary(n, read))
  BY DEF RestartServer
<1>2. /\ configured' = n /\ changes' = [a \in Admins |-> NoChange]
      /\ dbRole' = [s \in Slots |-> IF s <= n /\ dbRole[s] = "none" THEN RoleNames[s]
                                    ELSE dbRole[s]]
  BY DEF RestartServer, Upserted
<1>3. dbRole' \in RowsRecord
  BY <1>0, <1>2, NameIsRole DEF RowsRecord
<1>4. \A s \in 1 .. n : dbRole'[s] \in Roles
  <2>1. TAKE s \in 1 .. n
  <2>2. s \in Slots /\ s <= n
    BY <1>0 DEF Slots
  <2>3. QED BY <1>0, <1>2, <2>2, NameIsRole DEF RowsRecord
<1>5. IsPrimary(n, read) => read = dbRole'
  <2>1. ASSUME read = [s \in Slots |-> "none"], IsPrimary(n, read)
        PROVE  FALSE
    <3>1. PICK s \in 1 .. n : read[s] = "primary"
      BY <2>1 DEF IsPrimary
    <3>2. s \in Slots
      BY <1>0 DEF Slots
    <3>3. QED BY <2>1, <3>1, <3>2
  <2>2. QED BY <1>1, <2>1
<1>6. StartedWell(n, read, dbRole', registry')
  BY <1>1, <1>3, <1>4, <1>5, StartsWell
<1>7. RolesTypeOK'
  BY <1>1, <1>2, <1>3, <1>6 DEF RolesTypeOK, RowsRecord, StartedWell
<1>8. RowsNamed' /\ EveryProviderPlaced'
  BY <1>1, <1>2, <1>4, <1>6 DEF StartedWell, RowsNamed, EveryProviderPlaced, InRegistry
<1>9. SecondThere'
  BY <1>1, <1>2, <1>6 DEF StartedWell, SecondThere, Idle
<1>10. ChangesKept'
  BY <1>1, <1>2, <1>6 DEF StartedWell, ChangesKept, Agree
<1>11. QED BY <1>7, <1>8, <1>9, <1>10 DEF RolesInv

LEMMA RolesStep ==
  ASSUME RolesInv, [RolesNext]_rolesVars
  PROVE  RolesInv'
<1>1. ASSUME NEW a \in Admins,
             \/ \E p \in Slots : \/ AdminSetPrimary(a, p) \/ AdminSetSecondary(a, p)
                                 \/ AdminSetTertiary(a, p)
             \/ AdminSwapProviders(a)
      PROVE  RolesInv'
  BY <1>1, AdminAsks
<1>2. ASSUME NEW a \in Admins, UpdateFirst(a) PROVE RolesInv'
  BY <1>2, FirstKeeps
<1>3. ASSUME NEW a \in Admins, UpdateSecond(a) PROVE RolesInv'
  BY <1>3, SecondKeeps
<1>4. ASSUME NEW a \in Admins, UndoFirst(a) PROVE RolesInv'
  BY <1>4, UndoKeeps
<1>5. ASSUME NEW a \in Admins, SwapPrimarySecondary(a) PROVE RolesInv'
  BY <1>5, SwapKeeps
<1>6. ASSUME NEW n \in Slots, RestartServer(n) PROVE RolesInv'
  BY <1>6, RestartKeeps
<1>7. CASE UNCHANGED rolesVars
  BY <1>7 DEF rolesVars, RolesInv, RolesTypeOK, RowsNamed, EveryProviderPlaced, InRegistry,
              SecondThere, ChangesKept, ChangeKept, Idle, Agree, Restored, Swapped
<1>8. QED BY <1>1, <1>2, <1>3, <1>4, <1>5, <1>6, <1>7 DEF RolesNext

LEMMA RolesInvHolds == RolesSpec => []RolesInv
  BY RolesStart, RolesStep, PTL DEF RolesSpec

(* All variables keep the values they are declared with: rows, registry    *)
(* and changes name roles and configured slots only                        *)
(* (handlers/admin_storage.go, main.go).                                   *)
THEOREM RolesTypeCorrect == RolesSpec => []RolesTypeOK
<1>1. RolesInv => RolesTypeOK
  BY DEF RolesInv
<1>2. QED BY <1>1, RolesInvHolds, PTL

(* Every configured provider has a role after any sequence of starts and   *)
(* changes, and the registry and the rows tell the same roles whenever no  *)
(* change is under way and nothing set them apart (main.go:593,            *)
(* handlers/admin_storage.go:543).                                         *)
THEOREM RolesKept == RolesSpec => []RolesHold
<1>1. RolesInv => RolesHold
  BY DEF RolesInv, RolesHold, RolesAgree, ChangesKept, Idle, Agree
<1>2. QED BY <1>1, RolesInvHolds, PTL

-----------------------------------------------------------------------------
(***************************************************************************)
(* The machines side by side                                               *)
(***************************************************************************)

\* Whichever machine is explored, each of them keeps to its specification.
LEMMA ServiceParts ==
  ServiceSpec => /\ Spec /\ SharesSpec /\ RolesSpec /\ KeysSpec /\ MastersSpec
                 /\ ClientSpec /\ RecoverySpec
<1>1. ServiceInit => /\ Init /\ SharesInit /\ RolesInit /\ KeysInit /\ MastersInit
                     /\ ClientInit /\ RecoveryInit
  BY DEF ServiceInit
<1>2. [ServiceNext]_ServiceVars =>
        /\ [Next]_vars /\ [SharesNext]_sharesVars /\ [RolesNext]_rolesVars
        /\ [KeysNext]_keyVars /\ [MastersNext]_mastersVars
        /\ [ClientNext]_clientVars /\ [RecoveryNext]_recoveryVars
  BY DEF ServiceNext, ServiceVars
<1>3. QED
  BY <1>1, <1>2, PTL
  DEF ServiceSpec, Spec, SharesSpec, RolesSpec, KeysSpec, MastersSpec, ClientSpec,
      RecoverySpec

(* Whichever of the machines is at work, its variables have the types they *)
(* should.                                                                 *)
THEOREM ServiceTypeCorrect == ServiceSpec => []ServiceTypeOK
<1>1. /\ TypeOK /\ SharesTypeOK /\ RolesTypeOK /\ KeysTypeOK /\ MastersTypeOK
      /\ ClientTypeOK /\ RecoveryTypeOK
      => ServiceTypeOK
  BY DEF ServiceTypeOK
<1>2. QED
  BY <1>1, ServiceParts, TypeCorrect, SharesTypeCorrect, RolesTypeCorrect, KeysTypeCorrect,
     MastersTypeCorrect, ClientTypeCorrect, RecoveryTypeCorrect, PTL
=============================================================================
