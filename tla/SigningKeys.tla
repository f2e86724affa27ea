---------------------------- MODULE SigningKeys ----------------------------
(***************************************************************************)
(* The versioned signing keys of the two JWT tiers: auth/keys.go loads a   *)
(* ring from the rows of system_keys, auth/jwt_rotation.go adds a version  *)
(* and retires one.  A rotation is a sequence of single statements (list   *)
(* the versions, store the seed, move the pointer, once per tier, then     *)
(* load both rings and replace them in memory) with nothing that keeps two *)
(* administrators apart; a crash may fall between any two of them.         *)
(***************************************************************************)
EXTENDS Integers, FiniteSets, FiniteSetsExt

CONSTANTS
  Keepers,        \* requests of administrators that rotate or retire keys
  MaxVersion,     \* bound: no tier gets a higher version
  MaxSeed         \* bound: seeds drawn, the two bootstrap seeds included

ASSUME KeyAssumption == MaxVersion \in Nat \ {0} /\ MaxSeed \in Nat /\ MaxSeed >= 2

VARIABLES
  keyRow,         \* tier, version |-> the stored seed, 0 when there is no row
  pointer,        \* tier |-> the stored active version, 0 when there is no row
  ring,           \* tier |-> the ring in memory
  keeping,        \* keeper |-> the request in progress
  seeds,          \* seeds drawn so far
  live,           \* <<tier, seed>> of the tokens issued and not yet expired
  retired         \* ghost: <<tier, seed>> of the rows an administrator retired

keyVars == <<keyRow, pointer, ring, keeping, seeds, live, retired>>

KeyTiers   == {"temp", "full"}
Versions == 1..MaxVersion
NoRing   == [active |-> 0, signing |-> 0, verify |-> {}]
NoKeep   == [at |-> "idle", tier |-> "temp", version |-> 0, loaded |-> [t \in KeyTiers |-> NoRing]]

Stored(t) == {v \in Versions : keyRow[t][v] # 0}

\* Mutant: the number of the versions stands for the highest.
NextVersionCounted(t) == Cardinality(Stored(t)) + 1

\* The version a rotation adds: one above the highest stored.
NextVersion(t) == IF Stored(t) = {} THEN 1 ELSE Max(Stored(t)) + 1

\* The pointer counts when its version exists; otherwise the highest does.
ActiveVersion(t) ==
  IF pointer[t] \in Stored(t) THEN pointer[t] ELSE Max(Stored(t))

\* The ring loadJWTRing builds of the rows of a tier that has some.
RingOf(t) ==
  [active  |-> ActiveVersion(t),
   signing |-> keyRow[t][ActiveVersion(t)],
   verify  |-> {keyRow[t][v] : v \in Stored(t)}]

-----------------------------------------------------------------------------
(* The first start has generated version 1 of each tier and written no     *)
(* pointer.                                                                *)
KeysInit ==
  /\ keyRow  = [t \in KeyTiers |-> [v \in Versions |->
                  IF v # 1 THEN 0 ELSE IF t = "temp" THEN 1 ELSE 2]]
  /\ pointer = [t \in KeyTiers |-> 0]
  /\ ring    = [t \in KeyTiers |-> RingOf(t)]
  /\ keeping = [k \in Keepers |-> NoKeep]
  /\ seeds   = 2
  /\ live    = {}
  /\ retired = {}

Keep(k, step) == keeping' = [keeping EXCEPT ![k].at = step]

(* RotateJWTSigningKeys: the temp tier, then the full tier.                *)
Rotate(k) ==
  /\ keeping[k].at = "idle" /\ NextVersion("temp") \in Versions
  /\ keeping' = [keeping EXCEPT ![k] =
                   [NoKeep EXCEPT !.at = "seed", !.version = NextVersion("temp")]]
  /\ UNCHANGED <<keyRow, pointer, ring, seeds, live, retired>>

StoreSeed(k) ==
  LET t == keeping[k].tier IN
  /\ keeping[k].at = "seed" /\ seeds < MaxSeed
  /\ seeds' = seeds + 1
  /\ keyRow' = [keyRow EXCEPT ![t][keeping[k].version] = seeds + 1]
  /\ Keep(k, "pointer")
  /\ UNCHANGED <<pointer, ring, live, retired>>

StorePointer(k) ==
  LET t == keeping[k].tier IN
  /\ keeping[k].at = "pointer"
  /\ pointer' = [pointer EXCEPT ![t] = keeping[k].version]
  /\ Keep(k, IF t = "temp" THEN "list" ELSE "loadTemp")
  /\ UNCHANGED <<keyRow, ring, seeds, live, retired>>

ListFull(k) ==
  /\ keeping[k].at = "list" /\ NextVersion("full") \in Versions
  /\ keeping' = [keeping EXCEPT ![k].at = "seed", ![k].tier = "full",
                                ![k].version = NextVersion("full")]
  /\ UNCHANGED <<keyRow, pointer, ring, seeds, live, retired>>

(* RetireJWTKeyVersion: the active versions are those of the rings in      *)
(* memory; the row of the temp tier goes first.                            *)
Retirable(v) == \A t \in KeyTiers : ring[t].active # v

Retire(k, v) ==
  /\ keeping[k].at = "idle" /\ Retirable(v)
  /\ keeping' = [keeping EXCEPT ![k] = [NoKeep EXCEPT !.at = "drop", !.version = v]]
  /\ UNCHANGED <<keyRow, pointer, ring, seeds, live, retired>>

DropRow(k) ==
  LET t == keeping[k].tier
      v == keeping[k].version IN
  /\ keeping[k].at = "drop"
  /\ keyRow'  = [keyRow EXCEPT ![t][v] = 0]
  /\ retired' = retired \cup {<<t, keyRow[t][v]>>}
  /\ keeping' = [keeping EXCEPT ![k].tier = "full",
                                ![k].at = IF t = "temp" THEN "drop" ELSE "loadTemp"]
  /\ UNCHANGED <<pointer, ring, seeds, live>>

(* ReloadJWTKeys reads the two tiers one after the other and replaces both *)
(* rings under the lock.  A tier without rows is given a fresh version 1.  *)
Load(k, t) ==
  LET fresh == Stored(t) = {}
      rows  == IF fresh THEN [keyRow EXCEPT ![t][1] = seeds + 1] ELSE keyRow IN
  /\ fresh => seeds < MaxSeed
  /\ keyRow' = rows
  /\ seeds'  = IF fresh THEN seeds + 1 ELSE seeds
  /\ keeping' = [keeping EXCEPT
       ![k].loaded[t] = IF fresh
                        THEN [active |-> 1, signing |-> seeds + 1, verify |-> {seeds + 1}]
                        ELSE RingOf(t),
       ![k].at = IF t = "temp" THEN "loadFull" ELSE "install"]
  /\ UNCHANGED <<pointer, ring, live, retired>>

LoadTemp(k) == keeping[k].at = "loadTemp" /\ Load(k, "temp")
LoadFull(k) == keeping[k].at = "loadFull" /\ Load(k, "full")

Install(k) ==
  /\ keeping[k].at = "install"
  /\ ring' = keeping[k].loaded
  /\ keeping' = [keeping EXCEPT ![k] = NoKeep]
  /\ UNCHANGED <<keyRow, pointer, seeds, live, retired>>

\* A failing statement ends the request where it stands.
GiveUpKeys(k) ==
  /\ keeping[k].at # "idle"
  /\ keeping' = [keeping EXCEPT ![k] = NoKeep]
  /\ UNCHANGED <<keyRow, pointer, ring, seeds, live, retired>>

(* A token is signed with the active key of its tier, and expires.         *)
Issue(t) ==
  /\ live' = live \cup {<<t, ring[t].signing>>}
  /\ UNCHANGED <<keyRow, pointer, ring, keeping, seeds, retired>>

ExpireToken(token) ==
  /\ live' = live \ {token}
  /\ UNCHANGED <<keyRow, pointer, ring, keeping, seeds, retired>>

(* A restart loads the rings of what is stored.                            *)
RestartKeys ==
  /\ \A t \in KeyTiers : Stored(t) # {}
  /\ ring' = [t \in KeyTiers |-> RingOf(t)]
  /\ keeping' = [k \in Keepers |-> NoKeep]
  /\ UNCHANGED <<keyRow, pointer, seeds, live, retired>>

KeysNext ==
  \/ \E k \in Keepers :
       \/ Rotate(k) \/ StoreSeed(k) \/ StorePointer(k) \/ ListFull(k)
       \/ \E v \in Versions : Retire(k, v)
       \/ DropRow(k) \/ LoadTemp(k) \/ LoadFull(k) \/ Install(k) \/ GiveUpKeys(k)
  \/ \E t \in KeyTiers : Issue(t)
  \/ \E token \in live : ExpireToken(token)
  \/ RestartKeys

KeysSpec == KeysInit /\ [][KeysNext]_keyVars

-----------------------------------------------------------------------------
RingType == [active : 0..MaxVersion, signing : 0..MaxSeed, verify : SUBSET (0..MaxSeed)]

\* The values the variables range over: rows, pointers and rings of both
\* tiers, the requests in progress.
KeysTypeOK ==
  /\ keyRow \in [KeyTiers -> [Versions -> 0..MaxSeed]]
  /\ pointer \in [KeyTiers -> 0..MaxVersion]
  /\ ring \in [KeyTiers -> RingType]
  /\ keeping \in [Keepers -> [at : {"idle", "seed", "pointer", "list", "drop", "loadTemp",
                                    "loadFull", "install"},
                              tier : KeyTiers, version : 0..MaxVersion,
                              loaded : [KeyTiers -> RingType]]]
  /\ seeds \in 2..MaxSeed
  /\ live \subseteq KeyTiers \X (1..MaxSeed)
  /\ retired \subseteq KeyTiers \X (0..MaxSeed)

\* RotateJWTSigningKeys promises that tokens already issued go on being
\* accepted until they expire: an unexpired token is verified by the ring of
\* its tier unless its key was retired by hand.  One request at a time.
IssuedStillVerified ==
  \A token \in live :
    token \in retired \/ token[2] \in ring[token[1]].verify
=============================================================================
