---------------------------- MODULE StorageRoles ----------------------------
(***************************************************************************)
(* The roles of the storage providers: the column of storage_providers,    *)
(* the registry in memory that every upload and download goes by, the      *)
(* administrators who exchange roles with two UPDATEs and a swap in memory *)
(* (handlers/admin_storage.go), and what a start makes of the rows it      *)
(* finds (main.go, models/storage_provider.go).  A provider is named by    *)
(* the slot of the environment that configures it.                         *)
(***************************************************************************)
EXTENDS Integers, FiniteSets

CONSTANTS
  Admins,     \* role changes under way at one time
  SlotCount   \* STORAGE_PROVIDER_1, _2, _3

ASSUME RolesAssumption == SlotCount \in 1 .. 3

VARIABLES
  configured,  \* how many slots the environment fills, from the first on
  dbRole,      \* storage_providers.role; "none": no row
  registry,    \* storage.Registry; 0: nil
  changes,     \* the role changes under way
  headless,    \* history: no configured provider was primary at the start
  astray       \* history: the rows and the registry may differ until a restart

rolesVars == <<configured, dbRole, registry, changes, headless, astray>>

Slots == 1 .. SlotCount
RoleNames == <<"primary", "secondary", "tertiary">>
Order == 1 .. 3
Roles == {RoleNames[i] : i \in Order}

NoChange == [pc |-> "idle"]
\* p gets the role to and q, if there is one, the role that p had; afterwards
\* the registry may have to swap its first two providers.
Change(p, to, q, had, swap) ==
  [pc |-> "first", p |-> p, to |-> to, q |-> q, had |-> had, swap |-> swap]

RolesTypeOK ==
  /\ configured \in Slots
  /\ dbRole \in [Slots -> Roles \cup {"none"}]
  /\ registry \in [Roles -> 0 .. SlotCount]
  /\ changes \in [Admins ->
       {NoChange} \cup [pc: {"first", "second", "undo", "swap"}, p: Slots,
                        to: Roles, q: 0 .. SlotCount, had: Roles,
                        swap: BOOLEAN]]
  /\ headless \in BOOLEAN
  /\ astray \in BOOLEAN

-----------------------------------------------------------------------------
(* Starting.                                                               *)

\* UpsertStorageProvider: a new row gets its slot's role, an old one keeps its.
Upserted(n) ==
  [s \in Slots |-> IF s <= n /\ dbRole[s] = "none" THEN RoleNames[s]
                   ELSE dbRole[s]]

Least(S) == IF S = {} THEN 0 ELSE CHOOSE s \in S : \A t \in S : s <= t
Kth(S, k) ==
  Least({s \in S : Cardinality({t \in S : t <= s}) = k})

\* resolveStorageRoleAssignments for the first n slots.  Pass 1 gives a role to
\* the first provider whose row names it; pass 2 deals the other providers out
\* to the roles still open.
Resolve(n, role) ==
  LET first(r) == Least({s \in 1 .. n : role[s] = r})
      others == {s \in 1 .. n : \A r \in Roles : first(r) # s}
      open(i) == Cardinality({j \in 1 .. i : first(RoleNames[j]) = 0})
  IN [r \in Roles |->
       IF first(r) # 0 THEN first(r)
       ELSE Kth(others, open(CHOOSE i \in Order : RoleNames[i] = r))]

\* What registerAndBackfillStorageProviders makes of it: a primary that was not
\* assigned stays the one of the first slot.
Registered(n, role) ==
  LET a == Resolve(n, role) IN
  [a EXCEPT !["primary"] = IF @ = 0 THEN 1 ELSE @]

\* The rows name a role for each provider, each its own.
Distinct(n, role) ==
  \A s \in 1 .. n : /\ role[s] # "none"
                    /\ \A t \in 1 .. n : s # t => role[s] # role[t]

IsPrimary(n, role) == \E s \in 1 .. n : role[s] = "primary"

RolesInit ==
  /\ configured \in Slots
  /\ dbRole = [s \in Slots |-> IF s <= configured THEN RoleNames[s] ELSE "none"]
  /\ registry = Registered(configured, dbRole)
  /\ changes = [a \in Admins |-> NoChange]
  /\ headless = FALSE
  /\ astray = FALSE

\* A crash or a deployment; the operator may have filled or emptied a slot, and
\* the database may fail when the roles are read.
RestartServer(n) ==
  /\ configured' = n
  /\ dbRole' = Upserted(n)
  /\ \E read \in {dbRole', [s \in Slots |-> "none"]} :
       /\ registry' = Registered(n, read)
       /\ headless' = ~IsPrimary(n, read)
       /\ astray' = ~(Distinct(n, read) /\ IsPrimary(n, read))
  /\ changes' = [a \in Admins |-> NoChange]

-----------------------------------------------------------------------------
(* Changing roles.                                                         *)

\* The checks read the row and the registry; RunVerification may refuse, and
\* does not survive a provider that is nil.
Ask(a, change) ==
  /\ changes[a] = NoChange
  /\ changes' = [changes EXCEPT ![a] = change]
  /\ astray' = (astray \/ \E b \in Admins : changes[b] # NoChange)
  /\ UNCHANGED <<configured, dbRole, registry, headless>>

InRegistry(p) == \E r \in Roles : registry[r] = p

AdminSetPrimary(a, p) ==
  /\ dbRole[p] = "secondary" /\ InRegistry(p)
  /\ registry["primary"] # 0
  /\ Ask(a, Change(p, "primary", registry["primary"], "secondary",
                   TRUE))

AdminSetSecondary(a, p) ==
  /\ InRegistry(p)
  /\ registry["secondary"] # 0
  /\ \/ /\ dbRole[p] = "primary"
        /\ Ask(a, Change(p, "secondary", registry["secondary"], "primary",
                         TRUE))
     \/ /\ dbRole[p] = "tertiary"
        /\ Ask(a, Change(p, "secondary", registry["secondary"], "tertiary",
                         FALSE))

AdminSetTertiary(a, p) ==
  /\ dbRole[p] = "secondary" /\ InRegistry(p)
  /\ Ask(a, Change(p, "tertiary", registry["tertiary"], "secondary",
                   FALSE))

AdminSwapProviders(a) ==
  /\ registry["primary"] # 0 /\ registry["secondary"] # 0
  /\ Ask(a, Change(registry["primary"], "secondary", registry["secondary"],
                   "primary", TRUE))

Proceed(a, pc) == changes' = [changes EXCEPT ![a].pc = pc]
EndChange(a) == changes' = [changes EXCEPT ![a] = NoChange]

UpdateFirst(a) ==
  /\ changes[a].pc = "first"
  /\ \/ /\ dbRole' = [dbRole EXCEPT ![changes[a].p] = changes[a].to]
        /\ Proceed(a, "second")
     \/ UNCHANGED dbRole /\ EndChange(a)
  /\ UNCHANGED <<configured, registry, headless, astray>>

\* Roles moved to or from tertiary wait for a restart.
UpdateSecond(a) ==
  /\ changes[a].pc = "second"
  /\ LET c == changes[a] IN
       \/ /\ dbRole' = IF c.q = 0 THEN dbRole
                       ELSE [dbRole EXCEPT ![c.q] = c.had]
          /\ IF c.swap THEN Proceed(a, "swap") ELSE EndChange(a)
          /\ astray' = (astray \/ ~c.swap)
       \/ /\ c.q # 0
          /\ Proceed(a, "undo")
          /\ UNCHANGED <<dbRole, astray>>
  /\ UNCHANGED <<configured, registry, headless>>

\* Mutant: the first row keeps the role it was to get.
UndoneTo(c) == c.to

\* The role the first row gets back when the second UPDATE fails.
Undone(c) == c.had

\* The answer says "rolled back" even when this fails too.
UndoFirst(a) ==
  /\ changes[a].pc = "undo"
  /\ \/ /\ dbRole' = [dbRole EXCEPT ![changes[a].p] = Undone(changes[a])]
        /\ UNCHANGED astray
     \/ UNCHANGED dbRole /\ astray' = TRUE
  /\ EndChange(a)
  /\ UNCHANGED <<configured, registry, headless>>

\* Registry.SwapPrimarySecondary
SwapPrimarySecondary(a) ==
  /\ changes[a].pc = "swap"
  /\ registry' = [registry EXCEPT !["primary"] = registry["secondary"],
                                  !["secondary"] = registry["primary"]]
  /\ EndChange(a)
  /\ UNCHANGED <<configured, dbRole, headless, astray>>

RolesNext ==
  \/ \E a \in Admins :
       \/ \E p \in Slots : \/ AdminSetPrimary(a, p) \/ AdminSetSecondary(a, p)
                           \/ AdminSetTertiary(a, p)
       \/ AdminSwapProviders(a)
       \/ UpdateFirst(a) \/ UpdateSecond(a) \/ UndoFirst(a)
       \/ SwapPrimarySecondary(a)
  \/ \E n \in Slots : RestartServer(n)

RolesSpec == RolesInit /\ [][RolesNext]_rolesVars

-----------------------------------------------------------------------------
(* Properties.                                                             *)

(* Whatever roles failed updates, crashes between two updates and slots    *)
(* filled or emptied have left in the rows, a start gives each configured  *)
(* provider a role, so that its objects can be read; and where one of the  *)
(* rows it read named a primary, uploads have a primary from then on and   *)
(* no provider has two roles (main.go:593).                                *)
EveryProviderPlaced ==
  /\ \A s \in 1 .. configured : InRegistry(s)
  /\ ~headless =>
       /\ registry["primary"] # 0
       /\ \A r, t \in Roles :
            registry[r] = registry[t] => r = t \/ registry[r] = 0

(* The registry and the rows tell the same roles whenever no change is     *)
(* under way, also after an update has failed and been rolled back; until  *)
(* the next restart they may differ after a change to or from tertiary,    *)
(* after two changes at once and after a roll-back that failed             *)
(* (handlers/admin_storage.go:543).                                        *)
RolesAgree ==
  ~astray /\ (\A a \in Admins : changes[a] = NoChange) =>
    \A s \in 1 .. configured : registry[dbRole[s]] = s

(* The roles are complete and told alike: see the two parts.               *)
RolesHold == EveryProviderPlaced /\ RolesAgree
=============================================================================
