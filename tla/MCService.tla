------------------------------ MODULE MCService -----------------------------
(***************************************************************************)
(* Small instances of the machines that administrators, owners and the     *)
(* server's own clock drive, and of the programs that run side by side on  *)
(* a user's machine: the hours of billing, shares, roles of storage        *)
(* providers, signing keys, master keys, the command line client, and      *)
(* recovery with two programs.  They share no state: a behaviour explores  *)
(* the one that part names and leaves the others as they begin.            *)
(***************************************************************************)
EXTENDS Scheduler, Shares, StorageRoles, SigningKeys, Masters, Client,
        Recovery, TLC

VARIABLE part

ServiceVars ==
  <<part, vars, sharesVars, rolesVars, keyVars, mastersVars, clientVars,
    recoveryVars>>

ServiceInit ==
  /\ part \in {"scheduler", "shares", "roles", "keys", "masters", "client",
              "recovery"}
  /\ Init /\ SharesInit /\ KeysInit /\ MastersInit /\ ClientInit
  /\ RolesInit /\ (configured = 1 \/ part = "roles")
  /\ RecoveryInit /\ (program = "client" \/ part = "recovery")

ServiceNext ==
  \/ /\ part = "scheduler" /\ Next
     /\ UNCHANGED <<part, sharesVars, rolesVars, keyVars, mastersVars,
                    clientVars, recoveryVars>>
  \/ /\ part = "shares" /\ SharesNext
     /\ UNCHANGED <<part, vars, rolesVars, keyVars, mastersVars, clientVars,
                    recoveryVars>>
  \/ /\ part = "roles" /\ RolesNext
     /\ UNCHANGED <<part, vars, sharesVars, keyVars, mastersVars,
                    clientVars, recoveryVars>>
  \/ /\ part = "keys" /\ KeysNext
     /\ UNCHANGED <<part, vars, sharesVars, rolesVars, mastersVars,
                    clientVars, recoveryVars>>
  \/ /\ part = "masters" /\ MastersNext
     /\ UNCHANGED <<part, vars, sharesVars, rolesVars, keyVars, clientVars,
                    recoveryVars>>
  \/ /\ part = "client" /\ ClientNext
     /\ UNCHANGED <<part, vars, sharesVars, rolesVars, keyVars, mastersVars,
                    recoveryVars>>
  \/ /\ part = "recovery" /\ RecoveryNext
     /\ UNCHANGED <<part, vars, sharesVars, rolesVars, keyVars, mastersVars,
                    clientVars>>

ServiceSpec == ServiceInit /\ [][ServiceNext]_ServiceVars

\* Sound: administrators, owners and commands are interchangeable within each
\* machine.
Symmetry == Permutations(Owners)

\* The values of all variables of the machine that is explored.
ServiceTypeOK ==
  /\ part = "scheduler" => TypeOK
  /\ part = "shares"    => SharesTypeOK
  /\ part = "roles"     => RolesTypeOK
  /\ part = "keys"      => KeysTypeOK
  /\ part = "masters"   => MastersTypeOK
  /\ part = "client"    => ClientTypeOK
  /\ part = "recovery"  => RecoveryTypeOK
=============================================================================
