------------------------------ MODULE MCFiles ------------------------------
(***************************************************************************)
(* Small instances of the machines of files: uploads that overlap, files   *)
(* that come and go, and the bytes of one file.  They share no state: a    *)
(* behaviour explores the one that machine names and leaves the others as  *)
(* they begin.                                                             *)
(***************************************************************************)
EXTENDS MCUploads, Removal, Transfers

VARIABLE machine

FilesVars == <<machine, vars, removalVars, transfersVars>>

FilesInit ==
  /\ machine \in {"uploads", "removal", "transfers"}
  /\ Init /\ RemovalInit
  /\ TransfersInit /\ (places = Places \/ machine = "transfers")

FilesNext ==
  \/ /\ machine = "uploads" /\ Next
     /\ UNCHANGED <<machine, removalVars, transfersVars>>
  \/ /\ machine = "removal" /\ RemovalNext
     /\ UNCHANGED <<machine, vars, transfersVars>>
  \/ /\ machine = "transfers" /\ TransfersNext
     /\ UNCHANGED <<machine, vars, removalVars>>

FilesSpec == FilesInit /\ [][FilesNext]_FilesVars

\* The values of all variables of the machine that is explored.
FilesTypeOK ==
  /\ machine = "uploads"   => TypeOK
  /\ machine = "removal"   => RemovalTypeOK
  /\ machine = "transfers" => TransfersTypeOK
=============================================================================
