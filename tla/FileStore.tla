----------------------------- MODULE FileStore -----------------------------
(***************************************************************************)
(* What uploads and deletions promise a user, whatever runs at the same    *)
(* time: a file_id names at most one file, once; a user is charged for a   *)
(* file from the moment it is there until the moment it is gone; and one   *)
(* step does both.  Uploads implements this specification.                 *)
(***************************************************************************)
EXTENDS Integers

CONSTANTS
  Users,
  Files,    \* file_ids
  Sizes     \* what a file can be charged with

VARIABLES
  shelf,    \* user |-> the files, each with its size
  spent,    \* file_ids that can no longer become a file
  charged   \* user |-> bytes that quota and meter go by

vars == <<shelf, spent, charged>>

Init ==
  /\ shelf = [u \in Users |-> {}]
  /\ spent = {}
  /\ charged = [u \in Users |-> 0]

Complete(u, f, n) ==
  /\ f \notin spent
  /\ shelf' = [shelf EXCEPT ![u] = @ \cup {<<f, n>>}]
  /\ spent' = spent \cup {f}
  /\ charged' = [charged EXCEPT ![u] = @ + n]

Delete(u, f, n) ==
  /\ <<f, n>> \in shelf[u]
  /\ shelf' = [shelf EXCEPT ![u] = @ \ {<<f, n>>}]
  /\ charged' = [charged EXCEPT ![u] = @ - n]
  /\ UNCHANGED spent

\* Uploads that fail, of one file or, when the server dies, of several.
Lose(F) ==
  /\ spent' = spent \cup F
  /\ UNCHANGED <<shelf, charged>>

Next ==
  \/ \E F \in SUBSET Files : Lose(F)
  \/ \E u \in Users, f \in Files, n \in Sizes : Complete(u, f, n) \/ Delete(u, f, n)

Spec == Init /\ [][Next]_vars
=============================================================================
