------------------------------ MODULE Account ------------------------------
(***************************************************************************)
(* What billing promises an account holder, whatever runs at the same      *)
(* time: storage that was metered is billed exactly once, a settled        *)
(* invoice is credited exactly once and in full, and nothing else but a    *)
(* gift changes a balance.  Ledger implements this specification.          *)
(***************************************************************************)
EXTENDS Integers

CONSTANTS
  Users,
  Invoices,
  Payer,     \* the user an invoice belongs to
  Amount,    \* what it is for, in microcents
  Charges,   \* what one tick can cost
  Gifts      \* what an administrator can give

VARIABLES
  balance,   \* signed, in microcents
  owed,      \* metered, not billed yet
  credited   \* the invoices that have been credited

vars == <<balance, owed, credited>>

Init ==
  /\ balance = [u \in Users |-> 0]
  /\ owed = [u \in Users |-> 0]
  /\ credited = {}

Meter(u) ==
  /\ \E n \in Charges : owed' = [owed EXCEPT ![u] = @ + n]
  /\ UNCHANGED <<balance, credited>>

Bill(u) ==
  /\ balance' = [balance EXCEPT ![u] = @ - owed[u]]
  /\ owed' = [owed EXCEPT ![u] = 0]
  /\ UNCHANGED credited

Credit(i) ==
  /\ i \notin credited
  /\ balance' = [balance EXCEPT ![Payer[i]] = @ + Amount[i]]
  /\ credited' = credited \cup {i}
  /\ UNCHANGED owed

Give(u) ==
  /\ \E n \in Gifts : balance' = [balance EXCEPT ![u] = @ + n]
  /\ UNCHANGED <<owed, credited>>

Next ==
  \/ \E u \in Users : Meter(u) \/ Bill(u) \/ Give(u)
  \/ \E i \in Invoices : Credit(i)

Spec == Init /\ [][Next]_vars
=============================================================================
