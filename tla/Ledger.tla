------------------------------- MODULE Ledger -------------------------------
(***************************************************************************)
(* The credits ledger: the hourly meter and the daily sweep                *)
(* (billing/meter.go, billing/sweep.go), gifts (billing/gift.go), and      *)
(* invoices from their creation to their settlement by the BTCPay webhook, *)
(* an administrator's sync, or the reconciliation of paid invoices         *)
(* (billing/payments.go, billing/reconcile.go, handlers/payments.go).      *)
(*                                                                         *)
(* Jobs meter and sweep: the scheduler's goroutine is one, every call of   *)
(* the developer route /api/admin/billing/tick-now is another.  Requests   *)
(* are the handlers about invoices.  Each takes one step per statement or  *)
(* transaction and carries what it read before.                            *)
(***************************************************************************)
EXTENDS Integers, Sequences, FiniteSets

CONSTANTS
  Users,       \* the billable users
  Jobs,        \* the scheduler and concurrent tick-now calls
  Requests,    \* invoice handlers that can run at the same time
  Invoices,    \* payment_invoices.invoice_id
  Payer,       \* username of an invoice
  Amount,      \* amount_usd_microcents of an invoice
  Charges,     \* tick_charge_microcents values
  Gifts,       \* amounts administrators give
  Orphans,     \* invoices an older release left 'paid' without a ledger row
  LatePayment, \* TRUE: an expired invoice may still be settled at BTCPay
  MaxTicks,    \* bound: ticks of all users
  MaxGifts,    \* bound: gifts
  MaxCrashes,  \* bound: how often the process dies
  MayFail      \* TRUE: a statement or a provider call may fail

Usage == "usage"
Gift == "gift"

ASSUME LedgerAssumption ==
  /\ Usage \notin Invoices /\ Gift \notin Invoices
  /\ Payer \in [Invoices -> Users]
  /\ Amount \in [Invoices -> Nat \ {0}]
  /\ Charges \subseteq Nat \ {0}
  /\ Gifts \subseteq Nat \ {0}
  /\ Orphans \subseteq Invoices
  /\ LatePayment \in BOOLEAN
  /\ MaxTicks \in Nat /\ MaxGifts \in Nat /\ MaxCrashes \in Nat
  /\ MayFail \in BOOLEAN

VARIABLES
  balance,   \* user_credits.balance_usd_microcents, 0 when there is no row
  ledger,    \* credit_transactions of a user, oldest first
  unbilled,  \* storage_usage_accumulator.unbilled_microcents
  invoice,   \* payment_invoices.status, "none" when there is no row
  remote,    \* status of the invoice at BTCPay
  job,       \* what each job is doing
  req,       \* what each handler is doing
  ticks, gifts, crashes

billVars == <<balance, ledger>>
countVars == <<ticks, gifts, crashes>>
vars == <<billVars, unbilled, invoice, remote, job, req, countVars>>

\* A row of credit_transactions: transaction_id is the invoice for a payment.
Row == [amount: Int, after: Int, ref: Invoices \cup {Usage, Gift}]

Idle == [pc |-> "idle"]

JobState ==
  {Idle}
  \cup [pc: {"tick"}, todo: SUBSET Users]
  \cup [pc: {"swept"}]
  \cup [pc: {"sweep"}, todo: SUBSET Users, drain: [Users -> Nat]]

Statuses == {"none", "pending", "paid", "expired", "failed"}

RequestState ==
  {Idle}
  \cup [pc: {"insert", "process", "settle", "mark_paid"}, inv: Invoices]
  \cup [pc: {"check", "query"}, inv: Invoices, status: Statuses]
  \cup [pc: {"overwrite"}, inv: Invoices, status: {"expired", "failed"}]
  \cup [pc: {"reconcile"}, todo: SUBSET Invoices]

TypeOK ==
  /\ balance \in [Users -> Int]
  /\ ledger \in [Users -> Seq(Row)]
  /\ unbilled \in [Users -> Nat]
  /\ invoice \in [Invoices -> Statuses]
  /\ remote \in [Invoices -> {"none", "New", "Settled", "Expired", "Invalid"}]
  /\ job \in [Jobs -> JobState]
  /\ req \in [Requests -> RequestState]
  /\ ticks \in 0 .. MaxTicks /\ gifts \in 0 .. MaxGifts
  /\ crashes \in 0 .. MaxCrashes

Init ==
  /\ balance = [u \in Users |-> 0]
  /\ ledger = [u \in Users |-> <<>>]
  /\ unbilled = [u \in Users |-> 0]
  /\ invoice = [i \in Invoices |-> IF i \in Orphans THEN "paid" ELSE "none"]
  /\ remote = [i \in Invoices |-> IF i \in Orphans THEN "Settled" ELSE "none"]
  /\ job = [j \in Jobs |-> Idle]
  /\ req = [r \in Requests |-> Idle]
  /\ ticks = 0 /\ gifts = 0 /\ crashes = 0

\* Reads the balance, writes the new one and appends the row: the body of every
\* transaction that moves money.
Post(u, amount, ref) ==
  /\ balance' = [balance EXCEPT ![u] = @ + amount]
  /\ ledger' = [ledger EXCEPT ![u] =
       Append(@, [amount |-> amount, after |-> balance[u] + amount,
                  ref |-> ref])]

\* CreditTransactionExistsForProviderID
HasCredit(i) ==
  \E k \in DOMAIN ledger[Payer[i]] : ledger[Payer[i]][k].ref = i

JobGoto(j, state) == job' = [job EXCEPT ![j] = state]
Goto(r, state) == req' = [req EXCEPT ![r] = state]
Finish(r) == Goto(r, Idle)

-----------------------------------------------------------------------------
(***************************************************************************)
(* Meter and sweep                                                         *)
(***************************************************************************)

\* TickAllActiveUsers lists the users.
TickStart(j) ==
  /\ job[j] = Idle
  /\ JobGoto(j, [pc |-> "tick", todo |-> Users])
  /\ UNCHANGED <<billVars, unbilled, invoice, remote, req, countVars>>

\* TickUser: the upsert adds the charge to whatever is there.  Nothing is
\* written when the charge is 0 or the statement fails.
TickUser(j, u) ==
  /\ job[j].pc = "tick"
  /\ u \in job[j].todo
  /\ \/ /\ ticks < MaxTicks
        /\ \E n \in Charges : unbilled' = [unbilled EXCEPT ![u] = @ + n]
        /\ ticks' = ticks + 1
     \/ UNCHANGED <<unbilled, ticks>>
  /\ JobGoto(j, [pc |-> "tick", todo |-> job[j].todo \ {u}])
  /\ UNCHANGED <<billVars, invoice, remote, req, gifts, crashes>>

\* The round of ticks is over; a sweep follows it or not (Scheduler says when).
TickEnd(j) ==
  /\ job[j].pc = "tick"
  /\ job[j].todo = {}
  /\ \E next \in {Idle, [pc |-> "swept"]} : JobGoto(j, next)
  /\ UNCHANGED <<billVars, unbilled, invoice, remote, req, countVars>>

\* SweepAllUsers reads the accumulator rows that are not zero.
SweepList(j) ==
  /\ job[j].pc = "swept"
  /\ JobGoto(j, [pc |-> "sweep", todo |-> {u \in Users : unbilled[u] > 0},
                 drain |-> unbilled])
  /\ UNCHANGED <<billVars, unbilled, invoice, remote, req, countVars>>

\* Mutant: the accumulator is left for the next sweep.
SettleWithoutReset(j, u) ==
  /\ job[j].pc = "sweep"
  /\ u \in job[j].todo
  /\ Post(u, - job[j].drain[u], Usage)
  /\ JobGoto(j, [job[j] EXCEPT !.todo = @ \ {u}])
  /\ UNCHANGED <<unbilled, invoice, remote, req, countVars>>

\* Mutant: the user stays in the queue of the sweep.
SettleAgain(j, u) ==
  /\ job[j].pc = "sweep"
  /\ u \in job[j].todo
  /\ Post(u, - job[j].drain[u], Usage)
  /\ unbilled' = [unbilled EXCEPT ![u] = 0]
  /\ UNCHANGED <<job, invoice, remote, req, countVars>>

\* settleOneUser: one transaction that drains the amount listed before, and
\* sets the accumulator to zero.  An error is logged and the sweep goes on.
SettleOneUser(j, u) ==
  /\ job[j].pc = "sweep"
  /\ u \in job[j].todo
  /\ \/ /\ Post(u, - job[j].drain[u], Usage)
        /\ unbilled' = [unbilled EXCEPT ![u] = 0]
     \/ MayFail /\ UNCHANGED <<billVars, unbilled>>
  /\ JobGoto(j, [job[j] EXCEPT !.todo = @ \ {u}])
  /\ UNCHANGED <<invoice, remote, req, countVars>>

SweepEnd(j) ==
  /\ job[j].pc = "sweep"
  /\ job[j].todo = {}
  /\ JobGoto(j, Idle)
  /\ UNCHANGED <<billVars, unbilled, invoice, remote, req, countVars>>

\* GiftCredits, one transaction.
GiftCredits(u) ==
  /\ gifts < MaxGifts
  /\ \E n \in Gifts : Post(u, n, Gift)
  /\ gifts' = gifts + 1
  /\ UNCHANGED <<unbilled, invoice, remote, job, req, ticks, crashes>>

-----------------------------------------------------------------------------
(***************************************************************************)
(* Invoices                                                                *)
(***************************************************************************)

\* CreateInvoiceHandler: the invoice exists at BTCPay before the local row.
CreateInvoice(r, i) ==
  /\ req[r] = Idle
  /\ remote[i] = "none"
  /\ remote' = [remote EXCEPT ![i] = "New"]
  /\ Goto(r, [pc |-> "insert", inv |-> i])
  /\ UNCHANGED <<billVars, unbilled, invoice, job, countVars>>

InsertInvoice(r) ==
  /\ req[r].pc = "insert"
  /\ \/ invoice' = [invoice EXCEPT ![req[r].inv] = "pending"]
     \/ MayFail /\ UNCHANGED invoice
  /\ Finish(r)
  /\ UNCHANGED <<billVars, unbilled, remote, job, countVars>>

\* The provider's side.
RemoteChanges(i) ==
  /\ \/ /\ remote[i] = "New"
        /\ \E s \in {"Settled", "Expired", "Invalid"} :
             remote' = [remote EXCEPT ![i] = s]
     \/ /\ LatePayment
        /\ remote[i] = "Expired"
        /\ remote' = [remote EXCEPT ![i] = "Settled"]
  /\ UNCHANGED <<billVars, unbilled, invoice, job, req, countVars>>

\* BTCPayWebhookHandler for InvoiceSettled, delivered any number of times.  Its
\* own test for an invoice that is paid and credited answers early where
\* SettlePaymentInvoice would find nothing to do.
Webhook(r, i) ==
  /\ req[r] = Idle
  /\ remote[i] = "Settled"
  /\ invoice[i] # "none"
  /\ Goto(r, [pc |-> "check", inv |-> i, status |-> invoice[i]])
  /\ UNCHANGED <<billVars, unbilled, invoice, remote, job, countVars>>

\* AdminSyncInvoiceHandler reads the row; a paid invoice is settled without
\* asking BTCPay.
Sync(r, i) ==
  /\ req[r] = Idle
  /\ invoice[i] # "none"
  /\ Goto(r, [pc |-> IF invoice[i] = "paid" THEN "check" ELSE "query",
              inv |-> i, status |-> invoice[i]])
  /\ UNCHANGED <<billVars, unbilled, invoice, remote, job, countVars>>

\* Mutant: BTCPay's word for the status is stored as it is.
QueryVerbatim(r) ==
  /\ req[r].pc = "query"
  /\ LET i == req[r].inv
     IN \/ /\ remote[i] = "Settled"
           /\ Goto(r, [req[r] EXCEPT !.pc = "check"])
        \/ /\ remote[i] # "Settled"
           /\ Goto(r, [pc |-> "overwrite", inv |-> i, status |-> remote[i]])
  /\ UNCHANGED <<billVars, unbilled, invoice, remote, job, countVars>>

\* Mutant: whatever is not settled counts as expired.
QueryNewIsExpired(r) ==
  /\ req[r].pc = "query"
  /\ LET i == req[r].inv
     IN \/ /\ remote[i] = "Settled"
           /\ Goto(r, [req[r] EXCEPT !.pc = "check"])
        \/ /\ remote[i] # "Settled"
           /\ Goto(r, [pc |-> "overwrite", inv |-> i, status |-> "expired"])
  /\ UNCHANGED <<billVars, unbilled, invoice, remote, job, countVars>>

\* provider.GetInvoiceStatus
Query(r) ==
  /\ req[r].pc = "query"
  /\ LET i == req[r].inv
     IN \/ /\ remote[i] = "Settled"
           /\ Goto(r, [req[r] EXCEPT !.pc = "check"])
        \/ /\ remote[i] \in {"Expired", "Invalid"}
           /\ Goto(r, [pc |-> "overwrite", inv |-> i,
                       status |-> IF remote[i] = "Expired" THEN "expired"
                                                           ELSE "failed"])
        \/ /\ remote[i] = "New" \/ MayFail
           /\ Finish(r)
  /\ UNCHANGED <<billVars, unbilled, invoice, remote, job, countVars>>

\* UpdatePaymentInvoiceStatus, whatever the status is by now.
Overwrite(r) ==
  /\ req[r].pc = "overwrite"
  /\ invoice' = [invoice EXCEPT ![req[r].inv] = req[r].status]
  /\ Finish(r)
  /\ UNCHANGED <<billVars, unbilled, remote, job, countVars>>

\* Mutant: a paid invoice needs nothing more.
CheckPaidIsDone(r) ==
  /\ req[r].pc = "check"
  /\ LET i == req[r].inv
         status == req[r].status
     IN CASE status = "paid" -> Finish(r)
          [] HasCredit(i) /\ status # "paid" ->
               Goto(r, [pc |-> "mark_paid", inv |-> i])
          [] ~HasCredit(i) /\ status = "pending" ->
               Goto(r, [pc |-> "settle", inv |-> i])
          [] OTHER -> Finish(r)
  /\ UNCHANGED <<billVars, unbilled, invoice, remote, job, countVars>>

\* SettlePaymentInvoice up to the transaction: an existing credit is looked
\* for, then the status that was read earlier decides.
Check(r) ==
  /\ req[r].pc = "check"
  /\ LET i == req[r].inv
         status == req[r].status
     IN IF HasCredit(i)
        THEN IF status = "paid" THEN Finish(r)
             ELSE Goto(r, [pc |-> "mark_paid", inv |-> i])
        ELSE CASE status = "paid" -> Goto(r, [pc |-> "process", inv |-> i])
               [] status = "pending" -> Goto(r, [pc |-> "settle", inv |-> i])
               [] OTHER -> Finish(r)
  /\ UNCHANGED <<billVars, unbilled, invoice, remote, job, countVars>>

MarkPaid(r) ==
  /\ req[r].pc = "mark_paid"
  /\ invoice' = [invoice EXCEPT ![req[r].inv] = "paid"]
  /\ Finish(r)
  /\ UNCHANGED <<billVars, unbilled, remote, job, countVars>>

\* Mutant: transaction_id is not stored, so nothing is a duplicate.
ProcessDuplicate(r) ==
  /\ req[r].pc = "process"
  /\ LET i == req[r].inv IN Post(Payer[i], Amount[i], i)
  /\ Finish(r)
  /\ UNCHANGED <<unbilled, invoice, remote, job, countVars>>

\* ProcessPayment: transaction_id is UNIQUE, a second row rolls back.
Process(r) ==
  /\ req[r].pc = "process"
  /\ LET i == req[r].inv
     IN \/ /\ ~HasCredit(i)
           /\ Post(Payer[i], Amount[i], i)
        \/ /\ HasCredit(i) \/ MayFail
           /\ UNCHANGED billVars
  /\ Finish(r)
  /\ UNCHANGED <<unbilled, invoice, remote, job, countVars>>

\* Mutant: UPDATE payment_invoices without AND status = 'pending'.
SettleAnyStatus(r) ==
  /\ req[r].pc = "settle"
  /\ LET i == req[r].inv
     IN /\ invoice' = [invoice EXCEPT ![i] = "paid"]
        /\ IF HasCredit(i)
           THEN /\ balance' = [balance EXCEPT ![Payer[i]] = @ + Amount[i]]
                /\ UNCHANGED ledger
           ELSE Post(Payer[i], Amount[i], i)
  /\ Finish(r)
  /\ UNCHANGED <<unbilled, remote, job, countVars>>

\* The settling transaction: balance, ledger row, status.  When the row is a
\* duplicate its error is swallowed, and only the balance has been updated by
\* then; the commit needs the invoice to be pending still.
Settle(r) ==
  /\ req[r].pc = "settle"
  /\ LET i == req[r].inv
     IN \/ /\ invoice[i] = "pending"
           /\ invoice' = [invoice EXCEPT ![i] = "paid"]
           /\ IF HasCredit(i)
              THEN /\ balance' = [balance EXCEPT ![Payer[i]] = @ + Amount[i]]
                   /\ UNCHANGED ledger
              ELSE Post(Payer[i], Amount[i], i)
        \/ /\ invoice[i] # "pending" \/ MayFail
           /\ UNCHANGED <<billVars, invoice>>
  /\ Finish(r)
  /\ UNCHANGED <<unbilled, remote, job, countVars>>

\* ReconcilePaidInvoices lists the paid invoices without a ledger row, ...
Reconcile(r) ==
  /\ req[r] = Idle
  /\ Goto(r, [pc |-> "reconcile",
              todo |-> {i \in Invoices : invoice[i] = "paid" /\ ~HasCredit(i)}])
  /\ UNCHANGED <<billVars, unbilled, invoice, remote, job, countVars>>

\* ... and credits each.  Any error of the ledger INSERT reads as a duplicate and
\* is skipped, any other error ends the run.
ReconcileOne(r, i) ==
  /\ req[r].pc = "reconcile"
  /\ i \in req[r].todo
  /\ \/ /\ ~HasCredit(i)
        /\ Post(Payer[i], Amount[i], i)
        /\ Goto(r, [req[r] EXCEPT !.todo = @ \ {i}])
     \/ /\ HasCredit(i) \/ MayFail
        /\ Goto(r, [req[r] EXCEPT !.todo = @ \ {i}])
        /\ UNCHANGED billVars
     \/ /\ MayFail
        /\ Finish(r)
        /\ UNCHANGED billVars
  /\ UNCHANGED <<unbilled, invoice, remote, job, countVars>>

ReconcileEnd(r) ==
  /\ req[r].pc = "reconcile"
  /\ req[r].todo = {}
  /\ Finish(r)
  /\ UNCHANGED <<billVars, unbilled, invoice, remote, job, countVars>>

Crash ==
  /\ crashes < MaxCrashes
  /\ crashes' = crashes + 1
  /\ job' = [j \in Jobs |-> Idle]
  /\ req' = [r \in Requests |-> Idle]
  /\ UNCHANGED <<billVars, unbilled, invoice, remote, ticks, gifts>>

-----------------------------------------------------------------------------
Work(j) ==
  \/ TickStart(j) \/ TickEnd(j) \/ SweepList(j) \/ SweepEnd(j)
  \/ \E u \in Users : TickUser(j, u) \/ SettleOneUser(j, u)

Arrive(r) ==
  \/ Reconcile(r)
  \/ \E i \in Invoices : CreateInvoice(r, i) \/ Webhook(r, i) \/ Sync(r, i)

Proceed(r) ==
  \/ InsertInvoice(r) \/ Query(r) \/ Overwrite(r) \/ Check(r) \/ MarkPaid(r)
  \/ Process(r) \/ Settle(r) \/ ReconcileEnd(r)
  \/ \E i \in Invoices : ReconcileOne(r, i)

Next ==
  \/ \E j \in Jobs : Work(j)
  \/ \E u \in Users : GiftCredits(u)
  \/ \E r \in Requests : Arrive(r) \/ Proceed(r)
  \/ \E i \in Invoices : RemoteChanges(i)
  \/ Crash

Spec == Init /\ [][Next]_vars

\* A handler that has begun runs on, and BTCPay delivers the webhook of a
\* settled invoice again until it is answered with success.
Fairness ==
  /\ \A r \in Requests : WF_vars(Proceed(r))
  /\ \A i \in Invoices : SF_vars(\E r \in Requests : Webhook(r, i))

FairSpec == Spec /\ Fairness

-----------------------------------------------------------------------------
(***************************************************************************)
(* Properties                                                              *)
(***************************************************************************)

\* The ledger explains the balance: every credit_transactions row starts from
\* the balance the row before it left, and the last one left the balance the
\* user has, however gifts, sweeps and settlements overlap.
RunningBalance ==
  \A u \in Users :
    LET rows == ledger[u]
        Before(k) == IF k = 1 THEN 0 ELSE rows[k - 1].after
    IN /\ \A k \in DOMAIN rows : rows[k].after = Before(k) + rows[k].amount
       /\ balance[u] = Before(Len(rows) + 1)

\* An invoice is credited at most once and with its amount, however often the
\* webhook is delivered and whoever syncs or reconciles at the same time.
CreditedOnce ==
  \A i \in Invoices :
    LET rows == ledger[Payer[i]]
    IN \A k, l \in DOMAIN rows :
         rows[k].ref = i /\ rows[l].ref = i =>
           k = l /\ rows[k].amount = Amount[i]

\* An invoice that has been credited is 'paid', and stays so: a sync that
\* asked BTCPay before the settlement does not take the status back, as long as
\* BTCPay's 'Expired' is final (LatePayment is FALSE).
CreditedIsPaid == \A i \in Invoices : HasCredit(i) => invoice[i] = "paid"

\* A sweep takes from a balance exactly what the accumulator held when it was
\* reset, so no tick is billed twice or forgotten (settleOneUser).
SweepDrainsUnbilled ==
  [][\A u \in Users :
       LET n == Len(ledger'[u])
       IN n > Len(ledger[u]) /\ ledger'[u][n].ref = Usage =>
            ledger'[u][n].amount = - unbilled[u] /\ unbilled'[u] = 0]_vars

\* A payment that BTCPay has settled ends up in the user's balance.
SettledIsCredited ==
  \A i \in Invoices :
    remote[i] = "Settled" /\ invoice[i] # "none" ~> HasCredit(i)

A == INSTANCE Account
       WITH owed <- unbilled, credited <- {i \in Invoices : HasCredit(i)}

\* With the scheduler as the only job, the ledger behaves like the atomic
\* account: the steps between a read and its transaction never show.
AccountSpec == A!Spec
=============================================================================
