---------------------------- MODULE Ledger_proofs ----------------------------
(***************************************************************************)
(* Proofs about Ledger, for every number of users, invoices, jobs and      *)
(* concurrent handlers, every amount and every bound.                      *)
(***************************************************************************)
EXTENDS Ledger, TLAPS

(***************************************************************************)
(* What jobs and handlers carry, by the point they have reached.           *)
(***************************************************************************)
LEMMA JobShape ==
  ASSUME NEW q \in JobState
  PROVE  /\ q.pc = "tick" => q.todo \in SUBSET Users
         /\ q.pc = "sweep" =>
              /\ q \in [pc: {"sweep"}, todo: SUBSET Users, drain: [Users -> Nat]]
              /\ q.todo \in SUBSET Users
              /\ q.drain \in [Users -> Nat]
  BY DEF JobState, Idle

LEMMA RequestShape ==
  ASSUME NEW q \in RequestState
  PROVE  /\ q.pc \in {"insert", "process", "settle", "mark_paid"} =>
              q.inv \in Invoices
         /\ q.pc \in {"check", "query"} =>
              /\ q \in [pc: {"check", "query"}, inv: Invoices,
                        status: Statuses]
              /\ q.inv \in Invoices /\ q.status \in Statuses
         /\ q.pc = "overwrite" =>
              q.inv \in Invoices /\ q.status \in {"expired", "failed"}
         /\ q.pc = "reconcile" =>
              /\ q \in [pc: {"reconcile"}, todo: SUBSET Invoices]
              /\ q.todo \in SUBSET Invoices
  BY DEF RequestState, Idle

LEMMA JobGotoType ==
  ASSUME job \in [Jobs -> JobState], NEW j \in Jobs, NEW q \in JobState,
         JobGoto(j, q)
  PROVE  job' \in [Jobs -> JobState]
  BY DEF JobGoto

LEMMA GotoType ==
  ASSUME req \in [Requests -> RequestState], NEW r \in Requests,
         NEW q \in RequestState, Goto(r, q)
  PROVE  req' \in [Requests -> RequestState]
  BY DEF Goto

LEMMA FinishType ==
  ASSUME req \in [Requests -> RequestState], NEW r \in Requests, Finish(r)
  PROVE  req' \in [Requests -> RequestState]
  BY DEF Finish, Goto, RequestState

LEMMA PostType ==
  ASSUME TypeOK, NEW u \in Users, NEW n \in Int,
         NEW ref \in Invoices \cup {Usage, Gift}, Post(u, n, ref)
  PROVE  /\ balance' \in [Users -> Int]
         /\ ledger' \in [Users -> Seq(Row)]
<1>1. balance[u] + n \in Int
  BY DEF TypeOK
<1>2. [amount |-> n, after |-> balance[u] + n, ref |-> ref] \in Row
  BY <1>1 DEF Row
<1>3. QED BY <1>1, <1>2 DEF Post, TypeOK

LEMMA InitType == Init => TypeOK
  BY LedgerAssumption DEF Init, TypeOK, JobState, RequestState, Idle, Statuses

(***************************************************************************)
(* Type correctness: one step per action.                                  *)
(***************************************************************************)
LEMMA WorkType ==
  ASSUME TypeOK, NEW j \in Jobs, Work(j)
  PROVE  TypeOK'
<1> USE LedgerAssumption DEF billVars, countVars
<1>0. job[j] \in JobState /\ job \in [Jobs -> JobState]
  BY DEF TypeOK
<1>1. CASE TickStart(j)
  <2>1. [pc |-> "tick", todo |-> Users] \in JobState
    BY DEF JobState
  <2>2. QED BY <1>0, <1>1, <2>1, JobGotoType DEF TickStart, TypeOK
<1>2. CASE TickEnd(j)
  <2>1. Idle \in JobState /\ [pc |-> "swept"] \in JobState
    BY DEF JobState
  <2>2. QED BY <1>0, <1>2, <2>1, JobGotoType DEF TickEnd, TypeOK
<1>3. CASE SweepList(j)
  <2>1. [pc |-> "sweep", todo |-> {u \in Users : unbilled[u] > 0},
         drain |-> unbilled] \in JobState
    BY DEF JobState, TypeOK
  <2>2. QED BY <1>0, <1>3, <2>1, JobGotoType DEF SweepList, TypeOK
<1>4. CASE SweepEnd(j)
  <2>1. Idle \in JobState
    BY DEF JobState
  <2>2. QED BY <1>0, <1>4, <2>1, JobGotoType DEF SweepEnd, TypeOK
<1>5. ASSUME NEW u \in Users, TickUser(j, u)
      PROVE  TypeOK'
  <2>1. job[j].todo \in SUBSET Users
    BY <1>0, <1>5, JobShape DEF TickUser
  <2>2. [pc |-> "tick", todo |-> job[j].todo \ {u}] \in JobState
    BY <2>1 DEF JobState
  <2>3. unbilled' \in [Users -> Nat]
    <3>1. unbilled \in [Users -> Nat] /\ \A n \in Charges : n \in Nat
      BY DEF TypeOK
    <3>2. \/ \E n \in Charges : unbilled' = [unbilled EXCEPT ![u] = @ + n]
          \/ unbilled' = unbilled
      BY <1>5 DEF TickUser
    <3>3. QED BY <3>1, <3>2
  <2>5. ticks' \in 0 .. MaxTicks
    BY <1>5 DEF TickUser, TypeOK
  <2>4. QED BY <1>0, <1>5, <2>2, <2>3, <2>5, JobGotoType
            DEF TickUser, TypeOK
<1>6. ASSUME NEW u \in Users, SettleOneUser(j, u)
      PROVE  TypeOK'
  <2>1. /\ job[j] \in [pc: {"sweep"}, todo: SUBSET Users,
                       drain: [Users -> Nat]]
        /\ - job[j].drain[u] \in Int
    BY <1>0, <1>6, JobShape DEF SettleOneUser
  <2>2. [job[j] EXCEPT !.todo = @ \ {u}] \in JobState
    BY <2>1 DEF JobState
  <2>3. balance' \in [Users -> Int] /\ ledger' \in [Users -> Seq(Row)]
    BY <1>6, <2>1, PostType DEF SettleOneUser, TypeOK
  <2>4. unbilled' \in [Users -> Nat]
    <3>1. unbilled \in [Users -> Nat]
      BY DEF TypeOK
    <3>2. \/ unbilled' = [unbilled EXCEPT ![u] = 0]
          \/ unbilled' = unbilled
      BY <1>6 DEF SettleOneUser
    <3>3. QED BY <3>1, <3>2
  <2>5. QED BY <1>0, <1>6, <2>2, <2>3, <2>4, JobGotoType
            DEF SettleOneUser, TypeOK
<1>7. QED BY <1>1, <1>2, <1>3, <1>4, <1>5, <1>6 DEF Work

LEMMA ArriveType ==
  ASSUME TypeOK, NEW r \in Requests, Arrive(r)
  PROVE  TypeOK'
<1> USE LedgerAssumption DEF billVars, countVars
<1>0. req \in [Requests -> RequestState]
  BY DEF TypeOK
<1>1. CASE Reconcile(r)
  <2>1. [pc |-> "reconcile",
         todo |-> {i \in Invoices : invoice[i] = "paid" /\ ~HasCredit(i)}]
          \in RequestState
    BY DEF RequestState
  <2>2. QED BY <1>0, <1>1, <2>1, GotoType DEF Reconcile, TypeOK
<1>2. ASSUME NEW i \in Invoices, CreateInvoice(r, i)
      PROVE  TypeOK'
  <2>1. [pc |-> "insert", inv |-> i] \in RequestState
    BY DEF RequestState
  <2>2. QED BY <1>0, <1>2, <2>1, GotoType DEF CreateInvoice, TypeOK
<1>3. ASSUME NEW i \in Invoices, Webhook(r, i)
      PROVE  TypeOK'
  <2>1. [pc |-> "check", inv |-> i, status |-> invoice[i]] \in RequestState
    BY DEF RequestState, TypeOK
  <2>2. QED BY <1>0, <1>3, <2>1, GotoType DEF Webhook, TypeOK
<1>4. ASSUME NEW i \in Invoices, Sync(r, i)
      PROVE  TypeOK'
  <2>1. [pc |-> IF invoice[i] = "paid" THEN "check" ELSE "query",
         inv |-> i, status |-> invoice[i]] \in RequestState
    BY DEF RequestState, TypeOK
  <2>2. QED BY <1>0, <1>4, <2>1, GotoType DEF Sync, TypeOK
<1>5. QED BY <1>1, <1>2, <1>3, <1>4 DEF Arrive

LEMMA ProceedType ==
  ASSUME TypeOK, NEW r \in Requests, Proceed(r)
  PROVE  TypeOK'
<1> USE LedgerAssumption DEF billVars, countVars
<1>0. req \in [Requests -> RequestState] /\ req[r] \in RequestState
  BY DEF TypeOK
<1>1. CASE InsertInvoice(r)
  <2>1. req[r].inv \in Invoices
    BY <1>0, <1>1, RequestShape DEF InsertInvoice
  <2>2. QED BY <1>0, <1>1, <2>1, FinishType
            DEF InsertInvoice, TypeOK, Statuses
<1>2. CASE Query(r)
  <2>1. /\ req[r] \in [pc: {"check", "query"}, inv: Invoices,
                       status: Statuses]
        /\ req[r].inv \in Invoices
    BY <1>0, <1>2, RequestShape DEF Query
  <2>2. [req[r] EXCEPT !.pc = "check"] \in RequestState
    BY <2>1 DEF RequestState
  <2>3. \A s \in {"expired", "failed"} :
          [pc |-> "overwrite", inv |-> req[r].inv, status |-> s]
            \in RequestState
    BY <2>1 DEF RequestState
  <2>4. req' \in [Requests -> RequestState]
    BY <1>0, <1>2, <2>2, <2>3, GotoType, FinishType DEF Query
  <2>5. QED BY <1>2, <2>4 DEF Query, TypeOK
<1>3. CASE Overwrite(r)
  <2>1. req[r].inv \in Invoices /\ req[r].status \in Statuses
    BY <1>0, <1>3, RequestShape DEF Overwrite, Statuses
  <2>2. QED BY <1>0, <1>3, <2>1, FinishType DEF Overwrite, TypeOK
<1>4. CASE Check(r)
  <2>1. req[r].inv \in Invoices
    BY <1>0, <1>4, RequestShape DEF Check
  <2>2. \A p \in {"mark_paid", "process", "settle"} :
          [pc |-> p, inv |-> req[r].inv] \in RequestState
    BY <2>1 DEF RequestState
  <2>3. req' \in [Requests -> RequestState]
    BY <1>0, <1>4, <2>2, GotoType, FinishType DEF Check
  <2>4. QED BY <1>4, <2>3 DEF Check, TypeOK
<1>5. CASE MarkPaid(r)
  <2>1. req[r].inv \in Invoices
    BY <1>0, <1>5, RequestShape DEF MarkPaid
  <2>2. QED BY <1>0, <1>5, <2>1, FinishType DEF MarkPaid, TypeOK, Statuses
<1>6. CASE Process(r)
  <2>1. /\ req[r].inv \in Invoices /\ Payer[req[r].inv] \in Users
        /\ Amount[req[r].inv] \in Int
    BY <1>0, <1>6, RequestShape DEF Process
  <2>2. balance' \in [Users -> Int] /\ ledger' \in [Users -> Seq(Row)]
    BY <1>6, <2>1, PostType DEF Process, TypeOK
  <2>3. QED BY <1>0, <1>6, <2>2, FinishType DEF Process, TypeOK
<1>7. CASE Settle(r)
  <2>1. /\ req[r].inv \in Invoices /\ Payer[req[r].inv] \in Users
        /\ Amount[req[r].inv] \in Int
    BY <1>0, <1>7, RequestShape DEF Settle
  <2>2. balance' \in [Users -> Int] /\ ledger' \in [Users -> Seq(Row)]
    BY <1>7, <2>1, PostType DEF Settle, TypeOK
  <2>3. invoice' \in [Invoices -> Statuses]
    <3>1. \/ invoice' = invoice
          \/ invoice' = [invoice EXCEPT ![req[r].inv] = "paid"]
      BY <1>7 DEF Settle
    <3>2. invoice \in [Invoices -> Statuses] /\ "paid" \in Statuses
      BY DEF TypeOK, Statuses
    <3>3. QED BY <2>1, <3>1, <3>2
  <2>4. req' \in [Requests -> RequestState]
    BY <1>0, <1>7, FinishType DEF Settle
  <2>5. QED BY <1>7, <2>2, <2>3, <2>4 DEF Settle, TypeOK
<1>8. CASE ReconcileEnd(r)
  BY <1>0, <1>8, FinishType DEF ReconcileEnd, TypeOK
<1>9. ASSUME NEW i \in Invoices, ReconcileOne(r, i)
      PROVE  TypeOK'
  <2>1. Payer[i] \in Users /\ Amount[i] \in Int
    OBVIOUS
  <2>2. req[r] \in [pc: {"reconcile"}, todo: SUBSET Invoices]
    BY <1>0, <1>9, RequestShape DEF ReconcileOne
  <2>3. [req[r] EXCEPT !.todo = @ \ {i}] \in RequestState
    BY <2>2 DEF RequestState
  <2>4. req' \in [Requests -> RequestState]
    BY <1>0, <1>9, <2>3, GotoType, FinishType DEF ReconcileOne
  <2>5. balance' \in [Users -> Int] /\ ledger' \in [Users -> Seq(Row)]
    BY <1>9, <2>1, PostType DEF ReconcileOne, TypeOK
  <2>6. QED BY <1>9, <2>4, <2>5 DEF ReconcileOne, TypeOK
<1>10. QED BY <1>1, <1>2, <1>3, <1>4, <1>5, <1>6, <1>7, <1>8, <1>9
           DEF Proceed

LEMMA NextType ==
  ASSUME TypeOK, [Next]_vars
  PROVE  TypeOK'
<1>1. ASSUME NEW u \in Users, GiftCredits(u)
      PROVE  TypeOK'
  <2>1. PICK n \in Gifts : Post(u, n, Gift)
    BY <1>1 DEF GiftCredits
  <2>2. balance' \in [Users -> Int] /\ ledger' \in [Users -> Seq(Row)]
    BY <2>1, PostType, LedgerAssumption
  <2>3. gifts' \in 0 .. MaxGifts
    BY <1>1, LedgerAssumption DEF GiftCredits, TypeOK
  <2>4. QED BY <1>1, <2>2, <2>3 DEF GiftCredits, TypeOK
<1>2. ASSUME NEW i \in Invoices, RemoteChanges(i)
      PROVE  TypeOK'
  BY <1>2 DEF RemoteChanges, TypeOK, billVars, countVars
<1>3. CASE Crash
  BY <1>3, LedgerAssumption
  DEF Crash, TypeOK, billVars, JobState, RequestState
<1>4. CASE UNCHANGED vars
  BY <1>4 DEF vars, billVars, countVars, TypeOK
<1>5. QED BY <1>1, <1>2, <1>3, <1>4, WorkType, ArriveType, ProceedType
          DEF Next

(***************************************************************************)
(* Every variable stays of its type (invariant of the run                  *)
(* Ledger_invoices).                                                       *)
(***************************************************************************)
THEOREM TypeCorrect == Spec => []TypeOK
  BY InitType, NextType, PTL DEF Spec

(***************************************************************************)
(* What the handlers rely on between two of their steps: an invoice that   *)
(* exists stays, and one that is no longer pending never is again.         *)
(***************************************************************************)
Known(i) == invoice[i] # "none"

Decided(i) == invoice[i] \notin {"none", "pending"}

HandlerFits(q, inv) ==
  /\ q.pc \in {"check", "query", "overwrite", "mark_paid", "settle"} =>
       inv[q.inv] # "none"
  /\ q.pc \in {"check", "query"} =>
       /\ q.status # "none"
       /\ q.status # "pending" => inv[q.inv] \notin {"none", "pending"}
  /\ q.pc = "process" => inv[q.inv] \notin {"none", "pending"}
  /\ q.pc = "reconcile" =>
       \A i \in q.todo : inv[i] \notin {"none", "pending"}

HandlersOK == \A r \in Requests : HandlerFits(req[r], invoice)

\* The row of an invoice is inserted once, by the handler that created it.
InsertIsFirst ==
  \A r \in Requests : req[r].pc = "insert" =>
    /\ invoice[req[r].inv] = "none"
    /\ remote[req[r].inv] # "none"
    /\ \A q \in Requests \ {r} :
         req[q].pc = "insert" => req[q].inv # req[r].inv

RowHasRemote == \A i \in Invoices : Known(i) => remote[i] # "none"

CreditIsClosed == \A i \in Invoices : HasCredit(i) => Decided(i)

LedgerInv ==
  /\ TypeOK /\ HandlersOK /\ InsertIsFirst /\ RowHasRemote /\ CreditIsClosed

Forward ==
  \A i \in Invoices :
    /\ Known(i) => Known(i)'
    /\ Decided(i) => Decided(i)'
    /\ remote[i] # "none" => remote'[i] # "none"

LEMMA WorkKeeps ==
  ASSUME NEW j \in Jobs, Work(j)
  PROVE  UNCHANGED <<invoice, remote, req>>
  BY DEF Work, TickStart, TickUser, TickEnd, SweepList, SettleOneUser, SweepEnd

LEMMA ForwardStep ==
  ASSUME LedgerInv, [Next]_vars
  PROVE  Forward
<1> USE DEF Forward, Known, Decided
<1>0. /\ invoice \in [Invoices -> Statuses]
      /\ \A r \in Requests : req[r] \in RequestState
  BY DEF LedgerInv, TypeOK
<1>1. ASSUME NEW j \in Jobs, Work(j)
      PROVE  Forward
  BY <1>1, WorkKeeps
<1>2. ASSUME NEW u \in Users, GiftCredits(u)
      PROVE  Forward
  BY <1>2 DEF GiftCredits
<1>3. ASSUME NEW r \in Requests, Arrive(r)
      PROVE  Forward
  <2>1. ASSUME NEW i \in Invoices, CreateInvoice(r, i)
        PROVE  Forward
    BY <2>1 DEF CreateInvoice, LedgerInv, TypeOK
  <2>2. QED BY <1>3, <2>1 DEF Arrive, Reconcile, Webhook, Sync
<1>4. ASSUME NEW r \in Requests, Proceed(r)
      PROVE  Forward
  <2>0. req[r] \in RequestState
    BY <1>0
  <2>1. CASE InsertInvoice(r)
    <3>1. invoice[req[r].inv] = "none"
      BY <2>1 DEF InsertInvoice, LedgerInv, InsertIsFirst
    <3>2. QED BY <1>0, <2>1, <3>1 DEF InsertInvoice
  <2>2. CASE Overwrite(r)
    <3>1. req[r].status \in {"expired", "failed"}
      BY <2>0, <2>2, RequestShape DEF Overwrite
    <3>2. QED BY <1>0, <2>2, <3>1 DEF Overwrite
  <2>3. CASE MarkPaid(r)
    BY <1>0, <2>3 DEF MarkPaid
  <2>4. CASE Settle(r)
    BY <1>0, <2>4 DEF Settle
  <2>5. QED BY <1>4, <2>1, <2>2, <2>3, <2>4
            DEF Proceed, Query, Check, Process, ReconcileOne, ReconcileEnd
<1>5. ASSUME NEW i \in Invoices, RemoteChanges(i)
      PROVE  Forward
  BY <1>5 DEF RemoteChanges, LedgerInv, TypeOK
<1>6. CASE Crash
  BY <1>6 DEF Crash
<1>7. CASE UNCHANGED vars
  BY <1>7 DEF vars
<1>8. QED BY <1>1, <1>2, <1>3, <1>4, <1>5, <1>6, <1>7 DEF Next

LEMMA HandlerStays ==
  ASSUME Forward, NEW q \in RequestState, HandlerFits(q, invoice)
  PROVE  HandlerFits(q, invoice')
  BY RequestShape DEF HandlerFits, Forward, Known, Decided

LEMMA HandlerMoves ==
  ASSUME LedgerInv, Forward, NEW r \in Requests, NEW q, Goto(r, q),
         HandlerFits(q, invoice')
  PROVE  HandlersOK'
<1> SUFFICES ASSUME NEW p \in Requests
             PROVE  HandlerFits(req'[p], invoice')
  BY DEF HandlersOK
<1>1. req \in [Requests -> RequestState] /\ HandlerFits(req[p], invoice)
  BY DEF LedgerInv, TypeOK, HandlersOK
<1>2. CASE p = r
  BY <1>1, <1>2 DEF Goto
<1>3. CASE p # r
  <2>1. req'[p] = req[p] /\ req[p] \in RequestState
    BY <1>1, <1>3 DEF Goto
  <2>2. QED BY <1>1, <2>1, HandlerStays DEF HandlerFits
<1>4. QED BY <1>2, <1>3

LEMMA HandlersStep ==
  ASSUME LedgerInv, [Next]_vars
  PROVE  HandlersOK'
<1>0. /\ Forward
      /\ invoice \in [Invoices -> Statuses]
      /\ req \in [Requests -> RequestState]
      /\ HandlersOK
  BY ForwardStep DEF LedgerInv, TypeOK
<1> USE DEF Known, Decided
<1>1. CASE req' = req
  <2>1. ASSUME NEW p \in Requests
        PROVE  HandlerFits(req'[p], invoice')
    <3>1. HandlerFits(req[p], invoice) /\ req[p] \in RequestState
      BY <1>0 DEF HandlersOK
    <3>2. QED BY <1>0, <1>1, <3>1, HandlerStays DEF HandlerFits
  <2>2. QED BY <2>1 DEF HandlersOK
<1>2. ASSUME NEW r \in Requests, Finish(r)
      PROVE  HandlersOK'
  <2>1. HandlerFits(Idle, invoice')
    BY DEF HandlerFits, Idle
  <2>2. QED BY <1>0, <1>2, <2>1, HandlerMoves DEF Finish
<1>3. ASSUME NEW r \in Requests, Arrive(r)
      PROVE  HandlersOK'
  <2>1. CASE Reconcile(r)
    <3>1. HandlerFits([pc |-> "reconcile",
                     todo |-> {i \in Invoices : invoice[i] = "paid"
                                                  /\ ~HasCredit(i)}], invoice')
      BY <1>0, <2>1 DEF Reconcile, HandlerFits
    <3>2. QED BY <1>0, <2>1, HandlerMoves DEF Reconcile, HandlerFits
  <2>2. ASSUME NEW i \in Invoices, CreateInvoice(r, i)
        PROVE  HandlersOK'
    <3>1. HandlerFits([pc |-> "insert", inv |-> i], invoice')
      BY DEF HandlerFits
    <3>2. QED BY <1>0, <2>2, <3>1, HandlerMoves DEF CreateInvoice
  <2>3. ASSUME NEW i \in Invoices, Webhook(r, i) \/ Sync(r, i)
        PROVE  HandlersOK'
    <3>1. PICK p \in {"check", "query"} :
            Goto(r, [pc |-> p, inv |-> i, status |-> invoice[i]])
      BY <2>3 DEF Webhook, Sync
    <3>2. invoice' = invoice /\ invoice[i] # "none"
      BY <2>3 DEF Webhook, Sync
    <3>3. HandlerFits([pc |-> p, inv |-> i, status |-> invoice[i]], invoice')
      BY <3>2 DEF HandlerFits
    <3>4. QED BY <1>0, <3>1, <3>3, HandlerMoves
  <2>4. QED BY <1>3, <2>1, <2>2, <2>3 DEF Arrive
<1>4. ASSUME NEW r \in Requests, Proceed(r)
      PROVE  HandlersOK'
  <2>0. req[r] \in RequestState /\ HandlerFits(req[r], invoice)
    BY <1>0 DEF HandlersOK
  <2>1. CASE Query(r)
    <3>1. /\ req[r] \in [pc: {"check", "query"}, inv: Invoices,
                         status: Statuses]
          /\ req[r].inv \in Invoices
      BY <2>0, <2>1, RequestShape DEF Query
    <3>2. HandlerFits([req[r] EXCEPT !.pc = "check"], invoice')
      BY <2>0, <2>1, <3>1 DEF Query, HandlerFits
    <3>3. \A s \in {"expired", "failed"} :
            HandlerFits([pc |-> "overwrite", inv |-> req[r].inv,
                       status |-> s], invoice')
      BY <2>0, <2>1 DEF Query, HandlerFits
    <3>4. \/ Goto(r, [req[r] EXCEPT !.pc = "check"])
          \/ \E s \in {"expired", "failed"} :
               Goto(r, [pc |-> "overwrite", inv |-> req[r].inv,
                        status |-> s])
          \/ Finish(r)
      BY <2>1 DEF Query
    <3>5. QED BY <1>0, <1>2, <3>2, <3>3, <3>4, HandlerMoves
  <2>2. CASE Check(r)
    <3>1. \/ Finish(r)
          \/ \E p \in {"mark_paid", "settle"} :
               Goto(r, [pc |-> p, inv |-> req[r].inv])
          \/ /\ req[r].status = "paid"
             /\ Goto(r, [pc |-> "process", inv |-> req[r].inv])
      BY <2>2 DEF Check
    <3>2. invoice' = invoice
      BY <2>2 DEF Check
    <3>3. \A p \in {"mark_paid", "settle"} :
            HandlerFits([pc |-> p, inv |-> req[r].inv], invoice')
      BY <2>0, <2>2, <3>2 DEF Check, HandlerFits
    <3>4. req[r].status = "paid" =>
            HandlerFits([pc |-> "process", inv |-> req[r].inv], invoice')
      BY <2>0, <2>2, <3>2 DEF Check, HandlerFits
    <3>5. QED BY <1>0, <1>2, <3>1, <3>3, <3>4, HandlerMoves
  <2>3. ASSUME NEW i \in Invoices, ReconcileOne(r, i)
        PROVE  HandlersOK'
    <3>1. req[r] \in [pc: {"reconcile"}, todo: SUBSET Invoices]
      BY <2>0, <2>3, RequestShape DEF ReconcileOne
    <3>2. HandlerFits([req[r] EXCEPT !.todo = @ \ {i}], invoice')
      BY <2>0, <2>3, <3>1 DEF ReconcileOne, HandlerFits
    <3>3. \/ Goto(r, [req[r] EXCEPT !.todo = @ \ {i}])
          \/ Finish(r)
      BY <2>3 DEF ReconcileOne
    <3>4. QED BY <1>0, <1>2, <3>2, <3>3, HandlerMoves
  <2>4. QED BY <1>2, <1>4, <2>1, <2>2, <2>3
            DEF Proceed, InsertInvoice, Overwrite, MarkPaid, Process, Settle,
                ReconcileEnd
<1>5. CASE Crash
  BY <1>5 DEF Crash, HandlersOK, HandlerFits, Idle
<1>6. QED BY <1>1, <1>3, <1>4, <1>5, WorkKeeps
          DEF Next, GiftCredits, RemoteChanges, vars

LEMMA InsertStep ==
  ASSUME LedgerInv, [Next]_vars
  PROVE  InsertIsFirst'
<1>0. /\ invoice \in [Invoices -> Statuses]
      /\ remote \in [Invoices ->
                      {"none", "New", "Settled", "Expired", "Invalid"}]
      /\ req \in [Requests -> RequestState]
      /\ InsertIsFirst /\ HandlersOK
      /\ Forward
  BY ForwardStep DEF LedgerInv, TypeOK
<1> USE DEF InsertIsFirst, Known, Decided
<1>1. ASSUME UNCHANGED <<invoice, remote, req>>
      PROVE  InsertIsFirst'
  BY <1>0, <1>1
<1>2. ASSUME NEW r \in Requests, Arrive(r)
      PROVE  InsertIsFirst'
  <2>1. ASSUME NEW i \in Invoices, CreateInvoice(r, i)
        PROVE  InsertIsFirst'
    <3>1. invoice[i] = "none"
      BY <2>1 DEF CreateInvoice, LedgerInv, RowHasRemote
    <3>2. \A q \in Requests \ {r} :
            req'[q] = req[q] /\ (req[q].pc = "insert" => req[q].inv # i)
      BY <1>0, <2>1 DEF CreateInvoice, Goto
    <3>3. req'[r] = [pc |-> "insert", inv |-> i]
      BY <1>0, <2>1 DEF CreateInvoice, Goto
    <3>4. /\ invoice' = invoice
          /\ remote' = [remote EXCEPT ![i] = "New"]
      BY <2>1 DEF CreateInvoice
    <3>5. \A q \in Requests \ {r} :
            req[q].pc = "insert" =>
              /\ invoice[req[q].inv] = "none"
              /\ req[q].inv \in Invoices
              /\ remote'[req[q].inv] # "none"
      BY <1>0, <3>4, RequestShape DEF Forward
    <3>6. remote'[i] # "none"
      BY <1>0, <3>4
    <3>7. QED BY <1>0, <3>1, <3>2, <3>3, <3>4, <3>5, <3>6
  <2>2. ASSUME NEW s, s.pc # "insert", Goto(r, s),
               UNCHANGED <<invoice, remote>>
        PROVE  InsertIsFirst'
    BY <1>0, <2>2 DEF Goto
  <2>3. CASE Reconcile(r)
    BY <2>2, <2>3 DEF Reconcile
  <2>4. ASSUME NEW i \in Invoices, Webhook(r, i) \/ Sync(r, i)
        PROVE  InsertIsFirst'
    <3>1. PICK p \in {"check", "query"} :
            Goto(r, [pc |-> p, inv |-> i, status |-> invoice[i]])
      BY <2>4 DEF Webhook, Sync
    <3>2. QED BY <2>2, <2>4, <3>1 DEF Webhook, Sync
  <2>5. QED BY <1>2, <2>1, <2>3, <2>4 DEF Arrive
<1>3. ASSUME NEW r \in Requests, Proceed(r)
      PROVE  InsertIsFirst'
  <2>0. req[r] \in RequestState
    BY <1>0
  <2>1. /\ \A q \in Requests \ {r} : req'[q] = req[q]
        /\ req'[r].pc # "insert"
    <3>1. CASE Finish(r)
      BY <1>0, <3>1 DEF Finish, Goto, Idle
    <3>2. CASE Query(r)
      <4>1. req[r] \in [pc: {"check", "query"}, inv: Invoices,
                        status: Statuses]
        BY <2>0, <3>2, RequestShape DEF Query
      <4>2. \/ Goto(r, [req[r] EXCEPT !.pc = "check"])
            \/ \E s \in {"expired", "failed"} :
                 Goto(r, [pc |-> "overwrite", inv |-> req[r].inv,
                          status |-> s])
            \/ Finish(r)
        BY <3>2 DEF Query
      <4>3. QED BY <1>0, <3>1, <4>1, <4>2 DEF Goto
    <3>3. CASE Check(r)
      <4>1. \/ Finish(r)
            \/ \E p \in {"mark_paid", "settle", "process"} :
                 Goto(r, [pc |-> p, inv |-> req[r].inv])
        BY <3>3 DEF Check
      <4>2. QED BY <1>0, <3>1, <4>1 DEF Goto
    <3>4. ASSUME NEW i \in Invoices, ReconcileOne(r, i)
          PROVE  /\ \A q \in Requests \ {r} : req'[q] = req[q]
                 /\ req'[r].pc # "insert"
      <4>1. req[r] \in [pc: {"reconcile"}, todo: SUBSET Invoices]
        BY <2>0, <3>4, RequestShape DEF ReconcileOne
      <4>2. \/ Goto(r, [req[r] EXCEPT !.todo = @ \ {i}])
            \/ Finish(r)
        BY <3>4 DEF ReconcileOne
      <4>3. QED BY <1>0, <3>1, <4>1, <4>2 DEF Goto
    <3>5. QED BY <1>3, <3>1, <3>2, <3>3, <3>4
              DEF Proceed, InsertInvoice, Overwrite, MarkPaid, Process,
                  Settle, ReconcileEnd
  <2>2. remote' = remote
    BY <1>3 DEF Proceed, InsertInvoice, Query, Overwrite, Check, MarkPaid,
                Process, Settle, ReconcileOne, ReconcileEnd
  <2>3. ASSUME NEW q \in Requests, q # r, req[q].pc = "insert"
        PROVE  invoice'[req[q].inv] = "none"
    <3>0. /\ req[q].inv \in Invoices /\ invoice[req[q].inv] = "none"
          /\ req[r].pc = "insert" => req[q].inv # req[r].inv
          /\ HandlerFits(req[r], invoice)
          /\ req[r] \in RequestState
      BY <1>0, <2>3, RequestShape DEF HandlersOK
    <3>1. CASE InsertInvoice(r)
      BY <1>0, <3>0, <3>1 DEF InsertInvoice
    <3>2. CASE Overwrite(r)
      BY <1>0, <3>0, <3>2 DEF Overwrite, HandlerFits
    <3>3. CASE MarkPaid(r)
      BY <1>0, <3>0, <3>3 DEF MarkPaid, HandlerFits
    <3>4. CASE Settle(r)
      BY <1>0, <3>0, <3>4 DEF Settle, HandlerFits
    <3>5. QED BY <1>3, <3>0, <3>1, <3>2, <3>3, <3>4
              DEF Proceed, Query, Check, Process, ReconcileOne, ReconcileEnd
  <2>4. QED BY <1>0, <2>1, <2>2, <2>3
<1>4. ASSUME NEW i \in Invoices, RemoteChanges(i)
      PROVE  InsertIsFirst'
  <2>1. UNCHANGED <<invoice, req>>
    BY <1>4 DEF RemoteChanges
  <2>2. \A r \in Requests :
          req[r].pc = "insert" => remote'[req[r].inv] # "none"
    BY <1>0, RequestShape DEF Forward
  <2>3. QED BY <1>0, <2>1, <2>2
<1>5. CASE Crash
  BY <1>5 DEF Crash, Idle
<1>6. QED BY <1>1, <1>2, <1>3, <1>4, <1>5, WorkKeeps
          DEF Next, GiftCredits, vars

LEMMA RemoteStep ==
  ASSUME LedgerInv, [Next]_vars
  PROVE  RowHasRemote'
<1>0. /\ invoice \in [Invoices -> Statuses]
      /\ req \in [Requests -> RequestState]
      /\ RowHasRemote /\ InsertIsFirst /\ HandlersOK
      /\ Forward
  BY ForwardStep DEF LedgerInv, TypeOK
<1> SUFFICES ASSUME NEW i \in Invoices, Known(i)', ~Known(i)
             PROVE  remote'[i] # "none"
  BY <1>0 DEF RowHasRemote, Forward, Known
<1>1. PICK r \in Requests : Proceed(r)
  <2>1. invoice' # invoice
    BY DEF Known
  <2>2. QED BY <2>1, WorkKeeps
            DEF Next, GiftCredits, RemoteChanges, Crash, vars, Arrive,
                Reconcile, CreateInvoice, Webhook, Sync
<1>2. HandlerFits(req[r], invoice) /\ req[r] \in RequestState
  BY <1>0 DEF HandlersOK
<1>3. CASE InsertInvoice(r)
  <2>1. req[r].inv = i /\ remote' = remote
    BY <1>0, <1>3 DEF InsertInvoice, Known
  <2>2. QED BY <1>0, <1>3, <2>1 DEF InsertInvoice, InsertIsFirst
<1>4. CASE Overwrite(r)
  BY <1>0, <1>2, <1>4 DEF Overwrite, HandlerFits, Known
<1>5. CASE MarkPaid(r)
  BY <1>0, <1>2, <1>5 DEF MarkPaid, HandlerFits, Known
<1>6. CASE Settle(r)
  BY <1>0, <1>2, <1>6 DEF Settle, HandlerFits, Known
<1>7. QED BY <1>1, <1>3, <1>4, <1>5, <1>6
          DEF Proceed, Query, Check, Process, ReconcileOne, ReconcileEnd,
              Known

(***************************************************************************)
(* Money moves one row at a time, and a payment's row is the first of its  *)
(* invoice: the path of SettlePaymentInvoice that updates a balance        *)
(* without a row is never taken.                                           *)
(***************************************************************************)
FirstCredit(u, n, ref) ==
  ref \in Invoices =>
    /\ u = Payer[ref] /\ n = Amount[ref]
    /\ ~HasCredit(ref)
    /\ invoice'[ref] \notin {"none", "pending"}

OneEntry ==
  \/ UNCHANGED billVars
  \/ \E u \in Users, n \in Int, ref \in Invoices \cup {Usage, Gift} :
       Post(u, n, ref) /\ FirstCredit(u, n, ref)

LEMMA OneEntryStep ==
  ASSUME LedgerInv, [Next]_vars
  PROVE  OneEntry
<1>0. /\ TypeOK /\ HandlersOK /\ CreditIsClosed /\ Forward
      /\ invoice \in [Invoices -> Statuses]
      /\ Usage \notin Invoices /\ Gift \notin Invoices
  BY ForwardStep, LedgerAssumption DEF LedgerInv, TypeOK
<1> USE DEF OneEntry, FirstCredit
<1>1. ASSUME NEW j \in Jobs, Work(j)
      PROVE  OneEntry
  <2>1. ASSUME NEW u \in Users, SettleOneUser(j, u)
        PROVE  OneEntry
    <3>1. - job[j].drain[u] \in Int
      BY <1>0, <2>1, JobShape DEF TypeOK, SettleOneUser
    <3>2. QED BY <1>0, <2>1, <3>1 DEF SettleOneUser
  <2>2. QED BY <1>1, <2>1
            DEF Work, TickStart, TickUser, TickEnd, SweepList, SweepEnd
<1>2. ASSUME NEW u \in Users, GiftCredits(u)
      PROVE  OneEntry
  <2>1. PICK n \in Gifts : Post(u, n, Gift)
    BY <1>2 DEF GiftCredits
  <2>2. QED BY <1>0, <2>1, LedgerAssumption
<1>3. ASSUME NEW r \in Requests, Proceed(r)
      PROVE  OneEntry
  <2>0. HandlerFits(req[r], invoice) /\ req[r] \in RequestState
    BY <1>0 DEF HandlersOK, TypeOK
  <2>1. CASE Process(r)
    <3>1. /\ req[r].inv \in Invoices /\ Payer[req[r].inv] \in Users
          /\ Amount[req[r].inv] \in Int
      BY <2>0, <2>1, RequestShape, LedgerAssumption DEF Process
    <3>2. invoice'[req[r].inv] \notin {"none", "pending"}
      BY <2>0, <2>1 DEF Process, HandlerFits, Decided
    <3>3. QED BY <2>1, <3>1, <3>2 DEF Process
  <2>2. CASE Settle(r)
    <3>1. /\ req[r].inv \in Invoices /\ Payer[req[r].inv] \in Users
          /\ Amount[req[r].inv] \in Int
      BY <2>0, <2>2, RequestShape, LedgerAssumption DEF Settle
    <3>2. CASE invoice[req[r].inv] = "pending" /\ ~UNCHANGED billVars
      <4>1. ~HasCredit(req[r].inv)
        BY <1>0, <3>1, <3>2 DEF CreditIsClosed, Decided
      <4>2. /\ Post(Payer[req[r].inv], Amount[req[r].inv], req[r].inv)
            /\ invoice' = [invoice EXCEPT ![req[r].inv] = "paid"]
        BY <2>2, <3>2, <4>1 DEF Settle
      <4>3. invoice'[req[r].inv] \notin {"none", "pending"}
        BY <1>0, <3>1, <4>2 DEF Decided
      <4>4. QED BY <3>1, <4>1, <4>2, <4>3
    <3>3. CASE invoice[req[r].inv] # "pending"
      BY <2>2, <3>3 DEF Settle
    <3>4. QED BY <3>2, <3>3
  <2>3. ASSUME NEW i \in Invoices, ReconcileOne(r, i)
        PROVE  OneEntry
    <3>1. Payer[i] \in Users /\ Amount[i] \in Int
      BY LedgerAssumption
    <3>2. invoice'[i] \notin {"none", "pending"}
      BY <2>0, <2>3 DEF ReconcileOne, HandlerFits, Decided
    <3>3. QED BY <2>3, <3>1, <3>2 DEF ReconcileOne
  <2>4. QED BY <1>3, <2>1, <2>2, <2>3
            DEF Proceed, InsertInvoice, Query, Overwrite, Check, MarkPaid,
                ReconcileEnd
<1>4. ASSUME NEW r \in Requests, Arrive(r)
      PROVE  UNCHANGED billVars
  BY <1>4 DEF Arrive, Reconcile, CreateInvoice, Webhook, Sync
<1>5. QED BY <1>1, <1>2, <1>3, <1>4
          DEF Next, RemoteChanges, Crash, vars

LEMMA PostRows ==
  ASSUME TypeOK, NEW u \in Users, NEW n \in Int,
         NEW ref \in Invoices \cup {Usage, Gift}, Post(u, n, ref)
  PROVE  /\ \A v \in Users \ {u} :
              ledger'[v] = ledger[v] /\ balance'[v] = balance[v]
         /\ balance'[u] = balance[u] + n
         /\ DOMAIN ledger'[u] = 1 .. Len(ledger[u]) + 1
         /\ Len(ledger'[u]) = Len(ledger[u]) + 1
         /\ \A k \in 1 .. Len(ledger[u]) : ledger'[u][k] = ledger[u][k]
         /\ ledger'[u][Len(ledger[u]) + 1] =
              [amount |-> n, after |-> balance[u] + n, ref |-> ref]
<1>1. balance \in [Users -> Int] /\ ledger \in [Users -> Seq(Row)]
  BY DEF TypeOK
<1>2. balance[u] + n \in Int /\ ledger[u] \in Seq(Row)
  BY <1>1
<1>3. [amount |-> n, after |-> balance[u] + n, ref |-> ref] \in Row
  BY <1>2 DEF Row
<1>4. ledger'[u] = Append(ledger[u],
         [amount |-> n, after |-> balance[u] + n, ref |-> ref])
  BY <1>1 DEF Post
<1>5. QED BY <1>1, <1>2, <1>3, <1>4 DEF Post

LEMMA PostCredits ==
  ASSUME TypeOK, NEW u \in Users, NEW n \in Int,
         NEW ref \in Invoices \cup {Usage, Gift}, Post(u, n, ref),
         FirstCredit(u, n, ref)
  PROVE  \A i \in Invoices : HasCredit(i)' <=> HasCredit(i) \/ i = ref
<1>1. /\ \A v \in Users \ {u} : ledger'[v] = ledger[v]
      /\ DOMAIN ledger'[u] = 1 .. Len(ledger[u]) + 1
      /\ \A k \in 1 .. Len(ledger[u]) : ledger'[u][k] = ledger[u][k]
      /\ ledger'[u][Len(ledger[u]) + 1] =
           [amount |-> n, after |-> balance[u] + n, ref |-> ref]
  BY PostRows
<1>2. /\ ledger[u] \in Seq(Row)
      /\ \A i \in Invoices : Payer[i] \in Users
  BY LedgerAssumption DEF TypeOK
<1>3. Len(ledger[u]) \in Nat /\ DOMAIN ledger[u] = 1 .. Len(ledger[u])
  BY <1>2
<1> SUFFICES ASSUME NEW i \in Invoices
             PROVE  HasCredit(i)' <=> HasCredit(i) \/ i = ref
  OBVIOUS
<1>4. CASE Payer[i] # u
  <2>1. ledger'[Payer[i]] = ledger[Payer[i]]
    BY <1>1, <1>2, <1>4
  <2>2. i # ref
    BY <1>4 DEF FirstCredit
  <2>3. QED BY <2>1, <2>2 DEF HasCredit
<1>5. CASE Payer[i] = u
  BY <1>1, <1>3, <1>5 DEF HasCredit
<1>6. QED BY <1>4, <1>5

LEMMA CreditStep ==
  ASSUME LedgerInv, [Next]_vars
  PROVE  CreditIsClosed'
<1>0. TypeOK /\ CreditIsClosed /\ Forward /\ OneEntry
  BY ForwardStep, OneEntryStep DEF LedgerInv
<1>1. CASE UNCHANGED billVars
  BY <1>0, <1>1 DEF CreditIsClosed, HasCredit, Forward, billVars, Decided
<1>2. ASSUME NEW u \in Users, NEW n \in Int,
             NEW ref \in Invoices \cup {Usage, Gift},
             Post(u, n, ref), FirstCredit(u, n, ref)
      PROVE  CreditIsClosed'
  <2>1. \A i \in Invoices : HasCredit(i)' => HasCredit(i) \/ i = ref
    BY <1>0, <1>2, PostCredits
  <2>2. QED BY <1>0, <1>2, <2>1
            DEF CreditIsClosed, Forward, FirstCredit, Decided
<1>3. QED BY <1>0, <1>1, <1>2 DEF OneEntry

LEMMA InitInv == Init => LedgerInv
<1> SUFFICES ASSUME Init
             PROVE  LedgerInv
  OBVIOUS
<1>1. TypeOK
  BY InitType
<1>2. HandlersOK /\ InsertIsFirst
  BY DEF Init, Idle, HandlersOK, HandlerFits, InsertIsFirst
<1>3. RowHasRemote
  BY DEF Init, RowHasRemote, Known
<1>4. CreditIsClosed
  BY LedgerAssumption DEF Init, CreditIsClosed, HasCredit
<1>5. QED BY <1>1, <1>2, <1>3, <1>4 DEF LedgerInv

LEMMA NextInv ==
  ASSUME LedgerInv, [Next]_vars
  PROVE  LedgerInv'
<1>1. TypeOK'
  BY NextType DEF LedgerInv
<1>2. QED BY <1>1, HandlersStep, InsertStep, RemoteStep, CreditStep
          DEF LedgerInv

LEMMA LedgerInvariant == Spec => []LedgerInv
  BY InitInv, NextInv, PTL DEF Spec

LEMMA RunningBalanceStep ==
  ASSUME LedgerInv, RunningBalance, [Next]_vars
  PROVE  RunningBalance'
<1>0. TypeOK /\ OneEntry
  BY OneEntryStep DEF LedgerInv
<1>1. CASE UNCHANGED billVars
  BY <1>1 DEF RunningBalance, billVars
<1>2. ASSUME NEW u \in Users, NEW n \in Int,
             NEW ref \in Invoices \cup {Usage, Gift}, Post(u, n, ref)
      PROVE  RunningBalance'
  <2>1. /\ \A v \in Users \ {u} :
              ledger'[v] = ledger[v] /\ balance'[v] = balance[v]
        /\ balance'[u] = balance[u] + n
        /\ DOMAIN ledger'[u] = 1 .. Len(ledger[u]) + 1
        /\ Len(ledger'[u]) = Len(ledger[u]) + 1
        /\ \A k \in 1 .. Len(ledger[u]) : ledger'[u][k] = ledger[u][k]
        /\ ledger'[u][Len(ledger[u]) + 1] =
             [amount |-> n, after |-> balance[u] + n, ref |-> ref]
    BY <1>0, <1>2, PostRows
  <2>2. /\ ledger[u] \in Seq(Row) /\ balance[u] \in Int
    BY <1>0 DEF TypeOK
  <2>3. Len(ledger[u]) \in Nat /\ DOMAIN ledger[u] = 1 .. Len(ledger[u])
    BY <2>2
  <2> SUFFICES ASSUME NEW v \in Users
               PROVE  /\ \A k \in DOMAIN ledger'[v] :
                           ledger'[v][k].after =
                             (IF k = 1 THEN 0 ELSE ledger'[v][k - 1].after)
                               + ledger'[v][k].amount
                      /\ balance'[v] =
                           IF Len(ledger'[v]) + 1 = 1 THEN 0
                           ELSE ledger'[v][Len(ledger'[v]) + 1 - 1].after
    BY DEF RunningBalance
  <2>4. CASE v # u
    BY <2>1, <2>4 DEF RunningBalance
  <2>5. CASE v = u
    <3>1. /\ \A k \in 1 .. Len(ledger[u]) :
               ledger[u][k].after =
                 (IF k = 1 THEN 0 ELSE ledger[u][k - 1].after)
                   + ledger[u][k].amount
          /\ balance[u] = IF Len(ledger[u]) + 1 = 1 THEN 0
                          ELSE ledger[u][Len(ledger[u]) + 1 - 1].after
      BY <2>3 DEF RunningBalance
    <3>2. ASSUME NEW k \in 1 .. Len(ledger[u]) + 1
          PROVE  ledger'[u][k].after =
                   (IF k = 1 THEN 0 ELSE ledger'[u][k - 1].after)
                     + ledger'[u][k].amount
      <4>1. CASE k \in 1 .. Len(ledger[u])
        <5>1. ledger'[u][k] = ledger[u][k]
          BY <2>1, <4>1
        <5>2. k # 1 => ledger'[u][k - 1] = ledger[u][k - 1]
          <6>1. k # 1 => k - 1 \in 1 .. Len(ledger[u])
            BY <2>3, <4>1
          <6>2. QED BY <2>1, <6>1
        <5>3. QED BY <3>1, <4>1, <5>1, <5>2
      <4>2. CASE k = Len(ledger[u]) + 1
        BY <2>1, <2>2, <2>3, <3>1, <4>2
      <4>3. QED BY <2>3, <4>1, <4>2
    <3>3. balance'[u] = ledger'[u][Len(ledger[u]) + 1].after
      BY <2>1
    <3>4. /\ Len(ledger'[u]) + 1 # 1
          /\ Len(ledger'[u]) + 1 - 1 = Len(ledger[u]) + 1
      BY <2>1, <2>3
    <3>5. DOMAIN ledger'[u] = 1 .. Len(ledger[u]) + 1
      BY <2>1
    <3>6. QED BY <2>5, <3>2, <3>3, <3>4, <3>5
  <2>6. QED BY <2>4, <2>5
<1>3. QED BY <1>0, <1>1, <1>2 DEF OneEntry

(***************************************************************************)
(* Every row of credit_transactions starts from the balance the row before *)
(* it left, and the last one left the balance the user has: no path of     *)
(* SettlePaymentInvoice, ProcessPayment, GiftCredits or the sweep changes  *)
(* a balance without its row.                                              *)
(***************************************************************************)
THEOREM RunningBalanceHolds == Spec => []RunningBalance
<1>1. Init => RunningBalance
  BY DEF Init, RunningBalance
<1>2. QED BY <1>1, LedgerInvariant, RunningBalanceStep, PTL DEF Spec

LEMMA CreditedOnceStep ==
  ASSUME LedgerInv, CreditedOnce, [Next]_vars
  PROVE  CreditedOnce'
<1>0. TypeOK /\ OneEntry
  BY OneEntryStep DEF LedgerInv
<1>1. CASE UNCHANGED billVars
  BY <1>1 DEF CreditedOnce, billVars
<1>2. ASSUME NEW u \in Users, NEW n \in Int,
             NEW ref \in Invoices \cup {Usage, Gift},
             Post(u, n, ref), FirstCredit(u, n, ref)
      PROVE  CreditedOnce'
  <2>1. /\ \A v \in Users \ {u} : ledger'[v] = ledger[v]
        /\ DOMAIN ledger'[u] = 1 .. Len(ledger[u]) + 1
        /\ \A k \in 1 .. Len(ledger[u]) : ledger'[u][k] = ledger[u][k]
        /\ ledger'[u][Len(ledger[u]) + 1] =
             [amount |-> n, after |-> balance[u] + n, ref |-> ref]
    BY <1>0, <1>2, PostRows
  <2>2. /\ ledger[u] \in Seq(Row)
        /\ \A i \in Invoices : Payer[i] \in Users
    BY <1>0, LedgerAssumption DEF TypeOK
  <2>3. Len(ledger[u]) \in Nat /\ DOMAIN ledger[u] = 1 .. Len(ledger[u])
    BY <2>2
  <2> SUFFICES ASSUME NEW i \in Invoices,
                      NEW k \in DOMAIN ledger'[Payer[i]],
                      NEW l \in DOMAIN ledger'[Payer[i]],
                      ledger'[Payer[i]][k].ref = i,
                      ledger'[Payer[i]][l].ref = i
               PROVE  k = l /\ ledger'[Payer[i]][k].amount = Amount[i]
    BY DEF CreditedOnce
  <2>4. CASE Payer[i] # u
    <3>1. ledger'[Payer[i]] = ledger[Payer[i]]
      BY <2>1, <2>2, <2>4
    <3>2. QED BY <3>1 DEF CreditedOnce
  <2>5. CASE Payer[i] = u /\ i # ref
    <3>1. k \in 1 .. Len(ledger[u]) /\ l \in 1 .. Len(ledger[u])
      BY <2>1, <2>3, <2>5
    <3>2. ledger'[u][k] = ledger[u][k] /\ ledger'[u][l] = ledger[u][l]
      BY <2>1, <3>1
    <3>3. \A m, p \in 1 .. Len(ledger[u]) :
            ledger[u][m].ref = i /\ ledger[u][p].ref = i =>
              m = p /\ ledger[u][m].amount = Amount[i]
      <4>1. ledger[Payer[i]] = ledger[u]
        BY <2>5
      <4>2. \A m, p \in DOMAIN ledger[Payer[i]] :
              ledger[Payer[i]][m].ref = i /\ ledger[Payer[i]][p].ref = i =>
                m = p /\ ledger[Payer[i]][m].amount = Amount[i]
        BY ZenonT(20) DEF CreditedOnce
      <4>3. QED BY <2>3, <4>1, <4>2
    <3>4. ledger[u][k].ref = i /\ ledger[u][l].ref = i
      <4>1. ledger'[u][k].ref = i /\ ledger'[u][l].ref = i
        BY <2>5
      <4>2. QED BY <3>2, <4>1
    <3>5. k = l /\ ledger[u][k].amount = Amount[i]
      BY <3>1, <3>3, <3>4
    <3>6. QED BY <2>5, <3>2, <3>5
  <2>6. CASE Payer[i] = u /\ i = ref
    <3>1. \A m \in 1 .. Len(ledger[u]) : ledger[u][m].ref # i
      BY <1>2, <2>3, <2>6 DEF FirstCredit, HasCredit
    <3>2. n = Amount[i]
      BY <1>2, <2>6 DEF FirstCredit
    <3>3. /\ k \in 1 .. Len(ledger[u]) + 1 /\ l \in 1 .. Len(ledger[u]) + 1
          /\ ledger'[u][k].ref = i /\ ledger'[u][l].ref = i
      BY <2>1, <2>6
    <3>4. k = Len(ledger[u]) + 1 /\ l = Len(ledger[u]) + 1
      BY <2>1, <2>3, <3>1, <3>3
    <3>5. QED BY <2>1, <2>6, <3>2, <3>4
  <2>7. QED BY <2>4, <2>5, <2>6
<1>3. QED BY <1>0, <1>1, <1>2 DEF OneEntry

(***************************************************************************)
(* An invoice is credited at most once, and with its amount, whatever      *)
(* webhooks, syncs and reconciliations overlap.                            *)
(***************************************************************************)
THEOREM CreditedOnceHolds == Spec => []CreditedOnce
<1>1. Init => CreditedOnce
  BY LedgerAssumption DEF Init, CreditedOnce
<1>2. QED BY <1>1, LedgerInvariant, CreditedOnceStep, PTL DEF Spec

(***************************************************************************)
(* When an expired invoice stays expired at BTCPay, 'paid' is final: the   *)
(* only writer of another status, Overwrite, has seen 'Expired' or         *)
(* 'Invalid' there, and what it has seen is still so.                      *)
(***************************************************************************)
Final == {"Settled", "Expired", "Invalid"}

HandlerTruth(q, inv, rem) ==
  /\ q.pc \in {"check", "process", "settle", "mark_paid"} =>
       rem[q.inv] = "Settled"
  /\ q.pc = "check" /\ q.status = "paid" => inv[q.inv] = "paid"
  /\ q.pc = "process" => inv[q.inv] = "paid"
  /\ q.pc = "query" => q.status # "paid"
  /\ q.pc = "overwrite" => rem[q.inv] \in {"Expired", "Invalid"}
  /\ q.pc = "reconcile" => \A i \in q.todo : inv[i] = "paid"

HandlersTruth == \A r \in Requests : HandlerTruth(req[r], invoice, remote)

PaidIsSettled == \A i \in Invoices : invoice[i] = "paid" => remote[i] = "Settled"

PaidInv == LedgerInv /\ HandlersTruth /\ PaidIsSettled /\ CreditedIsPaid

Settling ==
  \A i \in Invoices :
    /\ invoice[i] = "paid" => invoice'[i] = "paid"
    /\ remote[i] \in Final => remote'[i] = remote[i]

LEMMA SettlingStep ==
  ASSUME ~LatePayment, PaidInv, [Next]_vars
  PROVE  Settling
<1> USE DEF Settling
<1>0. /\ invoice \in [Invoices -> Statuses]
      /\ remote \in [Invoices ->
                      {"none", "New", "Settled", "Expired", "Invalid"}]
      /\ \A r \in Requests : req[r] \in RequestState
  BY DEF PaidInv, LedgerInv, TypeOK
<1>1. ASSUME NEW r \in Requests, Proceed(r)
      PROVE  Settling
  <2>0. req[r] \in RequestState /\ HandlerTruth(req[r], invoice, remote)
    BY <1>0 DEF PaidInv, HandlersTruth
  <2>1. CASE InsertInvoice(r)
    <3>1. invoice[req[r].inv] = "none"
      BY <2>1 DEF InsertInvoice, PaidInv, LedgerInv, InsertIsFirst
    <3>2. QED BY <1>0, <2>1, <3>1 DEF InsertInvoice
  <2>2. CASE Overwrite(r)
    <3>1. req[r].inv \in Invoices
      BY <2>0, <2>2, RequestShape DEF Overwrite
    <3>2. invoice[req[r].inv] # "paid"
      BY <2>0, <2>2, <3>1 DEF Overwrite, HandlerTruth, PaidInv, PaidIsSettled
    <3>3. QED BY <1>0, <2>2, <3>2 DEF Overwrite
  <2>3. CASE MarkPaid(r)
    BY <1>0, <2>3 DEF MarkPaid
  <2>4. CASE Settle(r)
    BY <1>0, <2>4 DEF Settle
  <2>5. QED BY <1>1, <2>1, <2>2, <2>3, <2>4
            DEF Proceed, Query, Check, Process, ReconcileOne, ReconcileEnd
<1>2. ASSUME NEW r \in Requests, Arrive(r)
      PROVE  Settling
  <2>1. ASSUME NEW i \in Invoices, CreateInvoice(r, i)
        PROVE  Settling
    BY <1>0, <2>1 DEF CreateInvoice, Final
  <2>2. QED BY <1>2, <2>1 DEF Arrive, Reconcile, Webhook, Sync
<1>3. ASSUME NEW i \in Invoices, RemoteChanges(i)
      PROVE  Settling
  BY <1>0, <1>3 DEF RemoteChanges, Final
<1>4. QED BY <1>1, <1>2, <1>3, WorkKeeps DEF Next, GiftCredits, Crash, vars

LEMMA TruthStays ==
  ASSUME Settling, NEW q \in RequestState, HandlerTruth(q, invoice, remote)
  PROVE  HandlerTruth(q, invoice', remote')
  BY RequestShape DEF HandlerTruth, Settling, Final

LEMMA TruthMoves ==
  ASSUME PaidInv, Settling, NEW r \in Requests, NEW q, Goto(r, q),
         HandlerTruth(q, invoice', remote')
  PROVE  HandlersTruth'
<1> SUFFICES ASSUME NEW p \in Requests
             PROVE  HandlerTruth(req'[p], invoice', remote')
  BY DEF HandlersTruth
<1>1. /\ req \in [Requests -> RequestState]
      /\ HandlerTruth(req[p], invoice, remote)
  BY DEF PaidInv, LedgerInv, TypeOK, HandlersTruth
<1>2. CASE p = r
  BY <1>1, <1>2 DEF Goto
<1>3. CASE p # r
  <2>1. req'[p] = req[p] /\ req[p] \in RequestState
    BY <1>1, <1>3 DEF Goto
  <2>2. QED BY <1>1, <2>1, TruthStays
<1>4. QED BY <1>2, <1>3

LEMMA TruthStep ==
  ASSUME ~LatePayment, PaidInv, [Next]_vars
  PROVE  HandlersTruth'
<1>0. /\ Settling
      /\ req \in [Requests -> RequestState]
      /\ invoice \in [Invoices -> Statuses]
      /\ HandlersTruth /\ PaidIsSettled
  BY SettlingStep DEF PaidInv, LedgerInv, TypeOK
<1>1. CASE req' = req
  <2>1. ASSUME NEW p \in Requests
        PROVE  HandlerTruth(req'[p], invoice', remote')
    <3>1. /\ HandlerTruth(req[p], invoice, remote)
          /\ req[p] \in RequestState
      BY <1>0 DEF HandlersTruth
    <3>2. QED BY <1>0, <1>1, <3>1, TruthStays
  <2>2. QED BY <2>1 DEF HandlersTruth
<1>2. ASSUME NEW r \in Requests, Finish(r)
      PROVE  HandlersTruth'
  <2>1. HandlerTruth(Idle, invoice', remote')
    BY DEF HandlerTruth, Idle
  <2>2. QED BY <1>0, <1>2, <2>1, TruthMoves DEF Finish
<1>3. ASSUME NEW r \in Requests, Arrive(r)
      PROVE  HandlersTruth'
  <2>1. CASE Reconcile(r)
    <3>1. HandlerTruth([pc |-> "reconcile",
                        todo |-> {i \in Invoices : invoice[i] = "paid"
                                                     /\ ~HasCredit(i)}],
                       invoice', remote')
      BY <2>1 DEF Reconcile, HandlerTruth
    <3>2. QED BY <1>0, <2>1, <3>1, TruthMoves DEF Reconcile
  <2>2. ASSUME NEW i \in Invoices, CreateInvoice(r, i)
        PROVE  HandlersTruth'
    <3>1. HandlerTruth([pc |-> "insert", inv |-> i], invoice', remote')
      BY DEF HandlerTruth
    <3>2. QED BY <1>0, <2>2, <3>1, TruthMoves DEF CreateInvoice
  <2>3. ASSUME NEW i \in Invoices, Webhook(r, i)
        PROVE  HandlersTruth'
    <3>1. HandlerTruth([pc |-> "check", inv |-> i, status |-> invoice[i]],
                       invoice', remote')
      BY <2>3 DEF Webhook, HandlerTruth
    <3>2. QED BY <1>0, <2>3, <3>1, TruthMoves DEF Webhook
  <2>4. ASSUME NEW i \in Invoices, Sync(r, i)
        PROVE  HandlersTruth'
    <3>1. HandlerTruth([pc |-> IF invoice[i] = "paid" THEN "check"
                               ELSE "query",
                        inv |-> i, status |-> invoice[i]],
                       invoice', remote')
      BY <1>0, <2>4 DEF Sync, HandlerTruth, PaidIsSettled
    <3>2. QED BY <1>0, <2>4, <3>1, TruthMoves DEF Sync
  <2>5. QED BY <1>3, <2>1, <2>2, <2>3, <2>4 DEF Arrive
<1>4. ASSUME NEW r \in Requests, Proceed(r)
      PROVE  HandlersTruth'
  <2>0. req[r] \in RequestState /\ HandlerTruth(req[r], invoice, remote)
    BY <1>0 DEF HandlersTruth
  <2>1. CASE Query(r)
    <3>1. req[r] \in [pc: {"check", "query"}, inv: Invoices,
                      status: Statuses]
      BY <2>0, <2>1, RequestShape DEF Query
    <3>2. UNCHANGED <<invoice, remote>> /\ req[r].status # "paid"
      BY <2>0, <2>1 DEF Query, HandlerTruth
    <3>3. \/ /\ remote[req[r].inv] = "Settled"
             /\ Goto(r, [req[r] EXCEPT !.pc = "check"])
          \/ /\ remote[req[r].inv] \in {"Expired", "Invalid"}
             /\ \E s \in {"expired", "failed"} :
                  Goto(r, [pc |-> "overwrite", inv |-> req[r].inv,
                           status |-> s])
          \/ Finish(r)
      BY <2>1 DEF Query
    <3>4. remote[req[r].inv] = "Settled" =>
            HandlerTruth([req[r] EXCEPT !.pc = "check"], invoice', remote')
      BY <3>1, <3>2 DEF HandlerTruth
    <3>5. remote[req[r].inv] \in {"Expired", "Invalid"} =>
            \A s \in {"expired", "failed"} :
              HandlerTruth([pc |-> "overwrite", inv |-> req[r].inv,
                            status |-> s], invoice', remote')
      BY <3>2 DEF HandlerTruth
    <3>6. QED BY <1>0, <1>2, <3>3, <3>4, <3>5, TruthMoves
  <2>2. CASE Check(r)
    <3>1. \/ Finish(r)
          \/ \E p \in {"mark_paid", "settle"} :
               Goto(r, [pc |-> p, inv |-> req[r].inv])
          \/ /\ req[r].status = "paid"
             /\ Goto(r, [pc |-> "process", inv |-> req[r].inv])
      BY <2>2 DEF Check
    <3>2. /\ UNCHANGED <<invoice, remote>>
          /\ remote[req[r].inv] = "Settled"
          /\ req[r].status = "paid" => invoice[req[r].inv] = "paid"
      BY <2>0, <2>2 DEF Check, HandlerTruth
    <3>3. \A p \in {"mark_paid", "settle"} :
            HandlerTruth([pc |-> p, inv |-> req[r].inv], invoice', remote')
      BY <3>2 DEF HandlerTruth
    <3>4. req[r].status = "paid" =>
            HandlerTruth([pc |-> "process", inv |-> req[r].inv],
                         invoice', remote')
      BY <3>2 DEF HandlerTruth
    <3>5. QED BY <1>0, <1>2, <3>1, <3>3, <3>4, TruthMoves
  <2>3. ASSUME NEW i \in Invoices, ReconcileOne(r, i)
        PROVE  HandlersTruth'
    <3>1. req[r] \in [pc: {"reconcile"}, todo: SUBSET Invoices]
      BY <2>0, <2>3, RequestShape DEF ReconcileOne
    <3>2. HandlerTruth([req[r] EXCEPT !.todo = @ \ {i}], invoice', remote')
      BY <2>0, <2>3, <3>1 DEF ReconcileOne, HandlerTruth
    <3>3. \/ Goto(r, [req[r] EXCEPT !.todo = @ \ {i}])
          \/ Finish(r)
      BY <2>3 DEF ReconcileOne
    <3>4. QED BY <1>0, <1>2, <3>2, <3>3, TruthMoves
  <2>4. QED BY <1>2, <1>4, <2>1, <2>2, <2>3
            DEF Proceed, InsertInvoice, Overwrite, MarkPaid, Process, Settle,
                ReconcileEnd
<1>5. CASE Crash
  BY <1>5 DEF Crash, HandlersTruth, HandlerTruth, Idle
<1>6. QED BY <1>1, <1>3, <1>4, <1>5, WorkKeeps
          DEF Next, GiftCredits, RemoteChanges, vars

LEMMA PaidStep ==
  ASSUME ~LatePayment, PaidInv, [Next]_vars
  PROVE  PaidIsSettled'
<1>0. /\ Settling /\ HandlersTruth /\ PaidIsSettled
      /\ invoice \in [Invoices -> Statuses]
      /\ \A r \in Requests : req[r] \in RequestState
  BY SettlingStep DEF PaidInv, LedgerInv, TypeOK
<1> SUFFICES ASSUME NEW i \in Invoices, invoice'[i] = "paid",
                    invoice[i] # "paid"
             PROVE  remote'[i] = "Settled"
  BY <1>0 DEF PaidIsSettled, Settling, Final
<1>1. PICK r \in Requests : Proceed(r)
  <2>1. invoice' # invoice
    OBVIOUS
  <2>2. QED BY <2>1, WorkKeeps
            DEF Next, GiftCredits, RemoteChanges, Crash, vars, Arrive,
                Reconcile, CreateInvoice, Webhook, Sync
<1>2. HandlerTruth(req[r], invoice, remote) /\ req[r] \in RequestState
  BY <1>0 DEF HandlersTruth
<1>3. CASE InsertInvoice(r)
  BY <1>0, <1>3 DEF InsertInvoice
<1>4. CASE Overwrite(r)
  <2>1. req[r].status # "paid"
    BY <1>2, <1>4, RequestShape DEF Overwrite
  <2>2. QED BY <1>0, <1>4, <2>1 DEF Overwrite
<1>5. CASE MarkPaid(r)
  BY <1>0, <1>2, <1>5 DEF MarkPaid, HandlerTruth
<1>6. CASE Settle(r)
  BY <1>0, <1>2, <1>6 DEF Settle, HandlerTruth
<1>7. QED BY <1>1, <1>3, <1>4, <1>5, <1>6
          DEF Proceed, Query, Check, Process, ReconcileOne, ReconcileEnd

LEMMA CreditedIsPaidStep ==
  ASSUME ~LatePayment, PaidInv, [Next]_vars
  PROVE  CreditedIsPaid'
<1>0. /\ Settling /\ HandlersTruth /\ CreditedIsPaid /\ OneEntry /\ TypeOK
      /\ invoice \in [Invoices -> Statuses]
      /\ \A r \in Requests : req[r] \in RequestState
      /\ Usage \notin Invoices /\ Gift \notin Invoices
  BY SettlingStep, OneEntryStep, LedgerAssumption
  DEF PaidInv, LedgerInv, TypeOK
<1>1. CASE UNCHANGED billVars
  BY <1>0, <1>1 DEF CreditedIsPaid, HasCredit, Settling, billVars
<1>2. ASSUME NEW u \in Users, NEW n \in Int,
             NEW ref \in Invoices \cup {Usage, Gift},
             Post(u, n, ref), FirstCredit(u, n, ref)
      PROVE  CreditedIsPaid'
  <2> SUFFICES ASSUME NEW i \in Invoices, HasCredit(i)'
               PROVE  invoice'[i] = "paid"
    BY DEF CreditedIsPaid
  <2>1. HasCredit(i) \/ i = ref
    BY <1>0, <1>2, PostCredits
  <2>2. CASE HasCredit(i)
    BY <1>0, <2>2 DEF CreditedIsPaid, Settling
  <2>3. CASE i = ref /\ ~HasCredit(i)
    <3>1. ledger' # ledger
      BY <2>3 DEF HasCredit
    <3>2. HasCredit(i)' <=> \E k \in DOMAIN ledger'[Payer[i]] :
                              ledger'[Payer[i]][k].ref = i
      BY DEF HasCredit
    <3>3. ASSUME NEW v \in Users, NEW m \in Int,
                 NEW src \in {Usage, Gift}, Post(v, m, src)
          PROVE  FALSE
      <4>1. FirstCredit(v, m, src)
        BY <1>0 DEF FirstCredit
      <4>2. HasCredit(i)' <=> HasCredit(i) \/ i = src
        BY <1>0, <3>3, <4>1, PostCredits
      <4>3. QED BY <1>0, <2>3, <4>2
    <3>4. ASSUME NEW j \in Invoices, Post(Payer[j], Amount[j], j),
                 ~HasCredit(j), invoice'[j] = "paid"
          PROVE  invoice'[i] = "paid"
      <4>1. Payer[j] \in Users /\ Amount[j] \in Int
        BY LedgerAssumption
      <4>2. FirstCredit(Payer[j], Amount[j], j)
        BY <3>4 DEF FirstCredit
      <4>3. HasCredit(i)' <=> HasCredit(i) \/ i = j
        BY <1>0, <3>4, <4>1, <4>2, PostCredits
      <4>4. QED BY <2>3, <3>4, <4>3
    <3>5. ASSUME NEW j \in Jobs, Work(j)
          PROVE  FALSE
      <4>1. PICK v \in Users : SettleOneUser(j, v)
        BY <3>1, <3>5 DEF Work, TickStart, TickUser, TickEnd, SweepList,
                          SweepEnd, billVars
      <4>2. - job[j].drain[v] \in Int
        BY <1>0, <4>1, JobShape DEF TypeOK, SettleOneUser
      <4>3. Post(v, - job[j].drain[v], Usage)
        BY <3>1, <4>1 DEF SettleOneUser, billVars
      <4>4. QED BY <3>3, <4>2, <4>3
    <3>6. ASSUME NEW v \in Users, GiftCredits(v)
          PROVE  FALSE
      <4>1. PICK m \in Gifts : Post(v, m, Gift)
        BY <3>6 DEF GiftCredits
      <4>2. m \in Int
        BY LedgerAssumption
      <4>3. QED BY <3>3, <4>1, <4>2
    <3>7. PICK r \in Requests :
            Process(r) \/ Settle(r) \/ \E j \in Invoices : ReconcileOne(r, j)
      BY <3>1, <3>5, <3>6
      DEF Next, RemoteChanges, Crash, vars, billVars, Arrive, Reconcile,
          CreateInvoice, Webhook, Sync, Proceed, InsertInvoice, Query,
          Overwrite, Check, MarkPaid, ReconcileEnd
    <3>8. HandlerTruth(req[r], invoice, remote) /\ req[r] \in RequestState
      BY <1>0 DEF HandlersTruth
    <3>9. CASE Process(r)
      <4>1. /\ req[r].inv \in Invoices
            /\ invoice'[req[r].inv] = "paid"
        BY <3>8, <3>9, RequestShape DEF Process, HandlerTruth
      <4>2. QED BY <3>1, <3>4, <3>9, <4>1 DEF Process, billVars
    <3>10. CASE Settle(r)
      <4>1. /\ req[r].inv \in Invoices
            /\ invoice'[req[r].inv] = "paid"
        BY <1>0, <3>1, <3>8, <3>10, RequestShape DEF Settle, billVars
      <4>2. QED BY <3>1, <3>4, <3>10, <4>1 DEF Settle, billVars
    <3>11. ASSUME NEW j \in Invoices, ReconcileOne(r, j)
           PROVE  invoice'[i] = "paid"
      <4>1. invoice'[j] = "paid"
        BY <3>8, <3>11 DEF ReconcileOne, HandlerTruth
      <4>2. QED BY <3>1, <3>4, <3>11, <4>1 DEF ReconcileOne, billVars
    <3>12. QED BY <3>7, <3>9, <3>10, <3>11
  <2>4. QED BY <2>1, <2>2, <2>3
<1>3. QED BY <1>0, <1>1, <1>2 DEF OneEntry

(***************************************************************************)
(* A credited invoice is 'paid', and stays so, when BTCPay never settles   *)
(* an invoice it has declared expired: a sync that asked BTCPay before a   *)
(* settlement does not take the status back.                               *)
(***************************************************************************)
THEOREM CreditedIsPaidHolds ==
  ASSUME ~LatePayment
  PROVE  Spec => []CreditedIsPaid
<1>1. Init => HandlersTruth /\ PaidIsSettled /\ CreditedIsPaid
  BY LedgerAssumption
  DEF Init, Idle, HandlersTruth, HandlerTruth, PaidIsSettled, CreditedIsPaid,
      HasCredit
<1>2. PaidInv /\ [Next]_vars => PaidInv'
  BY NextInv, TruthStep, PaidStep, CreditedIsPaidStep DEF PaidInv
<1>3. Init => PaidInv
  BY <1>1, InitInv DEF PaidInv
<1>4. PaidInv => CreditedIsPaid
  BY DEF PaidInv
<1>5. QED BY <1>2, <1>3, <1>4, PTL DEF Spec

(***************************************************************************)
(* Refinement.  What a sweep read is still the truth when it settles the   *)
(* user, as long as no other job meters or sweeps.                         *)
(***************************************************************************)
SweepIsFresh ==
  \A j \in Jobs : job[j].pc = "sweep" =>
    \A u \in job[j].todo : job[j].drain[u] = unbilled[u]

LEMMA SweepIsFreshStep ==
  ASSUME NEW s, Jobs = {s}, LedgerInv, SweepIsFresh, [Next]_vars
  PROVE  SweepIsFresh'
<1>0. /\ job \in [Jobs -> JobState] /\ job[s] \in JobState
      /\ unbilled \in [Users -> Nat]
  BY DEF LedgerInv, TypeOK
<1> USE DEF SweepIsFresh
<1>1. ASSUME UNCHANGED <<job, unbilled>>
      PROVE  SweepIsFresh'
  BY <1>1
<1>2. CASE Work(s)
  <2>1. CASE SweepList(s)
    BY <1>0, <2>1 DEF SweepList, JobGoto
  <2>2. CASE TickStart(s) \/ TickEnd(s) \/ SweepEnd(s)
    BY <1>0, <2>2 DEF TickStart, TickEnd, SweepEnd, JobGoto, Idle
  <2>3. ASSUME NEW u \in Users, TickUser(s, u)
        PROVE  SweepIsFresh'
    BY <1>0, <2>3 DEF TickUser, JobGoto
  <2>4. ASSUME NEW u \in Users, SettleOneUser(s, u)
        PROVE  SweepIsFresh'
    <3>1. /\ job[s] \in [pc: {"sweep"}, todo: SUBSET Users,
                         drain: [Users -> Nat]]
          /\ job[s].todo \in SUBSET Users
      BY <1>0, <2>4, JobShape DEF SettleOneUser
    <3>2. /\ job'[s].todo = job[s].todo \ {u}
          /\ job'[s].drain = job[s].drain
      BY <1>0, <2>4, <3>1 DEF SettleOneUser, JobGoto
    <3>3. \A v \in Users \ {u} : unbilled'[v] = unbilled[v]
      BY <1>0, <2>4 DEF SettleOneUser
    <3>4. \A v \in job[s].todo : job[s].drain[v] = unbilled[v]
      BY <2>4 DEF SettleOneUser
    <3>5. QED BY <3>1, <3>2, <3>3, <3>4
  <2>5. QED BY <1>2, <2>1, <2>2, <2>3, <2>4 DEF Work
<1>3. CASE Crash
  BY <1>3 DEF Crash, Idle
<1>4. QED BY <1>1, <1>2, <1>3
          DEF Next, GiftCredits, RemoteChanges, vars, Arrive, Reconcile,
              CreateInvoice, Webhook, Sync, Proceed, InsertInvoice, Query,
              Overwrite, Check, MarkPaid, Process, Settle, ReconcileOne,
              ReconcileEnd

LEMMA CreditedSame ==
  ASSUME UNCHANGED ledger
  PROVE  {i \in Invoices : HasCredit(i)}' = {i \in Invoices : HasCredit(i)}
  BY DEF HasCredit

LEMMA RefinementStep ==
  ASSUME NEW s, Jobs = {s}, LedgerInv, SweepIsFresh, [Next]_vars
  PROVE  [A!Next]_A!vars
<1>0. /\ TypeOK /\ HandlersOK /\ CreditIsClosed
      /\ balance \in [Users -> Int] /\ unbilled \in [Users -> Nat]
      /\ job[s] \in JobState
      /\ Usage \notin Invoices /\ Gift \notin Invoices
  BY LedgerAssumption DEF LedgerInv, TypeOK
<1>1. ASSUME UNCHANGED <<balance, ledger, unbilled>>
      PROVE  UNCHANGED A!vars
  BY <1>1, CreditedSame DEF A!vars
<1>2. ASSUME NEW u \in Users, NEW n \in Int, NEW ref \in {Usage, Gift},
             Post(u, n, ref)
      PROVE  {i \in Invoices : HasCredit(i)}' =
               {i \in Invoices : HasCredit(i)}
  <2>1. FirstCredit(u, n, ref)
    BY <1>0 DEF FirstCredit
  <2>2. \A i \in Invoices : HasCredit(i)' <=> HasCredit(i)
    BY <1>0, <1>2, <2>1, PostCredits
  <2>3. QED BY <2>2
<1>3. ASSUME NEW i \in Invoices, Post(Payer[i], Amount[i], i),
             ~HasCredit(i), invoice'[i] \notin {"none", "pending"},
             unbilled' = unbilled
      PROVE  A!Next
  <2>1. Payer[i] \in Users /\ Amount[i] \in Int
    BY LedgerAssumption
  <2>2. FirstCredit(Payer[i], Amount[i], i)
    BY <1>3 DEF FirstCredit
  <2>3. \A k \in Invoices : HasCredit(k)' <=> HasCredit(k) \/ k = i
    BY <1>0, <1>3, <2>1, <2>2, PostCredits
  <2>4. {k \in Invoices : HasCredit(k)}' =
          {k \in Invoices : HasCredit(k)} \cup {i}
    BY <2>3
  <2>5. i \notin {k \in Invoices : HasCredit(k)}
    BY <1>3
  <2>6. balance' = [balance EXCEPT ![Payer[i]] = @ + Amount[i]]
    BY <1>3 DEF Post
  <2>7. A!Credit(i)
    BY <1>3, <2>4, <2>5, <2>6 DEF A!Credit
  <2>8. QED BY <2>7 DEF A!Next
<1>4. CASE Work(s)
  <2>1. ASSUME NEW u \in Users, TickUser(s, u)
        PROVE  [A!Next]_A!vars
    <3>1. UNCHANGED billVars
      BY <2>1 DEF TickUser
    <3>2. CASE unbilled' = unbilled
      BY <1>1, <3>1, <3>2 DEF billVars
    <3>3. CASE \E n \in Charges : unbilled' = [unbilled EXCEPT ![u] = @ + n]
      <4>1. A!Meter(u)
        BY <3>1, <3>3, CreditedSame DEF A!Meter, billVars
      <4>2. QED BY <4>1 DEF A!Next
    <3>4. QED BY <2>1, <3>2, <3>3 DEF TickUser
  <2>2. ASSUME NEW u \in Users, SettleOneUser(s, u)
        PROVE  [A!Next]_A!vars
    <3>1. /\ job[s].drain[u] = unbilled[u]
          /\ - job[s].drain[u] \in Int
      BY <1>0, <2>2, JobShape DEF SettleOneUser, SweepIsFresh
    <3>2. CASE UNCHANGED <<billVars, unbilled>>
      BY <1>1, <3>2 DEF billVars
    <3>3. CASE /\ Post(u, - job[s].drain[u], Usage)
               /\ unbilled' = [unbilled EXCEPT ![u] = 0]
      <4>1. {i \in Invoices : HasCredit(i)}' =
              {i \in Invoices : HasCredit(i)}
        BY <1>2, <3>1, <3>3
      <4>2. balance' = [balance EXCEPT ![u] = @ - unbilled[u]]
        BY <1>0, <3>1, <3>3 DEF Post
      <4>3. A!Bill(u)
        BY <3>3, <4>1, <4>2 DEF A!Bill
      <4>4. QED BY <4>3 DEF A!Next
    <3>4. QED BY <2>2, <3>2, <3>3 DEF SettleOneUser
  <2>3. QED BY <1>1, <1>4, <2>1, <2>2
            DEF Work, TickStart, TickEnd, SweepList, SweepEnd, billVars
<1>5. ASSUME NEW u \in Users, GiftCredits(u)
      PROVE  [A!Next]_A!vars
  <2>1. PICK n \in Gifts : Post(u, n, Gift)
    BY <1>5 DEF GiftCredits
  <2>2. n \in Int
    BY LedgerAssumption
  <2>3. {i \in Invoices : HasCredit(i)}' = {i \in Invoices : HasCredit(i)}
    BY <1>2, <2>1, <2>2
  <2>4. A!Give(u)
    BY <1>5, <2>1, <2>3 DEF A!Give, GiftCredits, Post
  <2>5. QED BY <2>4 DEF A!Next
<1>6. ASSUME NEW r \in Requests, Proceed(r)
      PROVE  [A!Next]_A!vars
  <2>0. HandlerFits(req[r], invoice) /\ req[r] \in RequestState
    BY <1>0 DEF HandlersOK, TypeOK
  <2>1. CASE Process(r)
    <3>1. /\ req[r].inv \in Invoices
          /\ invoice'[req[r].inv] \notin {"none", "pending"}
      BY <2>0, <2>1, RequestShape DEF Process, HandlerFits
    <3>2. QED BY <1>1, <1>3, <2>1, <3>1 DEF Process, billVars
  <2>2. CASE Settle(r)
    <3>1. req[r].inv \in Invoices
      BY <2>0, <2>2, RequestShape DEF Settle
    <3>2. CASE invoice[req[r].inv] = "pending" /\ ~UNCHANGED billVars
      <4>1. ~HasCredit(req[r].inv)
        BY <1>0, <3>1, <3>2 DEF CreditIsClosed, Decided
      <4>2. /\ Post(Payer[req[r].inv], Amount[req[r].inv], req[r].inv)
            /\ invoice'[req[r].inv] \notin {"none", "pending"}
            /\ unbilled' = unbilled
        BY <1>0, <2>2, <3>1, <3>2, <4>1 DEF Settle, TypeOK
      <4>3. QED BY <1>3, <3>1, <4>1, <4>2
    <3>3. CASE UNCHANGED billVars
      BY <1>1, <2>2, <3>3 DEF Settle, billVars
    <3>4. QED BY <2>2, <3>2, <3>3 DEF Settle
  <2>3. ASSUME NEW i \in Invoices, ReconcileOne(r, i)
        PROVE  [A!Next]_A!vars
    <3>1. invoice'[i] \notin {"none", "pending"}
      BY <2>0, <2>3 DEF ReconcileOne, HandlerFits
    <3>2. QED BY <1>1, <1>3, <2>3, <3>1 DEF ReconcileOne, billVars
  <2>4. QED BY <1>1, <1>6, <2>1, <2>2, <2>3
            DEF Proceed, InsertInvoice, Query, Overwrite, Check, MarkPaid,
                ReconcileEnd, billVars
<1>7. ASSUME NEW r \in Requests, Arrive(r)
      PROVE  UNCHANGED <<balance, ledger, unbilled>>
  BY <1>7 DEF Arrive, Reconcile, CreateInvoice, Webhook, Sync, billVars
<1>8. QED BY <1>1, <1>4, <1>5, <1>6, <1>7
          DEF Next, RemoteChanges, Crash, vars, billVars

(***************************************************************************)
(* With one job, the ledger implements the atomic account: what is metered *)
(* is billed once, a settled invoice is credited once, and nothing else    *)
(* but a gift moves a balance.                                             *)
(***************************************************************************)
THEOREM AccountImplemented ==
  ASSUME NEW s, Jobs = {s}
  PROVE  Spec => AccountSpec
<1>1. Init => SweepIsFresh
  BY DEF Init, Idle, SweepIsFresh
<1>2. LedgerInv /\ SweepIsFresh /\ [Next]_vars => SweepIsFresh'
  BY SweepIsFreshStep
<1>3. Init => A!Init
  BY LedgerAssumption DEF Init, A!Init, HasCredit
<1>4. LedgerInv /\ SweepIsFresh /\ [Next]_vars => [A!Next]_A!vars
  BY RefinementStep
<1>5. QED BY <1>1, <1>2, <1>3, <1>4, LedgerInvariant, PTL
          DEF Spec, AccountSpec, A!Spec

LEMMA PostIsSeen ==
  ASSUME TypeOK, NEW v \in Users, NEW n \in Int,
         NEW ref \in Invoices \cup {Usage, Gift}, Post(v, n, ref),
         NEW u \in Users, Len(ledger'[u]) > Len(ledger[u])
  PROVE  /\ u = v
         /\ ledger'[u][Len(ledger'[u])].ref = ref
         /\ ledger'[u][Len(ledger'[u])].amount = n
<1>1. /\ \A w \in Users \ {v} : ledger'[w] = ledger[w]
      /\ Len(ledger'[v]) = Len(ledger[v]) + 1
      /\ ledger'[v][Len(ledger[v]) + 1] =
           [amount |-> n, after |-> balance[v] + n, ref |-> ref]
  BY PostRows
<1>2. Len(ledger[u]) \in Nat
  BY DEF TypeOK
<1>3. u = v
  BY <1>1, <1>2
<1>4. QED BY <1>1, <1>3

LEMMA SweepDrainsStep ==
  ASSUME NEW s, Jobs = {s}, LedgerInv, SweepIsFresh, [Next]_vars,
         NEW u \in Users, Len(ledger'[u]) > Len(ledger[u]),
         ledger'[u][Len(ledger'[u])].ref = Usage
  PROVE  /\ ledger'[u][Len(ledger'[u])].amount = - unbilled[u]
         /\ unbilled'[u] = 0
<1>0. /\ TypeOK /\ job[s] \in JobState /\ unbilled \in [Users -> Nat]
      /\ Usage \notin Invoices /\ Usage # Gift
  BY LedgerAssumption DEF LedgerInv, TypeOK, Usage, Gift
<1>1. ~UNCHANGED billVars
  <2>1. Len(ledger[u]) \in Nat
    BY <1>0 DEF TypeOK
  <2>2. QED BY <2>1 DEF billVars
<1>2. ASSUME NEW i \in Invoices, Post(Payer[i], Amount[i], i)
      PROVE  FALSE
  <2>1. Payer[i] \in Users /\ Amount[i] \in Int
    BY LedgerAssumption
  <2>2. QED BY <1>0, <1>2, <2>1, PostIsSeen
<1>3. ASSUME NEW v \in Users, GiftCredits(v)
      PROVE  FALSE
  <2>1. PICK n \in Gifts : Post(v, n, Gift)
    BY <1>3 DEF GiftCredits
  <2>2. n \in Int
    BY LedgerAssumption
  <2>3. QED BY <1>0, <2>1, <2>2, PostIsSeen
<1>4. ASSUME NEW r \in Requests, Proceed(r)
      PROVE  FALSE
  <2>0. HandlerFits(req[r], invoice) /\ req[r] \in RequestState
    BY DEF LedgerInv, HandlersOK, TypeOK
  <2>1. CASE Process(r)
    <3>1. req[r].inv \in Invoices
      BY <2>0, <2>1, RequestShape DEF Process
    <3>2. QED BY <1>1, <1>2, <2>1, <3>1 DEF Process
  <2>2. CASE Settle(r)
    <3>1. req[r].inv \in Invoices
      BY <2>0, <2>2, RequestShape DEF Settle
    <3>2. ~(HasCredit(req[r].inv) /\ invoice[req[r].inv] = "pending")
      BY <3>1 DEF LedgerInv, CreditIsClosed, Decided
    <3>3. QED BY <1>1, <1>2, <2>2, <3>1, <3>2 DEF Settle
  <2>3. ASSUME NEW i \in Invoices, ReconcileOne(r, i)
        PROVE  FALSE
    BY <1>1, <1>2, <2>3 DEF ReconcileOne
  <2>4. QED BY <1>1, <1>4, <2>1, <2>2, <2>3
            DEF Proceed, InsertInvoice, Query, Overwrite, Check, MarkPaid,
                ReconcileEnd
<1>5. PICK v \in Users : SettleOneUser(s, v)
  BY <1>1, <1>3, <1>4
  DEF Next, RemoteChanges, Crash, vars, Arrive, Reconcile, CreateInvoice,
      Webhook, Sync, Work, TickStart, TickUser, TickEnd, SweepList, SweepEnd
<1>6. /\ Post(v, - job[s].drain[v], Usage)
      /\ unbilled' = [unbilled EXCEPT ![v] = 0]
      /\ job[s].drain[v] = unbilled[v]
      /\ - job[s].drain[v] \in Int
  BY <1>0, <1>1, <1>5, JobShape DEF SettleOneUser, SweepIsFresh
<1>7. u = v /\ ledger'[u][Len(ledger'[u])].amount = - job[s].drain[v]
  BY <1>0, <1>6, PostIsSeen
<1>8. QED BY <1>0, <1>6, <1>7

(***************************************************************************)
(* With one job, a sweep takes from a balance exactly what the accumulator *)
(* held when it was reset (settleOneUser).                                 *)
(***************************************************************************)
THEOREM SweepDrainsUnbilledHolds ==
  ASSUME NEW s, Jobs = {s}
  PROVE  Spec => SweepDrainsUnbilled
<1>1. Init => SweepIsFresh
  BY DEF Init, Idle, SweepIsFresh
<1>2. LedgerInv /\ SweepIsFresh /\ [Next]_vars => SweepIsFresh'
  BY SweepIsFreshStep
<1>3. LedgerInv /\ SweepIsFresh /\ [Next]_vars =>
        [\A u \in Users :
           LET n == Len(ledger'[u])
           IN n > Len(ledger[u]) /\ ledger'[u][n].ref = Usage =>
                ledger'[u][n].amount = - unbilled[u]
                  /\ unbilled'[u] = 0]_vars
  BY SweepDrainsStep
<1>4. QED BY <1>1, <1>2, <1>3, LedgerInvariant, PTL
          DEF Spec, SweepDrainsUnbilled
=============================================================================
