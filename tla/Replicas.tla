------------------------------ MODULE Replicas ------------------------------
(***************************************************************************)
(* Copies of a file on several storage providers: the admin tasks that     *)
(* copy and verify them (handlers/admin_task_runner.go), the rows of       *)
(* file_storage_locations that say where a copy is, and the deletions that *)
(* remove it from everywhere or from the primary provider.                 *)
(***************************************************************************)
EXTENDS Naturals, FiniteSets

CONSTANTS
  Files,
  Providers,
  Primary,     \* the primary provider; roles do not change here
  Tasks,       \* ids of admin tasks, each submitted at most once
  Deleters,    \* deleting requests in flight
  Workers,     \* InitTaskRunner's maxWorkers
  CopyModes,   \* the flags copies are submitted with, a set of <<verify, skip>>
  AdminToo,    \* TRUE: administrators delete files as well
  StoreFails,  \* TRUE: calls to a provider may fail, or cut a copy short
  DbFails,     \* TRUE: statements may fail
  MaxCrashes   \* bound: how often the process dies

ASSUME ReplicasAssumption ==
  /\ Primary \in Providers
  /\ Workers \in Nat \ {0}
  /\ CopyModes \subseteq BOOLEAN \X BOOLEAN
  /\ AdminToo \in BOOLEAN
  /\ StoreFails \in BOOLEAN
  /\ DbFails \in BOOLEAN
  /\ MaxCrashes \in Nat

VARIABLES
  file,     \* the row of file_metadata
  loc,      \* status of the row of file_storage_locations
  object,   \* what a provider has under the file's storage_id
  doomed,   \* history: the files some deletion has found
  clashed,  \* history: the locations two tasks have copied to at once
  req,      \* what a task is asked to do
  status,   \* admin_tasks.status
  run,      \* the goroutine of a task
  del,      \* the goroutine of a deletion
  crashes

history == <<doomed, clashed>>
storeVars == <<file, loc, object, history>>
taskVars == <<req, status, run>>
vars == <<storeVars, taskVars, del, crashes>>

NoRow == "none"
LocationStatuses ==
  {NoRow, "pending", "active", "failed", "missing", "deleted", "delete_failed"}

\* "cut": the last part was read to an early end of the stream.
Absent == "absent"
Objects == {Absent, "whole", "cut"}

NoRequest == [kind |-> "none"]
Requests ==
  {NoRequest}
  \cup [kind: {"copy"}, src: Providers, dst: Providers, verify: BOOLEAN,
        skip: BOOLEAN]
  \cup [kind: {"verify"}, fix: BOOLEAN]

TaskStatuses ==
  {NoRow, "pending", "running", "completed", "failed", "canceled"}

Idle == [pc |-> "idle"]
Items == Files \X Providers
CopySteps == {"next", "insert", "get", "put", "mark"}

\* A copy works on cur and has read data; a verification has items to ask for,
\* and answers (TRUE: there and whole) to receive.  canceled is ctx.Err().
Goroutine ==
  {Idle}
  \cup [pc: {"wait"} \cup CopySteps, todo: SUBSET Files, cur: SUBSET Files,
        data: Objects, canceled: BOOLEAN]
  \cup [pc: {"wait", "check", "receive"}, todo: SUBSET Items,
        answers: SUBSET (Items \X BOOLEAN), canceled: BOOLEAN]

Deletion ==
  {Idle}
  \cup [pc: {"list", "primary", "remove", "commit"}, file: Files,
        todo: SUBSET Providers, gone: SUBSET Providers,
        left: SUBSET Providers]

TypeOK ==
  /\ file \in [Files -> {NoRow, "stored", "deleted"}]
  /\ loc \in [Files -> [Providers -> LocationStatuses]]
  /\ object \in [Files -> [Providers -> Objects]]
  /\ doomed \in SUBSET Files
  /\ clashed \in SUBSET Items
  /\ req \in [Tasks -> Requests]
  /\ status \in [Tasks -> TaskStatuses]
  /\ run \in [Tasks -> Goroutine]
  /\ del \in [Deleters -> Deletion]
  /\ crashes \in 0 .. MaxCrashes

Init ==
  /\ file = [f \in Files |-> NoRow]
  /\ loc = [f \in Files |-> [p \in Providers |-> NoRow]]
  /\ object = [f \in Files |-> [p \in Providers |-> Absent]]
  /\ doomed = {}
  /\ clashed = {}
  /\ req = [t \in Tasks |-> NoRequest]
  /\ status = [t \in Tasks |-> NoRow]
  /\ run = [t \in Tasks |-> Idle]
  /\ del = [d \in Deleters |-> Idle]
  /\ crashes = 0

\* CompleteUpload commits a file: Uploads has the steps before.
Upload(f) ==
  /\ file[f] = NoRow
  /\ file' = [file EXCEPT ![f] = "stored"]
  /\ loc' = [loc EXCEPT ![f][Primary] = "active"]
  /\ object' = [object EXCEPT ![f][Primary] = "whole"]
  /\ UNCHANGED <<history, taskVars, del, crashes>>

Stored == {f \in Files : file[f] = "stored"}

\* UPDATE file_storage_locations ... WHERE file_id = ? AND provider_id = ?
SetLocation(f, p, s) ==
  \/ loc' = IF loc[f][p] = NoRow THEN loc ELSE [loc EXCEPT ![f][p] = s]
  \/ DbFails /\ UNCHANGED loc

-----------------------------------------------------------------------------
(***************************************************************************)
(* Tasks                                                                   *)
(***************************************************************************)

Waiting(todo) ==
  [pc |-> "wait", todo |-> todo, cur |-> {}, data |-> Absent,
   canceled |-> FALSE]

Listed(items) ==
  [pc |-> "wait", todo |-> items, answers |-> {}, canceled |-> FALSE]

Submit(t, r, g) ==
  /\ req[t] = NoRequest
  /\ req' = [req EXCEPT ![t] = r]
  /\ status' = [status EXCEPT ![t] = "pending"]
  /\ run' = [run EXCEPT ![t] = g]
  /\ UNCHANGED <<storeVars, del, crashes>>

\* One file, a user's, or all: the automatic replication of an upload is a
\* copy of one file from the primary provider with <<TRUE, FALSE>>.
SubmitCopy(t) ==
  \E src, dst \in Providers, mode \in CopyModes, todo \in SUBSET Stored :
    Submit(t, [kind |-> "copy", src |-> src, dst |-> dst, verify |-> mode[1],
               skip |-> mode[2]], Waiting(todo))

\* The active locations of one provider or of all.
SubmitVerify(t) ==
  \E fix \in BOOLEAN, of \in {Providers} \cup {{p} : p \in Providers} :
    Submit(t, [kind |-> "verify", fix |-> fix],
           Listed({i \in Stored \X of : loc[i[1]][i[2]] = "active"}))

\* CancelTask calls the context's cancel function; the row is left alone.
Cancel(t) ==
  /\ run[t] # Idle
  /\ ~run[t].canceled
  /\ run' = [run EXCEPT ![t].canceled = TRUE]
  /\ UNCHANGED <<storeVars, req, status, del, crashes>>

Working == {t \in Tasks : run[t].pc \notin {"idle", "wait"}}

CopyingTo(f, p) ==
  {t \in Working : req[t].kind = "copy" /\ req[t].dst = p /\ f \in run[t].cur}

\* A slot of the semaphore, and the row says running.
Start(t) ==
  /\ run[t].pc = "wait"
  /\ Cardinality(Working) < Workers
  /\ \/ /\ status' = [status EXCEPT ![t] = "running"]
        /\ run' = [run EXCEPT ![t].pc =
                     IF req[t].kind = "copy" THEN "next" ELSE "check"]
     \/ /\ DbFails
        /\ run' = [run EXCEPT ![t] = Idle]
        /\ UNCHANGED status
  /\ UNCHANGED <<storeVars, req, del, crashes>>

\* Mutant: the goroutine of a canceled task keeps its slot.
EndUnlessCanceled(t, s) ==
  /\ status' = [status EXCEPT ![t] = s]
  /\ run' = IF s = "canceled" THEN run ELSE [run EXCEPT ![t] = Idle]
  /\ UNCHANGED <<storeVars, req, del, crashes>>

End(t, s) ==
  /\ \/ status' = [status EXCEPT ![t] = s]
     \/ DbFails /\ UNCHANGED status
  /\ run' = [run EXCEPT ![t] = Idle]
  /\ UNCHANGED <<storeVars, req, del, crashes>>

CopyCanceled(t) ==
  /\ run[t].pc = "next"
  /\ run[t].todo # {}
  /\ run[t].canceled
  /\ End(t, "canceled")

\* Whether or not it was canceled meanwhile.
CopyDone(t) ==
  /\ run[t].pc = "next"
  /\ run[t].todo = {}
  /\ End(t, "completed")

\* Mutant: skip_existing is forgotten.
OnDestinationNever(t, f) == FALSE

OnDestination(t, f) == req[t].skip /\ loc[f][req[t].dst] = "active"

CopySkip(t, f) ==
  /\ run[t].pc = "next"
  /\ f \in run[t].todo
  /\ ~run[t].canceled
  /\ OnDestination(t, f)
  /\ run' = [run EXCEPT ![t].todo = @ \ {f}]
  /\ UNCHANGED <<storeVars, req, status, del, crashes>>

\* Locations that cannot be listed count as none.
CopyNext(t, f) ==
  /\ run[t].pc = "next"
  /\ f \in run[t].todo
  /\ ~run[t].canceled
  /\ ~OnDestination(t, f) \/ DbFails
  /\ run' = [run EXCEPT ![t].todo = @ \ {f}, ![t].cur = {f},
                        ![t].pc = "insert"]
  /\ clashed' = IF CopyingTo(f, req[t].dst) # {}
                THEN clashed \cup {<<f, req[t].dst>>} ELSE clashed
  /\ UNCHANGED <<file, loc, object, doomed, req, status, del, crashes>>

\* The insert fails, and nobody minds, over a row or without the file's.
CopyInsert(t, f) ==
  /\ run[t].pc = "insert"
  /\ f \in run[t].cur
  /\ \/ loc' = IF loc[f][req[t].dst] = NoRow /\ file[f] = "stored"
               THEN [loc EXCEPT ![f][req[t].dst] = "pending"] ELSE loc
     \/ DbFails /\ UNCHANGED loc
  /\ run' = [run EXCEPT ![t].pc = "get"]
  /\ UNCHANGED <<file, object, history, req, status, del, crashes>>

CopyGet(t, f) ==
  /\ run[t].pc = "get"
  /\ f \in run[t].cur
  /\ ~run[t].canceled
  /\ object[f][req[t].src] # Absent
  /\ \E data \in {object[f][req[t].src]} \cup (IF StoreFails THEN {"cut"} ELSE {}) :
       run' = [run EXCEPT ![t].pc = "put", ![t].data = data]
  /\ UNCHANGED <<storeVars, req, status, del, crashes>>

CopyGetFail(t, f) ==
  /\ run[t].pc = "get"
  /\ f \in run[t].cur
  /\ run[t].canceled \/ StoreFails \/ object[f][req[t].src] = Absent
  /\ run' = [run EXCEPT ![t].pc = "mark"]
  /\ UNCHANGED <<storeVars, req, status, del, crashes>>

CopyPut(t, f) ==
  /\ run[t].pc = "put"
  /\ f \in run[t].cur
  /\ ~run[t].canceled
  /\ object' = [object EXCEPT ![f][req[t].dst] = run[t].data]
  /\ run' = [run EXCEPT ![t].pc = "mark"]
  /\ UNCHANGED <<file, loc, history, req, status, del, crashes>>

\* The provider may have stored what it did not answer.
CopyPutFail(t, f) ==
  /\ run[t].pc = "put"
  /\ f \in run[t].cur
  /\ run[t].canceled \/ StoreFails
  /\ \/ UNCHANGED object
     \/ object' = [object EXCEPT ![f][req[t].dst] = run[t].data]
  /\ run' = [run EXCEPT ![t].pc = "mark", ![t].data = Absent]
  /\ UNCHANGED <<file, loc, history, req, status, del, crashes>>

\* Mutant: an error of the copy is overlooked.
CopiedWellAlways(t, f) == {TRUE}

\* Mutant: the hash is not compared.
CopiedUnverified(t, f) == {run[t].data # Absent}

\* Is it a success?  The hash is compared if the file's can be read.
CopiedWell(t, f) ==
  {/\ run[t].data # Absent
   /\ req[t].verify /\ file[f] = "stored" => run[t].data = "whole"}
  \cup (IF DbFails THEN {run[t].data # Absent} ELSE {})

CopyMark(t, f) ==
  /\ run[t].pc = "mark"
  /\ f \in run[t].cur
  /\ \E well \in CopiedWell(t, f) :
       SetLocation(f, req[t].dst, IF well THEN "active" ELSE "failed")
  /\ run' = [run EXCEPT ![t].pc = "next", ![t].cur = {}, ![t].data = Absent]
  /\ UNCHANGED <<file, object, history, req, status, del, crashes>>

CopyStep(t) ==
  \/ CopyCanceled(t) \/ CopyDone(t)
  \/ \E f \in Files :
       \/ CopySkip(t, f) \/ CopyNext(t, f) \/ CopyInsert(t, f)
       \/ CopyGet(t, f) \/ CopyGetFail(t, f)
       \/ CopyPut(t, f) \/ CopyPutFail(t, f) \/ CopyMark(t, f)

\* One HEAD of several under way: an object that is absent, has another size
\* or cannot be asked for is bad, and so is any once the context is done.
Head(t, i) ==
  /\ run[t].pc \in {"check", "receive"}
  /\ i \in run[t].todo
  /\ \E well \in BOOLEAN :
       /\ well => object[i[1]][i[2]] = "whole" /\ ~run[t].canceled
       /\ ~well => object[i[1]][i[2]] # "whole" \/ StoreFails \/ run[t].canceled
       /\ run' = [run EXCEPT ![t].todo = @ \ {i},
                             ![t].answers = @ \cup {<<i, well>>}]
  /\ UNCHANGED <<storeVars, req, status, del, crashes>>

VerifyCanceled(t) ==
  /\ run[t].pc = "check"
  /\ run[t].canceled
  /\ End(t, "canceled")

\* The statistics that are recalculated at the end are not modelled.
VerifyDone(t) ==
  /\ run[t].pc = "check"
  /\ ~run[t].canceled
  /\ run[t].todo = {}
  /\ run[t].answers = {}
  /\ End(t, "completed")

\* The context has been looked at; now the task waits for a result.
VerifyAwait(t) ==
  /\ run[t].pc = "check"
  /\ ~run[t].canceled
  /\ run[t].todo # {} \/ run[t].answers # {}
  /\ run' = [run EXCEPT ![t].pc = "receive"]
  /\ UNCHANGED <<storeVars, req, status, del, crashes>>

VerifyReceive(t, a) ==
  /\ run[t].pc = "receive"
  /\ a \in run[t].answers
  /\ run' = [run EXCEPT ![t].pc = "check", ![t].answers = @ \ {a}]
  /\ \/ ~a[2] /\ req[t].fix /\ SetLocation(a[1][1], a[1][2], "missing")
     \/ (a[2] \/ ~req[t].fix) /\ UNCHANGED loc
  /\ UNCHANGED <<file, object, history, req, status, del, crashes>>

VerifyStep(t) ==
  \/ VerifyCanceled(t) \/ VerifyDone(t) \/ VerifyAwait(t)
  \/ \E i \in Items :
       Head(t, i) \/ \E well \in BOOLEAN : VerifyReceive(t, <<i, well>>)

-----------------------------------------------------------------------------
(***************************************************************************)
(* Deletions: the owner's request looks for locations, an administrator's  *)
(* (of a file or of a user) goes to the primary provider.                  *)
(***************************************************************************)

Deleting(d, step) == del[d].pc = step

SetDeletion(d, g) ==
  /\ del' = [del EXCEPT ![d] = g]
  /\ UNCHANGED <<taskVars, crashes>>

DeleteRead(d, f) ==
  /\ del[d] = Idle
  /\ file[f] = "stored"
  /\ doomed' = doomed \cup {f}
  /\ \E pc \in {"list"} \cup (IF AdminToo THEN {"primary"} ELSE {}) :
       SetDeletion(d, [pc |-> pc, file |-> f, todo |-> {}, gone |-> {},
                       left |-> {}])
  /\ UNCHANGED <<file, loc, object, clashed>>

ActiveAt(f) == {p \in Providers : loc[f][p] = "active"}

DeleteList(d) ==
  /\ Deleting(d, "list")
  /\ \/ /\ ActiveAt(del[d].file) # {}
        /\ SetDeletion(d, [del[d] EXCEPT !.pc = "remove",
                                         !.todo = ActiveAt(del[d].file)])
     \/ /\ ActiveAt(del[d].file) = {} \/ DbFails
        /\ SetDeletion(d, [del[d] EXCEPT !.pc = "primary"])
  /\ UNCHANGED storeVars

DeleteObject(d, p) ==
  /\ Deleting(d, "remove")
  /\ p \in del[d].todo
  /\ object' = [object EXCEPT ![del[d].file][p] = Absent]
  /\ SetDeletion(d, [del[d] EXCEPT !.todo = @ \ {p}, !.gone = @ \cup {p}])
  /\ UNCHANGED <<file, loc, history>>

DeleteObjectFail(d, p) ==
  /\ Deleting(d, "remove")
  /\ p \in del[d].todo
  /\ StoreFails
  /\ \/ UNCHANGED object
     \/ object' = [object EXCEPT ![del[d].file][p] = Absent]
  /\ SetDeletion(d, [del[d] EXCEPT !.todo = @ \ {p}, !.left = @ \cup {p}])
  /\ UNCHANGED <<file, loc, history>>

\* After all providers have been asked; the statistics are not modelled.
DeleteMark(d, p) ==
  /\ Deleting(d, "remove")
  /\ del[d].todo = {}
  /\ p \in del[d].gone \cup del[d].left
  /\ SetLocation(del[d].file, p,
                 IF p \in del[d].gone THEN "deleted" ELSE "delete_failed")
  /\ SetDeletion(d, [del[d] EXCEPT !.gone = @ \ {p}, !.left = @ \ {p}])
  /\ UNCHANGED <<file, object, history>>

DeletePrimary(d) ==
  /\ Deleting(d, "primary")
  /\ object' = [object EXCEPT ![del[d].file][Primary] = Absent]
  /\ SetDeletion(d, [del[d] EXCEPT !.pc = "commit"])
  /\ UNCHANGED <<file, loc, history>>

DeletePrimaryFail(d) ==
  /\ Deleting(d, "primary")
  /\ StoreFails
  /\ \/ UNCHANGED object
     \/ object' = [object EXCEPT ![del[d].file][Primary] = Absent]
  /\ SetDeletion(d, Idle)
  /\ UNCHANGED <<file, loc, history>>

ReadyToCommit(d) ==
  \/ Deleting(d, "commit")
  \/ /\ Deleting(d, "remove")
     /\ del[d].todo \cup del[d].gone \cup del[d].left = {}

\* The locations go with the file (ON DELETE CASCADE).
DeleteCommit(d) ==
  /\ ReadyToCommit(d)
  /\ file' = [file EXCEPT ![del[d].file] = "deleted"]
  /\ loc' = [loc EXCEPT ![del[d].file] = [p \in Providers |-> NoRow]]
  /\ SetDeletion(d, Idle)
  /\ UNCHANGED <<object, history>>

DeleteFail(d) ==
  /\ ReadyToCommit(d)
  /\ DbFails
  /\ SetDeletion(d, Idle)
  /\ UNCHANGED storeVars

DeleteStep(d) ==
  \/ DeleteList(d) \/ DeletePrimary(d) \/ DeletePrimaryFail(d)
  \/ DeleteCommit(d) \/ DeleteFail(d)
  \/ \E p \in Providers :
       DeleteObject(d, p) \/ DeleteObjectFail(d, p) \/ DeleteMark(d, p)

-----------------------------------------------------------------------------
\* Mutant: the rows of the tasks that died are left alone.
StaleAsIs == status

\* Mutant: a status of its own, which the commands do not know.
StaleInterrupted ==
  [t \in Tasks |-> IF status[t] = "running" THEN "interrupted" ELSE status[t]]

\* MarkStaleTasksAsFailed
Stale == [t \in Tasks |-> IF status[t] = "running" THEN "failed" ELSE status[t]]

\* The process dies and starts again.  Every file has a location: the backfill
\* at startup finds nothing to do.
Restart ==
  /\ crashes < MaxCrashes
  /\ crashes' = crashes + 1
  /\ run' = [t \in Tasks |-> Idle]
  /\ del' = [d \in Deleters |-> Idle]
  /\ \/ status' = Stale
     \/ DbFails /\ UNCHANGED status
  /\ UNCHANGED <<storeVars, req>>

Next ==
  \/ \E f \in Files : Upload(f)
  \/ \E t \in Tasks :
       \/ SubmitCopy(t) \/ SubmitVerify(t) \/ Cancel(t)
       \/ Start(t) \/ CopyStep(t) \/ VerifyStep(t)
  \/ \E d \in Deleters : DeleteStep(d) \/ \E f \in Files : DeleteRead(d, f)
  \/ Restart

Spec == Init /\ [][Next]_vars

\* Goroutines that run go on, and one that waits for a slot gets one that is
\* free.
FairSpec ==
  /\ Spec
  /\ \A t \in Tasks : WF_vars(Start(t) \/ CopyStep(t) \/ VerifyStep(t))

-----------------------------------------------------------------------------
(***************************************************************************)
(* Properties                                                              *)
(***************************************************************************)

\* A location that is active, for GetActiveFileStorageLocations and all who
\* use it, has an object, until a deletion takes up the file: whatever fails,
\* is canceled, is copied over or dies.
ActiveHasObject ==
  \A f \in Files \ doomed, p \in Providers :
    loc[f][p] = "active" => object[f][p] # Absent

Submitted(kind) == {t \in Tasks : req[t].kind = kind}

\* As long as copies skip what is there, the command's default, and no
\* verification fixes, no task costs a file its last good copy: not a copy
\* from a provider whose own copy is broken, not one that is cut or canceled.
LastCopySurvives ==
  /\ \A t \in Submitted("copy") : req[t].skip
  /\ \A t \in Submitted("verify") : ~req[t].fix
  =>
  \A f \in Stored \ doomed :
    \E p \in Providers : loc[f][p] = "active" /\ object[f][p] = "whole"

\* admin_tasks says running of exactly the tasks that hold a slot, across
\* cancellations and restarts: the alerts count the others as stale.
RunningHasSlot == \A t \in Tasks : status[t] = "running" <=> t \in Working

\* Where every copy verifies and skips what is there, an active location has
\* the whole object at any time, whatever earlier copies left there before they
\* failed or died; except where two tasks copied to it at once, as each reads
\* its own hash and the later put stays.
ActiveIsVerified ==
  (\A t \in Submitted("copy") : req[t].verify /\ req[t].skip) =>
    \A f \in Files \ doomed, p \in Providers :
      loc[f][p] = "active" /\ <<f, p>> \notin clashed => object[f][p] = "whole"

\* Every task that was submitted ends and gives back its slot, be it done,
\* canceled before or while it runs, refused by the database or dead.
TasksEnd == \A t \in Tasks : run[t] # Idle ~> run[t] = Idle
=============================================================================
