-------------------------- MODULE Replicas_proofs --------------------------
(***************************************************************************)
(* Proofs about Replicas, for every number of files, providers, tasks,     *)
(* workers and deleting requests.                                          *)
(***************************************************************************)
EXTENDS Replicas, TLAPS

CopyRequest ==
  [kind: {"copy"}, src: Providers, dst: Providers, verify: BOOLEAN,
   skip: BOOLEAN]

VerifyRequest == [kind: {"verify"}, fix: BOOLEAN]

CopyRun ==
  [pc: {"wait"} \cup CopySteps, todo: SUBSET Files, cur: SUBSET Files,
   data: Objects, canceled: BOOLEAN]

VerifyRun ==
  [pc: {"wait", "check", "receive"}, todo: SUBSET Items,
   answers: SUBSET (Items \X BOOLEAN), canceled: BOOLEAN]

DeletionRun ==
  [pc: {"list", "primary", "remove", "commit"}, file: Files,
   todo: SUBSET Providers, gone: SUBSET Providers, left: SUBSET Providers]

\* A goroutine g fits the request r it was started for.
Fits(r, g) ==
  \/ g = Idle
  \/ r \in CopyRequest /\ g \in CopyRun
  \/ r \in VerifyRequest /\ g \in VerifyRun

\* The goroutine of a task is of the kind of its request: without it Start
\* could send a verification into the steps of a copy.
Typed ==
  /\ TypeOK
  /\ \A t \in Tasks : Fits(req[t], run[t])

-----------------------------------------------------------------------------
LEMMA FitsType ==
  ASSUME NEW r, NEW g, Fits(r, g)
  PROVE  g \in Goroutine
  BY DEF Fits, Goroutine, CopyRun, VerifyRun

LEMMA CopyShape ==
  ASSUME NEW r, NEW g, Fits(r, g), g.pc \in CopySteps
  PROVE  r \in CopyRequest /\ g \in CopyRun
  BY DEF Fits, Idle, CopyRun, VerifyRun, CopySteps

LEMMA VerifyShape ==
  ASSUME NEW r, NEW g, Fits(r, g), g.pc \in {"check", "receive"}
  PROVE  r \in VerifyRequest /\ g \in VerifyRun
  BY DEF Fits, Idle, CopyRun, VerifyRun, CopySteps

LEMMA DeletionShape ==
  ASSUME NEW g \in Deletion, g # Idle
  PROVE  g \in DeletionRun
  BY DEF Deletion, DeletionRun

LEMMA SetLocationType ==
  ASSUME loc \in [Files -> [Providers -> LocationStatuses]],
         NEW f \in Files, NEW p \in Providers, NEW s \in LocationStatuses,
         SetLocation(f, p, s)
  PROVE  loc' \in [Files -> [Providers -> LocationStatuses]]
<1>1. CASE UNCHANGED loc
  BY <1>1
<1>2. CASE loc' = [loc EXCEPT ![f][p] = s]
  <2>1. [loc[f] EXCEPT ![p] = s] \in [Providers -> LocationStatuses]
    OBVIOUS
  <2>2. QED BY <1>2, <2>1
<1>3. QED BY <1>1, <1>2 DEF SetLocation

\* A step of task t that leaves the requests alone keeps Typed if what it
\* leaves in run[t] fits.
LEMMA RunType ==
  ASSUME Typed, NEW t \in Tasks, NEW g, Fits(req[t], g),
         run' = [run EXCEPT ![t] = g], UNCHANGED req
  PROVE  /\ run' \in [Tasks -> Goroutine]
         /\ \A x \in Tasks : Fits(req'[x], run'[x])
<1>1. g \in Goroutine
  BY FitsType
<1>2. run' \in [Tasks -> Goroutine]
  BY <1>1 DEF Typed, TypeOK
<1>3. \A x \in Tasks : run'[x] = IF x = t THEN g ELSE run[x]
  BY DEF Typed, TypeOK
<1>4. QED BY <1>2, <1>3 DEF Typed

LEMMA EndType ==
  ASSUME Typed, NEW t \in Tasks, NEW s \in TaskStatuses, End(t, s)
  PROVE  Typed'
<1>1. Fits(req[t], Idle)
  BY DEF Fits
<1>2. run' \in [Tasks -> Goroutine] /\ \A x \in Tasks : Fits(req'[x], run'[x])
  BY <1>1, RunType DEF End
<1>3. status' \in [Tasks -> TaskStatuses]
  BY DEF End, Typed, TypeOK
<1>4. QED BY <1>2, <1>3 DEF End, Typed, TypeOK, storeVars, history

-----------------------------------------------------------------------------
(***************************************************************************)
(* Type correctness: one lemma per actor, one step per action.             *)
(***************************************************************************)
LEMMA InitTyped == Init => Typed
  BY ReplicasAssumption
  DEF Init, Typed, TypeOK, Fits, LocationStatuses, NoRow, Objects, Absent,
      Requests, TaskStatuses, Goroutine, Deletion

LEMMA SubmitTyped ==
  ASSUME Typed, NEW t \in Tasks, NEW r \in Requests, NEW g,
         Fits(r, g), Submit(t, r, g)
  PROVE  Typed'
<1>1. g \in Goroutine
  BY FitsType
<1>2. /\ req' \in [Tasks -> Requests]
      /\ run' \in [Tasks -> Goroutine]
      /\ status' \in [Tasks -> TaskStatuses]
  BY <1>1 DEF Submit, Typed, TypeOK, TaskStatuses
<1>3. \A x \in Tasks : /\ req'[x] = IF x = t THEN r ELSE req[x]
                       /\ run'[x] = IF x = t THEN g ELSE run[x]
  BY DEF Submit, Typed, TypeOK
<1>4. \A x \in Tasks : Fits(req'[x], run'[x])
  BY <1>3 DEF Typed
<1>5. QED BY <1>2, <1>4 DEF Submit, Typed, TypeOK, storeVars, history

LEMMA CommandTyped ==
  ASSUME Typed, NEW t \in Tasks,
         SubmitCopy(t) \/ SubmitVerify(t) \/ Cancel(t) \/ Start(t)
  PROVE  Typed'
<1>1. CASE SubmitCopy(t)
  <2>1. PICK src \in Providers, dst \in Providers, mode \in CopyModes,
             todo \in SUBSET Stored :
          Submit(t, [kind |-> "copy", src |-> src, dst |-> dst,
                     verify |-> mode[1], skip |-> mode[2]], Waiting(todo))
    BY <1>1 DEF SubmitCopy
  <2>2. mode[1] \in BOOLEAN /\ mode[2] \in BOOLEAN
    BY ReplicasAssumption
  <2>3. [kind |-> "copy", src |-> src, dst |-> dst, verify |-> mode[1],
         skip |-> mode[2]] \in CopyRequest
    BY <2>2 DEF CopyRequest
  <2>4. Waiting(todo) \in CopyRun
    BY DEF Waiting, CopyRun, Stored, Objects
  <2>5. QED BY <2>1, <2>3, <2>4, SubmitTyped DEF Fits, Requests, CopyRequest
<1>2. CASE SubmitVerify(t)
  <2>1. PICK fix \in BOOLEAN, of \in {Providers} \cup {{p} : p \in Providers} :
          Submit(t, [kind |-> "verify", fix |-> fix],
                 Listed({i \in Stored \X of : loc[i[1]][i[2]] = "active"}))
    BY <1>2 DEF SubmitVerify
  <2> DEFINE items == {i \in Stored \X of : loc[i[1]][i[2]] = "active"}
  <2>2. items \in SUBSET Items
    BY DEF Stored, Items
  <2>3. Listed(items) \in VerifyRun
    BY <2>2 DEF Listed, VerifyRun
  <2>4. [kind |-> "verify", fix |-> fix] \in VerifyRequest
    BY DEF VerifyRequest
  <2>5. QED BY <2>1, <2>3, <2>4, SubmitTyped
            DEF Fits, Requests, VerifyRequest
<1>3. CASE Cancel(t)
  <2> DEFINE g == [run[t] EXCEPT !.canceled = TRUE]
  <2>1. Fits(req[t], run[t]) /\ run[t] # Idle
    BY <1>3 DEF Cancel, Typed
  <2>2. CASE run[t] \in CopyRun /\ req[t] \in CopyRequest
    <3>1. g \in CopyRun
      BY <2>2 DEF CopyRun
    <3>2. QED BY <1>3, <2>2, <3>1, RunType
              DEF Fits, Cancel, Typed, TypeOK, storeVars, history
  <2>3. CASE run[t] \in VerifyRun /\ req[t] \in VerifyRequest
    <3>1. g \in VerifyRun
      BY <2>3 DEF VerifyRun
    <3>2. QED BY <1>3, <2>3, <3>1, RunType
              DEF Fits, Cancel, Typed, TypeOK, storeVars, history
  <2>4. QED BY <2>1, <2>2, <2>3 DEF Fits
<1>4. CASE Start(t)
  <2>1. Fits(req[t], run[t]) /\ run[t].pc = "wait"
    BY <1>4 DEF Start, Typed
  <2> DEFINE g == [run[t] EXCEPT !.pc =
                     IF req[t].kind = "copy" THEN "next" ELSE "check"]
  <2>2. Fits(req[t], g) /\ Fits(req[t], Idle)
    BY <2>1 DEF Fits, Idle, CopyRun, VerifyRun, CopyRequest, VerifyRequest,
                CopySteps
  <2>3. run' = [run EXCEPT ![t] = g] \/ run' = [run EXCEPT ![t] = Idle]
    BY <1>4 DEF Start
  <2>4. run' \in [Tasks -> Goroutine] /\ \A x \in Tasks : Fits(req'[x], run'[x])
    BY <1>4, <2>2, <2>3, RunType DEF Start
  <2>5. status' \in [Tasks -> TaskStatuses]
    BY <1>4 DEF Start, Typed, TypeOK, TaskStatuses
  <2>6. QED BY <1>4, <2>4, <2>5 DEF Start, Typed, TypeOK, storeVars, history
<1>5. QED BY <1>1, <1>2, <1>3, <1>4

LEMMA CopyTyped ==
  ASSUME Typed, NEW t \in Tasks, CopyStep(t)
  PROVE  Typed'
<1> USE DEF storeVars, history
<1>1. CASE CopyCanceled(t) \/ CopyDone(t)
  BY <1>1, EndType DEF CopyCanceled, CopyDone, TaskStatuses
<1>2. ASSUME NEW f \in Files,
             \/ CopySkip(t, f) \/ CopyNext(t, f) \/ CopyInsert(t, f)
             \/ CopyGet(t, f) \/ CopyGetFail(t, f)
             \/ CopyPut(t, f) \/ CopyPutFail(t, f) \/ CopyMark(t, f)
      PROVE  Typed'
  <2> DEFINE g == run[t]
  <2>1. g.pc \in CopySteps /\ Fits(req[t], g)
    BY <1>2 DEF CopySkip, CopyNext, CopyInsert, CopyGet, CopyGetFail,
                CopyPut, CopyPutFail, CopyMark, CopySteps, Typed
  <2>2. g \in CopyRun /\ req[t] \in CopyRequest
    BY <2>1, CopyShape
  <2>3. req[t].dst \in Providers /\ req[t].src \in Providers
    BY <2>2 DEF CopyRequest
  <2>4. ASSUME NEW h \in CopyRun, run' = [run EXCEPT ![t] = h],
               UNCHANGED <<req, status, del, crashes, file>>,
               clashed' \in SUBSET Items, UNCHANGED doomed,
               loc' \in [Files -> [Providers -> LocationStatuses]],
               object' \in [Files -> [Providers -> Objects]]
        PROVE  Typed'
    BY <2>2, <2>4, RunType DEF Fits, Typed, TypeOK
  <2>5. CASE CopySkip(t, f)
    <3>1. [g EXCEPT !.todo = @ \ {f}] \in CopyRun
      BY <2>2 DEF CopyRun
    <3>2. QED BY <2>4, <2>5, <3>1 DEF CopySkip, Typed, TypeOK
  <2>6. CASE CopyNext(t, f)
    <3>1. [g EXCEPT !.todo = @ \ {f}, !.cur = {f}, !.pc = "insert"]
            \in CopyRun
      BY <2>2 DEF CopyRun, CopySteps
    <3>2. clashed' \in SUBSET Items
      BY <2>3, <2>6 DEF CopyNext, Typed, TypeOK, Items
    <3>3. QED BY <2>4, <2>6, <3>1, <3>2 DEF CopyNext, Typed, TypeOK
  <2>7. CASE CopyInsert(t, f)
    <3>1. [g EXCEPT !.pc = "get"] \in CopyRun
      BY <2>2 DEF CopyRun, CopySteps
    <3>2. [loc[f] EXCEPT ![req[t].dst] = "pending"]
            \in [Providers -> LocationStatuses]
      BY DEF Typed, TypeOK, LocationStatuses
    <3>3. loc' \in [Files -> [Providers -> LocationStatuses]]
      BY <2>7, <3>2 DEF CopyInsert, Typed, TypeOK
    <3>4. QED BY <2>4, <2>7, <3>1, <3>3 DEF CopyInsert, Typed, TypeOK
  <2>8. CASE CopyGet(t, f)
    <3>1. PICK data \in {object[f][req[t].src]}
                        \cup (IF StoreFails THEN {"cut"} ELSE {}) :
            run' = [run EXCEPT ![t].pc = "put", ![t].data = data]
      BY <2>8 DEF CopyGet
    <3>2. data \in Objects
      BY <2>3 DEF Objects, Typed, TypeOK
    <3>3. [g EXCEPT !.pc = "put", !.data = data] \in CopyRun
      BY <2>2, <3>2 DEF CopyRun, CopySteps
    <3>4. UNCHANGED <<storeVars, req, status, del, crashes>>
      BY <2>8 DEF CopyGet
    <3>5. /\ clashed \in SUBSET Items
          /\ loc \in [Files -> [Providers -> LocationStatuses]]
          /\ object \in [Files -> [Providers -> Objects]]
      BY DEF Typed, TypeOK
    <3>6. QED BY <2>4, <3>1, <3>3, <3>4, <3>5
  <2>9. CASE CopyGetFail(t, f)
    <3>1. [g EXCEPT !.pc = "mark"] \in CopyRun
      BY <2>2 DEF CopyRun, CopySteps
    <3>2. QED BY <2>4, <2>9, <3>1 DEF CopyGetFail, Typed, TypeOK
  <2>10. CASE CopyPut(t, f)
    <3>1. [g EXCEPT !.pc = "mark"] \in CopyRun
      BY <2>2 DEF CopyRun, CopySteps
    <3>2. [object[f] EXCEPT ![req[t].dst] = g.data] \in [Providers -> Objects]
      BY <2>2 DEF CopyRun, Typed, TypeOK
    <3>3. object' \in [Files -> [Providers -> Objects]]
      BY <2>10, <3>2 DEF CopyPut, Typed, TypeOK
    <3>4. QED BY <2>4, <2>10, <3>1, <3>3 DEF CopyPut, Typed, TypeOK
  <2>11. CASE CopyPutFail(t, f)
    <3>1. [g EXCEPT !.pc = "mark", !.data = Absent] \in CopyRun
      BY <2>2 DEF CopyRun, CopySteps, Objects
    <3>2. [object[f] EXCEPT ![req[t].dst] = g.data] \in [Providers -> Objects]
      BY <2>2 DEF CopyRun, Typed, TypeOK
    <3>3. object' \in [Files -> [Providers -> Objects]]
      BY <2>11, <3>2 DEF CopyPutFail, Typed, TypeOK
    <3>4. QED BY <2>4, <2>11, <3>1, <3>3 DEF CopyPutFail, Typed, TypeOK
  <2>12. CASE CopyMark(t, f)
    <3>1. [g EXCEPT !.pc = "next", !.cur = {}, !.data = Absent] \in CopyRun
      BY <2>2 DEF CopyRun, CopySteps, Objects
    <3>2. PICK s \in LocationStatuses : SetLocation(f, req[t].dst, s)
      BY <2>12 DEF CopyMark, LocationStatuses
    <3>3. loc' \in [Files -> [Providers -> LocationStatuses]]
      BY <2>3, <3>2, SetLocationType DEF Typed, TypeOK
    <3>4. QED BY <2>4, <2>12, <3>1, <3>3 DEF CopyMark, Typed, TypeOK
  <2>13. QED BY <1>2, <2>5, <2>6, <2>7, <2>8, <2>9, <2>10, <2>11, <2>12
<1>3. QED BY <1>1, <1>2 DEF CopyStep

LEMMA VerifyTyped ==
  ASSUME Typed, NEW t \in Tasks, VerifyStep(t)
  PROVE  Typed'
<1> USE DEF storeVars, history
<1>1. CASE VerifyCanceled(t) \/ VerifyDone(t)
  BY <1>1, EndType DEF VerifyCanceled, VerifyDone, TaskStatuses
<1>2. ASSUME NEW h \in VerifyRun, run[t].pc \in {"check", "receive"},
             run' = [run EXCEPT ![t] = h], UNCHANGED <<req, status, del,
             crashes, file, object, history>>,
             loc' \in [Files -> [Providers -> LocationStatuses]]
      PROVE  Typed'
  <2>1. run[t] \in VerifyRun /\ req[t] \in VerifyRequest
    BY <1>2, VerifyShape DEF Typed
  <2>2. QED BY <1>2, <2>1, RunType DEF Fits, Typed, TypeOK
<1>3. ASSUME run[t].pc \in {"check", "receive"}
      PROVE  run[t] \in VerifyRun /\ req[t] \in VerifyRequest
  BY <1>3, VerifyShape DEF Typed
<1>4. CASE VerifyAwait(t)
  <2>1. [run[t] EXCEPT !.pc = "receive"] \in VerifyRun
    BY <1>3, <1>4 DEF VerifyAwait, VerifyRun
  <2>2. QED BY <1>2, <1>4, <2>1 DEF VerifyAwait, Typed, TypeOK
<1>5. ASSUME NEW i \in Items, Head(t, i)
      PROVE  Typed'
  <2>1. PICK well \in BOOLEAN :
          run' = [run EXCEPT ![t].todo = @ \ {i},
                             ![t].answers = @ \cup {<<i, well>>}]
    BY <1>5 DEF Head
  <2>2. [run[t] EXCEPT !.todo = @ \ {i}, !.answers = @ \cup {<<i, well>>}]
          \in VerifyRun
    <3>1. run[t] \in VerifyRun
      BY <1>3, <1>5 DEF Head
    <3>2. <<i, well>> \in Items \X BOOLEAN
      OBVIOUS
    <3>3. QED BY <3>1, <3>2 DEF VerifyRun
  <2>3. QED BY <1>2, <1>5, <2>1, <2>2 DEF Head, Typed, TypeOK
<1>6. ASSUME NEW i \in Items, NEW well \in BOOLEAN,
             VerifyReceive(t, <<i, well>>)
      PROVE  Typed'
  <2>1. [run[t] EXCEPT !.pc = "check", !.answers = @ \ {<<i, well>>}]
          \in VerifyRun
    BY <1>3, <1>6 DEF VerifyReceive, VerifyRun
  <2>2. i[1] \in Files /\ i[2] \in Providers
    BY DEF Items
  <2>3. SetLocation(i[1], i[2], "missing") \/ UNCHANGED loc
    BY <1>6 DEF VerifyReceive
  <2>4. loc' \in [Files -> [Providers -> LocationStatuses]]
    BY <2>2, <2>3, SetLocationType DEF Typed, TypeOK, LocationStatuses
  <2>5. QED BY <1>2, <1>6, <2>1, <2>4 DEF VerifyReceive
<1>7. QED BY <1>1, <1>4, <1>5, <1>6 DEF VerifyStep

LEMMA DeletionTyped ==
  ASSUME Typed, NEW d \in Deleters,
         DeleteStep(d) \/ \E f \in Files : DeleteRead(d, f)
  PROVE  Typed'
<1> USE DEF storeVars, taskVars, history
<1> DEFINE g == del[d]
<1>1. ASSUME NEW h \in Deletion, SetDeletion(d, h), UNCHANGED clashed,
             doomed' \in SUBSET Files,
             file' \in [Files -> {NoRow, "stored", "deleted"}],
             loc' \in [Files -> [Providers -> LocationStatuses]],
             object' \in [Files -> [Providers -> Objects]]
      PROVE  Typed'
  BY <1>1 DEF SetDeletion, Typed, TypeOK
<1>2. Idle \in Deletion
  BY DEF Deletion
<1>3. DeletionRun \subseteq Deletion
  BY DEF Deletion, DeletionRun
<1>4. ASSUME g.pc \in {"list", "primary", "remove", "commit"}
      PROVE  g \in DeletionRun /\ g.file \in Files
  <2>1. g \in Deletion /\ g # Idle
    BY <1>4 DEF Typed, TypeOK, Idle
  <2>2. QED BY <2>1, DeletionShape DEF DeletionRun
<1>5. ASSUME NEW f \in Files, NEW p \in Providers
      PROVE  /\ [object EXCEPT ![f][p] = Absent]
                  \in [Files -> [Providers -> Objects]]
             /\ object \in [Files -> [Providers -> Objects]]
  <2>1. [object[f] EXCEPT ![p] = Absent] \in [Providers -> Objects]
    BY DEF Typed, TypeOK, Objects
  <2>2. QED BY <2>1 DEF Typed, TypeOK
<1>6. ASSUME NEW f \in Files, DeleteRead(d, f)
      PROVE  Typed'
  <2>1. PICK pc \in {"list", "primary"} :
          SetDeletion(d, [pc |-> pc, file |-> f, todo |-> {}, gone |-> {},
                          left |-> {}])
    BY <1>6 DEF DeleteRead
  <2>2. [pc |-> pc, file |-> f, todo |-> {}, gone |-> {}, left |-> {}]
          \in Deletion
    BY DEF Deletion
  <2>3. QED BY <1>1, <1>6, <2>1, <2>2 DEF DeleteRead, Typed, TypeOK
<1>7. CASE DeleteList(d)
  <2>1. /\ [g EXCEPT !.pc = "remove", !.todo = ActiveAt(g.file)] \in Deletion
        /\ [g EXCEPT !.pc = "primary"] \in Deletion
    BY <1>3, <1>4, <1>7 DEF DeleteList, Deleting, DeletionRun, ActiveAt
  <2>2. QED BY <1>1, <1>7, <2>1 DEF DeleteList, Typed, TypeOK
<1>8. ASSUME NEW p \in Providers,
             DeleteObject(d, p) \/ DeleteObjectFail(d, p)
      PROVE  Typed'
  <2>1. g \in DeletionRun /\ g.file \in Files
    BY <1>4, <1>8 DEF DeleteObject, DeleteObjectFail, Deleting
  <2>2. /\ [g EXCEPT !.todo = @ \ {p}, !.gone = @ \cup {p}] \in Deletion
        /\ [g EXCEPT !.todo = @ \ {p}, !.left = @ \cup {p}] \in Deletion
    BY <1>3, <2>1 DEF DeletionRun
  <2>3. object' \in [Files -> [Providers -> Objects]]
    BY <1>5, <1>8, <2>1 DEF DeleteObject, DeleteObjectFail
  <2>4. QED BY <1>1, <1>8, <2>2, <2>3
            DEF DeleteObject, DeleteObjectFail, Typed, TypeOK
<1>9. ASSUME NEW p \in Providers, DeleteMark(d, p)
      PROVE  Typed'
  <2>1. g \in DeletionRun /\ g.file \in Files
    BY <1>4, <1>9 DEF DeleteMark, Deleting
  <2>2. [g EXCEPT !.gone = @ \ {p}, !.left = @ \ {p}] \in Deletion
    BY <1>3, <2>1 DEF DeletionRun
  <2>3. loc' \in [Files -> [Providers -> LocationStatuses]]
    BY <1>9, <2>1, SetLocationType
    DEF DeleteMark, Typed, TypeOK, LocationStatuses
  <2>4. QED BY <1>1, <1>9, <2>2, <2>3 DEF DeleteMark, Typed, TypeOK
<1>10. CASE DeletePrimary(d) \/ DeletePrimaryFail(d)
  <2>1. g \in DeletionRun /\ g.file \in Files
    BY <1>4, <1>10 DEF DeletePrimary, DeletePrimaryFail, Deleting
  <2>2. [g EXCEPT !.pc = "commit"] \in Deletion
    BY <1>3, <2>1 DEF DeletionRun
  <2>3. /\ [object EXCEPT ![g.file][Primary] = Absent]
              \in [Files -> [Providers -> Objects]]
        /\ object \in [Files -> [Providers -> Objects]]
    BY <1>5, <2>1, ReplicasAssumption
  <2>4. QED BY <1>1, <1>2, <1>10, <2>2, <2>3
            DEF DeletePrimary, DeletePrimaryFail, Typed, TypeOK
<1>11. CASE DeleteCommit(d)
  <2>1. g.file \in Files
    BY <1>4, <1>11 DEF DeleteCommit, ReadyToCommit, Deleting
  <2>2. /\ file' \in [Files -> {NoRow, "stored", "deleted"}]
        /\ loc' \in [Files -> [Providers -> LocationStatuses]]
    BY <1>11, <2>1 DEF DeleteCommit, Typed, TypeOK, LocationStatuses
  <2>3. QED BY <1>1, <1>2, <1>11, <2>2 DEF DeleteCommit, Typed, TypeOK
<1>12. CASE DeleteFail(d)
  BY <1>1, <1>2, <1>12 DEF DeleteFail, Typed, TypeOK
<1>13. QED BY <1>6, <1>7, <1>8, <1>9, <1>10, <1>11, <1>12 DEF DeleteStep

LEMMA NextTyped ==
  ASSUME Typed, [Next]_vars
  PROVE  Typed'
<1> USE DEF storeVars, taskVars, history
<1>1. ASSUME NEW f \in Files, Upload(f)
      PROVE  Typed'
  <2>1. /\ [loc[f] EXCEPT ![Primary] = "active"]
              \in [Providers -> LocationStatuses]
        /\ [object[f] EXCEPT ![Primary] = "whole"] \in [Providers -> Objects]
    BY DEF Typed, TypeOK, LocationStatuses, Objects
  <2>2. /\ loc' \in [Files -> [Providers -> LocationStatuses]]
        /\ object' \in [Files -> [Providers -> Objects]]
    BY <1>1, <2>1 DEF Upload, Typed, TypeOK
  <2>3. QED BY <1>1, <2>2 DEF Upload, Typed, TypeOK
<1>2. CASE Restart
  <2>1. /\ run' \in [Tasks -> Goroutine]
        /\ \A t \in Tasks : Fits(req'[t], run'[t])
    BY <1>2 DEF Restart, Fits, Goroutine
  <2>2. status' \in [Tasks -> TaskStatuses]
    BY <1>2 DEF Restart, Stale, Typed, TypeOK, TaskStatuses
  <2>3. del' \in [Deleters -> Deletion]
    BY <1>2 DEF Restart, Deletion
  <2>4. crashes' \in 0 .. MaxCrashes
    BY <1>2, ReplicasAssumption DEF Restart, Typed, TypeOK
  <2>5. QED BY <1>2, <2>1, <2>2, <2>3, <2>4 DEF Restart, Typed, TypeOK
<1>3. CASE UNCHANGED vars
  BY <1>3 DEF vars, Typed, TypeOK
<1>4. QED BY <1>1, <1>2, <1>3, CommandTyped, CopyTyped, VerifyTyped,
             DeletionTyped DEF Next

(***************************************************************************)
(* Whatever tasks, deletions and restarts do, the state is well typed, and *)
(* the goroutine of a task is of the kind that was submitted.              *)
(***************************************************************************)
THEOREM TypedHolds == Spec => []Typed
  BY InitTyped, NextTyped, PTL DEF Spec

\* Every reachable state is well typed.
THEOREM TypeCorrect == Spec => []TypeOK
  BY TypedHolds, PTL DEF Typed

-----------------------------------------------------------------------------
(***************************************************************************)
(* An active location has an object.  What it takes beside the property:   *)
(* what a copy is about to call a success is at the destination by now,    *)
(* and a deletion works on a file that is doomed.                          *)
(***************************************************************************)

\* r and g are the request and the goroutine of a task, dm the doomed files,
\* ob the objects.
Carries(r, g, dm, ob) ==
  r.kind = "copy" /\ g # Idle =>
    /\ \A e, f \in g.cur : e = f
    /\ g.pc \in {"wait", "next", "insert", "get"} => g.data = Absent
    /\ g.pc = "put" => g.data # Absent
    /\ g.pc = "mark" /\ g.data # Absent =>
         \A f \in g.cur \ dm : ob[f][r.dst] # Absent

\* No object of a file outside dm is lost from ob to qb.
Keeps(ob, qb, dm) ==
  \A f \in Files \ dm, p \in Providers : ob[f][p] # Absent => qb[f][p] # Absent

Safe ==
  /\ Typed
  /\ \A t \in Tasks : Carries(req[t], run[t], doomed, object)
  /\ \A d \in Deleters : del[d] # Idle => del[d].file \in doomed
  /\ ActiveHasObject

LEMMA CarriesStays ==
  ASSUME NEW r, NEW g, NEW dm, NEW ob, NEW em, NEW qb,
         Fits(r, g), Carries(r, g, dm, ob), dm \subseteq em,
         Keeps(ob, qb, em)
  PROVE  Carries(r, g, em, qb)
<1>1. CASE r.kind = "copy" /\ g # Idle
  <2>1. r \in CopyRequest /\ g \in CopyRun
    BY <1>1 DEF Fits, VerifyRequest
  <2>2. r.dst \in Providers /\ g.cur \subseteq Files
    BY <2>1 DEF CopyRequest, CopyRun
  <2>3. QED BY <1>1, <2>2 DEF Carries, Keeps
<1>2. QED BY <1>1 DEF Carries

LEMMA InitSafe == Init => Safe
  BY InitTyped DEF Init, Safe, Carries, ActiveHasObject, NoRow

\* A step of one task, and of no deletion.
LEMMA RunSafe ==
  ASSUME Safe, Typed', NEW t \in Tasks, NEW h, run' = [run EXCEPT ![t] = h],
         UNCHANGED <<req, doomed, del>>, Keeps(object, object', doomed),
         Carries(req[t], h, doomed, object'), ActiveHasObject'
  PROVE  Safe'
<1>1. ASSUME NEW x \in Tasks
      PROVE  Carries(req'[x], run'[x], doomed', object')
  <2>1. CASE x = t
    <3>1. run'[x] = h
      BY <2>1 DEF Safe, Typed, TypeOK
    <3>2. QED BY <2>1, <3>1
  <2>2. CASE x # t
    <3>1. run'[x] = run[x]
      BY <2>2 DEF Safe, Typed, TypeOK
    <3>2. Fits(req[x], run[x]) /\ Carries(req[x], run[x], doomed, object)
      BY DEF Safe, Typed
    <3>3. Carries(req[x], run[x], doomed, object')
      BY <3>2, CarriesStays
    <3>4. QED BY <3>1, <3>3
  <2>3. QED BY <2>1, <2>2
<1>2. QED BY <1>1 DEF Safe

\* A step of no task.
LEMMA StoreSafe ==
  ASSUME Safe, Typed', UNCHANGED taskVars, doomed \subseteq doomed',
         Keeps(object, object', doomed'),
         \A d \in Deleters : del'[d] # Idle => del'[d].file \in doomed',
         ActiveHasObject'
  PROVE  Safe'
<1>1. ASSUME NEW x \in Tasks
      PROVE  Carries(req'[x], run'[x], doomed', object')
  <2>1. Fits(req[x], run[x]) /\ Carries(req[x], run[x], doomed, object)
    BY DEF Safe, Typed
  <2>2. Carries(req[x], run[x], doomed', object')
    BY <2>1, CarriesStays
  <2>3. QED BY <2>2 DEF taskVars
<1>2. QED BY <1>1 DEF Safe

LEMMA KeepsAll ==
  ASSUME NEW ob, NEW dm
  PROVE  Keeps(ob, ob, dm)
  BY DEF Keeps

LEMMA ActiveStays ==
  ASSUME Safe, UNCHANGED <<loc, doomed>>, Keeps(object, object', doomed)
  PROVE  ActiveHasObject'
  BY DEF Safe, ActiveHasObject, Keeps

LEMMA EndSafe ==
  ASSUME Safe, NEW t \in Tasks, NEW s \in TaskStatuses, End(t, s)
  PROVE  Safe'
<1>1. Typed'
  BY EndType DEF Safe
<1>2. Keeps(object, object', doomed)
  BY DEF End, storeVars, Keeps
<1>3. ActiveHasObject'
  BY <1>2, ActiveStays DEF End, storeVars, history
<1>4. Carries(req[t], Idle, doomed, object')
  BY DEF Carries
<1>5. QED BY <1>1, <1>2, <1>3, <1>4, RunSafe DEF End, storeVars, history

LEMMA CommandSafe ==
  ASSUME Safe, NEW t \in Tasks,
         SubmitCopy(t) \/ SubmitVerify(t) \/ Cancel(t) \/ Start(t)
  PROVE  Safe'
<1>1. Typed'
  BY CommandTyped DEF Safe
<1>2. UNCHANGED <<file, loc, object, doomed, clashed, del>>
  BY DEF SubmitCopy, SubmitVerify, Submit, Cancel, Start, storeVars, history
<1>3. Keeps(object, object', doomed)
  BY <1>2, KeepsAll
<1>4. ActiveHasObject'
  BY <1>2, <1>3, ActiveStays
<1>5. ASSUME NEW r, NEW g, Submit(t, r, g), Carries(r, g, doomed, object)
      PROVE  Safe'
  <2>1. \A x \in Tasks : /\ req'[x] = IF x = t THEN r ELSE req[x]
                         /\ run'[x] = IF x = t THEN g ELSE run[x]
    BY <1>5 DEF Submit, Safe, Typed, TypeOK
  <2>2. \A x \in Tasks : Carries(req'[x], run'[x], doomed, object)
    BY <1>5, <2>1 DEF Safe
  <2>3. QED BY <1>1, <1>2, <1>4, <2>2 DEF Safe
<1>6. CASE SubmitCopy(t)
  <2>1. PICK r, todo : Submit(t, r, Waiting(todo))
    BY <1>6 DEF SubmitCopy
  <2>2. Carries(r, Waiting(todo), doomed, object)
    BY DEF Carries, Waiting
  <2>3. QED BY <1>5, <2>1, <2>2
<1>7. CASE SubmitVerify(t)
  <2>1. PICK fix, items :
          Submit(t, [kind |-> "verify", fix |-> fix], Listed(items))
    BY <1>7 DEF SubmitVerify
  <2>2. Carries([kind |-> "verify", fix |-> fix], Listed(items), doomed,
                object)
    BY DEF Carries
  <2>3. QED BY <1>5, <2>1, <2>2
<1>8. CASE Cancel(t)
  <2> DEFINE h == [run[t] EXCEPT !.canceled = TRUE]
  <2>1. Fits(req[t], run[t]) /\ Carries(req[t], run[t], doomed, object)
    BY DEF Safe, Typed
  <2>2. run[t] # Idle
    BY <1>8 DEF Cancel
  <2>3. Carries(req[t], h, doomed, object)
    <3>1. CASE req[t].kind = "copy"
      <4>1. run[t] \in CopyRun
        BY <2>1, <2>2, <3>1 DEF Fits, VerifyRequest
      <4>2. /\ h.pc = run[t].pc /\ h.cur = run[t].cur
            /\ h.data = run[t].data
        BY <4>1 DEF CopyRun
      <4>3. QED BY <2>1, <2>2, <4>2 DEF Carries
    <3>2. QED BY <3>1 DEF Carries
  <2>4. QED BY <1>1, <1>2, <1>3, <1>4, <1>8, <2>3, RunSafe DEF Cancel
<1>9. CASE Start(t)
  <2> DEFINE h == [run[t] EXCEPT !.pc =
                     IF req[t].kind = "copy" THEN "next" ELSE "check"]
  <2>1. Fits(req[t], run[t]) /\ Carries(req[t], run[t], doomed, object)
    BY DEF Safe, Typed
  <2>2. run[t] # Idle /\ run[t].pc = "wait"
    BY <1>9 DEF Start, Idle
  <2>3. Carries(req[t], h, doomed, object)
    <3>1. CASE req[t].kind = "copy"
      <4>1. run[t] \in CopyRun
        BY <2>1, <2>2, <3>1 DEF Fits, VerifyRequest
      <4>2. /\ h.pc = "next" /\ h.cur = run[t].cur
            /\ h.data = run[t].data
        BY <3>1, <4>1 DEF CopyRun
      <4>3. QED BY <2>1, <2>2, <3>1, <4>2 DEF Carries
    <3>2. QED BY <3>1 DEF Carries
  <2>4. Carries(req[t], Idle, doomed, object)
    BY DEF Carries
  <2>5. run' = [run EXCEPT ![t] = h] \/ run' = [run EXCEPT ![t] = Idle]
    BY <1>9 DEF Start
  <2>6. UNCHANGED req
    BY <1>9 DEF Start
  <2> HIDE DEF h
  <2>7. QED BY <1>1, <1>2, <1>3, <1>4, <2>3, <2>4, <2>5, <2>6, RunSafe
<1>10. QED BY <1>6, <1>7, <1>8, <1>9

\* What the status a location is set to may say.
LEMMA SetLocationSafe ==
  ASSUME Safe, NEW f \in Files, NEW p \in Providers, NEW s,
         SetLocation(f, p, s), UNCHANGED <<object, doomed>>,
         s = "active" /\ f \notin doomed => object[f][p] # Absent
  PROVE  ActiveHasObject'
<1>1. \A e \in Files, q \in Providers :
        loc'[e][q] = loc[e][q] \/ (e = f /\ q = p /\ loc'[e][q] = s)
  <2>1. CASE UNCHANGED loc
    BY <2>1
  <2>2. CASE loc' = [loc EXCEPT ![f][p] = s]
    BY <2>2 DEF Safe, Typed, TypeOK
  <2>3. QED BY <2>1, <2>2 DEF SetLocation
<1>2. QED BY <1>1 DEF Safe, ActiveHasObject

\* An object that is put is there, and the others are as they were.
LEMMA PutKeeps ==
  ASSUME Typed, NEW f \in Files, NEW p \in Providers, NEW data,
         data # Absent, object' = [object EXCEPT ![f][p] = data]
  PROVE  Keeps(object, object', doomed) /\ object'[f][p] # Absent
  BY DEF Typed, TypeOK, Keeps

LEMMA CopySafe ==
  ASSUME Safe, NEW t \in Tasks, CopyStep(t)
  PROVE  Safe'
<1> USE DEF storeVars, history
<1>1. CASE CopyCanceled(t) \/ CopyDone(t)
  BY <1>1, EndSafe DEF CopyCanceled, CopyDone, TaskStatuses
<1>2. Typed'
  BY CopyTyped DEF Safe
<1>3. ASSUME NEW f \in Files,
             \/ CopySkip(t, f) \/ CopyNext(t, f) \/ CopyInsert(t, f)
             \/ CopyGet(t, f) \/ CopyGetFail(t, f)
             \/ CopyPut(t, f) \/ CopyPutFail(t, f) \/ CopyMark(t, f)
      PROVE  Safe'
  <2> DEFINE g == run[t]
             dst == req[t].dst
  <2>1. g.pc \in CopySteps /\ Fits(req[t], g)
    BY <1>3 DEF CopySkip, CopyNext, CopyInsert, CopyGet, CopyGetFail,
                CopyPut, CopyPutFail, CopyMark, CopySteps, Safe, Typed
  <2>2. g \in CopyRun /\ req[t] \in CopyRequest
    BY <2>1, CopyShape
  <2>3. dst \in Providers /\ req[t].kind = "copy" /\ g # Idle
    BY <2>1, <2>2 DEF CopyRequest, Idle, CopySteps
  <2>4. Carries(req[t], g, doomed, object)
    BY DEF Safe
  <2>5. UNCHANGED <<req, doomed, del>>
    BY <1>3 DEF CopySkip, CopyNext, CopyInsert, CopyGet, CopyGetFail,
                CopyPut, CopyPutFail, CopyMark
  <2>6. ASSUME NEW h, run' = [run EXCEPT ![t] = h],
               UNCHANGED <<loc, object>>, Carries(req[t], h, doomed, object)
        PROVE  Safe'
    <3>1. Keeps(object, object', doomed)
      BY <2>6, KeepsAll
    <3>2. ActiveHasObject'
      BY <2>5, <2>6, <3>1, ActiveStays
    <3>3. QED BY <1>2, <2>5, <2>6, <3>1, <3>2, RunSafe
  <2>7. CASE CopySkip(t, f)
    <3>1. Carries(req[t], [g EXCEPT !.todo = @ \ {f}], doomed, object)
      BY <2>2, <2>4 DEF Carries, CopyRun, Idle
    <3>2. QED BY <2>6, <2>7, <3>1 DEF CopySkip
  <2>8. CASE CopyNext(t, f)
    <3>1. Carries(req[t], [g EXCEPT !.todo = @ \ {f}, !.cur = {f},
                                    !.pc = "insert"], doomed, object)
      BY <2>2, <2>3, <2>4, <2>8 DEF CopyNext, Carries, CopyRun
    <3>2. QED BY <2>6, <2>8, <3>1 DEF CopyNext
  <2>9. CASE CopyInsert(t, f)
    <3> DEFINE h == [g EXCEPT !.pc = "get"]
    <3>1. Carries(req[t], h, doomed, object)
      BY <2>2, <2>3, <2>4, <2>9 DEF CopyInsert, Carries, CopyRun
    <3>2. UNCHANGED object /\ Keeps(object, object, doomed)
      BY <2>9, KeepsAll DEF CopyInsert
    <3>3. loc' = [loc EXCEPT ![f][dst] = "pending"] \/ UNCHANGED loc
      BY <2>9 DEF CopyInsert
    <3>4. \A e \in Files, p \in Providers :
            loc'[e][p] = loc[e][p] \/ loc'[e][p] = "pending"
      BY <2>3, <3>3 DEF Safe, Typed, TypeOK
    <3>5. ActiveHasObject'
      BY <2>5, <3>2, <3>4 DEF Safe, ActiveHasObject
    <3>6. run' = [run EXCEPT ![t] = h]
      BY <2>9 DEF CopyInsert
    <3> HIDE DEF h
    <3>7. QED BY <1>2, <2>5, <3>1, <3>2, <3>5, <3>6, RunSafe
  <2>10. CASE CopyGet(t, f)
    <3>1. PICK data \in {object[f][req[t].src]}
                        \cup (IF StoreFails THEN {"cut"} ELSE {}) :
            run' = [run EXCEPT ![t].pc = "put", ![t].data = data]
      BY <2>10 DEF CopyGet
    <3>2. data # Absent
      BY <2>10 DEF CopyGet, Absent
    <3>3. Carries(req[t], [g EXCEPT !.pc = "put", !.data = data], doomed,
                  object)
      BY <2>2, <2>3, <2>4, <3>2 DEF Carries, CopyRun
    <3>4. UNCHANGED <<loc, object>>
      BY <2>10 DEF CopyGet
    <3>5. QED BY <2>6, <3>1, <3>3, <3>4
  <2>11. CASE CopyGetFail(t, f)
    <3>1. Carries(req[t], [g EXCEPT !.pc = "mark"], doomed, object)
      BY <2>2, <2>3, <2>4, <2>11 DEF CopyGetFail, Carries, CopyRun
    <3>2. QED BY <2>6, <2>11, <3>1 DEF CopyGetFail
  <2>12. CASE CopyPut(t, f) \/ CopyPutFail(t, f)
    <3>1. g.data # Absent /\ f \in g.cur /\ \A e \in g.cur : e = f
      BY <2>3, <2>4, <2>12 DEF CopyPut, CopyPutFail, Carries
    <3>2. \/ object' = [object EXCEPT ![f][dst] = g.data]
          \/ UNCHANGED object
      BY <2>12 DEF CopyPut, CopyPutFail
    <3>3. Keeps(object, object', doomed)
      BY <2>3, <3>1, <3>2, PutKeeps, KeepsAll DEF Safe
    <3>4. UNCHANGED loc
      BY <2>12 DEF CopyPut, CopyPutFail
    <3>5. ActiveHasObject'
      BY <2>5, <3>3, <3>4, ActiveStays
    <3>6. CASE CopyPut(t, f)
      <4> DEFINE h == [g EXCEPT !.pc = "mark"]
      <4>1. h.pc = "mark" /\ h.cur = g.cur /\ h.data = g.data
        BY <2>2 DEF CopyRun
      <4>2. object'[f][dst] # Absent
        BY <2>3, <3>1, <3>6, PutKeeps DEF CopyPut, Safe
      <4>3. Carries(req[t], h, doomed, object')
        BY <2>3, <2>4, <3>1, <4>1, <4>2 DEF Carries
      <4>4. run' = [run EXCEPT ![t] = h]
        BY <3>6 DEF CopyPut
      <4> HIDE DEF h
      <4>5. QED BY <1>2, <2>5, <3>3, <3>5, <4>3, <4>4, RunSafe
    <3>7. CASE CopyPutFail(t, f)
      <4> DEFINE h == [g EXCEPT !.pc = "mark", !.data = Absent]
      <4>1. h.pc = "mark" /\ h.cur = g.cur /\ h.data = Absent
        BY <2>2 DEF CopyRun
      <4>2. Carries(req[t], h, doomed, object')
        BY <2>3, <2>4, <3>1, <4>1 DEF Carries
      <4>3. run' = [run EXCEPT ![t] = h]
        BY <3>7 DEF CopyPutFail
      <4> HIDE DEF h
      <4>4. QED BY <1>2, <2>5, <3>3, <3>5, <4>2, <4>3, RunSafe
    <3>8. QED BY <2>12, <3>6, <3>7
  <2>13. CASE CopyMark(t, f)
    <3> DEFINE h == [g EXCEPT !.pc = "next", !.cur = {}, !.data = Absent]
    <3>1. PICK well \in CopiedWell(t, f) :
            SetLocation(f, dst, IF well THEN "active" ELSE "failed")
      BY <2>13 DEF CopyMark
    <3>2. well => g.data # Absent
      BY DEF CopiedWell
    <3>3. g.data # Absent /\ f \notin doomed => object[f][dst] # Absent
      BY <2>3, <2>4, <2>13 DEF CopyMark, Carries
    <3>4. UNCHANGED object /\ Keeps(object, object, doomed)
      BY <2>13, KeepsAll DEF CopyMark
    <3>5. ActiveHasObject'
      BY <2>3, <2>5, <3>1, <3>2, <3>3, <3>4, SetLocationSafe
    <3>6. Carries(req[t], h, doomed, object)
      BY <2>2, <2>3 DEF Carries, CopyRun
    <3>7. run' = [run EXCEPT ![t] = h]
      BY <2>13 DEF CopyMark
    <3> HIDE DEF h
    <3>8. QED BY <1>2, <2>5, <3>4, <3>5, <3>6, <3>7, RunSafe
  <2>14. QED BY <1>3, <2>7, <2>8, <2>9, <2>10, <2>11, <2>12, <2>13
<1>4. QED BY <1>1, <1>3 DEF CopyStep

LEMMA VerifySafe ==
  ASSUME Safe, NEW t \in Tasks, VerifyStep(t)
  PROVE  Safe'
<1> USE DEF storeVars, history
<1>1. CASE VerifyCanceled(t) \/ VerifyDone(t)
  BY <1>1, EndSafe DEF VerifyCanceled, VerifyDone, TaskStatuses
<1>2. Typed'
  BY VerifyTyped DEF Safe
<1>3. ASSUME run[t].pc \in {"check", "receive"}
      PROVE  \A h : Carries(req[t], h, doomed, object)
  <2>1. req[t].kind = "verify"
    BY <1>3, VerifyShape DEF Safe, Typed, VerifyRequest
  <2>2. QED BY <2>1 DEF Carries
<1>4. ASSUME NEW h, Carries(req[t], h, doomed, object),
             run' = [run EXCEPT ![t] = h],
             UNCHANGED <<req, doomed, del, object>>, ActiveHasObject'
      PROVE  Safe'
  <2>1. Keeps(object, object', doomed) /\ Carries(req[t], h, doomed, object')
    BY <1>4, KeepsAll
  <2>2. QED BY <1>2, <1>4, <2>1, RunSafe
<1>5. ASSUME UNCHANGED <<loc, object, doomed>>
      PROVE  ActiveHasObject'
  BY <1>5 DEF Safe, ActiveHasObject
<1>6. CASE VerifyAwait(t)
  <2> DEFINE h == [run[t] EXCEPT !.pc = "receive"]
  <2>1. /\ run[t].pc \in {"check", "receive"}
        /\ run' = [run EXCEPT ![t] = h]
        /\ UNCHANGED <<req, doomed, del, loc, object>>
    BY <1>6 DEF VerifyAwait
  <2> HIDE DEF h
  <2>2. Carries(req[t], h, doomed, object) /\ ActiveHasObject'
    BY <1>3, <1>5, <2>1
  <2>3. QED BY <1>4, <2>1, <2>2
<1>7. ASSUME NEW i \in Items, Head(t, i)
      PROVE  Safe'
  <2>1. PICK well \in BOOLEAN :
          run' = [run EXCEPT ![t].todo = @ \ {i},
                             ![t].answers = @ \cup {<<i, well>>}]
    BY <1>7 DEF Head
  <2> DEFINE h == [run[t] EXCEPT !.todo = @ \ {i},
                                 !.answers = @ \cup {<<i, well>>}]
  <2>2. /\ run[t].pc \in {"check", "receive"}
        /\ run' = [run EXCEPT ![t] = h]
        /\ UNCHANGED <<req, doomed, del, loc, object>>
    BY <1>7, <2>1 DEF Head
  <2> HIDE DEF h
  <2>3. Carries(req[t], h, doomed, object) /\ ActiveHasObject'
    BY <1>3, <1>5, <2>2
  <2>4. QED BY <1>4, <2>2, <2>3
<1>8. ASSUME NEW i \in Items, NEW well \in BOOLEAN,
             VerifyReceive(t, <<i, well>>)
      PROVE  Safe'
  <2>1. i[1] \in Files /\ i[2] \in Providers
    BY DEF Items
  <2>2. SetLocation(i[1], i[2], "missing") \/ UNCHANGED loc
    BY <1>8 DEF VerifyReceive
  <2>3. UNCHANGED <<object, doomed, req, del>>
    BY <1>8 DEF VerifyReceive
  <2>4. ActiveHasObject'
    BY <1>5, <2>1, <2>2, <2>3, SetLocationSafe
  <2> DEFINE h == [run[t] EXCEPT !.pc = "check", !.answers = @ \ {<<i, well>>}]
  <2>5. run[t].pc \in {"check", "receive"} /\ run' = [run EXCEPT ![t] = h]
    BY <1>8 DEF VerifyReceive
  <2> HIDE DEF h
  <2>6. Carries(req[t], h, doomed, object)
    BY <1>3, <2>5
  <2>7. QED BY <1>4, <2>3, <2>4, <2>5, <2>6
<1>9. QED BY <1>1, <1>6, <1>7, <1>8 DEF VerifyStep

\* What a step of a deletion does: it dooms the file it works on, if it was
\* not, and leaves the others alone.
DeletionEffect ==
  /\ UNCHANGED taskVars
  /\ doomed \subseteq doomed'
  /\ \A d \in Deleters : del'[d] # Idle => del'[d].file \in doomed'
  /\ \A e \in Files \ doomed' :
       /\ file'[e] = file[e]
       /\ \A p \in Providers : /\ object'[e][p] = object[e][p]
                               /\ loc'[e][p] = loc[e][p]
  /\ \A e \in Files : file'[e] \in {file[e], "deleted"}

LEMMA DeletionDoes ==
  ASSUME Safe, NEW d \in Deleters,
         DeleteStep(d) \/ \E f \in Files : DeleteRead(d, f)
  PROVE  DeletionEffect
<1> USE DEF storeVars, history
<1> DEFINE f == del[d].file
<1>1. ASSUME NEW g, SetDeletion(d, g), g # Idle => g.file \in doomed',
             doomed \subseteq doomed',
             \A e \in Files \ doomed' :
               /\ file'[e] = file[e]
               /\ \A p \in Providers : /\ object'[e][p] = object[e][p]
                                       /\ loc'[e][p] = loc[e][p],
             \A e \in Files : file'[e] \in {file[e], "deleted"}
      PROVE  DeletionEffect
  <2>1. \A x \in Deleters : del'[x] # Idle => del'[x].file \in doomed'
    BY <1>1 DEF SetDeletion, Safe, Typed, TypeOK
  <2>2. QED BY <1>1, <2>1 DEF SetDeletion, DeletionEffect
<1>2. ASSUME del[d].pc \in {"list", "primary", "remove", "commit"}
      PROVE  del[d] \in DeletionRun /\ f \in Files /\ f \in doomed
  <2>1. del[d] \in Deletion /\ del[d] # Idle
    BY <1>2 DEF Safe, Typed, TypeOK, Idle
  <2>2. del[d] \in DeletionRun /\ f \in doomed
    BY <2>1, DeletionShape DEF Safe
  <2>3. QED BY <2>2 DEF DeletionRun
<1>3. ASSUME NEW p \in Providers, f \in Files, f \in doomed,
             UNCHANGED object \/ object' = [object EXCEPT ![f][p] = Absent]
      PROVE  \A e \in Files \ doomed, q \in Providers :
               object'[e][q] = object[e][q]
  BY <1>3 DEF Safe, Typed, TypeOK
<1>4. ASSUME NEW e \in Files, DeleteRead(d, e)
      PROVE  DeletionEffect
  <2>1. PICK pc : SetDeletion(d, [pc |-> pc, file |-> e, todo |-> {},
                                  gone |-> {}, left |-> {}])
    BY <1>4 DEF DeleteRead
  <2>2. QED BY <1>1, <1>4, <2>1 DEF DeleteRead
<1>5. CASE DeleteList(d)
  <2>1. PICK g : /\ SetDeletion(d, g)
                 /\ \/ g = [del[d] EXCEPT !.pc = "remove",
                                          !.todo = ActiveAt(f)]
                    \/ g = [del[d] EXCEPT !.pc = "primary"]
    BY <1>5 DEF DeleteList
  <2>2. g.file = f /\ f \in doomed
    BY <1>2, <1>5, <2>1 DEF DeleteList, Deleting, DeletionRun
  <2>3. QED BY <1>1, <1>5, <2>1, <2>2 DEF DeleteList
<1>6. ASSUME NEW p \in Providers,
             DeleteObject(d, p) \/ DeleteObjectFail(d, p)
      PROVE  DeletionEffect
  <2>1. PICK g : /\ SetDeletion(d, g)
                 /\ \/ g = [del[d] EXCEPT !.todo = @ \ {p},
                                          !.gone = @ \cup {p}]
                    \/ g = [del[d] EXCEPT !.todo = @ \ {p},
                                          !.left = @ \cup {p}]
    BY <1>6 DEF DeleteObject, DeleteObjectFail
  <2>2. del[d] \in DeletionRun /\ f \in Files /\ f \in doomed
    BY <1>2, <1>6 DEF DeleteObject, DeleteObjectFail, Deleting
  <2>3. g.file = f
    BY <2>1, <2>2 DEF DeletionRun
  <2>4. UNCHANGED object \/ object' = [object EXCEPT ![f][p] = Absent]
    BY <1>6 DEF DeleteObject, DeleteObjectFail
  <2>5. \A e \in Files \ doomed, q \in Providers :
          object'[e][q] = object[e][q]
    BY <1>3, <2>2, <2>4
  <2>6. UNCHANGED <<file, loc, doomed>>
    BY <1>6 DEF DeleteObject, DeleteObjectFail
  <2>7. QED BY <1>1, <2>1, <2>2, <2>3, <2>5, <2>6
<1>7. ASSUME NEW p \in Providers, DeleteMark(d, p)
      PROVE  DeletionEffect
  <2> DEFINE g == [del[d] EXCEPT !.gone = @ \ {p}, !.left = @ \ {p}]
  <2>1. g.file = f /\ f \in doomed
    BY <1>2, <1>7 DEF DeleteMark, Deleting, DeletionRun
  <2>2. PICK s : SetLocation(f, p, s)
    BY <1>7 DEF DeleteMark
  <2>3. \A e \in Files \ doomed, q \in Providers : loc'[e][q] = loc[e][q]
    BY <2>1, <2>2 DEF SetLocation, Safe, Typed, TypeOK
  <2>4. SetDeletion(d, g) /\ UNCHANGED <<file, object, doomed>>
    BY <1>7 DEF DeleteMark
  <2> HIDE DEF g
  <2>5. QED BY <1>1, <2>1, <2>3, <2>4
<1>8. CASE DeletePrimary(d) \/ DeletePrimaryFail(d)
  <2>1. del[d] \in DeletionRun /\ f \in Files /\ f \in doomed
    BY <1>2, <1>8 DEF DeletePrimary, DeletePrimaryFail, Deleting
  <2>2. PICK g : /\ SetDeletion(d, g)
                 /\ g = Idle \/ g = [del[d] EXCEPT !.pc = "commit"]
    BY <1>8 DEF DeletePrimary, DeletePrimaryFail
  <2>3. g # Idle => g.file = f
    BY <2>1, <2>2 DEF DeletionRun
  <2>4. UNCHANGED object \/ object' = [object EXCEPT ![f][Primary] = Absent]
    BY <1>8 DEF DeletePrimary, DeletePrimaryFail
  <2>5. \A e \in Files \ doomed, q \in Providers :
          object'[e][q] = object[e][q]
    BY <1>3, <2>1, <2>4, ReplicasAssumption
  <2>6. UNCHANGED <<file, loc, doomed>>
    BY <1>8 DEF DeletePrimary, DeletePrimaryFail
  <2>7. QED BY <1>1, <2>1, <2>2, <2>3, <2>5, <2>6
<1>9. CASE DeleteCommit(d)
  <2>1. f \in doomed
    BY <1>2, <1>9 DEF DeleteCommit, ReadyToCommit, Deleting
  <2>2. /\ \A e \in Files \ doomed : /\ file'[e] = file[e]
                                     /\ loc'[e] = loc[e]
        /\ \A e \in Files : file'[e] \in {file[e], "deleted"}
    BY <1>9, <2>1 DEF DeleteCommit, Safe, Typed, TypeOK
  <2>3. UNCHANGED <<object, doomed>> /\ SetDeletion(d, Idle)
    BY <1>9 DEF DeleteCommit
  <2>4. QED BY <1>1, <2>2, <2>3
<1>10. CASE DeleteFail(d)
  <2>1. UNCHANGED <<file, loc, object, doomed>> /\ SetDeletion(d, Idle)
    BY <1>10 DEF DeleteFail
  <2>2. QED BY <1>1, <2>1
<1>11. QED BY <1>4, <1>5, <1>6, <1>7, <1>8, <1>9, <1>10 DEF DeleteStep

LEMMA DeletionSafe ==
  ASSUME Safe, NEW d \in Deleters,
         DeleteStep(d) \/ \E f \in Files : DeleteRead(d, f)
  PROVE  Safe'
<1>1. Typed'
  BY DeletionTyped DEF Safe
<1>2. DeletionEffect
  BY DeletionDoes
<1>3. Keeps(object, object', doomed')
  BY <1>2 DEF DeletionEffect, Keeps
<1>4. ActiveHasObject'
  BY <1>2 DEF DeletionEffect, Safe, ActiveHasObject
<1>5. QED BY <1>1, <1>2, <1>3, <1>4, StoreSafe DEF DeletionEffect

LEMMA NextSafe ==
  ASSUME Safe, [Next]_vars
  PROVE  Safe'
<1> USE DEF storeVars, taskVars, history
<1>1. Typed'
  BY NextTyped DEF Safe
<1>2. ASSUME NEW f \in Files, Upload(f)
      PROVE  Safe'
  <2>1. \A e \in Files, p \in Providers :
          \/ object'[e][p] = object[e][p] /\ loc'[e][p] = loc[e][p]
          \/ object'[e][p] = "whole"
    BY <1>2 DEF Upload, Safe, Typed, TypeOK
  <2>2. Keeps(object, object', doomed')
    BY <1>2, <2>1 DEF Upload, Keeps, Absent
  <2>3. ActiveHasObject'
    BY <1>2, <2>1 DEF Upload, Safe, ActiveHasObject, Absent
  <2>4. QED BY <1>1, <1>2, <2>2, <2>3, StoreSafe DEF Upload, Safe
<1>3. CASE Restart
  <2>1. \A t \in Tasks : Carries(req'[t], run'[t], doomed', object')
    BY <1>3 DEF Restart, Carries
  <2>2. \A d \in Deleters : del'[d] = Idle
    BY <1>3 DEF Restart
  <2>3. ActiveHasObject'
    BY <1>3 DEF Restart, Safe, ActiveHasObject
  <2>4. QED BY <1>1, <2>1, <2>2, <2>3 DEF Safe
<1>4. CASE UNCHANGED vars
  BY <1>1, <1>4 DEF vars, Safe, ActiveHasObject
<1>5. QED BY <1>2, <1>3, <1>4, CommandSafe, CopySafe, VerifySafe,
             DeletionSafe DEF Next

LEMMA SafeHolds == Spec => []Safe
  BY InitSafe, NextSafe, PTL DEF Spec

(***************************************************************************)
(* However many copies, verifications and deletions run at once, fail, are *)
(* canceled or die, a file that no deletion has taken up has an object     *)
(* wherever its locations say active.                                      *)
(***************************************************************************)
THEOREM ActiveHasObjectHolds == Spec => []ActiveHasObject
  BY SafeHolds, PTL DEF Safe

-----------------------------------------------------------------------------
(***************************************************************************)
(* The last good copy.  As long as copies skip what is there, none of them *)
(* gets to work on a copy to the primary provider of a file that is whole  *)
(* there: the primary's copy is the one that survives.                     *)
(***************************************************************************)
Careful ==
  /\ \A t \in Submitted("copy") : req[t].skip
  /\ \A t \in Submitted("verify") : ~req[t].fix

\* A copy is told of files that have been uploaded.
Told(r, g, fl) ==
  r.kind = "copy" /\ g # Idle => \A f \in g.todo \cup g.cur : fl[f] # NoRow

\* A copy works on no copy to the primary provider.
Elsewhere(r, g, dm) ==
  r.kind = "copy" /\ g # Idle => \A f \in g.cur \ dm : r.dst # Primary

WholeAtPrimary ==
  \A f \in Stored \ doomed :
    loc[f][Primary] = "active" /\ object[f][Primary] = "whole"

Kept ==
  /\ Safe
  /\ \A f \in Files : file[f] = "deleted" => f \in doomed
  /\ \A t \in Tasks : Told(req[t], run[t], file)
  /\ Careful => /\ WholeAtPrimary
                /\ \A t \in Tasks : Elsewhere(req[t], run[t], doomed)

\* What the steps of the tasks do to the request and the goroutine of task t:
\* nothing; end it; submit it; or let it go on, perhaps with the next file.
TaskEffect(t) ==
  \/ req'[t] = req[t] /\ run'[t] = run[t]
  \/ run'[t] = Idle
  \/ req'[t].kind # "copy"
  \/ /\ run'[t].cur = {}
     /\ run'[t].todo \subseteq Stored
  \/ /\ req'[t] = req[t]
     /\ run[t] # Idle
     /\ run'[t].todo \subseteq run[t].todo
     /\ \/ run'[t].cur \subseteq run[t].cur
        \/ \E f \in run[t].todo : /\ run'[t].cur = {f}
                                  /\ ~OnDestination(t, f) \/ DbFails

\* Only uploads and deletions touch a file's row.
LEMMA TaskDoes ==
  ASSUME Safe, NEW t \in Tasks,
         \/ SubmitCopy(t) \/ SubmitVerify(t) \/ Cancel(t)
         \/ Start(t) \/ CopyStep(t) \/ VerifyStep(t)
  PROVE  /\ UNCHANGED <<file, doomed>>
         /\ \A x \in Tasks : TaskEffect(x)
<1> USE DEF storeVars, history
<1> DEFINE Effect == UNCHANGED <<file, doomed>> /\ \A x \in Tasks : TaskEffect(x)
<1>1. ASSUME NEW h, UNCHANGED <<file, doomed, req>>,
             run' = [run EXCEPT ![t] = h],
             \/ h = Idle \/ req[t].kind # "copy"
             \/ /\ run[t] # Idle
                /\ h.todo \subseteq run[t].todo
                /\ \/ h.cur \subseteq run[t].cur
                   \/ \E f \in run[t].todo :
                        h.cur = {f} /\ (~OnDestination(t, f) \/ DbFails)
      PROVE  Effect
  <2>1. \A x \in Tasks : run'[x] = IF x = t THEN h ELSE run[x]
    BY <1>1 DEF Safe, Typed, TypeOK
  <2>2. QED BY <1>1, <2>1 DEF TaskEffect
<1>2. ASSUME NEW r, NEW g, Submit(t, r, g),
             r.kind # "copy" \/ (g.cur = {} /\ g.todo \subseteq Stored)
      PROVE  Effect
  <2>1. \A x \in Tasks : /\ req'[x] = IF x = t THEN r ELSE req[x]
                         /\ run'[x] = IF x = t THEN g ELSE run[x]
    BY <1>2 DEF Submit, Safe, Typed, TypeOK
  <2>2. UNCHANGED <<file, doomed>>
    BY <1>2 DEF Submit
  <2>3. QED BY <1>2, <2>1, <2>2 DEF TaskEffect
<1>3. CASE SubmitCopy(t)
  <2>1. PICK src \in Providers, dst \in Providers, mode \in CopyModes,
             todo \in SUBSET Stored :
          Submit(t, [kind |-> "copy", src |-> src, dst |-> dst,
                     verify |-> mode[1], skip |-> mode[2]], Waiting(todo))
    BY <1>3 DEF SubmitCopy
  <2>2. Waiting(todo).cur = {} /\ Waiting(todo).todo \subseteq Stored
    BY DEF Waiting
  <2>3. QED BY <1>2, <2>1, <2>2
<1>4. CASE SubmitVerify(t)
  <2>1. PICK fix, items :
          Submit(t, [kind |-> "verify", fix |-> fix], Listed(items))
    BY <1>4 DEF SubmitVerify
  <2>2. [kind |-> "verify", fix |-> fix].kind # "copy"
    OBVIOUS
  <2>3. QED BY <1>2, <2>1, <2>2
<1>5. ASSUME NEW s, End(t, s)
      PROVE  Effect
  <2>1. run' = [run EXCEPT ![t] = Idle] /\ UNCHANGED <<file, doomed, req>>
    BY <1>5 DEF End
  <2>2. QED BY <1>1, <2>1
<1>6. ASSUME NEW h, UNCHANGED <<file, doomed, req>>,
             run' = [run EXCEPT ![t] = h], run[t] # Idle,
             run[t] \in CopyRun =>
               /\ h.todo \subseteq run[t].todo
               /\ \/ h.cur \subseteq run[t].cur
                  \/ \E f \in run[t].todo :
                       h.cur = {f} /\ (~OnDestination(t, f) \/ DbFails)
      PROVE  Effect
  <2>1. run[t] \in CopyRun \/ req[t].kind # "copy"
    BY <1>6 DEF Safe, Typed, Fits, VerifyRequest
  <2>2. QED BY <1>1, <1>6, <2>1
<1>7. CASE Cancel(t)
  <2> DEFINE h == [run[t] EXCEPT !.canceled = TRUE]
  <2>1. /\ UNCHANGED <<file, doomed, req>>
        /\ run' = [run EXCEPT ![t] = h] /\ run[t] # Idle
    BY <1>7 DEF Cancel
  <2>2. run[t] \in CopyRun => h.todo = run[t].todo /\ h.cur = run[t].cur
    BY DEF CopyRun
  <2> HIDE DEF h
  <2>3. QED BY <1>6, <2>1, <2>2
<1>8. CASE Start(t)
  <2> DEFINE h == [run[t] EXCEPT !.pc =
                     IF req[t].kind = "copy" THEN "next" ELSE "check"]
  <2>1. /\ UNCHANGED <<file, doomed, req>>
        /\ run[t] # Idle
        /\ run' = [run EXCEPT ![t] = h] \/ run' = [run EXCEPT ![t] = Idle]
    BY <1>8 DEF Start, Idle
  <2>2. run[t] \in CopyRun => h.todo = run[t].todo /\ h.cur = run[t].cur
    BY DEF CopyRun
  <2> HIDE DEF h
  <2>3. CASE run' = [run EXCEPT ![t] = h]
    BY <1>6, <2>1, <2>2, <2>3
  <2>4. CASE run' = [run EXCEPT ![t] = Idle]
    BY <1>1, <2>1, <2>4
  <2>5. QED BY <2>1, <2>3, <2>4
<1>9. CASE VerifyStep(t)
  <2>1. CASE VerifyCanceled(t) \/ VerifyDone(t)
    BY <1>5, <2>1 DEF VerifyCanceled, VerifyDone
  <2>2. ASSUME NEW h, UNCHANGED <<file, doomed, req>>,
               run' = [run EXCEPT ![t] = h],
               run[t].pc \in {"check", "receive"}
        PROVE  Effect
    <3>1. req[t].kind # "copy"
      BY <2>2, VerifyShape DEF Safe, Typed, VerifyRequest
    <3>2. QED BY <1>1, <2>2, <3>1
  <2>3. CASE VerifyAwait(t)
    BY <2>2, <2>3 DEF VerifyAwait
  <2>4. ASSUME NEW i \in Items, Head(t, i)
        PROVE  Effect
    BY <2>2, <2>4 DEF Head
  <2>5. ASSUME NEW a, VerifyReceive(t, a)
        PROVE  Effect
    BY <2>2, <2>5 DEF VerifyReceive
  <2>6. QED BY <1>9, <2>1, <2>3, <2>4, <2>5 DEF VerifyStep
<1>10. CASE CopyStep(t)
  <2>1. CASE CopyCanceled(t) \/ CopyDone(t)
    BY <1>5, <2>1 DEF CopyCanceled, CopyDone
  <2>2. ASSUME NEW f \in Files,
               \/ CopySkip(t, f) \/ CopyNext(t, f) \/ CopyInsert(t, f)
               \/ CopyGet(t, f) \/ CopyGetFail(t, f)
               \/ CopyPut(t, f) \/ CopyPutFail(t, f) \/ CopyMark(t, f)
        PROVE  Effect
    <3> DEFINE g == run[t]
    <3>1. g.pc \in CopySteps /\ g # Idle
      BY <2>2 DEF CopySkip, CopyNext, CopyInsert, CopyGet, CopyGetFail,
                  CopyPut, CopyPutFail, CopyMark, CopySteps, Idle
    <3>2. g \in CopyRun
      BY <3>1, CopyShape DEF Safe, Typed
    <3>3. UNCHANGED <<file, doomed, req>>
      BY <2>2 DEF CopySkip, CopyNext, CopyInsert, CopyGet, CopyGetFail,
                  CopyPut, CopyPutFail, CopyMark
    <3>4. /\ \A x \in Tasks \ {t} : run'[x] = run[x]
          /\ run'[t].todo \subseteq g.todo
          /\ \/ run'[t].cur \subseteq g.cur
             \/ /\ f \in g.todo /\ run'[t].cur = {f}
                /\ ~OnDestination(t, f) \/ DbFails
      <4> run \in [Tasks -> Goroutine]
        BY DEF Safe, Typed, TypeOK
      <4>1. CASE CopySkip(t, f)
        BY <3>2, <4>1 DEF CopySkip, CopyRun
      <4>2. CASE CopyNext(t, f)
        BY <3>2, <4>2 DEF CopyNext, CopyRun
      <4>3. CASE CopyInsert(t, f)
        BY <3>2, <4>3 DEF CopyInsert, CopyRun
      <4>4. CASE CopyGet(t, f)
        BY <3>2, <4>4 DEF CopyGet, CopyRun
      <4>5. CASE CopyGetFail(t, f)
        BY <3>2, <4>5 DEF CopyGetFail, CopyRun
      <4>6. CASE CopyPut(t, f)
        BY <3>2, <4>6 DEF CopyPut, CopyRun
      <4>7. CASE CopyPutFail(t, f)
        BY <3>2, <4>7 DEF CopyPutFail, CopyRun
      <4>8. CASE CopyMark(t, f)
        BY <3>2, <4>8 DEF CopyMark, CopyRun
      <4>9. QED BY <2>2, <4>1, <4>2, <4>3, <4>4, <4>5, <4>6, <4>7, <4>8
    <3>5. QED BY <3>1, <3>3, <3>4 DEF TaskEffect
  <2>3. QED BY <1>10, <2>1, <2>2 DEF CopyStep
<1>11. QED BY <1>3, <1>4, <1>7, <1>8, <1>9, <1>10

LEMMA InitKept == Init => Kept
  BY InitSafe
  DEF Init, Kept, Told, Elsewhere, WholeAtPrimary, Stored, NoRow

\* Requests stay as they were submitted.
LEMMA RequestStays ==
  ASSUME Typed, [Next]_vars, NEW x \in Tasks
  PROVE  req'[x] = req[x] \/ req[x] = NoRequest
<1> USE DEF Typed, TypeOK, taskVars
<1>1. ASSUME NEW t \in Tasks, SubmitCopy(t) \/ SubmitVerify(t)
      PROVE  req'[x] = req[x] \/ req[x] = NoRequest
  BY <1>1 DEF SubmitCopy, SubmitVerify, Submit
<1>2. ASSUME NEW t \in Tasks,
             Cancel(t) \/ Start(t) \/ CopyStep(t) \/ VerifyStep(t)
      PROVE  UNCHANGED req
  BY <1>2 DEF Cancel, Start, CopyStep, VerifyStep, CopyCanceled, CopyDone,
              CopySkip, CopyNext, CopyInsert, CopyGet, CopyGetFail, CopyPut,
              CopyPutFail, CopyMark, VerifyCanceled, VerifyDone, VerifyAwait,
              Head, VerifyReceive, End
<1>3. ASSUME NEW d \in Deleters,
             DeleteStep(d) \/ \E f \in Files : DeleteRead(d, f)
      PROVE  UNCHANGED req
  BY <1>3 DEF DeleteStep, DeleteRead, DeleteList, DeletePrimary,
              DeletePrimaryFail, DeleteCommit, DeleteFail, DeleteObject,
              DeleteObjectFail, DeleteMark, SetDeletion
<1>4. CASE Restart \/ UNCHANGED vars \/ \E f \in Files : Upload(f)
  BY <1>4 DEF Restart, Upload, vars
<1>5. QED BY <1>1, <1>2, <1>3, <1>4 DEF Next

\* Once a request is careless, the requests are careless for ever.
LEMMA CarefulWas ==
  ASSUME Typed, [Next]_vars, Careful'
  PROVE  Careful
<1>1. \A x \in Tasks : req'[x] = req[x] \/ req[x].kind = "none"
  BY RequestStays DEF NoRequest
<1>2. QED BY <1>1 DEF Careful, Submitted

LEMMA ToldStays ==
  ASSUME Kept, NEW x \in Tasks, TaskEffect(x),
         \A f \in Files : file[f] # NoRow => file'[f] # NoRow
  PROVE  Told(req'[x], run'[x], file')
<1>1. Told(req[x], run[x], file)
  BY DEF Kept
<1>2. CASE req'[x].kind = "copy" /\ run'[x] # Idle
  <2>1. \A f \in Stored : f \in Files /\ file'[f] # NoRow
    BY DEF Stored, NoRow
  <2>2. req[x].kind = "copy" /\ run[x] # Idle =>
          run[x].todo \cup run[x].cur \subseteq Files
    BY DEF Kept, Safe, Typed, Fits, VerifyRequest, CopyRun
  <2>3. QED BY <1>1, <1>2, <2>1, <2>2 DEF Told, TaskEffect
<1>3. QED BY <1>2 DEF Told

LEMMA ElsewhereStays ==
  ASSUME ~DbFails, Kept, Careful, NEW x \in Tasks, TaskEffect(x),
         doomed \subseteq doomed'
  PROVE  Elsewhere(req'[x], run'[x], doomed')
<1>1. Elsewhere(req[x], run[x], doomed) /\ Told(req[x], run[x], file)
  BY DEF Kept
<1>2. CASE /\ req'[x] = req[x] /\ req[x].kind = "copy"
           /\ run'[x] # Idle /\ run[x] # Idle
  <2>1. ASSUME NEW f \in run[x].todo \ doomed, ~OnDestination(x, f)
        PROVE  req[x].dst # Primary
    <3>1. f \in Files
      BY <1>2 DEF Kept, Safe, Typed, Fits, VerifyRequest, CopyRun
    <3>2. f \in Stored
      BY <1>1, <1>2, <3>1 DEF Told, Stored, Kept, Safe, Typed, TypeOK
    <3>3. loc[f][Primary] = "active"
      BY <3>2 DEF Kept, WholeAtPrimary
    <3>4. req[x].skip
      BY <1>2 DEF Careful, Submitted
    <3>5. QED BY <2>1, <3>3, <3>4 DEF OnDestination
  <2>2. CASE run'[x].cur \subseteq run[x].cur
    BY <1>1, <1>2, <2>2 DEF Elsewhere
  <2>3. ASSUME NEW f \in run[x].todo, run'[x].cur = {f}, ~OnDestination(x, f)
        PROVE  Elsewhere(req'[x], run'[x], doomed')
    BY <1>2, <2>1, <2>3 DEF Elsewhere
  <2>4. CASE run'[x] = run[x] \/ run'[x].cur = {}
    BY <1>1, <1>2, <2>4 DEF Elsewhere
  <2>5. QED BY <1>2, <2>2, <2>3, <2>4 DEF TaskEffect
<1>3. CASE run'[x].cur = {} \/ run'[x] = Idle \/ req'[x].kind # "copy"
  BY <1>3 DEF Elsewhere
<1>4. CASE req'[x] = req[x] /\ run'[x] = run[x]
  BY <1>1, <1>4 DEF Elsewhere
<1>5. QED BY <1>2, <1>3, <1>4 DEF TaskEffect

LEMMA WholeTask ==
  ASSUME ~DbFails, Kept, Careful, NEW t \in Tasks,
         \/ SubmitCopy(t) \/ SubmitVerify(t) \/ Cancel(t)
         \/ Start(t) \/ CopyStep(t) \/ VerifyStep(t)
  PROVE  WholeAtPrimary'
<1> USE DEF storeVars, history
<1>1. UNCHANGED <<file, doomed>>
  BY TaskDoes DEF Kept
<1>2. CASE UNCHANGED <<loc, object>>
  BY <1>1, <1>2 DEF Kept, WholeAtPrimary, Stored
<1>3. ASSUME NEW f \in Files, NEW p \in Providers,
             f \in doomed \/ p # Primary,
             \A e \in Files, q \in Providers :
               e # f \/ q # p => /\ loc'[e][q] = loc[e][q]
                                 /\ object'[e][q] = object[e][q]
      PROVE  WholeAtPrimary'
  BY <1>1, <1>3, ReplicasAssumption DEF Kept, WholeAtPrimary, Stored
<1>4. ASSUME NEW f \in Files,
             CopyPut(t, f) \/ CopyPutFail(t, f) \/ CopyMark(t, f)
      PROVE  WholeAtPrimary'
  <2> DEFINE dst == req[t].dst
  <2>1. run[t].pc \in CopySteps /\ f \in run[t].cur /\ run[t] # Idle
    BY <1>4 DEF CopyPut, CopyPutFail, CopyMark, CopySteps, Idle
  <2>2. req[t] \in CopyRequest
    BY <2>1, CopyShape DEF Kept, Safe, Typed
  <2>3. dst \in Providers /\ (f \in doomed \/ dst # Primary)
    BY <2>1, <2>2 DEF CopyRequest, Kept, Elsewhere
  <2>4. /\ \/ UNCHANGED loc
           \/ \E s : loc' = [loc EXCEPT ![f][dst] = s]
        /\ \/ UNCHANGED object
           \/ \E data : object' = [object EXCEPT ![f][dst] = data]
    BY <1>4 DEF CopyPut, CopyPutFail, CopyMark, SetLocation
  <2>5. \A e \in Files, q \in Providers :
          e # f \/ q # dst => /\ loc'[e][q] = loc[e][q]
                              /\ object'[e][q] = object[e][q]
    BY <2>3, <2>4 DEF Kept, Safe, Typed, TypeOK
  <2>6. QED BY <1>3, <2>3, <2>5
<1>5. ASSUME NEW f \in Files, CopyInsert(t, f)
      PROVE  WholeAtPrimary'
  <2>1. req[t].dst \in Providers
    BY <1>5, CopyShape
    DEF CopyInsert, CopySteps, CopyRequest, Kept, Safe, Typed
  <2>2. \A e \in Files, q \in Providers :
          loc[e][q] = "active" => loc'[e][q] = "active"
    BY <1>5, <2>1 DEF CopyInsert, NoRow, Kept, Safe, Typed, TypeOK
  <2>3. UNCHANGED object
    BY <1>5 DEF CopyInsert
  <2>4. QED BY <1>1, <2>2, <2>3, ReplicasAssumption
            DEF Kept, WholeAtPrimary, Stored
<1>6. ASSUME NEW a, VerifyReceive(t, a)
      PROVE  UNCHANGED <<loc, object>>
  <2>1. req[t].kind = "verify"
    BY <1>6, VerifyShape DEF VerifyReceive, VerifyRequest, Kept, Safe, Typed
  <2>2. ~req[t].fix
    BY <2>1 DEF Careful, Submitted
  <2>3. QED BY <1>6, <2>2 DEF VerifyReceive
<1>7. CASE SubmitCopy(t) \/ SubmitVerify(t) \/ Cancel(t) \/ Start(t)
  BY <1>2, <1>7 DEF SubmitCopy, SubmitVerify, Submit, Cancel, Start
<1>8. CASE VerifyStep(t)
  BY <1>2, <1>6, <1>8
  DEF VerifyStep, VerifyCanceled, VerifyDone, VerifyAwait, Head, End
<1>9. CASE CopyStep(t)
  BY <1>2, <1>4, <1>5, <1>9
  DEF CopyStep, CopyCanceled, CopyDone, CopySkip, CopyNext, CopyGet,
      CopyGetFail, End
<1>10. QED BY <1>7, <1>8, <1>9

\* Whatever the step, what is left to show of it.
LEMMA StepKept ==
  ASSUME Kept, [Next]_vars, Safe', \A x \in Tasks : TaskEffect(x),
         doomed \subseteq doomed',
         \A f \in Files : file[f] # NoRow => file'[f] # NoRow,
         \A f \in Files : file'[f] = "deleted" => f \in doomed',
         ~DbFails, Careful => WholeAtPrimary'
  PROVE  Kept'
<1>1. \A x \in Tasks : Told(req'[x], run'[x], file')
  BY ToldStays
<1>2. ASSUME Careful'
      PROVE  /\ WholeAtPrimary'
             /\ \A x \in Tasks : Elsewhere(req'[x], run'[x], doomed')
  <2>1. Careful
    BY <1>2, CarefulWas DEF Kept, Safe
  <2>2. QED BY <2>1, ElsewhereStays
<1>3. QED BY <1>1, <1>2 DEF Kept

LEMMA NextKept ==
  ASSUME ~DbFails, Kept, [Next]_vars
  PROVE  Kept'
<1> USE DEF storeVars, taskVars, history
<1>1. Safe'
  BY NextSafe DEF Kept
<1>2. ASSUME NEW t \in Tasks,
             \/ SubmitCopy(t) \/ SubmitVerify(t) \/ Cancel(t)
             \/ Start(t) \/ CopyStep(t) \/ VerifyStep(t)
      PROVE  Kept'
  <2>1. UNCHANGED <<file, doomed>> /\ \A x \in Tasks : TaskEffect(x)
    BY <1>2, TaskDoes DEF Kept
  <2>2. Careful => WholeAtPrimary'
    BY <1>2, WholeTask
  <2>3. QED BY <1>1, <2>1, <2>2, StepKept DEF Kept
<1>3. ASSUME UNCHANGED taskVars
      PROVE  \A x \in Tasks : TaskEffect(x)
  BY <1>3 DEF TaskEffect
<1>4. ASSUME NEW d \in Deleters,
             DeleteStep(d) \/ \E f \in Files : DeleteRead(d, f)
      PROVE  Kept'
  <2>1. DeletionEffect
    BY <1>4, DeletionDoes DEF Kept
  <2>2. Careful => WholeAtPrimary'
    BY <2>1, ReplicasAssumption
    DEF DeletionEffect, Kept, WholeAtPrimary, Stored
  <2>3. \A f \in Files : file[f] # NoRow => file'[f] # NoRow
    BY <2>1 DEF DeletionEffect, NoRow
  <2>4. \A f \in Files : file'[f] = "deleted" => f \in doomed'
    BY <2>1 DEF DeletionEffect, Kept
  <2>5. QED BY <1>1, <1>3, <2>1, <2>2, <2>3, <2>4, StepKept
            DEF DeletionEffect
<1>5. ASSUME NEW f \in Files, Upload(f)
      PROVE  Kept'
  <2>1. /\ \A e \in Files : file'[e] = IF e = f THEN "stored" ELSE file[e]
        /\ \A e \in Files, p \in Providers :
             IF e = f /\ p = Primary
             THEN loc'[e][p] = "active" /\ object'[e][p] = "whole"
             ELSE loc'[e][p] = loc[e][p] /\ object'[e][p] = object[e][p]
        /\ UNCHANGED doomed /\ UNCHANGED taskVars
    BY <1>5, ReplicasAssumption DEF Upload, Kept, Safe, Typed, TypeOK
  <2>2. Careful => WholeAtPrimary'
    BY <2>1, ReplicasAssumption DEF Kept, WholeAtPrimary, Stored
  <2>3. /\ \A e \in Files : file[e] # NoRow => file'[e] # NoRow
        /\ \A e \in Files : file'[e] = "deleted" => e \in doomed'
    BY <2>1 DEF Kept, NoRow
  <2>4. QED BY <1>1, <1>3, <2>1, <2>2, <2>3, StepKept
<1>6. CASE Restart
  <2>1. \A x \in Tasks : TaskEffect(x)
    BY <1>6 DEF Restart, TaskEffect
  <2>2. UNCHANGED <<file, loc, object, doomed>>
    BY <1>6 DEF Restart
  <2>3. Careful => WholeAtPrimary'
    BY <2>2 DEF Kept, WholeAtPrimary, Stored
  <2>4. QED BY <1>1, <2>1, <2>2, <2>3, StepKept DEF Kept
<1>7. CASE UNCHANGED vars
  <2>1. UNCHANGED <<file, loc, object, doomed>> /\ UNCHANGED taskVars
    BY <1>7 DEF vars
  <2>2. Careful => WholeAtPrimary'
    BY <2>1 DEF Kept, WholeAtPrimary, Stored
  <2>3. QED BY <1>1, <1>3, <2>1, <2>2, StepKept DEF Kept
<1>8. QED BY <1>2, <1>4, <1>5, <1>6, <1>7 DEF Next

(***************************************************************************)
(* Where statements do not fail, and as long as no copy overwrites and no  *)
(* verification fixes, no task costs a file its last good copy.            *)
(***************************************************************************)
THEOREM LastCopySurvivesHolds ==
  ASSUME ~DbFails
  PROVE  Spec => []LastCopySurvives
<1>1. Kept => LastCopySurvives
  BY ReplicasAssumption
  DEF Kept, LastCopySurvives, Careful, WholeAtPrimary
<1>2. Kept /\ [Next]_vars => Kept'
  BY NextKept
<1>3. QED BY <1>1, <1>2, InitKept, PTL DEF Spec

-----------------------------------------------------------------------------
(***************************************************************************)
(* Verified copies.  Where copies verify and skip what is there, a copy    *)
(* works on a location that is not active, is alone there unless the       *)
(* location counts as clashed, and what it verifies is what it put.        *)
(***************************************************************************)
Thorough == \A t \in Submitted("copy") : req[t].verify /\ req[t].skip

Copies(r, g) == r.kind = "copy" /\ g # Idle

\* r and g are the request and the goroutine of a task, dm and cl the doomed
\* files and the clashed locations, lc and ob the rows and the objects.
Sound(r, g, dm, cl, lc, ob) ==
  Copies(r, g) =>
    \A f \in g.cur \ dm :
      <<f, r.dst>> \notin cl =>
        /\ lc[f][r.dst] # "active"
        /\ g.pc = "mark" /\ g.data # Absent => ob[f][r.dst] = g.data

\* Between two files a copy has none in hand.
EmptyHanded(r, g) == Copies(r, g) /\ g.pc \in {"wait", "next"} => g.cur = {}

\* Two copies of one file to one place have made it a clashed location.
Alone ==
  \A t, u \in Tasks :
    /\ t # u /\ Copies(req[t], run[t]) /\ Copies(req[u], run[u])
    /\ req[t].dst = req[u].dst
    => \A f \in run[t].cur \cap run[u].cur : <<f, req[t].dst>> \in clashed

ActiveIsWhole ==
  \A f \in Files \ doomed, p \in Providers :
    loc[f][p] = "active" /\ <<f, p>> \notin clashed => object[f][p] = "whole"

Vetted ==
  /\ Kept
  /\ \A t \in Tasks : EmptyHanded(req[t], run[t])
  /\ Alone
  /\ Thorough =>
       /\ ActiveIsWhole
       /\ \A t \in Tasks : Sound(req[t], run[t], doomed, clashed, loc, object)

TaskStep(t) ==
  \/ SubmitCopy(t) \/ SubmitVerify(t) \/ Cancel(t)
  \/ Start(t) \/ CopyStep(t) \/ VerifyStep(t)

CopyWork(t, f) ==
  \/ CopySkip(t, f) \/ CopyNext(t, f) \/ CopyInsert(t, f)
  \/ CopyGet(t, f) \/ CopyGetFail(t, f)
  \/ CopyPut(t, f) \/ CopyPutFail(t, f) \/ CopyMark(t, f)

LEMMA InitVetted == Init => Vetted
  BY InitKept
  DEF Init, Vetted, EmptyHanded, Copies, Alone, ActiveIsWhole, Sound, NoRow

LEMMA ThoroughWas ==
  ASSUME Typed, [Next]_vars, Thorough'
  PROVE  Thorough
<1>1. \A x \in Tasks : req'[x] = req[x] \/ req[x].kind = "none"
  BY RequestStays DEF NoRequest
<1>2. QED BY <1>1 DEF Thorough, Submitted

\* A goroutine that copies, as far as the steps of its work need to know.
LEMMA CopyWorks ==
  ASSUME Typed, NEW t \in Tasks, NEW f \in Files, CopyWork(t, f)
  PROVE  /\ run[t] \in CopyRun /\ req[t] \in CopyRequest
         /\ Copies(req[t], run[t]) /\ req[t].dst \in Providers
         /\ run[t].pc \in CopySteps
         /\ UNCHANGED <<file, req, doomed, del, status, crashes>>
         /\ \A x \in Tasks \ {t} : run'[x] = run[x]
         /\ run'[t] \in CopyRun /\ Copies(req'[t], run'[t])
<1> USE DEF storeVars, history
<1>1. run[t].pc \in CopySteps
  BY DEF CopyWork, CopySkip, CopyNext, CopyInsert, CopyGet, CopyGetFail,
         CopyPut, CopyPutFail, CopyMark, CopySteps
<1>2. run[t] \in CopyRun /\ req[t] \in CopyRequest
  BY <1>1, CopyShape DEF Typed
<1>3. UNCHANGED <<file, req, doomed, del, status, crashes>>
  BY DEF CopyWork, CopySkip, CopyNext, CopyInsert, CopyGet, CopyGetFail,
         CopyPut, CopyPutFail, CopyMark
<1>4. PICK h : /\ run' = [run EXCEPT ![t] = h]
               /\ DOMAIN h = DOMAIN run[t] /\ h # Idle
  BY <1>2 DEF CopyWork, CopySkip, CopyNext, CopyInsert, CopyGet, CopyGetFail,
              CopyPut, CopyPutFail, CopyMark, CopyRun, Idle
<1>5. /\ run'[t] = h /\ \A x \in Tasks \ {t} : run'[x] = run[x]
  BY <1>4 DEF Typed, TypeOK
<1>6. Typed'
  BY CopyTyped DEF CopyStep, CopyWork
<1>7. run'[t] \in CopyRun
  BY <1>2, <1>3, <1>4, <1>5, <1>6 DEF Typed, Fits, VerifyRequest, CopyRequest
<1>8. QED
  BY <1>1, <1>2, <1>3, <1>4, <1>5, <1>7
  DEF Copies, CopyRequest, CopySteps, Idle

\* Where a step of a task writes: an object, or a row that becomes active, only
\* at the destination of its own copy.
Touches(t) ==
  /\ clashed \subseteq clashed'
  /\ \A e \in Files, p \in Providers :
       \/ /\ object'[e][p] = object[e][p]
          /\ loc'[e][p] = "active" => loc[e][p] = "active"
       \/ Copies(req[t], run[t]) /\ e \in run[t].cur /\ p = req[t].dst

LEMMA TaskTouches ==
  ASSUME Typed, NEW t \in Tasks, TaskStep(t)
  PROVE  Touches(t)
<1> USE DEF storeVars, history
<1>1. CASE UNCHANGED <<loc, object, clashed>>
  BY <1>1 DEF Touches
<1>2. CASE SubmitCopy(t) \/ SubmitVerify(t) \/ Cancel(t) \/ Start(t)
  BY <1>1, <1>2 DEF SubmitCopy, SubmitVerify, Submit, Cancel, Start
<1>3. CASE VerifyStep(t)
  <2>1. ASSUME NEW i \in Items, NEW s \in {"missing"}, SetLocation(i[1], i[2], s)
        PROVE  \A e \in Files, p \in Providers :
                 loc'[e][p] = "active" => loc[e][p] = "active"
    <3>1. i[1] \in Files /\ i[2] \in Providers
      BY DEF Items
    <3>2. CASE UNCHANGED loc
      BY <3>2
    <3>3. CASE loc' = [loc EXCEPT ![i[1]][i[2]] = s]
      BY <3>1, <3>3 DEF Typed, TypeOK
    <3>4. QED BY <2>1, <3>2, <3>3 DEF SetLocation
  <2>2. ASSUME NEW i \in Items, NEW well \in BOOLEAN,
               VerifyReceive(t, <<i, well>>)
        PROVE  Touches(t)
    <3>1. UNCHANGED <<object, clashed>>
      BY <2>2 DEF VerifyReceive
    <3>2. UNCHANGED loc \/ SetLocation(i[1], i[2], "missing")
      BY <2>2 DEF VerifyReceive
    <3>3. QED BY <2>1, <3>1, <3>2 DEF Touches
  <2>3. CASE VerifyCanceled(t) \/ VerifyDone(t) \/ VerifyAwait(t)
    BY <1>1, <2>3 DEF VerifyCanceled, VerifyDone, VerifyAwait, End
  <2>4. ASSUME NEW i \in Items, Head(t, i)
        PROVE  Touches(t)
    BY <1>1, <2>4 DEF Head
  <2>5. QED BY <1>3, <2>2, <2>3, <2>4 DEF VerifyStep
<1>4. CASE CopyCanceled(t) \/ CopyDone(t)
  BY <1>1, <1>4 DEF CopyCanceled, CopyDone, End
<1>5. ASSUME NEW f \in Files, CopyWork(t, f)
      PROVE  Touches(t)
  <2> DEFINE dst == req[t].dst
  <2>1. Copies(req[t], run[t]) /\ dst \in Providers
    BY <1>5, CopyWorks
  <2>2. CASE CopySkip(t, f) \/ CopyGet(t, f) \/ CopyGetFail(t, f)
    BY <1>1, <2>2 DEF CopySkip, CopyGet, CopyGetFail
  <2>3. CASE CopyNext(t, f)
    BY <2>3 DEF CopyNext, Touches
  <2>4. CASE CopyInsert(t, f) \/ CopyPut(t, f) \/ CopyPutFail(t, f)
             \/ CopyMark(t, f)
    <3>1. f \in run[t].cur /\ UNCHANGED clashed
      BY <2>4 DEF CopyInsert, CopyPut, CopyPutFail, CopyMark
    <3>2. /\ \/ UNCHANGED loc
             \/ \E s : loc' = [loc EXCEPT ![f][dst] = s]
          /\ \/ UNCHANGED object
             \/ \E data : object' = [object EXCEPT ![f][dst] = data]
      BY <2>4 DEF CopyInsert, CopyPut, CopyPutFail, CopyMark, SetLocation
    <3>3. \A e \in Files, q \in Providers :
            e # f \/ q # dst => /\ loc'[e][q] = loc[e][q]
                                /\ object'[e][q] = object[e][q]
      BY <2>1, <3>2 DEF Typed, TypeOK
    <3>4. QED BY <2>1, <3>1, <3>3 DEF Touches
  <2>5. QED BY <1>5, <2>2, <2>3, <2>4 DEF CopyWork
<1>6. QED BY <1>2, <1>3, <1>4, <1>5 DEF TaskStep, CopyStep, CopyWork

\* What a step of task t does to the files it has in hand.
Hands(t) ==
  /\ \A x \in Tasks \ {t} : req'[x] = req[x] /\ run'[x] = run[x]
  /\ EmptyHanded(req'[t], run'[t])
  /\ \/ ~Copies(req'[t], run'[t])
     \/ run'[t].cur = {}
     \/ /\ req'[t] = req[t] /\ Copies(req[t], run[t])
        /\ run'[t].cur \subseteq run[t].cur
     \/ \E f \in Files : CopyNext(t, f) /\ run'[t].cur = {f}

LEMMA TaskHands ==
  ASSUME Typed, NEW t \in Tasks, TaskStep(t), EmptyHanded(req[t], run[t])
  PROVE  Hands(t)
<1> USE DEF storeVars, history
<1>1. ASSUME NEW r, NEW g, Submit(t, r, g), ~Copies(r, g) \/ g.cur = {}
      PROVE  Hands(t)
  <2>1. \A x \in Tasks : /\ req'[x] = IF x = t THEN r ELSE req[x]
                         /\ run'[x] = IF x = t THEN g ELSE run[x]
    BY <1>1 DEF Submit, Typed, TypeOK
  <2>2. QED BY <1>1, <2>1 DEF Hands, EmptyHanded
<1>2. CASE SubmitCopy(t)
  <2>1. PICK r, todo : Submit(t, r, Waiting(todo))
    BY <1>2 DEF SubmitCopy
  <2>2. QED BY <1>1, <2>1 DEF Waiting
<1>3. CASE SubmitVerify(t)
  <2>1. PICK fix, items :
          Submit(t, [kind |-> "verify", fix |-> fix], Listed(items))
    BY <1>3 DEF SubmitVerify
  <2>2. QED BY <1>1, <2>1 DEF Copies
<1>4. ASSUME NEW h, UNCHANGED req, run' = [run EXCEPT ![t] = h],
             \/ h = Idle \/ req[t].kind # "copy"
             \/ /\ Copies(req[t], run[t]) /\ h.cur = run[t].cur
                /\ EmptyHanded(req[t], h)
      PROVE  Hands(t)
  <2>1. \A x \in Tasks : run'[x] = IF x = t THEN h ELSE run[x]
    BY <1>4 DEF Typed, TypeOK
  <2>2. QED BY <1>4, <2>1 DEF Hands, EmptyHanded, Copies
<1>5. ASSUME NEW s, End(t, s)
      PROVE  Hands(t)
  BY <1>4, <1>5 DEF End
<1>6. ASSUME req[t].kind = "copy", run[t] # Idle
      PROVE  run[t] \in CopyRun
  BY <1>6 DEF Typed, Fits, VerifyRequest
<1>7. CASE Cancel(t)
  <2> DEFINE h == [run[t] EXCEPT !.canceled = TRUE]
  <2>1. UNCHANGED req /\ run' = [run EXCEPT ![t] = h] /\ run[t] # Idle
    BY <1>7 DEF Cancel
  <2>2. run[t] \in CopyRun => h.cur = run[t].cur /\ h.pc = run[t].pc
    BY DEF CopyRun
  <2> HIDE DEF h
  <2>3. QED BY <1>4, <1>6, <2>1, <2>2 DEF Copies, EmptyHanded
<1>8. CASE Start(t)
  <2> DEFINE h == [run[t] EXCEPT !.pc =
                     IF req[t].kind = "copy" THEN "next" ELSE "check"]
  <2>1. /\ UNCHANGED req /\ run[t] # Idle /\ run[t].pc = "wait"
        /\ run' = [run EXCEPT ![t] = h] \/ run' = [run EXCEPT ![t] = Idle]
    BY <1>8 DEF Start, Idle
  <2>2. run[t] \in CopyRun => h.cur = run[t].cur
    BY DEF CopyRun
  <2> HIDE DEF h
  <2>3. QED BY <1>4, <1>6, <2>1, <2>2 DEF Copies, EmptyHanded
<1>9. CASE VerifyStep(t)
  <2>1. run[t].pc \in {"check", "receive"}
    BY <1>9 DEF VerifyStep, VerifyCanceled, VerifyDone, VerifyAwait, Head,
                VerifyReceive
  <2>2. req[t].kind # "copy"
    BY <2>1, VerifyShape DEF Typed, VerifyRequest
  <2>3. UNCHANGED req /\ \E h : run' = [run EXCEPT ![t] = h]
    BY <1>9 DEF VerifyStep, VerifyCanceled, VerifyDone, VerifyAwait, Head,
                VerifyReceive, End
  <2>4. QED BY <1>4, <2>2, <2>3
<1>10. CASE CopyCanceled(t) \/ CopyDone(t)
  BY <1>5, <1>10 DEF CopyCanceled, CopyDone
<1>11. ASSUME NEW f \in Files, CopyWork(t, f)
       PROVE  Hands(t)
  <2> DEFINE g == run[t]
  <2>1. /\ g \in CopyRun /\ Copies(req[t], g) /\ UNCHANGED req
        /\ \A x \in Tasks \ {t} : run'[x] = run[x]
        /\ Copies(req'[t], run'[t])
    BY <1>11, CopyWorks
  <2> run \in [Tasks -> Goroutine]
    BY DEF Typed, TypeOK
  <2>2. CASE CopySkip(t, f)
    <3>1. run'[t].cur = g.cur /\ g.cur = {}
      BY <2>1, <2>2 DEF CopySkip, CopyRun, EmptyHanded
    <3>2. QED BY <2>1, <3>1 DEF Hands, EmptyHanded
  <2>3. CASE CopyNext(t, f)
    <3>1. run'[t].cur = {f} /\ run'[t].pc = "insert"
      BY <2>1, <2>3 DEF CopyNext, CopyRun
    <3>2. QED BY <2>1, <2>3, <3>1 DEF Hands, EmptyHanded
  <2>4. CASE CopyInsert(t, f) \/ CopyGet(t, f) \/ CopyGetFail(t, f)
    <3>1. run'[t].cur = g.cur /\ run'[t].pc \notin {"wait", "next"}
      BY <2>1, <2>4 DEF CopyInsert, CopyGet, CopyGetFail, CopyRun
    <3>2. QED BY <2>1, <3>1 DEF Hands, EmptyHanded
  <2>5. CASE CopyPut(t, f) \/ CopyPutFail(t, f)
    <3>1. run'[t].cur = g.cur /\ run'[t].pc \notin {"wait", "next"}
      BY <2>1, <2>5 DEF CopyPut, CopyPutFail, CopyRun
    <3>2. QED BY <2>1, <3>1 DEF Hands, EmptyHanded
  <2>6. CASE CopyMark(t, f)
    <3>1. run'[t].cur = {}
      BY <2>1, <2>6 DEF CopyMark, CopyRun
    <3>2. QED BY <2>1, <3>1 DEF Hands, EmptyHanded
  <2>7. QED BY <1>11, <2>2, <2>3, <2>4, <2>5, <2>6 DEF CopyWork
<1>12. QED BY <1>2, <1>3, <1>7, <1>8, <1>9, <1>10, <1>11
           DEF TaskStep, CopyStep, CopyWork

\* A copy that takes up a file finds the copies that are there before it.
LEMMA NextClashes ==
  ASSUME Typed, NEW t \in Tasks, NEW f \in Files, CopyNext(t, f),
         NEW u \in Tasks \ {t}, Copies(req[u], run[u]), f \in run[u].cur,
         EmptyHanded(req[u], run[u]), req[u].dst = req[t].dst
  PROVE  <<f, req[t].dst>> \in clashed'
<1>1. run[u].pc # "wait" /\ run[u].pc # "idle"
  BY DEF EmptyHanded, Copies, Typed, Fits, VerifyRequest, CopyRun, CopySteps
<1>2. u \in CopyingTo(f, req[t].dst)
  BY <1>1 DEF CopyingTo, Working, Copies
<1>3. QED BY <1>2 DEF CopyNext

LEMMA TaskAlone ==
  ASSUME Typed, NEW t \in Tasks, TaskStep(t), Alone,
         \A x \in Tasks : EmptyHanded(req[x], run[x])
  PROVE  Alone'
<1>1. Hands(t) /\ clashed \subseteq clashed'
  BY TaskHands, TaskTouches DEF Touches
<1>2. ASSUME NEW u \in Tasks \ {t}, Copies(req'[t], run'[t]),
             Copies(req'[u], run'[u]), req'[t].dst = req'[u].dst,
             NEW f \in run'[t].cur \cap run'[u].cur
      PROVE  <<f, req'[t].dst>> \in clashed'
  <2>1. req'[u] = req[u] /\ run'[u] = run[u]
    BY <1>1 DEF Hands
  <2>2. CASE /\ req'[t] = req[t] /\ Copies(req[t], run[t])
             /\ run'[t].cur \subseteq run[t].cur
    BY <1>1, <1>2, <2>1, <2>2 DEF Alone
  <2>3. ASSUME NEW e \in Files, CopyNext(t, e), run'[t].cur = {e}
        PROVE  <<f, req'[t].dst>> \in clashed'
    <3>1. req'[t] = req[t]
      BY <2>3 DEF CopyNext
    <3>2. f = e
      BY <1>2, <2>3
    <3>3. QED BY <1>2, <2>1, <2>3, <3>1, <3>2, NextClashes
  <2>4. QED BY <1>1, <1>2, <2>2, <2>3 DEF Hands
<1>3. ASSUME NEW x \in Tasks \ {t}, NEW u \in Tasks \ {t}, x # u,
             Copies(req'[x], run'[x]), Copies(req'[u], run'[u]),
             req'[x].dst = req'[u].dst,
             NEW f \in run'[x].cur \cap run'[u].cur
      PROVE  <<f, req'[x].dst>> \in clashed'
  <2>1. /\ req'[u] = req[u] /\ run'[u] = run[u]
        /\ req'[x] = req[x] /\ run'[x] = run[x]
    BY <1>1 DEF Hands
  <2>2. <<f, req[x].dst>> \in clashed
    BY <1>3, <2>1 DEF Alone
  <2>3. QED BY <1>1, <2>1, <2>2
<1>4. QED BY <1>2, <1>3 DEF Alone

\* What is sound stays so when a step touches nothing that the copy works on.
LEMMA SoundStays ==
  ASSUME Typed, NEW x \in Tasks,
         Sound(req[x], run[x], doomed, clashed, loc, object),
         doomed \subseteq doomed', clashed \subseteq clashed',
         Copies(req[x], run[x]) =>
           \A f \in run[x].cur \ doomed' :
             <<f, req[x].dst>> \notin clashed' =>
               /\ object'[f][req[x].dst] = object[f][req[x].dst]
               /\ loc'[f][req[x].dst] = "active" =>
                    loc[f][req[x].dst] = "active"
  PROVE  Sound(req[x], run[x], doomed', clashed', loc', object')
  BY DEF Sound

\* The work of a thorough copy on its own file.
LEMMA OwnCopy ==
  ASSUME ~DbFails, Vetted, Thorough, NEW t \in Tasks, NEW f \in Files,
         CopyWork(t, f)
  PROVE  /\ Sound(req'[t], run'[t], doomed', clashed', loc', object')
         /\ \A e \in run[t].cur \ doomed' :
              /\ <<e, req[t].dst>> \notin clashed'
              /\ loc'[e][req[t].dst] = "active"
              => object'[e][req[t].dst] = "whole"
<1> DEFINE g == run[t]
           dst == req[t].dst
<1>1. Typed
  BY DEF Vetted, Kept, Safe
<1>2. /\ g \in CopyRun /\ req[t] \in CopyRequest /\ Copies(req[t], g)
      /\ dst \in Providers /\ g.cur \subseteq Files
      /\ UNCHANGED <<file, req, doomed>> /\ Copies(req'[t], run'[t])
      /\ run'[t] \in CopyRun
  BY <1>1, CopyWorks DEF CopyRun
<1>3. /\ Sound(req[t], g, doomed, clashed, loc, object)
      /\ EmptyHanded(req[t], g) /\ \A e, d \in g.cur : e = d
      /\ Told(req[t], g, file)
      /\ g.pc = "put" => g.data # Absent
      /\ g.pc \in {"insert", "get"} => g.data = Absent
  BY <1>2 DEF Vetted, Kept, Safe, Carries, Copies
<1>4. req[t].verify /\ req[t].skip
  BY <1>2 DEF Thorough, Submitted, Copies
<1> run \in [Tasks -> Goroutine]
  BY <1>1 DEF Typed, TypeOK
<1>5. CASE CopySkip(t, f)
  <2>1. g.cur = {} /\ run'[t].cur = {}
    BY <1>2, <1>3, <1>5 DEF CopySkip, CopyRun, EmptyHanded
  <2>2. QED BY <1>2, <2>1 DEF Sound
<1>6. CASE CopyNext(t, f)
  <2>1. g.cur = {} /\ run'[t].cur = {f} /\ run'[t].pc = "insert"
    BY <1>2, <1>3, <1>6 DEF CopyNext, CopyRun, EmptyHanded
  <2>2. loc[f][dst] # "active" /\ UNCHANGED loc
    BY <1>4, <1>6 DEF CopyNext, OnDestination
  <2>3. QED BY <1>2, <2>1, <2>2 DEF Sound
<1>7. ASSUME run'[t].cur = g.cur, UNCHANGED clashed,
             \A e \in g.cur : loc'[e][dst] = "active" => loc[e][dst] = "active",
             run'[t].pc = "mark" /\ run'[t].data # Absent =>
               \A e \in g.cur : object'[e][dst] = run'[t].data
      PROVE  /\ Sound(req'[t], run'[t], doomed', clashed', loc', object')
             /\ \A e \in run[t].cur \ doomed' :
                  /\ <<e, req[t].dst>> \notin clashed'
                  /\ loc'[e][req[t].dst] = "active"
                  => object'[e][req[t].dst] = "whole"
  BY <1>2, <1>3, <1>7 DEF Sound
<1>8. CASE CopyInsert(t, f)
  <2>1. run'[t].cur = g.cur /\ run'[t].pc = "get"
    BY <1>2, <1>8 DEF CopyInsert, CopyRun
  <2>2. UNCHANGED clashed /\ \A e \in Files :
          loc'[e][dst] = "active" => loc[e][dst] = "active"
    BY <1>1, <1>2, <1>8 DEF CopyInsert, Typed, TypeOK, history
  <2>3. QED BY <1>2, <1>7, <2>1, <2>2
<1>9. CASE CopyGet(t, f) \/ CopyGetFail(t, f)
  <2>1. /\ run'[t].cur = g.cur /\ UNCHANGED <<loc, clashed>>
        /\ run'[t].pc # "put" => run'[t].data = g.data /\ g.data = Absent
    BY <1>2, <1>3, <1>9 DEF CopyGet, CopyGetFail, CopyRun, storeVars, history
  <2>2. QED BY <1>7, <2>1
<1>10. CASE CopyPut(t, f)
  <2>1. /\ run'[t].cur = g.cur /\ run'[t].data = g.data
        /\ UNCHANGED <<loc, clashed>>
        /\ \A e \in g.cur : e = f
    BY <1>2, <1>3, <1>10 DEF CopyPut, CopyRun, history
  <2>2. object'[f][dst] = g.data
    BY <1>1, <1>2, <1>10 DEF CopyPut, Typed, TypeOK
  <2>3. QED BY <1>7, <2>1, <2>2
<1>11. CASE CopyPutFail(t, f)
  <2>1. /\ run'[t].cur = g.cur /\ run'[t].data = Absent
        /\ UNCHANGED <<loc, clashed>>
    BY <1>2, <1>11 DEF CopyPutFail, CopyRun, history
  <2>2. QED BY <1>7, <2>1
<1>12. CASE CopyMark(t, f)
  <2>1. /\ run'[t].cur = {} /\ g.pc = "mark" /\ f \in g.cur
        /\ UNCHANGED <<object, clashed>> /\ \A e \in g.cur : e = f
    BY <1>2, <1>3, <1>12 DEF CopyMark, CopyRun, history
  <2>2. PICK well \in CopiedWell(t, f) :
          SetLocation(f, dst, IF well THEN "active" ELSE "failed")
    BY <1>12 DEF CopyMark
  <2>3. ASSUME f \notin doomed, <<f, dst>> \notin clashed,
               loc'[f][dst] = "active"
        PROVE  object'[f][dst] = "whole"
    <3>1. loc[f][dst] # "active"
      BY <1>2, <1>3, <2>1, <2>3 DEF Sound, Copies
    <3>2. loc' = [loc EXCEPT ![f][dst] = IF well THEN "active" ELSE "failed"]
      BY <2>2, <2>3, <3>1 DEF SetLocation
    <3>3. well
      BY <1>1, <1>2, <2>3, <3>2 DEF Typed, TypeOK
    <3>4. file[f] = "stored"
      <4>1. file[f] # NoRow /\ file[f] # "deleted"
        BY <1>2, <1>3, <2>1, <2>3 DEF Told, Copies, Vetted, Kept
      <4>2. QED BY <1>1, <4>1 DEF Typed, TypeOK, NoRow
    <3>5. g.data # Absent /\ g.data = "whole"
      BY <1>4, <2>2, <3>3, <3>4 DEF CopiedWell
    <3>6. QED BY <1>2, <1>3, <2>1, <2>3, <3>5 DEF Sound, Copies
  <2>4. Sound(req'[t], run'[t], doomed', clashed', loc', object')
    BY <2>1 DEF Sound
  <2>5. QED BY <1>2, <2>1, <2>3, <2>4
<1>13. QED BY <1>5, <1>6, <1>8, <1>9, <1>10, <1>11, <1>12 DEF CopyWork

\* A copy that does not work keeps the data it has, or ends.
LEMMA ShownStays ==
  ASSUME Typed, NEW t \in Tasks, TaskStep(t), ~\E f \in Files : CopyWork(t, f),
         Copies(req[t], run[t]), run'[t] # Idle
  PROVE  run'[t].pc = "mark" =>
           run'[t].pc = run[t].pc /\ run'[t].data = run[t].data
<1> run \in [Tasks -> Goroutine]
  BY DEF Typed, TypeOK
<1>1. run[t] \in CopyRun
  BY DEF Typed, Fits, Copies, VerifyRequest
<1>2. CASE SubmitCopy(t) \/ SubmitVerify(t)
  BY <1>2 DEF SubmitCopy, SubmitVerify, Submit, Waiting, Listed
<1>3. CASE Cancel(t)
  BY <1>1, <1>3 DEF Cancel, CopyRun
<1>4. CASE Start(t)
  BY <1>1, <1>4 DEF Start, CopyRun
<1>5. CASE CopyCanceled(t) \/ CopyDone(t)
  BY <1>5 DEF CopyCanceled, CopyDone, End
<1>6. CASE VerifyStep(t)
  <2>1. run[t].pc \in {"check", "receive"}
    BY <1>6 DEF VerifyStep, VerifyCanceled, VerifyDone, VerifyAwait, Head,
                VerifyReceive
  <2>2. QED BY <1>1, <2>1, VerifyShape DEF Typed, VerifyRequest, Copies
<1>7. QED BY <1>2, <1>3, <1>4, <1>5, <1>6 DEF TaskStep, CopyStep, CopyWork

\* A step of a task, seen from every copy and every location.
LEMMA TaskVetted ==
  ASSUME ~DbFails, Vetted, Thorough, NEW t \in Tasks, TaskStep(t)
  PROVE  /\ ActiveIsWhole'
         /\ \A x \in Tasks :
              Sound(req'[x], run'[x], doomed', clashed', loc', object')
<1>1. Typed /\ Safe /\ Kept /\ Alone /\ ActiveIsWhole
  BY DEF Vetted, Kept, Safe
<1>2. Touches(t) /\ Hands(t) /\ UNCHANGED <<file, doomed>>
  BY <1>1, TaskTouches, TaskHands, TaskDoes DEF TaskStep, Vetted
<1>3. ASSUME NEW x \in Tasks \ {t}
      PROVE  Sound(req'[x], run'[x], doomed', clashed', loc', object')
  <2>1. Sound(req[x], run[x], doomed, clashed, loc, object)
    BY DEF Vetted
  <2>2. req'[x] = req[x] /\ run'[x] = run[x]
    BY <1>2 DEF Hands
  <2>3. ASSUME Copies(req[x], run[x]), NEW f \in run[x].cur \ doomed',
               <<f, req[x].dst>> \notin clashed'
        PROVE  /\ object'[f][req[x].dst] = object[f][req[x].dst]
               /\ loc'[f][req[x].dst] = "active" =>
                    loc[f][req[x].dst] = "active"
    <3>1. f \in Files /\ req[x].dst \in Providers
      BY <1>1, <2>3
      DEF Typed, Fits, Copies, VerifyRequest, CopyRun, CopyRequest
    <3>2. ~(Copies(req[t], run[t]) /\ f \in run[t].cur /\ req[x].dst = req[t].dst)
      BY <1>1, <1>2, <2>3 DEF Alone, Touches
    <3>3. QED BY <1>2, <3>1, <3>2 DEF Touches
  <2>4. doomed \subseteq doomed' /\ clashed \subseteq clashed'
    BY <1>2 DEF Touches
  <2>5. QED BY <1>1, <2>1, <2>2, <2>3, <2>4, SoundStays
<1>4. CASE \E f \in Files : CopyWork(t, f)
  <2>1. PICK f \in Files : CopyWork(t, f)
    BY <1>4
  <2>2. ActiveIsWhole'
    <3> SUFFICES ASSUME NEW e \in Files \ doomed', NEW p \in Providers,
                        loc'[e][p] = "active", <<e, p>> \notin clashed'
                 PROVE  object'[e][p] = "whole"
      BY DEF ActiveIsWhole
    <3>1. CASE e \in run[t].cur /\ p = req[t].dst
      BY <2>1, <3>1, OwnCopy
    <3>2. CASE ~(e \in run[t].cur /\ p = req[t].dst)
      BY <1>1, <1>2, <3>2 DEF Touches, ActiveIsWhole
    <3>3. QED BY <3>1, <3>2
  <2>3. QED BY <1>3, <2>1, <2>2, OwnCopy
<1>5. CASE ~\E f \in Files : CopyWork(t, f)
  <2>1. /\ UNCHANGED object
        /\ \A e \in Files, p \in Providers :
             loc'[e][p] = "active" => loc[e][p] = "active"
    <3>1. CASE VerifyStep(t)
      <4>1. UNCHANGED object /\ req[t].kind # "copy"
        <5>1. run[t].pc \in {"check", "receive"} /\ UNCHANGED object
          BY <3>1 DEF VerifyStep, VerifyCanceled, VerifyDone, VerifyAwait,
                      Head, VerifyReceive, End, storeVars
        <5>2. QED BY <1>1, <5>1, VerifyShape DEF Typed, VerifyRequest
      <4>2. QED BY <1>2, <4>1 DEF Touches, Copies
    <3>2. CASE ~VerifyStep(t)
      <4>1. \/ SubmitCopy(t) \/ SubmitVerify(t) \/ Cancel(t) \/ Start(t)
            \/ CopyCanceled(t) \/ CopyDone(t)
        BY <1>5, <3>2 DEF TaskStep, CopyStep, CopyWork
      <4>2. UNCHANGED <<loc, object>>
        BY <4>1 DEF SubmitCopy, SubmitVerify, Submit, Cancel, Start,
                    CopyCanceled, CopyDone, End, storeVars
      <4>3. QED BY <4>2
    <3>3. QED BY <3>1, <3>2
  <2>2. ActiveIsWhole'
    BY <1>1, <1>2, <2>1 DEF ActiveIsWhole, Touches
  <2>3. Sound(req'[t], run'[t], doomed', clashed', loc', object')
    <3>1. CASE ~Copies(req'[t], run'[t]) \/ run'[t].cur = {}
      BY <3>1 DEF Sound
    <3>2. CASE /\ req'[t] = req[t] /\ Copies(req[t], run[t])
               /\ run'[t].cur \subseteq run[t].cur
               /\ Copies(req'[t], run'[t])
      <4>1. run'[t].pc = "mark" =>
              run'[t].pc = run[t].pc /\ run'[t].data = run[t].data
        BY <1>1, <1>5, <3>2, ShownStays DEF Copies
      <4>2. run[t].cur \subseteq Files /\ req[t].dst \in Providers
        BY <1>1, <3>2
        DEF Typed, Fits, Copies, VerifyRequest, CopyRun, CopyRequest
      <4>3. Sound(req[t], run[t], doomed, clashed, loc, object)
        BY DEF Vetted
      <4>4. QED BY <1>2, <2>1, <3>2, <4>1, <4>2, <4>3 DEF Sound, Touches
    <3>3. QED BY <1>2, <1>5, <3>1, <3>2 DEF Hands, CopyWork
  <2>4. QED BY <1>3, <2>2, <2>3
<1>6. QED BY <1>4, <1>5

LEMMA NextVetted ==
  ASSUME ~DbFails, Vetted, [Next]_vars
  PROVE  Vetted'
<1> USE DEF storeVars, taskVars, history
<1>1. Kept' /\ Typed
  BY NextKept DEF Vetted, Kept, Safe
<1>2. Thorough' => Thorough
  BY <1>1, ThoroughWas
<1>3. ASSUME NEW t \in Tasks, TaskStep(t)
      PROVE  Vetted'
  <2>1. Hands(t) /\ Alone'
    BY <1>1, <1>3, TaskHands, TaskAlone DEF Vetted
  <2>2. \A x \in Tasks : EmptyHanded(req'[x], run'[x])
    BY <2>1 DEF Hands, Vetted
  <2>3. QED BY <1>1, <1>2, <1>3, <2>1, <2>2, TaskVetted DEF Vetted
\* No task moves, and no location of a file that is left becomes active.
<1>4. ASSUME UNCHANGED <<taskVars, clashed>>, doomed \subseteq doomed',
             \A e \in Files \ doomed', p \in Providers :
               \/ /\ object'[e][p] = object[e][p]
                  /\ loc'[e][p] = "active" => loc[e][p] = "active"
               \/ file[e] = NoRow /\ object'[e][p] = "whole"
      PROVE  Vetted'
  <2>1. Alone' /\ \A x \in Tasks : EmptyHanded(req'[x], run'[x])
    BY <1>4 DEF Vetted, Alone
  <2>2. ASSUME Thorough
        PROVE  ActiveIsWhole'
    BY <1>4, <2>2 DEF Vetted, ActiveIsWhole
  <2>3. ASSUME Thorough, NEW x \in Tasks
        PROVE  Sound(req[x], run[x], doomed', clashed', loc', object')
    <3>1. Sound(req[x], run[x], doomed, clashed, loc, object)
      BY <2>3 DEF Vetted
    <3>2. ASSUME Copies(req[x], run[x]), NEW f \in run[x].cur \ doomed'
          PROVE  /\ object'[f][req[x].dst] = object[f][req[x].dst]
                 /\ loc'[f][req[x].dst] = "active" =>
                      loc[f][req[x].dst] = "active"
      <4>1. f \in Files /\ req[x].dst \in Providers
        BY <1>1, <3>2
        DEF Typed, Fits, Copies, VerifyRequest, CopyRun, CopyRequest
      <4>2. file[f] # NoRow
        BY <3>2 DEF Vetted, Kept, Told, Copies
      <4>3. QED BY <1>4, <3>2, <4>1, <4>2
    <3>3. QED BY <1>1, <1>4, <3>1, <3>2, SoundStays
  <2>4. QED BY <1>1, <1>2, <1>4, <2>1, <2>2, <2>3 DEF Vetted
<1>5. ASSUME NEW d \in Deleters,
             DeleteStep(d) \/ \E f \in Files : DeleteRead(d, f)
      PROVE  Vetted'
  <2>1. DeletionEffect
    BY <1>5, DeletionDoes DEF Vetted, Kept
  <2>2. UNCHANGED clashed
    BY <1>5 DEF DeleteStep, DeleteRead, DeleteList, DeletePrimary,
                DeletePrimaryFail, DeleteCommit, DeleteFail, DeleteObject,
                DeleteObjectFail, DeleteMark
  <2>3. QED BY <1>4, <2>1, <2>2 DEF DeletionEffect
<1>6. ASSUME NEW f \in Files, Upload(f)
      PROVE  Vetted'
  <2>1. /\ file[f] = NoRow /\ UNCHANGED <<taskVars, clashed, doomed>>
        /\ \A e \in Files, p \in Providers :
             IF e = f /\ p = Primary
             THEN object'[e][p] = "whole"
             ELSE loc'[e][p] = loc[e][p] /\ object'[e][p] = object[e][p]
    BY <1>1, <1>6, ReplicasAssumption DEF Upload, Typed, TypeOK
  <2>2. QED BY <1>4, <2>1
<1>7. CASE Restart
  <2>1. /\ UNCHANGED <<loc, object, doomed, clashed, req>>
        /\ \A x \in Tasks : run'[x] = Idle
    BY <1>7 DEF Restart
  <2>2. Alone' /\ \A x \in Tasks : /\ EmptyHanded(req'[x], run'[x])
                                   /\ ~Copies(req'[x], run'[x])
    BY <2>1 DEF Alone, EmptyHanded, Copies
  <2>3. ActiveIsWhole => ActiveIsWhole'
    BY <2>1 DEF ActiveIsWhole
  <2>4. QED BY <1>1, <1>2, <2>2, <2>3 DEF Vetted, Sound
<1>8. CASE UNCHANGED vars
  <2>1. UNCHANGED <<taskVars, clashed, doomed, loc, object>>
    BY <1>8 DEF vars
  <2>2. QED BY <1>4, <2>1
<1>9. QED BY <1>3, <1>5, <1>6, <1>7, <1>8 DEF Next, TaskStep

(***************************************************************************)
(* Where statements do not fail and every copy verifies and skips what is  *)
(* there, an active location has the whole object, whatever was left at it *)
(* by copies that were cut short, canceled or died; but for locations that *)
(* two tasks have copied to at once.                                       *)
(***************************************************************************)
THEOREM ActiveIsVerifiedHolds ==
  ASSUME ~DbFails
  PROVE  Spec => []ActiveIsVerified
<1>1. Vetted => ActiveIsVerified
  BY DEF Vetted, ActiveIsVerified, Thorough, ActiveIsWhole
<1>2. Vetted /\ [Next]_vars => Vetted'
  BY NextVetted
<1>3. QED BY <1>1, <1>2, InitVetted, PTL DEF Spec

-----------------------------------------------------------------------------
(***************************************************************************)
(* Slots: every step that takes one or gives it back writes the row.       *)
(***************************************************************************)
Slots == Typed /\ RunningHasSlot

LEMMA NextSlots ==
  ASSUME ~DbFails, Slots, [Next]_vars
  PROVE  Slots'
<1> USE DEF storeVars, taskVars, history
<1>1. Typed'
  BY NextTyped DEF Slots
<1>2. ASSUME \A x \in Tasks : \/ /\ status'[x] = status[x]
                                 /\ run'[x].pc = run[x].pc
                              \/ status'[x] = "running" <=>
                                   run'[x].pc \notin {"idle", "wait"}
      PROVE  Slots'
  BY <1>1, <1>2 DEF Slots, RunningHasSlot, Working
<1>3. ASSUME NEW t \in Tasks, NEW s, NEW g,
             status' = [status EXCEPT ![t] = s],
             run' = [run EXCEPT ![t] = g],
             s = "running" <=> g.pc \notin {"idle", "wait"}
      PROVE  Slots'
  <2>1. \A x \in Tasks : /\ status'[x] = IF x = t THEN s ELSE status[x]
                         /\ run'[x] = IF x = t THEN g ELSE run[x]
    BY <1>3 DEF Slots, Typed, TypeOK
  <2>2. QED BY <1>2, <1>3, <2>1
\* A goroutine that holds a slot goes on.
<1>4. ASSUME NEW t \in Tasks, NEW g, UNCHANGED status,
             run' = [run EXCEPT ![t] = g],
             g.pc = run[t].pc \/ {g.pc, run[t].pc} \cap {"idle", "wait"} = {}
      PROVE  Slots'
  <2>1. \A x \in Tasks : run'[x] = IF x = t THEN g ELSE run[x]
    BY <1>4 DEF Slots, Typed, TypeOK
  <2>2. {g.pc, run[t].pc} \cap {"idle", "wait"} = {} =>
          (status'[t] = "running" <=> run'[t].pc \notin {"idle", "wait"})
    BY <1>4, <2>1 DEF Slots, RunningHasSlot, Working
  <2>3. QED BY <1>2, <1>4, <2>1, <2>2
<1>5. ASSUME NEW t \in Tasks, NEW s, End(t, s), s # "running"
      PROVE  Slots'
  <2>1. Idle.pc = "idle"
    BY DEF Idle
  <2>2. status' = [status EXCEPT ![t] = s] /\ run' = [run EXCEPT ![t] = Idle]
    BY <1>5 DEF End
  <2>3. QED BY <1>3, <1>5, <2>1, <2>2
<1>6. ASSUME NEW t \in Tasks, SubmitCopy(t) \/ SubmitVerify(t)
      PROVE  Slots'
  <2>1. ASSUME NEW r, NEW g, Submit(t, r, g), g.pc = "wait"
        PROVE  Slots'
    <3>1. /\ status' = [status EXCEPT ![t] = "pending"]
          /\ run' = [run EXCEPT ![t] = g]
      BY <2>1 DEF Submit
    <3>2. QED BY <1>3, <2>1, <3>1
  <2>2. CASE SubmitCopy(t)
    <3>1. PICK r, todo : Submit(t, r, Waiting(todo))
      BY <2>2 DEF SubmitCopy
    <3>2. Waiting(todo).pc = "wait"
      BY DEF Waiting
    <3>3. QED BY <2>1, <3>1, <3>2
  <2>3. CASE SubmitVerify(t)
    <3>1. PICK fix, items :
            Submit(t, [kind |-> "verify", fix |-> fix], Listed(items))
      BY <2>3 DEF SubmitVerify
    <3>2. Listed(items).pc = "wait"
      BY DEF Listed
    <3>3. QED BY <2>1, <3>1, <3>2
  <2>4. QED BY <1>6, <2>2, <2>3
<1>7. ASSUME NEW t \in Tasks, Cancel(t)
      PROVE  Slots'
  <2> DEFINE g == [run[t] EXCEPT !.canceled = TRUE]
  <2>1. UNCHANGED status /\ run' = [run EXCEPT ![t] = g] /\ run[t] # Idle
    BY <1>7 DEF Cancel
  <2>2. g.pc = run[t].pc
    BY <2>1 DEF Slots, Typed, Fits, CopyRun, VerifyRun
  <2> HIDE DEF g
  <2>3. QED BY <1>4, <2>1, <2>2
<1>8. ASSUME NEW t \in Tasks, Start(t)
      PROVE  Slots'
  <2> DEFINE g == [run[t] EXCEPT !.pc =
                     IF req[t].kind = "copy" THEN "next" ELSE "check"]
  <2>1. /\ status' = [status EXCEPT ![t] = "running"]
        /\ run' = [run EXCEPT ![t] = g]
        /\ run[t] # Idle
    BY <1>8 DEF Start, Idle
  <2>2. g.pc \notin {"idle", "wait"}
    BY <2>1 DEF Slots, Typed, Fits, CopyRun, VerifyRun
  <2> HIDE DEF g
  <2>3. QED BY <1>3, <2>1, <2>2
<1>9. ASSUME NEW t \in Tasks, CopyStep(t)
      PROVE  Slots'
  <2>1. CASE CopyCanceled(t) \/ CopyDone(t)
    BY <1>5, <2>1 DEF CopyCanceled, CopyDone
  <2>2. ASSUME NEW f \in Files,
               \/ CopySkip(t, f) \/ CopyNext(t, f) \/ CopyInsert(t, f)
               \/ CopyGet(t, f) \/ CopyGetFail(t, f)
               \/ CopyPut(t, f) \/ CopyPutFail(t, f) \/ CopyMark(t, f)
        PROVE  Slots'
    <3>1. run[t].pc \in CopySteps /\ UNCHANGED status
      BY <2>2 DEF CopySkip, CopyNext, CopyInsert, CopyGet, CopyGetFail,
                  CopyPut, CopyPutFail, CopyMark, CopySteps
    <3>2. run[t] \in CopyRun
      BY <3>1, CopyShape DEF Slots, Typed
    <3>3. /\ run'[t].pc \in CopySteps
          /\ \A x \in Tasks \ {t} : run'[x] = run[x]
      <4> run \in [Tasks -> Goroutine]
        BY DEF Slots, Typed, TypeOK
      <4>1. CASE CopySkip(t, f) \/ CopyNext(t, f) \/ CopyInsert(t, f)
        BY <3>1, <3>2, <4>1
        DEF CopySkip, CopyNext, CopyInsert, CopyRun, CopySteps
      <4>2. CASE CopyGet(t, f) \/ CopyGetFail(t, f)
        BY <3>2, <4>2 DEF CopyGet, CopyGetFail, CopyRun, CopySteps
      <4>3. CASE CopyPut(t, f) \/ CopyPutFail(t, f) \/ CopyMark(t, f)
        BY <3>2, <4>3 DEF CopyPut, CopyPutFail, CopyMark, CopyRun, CopySteps
      <4>4. QED BY <2>2, <4>1, <4>2, <4>3
    <3>4. status'[t] = "running" <=> run'[t].pc \notin {"idle", "wait"}
      BY <3>1, <3>3 DEF Slots, RunningHasSlot, Working, CopySteps
    <3>5. QED BY <1>2, <3>1, <3>3, <3>4
  <2>3. QED BY <1>9, <2>1, <2>2 DEF CopyStep
<1>10. ASSUME NEW t \in Tasks, VerifyStep(t)
       PROVE  Slots'
  <2>1. CASE VerifyCanceled(t) \/ VerifyDone(t)
    BY <1>5, <2>1 DEF VerifyCanceled, VerifyDone
  <2>2. ASSUME run[t].pc \in {"check", "receive"}, UNCHANGED status,
               run'[t].pc \in {"check", "receive"},
               \A x \in Tasks \ {t} : run'[x] = run[x]
        PROVE  Slots'
    <3>1. status'[t] = "running" <=> run'[t].pc \notin {"idle", "wait"}
      BY <2>2 DEF Slots, RunningHasSlot, Working
    <3>2. QED BY <1>2, <2>2, <3>1
  <2>3. ASSUME run[t].pc \in {"check", "receive"}
        PROVE  run[t] \in VerifyRun /\ run \in [Tasks -> Goroutine]
    BY <2>3, VerifyShape DEF Slots, Typed, TypeOK
  <2>4. CASE VerifyAwait(t)
    BY <2>2, <2>3, <2>4 DEF VerifyAwait, VerifyRun
  <2>5. ASSUME NEW i \in Items, Head(t, i)
        PROVE  Slots'
    BY <2>2, <2>3, <2>5 DEF Head, VerifyRun
  <2>6. ASSUME NEW a, VerifyReceive(t, a)
        PROVE  Slots'
    BY <2>2, <2>3, <2>6 DEF VerifyReceive, VerifyRun
  <2>7. QED BY <1>10, <2>1, <2>4, <2>5, <2>6 DEF VerifyStep
<1>11. CASE Restart
  <2>1. \A x \in Tasks : status'[x] # "running" /\ run'[x].pc = "idle"
    BY <1>11 DEF Restart, Stale, Idle
  <2>2. QED BY <1>2, <2>1
<1>12. ASSUME UNCHANGED taskVars
       PROVE  Slots'
  BY <1>2, <1>12
<1>13. ASSUME NEW d \in Deleters,
              DeleteStep(d) \/ \E f \in Files : DeleteRead(d, f)
       PROVE  UNCHANGED taskVars
  BY <1>13 DEF DeleteStep, DeleteRead, DeleteList, DeletePrimary,
               DeletePrimaryFail, DeleteCommit, DeleteFail, DeleteObject,
               DeleteObjectFail, DeleteMark, SetDeletion
<1>14. CASE UNCHANGED vars \/ \E f \in Files : Upload(f)
  <2>1. UNCHANGED taskVars
    BY <1>14 DEF Upload, vars
  <2>2. QED BY <1>12, <2>1
<1>15. QED BY <1>6, <1>7, <1>8, <1>9, <1>10, <1>11, <1>12, <1>13, <1>14
           DEF Next

(***************************************************************************)
(* Where statements do not fail, admin_tasks says running of the tasks     *)
(* that hold a slot, and of no other.                                      *)
(***************************************************************************)
THEOREM RunningHasSlotHolds ==
  ASSUME ~DbFails
  PROVE  Spec => []RunningHasSlot
<1>1. Init => Slots
  BY InitTyped
  DEF Init, Slots, RunningHasSlot, Working, Idle, NoRow
<1>2. Slots /\ [Next]_vars => Slots'
  BY NextSlots
<1>3. QED BY <1>1, <1>2, PTL DEF Spec, Slots
=============================================================================
