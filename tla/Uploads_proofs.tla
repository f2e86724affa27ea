--------------------------- MODULE Uploads_proofs ---------------------------
(***************************************************************************)
(* Proofs about Uploads, for every number of users, files and concurrent   *)
(* requests, every cap and every bound.                                    *)
(***************************************************************************)
EXTENDS Uploads, Sums_proofs

(***************************************************************************)
(* What a running handler carries, by the point it has reached.            *)
(***************************************************************************)
LEMMA RequestShape ==
  ASSUME NEW q \in RequestState
  PROVE  /\ q.pc = "create_commit" =>
              q.user \in Users /\ q.file \in Files /\ q.size \in Sizes
         /\ q.pc \in {"chunk_hash", "chunk_put", "chunk_row"} =>
              /\ q \in [pc: {"chunk_hash", "chunk_put", "chunk_row"},
                        file: Files, chunk: Chunks, ver: Versions]
              /\ q.file \in Files /\ q.chunk \in Chunks /\ q.ver \in Versions
         /\ q.pc = "complete_hash" =>
              q.file \in Files /\ q.rows \in [Chunks -> Versions]
         /\ q.pc \in {"complete_forget", "complete_put", "complete_commit"} =>
              /\ q \in [pc: {"complete_forget", "complete_put",
                             "complete_commit"}, file: Files,
                        rows: [Chunks -> Versions], hash: Seq(HashItem)]
              /\ q.file \in Files /\ q.hash \in Seq(HashItem)
         /\ q.pc \in {"cancel_abort", "cancel_commit", "cancel_forget"} =>
              /\ q \in [pc: {"cancel_abort", "cancel_commit",
                             "cancel_forget"}, file: Files]
              /\ q.file \in Files
         /\ q.pc \in {"delete_remove", "delete_commit"} =>
              /\ q \in [pc: {"delete_remove", "delete_commit"}, file: Files]
              /\ q.file \in Files
  BY DEF RequestState, Idle

LEMMA GotoType ==
  ASSUME req \in [Requests -> RequestState], NEW r \in Requests,
         NEW q \in RequestState, Goto(r, q)
  PROVE  req' \in [Requests -> RequestState]
  BY DEF Goto

LEMMA FinishType ==
  ASSUME req \in [Requests -> RequestState], NEW r \in Requests, Finish(r)
  PROVE  req' \in [Requests -> RequestState]
  BY DEF Finish, Goto, RequestState

LEMMA InitType == Init => TypeOK
  BY UploadsAssumption
  DEF Init, TypeOK, RequestState, Idle, NoFile, NoHash, Versions

(***************************************************************************)
(* Type correctness: one step per action.                                  *)
(***************************************************************************)
LEMMA NextType ==
  ASSUME TypeOK, [Next]_vars
  PROVE  TypeOK'
<1> USE UploadsAssumption DEF TypeOK, sessionVars, storageVars
<1>1. ASSUME NEW r \in Requests, Arrive(r)
      PROVE  TypeOK'
  <2> PICK f \in Files :
        \/ \E u \in Users, n \in Sizes : CreateCheck(r, u, f, n)
        \/ \E c \in Chunks : ChunkRead(r, f, c)
        \/ CompleteRead(r, f)
        \/ CancelRead(r, f)
        \/ DeleteRead(r, f)
    BY <1>1 DEF Arrive
  <2>1. ASSUME NEW u \in Users, NEW n \in Sizes, CreateCheck(r, u, f, n)
        PROVE  TypeOK'
    <3>1. [pc |-> "create_commit", user |-> u, file |-> f, size |-> n]
            \in RequestState
      BY DEF RequestState
    <3>2. QED BY <2>1, <3>1, GotoType DEF CreateCheck
  <2>2. ASSUME NEW c \in Chunks, ChunkRead(r, f, c)
        PROVE  TypeOK'
    <3>1. Content(f, c) \in Versions
      BY <2>2 DEF ChunkRead, ClientSends, Content, Versions
    <3>2. [pc |-> "chunk_hash", file |-> f, chunk |-> c,
           ver |-> Content(f, c)] \in RequestState
      BY <3>1 DEF RequestState
    <3>3. sent' \in [Files -> [Chunks -> 0 .. MaxSends]]
      BY <2>2 DEF ChunkRead, ClientSends
    <3>4. QED BY <2>2, <3>2, <3>3, GotoType DEF ChunkRead
  <2>3. CASE CompleteRead(r, f)
    <3>1. row[f] \in [Chunks -> Versions]
      BY <2>3 DEF CompleteRead, Versions
    <3>2. [pc |-> "complete_hash", file |-> f, rows |-> row[f]]
            \in RequestState
      BY <3>1 DEF RequestState
    <3>3. QED BY <2>3, <3>2, GotoType DEF CompleteRead
  <2>4. CASE CancelRead(r, f)
    <3>1. [pc |-> "cancel_abort", file |-> f] \in RequestState
      BY DEF RequestState
    <3>2. QED BY <2>4, <3>1, GotoType DEF CancelRead
  <2>5. CASE DeleteRead(r, f)
    <3>1. [pc |-> "delete_remove", file |-> f] \in RequestState
      BY DEF RequestState
    <3>2. QED BY <2>5, <3>1, GotoType DEF DeleteRead
  <2>6. QED BY <2>1, <2>2, <2>3, <2>4, <2>5
<1>2. ASSUME NEW r \in Requests, Proceed(r)
      PROVE  TypeOK'
  <2> DEFINE q == req[r]
  <2>0. q \in RequestState
    OBVIOUS
  <2>1. CASE CreateCommit(r)
    <3>1. q.user \in Users /\ q.file \in Files /\ q.size \in Nat
      BY <2>0, <2>1, RequestShape DEF CreateCommit
    <3>2. \A h \in Honesty : h \in BOOLEAN
      OBVIOUS
    <3>3. /\ status' \in [Files -> {"none", "in_progress", "abandoned",
                                    "canceled", "completed"}]
          /\ owner' \in [Files -> SUBSET Users]
          /\ size' \in [Files -> Nat]
          /\ honest' \in [Files -> BOOLEAN]
          /\ uploadId' \in [Files -> BOOLEAN]
          /\ mpu' \in [Files -> {"none", "open", "aborted", "done"}]
      BY <2>1, <3>1, <3>2 DEF CreateCommit
    <3>4. QED BY <2>1, <3>3, FinishType DEF CreateCommit
  <2>2. CASE CreateFail(r)
    BY <2>2, FinishType DEF CreateFail
  <2>3. CASE ChunkHash(r)
    <3>1. /\ q.file \in Files /\ q.chunk \in Chunks /\ q.ver \in Versions
          /\ q \in [pc: {"chunk_hash", "chunk_put", "chunk_row"},
                    file: Files, chunk: Chunks, ver: Versions]
      BY <2>0, <2>3, RequestShape DEF ChunkHash
    <3>2. PICK item : /\ item \in {<<q.chunk, q.ver>>, Garbled}
                      /\ hash' = [hash EXCEPT ![q.file] = Append(@, item)]
      BY <2>3 DEF ChunkHash
    <3>3. item \in HashItem
      BY <3>1, <3>2 DEF HashItem, Garbled
    <3>4. hash' \in [Files -> Seq(HashItem)]
      BY <3>1, <3>2, <3>3
    <3>5. [q EXCEPT !.pc = "chunk_put"] \in RequestState
      BY <3>1 DEF RequestState
    <3>6. QED BY <2>3, <3>4, <3>5, GotoType DEF ChunkHash
  <2>4. CASE ChunkPut(r)
    <3>1. /\ q.file \in Files /\ q.chunk \in Chunks /\ q.ver \in Versions
          /\ q \in [pc: {"chunk_hash", "chunk_put", "chunk_row"},
                    file: Files, chunk: Chunks, ver: Versions]
      BY <2>0, <2>4, RequestShape DEF ChunkPut
    <3>2. part' \in [Files -> [Chunks -> 0 .. MaxSends]]
      BY <2>4, <3>1 DEF ChunkPut, Versions
    <3>3. [q EXCEPT !.pc = "chunk_row"] \in RequestState
      BY <3>1 DEF RequestState
    <3>4. QED BY <2>4, <3>2, <3>3, GotoType DEF ChunkPut
  <2>5. CASE ChunkPutFail(r)
    BY <2>5, FinishType DEF ChunkPutFail
  <2>6. CASE ChunkRow(r)
    <3>1. q.file \in Files /\ q.chunk \in Chunks /\ q.ver \in Versions
      BY <2>0, <2>6, RequestShape DEF ChunkRow
    <3>2. row' \in [Files -> [Chunks -> 0 .. MaxSends]]
      <4>1. \/ row' = [row EXCEPT ![q.file][q.chunk] = q.ver]
            \/ row' = row
        BY <2>6 DEF ChunkRow
      <4>2. q.ver \in 0 .. MaxSends
        BY <3>1 DEF Versions
      <4>3. row \in [Files -> [Chunks -> 0 .. MaxSends]]
        OBVIOUS
      <4>4. [row EXCEPT ![q.file][q.chunk] = q.ver]
              \in [Files -> [Chunks -> 0 .. MaxSends]]
        BY <3>1, <4>2, <4>3
      <4>5. QED BY <4>1, <4>3, <4>4
    <3>3. QED BY <2>6, <3>2, FinishType DEF ChunkRow
  <2>7. CASE CompleteHash(r)
    <3>1. q.file \in Files /\ q.rows \in [Chunks -> Versions]
      BY <2>0, <2>7, RequestShape DEF CompleteHash
    <3>2. [pc |-> "complete_forget", file |-> q.file, rows |-> q.rows,
           hash |-> hash[q.file]] \in RequestState
      BY <3>1 DEF RequestState
    <3>3. req' \in [Requests -> RequestState]
      <4>1. CASE hash[q.file] = NoHash
        BY <2>7, <4>1, FinishType DEF CompleteHash
      <4>2. CASE hash[q.file] # NoHash
        BY <2>7, <3>2, <4>2, GotoType DEF CompleteHash
      <4>3. QED BY <4>1, <4>2
    <3>4. QED BY <2>7, <3>3 DEF CompleteHash
  <2>8. CASE CompleteForget(r)
    <3>1. /\ q.file \in Files
          /\ q \in [pc: {"complete_forget", "complete_put",
                         "complete_commit"}, file: Files,
                    rows: [Chunks -> Versions], hash: Seq(HashItem)]
      BY <2>0, <2>8, RequestShape DEF CompleteForget
    <3>2. [q EXCEPT !.pc = "complete_put"] \in RequestState
      BY <3>1 DEF RequestState
    <3>3. hash' \in [Files -> Seq(HashItem)]
      BY <2>8, <3>1 DEF CompleteForget, NoHash
    <3>4. QED BY <2>8, <3>2, <3>3, GotoType DEF CompleteForget
  <2>9. CASE CompletePut(r)
    <3>1. /\ q.file \in Files
          /\ q \in [pc: {"complete_forget", "complete_put",
                         "complete_commit"}, file: Files,
                    rows: [Chunks -> Versions], hash: Seq(HashItem)]
      BY <2>0, <2>9, RequestShape DEF CompletePut
    <3>2. [q EXCEPT !.pc = "complete_commit"] \in RequestState
      BY <3>1 DEF RequestState
    <3>3. QED BY <2>9, <3>1, <3>2, GotoType DEF CompletePut
  <2>10. CASE CompletePutFail(r)
    BY <2>10, FinishType DEF CompletePutFail
  <2>11. CASE CompleteCommit(r)
    <3>1. q.file \in Files /\ q.hash \in Seq(HashItem)
      BY <2>0, <2>11, RequestShape DEF CompleteCommit
    <3>2. /\ status' \in [Files -> {"none", "in_progress", "abandoned",
                                    "canceled", "completed"}]
          /\ meta' \in [Files -> Seq(HashItem)]
          /\ usage' \in [Users -> Nat]
      BY <2>11, <3>1 DEF CompleteCommit
    <3>3. QED BY <2>11, <3>2, FinishType DEF CompleteCommit
  <2>12. CASE CompleteMismatch(r)
    BY <2>12, FinishType DEF CompleteMismatch
  <2>13. CASE CompleteCommitFail(r)
    BY <2>13, FinishType DEF CompleteCommitFail
  <2>14. CASE CancelAbort(r)
    <3>1. q \in [pc: {"cancel_abort", "cancel_commit", "cancel_forget"},
                 file: Files]
      BY <2>0, <2>14, RequestShape DEF CancelAbort
    <3>2. [q EXCEPT !.pc = "cancel_commit"] \in RequestState
      BY <3>1 DEF RequestState
    <3>3. QED BY <2>14, <3>2, GotoType DEF CancelAbort, Abort
  <2>15. CASE CancelCommit(r)
    <3>1. q \in [pc: {"cancel_abort", "cancel_commit", "cancel_forget"},
                 file: Files]
      BY <2>0, <2>15, RequestShape DEF CancelCommit
    <3>2. [q EXCEPT !.pc = "cancel_forget"] \in RequestState
      BY <3>1 DEF RequestState
    <3>3. QED BY <2>15, <3>2, GotoType, FinishType DEF CancelCommit
  <2>16. CASE CancelForget(r)
    <3>1. q.file \in Files
      BY <2>0, <2>16, RequestShape DEF CancelForget
    <3>2. hash' \in [Files -> Seq(HashItem)]
      BY <2>16, <3>1 DEF CancelForget, NoHash
    <3>3. QED BY <2>16, <3>2, FinishType DEF CancelForget
  <2>17. CASE DeleteRemove(r)
    <3>1. q \in [pc: {"delete_remove", "delete_commit"}, file: Files]
      BY <2>0, <2>17, RequestShape DEF DeleteRemove
    <3>2. [q EXCEPT !.pc = "delete_commit"] \in RequestState
      BY <3>1 DEF RequestState
    <3>3. QED BY <2>17, <3>2, GotoType DEF DeleteRemove
  <2>18. CASE DeleteCommit(r)
    <3>1. q.file \in Files
      BY <2>0, <2>18, RequestShape DEF DeleteCommit
    <3>2. \A u \in Users : Less(usage[u], size[q.file]) \in Nat
      BY <3>1 DEF Less
    <3>3. /\ meta' \in [Files -> Seq(HashItem)]
          /\ usage' \in [Users -> Nat]
      BY <2>18, <3>1, <3>2 DEF DeleteCommit, NoFile
    <3>4. QED BY <2>18, <3>3, FinishType DEF DeleteCommit
  <2>19. CASE DeleteFail(r)
    BY <2>19, FinishType DEF DeleteFail
  <2>20. QED
    BY <1>2, <2>1, <2>2, <2>3, <2>4, <2>5, <2>6, <2>7, <2>8, <2>9, <2>10,
       <2>11, <2>12, <2>13, <2>14, <2>15, <2>16, <2>17, <2>18, <2>19
    DEF Proceed
<1>3. CASE StaleJob
  <2>1. CASE StaleScan
    BY <2>1 DEF StaleScan
  <2>2. ASSUME NEW f \in Files, StaleAbort(f)
        PROVE  TypeOK'
    BY <2>2 DEF StaleAbort, Abort
  <2>3. ASSUME NEW f \in Files, StaleClear(f)
        PROVE  TypeOK'
    BY <2>3 DEF StaleClear
  <2>4. QED BY <1>3, <2>1, <2>2, <2>3 DEF StaleJob
<1>4. ASSUME NEW f \in Files, Expire(f)
      PROVE  TypeOK'
  BY <1>4 DEF Expire
<1>5. CASE Crash
  BY <1>5 DEF Crash, RequestState, NoHash
<1>6. CASE UNCHANGED vars
  BY <1>6 DEF vars
<1>7. QED BY <1>1, <1>2, <1>3, <1>4, <1>5, <1>6 DEF Next

\* Every variable keeps its type; what a handler carries from step to step is
\* always about a real session and a real chunk.
THEOREM TypeCorrect == Spec => []TypeOK
<1>1. Init => TypeOK
  BY InitType
<1>2. TypeOK /\ [Next]_vars => TypeOK'
  BY NextType
<1>3. QED BY <1>1, <1>2, PTL DEF Spec

-----------------------------------------------------------------------------
(***************************************************************************)
(* The cap on sessions in progress.  SessionCap is inductive: the only     *)
(* step that adds a session is CreateCommit, which counts and inserts in   *)
(* one transaction; every other change of status takes a session away.     *)
(***************************************************************************)

\* A set of sessions in progress does not outgrow the cap if it only loses
\* members.
LEMMA FewerInProgress ==
  ASSUME NEW S \in SUBSET Files, NEW T \in SUBSET S,
         Cardinality(S) <= MaxInProgress
  PROVE  Cardinality(T) <= MaxInProgress
<1>1. IsFiniteSet(S)
  BY UploadsAssumption, FS_Subset
<1>2. /\ IsFiniteSet(T)
      /\ Cardinality(T) <= Cardinality(S)
  BY <1>1, FS_Subset
<1>3. Cardinality(S) \in Nat /\ Cardinality(T) \in Nat
  BY <1>1, <1>2, FS_CardinalityType
<1>4. QED BY <1>2, <1>3, UploadsAssumption

\* Each step that is not CreateCommit keeps the owners, and adds no session to
\* those in progress.
LEMMA OnlyCreateAdds ==
  ASSUME TypeOK, [Next]_vars,
         \A r \in Requests : ~CreateCommit(r)
  PROVE  \A u \in Users : InProgress(u)' \subseteq InProgress(u)
<1> USE DEF InProgress, sessionVars, TypeOK
<1>1. ASSUME NEW r \in Requests, Arrive(r)
      PROVE  UNCHANGED <<status, owner>>
  BY <1>1 DEF Arrive, CreateCheck, ChunkRead, CompleteRead, CancelRead,
              DeleteRead
<1>2. ASSUME NEW r \in Requests, Proceed(r)
      PROVE  /\ owner' = owner
             /\ \A f \in Files : status'[f] = "in_progress" =>
                                   status[f] = "in_progress"
  <2>1. CASE CompleteCommit(r)
    BY <2>1 DEF CompleteCommit
  <2>2. CASE CancelCommit(r)
    BY <2>2 DEF CancelCommit
  <2>3. CASE ~CompleteCommit(r) /\ ~CancelCommit(r)
    <3>1. UNCHANGED <<status, owner>>
      BY <1>2, <2>3 DEF Proceed, CreateFail, ChunkHash, ChunkPut,
         ChunkPutFail, ChunkRow, CompleteHash, CompleteForget, CompletePut,
         CompletePutFail, CompleteMismatch, CompleteCommitFail, CancelAbort,
         CancelForget, DeleteRemove, DeleteCommit, DeleteFail
    <3>2. QED BY <3>1
  <2>4. QED BY <2>1, <2>2, <2>3
<1>3. CASE StaleJob
  BY <1>3 DEF StaleJob, StaleScan, StaleAbort, StaleClear
<1>4. ASSUME NEW f \in Files, Expire(f)
      PROVE  UNCHANGED <<status, owner>>
  BY <1>4 DEF Expire
<1>5. CASE Crash
  BY <1>5 DEF Crash
<1>6. CASE UNCHANGED vars
  BY <1>6 DEF vars
<1>7. QED BY <1>1, <1>2, <1>3, <1>4, <1>5, <1>6 DEF Next

LEMMA CreateKeepsCap ==
  ASSUME TypeOK, SessionCap, NEW r \in Requests, CreateCommit(r)
  PROVE  SessionCap'
<1>1. req[r].user \in Users /\ req[r].file \in Files
  BY RequestShape DEF CreateCommit, TypeOK
<1> SUFFICES ASSUME NEW u \in Users, NEW f \in Files,
                    u = req[r].user, f = req[r].file
             PROVE  SessionCap'
  BY <1>1
<1> DEFINE Kept == InProgress(u) \ Expired(u)
<1>2. \A v \in Users : v # u => InProgress(v)' \subseteq InProgress(v)
  BY <1>1 DEF CreateCommit, InProgress, TypeOK
<1>3. InProgress(u)' \subseteq Kept \cup {f}
  <2> SUFFICES ASSUME NEW g \in Files, status'[g] = "in_progress",
                      u \in owner'[g], g # f
               PROVE  g \in Kept
    BY DEF InProgress
  <2>1. /\ g \notin Expired(u)
        /\ status[g] = "in_progress"
    BY DEF CreateCommit
  <2>2. owner'[g] = owner[g]
    BY <1>1 DEF CreateCommit, TypeOK
  <2>3. QED BY <2>1, <2>2 DEF InProgress
<1>4. Cardinality(Kept) < MaxInProgress
  BY DEF CreateCommit, MayCreate
<1>5. IsFiniteSet(Kept)
  BY UploadsAssumption, FS_Subset DEF InProgress
<1>6. /\ IsFiniteSet(Kept \cup {f})
      /\ Cardinality(Kept \cup {f}) <= MaxInProgress
  <2>1. /\ IsFiniteSet(Kept \cup {f})
        /\ Cardinality(Kept \cup {f}) = IF f \in Kept THEN Cardinality(Kept)
                                        ELSE Cardinality(Kept) + 1
    BY <1>5, FS_AddElement
  <2>2. Cardinality(Kept) \in Nat
    BY <1>5, FS_CardinalityType
  <2>3. QED BY <1>4, <2>1, <2>2, UploadsAssumption
<1>7. Cardinality(InProgress(u)') <= MaxInProgress
  <2>1. Kept \cup {f} \in SUBSET Files
    BY <1>1 DEF InProgress
  <2>2. QED BY <1>3, <1>6, <2>1, FewerInProgress
<1>8. ASSUME NEW v \in Users, v # u
      PROVE  Cardinality(InProgress(v)') <= MaxInProgress
  <2>1. InProgress(v) \in SUBSET Files /\ Cardinality(InProgress(v)) <= MaxInProgress
    BY DEF InProgress, SessionCap
  <2>2. QED BY <1>2, <1>8, <2>1, FewerInProgress
<1>9. \A v \in Users : Cardinality(InProgress(v)') <= MaxInProgress
  BY <1>7, <1>8
<1>10. QED BY <1>9 DEF SessionCap

\* For every user, any number of overlapping requests and any crash: at most
\* MaxInProgress sessions are in progress (uploads.go, the count inside the
\* transaction of CreateUploadSession).
THEOREM SessionCapHolds == Spec => []SessionCap
<1>1. Init => SessionCap
  <2> SUFFICES ASSUME Init, NEW u \in Users
               PROVE  Cardinality(InProgress(u)) <= MaxInProgress
    BY DEF SessionCap
  <2>1. InProgress(u) = {}
    BY DEF Init, InProgress
  <2>2. QED BY <2>1, FS_EmptySet, UploadsAssumption
<1>2. TypeOK /\ SessionCap /\ [Next]_vars => SessionCap'
  <2> SUFFICES ASSUME TypeOK, SessionCap, [Next]_vars
               PROVE  SessionCap'
    OBVIOUS
  <2>1. CASE \E r \in Requests : CreateCommit(r)
    BY <2>1, CreateKeepsCap
  <2>2. CASE \A r \in Requests : ~CreateCommit(r)
    <3> SUFFICES ASSUME NEW u \in Users
                 PROVE  Cardinality(InProgress(u)') <= MaxInProgress
      BY DEF SessionCap
    <3>1. InProgress(u)' \subseteq InProgress(u)
      BY <2>2, OnlyCreateAdds
    <3>2. InProgress(u) \in SUBSET Files /\ Cardinality(InProgress(u)) <= MaxInProgress
      BY DEF InProgress, SessionCap
    <3>3. QED BY <3>1, <3>2, FewerInProgress
  <2>3. QED BY <2>1, <2>2
<1>3. QED BY <1>1, <1>2, TypeCorrect, PTL DEF Spec

-----------------------------------------------------------------------------
(***************************************************************************)
(* What a file row rests on.  DanglingOnlyByDelete is not inductive: the   *)
(* row appears in the last step of CompleteUpload, so the invariant has to *)
(* say what a handler that stands before that step knows - the object is   *)
(* there, nobody else is about to insert or to delete the same file - and  *)
(* that this stays true because a multipart upload is completed only once. *)
(***************************************************************************)

Deleting(r, f) ==
  req[r].pc \in {"delete_remove", "delete_commit"} /\ req[r].file = f

UploadInv ==
  \A f \in Files : /\ status[f] = "none" => mpu[f] = "none"
                   /\ status[f] = "completed" => mpu[f] = "done"

RowInv ==
  \A f \in Files : meta[f] # NoFile =>
                     mpu[f] = "done" /\ object[f] \in {"present", "deleted"}

DeletingInv ==
  \A f \in Files, r \in Requests : Deleting(r, f) => mpu[f] = "done"

CommittingInv ==
  \A f \in Files, r \in Requests :
    Committing(r, f) =>
      /\ mpu[f] = "done" /\ object[f] = "present"
      /\ meta[f] = NoFile /\ status[f] # "completed"
      /\ \A q \in Requests : ~Deleting(q, f) /\ (Committing(q, f) => q = r)

FileInv == UploadInv /\ RowInv /\ DeletingInv /\ CommittingInv

\* The step brings no handler to a commit or to a deletion.
NoneNew ==
  \A f \in Files, r \in Requests : /\ Committing(r, f)' => Committing(r, f)
                                   /\ Deleting(r, f)' => Deleting(r, f)

\* The step starts and completes no upload; it may abandon, cancel or abort.
NoneCompleted ==
  \A f \in Files :
    /\ status'[f] \in {status[f], "abandoned", "canceled"}
    /\ \/ mpu'[f] = mpu[f]
       \/ mpu[f] = "open" /\ mpu'[f] = "aborted"

\* A step that brings no handler to a commit or a deletion, leaves rows and
\* objects alone, and neither completes nor restarts an upload.
LEMMA FileInvKept ==
  ASSUME FileInv, UNCHANGED <<meta, object>>, NoneCompleted, NoneNew
  PROVE  FileInv'
<1> USE DEF FileInv, NoneNew, NoneCompleted
<1>1. UploadInv'
  BY DEF UploadInv
<1>2. RowInv'
  BY DEF RowInv
<1>3. DeletingInv'
  BY DEF DeletingInv
<1>4. CommittingInv'
  BY DEF CommittingInv
<1>5. QED BY <1>1, <1>2, <1>3, <1>4

\* The handler r moves to a point that is neither a commit nor a deletion, or
\* goes from one step of its deletion to the next.
LEMMA MovedElsewhere ==
  ASSUME TypeOK, NEW r \in Requests, NEW x, Goto(r, x),
         x.pc # "complete_commit",
         x.pc \in {"delete_remove", "delete_commit"} => Deleting(r, x.file)
  PROVE  NoneNew
  BY DEF NoneNew, Goto, Committing, Deleting, TypeOK

LEMMA Finished ==
  ASSUME TypeOK, NEW r \in Requests, Finish(r)
  PROVE  /\ \A f \in Files, q \in Requests :
             /\ Committing(q, f)' => Committing(q, f) /\ q # r
             /\ Deleting(q, f)' => Deleting(q, f)
  BY DEF Finish, Goto, Idle, Committing, Deleting, TypeOK

LEMMA ArriveKeepsFileInv ==
  ASSUME TypeOK, FileInv, NEW r \in Requests, Arrive(r)
  PROVE  FileInv'
<1> USE DEF sessionVars, storageVars
<1> PICK f \in Files :
      \/ \E u \in Users, n \in Sizes : CreateCheck(r, u, f, n)
      \/ \E c \in Chunks : ChunkRead(r, f, c)
      \/ CompleteRead(r, f)
      \/ CancelRead(r, f)
      \/ DeleteRead(r, f)
  BY DEF Arrive
<1>1. CASE ~DeleteRead(r, f)
  <2>1. NoneNew
    <3>1. ASSUME NEW u \in Users, NEW n \in Sizes, CreateCheck(r, u, f, n)
          PROVE  NoneNew
      BY <3>1, MovedElsewhere DEF CreateCheck
    <3>2. ASSUME NEW c \in Chunks, ChunkRead(r, f, c)
          PROVE  NoneNew
      BY <3>2, MovedElsewhere DEF ChunkRead
    <3>3. CASE CompleteRead(r, f)
      BY <3>3, MovedElsewhere DEF CompleteRead
    <3>4. CASE CancelRead(r, f)
      BY <3>4, MovedElsewhere DEF CancelRead
    <3>5. QED BY <1>1, <3>1, <3>2, <3>3, <3>4
  <2>2. status' = status /\ mpu' = mpu /\ meta' = meta /\ object' = object
    BY <1>1 DEF CreateCheck, ChunkRead, CompleteRead, CancelRead
  <2>3. NoneCompleted
    BY <2>2 DEF NoneCompleted
  <2>4. QED BY <2>1, <2>2, <2>3, FileInvKept
<1>2. CASE DeleteRead(r, f)
  <2>1. mpu[f] = "done" /\ meta[f] # NoFile
    BY <1>2 DEF DeleteRead, FileInv, RowInv
  <2>2. \A q \in Requests, g \in Files :
          /\ Committing(q, g)' => Committing(q, g)
          /\ Deleting(q, g)' => Deleting(q, g) \/ g = f
    BY <1>2 DEF DeleteRead, Goto, Committing, Deleting, TypeOK
  <2>3. UNCHANGED <<status, mpu, meta, object>>
    BY <1>2 DEF DeleteRead
  <2>4. UploadInv' /\ RowInv'
    BY <2>3 DEF FileInv, UploadInv, RowInv
  <2>5. DeletingInv'
    BY <2>1, <2>2, <2>3 DEF FileInv, DeletingInv
  <2>6. CommittingInv'
    BY <2>1, <2>2, <2>3 DEF FileInv, CommittingInv
  <2>7. QED BY <2>4, <2>5, <2>6 DEF FileInv
<1>3. QED BY <1>1, <1>2

\* CompleteMultipartUpload succeeds for an open upload only, so the handler
\* that gets past it is the first, and no row and no deletion exist yet.
LEMMA CompletePutKeepsFileInv ==
  ASSUME TypeOK, FileInv, NEW r \in Requests, CompletePut(r)
  PROVE  FileInv'
<1> USE DEF sessionVars, storageVars
<1>1. req[r].file \in Files
  BY RequestShape DEF CompletePut, TypeOK
<1> SUFFICES ASSUME NEW f \in Files, f = req[r].file
             PROVE  FileInv'
  BY <1>1
<1>2. mpu[f] = "open"
  BY DEF CompletePut, Completable
<1>3. /\ status[f] \notin {"none", "completed"} /\ meta[f] = NoFile
      /\ \A q \in Requests : ~Deleting(q, f) /\ ~Committing(q, f)
  BY <1>2 DEF FileInv, UploadInv, RowInv, DeletingInv, CommittingInv
<1>4. /\ UNCHANGED <<status, meta>>
      /\ mpu' = [mpu EXCEPT ![f] = "done"]
      /\ object' = [object EXCEPT ![f] = "present"]
  BY DEF CompletePut
<1>5. \A q \in Requests, g \in Files :
        /\ Committing(q, g)' => Committing(q, g) \/ (q = r /\ g = f)
        /\ Deleting(q, g)' => Deleting(q, g)
  <2>1. req' = [req EXCEPT ![r] = [req[r] EXCEPT !.pc = "complete_commit"]]
    BY DEF CompletePut, Goto
  <2>2. [req[r] EXCEPT !.pc = "complete_commit"].file = f
    BY RequestShape DEF CompletePut, TypeOK
  <2>3. [req[r] EXCEPT !.pc = "complete_commit"].pc = "complete_commit"
    BY RequestShape DEF CompletePut, TypeOK
  <2>4. QED BY <2>1, <2>2, <2>3 DEF Committing, Deleting, TypeOK
<1>6. UploadInv' /\ RowInv'
  BY <1>3, <1>4 DEF FileInv, UploadInv, RowInv, TypeOK
<1>7. DeletingInv'
  BY <1>4, <1>5 DEF FileInv, DeletingInv, TypeOK
<1>8. CommittingInv'
  BY <1>3, <1>4, <1>5 DEF FileInv, CommittingInv, TypeOK
<1>9. QED BY <1>6, <1>7, <1>8 DEF FileInv

LEMMA CompleteCommitKeepsFileInv ==
  ASSUME TypeOK, FileInv, NEW r \in Requests, CompleteCommit(r)
  PROVE  FileInv'
<1>1. req[r].file \in Files
  BY RequestShape DEF CompleteCommit, TypeOK
<1> SUFFICES ASSUME NEW f \in Files, f = req[r].file
             PROVE  FileInv'
  BY <1>1
<1>2. /\ mpu[f] = "done" /\ object[f] = "present"
      /\ \A q \in Requests : ~Deleting(q, f) /\ (Committing(q, f) => q = r)
  BY DEF FileInv, CommittingInv, Committing, CompleteCommit
<1>3. /\ UNCHANGED <<mpu, object>>
      /\ status' = [status EXCEPT ![f] = "completed"]
      /\ \A g \in Files : g # f => meta'[g] = meta[g]
  BY DEF CompleteCommit, storageVars, TypeOK
<1>4. \A g \in Files, q \in Requests :
        /\ Committing(q, g)' => Committing(q, g) /\ q # r
        /\ Deleting(q, g)' => Deleting(q, g)
  BY Finished DEF CompleteCommit
<1>5. UploadInv' /\ RowInv'
  BY <1>2, <1>3 DEF FileInv, UploadInv, RowInv, TypeOK
<1>6. DeletingInv'
  BY <1>3, <1>4 DEF FileInv, DeletingInv
<1>7. CommittingInv'
  BY <1>2, <1>3, <1>4 DEF FileInv, CommittingInv, TypeOK
<1>8. QED BY <1>5, <1>6, <1>7 DEF FileInv

\* The size mismatch removes the object of an upload that will never get a row.
LEMMA CompleteMismatchKeepsFileInv ==
  ASSUME TypeOK, FileInv, NEW r \in Requests, CompleteMismatch(r)
  PROVE  FileInv'
<1>1. req[r].file \in Files
  BY RequestShape DEF CompleteMismatch, TypeOK
<1> SUFFICES ASSUME NEW f \in Files, f = req[r].file
             PROVE  FileInv'
  BY <1>1
<1>2. /\ meta[f] = NoFile
      /\ \A q \in Requests : Committing(q, f) => q = r
  BY DEF FileInv, CommittingInv, Committing, CompleteMismatch
<1>3. /\ UNCHANGED <<status, meta, mpu>>
      /\ \A g \in Files : g # f => object'[g] = object[g]
  BY DEF CompleteMismatch, sessionVars, TypeOK
<1>4. \A g \in Files, q \in Requests :
        /\ Committing(q, g)' => Committing(q, g) /\ q # r
        /\ Deleting(q, g)' => Deleting(q, g)
  BY Finished DEF CompleteMismatch
<1>5. UploadInv' /\ RowInv' /\ DeletingInv'
  BY <1>2, <1>3, <1>4 DEF FileInv, UploadInv, RowInv, DeletingInv
<1>6. CommittingInv'
  BY <1>2, <1>3, <1>4 DEF FileInv, CommittingInv
<1>7. QED BY <1>5, <1>6 DEF FileInv

\* The object a deletion takes away is never one a completion is about to list.
LEMMA DeleteRemoveKeepsFileInv ==
  ASSUME TypeOK, FileInv, NEW r \in Requests, DeleteRemove(r)
  PROVE  FileInv'
<1>1. req[r].file \in Files
  BY RequestShape DEF DeleteRemove, TypeOK
<1> SUFFICES ASSUME NEW f \in Files, f = req[r].file
             PROVE  FileInv'
  BY <1>1
<1>2. Deleting(r, f) /\ \A q \in Requests : ~Committing(q, f)
  BY DEF FileInv, CommittingInv, Deleting, DeleteRemove
<1>3. /\ UNCHANGED <<status, meta, mpu>>
      /\ object'[f] = "deleted" \/ object'[f] = object[f]
      /\ \A g \in Files : g # f => object'[g] = object[g]
  BY DEF DeleteRemove, sessionVars, TypeOK
<1>4. NoneNew
  <2>1. /\ req[r] \in [pc: {"delete_remove", "delete_commit"}, file: Files]
        /\ Goto(r, [req[r] EXCEPT !.pc = "delete_commit"])
    BY RequestShape DEF DeleteRemove, TypeOK
  <2>2. /\ [req[r] EXCEPT !.pc = "delete_commit"].pc = "delete_commit"
        /\ [req[r] EXCEPT !.pc = "delete_commit"].file = f
    BY <2>1
  <2>3. QED BY <1>2, <2>1, <2>2, MovedElsewhere
<1>5. UploadInv' /\ RowInv' /\ DeletingInv'
  BY <1>3, <1>4 DEF FileInv, UploadInv, RowInv, DeletingInv, NoneNew
<1>6. CommittingInv'
  BY <1>2, <1>3, <1>4 DEF FileInv, CommittingInv, NoneNew
<1>7. QED BY <1>5, <1>6 DEF FileInv

\* The steps of running handlers that touch neither rows nor objects.
LEMMA QuietKeepsFileInv ==
  ASSUME TypeOK, FileInv, NEW r \in Requests,
         \/ CreateFail(r) \/ ChunkHash(r) \/ ChunkPut(r) \/ ChunkPutFail(r)
         \/ ChunkRow(r) \/ CompleteHash(r) \/ CompleteForget(r)
         \/ CompletePutFail(r) \/ CompleteCommitFail(r) \/ CancelAbort(r)
         \/ CancelCommit(r) \/ CancelForget(r) \/ DeleteFail(r)
  PROVE  FileInv'
<1> USE DEF sessionVars, storageVars
<1>1. NoneNew
  <2>1. CASE Finish(r)
    BY <2>1, Finished DEF NoneNew
  <2>2. CASE ChunkHash(r)
    <3>1. [req[r] EXCEPT !.pc = "chunk_put"].pc = "chunk_put"
      BY <2>2, RequestShape DEF ChunkHash, TypeOK
    <3>2. QED BY <2>2, <3>1, MovedElsewhere DEF ChunkHash
  <2>3. CASE ChunkPut(r)
    <3>1. [req[r] EXCEPT !.pc = "chunk_row"].pc = "chunk_row"
      BY <2>3, RequestShape DEF ChunkPut, TypeOK
    <3>2. QED BY <2>3, <3>1, MovedElsewhere DEF ChunkPut
  <2>4. CASE CompleteHash(r) /\ ~Finish(r)
    BY <2>4, MovedElsewhere DEF CompleteHash
  <2>5. CASE CompleteForget(r)
    <3>1. [req[r] EXCEPT !.pc = "complete_put"].pc = "complete_put"
      BY <2>5, RequestShape DEF CompleteForget, TypeOK
    <3>2. QED BY <2>5, <3>1, MovedElsewhere DEF CompleteForget
  <2>6. CASE CancelAbort(r)
    <3>1. [req[r] EXCEPT !.pc = "cancel_commit"].pc = "cancel_commit"
      BY <2>6, RequestShape DEF CancelAbort, TypeOK
    <3>2. QED BY <2>6, <3>1, MovedElsewhere DEF CancelAbort
  <2>7. CASE CancelCommit(r) /\ ~Finish(r)
    <3>1. [req[r] EXCEPT !.pc = "cancel_forget"].pc = "cancel_forget"
      BY <2>7, RequestShape DEF CancelCommit, TypeOK
    <3>2. QED BY <2>7, <3>1, MovedElsewhere DEF CancelCommit
  <2>8. QED
    BY <2>1, <2>2, <2>3, <2>4, <2>5, <2>6, <2>7
    DEF CreateFail, ChunkPutFail, ChunkRow, CompletePutFail,
        CompleteCommitFail, CancelForget, DeleteFail
<1>2. UNCHANGED <<meta, object>>
  BY DEF CreateFail, ChunkHash, ChunkPut, ChunkPutFail, ChunkRow,
         CompleteHash, CompleteForget, CompletePutFail, CompleteCommitFail,
         CancelAbort, CancelCommit, CancelForget, DeleteFail
<1>3. NoneCompleted
  <2>1. CASE CancelAbort(r)
    BY <2>1 DEF CancelAbort, Abort, NoneCompleted, TypeOK
  <2>2. CASE CancelCommit(r)
    BY <2>2 DEF CancelCommit, NoneCompleted, TypeOK
  <2>3. CASE ~CancelAbort(r) /\ ~CancelCommit(r)
    <3>1. status' = status /\ mpu' = mpu
      BY <2>3 DEF CreateFail, ChunkHash, ChunkPut, ChunkPutFail, ChunkRow,
         CompleteHash, CompleteForget, CompletePutFail, CompleteCommitFail,
         CancelForget, DeleteFail
    <3>2. QED BY <3>1 DEF NoneCompleted
  <2>4. QED BY <2>1, <2>2, <2>3
<1>4. QED BY <1>1, <1>2, <1>3, FileInvKept

LEMMA CreateCommitKeepsFileInv ==
  ASSUME TypeOK, FileInv, NEW r \in Requests, CreateCommit(r)
  PROVE  FileInv'
<1>1. req[r].file \in Files
  BY RequestShape DEF CreateCommit, TypeOK
<1> SUFFICES ASSUME NEW f \in Files, f = req[r].file
             PROVE  FileInv'
  BY <1>1
<1>2. /\ mpu[f] = "none" /\ meta[f] = NoFile
      /\ \A q \in Requests : ~Deleting(q, f) /\ ~Committing(q, f)
  BY DEF CreateCommit, MayCreate, FileInv, UploadInv, DeletingInv,
         CommittingInv
<1>3. /\ status'[f] # "none" /\ status'[f] # "completed"
      /\ \A g \in Files : g # f =>
           status'[g] \in {status[g], "abandoned"} /\ mpu'[g] = mpu[g]
      /\ UNCHANGED <<meta, object>>
  BY DEF CreateCommit, MayCreate, Expired, InProgress, TypeOK
<1>4. NoneNew
  BY Finished DEF CreateCommit, NoneNew
<1>5. UploadInv' /\ RowInv' /\ DeletingInv'
  BY <1>2, <1>3, <1>4 DEF FileInv, UploadInv, RowInv, DeletingInv, NoneNew
<1>6. CommittingInv'
  BY <1>2, <1>3, <1>4 DEF FileInv, CommittingInv, NoneNew
<1>7. QED BY <1>5, <1>6 DEF FileInv

LEMMA DeleteCommitKeepsFileInv ==
  ASSUME TypeOK, FileInv, NEW r \in Requests, DeleteCommit(r)
  PROVE  FileInv'
<1>1. /\ UNCHANGED <<status, mpu, object>>
      /\ \A f \in Files : meta'[f] \in {meta[f], NoFile}
  BY DEF DeleteCommit, sessionVars, storageVars, TypeOK
<1>2. NoneNew
  BY Finished DEF DeleteCommit, NoneNew
<1>3. UploadInv' /\ RowInv' /\ DeletingInv'
  BY <1>1, <1>2 DEF FileInv, UploadInv, RowInv, DeletingInv, NoneNew
<1>4. CommittingInv'
  BY <1>1, <1>2 DEF FileInv, CommittingInv, NoneNew
<1>5. QED BY <1>3, <1>4 DEF FileInv

LEMMA NextKeepsFileInv ==
  ASSUME TypeOK, FileInv, [Next]_vars
  PROVE  FileInv'
<1>1. ASSUME NEW r \in Requests, Arrive(r)
      PROVE  FileInv'
  BY <1>1, ArriveKeepsFileInv
<1>2. ASSUME NEW r \in Requests, Proceed(r)
      PROVE  FileInv'
  BY <1>2, QuietKeepsFileInv, CreateCommitKeepsFileInv,
     CompletePutKeepsFileInv, CompleteCommitKeepsFileInv,
     CompleteMismatchKeepsFileInv, DeleteRemoveKeepsFileInv,
     DeleteCommitKeepsFileInv DEF Proceed
<1>3. CASE StaleJob \/ (\E f \in Files : Expire(f)) \/ UNCHANGED vars
  <2>1. UNCHANGED <<meta, object>> /\ req' = req /\ status' = status
    BY <1>3 DEF StaleJob, StaleScan, StaleAbort, StaleClear, Expire, vars,
                sessionVars, storageVars
  <2>2. NoneNew
    BY <2>1 DEF NoneNew, Committing, Deleting
  <2>3. NoneCompleted
    <3>1. ASSUME NEW g \in Files, Abort(g)
          PROVE  NoneCompleted
      BY <2>1, <3>1 DEF Abort, NoneCompleted, TypeOK
    <3>2. CASE mpu' = mpu
      BY <2>1, <3>2 DEF NoneCompleted
    <3>3. QED
      BY <1>3, <3>1, <3>2 DEF StaleJob, StaleScan, StaleAbort, StaleClear,
                              Expire, vars, storageVars
  <2>4. QED BY <2>1, <2>2, <2>3, FileInvKept
<1>4. CASE Crash
  <2>1. UNCHANGED <<meta, object>> /\ status' = status /\ mpu' = mpu
    BY <1>4 DEF Crash, sessionVars, storageVars
  <2>2. NoneNew
    BY <1>4 DEF Crash, NoneNew, Committing, Deleting, Idle
  <2>3. NoneCompleted
    BY <2>1 DEF NoneCompleted
  <2>4. QED BY <2>1, <2>2, <2>3, FileInvKept
<1>5. QED BY <1>1, <1>2, <1>3, <1>4 DEF Next

LEMMA FileInvHolds == Spec => []FileInv
<1>1. Init => FileInv
  BY DEF Init, FileInv, UploadInv, RowInv, DeletingInv, CommittingInv,
         Deleting, Committing, Idle
<1>2. TypeOK /\ FileInv /\ [Next]_vars => FileInv'
  BY NextKeepsFileInv
<1>3. QED BY <1>1, <1>2, TypeCorrect, PTL DEF Spec

\* A listed file has its object under it unless a DeleteFile has taken the
\* object away: no failure, crash or race of the other handlers leaves a
\* file_metadata row without bytes (uploads.go, the order of the S3 calls and
\* the transactions in CompleteUpload and DeleteFile).
THEOREM DanglingOnlyByDeleteHolds == Spec => []DanglingOnlyByDelete
<1>1. FileInv => DanglingOnlyByDelete
  BY DEF FileInv, RowInv, DanglingOnlyByDelete
<1>2. QED BY <1>1, FileInvHolds, PTL

\* A file row appears only over an object that is there, and never for a
\* session that was completed before (CompleteUpload, two overlapping calls or
\* one that overlaps DeleteFile).
THEOREM NoResurrectionHolds == Spec => NoResurrection
<1>1. TypeOK /\ FileInv /\ [Next]_vars =>
        [\A f \in Files : meta[f] = NoFile /\ meta'[f] # NoFile =>
             object[f] = "present" /\ status[f] # "completed"]_vars
  <2> SUFFICES ASSUME TypeOK, FileInv, Next, NEW f \in Files,
                      meta[f] = NoFile, meta'[f] # NoFile
               PROVE  object[f] = "present" /\ status[f] # "completed"
    OBVIOUS
  <2>1. ASSUME NEW r \in Requests, Proceed(r)
        PROVE  CompleteCommit(r)
    BY <2>1 DEF Proceed, CreateCommit, CreateFail, ChunkHash, ChunkPut,
       ChunkPutFail, ChunkRow, CompleteHash, CompleteForget, CompletePut,
       CompletePutFail, CompleteMismatch, CompleteCommitFail, CancelAbort,
       CancelCommit, CancelForget, DeleteRemove, DeleteCommit, DeleteFail,
       TypeOK
  <2>2. \E r \in Requests : CompleteCommit(r)
    BY <2>1 DEF Next, Arrive, CreateCheck, ChunkRead, CompleteRead,
       CancelRead, DeleteRead, StaleJob, StaleScan, StaleAbort, StaleClear,
       Expire, Crash
  <2>3. PICK r \in Requests : CompleteCommit(r)
    BY <2>2
  <2>4. Committing(r, f)
    BY <2>3 DEF CompleteCommit, Committing, TypeOK
  <2>5. QED BY <2>4 DEF FileInv, CommittingInv
<1>2. QED BY <1>1, TypeCorrect, FileInvHolds, PTL DEF Spec, NoResurrection

\* Once a file row exists its session takes no more chunks and cannot be
\* abandoned: it is completed, or was canceled by a request that lost the race
\* (CompleteUpload, the UPDATE inside the final transaction).
THEOREM FileClosesSessionHolds == Spec => []FileClosesSession
<1>1. Init => FileClosesSession
  BY DEF Init, FileClosesSession
<1>2. TypeOK /\ FileClosesSession /\ [Next]_vars => FileClosesSession'
  <2> SUFFICES ASSUME TypeOK, FileClosesSession, [Next]_vars
               PROVE  FileClosesSession'
    OBVIOUS
  <2> USE DEF FileClosesSession, sessionVars
  <2>1. ASSUME NEW r \in Requests, Arrive(r)
        PROVE  FileClosesSession'
    BY <2>1 DEF Arrive, CreateCheck, ChunkRead, CompleteRead, CancelRead,
                DeleteRead
  <2>2. ASSUME NEW r \in Requests, Proceed(r)
        PROVE  FileClosesSession'
    <3>1. CASE CreateCommit(r)
      BY <3>1 DEF CreateCommit, MayCreate, Expired, InProgress, TypeOK
    <3>2. CASE CompleteCommit(r)
      BY <3>2 DEF CompleteCommit, TypeOK
    <3>3. CASE CancelCommit(r)
      BY <3>3 DEF CancelCommit, TypeOK
    <3>4. CASE DeleteCommit(r)
      BY <3>4 DEF DeleteCommit, TypeOK
    <3>5. CASE UNCHANGED <<status, meta>>
      BY <3>5
    <3>6. QED
      BY <2>2, <3>1, <3>2, <3>3, <3>4, <3>5
      DEF Proceed, CreateFail, ChunkHash, ChunkPut, ChunkPutFail, ChunkRow,
          CompleteHash, CompleteForget, CompletePut, CompletePutFail,
          CompleteMismatch, CompleteCommitFail, CancelAbort, CancelForget,
          DeleteRemove, DeleteFail
  <2>3. CASE StaleJob \/ (\E f \in Files : Expire(f)) \/ Crash \/ UNCHANGED vars
    <3>1. UNCHANGED <<status, meta>>
      BY <2>3 DEF StaleJob, StaleScan, StaleAbort, StaleClear, Expire, Crash,
                  vars
    <3>2. QED BY <3>1
  <2>4. QED BY <2>1, <2>2, <2>3 DEF Next
<1>3. QED BY <1>1, <1>2, TypeCorrect, PTL DEF Spec

-----------------------------------------------------------------------------
(***************************************************************************)
(* ObjectIsRecorded.  Whoever completes an upload holds the rows of        *)
(* upload_chunks, all of them present by then, and a row is written once;  *)
(* S3 compares them with the parts, and takes no part after that.          *)
(***************************************************************************)
Completing(r) == req[r].pc \in {"complete_hash", "complete_forget", "complete_put"}

Filled(f) == \A c \in Chunks : row[f][c] # 0

RowsRead ==
  \A r \in Requests :
    Completing(r) => /\ req[r].file \in Files
                     /\ req[r].rows = row[req[r].file] /\ Filled(req[r].file)

PartsDone ==
  \A f \in Files : mpu[f] = "done" => part[f] = row[f] /\ Filled(f)

RecordInv == RowsRead /\ PartsDone

\* A request that completes an upload has just read the rows, or goes on with
\* those it read.
NewReads ==
  \A r \in Requests : Completing(r)' =>
    \/ /\ Completing(r)
       /\ req'[r].file = req[r].file /\ req'[r].rows = req[r].rows
    \/ /\ req'[r].file \in Files
       /\ req'[r].rows = row[req'[r].file] /\ Filled(req'[r].file)

\* Rows that are there stay; a part is replaced while its upload is open.
Written ==
  /\ \A f \in Files : Filled(f) => row'[f] = row[f]
  /\ \A f \in Files : mpu[f] = "done" => part'[f] = part[f]

\* An upload is done only when a request completes it.
NewDone ==
  \A f \in Files : mpu'[f] = "done" =>
    \/ mpu[f] = "done"
    \/ part[f] = row[f] /\ Filled(f) /\ UNCHANGED <<row, part>>

LEMMA RecordKept ==
  ASSUME RecordInv, NewReads, Written, NewDone
  PROVE  RecordInv'
<1>1. \A f \in Files : Filled(f) => Filled(f)' /\ row'[f] = row[f]
  BY DEF Written, Filled
<1>2. RowsRead'
  BY <1>1 DEF RecordInv, RowsRead, NewReads
<1>3. PartsDone'
  BY <1>1 DEF RecordInv, PartsDone, Written, NewDone, Filled
<1>4. QED BY <1>2, <1>3 DEF RecordInv

\* A request moves to a point at which it completes nothing.
LEMMA ReadsElsewhere ==
  ASSUME TypeOK, NEW r \in Requests, NEW x, Goto(r, x),
         x.pc \notin {"complete_hash", "complete_forget", "complete_put"}
  PROVE  NewReads
  BY DEF NewReads, Completing, Goto, TypeOK

LEMMA ReadsFinish ==
  ASSUME TypeOK, NEW r \in Requests, Finish(r)
  PROVE  NewReads
  BY DEF NewReads, Completing, Finish, Goto, Idle, TypeOK

\* A request goes on completing the upload.
LEMMA ReadsOn ==
  ASSUME TypeOK, NEW r \in Requests, NEW x, Goto(r, x), Completing(r),
         x.file = req[r].file, x.rows = req[r].rows
  PROVE  NewReads
  BY DEF NewReads, Completing, Goto, TypeOK

LEMMA ArriveReads ==
  ASSUME TypeOK, NEW r \in Requests, Arrive(r)
  PROVE  NewReads /\ UNCHANGED <<row, part, mpu>>
<1> PICK f \in Files :
      \/ \E u \in Users, n \in Sizes : CreateCheck(r, u, f, n)
      \/ \E c \in Chunks : ChunkRead(r, f, c)
      \/ CompleteRead(r, f)
      \/ CancelRead(r, f)
      \/ DeleteRead(r, f)
  BY DEF Arrive
<1>1. ASSUME NEW u \in Users, NEW n \in Sizes, CreateCheck(r, u, f, n)
      PROVE  NewReads
  BY <1>1, ReadsElsewhere DEF CreateCheck
<1>2. ASSUME NEW c \in Chunks, ChunkRead(r, f, c)
      PROVE  NewReads
  BY <1>2, ReadsElsewhere DEF ChunkRead
<1>3. ASSUME CompleteRead(r, f)
      PROVE  NewReads
  <2>1. /\ Goto(r, [pc |-> "complete_hash", file |-> f, rows |-> row[f]])
        /\ Filled(f)
    BY <1>3 DEF CompleteRead, Filled
  <2>2. QED BY <2>1 DEF NewReads, Completing, Goto, TypeOK
<1>4. ASSUME CancelRead(r, f)
      PROVE  NewReads
  BY <1>4, ReadsElsewhere DEF CancelRead
<1>5. ASSUME DeleteRead(r, f)
      PROVE  NewReads
  BY <1>5, ReadsElsewhere DEF DeleteRead
<1>6. UNCHANGED <<row, part, mpu>>
  BY DEF CreateCheck, ChunkRead, CompleteRead, CancelRead, DeleteRead, storageVars
<1>7. QED BY <1>1, <1>2, <1>3, <1>4, <1>5, <1>6

LEMMA ProceedReads ==
  ASSUME TypeOK, NEW r \in Requests, Proceed(r)
  PROVE  NewReads
<1>0. req[r] \in RequestState
  BY DEF TypeOK
<1>1. CASE Finish(r)
  BY <1>1, ReadsFinish
<1>2. CASE ChunkHash(r)
  <2>1. [req[r] EXCEPT !.pc = "chunk_put"].pc = "chunk_put"
    BY <1>0, <1>2, RequestShape DEF ChunkHash
  <2>2. QED BY <1>2, <2>1, ReadsElsewhere DEF ChunkHash
<1>3. CASE ChunkPut(r)
  <2>1. [req[r] EXCEPT !.pc = "chunk_row"].pc = "chunk_row"
    BY <1>0, <1>3, RequestShape DEF ChunkPut
  <2>2. QED BY <1>3, <2>1, ReadsElsewhere DEF ChunkPut
<1>4. CASE CompleteHash(r) /\ ~Finish(r)
  <2>1. Completing(r)
    BY <1>4 DEF CompleteHash, Completing
  <2>2. QED BY <1>4, <2>1, ReadsOn DEF CompleteHash
<1>5. CASE CompleteForget(r)
  <2>1. Completing(r) /\ req[r] \in [pc: {"complete_forget", "complete_put",
                             "complete_commit"}, file: Files,
                        rows: [Chunks -> Versions], hash: Seq(HashItem)]
    BY <1>0, <1>5, RequestShape DEF CompleteForget, Completing
  <2>2. /\ [req[r] EXCEPT !.pc = "complete_put"].file = req[r].file
        /\ [req[r] EXCEPT !.pc = "complete_put"].rows = req[r].rows
    BY <2>1
  <2>3. QED BY <1>5, <2>1, <2>2, ReadsOn DEF CompleteForget
<1>6. CASE CompletePut(r)
  <2>1. [req[r] EXCEPT !.pc = "complete_commit"].pc = "complete_commit"
    BY <1>0, <1>6, RequestShape DEF CompletePut
  <2>2. QED BY <1>6, <2>1, ReadsElsewhere DEF CompletePut
<1>7. CASE CancelAbort(r)
  <2>1. [req[r] EXCEPT !.pc = "cancel_commit"].pc = "cancel_commit"
    BY <1>0, <1>7, RequestShape DEF CancelAbort
  <2>2. QED BY <1>7, <2>1, ReadsElsewhere DEF CancelAbort
<1>8. CASE CancelCommit(r) /\ ~Finish(r)
  <2>1. [req[r] EXCEPT !.pc = "cancel_forget"].pc = "cancel_forget"
    BY <1>0, <1>8, RequestShape DEF CancelCommit
  <2>2. QED BY <1>8, <2>1, ReadsElsewhere DEF CancelCommit
<1>9. CASE DeleteRemove(r)
  <2>1. [req[r] EXCEPT !.pc = "delete_commit"].pc = "delete_commit"
    BY <1>0, <1>9, RequestShape DEF DeleteRemove
  <2>2. QED BY <1>9, <2>1, ReadsElsewhere DEF DeleteRemove
<1>10. QED
  BY <1>1, <1>2, <1>3, <1>4, <1>5, <1>6, <1>7, <1>8, <1>9
  DEF Proceed, CreateCommit, CreateFail, ChunkPutFail, ChunkRow,
      CompletePutFail, CompleteCommit, CompleteMismatch, CompleteCommitFail,
      CancelForget, DeleteCommit, DeleteFail

\* One step per action that writes a row, a part or an upload.
LEMMA ProceedWrites ==
  ASSUME TypeOK, RecordInv, NEW r \in Requests, Proceed(r)
  PROVE  Written /\ NewDone
<1> USE DEF storageVars
<1>1. CASE UNCHANGED <<row, part>> /\ \A f \in Files : mpu'[f] = "done" => mpu[f] = "done"
  BY <1>1 DEF Written, NewDone
<1>2. CASE CreateCommit(r)
  <2>1. req[r].file \in Files
    BY <1>2, RequestShape DEF CreateCommit, TypeOK
  <2>2. UNCHANGED <<row, part>> /\ mpu' = [mpu EXCEPT ![req[r].file] = "open"]
    BY <1>2 DEF CreateCommit
  <2>3. \A f \in Files : mpu'[f] = "done" => mpu[f] = "done"
    BY <2>1, <2>2 DEF TypeOK
  <2>4. QED BY <1>1, <2>2, <2>3
<1>3. CASE ChunkPut(r)
  <2>1. req[r].file \in Files /\ mpu[req[r].file] = "open"
    BY <1>3, RequestShape DEF ChunkPut, TypeOK
  <2>2. /\ UNCHANGED <<row, mpu>>
        /\ \A f \in Files : f # req[r].file => part'[f] = part[f]
    BY <1>3, <2>1 DEF ChunkPut, TypeOK
  <2>3. QED BY <2>1, <2>2 DEF Written, NewDone
<1>4. CASE ChunkRow(r)
  <2>1. req[r].file \in Files /\ req[r].chunk \in Chunks
    BY <1>4, RequestShape DEF ChunkRow, TypeOK
  <2>2. UNCHANGED <<part, mpu>>
    BY <1>4 DEF ChunkRow
  <2>3. \A f \in Files : Filled(f) => row'[f] = row[f]
    BY <1>4, <2>1 DEF ChunkRow, Filled, TypeOK
  <2>4. QED BY <2>2, <2>3 DEF Written, NewDone
<1>5. CASE CompletePut(r)
  <2> DEFINE f == req[r].file
  <2>1. Completing(r)
    BY <1>5 DEF CompletePut, Completing
  <2>2. f \in Files /\ part[f] = req[r].rows /\ req[r].rows = row[f] /\ Filled(f)
    BY <1>5, <2>1 DEF CompletePut, Completable, RecordInv, RowsRead
  <2>3. UNCHANGED <<row, part>> /\ mpu' = [mpu EXCEPT ![f] = "done"]
    BY <1>5 DEF CompletePut
  <2> HIDE DEF f
  <2>4. QED BY <2>2, <2>3 DEF Written, NewDone, TypeOK
<1>6. CASE CancelAbort(r)
  <2>1. UNCHANGED <<row, part>> /\ Abort(req[r].file)
    BY <1>6 DEF CancelAbort
  <2>2. \A f \in Files : mpu'[f] = "done" => mpu[f] = "done"
    BY <2>1 DEF Abort, TypeOK
  <2>3. QED BY <1>1, <2>1, <2>2
<1>7. CASE UNCHANGED <<row, part, mpu>>
  BY <1>1, <1>7
<1>8. QED
  BY <1>2, <1>3, <1>4, <1>5, <1>6, <1>7
  DEF Proceed, CreateFail, ChunkHash, ChunkPutFail, CompleteHash, CompleteForget,
      CompletePutFail, CompleteCommit, CompleteMismatch, CompleteCommitFail,
      CancelCommit, CancelForget, DeleteRemove, DeleteCommit, DeleteFail

LEMMA NextKeepsRecords ==
  ASSUME TypeOK, RecordInv, [Next]_vars
  PROVE  RecordInv'
<1> USE DEF storageVars
<1>1. ASSUME UNCHANGED <<row, part>>, NewReads,
             \A f \in Files : mpu'[f] = "done" => mpu[f] = "done"
      PROVE  RecordInv'
  BY <1>1, RecordKept DEF Written, NewDone
<1>2. ASSUME UNCHANGED req
      PROVE  NewReads
  BY <1>2 DEF NewReads, Completing
<1>3. ASSUME NEW r \in Requests, Arrive(r)
      PROVE  RecordInv'
  BY <1>1, <1>3, ArriveReads
<1>4. ASSUME NEW r \in Requests, Proceed(r)
      PROVE  RecordInv'
  BY <1>4, ProceedReads, ProceedWrites, RecordKept
<1>5. CASE StaleJob
  <2>1. UNCHANGED <<row, part, req>>
    BY <1>5 DEF StaleJob, StaleScan, StaleAbort, StaleClear
  <2>2. \A f \in Files : mpu'[f] = "done" => mpu[f] = "done"
    BY <1>5 DEF StaleJob, StaleScan, StaleAbort, StaleClear, Abort, TypeOK
  <2>3. QED BY <1>1, <1>2, <2>1, <2>2
<1>6. CASE \E f \in Files : Expire(f)
  BY <1>1, <1>2, <1>6 DEF Expire
<1>7. CASE Crash
  <2>1. NewReads
    BY <1>7 DEF Crash, NewReads, Completing, Idle
  <2>2. QED BY <1>1, <1>7, <2>1 DEF Crash
<1>8. CASE UNCHANGED vars
  BY <1>1, <1>2, <1>8 DEF vars
<1>9. QED BY <1>3, <1>4, <1>5, <1>6, <1>7, <1>8 DEF Next

(* The object of a listed file consists of the parts whose etags are in    *)
(* upload_chunks, for any number of files, chunks, requests and resends    *)
(* (handlers/uploads.go:896, :1063).                                       *)
THEOREM ObjectIsRecordedHolds == Spec => []ObjectIsRecorded
<1>1. Init => RecordInv
  BY DEF Init, RecordInv, RowsRead, PartsDone, Completing, Idle
<1>2. RecordInv /\ FileInv => ObjectIsRecorded
  BY DEF RecordInv, PartsDone, FileInv, RowInv, ObjectIsRecorded
<1>3. QED BY <1>1, <1>2, NextKeepsRecords, TypeCorrect, FileInvHolds, PTL DEF Spec

-----------------------------------------------------------------------------
(***************************************************************************)
(* The usage of a user.  It is the sum of the sizes of the user's files,   *)
(* and the rows that come and go are added and subtracted one at a time:   *)
(* what a deletion subtracts is part of the sum (so UpdateStorageUsage has *)
(* nothing to cut off at 0), what a completion adds was not (so the hash   *)
(* it brings must be one, and no session changes its size or owner once    *)
(* its file is there).                                                     *)
(***************************************************************************)

HashKnown ==
  \A r \in Requests :
    req[r].pc \in {"complete_forget", "complete_put", "complete_commit"} =>
      req[r].hash # NoHash

UsageInv == HashKnown /\ UsageIsSumOfFiles

LEMMA UsageTotal ==
  UsageIsSumOfFiles <=> \A u \in Users : usage[u] = Total(size, FilesOf(u))
<1>1. ASSUME NEW u \in Users
      PROVE  MapThenSumSet(LAMBDA f : size[f], FilesOf(u)) = Total(size, FilesOf(u))
  BY DEF MapThenSumSet, MapThenFoldSet, Total, Adder, Adds, Picked
<1> HIDE DEF FilesOf
<1>2. QED BY <1>1 DEF UsageIsSumOfFiles

LEMMA UsageTotalNext ==
  UsageIsSumOfFiles' <=> \A u \in Users : usage'[u] = Total(size', FilesOf(u)')
<1>1. ASSUME NEW u \in Users
      PROVE  MapThenSumSet(LAMBDA f : size'[f], FilesOf(u)') = Total(size', FilesOf(u)')
  BY DEF MapThenSumSet, MapThenFoldSet, Total, Adder, Adds, Picked
<1>2. UsageIsSumOfFiles' <=>
        \A u \in Users :
          usage'[u] = MapThenSumSet(LAMBDA f : size'[f], FilesOf(u)')
  BY DEF UsageIsSumOfFiles, MapThenSumSet, MapThenFoldSet
<1>3. QED BY <1>1, <1>2 DEF MapThenSumSet, MapThenFoldSet

\* A step that changes neither files nor what they are worth.
LEMMA UsageKept ==
  ASSUME TypeOK, UsageIsSumOfFiles, UNCHANGED usage,
         \A u \in Users : FilesOf(u)' = FilesOf(u),
         \A f \in Files : meta[f] # NoFile => size'[f] = size[f]
  PROVE  UsageIsSumOfFiles'
<1>1. ASSUME NEW u \in Users
      PROVE  usage'[u] = Total(size', FilesOf(u)')
  <2>1. FilesOf(u)' = FilesOf(u) /\ usage'[u] = Total(size, FilesOf(u))
    BY UsageTotal
  <2>2. IsFiniteSet(FilesOf(u)) /\ \A f \in FilesOf(u) : size[f] = size'[f]
    BY UploadsAssumption, FS_Subset DEF FilesOf
  <2>3. Total(size, FilesOf(u)) = Total(size', FilesOf(u))
    BY <2>2, TotalSame
  <2>4. QED BY <2>1, <2>3
<1>2. QED BY <1>1, UsageTotalNext

LEMMA CompleteKeepsUsage ==
  ASSUME TypeOK, UsageInv, NEW r \in Requests, CompleteCommit(r)
  PROVE  UsageIsSumOfFiles'
<1>1. PICK f \in Files : f = req[r].file
  BY RequestShape DEF CompleteCommit, TypeOK
<1>2. /\ meta[f] = NoFile /\ req[r].hash # NoFile
      /\ meta' = [meta EXCEPT ![f] = req[r].hash]
      /\ usage' = [u \in Users |-> IF u \in owner[f] THEN usage[u] + size[f]
                                                     ELSE usage[u]]
      /\ UNCHANGED <<owner, size>>
  BY <1>1 DEF CompleteCommit, UsageInv, HashKnown, NoHash, NoFile
<1>3. ASSUME NEW u \in Users
      PROVE  usage'[u] = Total(size', FilesOf(u)')
  <2>1. PICK S, T : S = FilesOf(u) /\ T = FilesOf(u)'
    OBVIOUS
  <2>2. S \subseteq Files /\ T \subseteq Files /\ IsFiniteSet(S) /\ IsFiniteSet(T)
    BY <2>1, UploadsAssumption, FS_Subset DEF FilesOf
  <2>3. usage[u] = Total(size, S)
    BY <2>1, UsageTotal DEF UsageInv
  <2>4. size \in [Files -> Nat]
    BY DEF TypeOK
  <2>5. CASE u \in owner[f]
    <3>1. f \in T /\ T \ {f} = S
      BY <1>2, <2>1, <2>5 DEF FilesOf, TypeOK
    <3>2. Total(size, T) = size[f] + Total(size, S)
      BY <2>2, <2>4, <3>1, TotalMore
    <3>3. Total(size, S) \in Nat /\ size[f] \in Nat
      BY <2>2, <2>4, TotalNat
    <3>4. usage'[u] = usage[u] + size[f]
      BY <1>2, <2>5
    <3>5. QED BY <1>2, <2>1, <2>3, <3>2, <3>3, <3>4
  <2>6. CASE u \notin owner[f]
    <3>1. T = S
      BY <1>2, <2>1, <2>6 DEF FilesOf, TypeOK
    <3>2. usage'[u] = usage[u]
      BY <1>2, <2>6
    <3>3. QED BY <1>2, <2>1, <2>3, <3>1, <3>2
  <2>7. QED BY <2>5, <2>6
<1>4. QED BY <1>3, UsageTotalNext

LEMMA DeleteKeepsUsage ==
  ASSUME TypeOK, UsageInv, NEW r \in Requests, DeleteCommit(r)
  PROVE  UsageIsSumOfFiles'
<1>1. PICK f \in Files : f = req[r].file
  BY RequestShape DEF DeleteCommit, TypeOK
<1>2. /\ meta[f] # NoFile
      /\ meta' = [meta EXCEPT ![f] = NoFile]
      /\ usage' = [u \in Users |-> IF u \in owner[f] THEN Less(usage[u], size[f])
                                                     ELSE usage[u]]
      /\ UNCHANGED <<owner, size>>
  BY <1>1 DEF DeleteCommit, sessionVars
<1>3. ASSUME NEW u \in Users
      PROVE  usage'[u] = Total(size', FilesOf(u)')
  <2>1. PICK S, T : S = FilesOf(u) /\ T = FilesOf(u)'
    OBVIOUS
  <2>2. S \subseteq Files /\ T \subseteq Files /\ IsFiniteSet(S) /\ IsFiniteSet(T)
    BY <2>1, UploadsAssumption, FS_Subset DEF FilesOf
  <2>3. usage[u] = Total(size, S)
    BY <2>1, UsageTotal DEF UsageInv
  <2>4. size \in [Files -> Nat]
    BY DEF TypeOK
  <2>5. CASE u \in owner[f]
    <3>1. f \in S /\ S \ {f} = T
      BY <1>2, <2>1, <2>5 DEF FilesOf, TypeOK
    <3>2. Total(size, S) = size[f] + Total(size, T)
      BY <2>2, <2>4, <3>1, TotalMore
    <3>3. Total(size, T) \in Nat /\ size[f] \in Nat
      BY <2>2, <2>4, TotalNat
    <3>4. usage'[u] = Less(usage[u], size[f])
      BY <1>2, <2>5
    <3>5. Less(usage[u], size[f]) = Total(size, T)
      BY <2>3, <3>2, <3>3 DEF Less
    <3>6. QED BY <1>2, <2>1, <3>4, <3>5
  <2>6. CASE u \notin owner[f]
    <3>1. T = S
      BY <1>2, <2>1, <2>6 DEF FilesOf, TypeOK
    <3>2. usage'[u] = usage[u]
      BY <1>2, <2>6
    <3>3. QED BY <1>2, <2>1, <2>3, <3>1, <3>2
  <2>7. QED BY <2>5, <2>6
<1>4. QED BY <1>3, UsageTotalNext

\* The row of a new session is not that of a file.
LEMMA CreateKeepsUsage ==
  ASSUME TypeOK, UsageInv, NEW r \in Requests, CreateCommit(r)
  PROVE  UsageIsSumOfFiles'
<1>1. PICK f \in Files : f = req[r].file
  BY RequestShape DEF CreateCommit, TypeOK
<1>2. /\ meta[f] = NoFile
      /\ owner' = [owner EXCEPT ![f] = {req[r].user}]
      /\ size' = [size EXCEPT ![f] = req[r].size]
      /\ UNCHANGED <<meta, usage>>
  BY <1>1 DEF CreateCommit, MayCreate
<1>3. \A u \in Users : FilesOf(u)' = FilesOf(u)
  BY <1>2 DEF FilesOf, TypeOK
<1>4. \A g \in Files : meta[g] # NoFile => size'[g] = size[g]
  BY <1>2 DEF TypeOK
<1>5. QED BY <1>2, <1>3, <1>4, UsageKept DEF UsageInv

LEMMA NextKeepsUsage ==
  ASSUME TypeOK, UsageInv, [Next]_vars
  PROVE  UsageIsSumOfFiles'
<1> USE DEF sessionVars
<1>1. CASE UNCHANGED <<meta, owner, size, usage>>
  <2>1. \A u \in Users : FilesOf(u)' = FilesOf(u)
    BY <1>1 DEF FilesOf
  <2>2. QED BY <1>1, <2>1, UsageKept DEF UsageInv
<1>2. ASSUME NEW r \in Requests, Proceed(r)
      PROVE  UsageIsSumOfFiles'
  <2>1. \/ CreateCommit(r) \/ CompleteCommit(r) \/ DeleteCommit(r)
        \/ UNCHANGED <<meta, owner, size, usage>>
    BY <1>2
    DEF Proceed, CreateFail, ChunkHash, ChunkPut, ChunkPutFail, ChunkRow,
        CompleteHash, CompleteForget, CompletePut, CompletePutFail,
        CompleteMismatch, CompleteCommitFail, CancelAbort, CancelCommit,
        CancelForget, DeleteRemove, DeleteFail
  <2>2. QED BY <1>1, <2>1, CreateKeepsUsage, CompleteKeepsUsage, DeleteKeepsUsage
<1>3. ASSUME NEW r \in Requests, Arrive(r)
      PROVE  UNCHANGED <<meta, owner, size, usage>>
  BY <1>3 DEF Arrive, CreateCheck, ChunkRead, CompleteRead, CancelRead, DeleteRead
<1>4. CASE StaleJob \/ (\E f \in Files : Expire(f)) \/ Crash \/ UNCHANGED vars
  <2>1. UNCHANGED <<meta, owner, size, usage>>
    BY <1>4 DEF StaleJob, StaleScan, StaleAbort, StaleClear, Expire, Crash, vars
  <2>2. QED BY <1>1, <2>1
<1>5. QED BY <1>1, <1>2, <1>3, <1>4 DEF Next

LEMMA KnownElsewhere ==
  ASSUME TypeOK, HashKnown, NEW r \in Requests, NEW x, Goto(r, x),
         x.pc \in {"complete_forget", "complete_put", "complete_commit"} =>
           x.hash # NoHash
  PROVE  HashKnown'
  BY DEF HashKnown, Goto, TypeOK

LEMMA NextKeepsHashKnown ==
  ASSUME TypeOK, HashKnown, [Next]_vars
  PROVE  HashKnown'
<1>1. CASE UNCHANGED req
  BY <1>1 DEF HashKnown
<1>2. ASSUME NEW r \in Requests, Finish(r)
      PROVE  HashKnown'
  BY <1>2, KnownElsewhere DEF Finish, Idle
<1>3. ASSUME NEW r \in Requests, Arrive(r)
      PROVE  HashKnown'
  BY <1>3, KnownElsewhere
  DEF Arrive, CreateCheck, ChunkRead, CompleteRead, CancelRead, DeleteRead
<1>4. ASSUME NEW r \in Requests, Proceed(r)
      PROVE  HashKnown'
  <2>0. req[r] \in RequestState
    BY DEF TypeOK
  <2>1. CASE ChunkHash(r)
    <3>1. [req[r] EXCEPT !.pc = "chunk_put"].pc = "chunk_put"
      BY <2>0, <2>1, RequestShape DEF ChunkHash
    <3>2. QED BY <2>1, <3>1, KnownElsewhere DEF ChunkHash
  <2>2. CASE ChunkPut(r)
    <3>1. [req[r] EXCEPT !.pc = "chunk_row"].pc = "chunk_row"
      BY <2>0, <2>2, RequestShape DEF ChunkPut
    <3>2. QED BY <2>2, <3>1, KnownElsewhere DEF ChunkPut
  <2>3. CASE CompleteHash(r)
    BY <1>2, <2>3, KnownElsewhere DEF CompleteHash
  <2>4. CASE CompleteForget(r)
    <3>1. [req[r] EXCEPT !.pc = "complete_put"].hash = req[r].hash /\ req[r].hash # NoHash
      BY <2>0, <2>4, RequestShape DEF CompleteForget, HashKnown
    <3>2. QED BY <2>4, <3>1, KnownElsewhere DEF CompleteForget
  <2>5. CASE CompletePut(r)
    <3>1. [req[r] EXCEPT !.pc = "complete_commit"].hash = req[r].hash /\ req[r].hash # NoHash
      BY <2>0, <2>5, RequestShape DEF CompletePut, HashKnown
    <3>2. QED BY <2>5, <3>1, KnownElsewhere DEF CompletePut
  <2>6. CASE CancelAbort(r)
    <3>1. [req[r] EXCEPT !.pc = "cancel_commit"].pc = "cancel_commit"
      BY <2>0, <2>6, RequestShape DEF CancelAbort
    <3>2. QED BY <2>6, <3>1, KnownElsewhere DEF CancelAbort
  <2>7. CASE CancelCommit(r)
    <3>1. [req[r] EXCEPT !.pc = "cancel_forget"].pc = "cancel_forget"
      BY <2>0, <2>7, RequestShape DEF CancelCommit
    <3>2. QED BY <1>2, <2>7, <3>1, KnownElsewhere DEF CancelCommit
  <2>8. CASE DeleteRemove(r)
    <3>1. [req[r] EXCEPT !.pc = "delete_commit"].pc = "delete_commit"
      BY <2>0, <2>8, RequestShape DEF DeleteRemove
    <3>2. QED BY <2>8, <3>1, KnownElsewhere DEF DeleteRemove
  <2>9. QED
    BY <1>2, <1>4, <2>1, <2>2, <2>3, <2>4, <2>5, <2>6, <2>7, <2>8
    DEF Proceed, CreateCommit, CreateFail, ChunkPutFail, ChunkRow,
        CompletePutFail, CompleteCommit, CompleteMismatch, CompleteCommitFail,
        CancelForget, DeleteCommit, DeleteFail
<1>5. CASE Crash
  BY <1>5 DEF Crash, HashKnown, Idle
<1>6. QED
  BY <1>1, <1>3, <1>4, <1>5
  DEF Next, StaleJob, StaleScan, StaleAbort, StaleClear, Expire, vars

(* users.total_storage_bytes is the sum of the sizes of the user's files,  *)
(* for any number of users, files and requests that complete, delete, fail *)
(* and die at any point (handlers/uploads.go:1032, :1178).                 *)
THEOREM UsageIsSumOfFilesHolds == Spec => []UsageIsSumOfFiles
<1>1. Init => UsageInv
  <2>1. SUFFICES ASSUME Init
                 PROVE  UsageInv
    OBVIOUS
  <2>2. HashKnown
    BY <2>1 DEF Init, HashKnown, Idle
  <2>3. \A u \in Users : FilesOf(u) = {} /\ usage[u] = 0
    BY <2>1 DEF Init, FilesOf, NoFile
  <2>4. QED BY <2>2, <2>3, TotalEmpty, UsageTotal DEF UsageInv
<1>2. TypeOK /\ UsageInv /\ [Next]_vars => UsageInv'
  BY NextKeepsUsage, NextKeepsHashKnown DEF UsageInv
<1>3. UsageInv => UsageIsSumOfFiles
  BY DEF UsageInv
<1>4. QED BY <1>1, <1>2, <1>3, TypeCorrect, PTL DEF Spec

-----------------------------------------------------------------------------
(***************************************************************************)
(* Uploads implements FileStore.  A transaction that inserts or deletes a  *)
(* file row is the step of the store; every other step, a crash included,  *)
(* can only use file_ids up.  The owner and the size of a session are what *)
(* its file is charged with, and they are fixed before the file is there.  *)
(***************************************************************************)

Shelf == [u \in Users |-> {<<f, size[f]>> : f \in FilesOf(u)}]

Spent == {f \in Files : mpu[f] = "done" /\ \A r \in Requests : ~Committing(r, f)}

OwnerInv ==
  \A f \in Files : mpu[f] # "none" =>
                     size[f] \in Sizes /\ \E u \in Users : owner[f] = {u}

StoreInv == TypeOK /\ FileInv /\ UsageInv /\ OwnerInv

\* The multipart uploads go one way, and none is done twice.
UploadsAdvance ==
  \A f \in Files : \/ mpu'[f] = mpu[f]
                   \/ mpu[f] = "open" /\ mpu'[f] \in {"done", "aborted"}

\* A handler comes to its commit only by completing an open upload.
CommitsFromOpen ==
  \A f \in Files, r \in Requests :
    Committing(r, f)' => Committing(r, f) \/ mpu[f] = "open"

LEMMA AbortAdvances ==
  ASSUME TypeOK, NEW f \in Files, Abort(f)
  PROVE  UploadsAdvance
  BY DEF Abort, UploadsAdvance, TypeOK

\* Of the steps that change no row, none goes back.
LEMMA QuietAdvances ==
  ASSUME TypeOK, [Next]_vars, \A r \in Requests : ~CreateCommit(r)
  PROVE  UploadsAdvance
<1> USE DEF sessionVars, storageVars
<1>1. CASE UNCHANGED mpu
  BY <1>1 DEF UploadsAdvance
<1>2. ASSUME NEW r \in Requests, Proceed(r)
      PROVE  UploadsAdvance
  <2>1. CASE CompletePut(r)
    BY <2>1, RequestShape DEF CompletePut, Completable, UploadsAdvance, TypeOK
  <2>2. CASE CancelAbort(r)
    BY <2>2, RequestShape, AbortAdvances DEF CancelAbort, TypeOK
  <2>3. QED
    BY <1>1, <1>2, <2>1, <2>2
    DEF Proceed, CreateFail, ChunkHash, ChunkPut, ChunkPutFail, ChunkRow,
        CompleteHash, CompleteForget, CompletePutFail, CompleteCommit,
        CompleteMismatch, CompleteCommitFail, CancelCommit, CancelForget,
        DeleteRemove, DeleteCommit, DeleteFail
<1>3. ASSUME NEW r \in Requests, Arrive(r)
      PROVE  UploadsAdvance
  BY <1>1, <1>3
  DEF Arrive, CreateCheck, ChunkRead, CompleteRead, CancelRead, DeleteRead
<1>4. CASE StaleJob \/ (\E f \in Files : Expire(f)) \/ Crash \/ UNCHANGED vars
  BY <1>1, <1>4, AbortAdvances
  DEF StaleJob, StaleScan, StaleAbort, StaleClear, Expire, Crash, vars
<1>5. QED BY <1>2, <1>3, <1>4 DEF Next

LEMMA CommitsElsewhere ==
  ASSUME TypeOK, NEW r \in Requests, NEW x, Goto(r, x), x.pc # "complete_commit"
  PROVE  CommitsFromOpen
  BY DEF CommitsFromOpen, Committing, Goto, TypeOK

LEMMA NextCommitsFromOpen ==
  ASSUME TypeOK, [Next]_vars
  PROVE  CommitsFromOpen
<1>1. CASE UNCHANGED req
  BY <1>1 DEF CommitsFromOpen, Committing
<1>2. ASSUME NEW r \in Requests, Finish(r)
      PROVE  CommitsFromOpen
  BY <1>2, CommitsElsewhere DEF Finish, Idle
<1>3. ASSUME NEW r \in Requests, Arrive(r)
      PROVE  CommitsFromOpen
  BY <1>3, CommitsElsewhere
  DEF Arrive, CreateCheck, ChunkRead, CompleteRead, CancelRead, DeleteRead
<1>4. ASSUME NEW r \in Requests, Proceed(r)
      PROVE  CommitsFromOpen
  <2>0. req[r] \in RequestState
    BY DEF TypeOK
  <2>1. CASE ChunkHash(r)
    <3>1. [req[r] EXCEPT !.pc = "chunk_put"].pc = "chunk_put"
      BY <2>0, <2>1, RequestShape DEF ChunkHash
    <3>2. QED BY <2>1, <3>1, CommitsElsewhere DEF ChunkHash
  <2>2. CASE ChunkPut(r)
    <3>1. [req[r] EXCEPT !.pc = "chunk_row"].pc = "chunk_row"
      BY <2>0, <2>2, RequestShape DEF ChunkPut
    <3>2. QED BY <2>2, <3>1, CommitsElsewhere DEF ChunkPut
  <2>3. CASE CompleteHash(r)
    BY <1>2, <2>3, CommitsElsewhere DEF CompleteHash
  <2>4. CASE CompleteForget(r)
    <3>1. [req[r] EXCEPT !.pc = "complete_put"].pc = "complete_put"
      BY <2>0, <2>4, RequestShape DEF CompleteForget
    <3>2. QED BY <2>4, <3>1, CommitsElsewhere DEF CompleteForget
  <2>5. CASE CompletePut(r)
    <3>1. /\ req' = [req EXCEPT ![r] = [req[r] EXCEPT !.pc = "complete_commit"]]
          /\ mpu[req[r].file] = "open"
      BY <2>5 DEF CompletePut, Completable, Goto
    <3>2. [req[r] EXCEPT !.pc = "complete_commit"].file = req[r].file
      BY <2>0, <2>5, RequestShape DEF CompletePut
    <3>3. QED BY <3>1, <3>2 DEF CommitsFromOpen, Committing, TypeOK
  <2>6. CASE CancelAbort(r)
    <3>1. [req[r] EXCEPT !.pc = "cancel_commit"].pc = "cancel_commit"
      BY <2>0, <2>6, RequestShape DEF CancelAbort
    <3>2. QED BY <2>6, <3>1, CommitsElsewhere DEF CancelAbort
  <2>7. CASE CancelCommit(r)
    <3>1. [req[r] EXCEPT !.pc = "cancel_forget"].pc = "cancel_forget"
      BY <2>0, <2>7, RequestShape DEF CancelCommit
    <3>2. QED BY <1>2, <2>7, <3>1, CommitsElsewhere DEF CancelCommit
  <2>8. CASE DeleteRemove(r)
    <3>1. [req[r] EXCEPT !.pc = "delete_commit"].pc = "delete_commit"
      BY <2>0, <2>8, RequestShape DEF DeleteRemove
    <3>2. QED BY <2>8, <3>1, CommitsElsewhere DEF DeleteRemove
  <2>9. QED
    BY <1>2, <1>4, <2>1, <2>2, <2>3, <2>4, <2>5, <2>6, <2>7, <2>8
    DEF Proceed, CreateCommit, CreateFail, ChunkPutFail, ChunkRow,
        CompletePutFail, CompleteCommit, CompleteMismatch, CompleteCommitFail,
        CancelForget, DeleteCommit, DeleteFail
<1>5. CASE Crash
  BY <1>5 DEF Crash, CommitsFromOpen, Committing, Idle
<1>6. QED
  BY <1>1, <1>3, <1>4, <1>5
  DEF Next, StaleJob, StaleScan, StaleAbort, StaleClear, Expire, vars

\* A new session takes a file_id that no session had.
LEMMA CreateIsNew ==
  ASSUME StoreInv, NEW r \in Requests, CreateCommit(r)
  PROVE  \E f \in Files, u \in Users, n \in Sizes :
           /\ mpu[f] = "none" /\ meta[f] = NoFile
           /\ owner' = [owner EXCEPT ![f] = {u}]
           /\ size' = [size EXCEPT ![f] = n]
           /\ mpu' = [mpu EXCEPT ![f] = "open"]
           /\ UNCHANGED <<meta, usage>>
<1>1. PICK f \in Files, u \in Users, n \in Sizes :
        f = req[r].file /\ u = req[r].user /\ n = req[r].size
  BY RequestShape DEF CreateCommit, StoreInv, TypeOK
<1>2. status[f] = "none" /\ meta[f] = NoFile
  BY <1>1 DEF CreateCommit, MayCreate
<1>3. mpu[f] = "none"
  BY <1>2 DEF StoreInv, FileInv, UploadInv
<1>4. QED BY <1>1, <1>2, <1>3 DEF CreateCommit

\* The rows a step can change, and who changes them.
LEMMA RowSteps ==
  ASSUME [Next]_vars
  PROVE  \/ \E r \in Requests : CreateCommit(r) \/ CompleteCommit(r) \/ DeleteCommit(r)
         \/ UNCHANGED <<meta, owner, size, usage>>
<1> USE DEF sessionVars
<1>1. ASSUME NEW r \in Requests, Proceed(r)
      PROVE  \/ CreateCommit(r) \/ CompleteCommit(r) \/ DeleteCommit(r)
             \/ UNCHANGED <<meta, owner, size, usage>>
  BY <1>1
  DEF Proceed, CreateFail, ChunkHash, ChunkPut, ChunkPutFail, ChunkRow,
      CompleteHash, CompleteForget, CompletePut, CompletePutFail,
      CompleteMismatch, CompleteCommitFail, CancelAbort, CancelCommit,
      CancelForget, DeleteRemove, DeleteFail
<1>2. ASSUME NEW r \in Requests, Arrive(r)
      PROVE  UNCHANGED <<meta, owner, size, usage>>
  BY <1>2 DEF Arrive, CreateCheck, ChunkRead, CompleteRead, CancelRead, DeleteRead
<1>3. CASE StaleJob \/ (\E f \in Files : Expire(f)) \/ Crash \/ UNCHANGED vars
  BY <1>3 DEF StaleJob, StaleScan, StaleAbort, StaleClear, Expire, Crash, vars
<1>4. QED BY <1>1, <1>2, <1>3 DEF Next

LEMMA NextKeepsOwners ==
  ASSUME StoreInv, [Next]_vars
  PROVE  OwnerInv'
<1>1. ASSUME NEW r \in Requests, CreateCommit(r)
      PROVE  OwnerInv'
  BY <1>1, CreateIsNew DEF StoreInv, OwnerInv, TypeOK
<1>2. CASE \A r \in Requests : ~CreateCommit(r)
  <2>1. UNCHANGED <<owner, size>>
    BY <1>2, RowSteps DEF CompleteCommit, DeleteCommit, sessionVars
  <2>2. UploadsAdvance
    BY <1>2, QuietAdvances DEF StoreInv
  <2>3. QED BY <2>1, <2>2 DEF StoreInv, OwnerInv, UploadsAdvance
<1>3. QED BY <1>1, <1>2

\* A file_id once used up stays so.
LEMMA SpentGrows ==
  ASSUME StoreInv, [Next]_vars
  PROVE  Spent \subseteq Spent'
<1>1. \A f \in Files : mpu[f] = "done" => mpu'[f] = "done"
  <2>1. ASSUME NEW r \in Requests, CreateCommit(r)
        PROVE  \A f \in Files : mpu[f] = "done" => mpu'[f] = "done"
    BY <2>1, CreateIsNew DEF StoreInv, TypeOK
  <2>2. CASE \A r \in Requests : ~CreateCommit(r)
    BY <2>2, QuietAdvances DEF StoreInv, UploadsAdvance
  <2>3. QED BY <2>1, <2>2
<1>2. CommitsFromOpen
  BY NextCommitsFromOpen DEF StoreInv
<1>3. QED BY <1>1, <1>2 DEF CommitsFromOpen, Spent

\* The same rows on the shelf, whatever else happened: uploads were lost.
LEMMA LoseStep ==
  ASSUME StoreInv, [Next]_vars, UNCHANGED usage,
         \A u \in Users : FilesOf(u)' = FilesOf(u),
         \A f \in Files : meta[f] # NoFile => size'[f] = size[f]
  PROVE  Store!Next
<1>1. Shelf' = Shelf
  <2>1. \A u \in Users : \A f \in FilesOf(u) : size'[f] = size[f]
    BY DEF FilesOf
  <2>2. \A u \in Users :
          {<<f, size'[f]>> : f \in FilesOf(u)'} = {<<f, size[f]>> : f \in FilesOf(u)}
    BY <2>1
  <2>3. QED BY <2>2 DEF Shelf
<1>2. Spent' \ Spent \in SUBSET Files /\ Spent' = Spent \cup (Spent' \ Spent)
  BY SpentGrows DEF Spent
<1>3. PICK F \in SUBSET Files : Spent' = Spent \cup F
  BY <1>2
<1>4. Store!Lose(F)
  BY <1>1, <1>3 DEF Store!Lose, Shelf, Spent
<1>5. QED BY <1>4 DEF Store!Next

\* The transaction of CompleteUpload.
LEMMA CompleteStep ==
  ASSUME StoreInv, NEW r \in Requests, CompleteCommit(r)
  PROVE  Store!Next
<1> USE DEF StoreInv
<1>1. PICK f \in Files : f = req[r].file
  BY RequestShape DEF CompleteCommit, TypeOK
<1>2. /\ Committing(r, f) /\ Finish(r)
      /\ meta[f] = NoFile /\ req[r].hash # NoFile
      /\ meta' = [meta EXCEPT ![f] = req[r].hash]
      /\ usage' = [u \in Users |-> IF u \in owner[f] THEN usage[u] + size[f]
                                                     ELSE usage[u]]
      /\ UNCHANGED <<owner, size, mpu>>
  BY <1>1 DEF CompleteCommit, Committing, UsageInv, HashKnown, NoHash, NoFile,
              storageVars
<1>3. mpu[f] = "done" /\ \A q \in Requests : Committing(q, f) => q = r
  BY <1>2 DEF FileInv, CommittingInv
<1>4. PICK u \in Users : owner[f] = {u}
  BY <1>3 DEF OwnerInv
<1>5. PICK n \in Sizes : size[f] = n
  BY <1>3 DEF OwnerInv
<1>6. \A q \in Requests, g \in Files :
        Committing(q, g)' <=> Committing(q, g) /\ ~(q = r /\ g = f)
  BY <1>1, <1>2 DEF Finish, Goto, Committing, Idle, TypeOK
<1>7. f \notin Spent /\ Spent' = Spent \cup {f}
  BY <1>2, <1>3, <1>6 DEF Spent
<1>8. Shelf' = [Shelf EXCEPT ![u] = @ \cup {<<f, size[f]>>}]
  <2>1. FilesOf(u)' = FilesOf(u) \cup {f}
    BY <1>2, <1>4 DEF FilesOf, TypeOK
  <2>2. \A v \in Users \ {u} : FilesOf(v)' = FilesOf(v)
    BY <1>2, <1>4 DEF FilesOf, TypeOK
  <2>3. Shelf' = [v \in Users |-> {<<g, size[g]>> : g \in FilesOf(v)'}]
    BY <1>2 DEF Shelf
  <2>4. {<<g, size[g]>> : g \in FilesOf(u)'}
          = {<<g, size[g]>> : g \in FilesOf(u)} \cup {<<f, size[f]>>}
    BY <2>1
  <2>5. \A v \in Users :
          Shelf'[v] = IF v = u THEN Shelf[u] \cup {<<f, size[f]>>} ELSE Shelf[v]
    BY <2>2, <2>3, <2>4 DEF Shelf
  <2>6. QED BY <2>3, <2>5 DEF Shelf
<1>9. usage' = [usage EXCEPT ![u] = @ + size[f]]
  BY <1>2, <1>4 DEF TypeOK
<1>10. Store!Complete(u, f, n)
  BY <1>5, <1>7, <1>8, <1>9 DEF Store!Complete, Shelf, Spent
<1>11. QED BY <1>10 DEF Store!Next

\* The transaction of DeleteFile.
LEMMA DeleteStep ==
  ASSUME StoreInv, NEW r \in Requests, DeleteCommit(r)
  PROVE  Store!Next
<1> USE DEF StoreInv
<1>1. PICK f \in Files : f = req[r].file
  BY RequestShape DEF DeleteCommit, TypeOK
<1>2. /\ Finish(r) /\ req[r].pc = "delete_commit"
      /\ meta[f] # NoFile
      /\ meta' = [meta EXCEPT ![f] = NoFile]
      /\ usage' = [v \in Users |-> IF v \in owner[f] THEN Less(usage[v], size[f])
                                                     ELSE usage[v]]
      /\ UNCHANGED <<owner, size, mpu>>
  BY <1>1 DEF DeleteCommit, sessionVars, storageVars
<1>3. mpu[f] = "done"
  BY <1>2 DEF FileInv, RowInv
<1>4. PICK u \in Users : owner[f] = {u}
  BY <1>3 DEF OwnerInv
<1>5. PICK n \in Sizes : size[f] = n
  BY <1>3 DEF OwnerInv
<1>6. Spent' = Spent
  <2>1. \A q \in Requests, g \in Files : Committing(q, g)' <=> Committing(q, g)
    BY <1>2 DEF Finish, Goto, Committing, Idle, TypeOK
  <2>2. QED BY <1>2, <2>1 DEF Spent
<1>7. f \in FilesOf(u) /\ FilesOf(u)' = FilesOf(u) \ {f}
  BY <1>2, <1>4 DEF FilesOf, TypeOK
<1>8. <<f, size[f]>> \in Shelf[u] /\ Shelf' = [Shelf EXCEPT ![u] = @ \ {<<f, size[f]>>}]
  <2>1. \A v \in Users \ {u} : FilesOf(v)' = FilesOf(v)
    BY <1>2, <1>4 DEF FilesOf, TypeOK
  <2>2. Shelf' = [v \in Users |-> {<<g, size[g]>> : g \in FilesOf(v)'}]
    BY <1>2 DEF Shelf
  <2>3. {<<g, size[g]>> : g \in FilesOf(u)'} =
          {<<g, size[g]>> : g \in FilesOf(u)} \ {<<f, size[f]>>}
    BY <1>7
  <2>4. QED BY <1>7, <2>1, <2>2, <2>3 DEF Shelf
<1>9. usage' = [usage EXCEPT ![u] = @ - size[f]]
  <2>1. PICK S : S = FilesOf(u)
    OBVIOUS
  <2>2. S \in SUBSET Files /\ IsFiniteSet(S) /\ f \in S
    BY <1>7, <2>1, UploadsAssumption, FS_Subset DEF FilesOf
  <2>3. S \ {f} \in SUBSET Files /\ IsFiniteSet(S \ {f})
    BY <2>2, FS_Subset
  <2>4. size \in [Files -> Nat]
    BY DEF TypeOK
  <2>5. usage[u] = Total(size, S)
    BY <2>1, UsageTotal DEF UsageInv
  <2>6. Total(size, S) = size[f] + Total(size, S \ {f})
    BY <2>2, <2>4, TotalMore
  <2>7. Total(size, S \ {f}) \in Nat /\ size[f] \in Nat
    BY <2>3, <2>4, TotalNat
  <2>8. Less(usage[u], size[f]) = usage[u] - size[f]
    BY <2>5, <2>6, <2>7 DEF Less
  <2>9. QED BY <1>2, <1>4, <2>8 DEF TypeOK
<1>10. Store!Delete(u, f, n)
  BY <1>5, <1>6, <1>8, <1>9 DEF Store!Delete, Shelf, Spent
<1>11. QED BY <1>10 DEF Store!Next

LEMMA StoreStep ==
  ASSUME StoreInv, [Next]_vars
  PROVE  Store!Next
<1>1. ASSUME NEW r \in Requests, CreateCommit(r)
      PROVE  Store!Next
  <2>1. PICK f \in Files, u \in Users, n \in Sizes :
          /\ meta[f] = NoFile
          /\ owner' = [owner EXCEPT ![f] = {u}]
          /\ size' = [size EXCEPT ![f] = n]
          /\ UNCHANGED <<meta, usage>>
    BY <1>1, CreateIsNew
  <2>2. \A v \in Users : FilesOf(v)' = FilesOf(v)
    BY <2>1 DEF FilesOf, StoreInv, TypeOK
  <2>3. \A g \in Files : meta[g] # NoFile => size'[g] = size[g]
    BY <2>1 DEF StoreInv, TypeOK
  <2>4. QED BY <2>1, <2>2, <2>3, LoseStep
<1>2. CASE UNCHANGED <<meta, owner, size, usage>>
  <2>1. \A u \in Users : FilesOf(u)' = FilesOf(u)
    BY <1>2 DEF FilesOf
  <2>2. QED BY <1>2, <2>1, LoseStep
<1>3. QED BY <1>1, <1>2, CompleteStep, DeleteStep, RowSteps

(* Uploads and deletions, with every overlap, failure and crash the model  *)
(* has, are a store in which a file and what it is charged with come and   *)
(* go in one step and a file_id is used once: the storage calls, the hash  *)
(* states and the reads before the transactions of CreateUploadSession,    *)
(* CompleteUpload, CancelUpload and DeleteFile do not show.                *)
THEOREM FileStoreImplemented == Spec => FileStoreSpec
<1>1. Init => OwnerInv /\ Store!Init
  BY DEF Init, OwnerInv, Store!Init, FilesOf
<1>2. UsageIsSumOfFiles /\ HashKnown => UsageInv
  BY DEF UsageInv
<1>3. Init => HashKnown
  BY DEF Init, HashKnown, Idle
<1>4. StoreInv /\ [Next]_vars => OwnerInv'
  BY NextKeepsOwners
<1>5. StoreInv /\ [Next]_vars => [Store!Next]_Store!vars
  BY StoreStep
<1>6. TypeOK /\ HashKnown /\ [Next]_vars => HashKnown'
  BY NextKeepsHashKnown
<1>7. TypeOK /\ FileInv /\ UsageIsSumOfFiles /\ HashKnown /\ OwnerInv => StoreInv
  BY DEF StoreInv, UsageInv
<1>8. QED BY <1>1, <1>3, <1>4, <1>5, <1>6, <1>7, TypeCorrect, FileInvHolds,
             UsageIsSumOfFilesHolds, PTL DEF Spec, FileStoreSpec, Store!Spec

=============================================================================
