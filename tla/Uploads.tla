------------------------------ MODULE Uploads ------------------------------
(***************************************************************************)
(* The life of a file on the primary storage provider: the upload session, *)
(* its chunks, the S3 multipart upload behind it, the running hashes kept  *)
(* in the memory of the server, completion, cancellation, deletion, and    *)
(* the background job that aborts stale multipart uploads                  *)
(* (handlers/uploads.go, handlers/streaming_hash.go,                       *)
(* handlers/admin_task_runner.go).                                         *)
(*                                                                         *)
(* A handler is one request of the set Requests.  It takes one step per    *)
(* database read, database transaction, storage call, or critical section  *)
(* of hashStateMutex, and keeps in req[r] what it read in earlier steps,   *)
(* so every step may act on a value that is stale by then.  A transaction  *)
(* is atomic (see the README); what a handler reads before it opens the    *)
(* transaction is a step of its own.                                       *)
(*                                                                         *)
(* A session, the file it becomes and its storage object share one key,    *)
(* the client-minted file_id: upload_sessions.file_id is UNIQUE and rows   *)
(* of upload_sessions are never deleted.                                   *)
(***************************************************************************)
EXTENDS Naturals, Sequences, FiniteSets, FiniteSetsExt

CONSTANTS
  Users,           \* accounts
  Files,           \* the file ids clients mint
  Requests,        \* handler invocations that can run at the same time
  Sizes,           \* values of total_size a client declares
  Limit,           \* users.storage_limit_bytes
  MaxInProgress,   \* maxInProgressUploadSessionsPerUser (4 in the code)
  NumChunks,       \* total_chunks of a session
  MaxSends,        \* bound: how often a client sends one chunk
  MaxCrashes,      \* bound: how often the server process dies
  OrderlyClients,  \* TRUE: clients behave like the two in the repository
  Honesty,         \* {TRUE}: declared sizes are right; BOOLEAN: or wrong
  MayFail          \* TRUE: storage calls and transactions may fail

ASSUME UploadsAssumption ==
  /\ IsFiniteSet(Files)
  /\ Sizes \subseteq Nat
  /\ Limit \in Nat
  /\ MaxInProgress \in Nat \ {0}
  /\ NumChunks \in Nat \ {0}
  /\ MaxSends \in Nat \ {0}
  /\ MaxCrashes \in Nat
  /\ OrderlyClients \in BOOLEAN
  /\ Honesty \subseteq BOOLEAN
  /\ MayFail \in BOOLEAN

VARIABLES
  \* the rows of upload_sessions
  status,    \* "none" until the row is inserted
  owner,     \* owner_username, {} before the insert, else a singleton
  size,      \* total_size
  honest,    \* do the bytes the client sends add up to padded_size?
  expired,   \* expires_at < now
  uploadId,  \* storage_upload_id IS NOT NULL
  row,       \* upload_chunks: the etag recorded for a chunk, 0 = no row
  \* file_metadata and users
  meta,      \* stored_blob_sha256sum of the file's row, NoFile = no row
  usage,     \* users.total_storage_bytes
  \* the storage provider
  mpu,       \* the multipart upload
  part,      \* its parts, by content; the object's content once it is done
  object,    \* the object
  \* the memory of the server process
  hash,      \* storedBlobHashStates (and streamingHashStates)
  req,       \* the handlers that are running
  stale,     \* progress of abortAbandonedMultipartUploads, by session
  \* bounds and the client
  sent,      \* how often a chunk was sent
  crashes

sessionVars == <<status, owner, size, honest, expired, uploadId>>
storageVars == <<mpu, part, object>>
vars == <<sessionVars, row, meta, usage, storageVars, hash, req, stale,
          sent, crashes>>

Chunks == 0 .. NumChunks - 1
LastChunk == NumChunks - 1
Versions == 1 .. MaxSends

\* A chunk as the hash sees it: its number and its bytes.  Garbled is what
\* two unsynchronised writes to one sha256 state can leave behind.
HashItem == (Chunks \X Versions) \cup {<<>>}
Garbled == <<>>

\* An absent hash state and a fresh one are the same thing: UploadChunk
\* creates the state when it is missing and writes to it at once.
NoHash == <<>>
NoFile == <<>>

Idle == [pc |-> "idle"]

RequestState ==
  {Idle}
  \cup [pc: {"create_commit"}, user: Users, file: Files, size: Sizes]
  \cup [pc: {"chunk_hash", "chunk_put", "chunk_row"},
        file: Files, chunk: Chunks, ver: Versions]
  \cup [pc: {"complete_hash"}, file: Files, rows: [Chunks -> Versions]]
  \cup [pc: {"complete_forget", "complete_put", "complete_commit"},
        file: Files, rows: [Chunks -> Versions], hash: Seq(HashItem)]
  \cup [pc: {"cancel_abort", "cancel_commit", "cancel_forget"}, file: Files]
  \cup [pc: {"delete_remove", "delete_commit"}, file: Files]

TypeOK ==
  /\ status \in [Files -> {"none", "in_progress", "abandoned", "canceled",
                           "completed"}]
  /\ owner \in [Files -> SUBSET Users]
  /\ size \in [Files -> Nat]
  /\ honest \in [Files -> BOOLEAN]
  /\ expired \in [Files -> BOOLEAN]
  /\ uploadId \in [Files -> BOOLEAN]
  /\ row \in [Files -> [Chunks -> 0 .. MaxSends]]
  /\ meta \in [Files -> Seq(HashItem)]
  /\ usage \in [Users -> Nat]
  /\ mpu \in [Files -> {"none", "open", "aborted", "done"}]
  /\ part \in [Files -> [Chunks -> 0 .. MaxSends]]
  /\ object \in [Files -> {"absent", "present", "removed", "deleted"}]
  /\ hash \in [Files -> Seq(HashItem)]
  /\ req \in [Requests -> RequestState]
  /\ stale \in [Files -> {"no", "todo", "aborted"}]
  /\ sent \in [Files -> [Chunks -> 0 .. MaxSends]]
  /\ crashes \in 0 .. MaxCrashes

Init ==
  /\ status = [f \in Files |-> "none"]
  /\ owner = [f \in Files |-> {}]
  /\ size = [f \in Files |-> 0]
  /\ honest = [f \in Files |-> TRUE]
  /\ expired = [f \in Files |-> FALSE]
  /\ uploadId = [f \in Files |-> FALSE]
  /\ row = [f \in Files |-> [c \in Chunks |-> 0]]
  /\ meta = [f \in Files |-> NoFile]
  /\ usage = [u \in Users |-> 0]
  /\ mpu = [f \in Files |-> "none"]
  /\ part = [f \in Files |-> [c \in Chunks |-> 0]]
  /\ object = [f \in Files |-> "absent"]
  /\ hash = [f \in Files |-> NoHash]
  /\ req = [r \in Requests |-> Idle]
  /\ stale = [f \in Files |-> "no"]
  /\ sent = [f \in Files |-> [c \in Chunks |-> 0]]
  /\ crashes = 0

InProgress(u) == {f \in Files : status[f] = "in_progress" /\ u \in owner[f]}

Active(f) ==
  \E r \in Requests : req[r] # Idle /\ req[r].file = f

Goto(r, state) == req' = [req EXCEPT ![r] = state]

Finish(r) == Goto(r, Idle)

-----------------------------------------------------------------------------
(***************************************************************************)
(* POST /api/uploads/init                                                  *)
(***************************************************************************)

\* CreateUploadSession up to CheckStorageAvailable: the user row is read, and
\* the limit checked against it, before the transaction.
CreateCheck(r, u, f, n) ==
  /\ req[r] = Idle
  /\ usage[u] + n <= Limit
  /\ Goto(r, [pc |-> "create_commit", user |-> u, file |-> f, size |-> n])
  /\ UNCHANGED <<sessionVars, row, meta, usage, storageVars, hash, stale,
                 sent, crashes>>

\* Mutant: the UPDATE lost AND status = 'in_progress'.
ExpiredAnyStatus(u) == {g \in Files : expired[g] /\ u \in owner[g]}

Expired(u) == {g \in InProgress(u) : expired[g]}

\* Mutant: the cap is compared with > instead of >=.
MayCreateOneMore(u, f) ==
  /\ Cardinality(InProgress(u) \ Expired(u)) <= MaxInProgress
  /\ meta[f] = NoFile
  /\ status[f] = "none"

MayCreate(u, f) ==
  /\ Cardinality(InProgress(u) \ Expired(u)) < MaxInProgress
  /\ meta[f] = NoFile
  /\ status[f] = "none"

\* The transaction: expired sessions of the user become 'abandoned', the rest
\* are counted, the file_id is checked, the row inserted, and the multipart
\* upload is started and recorded before the commit.
CreateCommit(r) ==
  /\ req[r].pc = "create_commit"
  /\ LET f == req[r].file
         u == req[r].user
     IN /\ MayCreate(u, f)
        /\ status' = [g \in Files |-> IF g \in Expired(u) THEN "abandoned"
                                      ELSE IF g = f THEN "in_progress"
                                      ELSE status[g]]
        /\ owner' = [owner EXCEPT ![f] = {u}]
        /\ size' = [size EXCEPT ![f] = req[r].size]
        /\ \E h \in Honesty : honest' = [honest EXCEPT ![f] = h]
        /\ uploadId' = [uploadId EXCEPT ![f] = TRUE]
        /\ mpu' = [mpu EXCEPT ![f] = "open"]
  /\ Finish(r)
  /\ UNCHANGED <<expired, row, meta, usage, part, object, hash, stale, sent,
                 crashes>>

\* 429, 409, a failed InitiateMultipartUpload or a failed commit: the
\* deferred rollback undoes the 'abandoned' marks too.
CreateFail(r) ==
  /\ req[r].pc = "create_commit"
  /\ MayFail \/ ~MayCreate(req[r].user, req[r].file)
  /\ Finish(r)
  /\ UNCHANGED <<sessionVars, row, meta, usage, storageVars, hash, stale,
                 sent, crashes>>

-----------------------------------------------------------------------------
(***************************************************************************)
(* POST /api/uploads/:sessionId/chunks/:chunkNumber                        *)
(***************************************************************************)

\* The clients of the repository send chunk after chunk, one request at a
\* time, and give the upload up when one fails.  Any other client may send
\* any chunk at any time, and send it again.
ClientSends(f, c) ==
  /\ sent[f][c] < MaxSends
  /\ OrderlyClients => /\ sent[f][c] = 0
                       /\ \A d \in 0 .. c - 1 : row[f][d] # 0
                       /\ ~Active(f)

\* Mutant: numbered past the last send.
ContentOffByOne(f, c) == IF c = LastChunk THEN sent[f][c] + 2 ELSE 1

\* Bytes of the part: a resent chunk is the same ciphertext, but the last
\* chunk gets fresh random padding each time it arrives.
Content(f, c) == IF c = LastChunk THEN sent[f][c] + 1 ELSE 1

ChunkRead(r, f, c) ==
  /\ req[r] = Idle
  /\ status[f] = "in_progress"
  /\ ClientSends(f, c)
  /\ sent' = [sent EXCEPT ![f][c] = @ + 1]
  /\ Goto(r, [pc |-> "chunk_hash", file |-> f, chunk |-> c,
              ver |-> Content(f, c)])
  /\ UNCHANGED <<sessionVars, row, meta, usage, storageVars, hash, stale,
                 crashes>>

\* The running hashes take the chunk before it is stored.  WriteChunk takes no
\* lock, so a write that overlaps another on the same state may corrupt it.
ChunkHash(r) ==
  /\ req[r].pc = "chunk_hash"
  /\ LET f == req[r].file
         overlap == \E q \in Requests \ {r} :
                      req[q].pc = "chunk_hash" /\ req[q].file = f
     IN \E item \in {<<req[r].chunk, req[r].ver>>}
                    \cup (IF overlap THEN {Garbled} ELSE {}) :
          hash' = [hash EXCEPT ![f] = Append(@, item)]
  /\ Goto(r, [req[r] EXCEPT !.pc = "chunk_put"])
  /\ UNCHANGED <<sessionVars, row, meta, usage, storageVars, stale, sent,
                 crashes>>

ChunkPut(r) ==
  /\ req[r].pc = "chunk_put"
  /\ mpu[req[r].file] = "open"
  /\ part' = [part EXCEPT ![req[r].file][req[r].chunk] = req[r].ver]
  /\ Goto(r, [req[r] EXCEPT !.pc = "chunk_row"])
  /\ UNCHANGED <<sessionVars, row, meta, usage, mpu, object, hash, stale,
                 sent, crashes>>

ChunkPutFail(r) ==
  /\ req[r].pc = "chunk_put"
  /\ MayFail \/ mpu[req[r].file] # "open"
  /\ Finish(r)
  /\ UNCHANGED <<sessionVars, row, meta, usage, storageVars, hash, stale,
                 sent, crashes>>

\* Mutant: INSERT OR REPLACE.
ChunkRowReplaces(r) ==
  /\ req[r].pc = "chunk_row"
  /\ row' = [row EXCEPT ![req[r].file][req[r].chunk] = req[r].ver]
  /\ Finish(r)
  /\ UNCHANGED <<sessionVars, meta, usage, storageVars, hash, stale, sent,
                 crashes>>

\* INSERT INTO upload_chunks; UNIQUE(session_id, chunk_number) turns a second
\* copy of a chunk away after its part has replaced the first.
ChunkRow(r) ==
  /\ req[r].pc = "chunk_row"
  /\ LET f == req[r].file
         c == req[r].chunk
     IN \/ /\ row[f][c] = 0
           /\ row' = [row EXCEPT ![f][c] = req[r].ver]
        \/ /\ MayFail \/ row[f][c] # 0
           /\ UNCHANGED row
  /\ Finish(r)
  /\ UNCHANGED <<sessionVars, meta, usage, storageVars, hash, stale, sent,
                 crashes>>

-----------------------------------------------------------------------------
(***************************************************************************)
(* POST /api/uploads/:sessionId/complete                                   *)
(***************************************************************************)

CompleteRead(r, f) ==
  /\ req[r] = Idle
  /\ status[f] = "in_progress"
  /\ \A c \in Chunks : row[f][c] # 0
  /\ OrderlyClients => ~Active(f)
  /\ Goto(r, [pc |-> "complete_hash", file |-> f, rows |-> row[f]])
  /\ UNCHANGED <<sessionVars, row, meta, usage, storageVars, hash, stale,
                 sent, crashes>>

CompleteHash(r) ==
  /\ req[r].pc = "complete_hash"
  /\ LET f == req[r].file
     IN IF hash[f] = NoHash
        THEN Finish(r)
        ELSE Goto(r, [pc |-> "complete_forget", file |-> f,
                      rows |-> req[r].rows, hash |-> hash[f]])
  /\ UNCHANGED <<sessionVars, row, meta, usage, storageVars, hash, stale,
                 sent, crashes>>

CompleteForget(r) ==
  /\ req[r].pc = "complete_forget"
  /\ hash' = [hash EXCEPT ![req[r].file] = NoHash]
  /\ Goto(r, [req[r] EXCEPT !.pc = "complete_put"])
  /\ UNCHANGED <<sessionVars, row, meta, usage, storageVars, stale, sent,
                 crashes>>

\* S3 accepts the completion of an open upload whose parts have the etags the
\* server recorded.
Completable(f, rows) == mpu[f] = "open" /\ part[f] = rows

CompletePut(r) ==
  /\ req[r].pc = "complete_put"
  /\ Completable(req[r].file, req[r].rows)
  /\ mpu' = [mpu EXCEPT ![req[r].file] = "done"]
  /\ object' = [object EXCEPT ![req[r].file] = "present"]
  /\ Goto(r, [req[r] EXCEPT !.pc = "complete_commit"])
  /\ UNCHANGED <<sessionVars, row, meta, usage, part, hash, stale, sent,
                 crashes>>

\* Mutant: a failed CompleteMultipartUpload is logged and ignored.
CompletePutIgnored(r) ==
  /\ req[r].pc = "complete_put"
  /\ MayFail \/ ~Completable(req[r].file, req[r].rows)
  /\ Goto(r, [req[r] EXCEPT !.pc = "complete_commit"])
  /\ UNCHANGED <<sessionVars, row, meta, usage, storageVars, hash, stale,
                 sent, crashes>>

CompletePutFail(r) ==
  /\ req[r].pc = "complete_put"
  /\ MayFail \/ ~Completable(req[r].file, req[r].rows)
  /\ Finish(r)
  /\ UNCHANGED <<sessionVars, row, meta, usage, storageVars, hash, stale,
                 sent, crashes>>

\* The final transaction: the session becomes 'completed' whatever its status
\* is by now, the file row is inserted, and the user row re-read and updated.
CompleteCommit(r) ==
  /\ req[r].pc = "complete_commit"
  /\ LET f == req[r].file
     IN /\ honest[f]
        /\ meta[f] = NoFile
        /\ status' = [status EXCEPT ![f] = "completed"]
        /\ meta' = [meta EXCEPT ![f] = req[r].hash]
        /\ usage' = [u \in Users |-> IF u \in owner[f]
                                     THEN usage[u] + size[f] ELSE usage[u]]
  /\ Finish(r)
  /\ UNCHANGED <<owner, size, honest, expired, uploadId, row, storageVars,
                 hash, stale, sent, crashes>>

\* Size mismatch: the object is removed and the transaction rolled back, the
\* session stays 'in_progress'.
CompleteMismatch(r) ==
  /\ req[r].pc = "complete_commit"
  /\ ~honest[req[r].file]
  /\ \/ object' = [object EXCEPT ![req[r].file] = "removed"]
     \/ MayFail /\ UNCHANGED object
  /\ Finish(r)
  /\ UNCHANGED <<sessionVars, row, meta, usage, mpu, part, hash, stale, sent,
                 crashes>>

CompleteCommitFail(r) ==
  /\ req[r].pc = "complete_commit"
  /\ MayFail \/ meta[req[r].file] # NoFile
  /\ Finish(r)
  /\ UNCHANGED <<sessionVars, row, meta, usage, storageVars, hash, stale,
                 sent, crashes>>

-----------------------------------------------------------------------------
(***************************************************************************)
(* DELETE /api/uploads/:sessionId                                          *)
(***************************************************************************)

CancelRead(r, f) ==
  /\ req[r] = Idle
  /\ status[f] = "in_progress"
  /\ Goto(r, [pc |-> "cancel_abort", file |-> f])
  /\ UNCHANGED <<sessionVars, row, meta, usage, storageVars, hash, stale,
                 sent, crashes>>

\* AbortMultipartUpload of f; a failure is logged and ignored.
Abort(f) ==
  \/ /\ mpu[f] = "open"
     /\ mpu' = [mpu EXCEPT ![f] = "aborted"]
  \/ /\ MayFail \/ mpu[f] # "open"
     /\ UNCHANGED mpu

CancelAbort(r) ==
  /\ req[r].pc = "cancel_abort"
  /\ Abort(req[r].file)
  /\ Goto(r, [req[r] EXCEPT !.pc = "cancel_commit"])
  /\ UNCHANGED <<sessionVars, row, meta, usage, part, object, hash, stale,
                 sent, crashes>>

\* The UPDATE names the session only, not the status read before.
CancelCommit(r) ==
  /\ req[r].pc = "cancel_commit"
  /\ \/ /\ status' = [status EXCEPT ![req[r].file] = "canceled"]
        /\ Goto(r, [req[r] EXCEPT !.pc = "cancel_forget"])
     \/ /\ MayFail
        /\ UNCHANGED status
        /\ Finish(r)
  /\ UNCHANGED <<owner, size, honest, expired, uploadId, row, meta, usage,
                 storageVars, hash, stale, sent, crashes>>

CancelForget(r) ==
  /\ req[r].pc = "cancel_forget"
  /\ hash' = [hash EXCEPT ![req[r].file] = NoHash]
  /\ Finish(r)
  /\ UNCHANGED <<sessionVars, row, meta, usage, storageVars, stale, sent,
                 crashes>>

-----------------------------------------------------------------------------
(***************************************************************************)
(* DELETE /api/files/:fileId (the primary provider's copy; the copies of   *)
(* other providers are not modelled here)                                  *)
(***************************************************************************)

DeleteRead(r, f) ==
  /\ req[r] = Idle
  /\ meta[f] # NoFile
  /\ Goto(r, [pc |-> "delete_remove", file |-> f])
  /\ UNCHANGED <<sessionVars, row, meta, usage, storageVars, hash, stale,
                 sent, crashes>>

\* A location whose object cannot be removed is marked and the deletion goes on.
DeleteRemove(r) ==
  /\ req[r].pc = "delete_remove"
  /\ \/ object' = [object EXCEPT ![req[r].file] = "deleted"]
     \/ MayFail /\ UNCHANGED object
  /\ Goto(r, [req[r] EXCEPT !.pc = "delete_commit"])
  /\ UNCHANGED <<sessionVars, row, meta, usage, mpu, part, hash, stale, sent,
                 crashes>>

\* UpdateStorageUsage writes the total it read, less the size, or 0.
Less(n, d) == IF d > n THEN 0 ELSE n - d

\* Mutant: the rows affected by the DELETE do not matter.
DeleteCommitTwice(r) ==
  /\ req[r].pc = "delete_commit"
  /\ LET f == req[r].file
     IN /\ meta' = [meta EXCEPT ![f] = NoFile]
        /\ usage' = [u \in Users |-> IF u \in owner[f]
                                     THEN Less(usage[u], size[f])
                                     ELSE usage[u]]
  /\ Finish(r)
  /\ UNCHANGED <<sessionVars, row, storageVars, hash, stale, sent, crashes>>

DeleteCommit(r) ==
  /\ req[r].pc = "delete_commit"
  /\ LET f == req[r].file
     IN /\ meta[f] # NoFile
        /\ meta' = [meta EXCEPT ![f] = NoFile]
        /\ usage' = [u \in Users |-> IF u \in owner[f]
                                     THEN Less(usage[u], size[f])
                                     ELSE usage[u]]
  /\ Finish(r)
  /\ UNCHANGED <<sessionVars, row, storageVars, hash, stale, sent, crashes>>

\* The transaction read the row when it began, so it fails when another
\* deletion has committed since.
DeleteFail(r) ==
  /\ req[r].pc = "delete_commit"
  /\ MayFail \/ meta[req[r].file] = NoFile
  /\ Finish(r)
  /\ UNCHANGED <<sessionVars, row, meta, usage, storageVars, hash, stale,
                 sent, crashes>>

-----------------------------------------------------------------------------
(***************************************************************************)
(* abortAbandonedMultipartUploads, time and crashes                        *)
(***************************************************************************)

\* Mutant: the query forgets abandoned sessions.
CanceledSessions == {f \in Files : status[f] = "canceled" /\ uploadId[f]}

StaleSessions ==
  {f \in Files : status[f] \in {"abandoned", "canceled"} /\ uploadId[f]}

StaleScan ==
  /\ \A f \in Files : stale[f] = "no"
  /\ StaleSessions # {}
  /\ stale' = [f \in Files |-> IF f \in StaleSessions THEN "todo" ELSE "no"]
  /\ UNCHANGED <<sessionVars, row, meta, usage, storageVars, hash, req, sent,
                 crashes>>

StaleAbort(f) ==
  /\ stale[f] = "todo"
  /\ Abort(f)
  /\ stale' = [stale EXCEPT ![f] = "aborted"]
  /\ UNCHANGED <<sessionVars, row, meta, usage, part, object, hash, req, sent,
                 crashes>>

\* storage_upload_id becomes NULL whether the abort succeeded or not.
StaleClear(f) ==
  /\ stale[f] = "aborted"
  /\ uploadId' = [uploadId EXCEPT ![f] = FALSE]
  /\ stale' = [stale EXCEPT ![f] = "no"]
  /\ UNCHANGED <<status, owner, size, honest, expired, row, meta, usage,
                 storageVars, hash, req, sent, crashes>>

Expire(f) ==
  /\ status[f] = "in_progress"
  /\ ~expired[f]
  /\ expired' = [expired EXCEPT ![f] = TRUE]
  /\ UNCHANGED <<status, owner, size, honest, uploadId, row, meta, usage,
                 storageVars, hash, req, stale, sent, crashes>>

\* The process dies: handlers, hash states and the job's list are gone, an open
\* transaction is rolled back.
Crash ==
  /\ crashes < MaxCrashes
  /\ crashes' = crashes + 1
  /\ req' = [r \in Requests |-> Idle]
  /\ hash' = [f \in Files |-> NoHash]
  /\ stale' = [f \in Files |-> "no"]
  /\ UNCHANGED <<sessionVars, row, meta, usage, storageVars, sent>>

-----------------------------------------------------------------------------
Arrive(r) ==
  \E f \in Files :
    \/ \E u \in Users, n \in Sizes : CreateCheck(r, u, f, n)
    \/ \E c \in Chunks : ChunkRead(r, f, c)
    \/ CompleteRead(r, f)
    \/ CancelRead(r, f)
    \/ DeleteRead(r, f)

Proceed(r) ==
  \/ CreateCommit(r) \/ CreateFail(r)
  \/ ChunkHash(r) \/ ChunkPut(r) \/ ChunkPutFail(r) \/ ChunkRow(r)
  \/ CompleteHash(r) \/ CompleteForget(r) \/ CompletePut(r)
  \/ CompletePutFail(r) \/ CompleteCommit(r) \/ CompleteMismatch(r)
  \/ CompleteCommitFail(r)
  \/ CancelAbort(r) \/ CancelCommit(r) \/ CancelForget(r)
  \/ DeleteRemove(r) \/ DeleteCommit(r) \/ DeleteFail(r)

StaleJob == StaleScan \/ \E f \in Files : StaleAbort(f) \/ StaleClear(f)

Next ==
  \/ \E r \in Requests : Arrive(r) \/ Proceed(r)
  \/ StaleJob
  \/ \E f \in Files : Expire(f)
  \/ Crash

Spec == Init /\ [][Next]_vars

\* A handler that has begun runs on, and the cleanup job runs every 30 minutes
\* for as long as the process lives.  Clients owe the system nothing.
Fairness ==
  /\ \A r \in Requests : WF_vars(Proceed(r))
  /\ WF_vars(StaleJob)

FairSpec == Spec /\ Fairness

-----------------------------------------------------------------------------
(***************************************************************************)
(* Properties                                                              *)
(***************************************************************************)

\* A user never has more than MaxInProgress sessions in progress, however many
\* init, complete and cancel requests overlap: the comment on the count in
\* CreateUploadSession ("we cannot race past the cap").
SessionCap ==
  \A u \in Users : Cardinality(InProgress(u)) <= MaxInProgress

\* A file row never coexists with a session that still accepts chunks, or that
\* can be abandoned later: once CompleteUpload has committed, the session is
\* closed for good, whoever else was working on it.
FileClosesSession ==
  \A f \in Files : meta[f] # NoFile => status[f] \in {"completed", "canceled"}

\* The metadata of a file has its object under it, unless a DeleteFile has taken
\* the object away and not (yet) committed.  No other handler, and no crash,
\* leaves a listed file without bytes.
DanglingOnlyByDelete ==
  \A f \in Files : meta[f] # NoFile => object[f] \in {"present", "deleted"}

\* The object of a file consists of exactly the parts whose etags are recorded
\* in upload_chunks, even when chunks were sent more than once and a late copy
\* overwrote a part before or during completion.
ObjectIsRecorded ==
  \A f \in Files :
    meta[f] # NoFile /\ object[f] = "present" => part[f] = row[f]

\* stored_blob_sha256sum is the hash of the complete S3 object (the column's
\* comment in unified_schema.sql): the hash state of the session took every
\* part of the object once, in order, and nothing else.
StoredHashIsObjectHash ==
  \A f \in Files :
    meta[f] # NoFile =>
      meta[f] = [i \in 1 .. NumChunks |-> <<i - 1, part[f][i - 1]>>]

FilesOf(u) == {f \in Files : meta[f] # NoFile /\ u \in owner[f]}

\* users.total_storage_bytes is the sum of the sizes of the user's files,
\* whatever completions and deletions overlap, fail or die in between.
UsageIsSumOfFiles ==
  \A u \in Users :
    usage[u] = MapThenSumSet(LAMBDA f : size[f], FilesOf(u))

\* A file row appears only over an object that is there, for a session that
\* was not completed before: two overlapping CompleteUpload calls, or one that
\* overlaps a deletion, cannot bring a deleted file back.
NoResurrection ==
  [][\A f \in Files :
       meta[f] = NoFile /\ meta'[f] # NoFile =>
         object[f] = "present" /\ status[f] # "completed"]_vars

\* The parts of an abandoned or canceled upload do not stay in storage for ever:
\* abortAbandonedMultipartUploads gets to them (if storage answers), or the
\* completion that raced with the cancellation does.
StalePartsReclaimed ==
  \A f \in Files :
    status[f] \in {"abandoned", "canceled"} /\ mpu[f] = "open"
      ~> mpu[f] # "open"

\* The object of f is assembled and r is about to commit the file.
Committing(r, f) == req[r].pc = "complete_commit" /\ req[r].file = f

Store == INSTANCE FileStore
           WITH shelf <- [u \in Users |-> {<<f, size[f]>> : f \in FilesOf(u)}],
                spent <- {f \in Files : mpu[f] = "done"
                                        /\ \A r \in Requests : ~Committing(r, f)},
                charged <- usage

\* Uploads and deletions behave like a store in which a file and its charge
\* come and go in one step and a file_id is used once: no overlap, failure or
\* crash between the reads, the storage calls and the transactions shows.
FileStoreSpec == Store!Spec
=============================================================================
