------------------------------ MODULE Removal ------------------------------
(***************************************************************************)
(* How the files of one user come and go: the end of an upload, deletion   *)
(* by the owner and by an administrator, deletion of the user, and the     *)
(* sweep that reconciles the first provider with the database              *)
(* (handlers/uploads.go, admin.go, admin_task_runner.go).  Every file has  *)
(* size one.  Module Uploads has the steps of an upload before its last,   *)
(* and module Replicas those of a copy task.                               *)
(***************************************************************************)
EXTENDS Integers, FiniteSets

CONSTANTS
  Blobs,      \* storage_ids; each is made for one upload session
  Deleters,   \* requests in progress, of the owner or of administrators
  MaxFaults   \* bound: failures of storage or database, and crashes

ASSUME RemovalAssumption == IsFiniteSet(Blobs) /\ MaxFaults \in Nat

VARIABLES
  standing,   \* the user's row: approved, and deleted_at set
  session,    \* upload_sessions: status of the row of a storage_id
  listed,     \* file_metadata: storage_ids of the user's files
  located,    \* file_storage_locations: active rows
  stored,     \* objects at the providers
  aged,       \* storage_ids whose first object is older than an hour
  counted,    \* users.total_storage_bytes
  work,       \* the requests in progress
  sweep,      \* removeOrphanedStorageObjects
  faults,     \* failures so far
  cut,        \* history: files of which a deletion has removed an object
  byAdmin     \* history: files an administrator deleted

removalVars ==
  <<standing, session, listed, located, stored, aged, counted, work, sweep,
    faults, cut, byAdmin>>

Providers == {"primary", "secondary"}
NoWork == [pc |-> "idle", files |-> {}, left |-> {}]
NoSweep == [pc |-> "idle", referenced |-> {}, left |-> {}]

WorkSteps == {"idle", "record", "remove", "commit", "adminRemove", "userRemove"}

RemovalTypeOK ==
  /\ standing \in [approved: BOOLEAN, gone: BOOLEAN]
  /\ session \in [Blobs -> {"none", "open", "closing", "completed"}]
  /\ listed \subseteq Blobs
  /\ located \subseteq Blobs \X Providers
  /\ stored \subseteq Blobs \X Providers
  /\ aged \subseteq Blobs
  /\ counted \in Nat
  /\ work \in [Deleters -> [pc: WorkSteps, files: SUBSET Blobs,
                            left: SUBSET (Blobs \X Providers)]]
  /\ sweep \in [pc: {"idle", "sessions", "list", "remove"},
                referenced: SUBSET Blobs, left: SUBSET Blobs]
  /\ faults \in 0 .. MaxFaults
  /\ cut \subseteq Blobs
  /\ byAdmin \in Nat

RemovalInit ==
  /\ standing = [approved |-> FALSE, gone |-> FALSE]
  /\ session = [b \in Blobs |-> "none"]
  /\ listed = {} /\ located = {} /\ stored = {} /\ aged = {}
  /\ counted = 0
  /\ work = [r \in Deleters |-> NoWork]
  /\ sweep = NoSweep
  /\ faults = 0
  /\ cut = {} /\ byAdmin = 0

Fault == faults < MaxFaults /\ faults' = faults + 1
BeginWork(r, pc, files, left) ==
  /\ work[r] = NoWork
  /\ work' = [work EXCEPT ![r] = [pc |-> pc, files |-> files, left |-> left]]
End(r) == work' = [work EXCEPT ![r] = NoWork]

\* GetUserByUsername leaves deleted users out.
Exists == ~standing.gone

\* RequireApproved, when a request comes in.
Approved == Exists /\ standing.approved

\* A deletion removes an object; that it is not there is no error.
Removed(o) ==
  /\ stored' = stored \ {o}
  /\ aged' = IF o[2] = "primary" THEN aged \ {o[1]} ELSE aged
  /\ cut' = cut \cup {o[1]}

\* UpdateStorageUsage
Lessened(n) == IF n > counted THEN 0 ELSE counted - n

-----------------------------------------------------------------------------
(* Uploads and copies.                                                     *)

SessionMade(b) ==
  /\ Approved
  /\ session[b] = "none"
  /\ session' = [session EXCEPT ![b] = "open"]
  /\ UNCHANGED <<standing, listed, located, stored, aged, counted, work,
                 sweep, faults, cut, byAdmin>>

\* CompleteUpload takes the hashes of the session, which cannot complete again,
\* and has the parts assembled before the transaction.
Assembled(r, b) ==
  /\ Approved
  /\ session[b] = "open"
  /\ BeginWork(r, "record", {b}, {})
  /\ session' = [session EXCEPT ![b] = "closing"]
  /\ stored' = stored \cup {<<b, "primary">>}
  /\ UNCHANGED <<standing, listed, located, aged, counted, sweep, faults, cut,
                 byAdmin>>

\* Mutant: the transaction does not ask for the user.
RecordableAnyway == TRUE

\* The transaction reads the user's row to add to the usage.
Recordable == Exists

\* CompleteUpload's transaction.
Recorded(r) ==
  /\ work[r].pc = "record"
  /\ Recordable
  /\ \E b \in work[r].files :
       /\ session' = [session EXCEPT ![b] = "completed"]
       /\ listed' = listed \cup {b}
       /\ located' = located \cup {<<b, "primary">>}
  /\ counted' = counted + 1
  /\ End(r)
  /\ UNCHANGED <<standing, stored, aged, sweep, faults, cut, byAdmin>>

\* ... which may fail, and then leaves the object.
RecordFails(r) ==
  /\ work[r].pc = "record"
  /\ Fault \/ (~Exists /\ UNCHANGED faults)
  /\ End(r)
  /\ UNCHANGED <<standing, session, listed, located, stored, aged, counted,
                 sweep, cut, byAdmin>>

\* A copy task that met no deletion.
Copied(b) ==
  /\ b \in listed /\ <<b, "primary">> \in stored
  /\ stored' = stored \cup {<<b, "secondary">>}
  /\ located' = located \cup {<<b, "secondary">>}
  /\ UNCHANGED <<standing, session, listed, aged, counted, work, sweep,
                 faults, cut, byAdmin>>

-----------------------------------------------------------------------------
(* Deletion by the owner.                                                  *)

\* The locations to delete from; without an active row it is the first
\* provider.
Locations(b) ==
  LET active == {l \in located : l[1] = b}
  IN IF active = {} THEN {<<b, "primary">>} ELSE active

\* DeleteFile reads the row and the locations.
FileRead(r, b) ==
  /\ Approved
  /\ b \in listed
  /\ BeginWork(r, "remove", {b}, Locations(b))
  /\ UNCHANGED <<standing, session, listed, located, stored, aged, counted,
                 sweep, faults, cut, byAdmin>>

\* RemoveObjectAll, one provider after the other.  The location is marked as
\* deleted or as failed at once, outside of the transaction.
ObjectRemoved(r, o) ==
  /\ work[r].pc = "remove" /\ o \in work[r].left
  /\ \/ Removed(o) /\ UNCHANGED faults
     \/ o \in located /\ Fault /\ UNCHANGED <<stored, aged, cut>>
  /\ located' = located \ {o}
  /\ work' = [work EXCEPT ![r].left = @ \ {o},
                          ![r].pc = IF work[r].left = {o} THEN "commit" ELSE @]
  /\ UNCHANGED <<standing, session, listed, counted, sweep, byAdmin>>

\* The row goes, its locations with it, and the usage becomes less.  The
\* transaction fails when another took the row or the user is deleted.
DeletedByOwner(r) ==
  /\ work[r].pc = "commit"
  /\ Exists /\ work[r].files \subseteq listed
  /\ listed' = listed \ work[r].files
  /\ located' = {l \in located : l[1] \notin work[r].files}
  /\ counted' = Lessened(1)
  /\ End(r)
  /\ UNCHANGED <<standing, session, stored, aged, sweep, faults, cut,
                 byAdmin>>

-----------------------------------------------------------------------------
(* What administrators do.                                                 *)

\* AdminDeleteFile
FileReadByAdmin(r, b) ==
  /\ b \in listed
  /\ BeginWork(r, "adminRemove", {b}, {<<b, "primary">>})
  /\ UNCHANGED <<standing, session, listed, located, stored, aged, counted,
                 sweep, faults, cut, byAdmin>>

\* DeleteUser reads the rows of the files.
UserRead(r) ==
  /\ BeginWork(r, "userRemove", listed, {<<b, "primary">> : b \in listed})
  /\ UNCHANGED <<standing, session, listed, located, stored, aged, counted,
                 sweep, faults, cut, byAdmin>>

\* Both remove objects from the first provider alone.
ObjectRemovedByAdmin(r, o) ==
  /\ work[r].pc \in {"adminRemove", "userRemove"} /\ o \in work[r].left
  /\ Removed(o)
  /\ work' = [work EXCEPT ![r].left = @ \ {o}]
  /\ UNCHANGED <<standing, session, listed, located, counted, sweep, faults,
                 byAdmin>>

\* What the commit of an administrator deletes; usage and approval stay.
GoneByAdmin(files) ==
  /\ listed' = listed \ files
  /\ located' = {l \in located : l[1] \notin files}
  /\ byAdmin' = byAdmin + Cardinality(files)
  /\ UNCHANGED counted

FileDeletedByAdmin(r) ==
  /\ work[r].pc = "adminRemove" /\ work[r].left = {}
  /\ work[r].files \subseteq listed
  /\ GoneByAdmin(work[r].files)
  /\ End(r)
  /\ UNCHANGED <<standing, session, stored, aged, sweep, faults, cut>>

\* The transaction fails when the files are no longer those it read.
UserDeleted(r) ==
  /\ work[r].pc = "userRemove" /\ work[r].left = {}
  /\ work[r].files = listed
  /\ GoneByAdmin(work[r].files)
  /\ standing' = [standing EXCEPT !.gone = TRUE]
  /\ End(r)
  /\ UNCHANGED <<session, stored, aged, sweep, faults, cut>>

\* A removal, a statement or the commit fails: the rows are as before, the
\* objects are not.
DeletionFails(r) ==
  /\ work[r].pc \in WorkSteps \ {"idle", "record"}
  /\ \/ Fault
     \/ UNCHANGED faults /\ ~(work[r].files \subseteq listed)
     \/ UNCHANGED faults /\ work[r].pc = "userRemove" /\ work[r].files # listed
     \/ UNCHANGED faults /\ work[r].pc = "commit" /\ ~Exists
  /\ End(r)
  /\ UNCHANGED <<standing, session, listed, located, stored, aged, counted,
                 sweep, cut, byAdmin>>

UserApproved ==
  /\ Exists
  /\ standing' = [standing EXCEPT !.approved = TRUE]
  /\ UNCHANGED <<session, listed, located, stored, aged, counted, work, sweep,
                 faults, cut, byAdmin>>

UserRevoked ==
  /\ Approved
  /\ standing' = [standing EXCEPT !.approved = FALSE]
  /\ UNCHANGED <<session, listed, located, stored, aged, counted, work, sweep,
                 faults, cut, byAdmin>>

\* UpdateUser finds deleted users too.
UserUpdated ==
  /\ standing' \in [approved: BOOLEAN, gone: {standing.gone}]
  /\ UNCHANGED <<session, listed, located, stored, aged, counted, work, sweep,
                 faults, cut, byAdmin>>

-----------------------------------------------------------------------------
(* What runs by itself.                                                    *)

\* removeOrphanedStorageObjects reads the storage_ids of files,
SweepBegins ==
  /\ sweep.pc = "idle"
  /\ sweep' = [NoSweep EXCEPT !.pc = "sessions", !.referenced = listed]
  /\ UNCHANGED <<standing, session, listed, located, stored, aged, counted,
                 work, faults, cut, byAdmin>>

\* Mutant: a session protects its object only while it is open.
OpenSessions == {b \in Blobs : session[b] = "open"}

\* ... those of upload sessions whatever their status, and rows of sessions are
\* never deleted,
ProtectedBySession == {b \in Blobs : session[b] # "none"}

SweepReadsSessions ==
  /\ sweep.pc = "sessions"
  /\ sweep' = [sweep EXCEPT !.pc = "list",
                            !.referenced = @ \cup ProtectedBySession]
  /\ UNCHANGED <<standing, session, listed, located, stored, aged, counted,
                 work, faults, cut, byAdmin>>

\* ... and lists the first provider.
SweepLists ==
  /\ sweep.pc = "list"
  /\ LET left == {b \in Blobs : <<b, "primary">> \in stored} \ sweep.referenced
     IN sweep' = IF left = {} THEN NoSweep
                 ELSE [sweep EXCEPT !.pc = "remove", !.left = left]
  /\ UNCHANGED <<standing, session, listed, located, stored, aged, counted,
                 work, faults, cut, byAdmin>>

\* What is not referenced and old enough is removed.
SweepRemoves(b) ==
  /\ sweep.pc = "remove" /\ b \in sweep.left
  /\ sweep' = IF sweep.left = {b} THEN NoSweep ELSE [sweep EXCEPT !.left = @ \ {b}]
  /\ stored' = IF b \in aged THEN stored \ {<<b, "primary">>} ELSE stored
  /\ aged' = aged \ {b}
  /\ UNCHANGED <<standing, session, listed, located, counted, work, faults,
                 cut, byAdmin>>

\* A query or the listing fails.
SweepFails ==
  /\ sweep.pc \in {"sessions", "list"}
  /\ Fault
  /\ sweep' = NoSweep
  /\ UNCHANGED <<standing, session, listed, located, stored, aged, counted,
                 work, cut, byAdmin>>

\* An hour passes, which is longer than a sweep takes.
Aged(b) ==
  /\ sweep.pc = "idle"
  /\ <<b, "primary">> \in stored
  /\ aged' = aged \cup {b}
  /\ UNCHANGED <<standing, session, listed, located, stored, counted, work,
                 sweep, faults, cut, byAdmin>>

\* The server restarts.
ServerCrashes ==
  /\ Fault
  /\ work' = [r \in Deleters |-> NoWork]
  /\ sweep' = NoSweep
  /\ UNCHANGED <<standing, session, listed, located, stored, aged, counted,
                 cut, byAdmin>>

SweepStep ==
  \/ SweepBegins \/ SweepReadsSessions \/ SweepLists
  \/ \E b \in Blobs : SweepRemoves(b)

RemovalNext ==
  \/ \E b \in Blobs : SessionMade(b) \/ Copied(b) \/ Aged(b)
  \/ \E r \in Deleters :
       \/ \E b \in Blobs : Assembled(r, b) \/ FileRead(r, b) \/ FileReadByAdmin(r, b)
       \/ \E o \in Blobs \X Providers : ObjectRemoved(r, o) \/ ObjectRemovedByAdmin(r, o)
       \/ Recorded(r) \/ RecordFails(r) \/ DeletedByOwner(r)
       \/ UserRead(r) \/ FileDeletedByAdmin(r) \/ UserDeleted(r) \/ DeletionFails(r)
  \/ UserApproved \/ UserRevoked \/ UserUpdated
  \/ SweepStep \/ SweepFails \/ ServerCrashes

RemovalSpec == RemovalInit /\ [][RemovalNext]_removalVars

\* The ticker starts a sweep every half hour, and hours pass between sweeps.
RemovalFairSpec ==
  /\ RemovalSpec
  /\ WF_removalVars(SweepStep)
  /\ \A b \in Blobs : SF_removalVars(Aged(b))

-----------------------------------------------------------------------------
(* Properties.                                                             *)

(* A file in the list has its object at the first provider unless a        *)
(* deletion of that file has begun: the sweep, which reads files and       *)
(* sessions at different times, takes none away                            *)
(* (handlers/admin_task_runner.go:724).                                    *)
ListedHasObject == \A b \in listed : <<b, "primary">> \in stored \/ b \in cut

(* The usage that quota and meter go by is the number of the user's files  *)
(* and of those that an administrator deleted, whatever deletions overlap, *)
(* fail half way and are repeated (handlers/uploads.go:1172, admin.go:1345).*)
CountedIsExplained == counted = Cardinality(listed) + byAdmin

(* A deleted user has no file, although uploads were completing and        *)
(* deletions under way when the user was deleted (handlers/admin.go:581).  *)
DeletedHasNoFiles == standing.gone => listed = {}

RemovalHolds == ListedHasObject /\ CountedIsExplained /\ DeletedHasNoFiles

\* The upload behind an object came to nothing and cannot be completed.
Orphaned(b) ==
  /\ <<b, "primary">> \in stored
  /\ session[b] = "closing"
  /\ \A r \in Deleters : b \notin work[r].files

(* An object whose upload came to nothing is removed sometime              *)
(* (handlers/admin_task_runner.go:638).                                    *)
OrphansReclaimed == \A b \in Blobs : Orphaned(b) ~> <<b, "primary">> \notin stored

=============================================================================
