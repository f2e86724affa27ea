---------------------------- MODULE Files_proofs ----------------------------
(***************************************************************************)
(* What holds of the files of a user for any storage_ids, any number of    *)
(* requests in progress and any number of failures; of the chunks a file   *)
(* is sent and read in, for any length of file, chunk, overhead and        *)
(* padding; and of these two machines beside the uploads of                *)
(* Uploads_proofs.                                                         *)
(***************************************************************************)
EXTENDS MCFiles, Uploads_proofs

-----------------------------------------------------------------------------
(***************************************************************************)
(* Types                                                                   *)
(***************************************************************************)

WorkRecord == [pc: WorkSteps, files: SUBSET Blobs,
               left: SUBSET (Blobs \X Providers)]
SweepRecord == [pc: {"idle", "sessions", "list", "remove"},
                referenced: SUBSET Blobs, left: SUBSET Blobs]

LEMMA NoWorkTyped == NoWork \in WorkRecord
  BY DEF NoWork, WorkRecord, WorkSteps

LEMMA NoSweepTyped == NoSweep \in SweepRecord
  BY DEF NoSweep, SweepRecord

LEMMA InitTypes == RemovalInit => RemovalTypeOK
  BY NoWorkTyped, NoSweepTyped, RemovalAssumption
  DEF RemovalInit, RemovalTypeOK, WorkRecord, SweepRecord

LEMMA EndTypes ==
  ASSUME RemovalTypeOK, NEW r \in Deleters, End(r)
  PROVE  work' \in [Deleters -> WorkRecord]
  BY NoWorkTyped DEF RemovalTypeOK, End, WorkRecord

LEMMA BeginTypes ==
  ASSUME RemovalTypeOK, NEW r \in Deleters, NEW pc \in WorkSteps,
         NEW files \in SUBSET Blobs,
         NEW left \in SUBSET (Blobs \X Providers),
         BeginWork(r, pc, files, left)
  PROVE  work' \in [Deleters -> WorkRecord]
<1>1. [pc |-> pc, files |-> files, left |-> left] \in WorkRecord
  BY DEF WorkRecord
<1>2. QED BY <1>1 DEF RemovalTypeOK, BeginWork, WorkRecord

LEMMA LocationsTyped ==
  ASSUME RemovalTypeOK, NEW b \in Blobs
  PROVE  Locations(b) \in SUBSET (Blobs \X Providers)
  BY DEF RemovalTypeOK, Locations, Providers

LEMMA LessenedTyped ==
  ASSUME RemovalTypeOK
  PROVE  Lessened(1) \in Nat
  BY DEF RemovalTypeOK, Lessened

LEMMA StepTypes ==
  ASSUME RemovalTypeOK, RemovalNext
  PROVE  RemovalTypeOK'
<1>1. ASSUME NEW b \in Blobs, SessionMade(b) \/ Copied(b) \/ Aged(b)
      PROVE  RemovalTypeOK'
  BY <1>1 DEF RemovalTypeOK, SessionMade, Copied, Aged, Providers
<1>2. ASSUME NEW r \in Deleters, NEW b \in Blobs, Assembled(r, b)
      PROVE  RemovalTypeOK'
  <2>1. {b} \in SUBSET Blobs /\ {} \in SUBSET (Blobs \X Providers)
        /\ "record" \in WorkSteps
    BY DEF WorkSteps
  <2>2. work' \in [Deleters -> WorkRecord]
    BY <1>2, <2>1, BeginTypes DEF Assembled
  <2>3. QED BY <1>2, <2>2 DEF RemovalTypeOK, Assembled, Providers, WorkRecord
<1>3. ASSUME NEW r \in Deleters, NEW b \in Blobs,
             FileRead(r, b) \/ FileReadByAdmin(r, b)
      PROVE  RemovalTypeOK'
  <2>1. /\ {b} \in SUBSET Blobs
        /\ {<<b, "primary">>} \in SUBSET (Blobs \X Providers)
        /\ Locations(b) \in SUBSET (Blobs \X Providers)
        /\ {"remove", "adminRemove"} \subseteq WorkSteps
    BY LocationsTyped DEF Providers, WorkSteps
  <2>2. work' \in [Deleters -> WorkRecord]
    <3>1. CASE FileRead(r, b)
      BY <3>1, <2>1, BeginTypes DEF FileRead
    <3>2. CASE FileReadByAdmin(r, b)
      BY <3>2, <2>1, BeginTypes DEF FileReadByAdmin
    <3>3. QED BY <1>3, <3>1, <3>2
  <2>3. QED
    BY <1>3, <2>2 DEF RemovalTypeOK, FileRead, FileReadByAdmin, WorkRecord
<1>4. ASSUME NEW r \in Deleters, UserRead(r)
      PROVE  RemovalTypeOK'
  <2>1. /\ listed \in SUBSET Blobs
        /\ {<<b, "primary">> : b \in listed} \in SUBSET (Blobs \X Providers)
        /\ "userRemove" \in WorkSteps
    BY DEF Providers, WorkSteps, RemovalTypeOK
  <2>2. work' \in [Deleters -> WorkRecord]
    BY <1>4, <2>1, BeginTypes DEF UserRead
  <2>3. QED BY <1>4, <2>2 DEF RemovalTypeOK, UserRead, WorkRecord
<1>5. ASSUME NEW r \in Deleters, NEW o \in Blobs \X Providers,
             ObjectRemoved(r, o) \/ ObjectRemovedByAdmin(r, o)
      PROVE  RemovalTypeOK'
  <2>1. work' \in [Deleters -> WorkRecord]
    BY <1>5 DEF RemovalTypeOK, ObjectRemoved, ObjectRemovedByAdmin, WorkRecord,
                WorkSteps
  <2>2. /\ stored' \subseteq Blobs \X Providers
        /\ located' \subseteq Blobs \X Providers
        /\ cut' \subseteq Blobs /\ aged' \subseteq Blobs
        /\ faults' \in 0 .. MaxFaults
    BY <1>5, RemovalAssumption
    DEF RemovalTypeOK, ObjectRemoved, ObjectRemovedByAdmin, Removed, Fault
  <2>3. QED
    BY <1>5, <2>1, <2>2
    DEF RemovalTypeOK, ObjectRemoved, ObjectRemovedByAdmin, WorkRecord
<1>6. ASSUME NEW r \in Deleters, Recorded(r) \/ RecordFails(r)
      PROVE  RemovalTypeOK'
  <2>1. work' \in [Deleters -> WorkRecord]
    BY <1>6, EndTypes DEF Recorded, RecordFails
  <2>2. QED
    BY <1>6, <2>1, RemovalAssumption
    DEF RemovalTypeOK, Recorded, RecordFails, Fault, Providers, WorkRecord
<1>7. ASSUME NEW r \in Deleters, DeletedByOwner(r)
      PROVE  RemovalTypeOK'
  BY <1>7, EndTypes, LessenedTyped
  DEF RemovalTypeOK, DeletedByOwner, WorkRecord
<1>8. ASSUME NEW r \in Deleters,
             FileDeletedByAdmin(r) \/ UserDeleted(r) \/ DeletionFails(r)
      PROVE  RemovalTypeOK'
  <2>1. work' \in [Deleters -> WorkRecord]
    BY <1>8, EndTypes DEF FileDeletedByAdmin, UserDeleted, DeletionFails
  <2>2. byAdmin' \in Nat
    <3>1. /\ IsFiniteSet(work[r].files)
          /\ Cardinality(work[r].files) \in Nat
      BY RemovalAssumption, FS_Subset, FS_CardinalityType DEF RemovalTypeOK
    <3>2. QED
      BY <1>8, <3>1 DEF RemovalTypeOK, FileDeletedByAdmin, UserDeleted,
                        DeletionFails, GoneByAdmin
  <2>3. /\ listed' \subseteq Blobs
        /\ located' \subseteq Blobs \X Providers
        /\ standing' \in [approved: BOOLEAN, gone: BOOLEAN]
    BY <1>8
    DEF RemovalTypeOK, FileDeletedByAdmin, UserDeleted, DeletionFails,
        GoneByAdmin
  <2>5. faults' \in 0 .. MaxFaults
    BY <1>8, RemovalAssumption
    DEF RemovalTypeOK, FileDeletedByAdmin, UserDeleted, DeletionFails, Fault
  <2>4. UNCHANGED <<session, stored, aged, sweep, cut, counted>>
    BY <1>8 DEF FileDeletedByAdmin, UserDeleted, DeletionFails, GoneByAdmin
  <2>6. QED BY <2>1, <2>2, <2>3, <2>4, <2>5 DEF RemovalTypeOK, WorkRecord
<1>9. ASSUME UserApproved \/ UserRevoked \/ UserUpdated
      PROVE  RemovalTypeOK'
  BY <1>9 DEF RemovalTypeOK, UserApproved, UserRevoked, UserUpdated
<1>10. ASSUME SweepStep \/ SweepFails
       PROVE  RemovalTypeOK'
  <2>1. sweep' \in SweepRecord
    <3>1. sweep \in SweepRecord /\ listed \in SUBSET Blobs
      BY DEF RemovalTypeOK, SweepRecord
    <3>2. CASE SweepBegins
      BY <3>1, <3>2, NoSweepTyped DEF SweepBegins, SweepRecord
    <3>3. CASE SweepReadsSessions
      <4>1. ProtectedBySession \in SUBSET Blobs
        BY DEF ProtectedBySession
      <4>2. QED BY <3>1, <3>3, <4>1 DEF SweepReadsSessions, SweepRecord
    <3>4. CASE SweepLists
      BY <3>1, <3>4, NoSweepTyped DEF SweepLists, SweepRecord
    <3>5. ASSUME NEW b \in Blobs, SweepRemoves(b)
          PROVE  sweep' \in SweepRecord
      BY <3>1, <3>5, NoSweepTyped DEF SweepRemoves, SweepRecord
    <3>6. CASE SweepFails
      BY <3>6, NoSweepTyped DEF SweepFails
    <3>7. QED BY <1>10, <3>2, <3>3, <3>4, <3>5, <3>6 DEF SweepStep
  <2>2. QED
    BY <1>10, <2>1, RemovalAssumption
    DEF RemovalTypeOK, SweepStep, SweepBegins, SweepReadsSessions, SweepLists,
        SweepRemoves, SweepFails, SweepRecord, Fault
<1>11. ASSUME ServerCrashes
       PROVE  RemovalTypeOK'
  BY <1>11, NoWorkTyped, NoSweepTyped, RemovalAssumption
  DEF RemovalTypeOK, ServerCrashes, Fault, WorkRecord, SweepRecord
<1>12. QED
  BY <1>1, <1>2, <1>3, <1>4, <1>5, <1>6, <1>7, <1>8, <1>9, <1>10, <1>11
  DEF RemovalNext

(* Every variable of the files of a user keeps its type.                   *)
THEOREM RemovalTypeCorrect == RemovalSpec => []RemovalTypeOK
<1>1. ASSUME RemovalTypeOK, [RemovalNext]_removalVars
      PROVE  RemovalTypeOK'
  <2>1. CASE RemovalNext
    BY <1>1, <2>1, StepTypes
  <2>2. CASE UNCHANGED removalVars
    BY <1>1, <2>2 DEF RemovalTypeOK, removalVars
  <2>3. QED BY <1>1, <2>1, <2>2
<1>2. QED BY InitTypes, <1>1, PTL DEF RemovalSpec

-----------------------------------------------------------------------------
(***************************************************************************)
(* The inductive invariant                                                 *)
(***************************************************************************)

\* A file is in the list only after its session is completed.
ListedIsCompleted == \A b \in listed : session[b] = "completed"

\* A request that is about to record a file is the only one that is, the
\* session is closing, and the object is there.
RecordsOne(r) ==
  work[r].pc = "record" =>
    \E b \in Blobs :
      /\ work[r].files = {b}
      /\ session[b] = "closing"
      /\ <<b, "primary">> \in stored \/ b \in cut

Unshared ==
  \A r, q \in Deleters :
    (/\ work[r].pc = "record" /\ work[q].pc = "record"
     /\ work[r].files \cap work[q].files # {}) => r = q

\* A deletion by the owner is of one file.
DeletesOne(r) ==
  work[r].pc \in {"remove", "commit"} => \E b \in Blobs : work[r].files = {b}

\* An object has a session, and the sweep spares what had one when it read
\* the sessions.  An hour does not pass while the sweep works.
AgedHasSession == \A b \in aged : session[b] # "none"
SweepSpares ==
  /\ sweep.pc \in {"list", "remove"} => aged \subseteq sweep.referenced
  /\ sweep.left \cap sweep.referenced = {}
  /\ sweep.pc # "remove" => sweep.left = {}
StoredHasSession == \A o \in stored : session[o[1]] # "none"

RemovalInv ==
  /\ RemovalTypeOK
  /\ ListedIsCompleted
  /\ \A r \in Deleters : RecordsOne(r) /\ DeletesOne(r)
  /\ Unshared
  /\ AgedHasSession /\ StoredHasSession /\ SweepSpares
  /\ RemovalHolds

LEMMA InitInv == RemovalInit => RemovalInv
  BY InitTypes, FS_EmptySet
  DEF RemovalInit, RemovalInv, ListedIsCompleted, RecordsOne, DeletesOne, Unshared,
      AgedHasSession, StoredHasSession, SweepSpares, RemovalHolds,
      ListedHasObject, CountedIsExplained, DeletedHasNoFiles, NoWork, NoSweep

LEMMA ListedFinite ==
  ASSUME RemovalTypeOK
  PROVE  IsFiniteSet(listed) /\ Cardinality(listed) \in Nat
  BY RemovalAssumption, FS_Subset, FS_CardinalityType DEF RemovalTypeOK

\* A step that changes no request, or ends one.
RequestsKept ==
  \A r \in Deleters : work'[r] = work[r] \/ work'[r] = NoWork

LEMMA EndKeeps ==
  ASSUME RemovalTypeOK, NEW r \in Deleters, End(r)
  PROVE  RequestsKept
  BY DEF RemovalTypeOK, End, RequestsKept

\* What the requests need of the other variables.
LEMMA RequestsStay ==
  ASSUME RemovalInv, RequestsKept,
         \A b \in Blobs : session[b] = "closing" =>
            \/ session'[b] = "closing"
            \/ \A r \in Deleters : work[r].pc = "record" /\ b \in work[r].files
                                      => work'[r] = NoWork,
         \A b \in Blobs : <<b, "primary">> \in stored \/ b \in cut =>
                             <<b, "primary">> \in stored' \/ b \in cut'
  PROVE  /\ \A r \in Deleters : RecordsOne(r)' /\ DeletesOne(r)'
         /\ Unshared'
<1>1. ASSUME NEW r \in Deleters, work'[r].pc = "record"
      PROVE  work'[r] = work[r]
  BY <1>1 DEF RequestsKept, NoWork
<1>2. ASSUME NEW r \in Deleters
      PROVE  RecordsOne(r)'
  <2>1. SUFFICES ASSUME work'[r].pc = "record"
                 PROVE  \E b \in Blobs :
                          /\ work'[r].files = {b}
                          /\ session'[b] = "closing"
                          /\ <<b, "primary">> \in stored' \/ b \in cut'
    BY DEF RecordsOne
  <2>2. work'[r] = work[r]
    BY <1>1, <2>1
  <2>3. PICK b \in Blobs : /\ work[r].files = {b}
                           /\ session[b] = "closing"
                           /\ <<b, "primary">> \in stored \/ b \in cut
    BY <2>1, <2>2 DEF RemovalInv, RecordsOne
  <2>4. work'[r] # NoWork /\ b \in work[r].files /\ work[r].pc = "record"
    BY <2>1, <2>2, <2>3 DEF NoWork
  <2>5. session'[b] = "closing"
    BY <2>3, <2>4
  <2>6. <<b, "primary">> \in stored' \/ b \in cut'
    BY <2>3
  <2>7. QED BY <2>2, <2>3, <2>5, <2>6
<1>3. ASSUME NEW r \in Deleters
      PROVE  DeletesOne(r)'
  BY DEF DeletesOne, RequestsKept, RemovalInv, NoWork
<1>4. Unshared'
  BY <1>1 DEF Unshared, RemovalInv
<1>5. QED BY <1>2, <1>3, <1>4

\* A step that leaves files, objects and usage alone.
LEMMA HoldsStay ==
  ASSUME RemovalHolds, standing'.gone = standing.gone,
         UNCHANGED <<listed, stored, counted, cut, byAdmin>>
  PROVE  RemovalHolds'
  BY DEF RemovalHolds, ListedHasObject, CountedIsExplained, DeletedHasNoFiles

LEMMA SessionMadeInv ==
  ASSUME RemovalInv, NEW b \in Blobs, SessionMade(b)
  PROVE  RemovalInv'
<1>1. RemovalTypeOK'
  BY StepTypes DEF RemovalInv, RemovalNext
<1>2. /\ session' = [session EXCEPT ![b] = "open"] /\ session[b] = "none"
      /\ UNCHANGED <<standing, listed, stored, aged, counted, work, sweep, cut,
                     byAdmin>>
      /\ session \in [Blobs -> {"none", "open", "closing", "completed"}]
      /\ listed \subseteq Blobs /\ aged \subseteq Blobs
      /\ stored \subseteq Blobs \X Providers
  BY DEF SessionMade, RemovalInv, RemovalTypeOK
<1>3. (\A r \in Deleters : RecordsOne(r)' /\ DeletesOne(r)') /\ Unshared'
  BY <1>2, RequestsStay DEF RequestsKept
<1>4. RemovalHolds'
  BY <1>2, HoldsStay DEF RemovalInv
<1>5. ListedIsCompleted' /\ AgedHasSession' /\ StoredHasSession' /\ SweepSpares'
  BY <1>2 DEF RemovalInv, ListedIsCompleted, AgedHasSession, StoredHasSession,
              SweepSpares
<1>6. QED BY <1>1, <1>3, <1>4, <1>5 DEF RemovalInv

LEMMA AssembledInv ==
  ASSUME RemovalInv, NEW r \in Deleters, NEW b \in Blobs, Assembled(r, b)
  PROVE  RemovalInv'
<1>1. RemovalTypeOK'
  BY StepTypes DEF RemovalInv, RemovalNext
<1>2. /\ session' = [session EXCEPT ![b] = "closing"] /\ session[b] = "open"
      /\ stored' = stored \cup {<<b, "primary">>}
      /\ work[r] = NoWork
      /\ work' = [work EXCEPT ![r] =
                    [pc |-> "record", files |-> {b}, left |-> {}]]
      /\ UNCHANGED <<standing, listed, aged, counted, sweep, cut, byAdmin>>
      /\ session \in [Blobs -> {"none", "open", "closing", "completed"}]
      /\ work \in [Deleters -> WorkRecord]
      /\ listed \subseteq Blobs /\ aged \subseteq Blobs
      /\ stored \subseteq Blobs \X Providers
  BY DEF Assembled, BeginWork, RemovalInv, RemovalTypeOK, WorkRecord
<1>3. \A q \in Deleters : q # r => work'[q] = work[q]
  BY <1>2
<1>4. work'[r] = [pc |-> "record", files |-> {b}, left |-> {}]
  BY <1>2
<1>5. ASSUME NEW q \in Deleters, q # r, work[q].pc = "record"
      PROVE  b \notin work[q].files
  BY <1>2, <1>5 DEF RemovalInv, RecordsOne
<1>6. ASSUME NEW q \in Deleters
      PROVE  RecordsOne(q)'
  <2>1. CASE q = r
    BY <1>2, <1>4, <2>1 DEF RecordsOne
  <2>2. CASE q # r
    <3>1. RecordsOne(q) /\ work'[q] = work[q]
      BY <1>3, <2>2 DEF RemovalInv
    <3>2. SUFFICES ASSUME work[q].pc = "record"
                   PROVE  RecordsOne(q)'
      BY <3>1 DEF RecordsOne
    <3>3. PICK a \in Blobs : /\ work[q].files = {a}
                             /\ session[a] = "closing"
                             /\ <<a, "primary">> \in stored \/ a \in cut
      BY <3>1, <3>2 DEF RecordsOne
    <3>4. session'[a] = "closing"
      BY <1>2, <3>3
    <3>5. QED BY <1>2, <3>1, <3>3, <3>4 DEF RecordsOne
  <2>3. QED BY <2>1, <2>2
<1>7. \A q \in Deleters : DeletesOne(q)'
  BY <1>3, <1>4 DEF DeletesOne, RemovalInv
<1>8. Unshared'
  BY <1>3, <1>4, <1>5 DEF Unshared, RemovalInv
<1>9. /\ ListedIsCompleted' /\ AgedHasSession' /\ StoredHasSession' /\ SweepSpares'
  BY <1>2 DEF RemovalInv, ListedIsCompleted, AgedHasSession, StoredHasSession,
              SweepSpares
<1>10. RemovalHolds'
  <2>1. ListedHasObject'
    BY <1>2 DEF RemovalInv, RemovalHolds, ListedHasObject
  <2>2. CountedIsExplained' /\ DeletedHasNoFiles'
    BY <1>2 DEF RemovalInv, RemovalHolds, CountedIsExplained, DeletedHasNoFiles
  <2>3. QED BY <2>1, <2>2 DEF RemovalHolds
<1>11. QED BY <1>1, <1>6, <1>7, <1>8, <1>9, <1>10 DEF RemovalInv

LEMMA RecordedInv ==
  ASSUME RemovalInv, NEW r \in Deleters, Recorded(r)
  PROVE  RemovalInv'
<1>1. RemovalTypeOK'
  BY StepTypes DEF RemovalInv, RemovalNext
<1>2. PICK b \in Blobs :
        /\ work[r].files = {b}
        /\ session[b] = "closing"
        /\ <<b, "primary">> \in stored \/ b \in cut
  BY DEF Recorded, RemovalInv, RecordsOne
<1>3. /\ session' = [session EXCEPT ![b] = "completed"]
      /\ listed' = listed \cup {b}
      /\ counted' = counted + 1
      /\ UNCHANGED <<standing, stored, aged, sweep, cut, byAdmin>>
      /\ ~standing.gone
      /\ work[r].pc = "record"
  BY <1>2 DEF Recorded, Recordable, Exists
<1>4. /\ session \in [Blobs -> {"none", "open", "closing", "completed"}]
      /\ listed \subseteq Blobs /\ aged \subseteq Blobs
      /\ stored \subseteq Blobs \X Providers
      /\ counted \in Nat /\ byAdmin \in Nat
      /\ work \in [Deleters -> WorkRecord]
  BY DEF RemovalInv, RemovalTypeOK, WorkRecord
<1>5. RequestsKept /\ work'[r] = NoWork
  BY <1>4, EndKeeps DEF Recorded, End, RemovalInv
<1>6. (\A q \in Deleters : RecordsOne(q)' /\ DeletesOne(q)') /\ Unshared'
  <2>1. ASSUME NEW a \in Blobs, session[a] = "closing"
        PROVE  \/ session'[a] = "closing"
               \/ \A q \in Deleters : work[q].pc = "record" /\ a \in work[q].files
                                      => work'[q] = NoWork
    <3>1. CASE a = b
      BY <1>2, <1>3, <1>5, <3>1 DEF Unshared, RemovalInv
    <3>2. CASE a # b
      BY <1>3, <1>4, <2>1, <3>2
    <3>3. QED BY <3>1, <3>2
  <2>2. QED BY <1>3, <1>5, <2>1, RequestsStay
<1>7. ListedIsCompleted' /\ AgedHasSession' /\ StoredHasSession' /\ SweepSpares'
  BY <1>3, <1>4 DEF RemovalInv, ListedIsCompleted, AgedHasSession,
                    StoredHasSession, SweepSpares
<1>8. CountedIsExplained'
  <2>1. b \notin listed
    BY <1>2 DEF RemovalInv, ListedIsCompleted
  <2>2. Cardinality(listed \cup {b}) = Cardinality(listed) + 1
    BY <2>1, ListedFinite, FS_AddElement DEF RemovalInv
  <2>3. Cardinality(listed) \in Nat
    BY ListedFinite DEF RemovalInv
  <2>4. QED BY <1>3, <1>4, <2>2, <2>3 DEF CountedIsExplained, RemovalInv, RemovalHolds
<1>9. ListedHasObject' /\ DeletedHasNoFiles'
  BY <1>2, <1>3 DEF RemovalInv, RemovalHolds, ListedHasObject, DeletedHasNoFiles
<1>10. QED BY <1>1, <1>6, <1>7, <1>8, <1>9 DEF RemovalInv, RemovalHolds

\* A request that begins without making a record.
LEMMA BegunInv ==
  ASSUME RemovalInv, RemovalTypeOK', NEW r \in Deleters,
         NEW pc \in WorkSteps \ {"record"}, NEW files, NEW left,
         BeginWork(r, pc, files, left),
         pc \in {"remove", "commit"} => \E b \in Blobs : files = {b},
         UNCHANGED <<standing, session, listed, stored, aged, counted, sweep, cut,
                     byAdmin>>
  PROVE  RemovalInv'
<1>1. /\ work' = [work EXCEPT ![r] = [pc |-> pc, files |-> files, left |-> left]]
      /\ work \in [Deleters -> WorkRecord]
  BY DEF BeginWork, RemovalInv, RemovalTypeOK, WorkRecord
<1>2. \A q \in Deleters : q # r => work'[q] = work[q]
  BY <1>1
<1>3. work'[r] = [pc |-> pc, files |-> files, left |-> left]
  BY <1>1
<1>4. ASSUME NEW q \in Deleters
      PROVE  RecordsOne(q)' /\ DeletesOne(q)'
  <2>1. CASE q = r
    BY <1>3, <2>1 DEF RecordsOne, DeletesOne
  <2>2. CASE q # r
    BY <1>2, <2>2 DEF RecordsOne, DeletesOne, RemovalInv
  <2>3. QED BY <2>1, <2>2
<1>5. Unshared'
  BY <1>2, <1>3 DEF Unshared, RemovalInv
<1>6. ListedIsCompleted' /\ AgedHasSession' /\ StoredHasSession' /\ SweepSpares'
  BY DEF RemovalInv, ListedIsCompleted, AgedHasSession, StoredHasSession,
         SweepSpares
<1>7. RemovalHolds'
  BY HoldsStay DEF RemovalInv
<1>8. QED BY <1>4, <1>5, <1>6, <1>7 DEF RemovalInv

LEMMA ReadInv ==
  ASSUME RemovalInv, NEW r \in Deleters,
         \/ UserRead(r)
         \/ \E b \in Blobs : FileRead(r, b) \/ FileReadByAdmin(r, b)
  PROVE  RemovalInv'
<1>1. RemovalTypeOK'
  BY StepTypes DEF RemovalInv, RemovalNext
<1>2. ASSUME NEW b \in Blobs, FileRead(r, b)
      PROVE  RemovalInv'
  <2>1. "remove" \in WorkSteps \ {"record"}
    BY DEF WorkSteps
  <2>2. QED BY <1>1, <1>2, <2>1, BegunInv DEF FileRead
<1>3. ASSUME NEW b \in Blobs, FileReadByAdmin(r, b)
      PROVE  RemovalInv'
  <2>1. "adminRemove" \in WorkSteps \ {"record"}
    BY DEF WorkSteps
  <2>2. QED BY <1>1, <1>3, <2>1, BegunInv DEF FileReadByAdmin
<1>4. CASE UserRead(r)
  <2>1. "userRemove" \in WorkSteps \ {"record"}
    BY DEF WorkSteps
  <2>2. QED BY <1>1, <1>4, <2>1, BegunInv DEF UserRead
<1>5. QED BY <1>2, <1>3, <1>4

\* A deletion takes objects, which it notes, and goes on.
LEMMA ObjectRemovedInv ==
  ASSUME RemovalInv, NEW r \in Deleters, NEW o \in Blobs \X Providers,
         ObjectRemoved(r, o) \/ ObjectRemovedByAdmin(r, o)
  PROVE  RemovalInv'
<1>1. RemovalTypeOK'
  BY StepTypes DEF RemovalInv, RemovalNext
<1>2. /\ UNCHANGED <<standing, session, listed, counted, sweep, byAdmin>>
      /\ work \in [Deleters -> WorkRecord]
      /\ stored' \subseteq stored /\ aged' \subseteq aged
      /\ \A b \in Blobs : <<b, "primary">> \in stored \/ b \in cut =>
                          <<b, "primary">> \in stored' \/ b \in cut'
  BY DEF ObjectRemoved, ObjectRemovedByAdmin, Removed, RemovalInv, RemovalTypeOK,
         WorkRecord
<1>3. \A q \in Deleters : q # r => work'[q] = work[q]
  BY <1>2 DEF ObjectRemoved, ObjectRemovedByAdmin
<1>4. /\ work[r].pc # "record" /\ work'[r].pc # "record"
      /\ work'[r].files = work[r].files
      /\ work'[r].pc \in {"remove", "commit"} => work[r].pc \in {"remove", "commit"}
  BY <1>2 DEF ObjectRemoved, ObjectRemovedByAdmin, WorkRecord
<1>5. ASSUME NEW q \in Deleters
      PROVE  RecordsOne(q)' /\ DeletesOne(q)'
  <2>1. CASE q = r
    BY <1>4, <2>1 DEF RecordsOne, DeletesOne, RemovalInv
  <2>2. CASE q # r
    <3>1. work'[q] = work[q] /\ session' = session
      BY <1>2, <1>3, <2>2
    <3>2. RecordsOne(q) /\ DeletesOne(q)
      BY DEF RemovalInv
    <3>3. RecordsOne(q)'
      BY <1>2, <3>1, <3>2 DEF RecordsOne
    <3>4. DeletesOne(q)'
      BY <3>1, <3>2 DEF DeletesOne
    <3>5. QED BY <3>3, <3>4
  <2>3. QED BY <2>1, <2>2
<1>6. Unshared'
  BY <1>3, <1>4 DEF Unshared, RemovalInv
<1>7. ListedIsCompleted' /\ AgedHasSession' /\ StoredHasSession' /\ SweepSpares'
  BY <1>2 DEF RemovalInv, ListedIsCompleted, AgedHasSession, StoredHasSession,
              SweepSpares
<1>8. RemovalHolds'
  <2>1. listed \subseteq Blobs
    BY DEF RemovalInv, RemovalTypeOK
  <2>2. QED BY <1>2, <2>1 DEF RemovalInv, RemovalHolds, ListedHasObject,
                              CountedIsExplained, DeletedHasNoFiles
<1>9. QED BY <1>1, <1>5, <1>6, <1>7, <1>8 DEF RemovalInv

\* What every deletion's commit leaves alone.
LEMMA FilesGoneInv ==
  ASSUME RemovalInv, RemovalTypeOK', RequestsKept,
         listed' \subseteq listed,
         UNCHANGED <<session, stored, aged, sweep, cut>>,
         CountedIsExplained', DeletedHasNoFiles'
  PROVE  RemovalInv'
<1>1. (\A q \in Deleters : RecordsOne(q)' /\ DeletesOne(q)') /\ Unshared'
  BY RequestsStay
<1>2. ListedIsCompleted' /\ AgedHasSession' /\ StoredHasSession' /\ SweepSpares'
  BY DEF RemovalInv, ListedIsCompleted, AgedHasSession, StoredHasSession,
         SweepSpares
<1>3. ListedHasObject'
  BY DEF RemovalInv, RemovalHolds, ListedHasObject
<1>4. QED BY <1>1, <1>2, <1>3 DEF RemovalInv, RemovalHolds

LEMMA DeletedByOwnerInv ==
  ASSUME RemovalInv, NEW r \in Deleters, DeletedByOwner(r)
  PROVE  RemovalInv'
<1>1. RemovalTypeOK'
  BY StepTypes DEF RemovalInv, RemovalNext
<1>2. PICK b \in Blobs : work[r].files = {b}
  BY DEF DeletedByOwner, RemovalInv, DeletesOne
<1>3. /\ b \in listed /\ listed' = listed \ {b}
      /\ counted' = Lessened(1)
      /\ UNCHANGED <<standing, byAdmin>>
  BY <1>2 DEF DeletedByOwner
<1>4. CountedIsExplained'
  <2>1. /\ IsFiniteSet(listed) /\ Cardinality(listed) \in Nat
        /\ Cardinality(listed') = Cardinality(listed) - 1
        /\ Cardinality(listed') \in Nat
    BY <1>1, <1>3, ListedFinite, FS_RemoveElement, FS_CardinalityType
    DEF RemovalInv
  <2>2. counted = Cardinality(listed) + byAdmin /\ byAdmin \in Nat
    BY DEF RemovalInv, RemovalTypeOK, RemovalHolds, CountedIsExplained
  <2>3. counted' = counted - 1
    BY <1>3, <2>1, <2>2 DEF Lessened
  <2>4. QED BY <1>3, <2>1, <2>2, <2>3 DEF CountedIsExplained
<1>5. RequestsKept
  BY EndKeeps DEF DeletedByOwner, RemovalInv
<1>6. DeletedHasNoFiles'
  BY <1>3 DEF RemovalInv, RemovalHolds, DeletedHasNoFiles
<1>7. UNCHANGED <<session, stored, aged, sweep, cut>>
  BY DEF DeletedByOwner
<1>8. QED BY <1>1, <1>3, <1>4, <1>5, <1>6, <1>7, FilesGoneInv

LEMMA DeletedByAdminInv ==
  ASSUME RemovalInv, NEW r \in Deleters, FileDeletedByAdmin(r) \/ UserDeleted(r)
  PROVE  RemovalInv'
<1>1. RemovalTypeOK'
  BY StepTypes DEF RemovalInv, RemovalNext
<1>2. /\ work[r].files \subseteq listed
      /\ listed' = listed \ work[r].files
      /\ byAdmin' = byAdmin + Cardinality(work[r].files)
      /\ UNCHANGED <<counted, session, stored, aged, sweep, cut>>
  BY DEF FileDeletedByAdmin, UserDeleted, GoneByAdmin
<1>3. CountedIsExplained'
  <2>1. IsFiniteSet(listed) /\ Cardinality(listed) \in Nat
    BY ListedFinite DEF RemovalInv
  <2>2. Cardinality(work[r].files) \in Nat
    BY <1>2, <2>1, FS_Subset, FS_CardinalityType
  <2>3. listed \cap work[r].files = work[r].files
    BY <1>2
  <2>4. Cardinality(listed') = Cardinality(listed) - Cardinality(work[r].files)
    <3>1. PICK S, F : S = listed /\ F = work[r].files
      OBVIOUS
    <3>2. Cardinality(S \ F) = Cardinality(S) - Cardinality(S \cap F)
      BY <2>1, <3>1, FS_Difference
    <3>3. listed' = S \ F /\ S \cap F = F
      BY <1>2, <2>3, <3>1
    <3>4. QED BY <3>1, <3>2, <3>3
  <2>5. counted = Cardinality(listed) + byAdmin /\ byAdmin \in Nat
    BY DEF RemovalInv, RemovalTypeOK, RemovalHolds, CountedIsExplained
  <2>6. QED BY <1>2, <2>1, <2>2, <2>4, <2>5 DEF CountedIsExplained
<1>4. DeletedHasNoFiles'
  <2>1. CASE FileDeletedByAdmin(r)
    BY <1>2, <2>1
    DEF FileDeletedByAdmin, RemovalInv, RemovalHolds, DeletedHasNoFiles
  <2>2. CASE UserDeleted(r)
    BY <1>2, <2>2 DEF UserDeleted, DeletedHasNoFiles
  <2>3. QED BY <2>1, <2>2
<1>5. RequestsKept
  BY EndKeeps DEF FileDeletedByAdmin, UserDeleted, RemovalInv
<1>6. QED BY <1>1, <1>2, <1>3, <1>4, <1>5, FilesGoneInv

\* Requests that fail, the crash, and what changes the user alone.
LEMMA NothingGoneInv ==
  ASSUME RemovalInv, RemovalTypeOK', RequestsKept, standing'.gone = standing.gone,
         UNCHANGED <<session, listed, stored, aged, counted, cut, byAdmin>>,
         sweep' = sweep \/ sweep' = NoSweep
  PROVE  RemovalInv'
<1>1. (\A q \in Deleters : RecordsOne(q)' /\ DeletesOne(q)') /\ Unshared'
  BY RequestsStay
<1>2. ListedIsCompleted' /\ AgedHasSession' /\ StoredHasSession' /\ SweepSpares'
  BY DEF RemovalInv, ListedIsCompleted, AgedHasSession, StoredHasSession,
         SweepSpares, NoSweep
<1>3. RemovalHolds'
  BY HoldsStay DEF RemovalInv
<1>4. QED BY <1>1, <1>2, <1>3 DEF RemovalInv

LEMMA FailureInv ==
  ASSUME RemovalInv, RemovalNext,
         \/ \E r \in Deleters : RecordFails(r) \/ DeletionFails(r)
         \/ UserApproved \/ UserRevoked \/ UserUpdated
         \/ SweepFails \/ ServerCrashes
  PROVE  RemovalInv'
<1>1. RemovalTypeOK'
  BY StepTypes DEF RemovalInv
<1>2. UNCHANGED <<session, listed, stored, aged, counted, cut, byAdmin>>
  BY DEF RecordFails, DeletionFails, UserApproved, UserRevoked, UserUpdated,
         SweepFails, ServerCrashes
<1>3. sweep' = sweep \/ sweep' = NoSweep
  BY DEF RecordFails, DeletionFails, UserApproved, UserRevoked, UserUpdated,
         SweepFails, ServerCrashes
<1>4. standing'.gone = standing.gone
  BY DEF RecordFails, DeletionFails, UserApproved, UserRevoked, UserUpdated,
         SweepFails, ServerCrashes, RemovalInv, RemovalTypeOK
<1>5. RequestsKept
  <2>1. CASE \E r \in Deleters : RecordFails(r) \/ DeletionFails(r)
    BY <2>1, EndKeeps DEF RecordFails, DeletionFails, RemovalInv
  <2>2. CASE UserApproved \/ UserRevoked \/ UserUpdated \/ SweepFails
    BY <2>2 DEF UserApproved, UserRevoked, UserUpdated, SweepFails, RequestsKept
  <2>3. CASE ServerCrashes
    BY <2>3 DEF ServerCrashes, RequestsKept
  <2>4. QED BY <2>1, <2>2, <2>3
<1>6. QED BY <1>1, <1>2, <1>3, <1>4, <1>5, NothingGoneInv

LEMMA CopiedInv ==
  ASSUME RemovalInv, NEW b \in Blobs, Copied(b) \/ Aged(b)
  PROVE  RemovalInv'
<1>1. RemovalTypeOK'
  BY StepTypes DEF RemovalInv, RemovalNext
<1>2. UNCHANGED <<standing, session, listed, counted, work, sweep, cut, byAdmin>>
  BY DEF Copied, Aged
<1>3. /\ stored \subseteq stored'
      /\ \A a \in Blobs : <<a, "primary">> \in stored \/ a \in cut =>
                          <<a, "primary">> \in stored' \/ a \in cut'
  BY <1>2 DEF Copied, Aged
<1>4. (\A q \in Deleters : RecordsOne(q)' /\ DeletesOne(q)') /\ Unshared'
  BY <1>2, <1>3, RequestsStay DEF RequestsKept
<1>5. ListedIsCompleted' /\ SweepSpares'
  <2>1. CASE Copied(b)
    BY <1>2, <2>1 DEF Copied, RemovalInv, ListedIsCompleted, SweepSpares
  <2>2. CASE Aged(b)
    BY <1>2, <2>2 DEF Aged, RemovalInv, ListedIsCompleted, SweepSpares
  <2>3. QED BY <2>1, <2>2
<1>6. AgedHasSession' /\ StoredHasSession'
  <2>1. CASE Copied(b)
    <3>1. session[b] = "completed"
      BY <2>1 DEF Copied, RemovalInv, ListedIsCompleted
    <3>2. QED
      BY <1>2, <2>1, <3>1 DEF Copied, RemovalInv, AgedHasSession, StoredHasSession
  <2>2. CASE Aged(b)
    <3>1. session[b] # "none"
      BY <2>2 DEF Aged, RemovalInv, StoredHasSession
    <3>2. QED
      BY <1>2, <2>2, <3>1 DEF Aged, RemovalInv, AgedHasSession, StoredHasSession
  <2>3. QED BY <2>1, <2>2
<1>7. RemovalHolds'
  BY <1>2, <1>3 DEF RemovalInv, RemovalHolds, ListedHasObject,
                    CountedIsExplained, DeletedHasNoFiles
<1>8. QED BY <1>1, <1>4, <1>5, <1>6, <1>7 DEF RemovalInv

\* What is old enough to be removed had a session before the sweep read the
\* sessions, so the sweep removes nothing at all.
LEMMA SweepRemovesNone ==
  ASSUME RemovalInv, SweepStep
  PROVE  stored' = stored /\ aged' = aged
<1>1. ASSUME NEW b \in Blobs, SweepRemoves(b)
      PROVE  stored' = stored /\ aged' = aged
  BY <1>1 DEF SweepRemoves, RemovalInv, SweepSpares
<1>2. QED BY <1>1 DEF SweepStep, SweepBegins, SweepReadsSessions, SweepLists

LEMMA SweepInv ==
  ASSUME RemovalInv, SweepStep
  PROVE  RemovalInv'
<1>1. RemovalTypeOK'
  BY StepTypes DEF RemovalInv, RemovalNext
<1>2. UNCHANGED <<standing, session, listed, counted, work, cut, byAdmin>>
  BY DEF SweepStep, SweepBegins, SweepReadsSessions, SweepLists, SweepRemoves
<1>3. stored' = stored /\ aged' = aged
  BY SweepRemovesNone
<1>4. SweepSpares'
  <2>1. aged \subseteq ProtectedBySession
    BY DEF RemovalInv, RemovalTypeOK, AgedHasSession, ProtectedBySession
  <2>2. sweep \in SweepRecord
    BY DEF RemovalInv, RemovalTypeOK, SweepRecord
  <2>3. SweepSpares
    BY DEF RemovalInv
  <2>4. CASE SweepBegins
    BY <2>2, <2>4 DEF SweepBegins, SweepSpares, NoSweep
  <2>5. CASE SweepReadsSessions
    <3>1. aged' \subseteq sweep'.referenced
      BY <1>3, <2>1, <2>2, <2>5 DEF SweepReadsSessions, SweepRecord
    <3>2. sweep'.left = sweep.left
      BY <2>2, <2>5 DEF SweepReadsSessions, SweepRecord
    <3>3. sweep.left = {} /\ sweep.pc = "sessions"
      BY <2>3, <2>5 DEF SweepReadsSessions, SweepSpares
    <3>4. QED BY <3>1, <3>2, <3>3 DEF SweepSpares
  <2>6. CASE SweepLists
    BY <1>3, <2>2, <2>3, <2>6 DEF SweepLists, SweepSpares, SweepRecord, NoSweep
  <2>7. ASSUME NEW b \in Blobs, SweepRemoves(b)
        PROVE  SweepSpares'
    BY <1>3, <2>2, <2>3, <2>7 DEF SweepRemoves, SweepSpares, SweepRecord, NoSweep
  <2>8. QED BY <2>4, <2>5, <2>6, <2>7 DEF SweepStep
<1>5. (\A q \in Deleters : RecordsOne(q)' /\ DeletesOne(q)') /\ Unshared'
  BY <1>2, <1>3, RequestsStay DEF RequestsKept
<1>6. ListedIsCompleted' /\ AgedHasSession' /\ StoredHasSession'
  BY <1>2, <1>3 DEF RemovalInv, ListedIsCompleted, AgedHasSession, StoredHasSession
<1>7. RemovalHolds'
  BY <1>2, <1>3, HoldsStay DEF RemovalInv
<1>8. QED BY <1>1, <1>4, <1>5, <1>6, <1>7 DEF RemovalInv

LEMMA StepInv ==
  ASSUME RemovalInv, RemovalNext
  PROVE  RemovalInv'
<1>1. ASSUME NEW b \in Blobs, SessionMade(b) \/ Copied(b) \/ Aged(b)
      PROVE  RemovalInv'
  BY <1>1, SessionMadeInv, CopiedInv
<1>2. ASSUME NEW r \in Deleters, NEW b \in Blobs,
             Assembled(r, b) \/ FileRead(r, b) \/ FileReadByAdmin(r, b)
      PROVE  RemovalInv'
  BY <1>2, AssembledInv, ReadInv
<1>3. ASSUME NEW r \in Deleters, NEW o \in Blobs \X Providers,
             ObjectRemoved(r, o) \/ ObjectRemovedByAdmin(r, o)
      PROVE  RemovalInv'
  BY <1>3, ObjectRemovedInv
<1>4. ASSUME NEW r \in Deleters,
             \/ Recorded(r) \/ DeletedByOwner(r) \/ UserRead(r)
             \/ FileDeletedByAdmin(r) \/ UserDeleted(r)
      PROVE  RemovalInv'
  BY <1>4, RecordedInv, DeletedByOwnerInv, ReadInv, DeletedByAdminInv
<1>5. ASSUME \/ \E r \in Deleters : RecordFails(r) \/ DeletionFails(r)
             \/ UserApproved \/ UserRevoked \/ UserUpdated
             \/ SweepFails \/ ServerCrashes
      PROVE  RemovalInv'
  BY <1>5, FailureInv
<1>6. CASE SweepStep
  BY <1>6, SweepInv
<1>7. QED BY <1>1, <1>2, <1>3, <1>4, <1>5, <1>6 DEF RemovalNext

LEMMA RemovalInvariant == RemovalSpec => []RemovalInv
<1>1. ASSUME RemovalInv, [RemovalNext]_removalVars
      PROVE  RemovalInv'
  <2>1. CASE RemovalNext
    BY <1>1, <2>1, StepInv
  <2>2. CASE UNCHANGED removalVars
    BY <1>1, <2>2
    DEF removalVars, RemovalInv, RemovalTypeOK, ListedIsCompleted, RecordsOne,
        DeletesOne, Unshared, AgedHasSession, StoredHasSession, SweepSpares,
        RemovalHolds, ListedHasObject, CountedIsExplained, DeletedHasNoFiles
  <2>3. QED BY <1>1, <2>1, <2>2
<1>2. QED BY InitInv, <1>1, PTL DEF RemovalSpec

(* Files have their object, the usage is what the files and the deletions  *)
(* by administrators explain, and a deleted user has no file, whatever     *)
(* requests, sweeps, failures and crashes come together                    *)
(* (handlers/uploads.go, admin.go, admin_task_runner.go).                  *)
THEOREM RemovalCorrect == RemovalSpec => []RemovalHolds
<1>1. RemovalInv => RemovalHolds
  BY DEF RemovalInv
<1>2. QED BY RemovalInvariant, <1>1, PTL

-----------------------------------------------------------------------------
(***************************************************************************)
(* Orphans.  The run that looks for their removal finds one that stays;    *)
(* here is that none is ever removed.  The sweep removes nothing, and a    *)
(* deletion removes only objects of files it has read from the list, where *)
(* the storage_id of a session that is still closing never is.             *)
(***************************************************************************)

\* What a request has still to remove belongs to its files.
RemovesItsOwn ==
  \A r \in Deleters : \A o \in work[r].left : o[1] \in work[r].files

\* The step that a request takes to begin.
LEMMA BegunRemoves ==
  ASSUME RemovalTypeOK, RemovesItsOwn, NEW r \in Deleters, NEW pc \in WorkSteps,
         NEW files \in SUBSET Blobs, NEW left, BeginWork(r, pc, files, left),
         \A o \in left : o[1] \in files
  PROVE  RemovesItsOwn'
  BY DEF RemovalTypeOK, RemovesItsOwn, BeginWork

LEMMA RestRemoves ==
  ASSUME RemovalTypeOK, RemovesItsOwn, RequestsKept
  PROVE  RemovesItsOwn'
  BY DEF RemovesItsOwn, RequestsKept, NoWork

LEMMA StepRemoves ==
  ASSUME RemovalTypeOK, RemovesItsOwn, [RemovalNext]_removalVars
  PROVE  RemovesItsOwn'
<1>1. CASE UNCHANGED work
  BY <1>1 DEF RemovesItsOwn
<1>2. ASSUME NEW r \in Deleters, End(r)
      PROVE  RemovesItsOwn'
  BY <1>2, EndKeeps, RestRemoves
<1>3. ASSUME NEW r \in Deleters, NEW b \in Blobs,
             Assembled(r, b) \/ FileRead(r, b) \/ FileReadByAdmin(r, b)
      PROVE  RemovesItsOwn'
  <2>1. CASE Assembled(r, b)
    BY <2>1, BegunRemoves DEF Assembled, WorkSteps
  <2>2. CASE FileRead(r, b)
    <3>1. \A o \in Locations(b) : o[1] \in {b}
      BY DEF Locations
    <3>2. QED BY <2>2, <3>1, BegunRemoves DEF FileRead, WorkSteps
  <2>3. CASE FileReadByAdmin(r, b)
    BY <2>3, BegunRemoves DEF FileReadByAdmin, WorkSteps
  <2>4. QED BY <1>3, <2>1, <2>2, <2>3
<1>4. ASSUME NEW r \in Deleters, UserRead(r)
      PROVE  RemovesItsOwn'
  BY <1>4, BegunRemoves DEF UserRead, WorkSteps, RemovalTypeOK
<1>5. ASSUME NEW r \in Deleters, NEW o \in Blobs \X Providers,
             ObjectRemoved(r, o) \/ ObjectRemovedByAdmin(r, o)
      PROVE  RemovesItsOwn'
  <2>1. /\ work'[r].left = work[r].left \ {o}
        /\ work'[r].files = work[r].files
        /\ \A q \in Deleters \ {r} : work'[q] = work[q]
    BY <1>5 DEF ObjectRemoved, ObjectRemovedByAdmin, RemovalTypeOK
  <2>2. QED BY <2>1 DEF RemovesItsOwn
<1>6. CASE ServerCrashes
  BY <1>6 DEF ServerCrashes, RemovesItsOwn, NoWork
<1>7. QED
  BY <1>1, <1>2, <1>3, <1>4, <1>5, <1>6
  DEF RemovalNext, removalVars, SessionMade, Copied, Aged, Recorded, RecordFails,
      DeletedByOwner, FileDeletedByAdmin, UserDeleted, DeletionFails,
      UserApproved, UserRevoked, UserUpdated, SweepStep, SweepBegins,
      SweepReadsSessions, SweepLists, SweepRemoves, SweepFails

\* The requests leave an orphan alone: they neither remove nor complete it, and
\* none comes to have its file.
LEMMA OrphanLeft ==
  ASSUME RemovalInv, RemovesItsOwn, [RemovalNext]_removalVars,
         NEW b \in Blobs, Orphaned(b)
  PROVE  Orphaned(b)'
<1>1. /\ <<b, "primary">> \in stored /\ session[b] = "closing" /\ b \notin listed
      /\ \A r \in Deleters : b \notin work[r].files
  BY DEF Orphaned, RemovalInv, ListedIsCompleted
<1>2. RemovalTypeOK
  BY DEF RemovalInv
<1>3. ASSUME UNCHANGED <<stored, session>>, RequestsKept
      PROVE  Orphaned(b)'
  BY <1>1, <1>3 DEF Orphaned, RequestsKept, NoWork
<1>4. ASSUME NEW r \in Deleters, End(r), UNCHANGED <<stored, session>>
      PROVE  Orphaned(b)'
  BY <1>2, <1>3, <1>4, EndKeeps
<1>5. ASSUME NEW r \in Deleters, NEW pc, NEW files, NEW left,
             BeginWork(r, pc, files, left), b \notin files,
             session'[b] = session[b], stored \subseteq stored'
      PROVE  Orphaned(b)'
  BY <1>1, <1>2, <1>5 DEF BeginWork, Orphaned, RemovalTypeOK
<1>6. ASSUME NEW c \in Blobs, SessionMade(c) \/ Copied(c) \/ Aged(c)
      PROVE  Orphaned(b)'
  BY <1>1, <1>2, <1>6 DEF SessionMade, Copied, Aged, Orphaned, RemovalTypeOK
<1>7. ASSUME NEW r \in Deleters, NEW c \in Blobs,
             Assembled(r, c) \/ FileRead(r, c) \/ FileReadByAdmin(r, c)
      PROVE  Orphaned(b)'
  <2>1. c # b
    BY <1>1, <1>7 DEF Assembled, FileRead, FileReadByAdmin
  <2>2. session'[b] = session[b]
    BY <1>2, <1>7, <2>1 DEF Assembled, FileRead, FileReadByAdmin, RemovalTypeOK
  <2>3. QED BY <1>5, <1>7, <2>1, <2>2 DEF Assembled, FileRead, FileReadByAdmin
<1>8. ASSUME NEW r \in Deleters, UserRead(r)
      PROVE  Orphaned(b)'
  BY <1>1, <1>5, <1>8 DEF UserRead
<1>9. ASSUME NEW r \in Deleters, NEW o \in Blobs \X Providers,
             ObjectRemoved(r, o) \/ ObjectRemovedByAdmin(r, o)
      PROVE  Orphaned(b)'
  <2>1. o[1] # b
    BY <1>1, <1>9 DEF ObjectRemoved, ObjectRemovedByAdmin, RemovesItsOwn
  <2>2. <<b, "primary">> \in stored' /\ session' = session
    BY <1>1, <1>9, <2>1 DEF ObjectRemoved, ObjectRemovedByAdmin, Removed
  <2>3. \A q \in Deleters : work'[q].files = work[q].files
    BY <1>2, <1>9 DEF ObjectRemoved, ObjectRemovedByAdmin, RemovalTypeOK
  <2>4. QED BY <1>1, <2>2, <2>3 DEF Orphaned
<1>10. ASSUME NEW r \in Deleters, Recorded(r)
       PROVE  Orphaned(b)'
  <2>1. stored' = stored /\ End(r)
    BY <1>10 DEF Recorded
  <2>2. session'[b] = "closing"
    BY <1>1, <1>2, <1>10 DEF Recorded, RemovalTypeOK
  <2>3. RequestsKept
    BY <1>2, <2>1, EndKeeps
  <2>4. QED BY <1>1, <2>1, <2>2, <2>3 DEF Orphaned, RequestsKept, NoWork
<1>11. CASE SweepStep
  <2>1. UNCHANGED <<session, work>>
    BY <1>11 DEF SweepStep, SweepBegins, SweepReadsSessions, SweepLists, SweepRemoves
  <2>2. QED BY <1>11, <2>1, <1>3, SweepRemovesNone DEF RequestsKept
<1>12. CASE ServerCrashes
  BY <1>3, <1>12 DEF ServerCrashes, RequestsKept
<1>13. CASE \/ UserApproved \/ UserRevoked \/ UserUpdated \/ SweepFails
            \/ UNCHANGED removalVars
  BY <1>3, <1>13
  DEF UserApproved, UserRevoked, UserUpdated, SweepFails, removalVars, RequestsKept
<1>14. ASSUME NEW r \in Deleters,
              \/ RecordFails(r) \/ DeletedByOwner(r) \/ FileDeletedByAdmin(r)
              \/ UserDeleted(r) \/ DeletionFails(r)
       PROVE  Orphaned(b)'
  BY <1>4, <1>14
  DEF RecordFails, DeletedByOwner, FileDeletedByAdmin, UserDeleted, DeletionFails
<1>15. QED
  BY <1>6, <1>7, <1>8, <1>9, <1>10, <1>11, <1>12, <1>13, <1>14 DEF RemovalNext

(* An object whose upload came to nothing stays for ever, for any number   *)
(* of files and requests and however often the sweep runs: it spares what  *)
(* has a row in upload_sessions of any status, the rows are never deleted, *)
(* and no deletion is of that object (handlers/admin_task_runner.go:724,   *)
(* :752).                                                                  *)
THEOREM OrphansStay ==
  RemovalSpec => [][\A b \in Blobs : Orphaned(b) => Orphaned(b)']_removalVars
<1>1. RemovalInit => RemovesItsOwn
  BY DEF RemovalInit, RemovesItsOwn, NoWork
<1>2. RemovalInv /\ RemovesItsOwn /\ [RemovalNext]_removalVars => RemovesItsOwn'
  BY StepRemoves DEF RemovalInv
<1>3. RemovalInv /\ RemovesItsOwn /\ [RemovalNext]_removalVars =>
        [\A b \in Blobs : Orphaned(b) => Orphaned(b)']_removalVars
  BY OrphanLeft
<1>4. QED BY <1>1, <1>2, <1>3, RemovalInvariant, PTL DEF RemovalSpec

-----------------------------------------------------------------------------
(***************************************************************************)
(* Transfers: the arithmetic of chunks                                     *)
(***************************************************************************)

\* a / b rounded up is the number of pieces of length b that a falls into.
LEMMA CeilingCounts ==
  ASSUME NEW a \in Nat, NEW b \in Nat \ {0}
  PROVE  /\ Ceiling(a, b) \in Nat
         /\ a <= Ceiling(a, b) * b
         /\ Ceiling(a, b) * b <= a + b - 1
<1> DEFINE n == a + b - 1
<1>1. n \in Nat
  OBVIOUS
<1>2. /\ n \div b \in Nat
      /\ n % b \in 0 .. b - 1
      /\ n = b * (n \div b) + (n % b)
  <2> HIDE DEF n
  <2>1. QED BY <1>1, SMT
<1> DEFINE q == n \div b
           r == n % b
<1>3. Ceiling(a, b) = q
  BY DEF Ceiling
<1>4. q \in Nat /\ r \in 0 .. b - 1 /\ a + b - 1 = b * q + r
  BY <1>2
<1> HIDE DEF q, r
<1>5. a <= q * b /\ q * b <= a + b - 1
  BY <1>4, SMT
<1>6. QED BY <1>3, <1>4, <1>5

LEMMA Stretch ==
  ASSUME NEW p \in Int, NEW q \in Int, NEW b \in Nat, p <= q
  PROVE  p * b <= q * b
<1>1. PICK d \in Nat : q = p + d
  <2>1. q - p \in Nat /\ q = p + (q - p)
    OBVIOUS
  <2>2. QED BY <2>1
<1>2. q * b = p * b + d * b /\ d * b \in Nat /\ p * b \in Int
  BY <1>1, SMT
<1>3. QED BY <1>2, SMT

\* ... and the only one.
LEMMA CeilingIsOnly ==
  ASSUME NEW a \in Nat, NEW b \in Nat \ {0}, NEW k \in Nat,
         a <= k * b, k * b <= a + b - 1
  PROVE  Ceiling(a, b) = k
<1> DEFINE c == Ceiling(a, b)
<1>1. c \in Nat /\ a <= c * b /\ c * b <= a + b - 1
  BY CeilingCounts
<1> HIDE DEF c
<1>2. ASSUME NEW x \in Nat, NEW y \in Nat, x < y, a <= x * b, y * b <= a + b - 1
      PROVE  FALSE
  <2>1. (x + 1) * b <= y * b
    BY <1>2, Stretch
  <2>2. (x + 1) * b = x * b + b
    BY SMT
  <2>3. x * b \in Nat /\ y * b \in Nat
    BY SMT
  <2>4. QED BY <1>2, <2>1, <2>2, <2>3, SMT
<1>3. c = k
  BY <1>1, <1>2
<1>4. QED BY <1>3 DEF c

\* A file is cut into chunks; all but the last are full, and none is empty.
LEMMA ReadCounts ==
  ASSUME NEW bytes \in Nat \ {0}
  PROVE  /\ ReadCount(bytes) \in Nat \ {0}
         /\ bytes <= ReadCount(bytes) * ChunkSize
         /\ \A i \in 0 .. ReadCount(bytes) - 1 :
              /\ i * ChunkSize \in Nat
              /\ i * ChunkSize < bytes
              /\ i + 1 # ReadCount(bytes) => (i + 1) * ChunkSize < bytes
<1> DEFINE k == ReadCount(bytes)
<1>1. /\ k \in Nat /\ bytes <= k * ChunkSize /\ k * ChunkSize <= bytes + ChunkSize - 1
      /\ ChunkSize \in Nat \ {0}
  BY CeilingCounts, TransfersAssumption DEF ReadCount
<1> HIDE DEF k
<1>2. k # 0
  BY <1>1
<1>3. (k - 1) * ChunkSize < bytes
  <2>1. (k - 1) * ChunkSize = k * ChunkSize - ChunkSize /\ k * ChunkSize \in Nat
    BY <1>1, SMT
  <2>2. QED BY <1>1, <2>1, SMT
<1>4. ASSUME NEW i \in Nat, i <= k - 1
      PROVE  i * ChunkSize \in Nat /\ i * ChunkSize < bytes
  <2>1. i * ChunkSize <= (k - 1) * ChunkSize
    BY <1>1, <1>4, Stretch
  <2>2. i * ChunkSize \in Nat /\ (k - 1) * ChunkSize \in Int
    BY <1>1, SMT
  <2>3. QED BY <1>3, <2>1, <2>2, SMT
<1>5. ASSUME NEW i \in 0 .. k - 1
      PROVE  /\ i * ChunkSize \in Nat /\ i * ChunkSize < bytes
             /\ i + 1 # k => (i + 1) * ChunkSize < bytes
  <2>1. i \in Nat /\ i <= k - 1
    BY <1>1
  <2>2. i + 1 # k => i + 1 \in Nat /\ i + 1 <= k - 1
    BY <1>1, <2>1
  <2>3. QED BY <1>4, <2>1, <2>2
<1>6. QED BY <1>1, <1>2, <1>5 DEF k

\* The encrypted stream has a nonce and a tag for each chunk.
LEMMA TotalIsStream ==
  ASSUME NEW bytes \in Nat \ {0}
  PROVE  TotalEncrypted(bytes) = bytes + ReadCount(bytes) * Overhead
<1> DEFINE q == bytes \div ChunkSize
           r == bytes % ChunkSize
<1>1. ChunkSize \in Nat \ {0} /\ Overhead \in Nat \ {0}
  BY TransfersAssumption
<1>2. q \in Nat /\ r \in 0 .. ChunkSize - 1 /\ bytes = ChunkSize * q + r
  BY <1>1, SMT
<1>3. TotalEncrypted(bytes) =
        q * (ChunkSize + Overhead) + (IF r = 0 THEN 0 ELSE r + Overhead)
  BY DEF TotalEncrypted, Sealed
<1> HIDE DEF q, r
<1>4. q * (ChunkSize + Overhead) = ChunkSize * q + q * Overhead
  BY <1>1, <1>2, SMT
<1>5. CASE r = 0
  <2>1. bytes <= q * ChunkSize /\ q * ChunkSize <= bytes + ChunkSize - 1
    BY <1>1, <1>2, <1>5, SMT
  <2>2. ReadCount(bytes) = q
    BY <1>1, <1>2, <2>1, CeilingIsOnly DEF ReadCount
  <2>3. q * Overhead \in Nat /\ ChunkSize * q \in Nat
    BY <1>1, <1>2, SMT
  <2>4. QED BY <1>2, <1>3, <1>4, <1>5, <2>2, <2>3
<1>6. CASE r # 0
  <2>1. (q + 1) * ChunkSize = ChunkSize * q + ChunkSize /\ ChunkSize * q \in Nat
    BY <1>1, <1>2, SMT
  <2>2. bytes <= (q + 1) * ChunkSize /\ (q + 1) * ChunkSize <= bytes + ChunkSize - 1
    BY <1>1, <1>2, <1>6, <2>1
  <2>3. ReadCount(bytes) = q + 1
    BY <1>1, <1>2, <2>2, CeilingIsOnly DEF ReadCount
  <2>4. (q + 1) * Overhead = q * Overhead + Overhead /\ q * Overhead \in Nat
    BY <1>1, <1>2, SMT
  <2>5. QED BY <1>1, <1>2, <1>3, <1>4, <1>6, <2>1, <2>3, <2>4
<1>7. QED BY <1>5, <1>6

LEMMA TotalIsNat ==
  ASSUME NEW bytes \in Nat \ {0}
  PROVE  TotalEncrypted(bytes) \in Nat \ {0} /\ Sealed \in Nat \ {0}
<1>1. ReadCount(bytes) \in Nat /\ Overhead \in Nat /\ ChunkSize \in Nat \ {0}
  BY ReadCounts, TransfersAssumption
<1>2. ReadCount(bytes) * Overhead \in Nat
  BY <1>1, SMT
<1>3. QED BY <1>1, <1>2, TotalIsStream DEF Sealed

\* The session expects as many chunks as the client cuts the file into.
LEMMA SessionExpects ==
  ASSUME NEW bytes \in Nat \ {0}
  PROVE  SessionChunks(TotalEncrypted(bytes)) = ReadCount(bytes)
<1> DEFINE k == ReadCount(bytes)
           total == TotalEncrypted(bytes)
<1>1. /\ ChunkSize \in Nat \ {0} /\ Overhead \in Nat \ {0}
      /\ Sealed = ChunkSize + Overhead /\ Sealed \in Nat \ {0}
  BY TransfersAssumption DEF Sealed
<1>2. /\ k \in Nat \ {0} /\ bytes <= k * ChunkSize
      /\ k * ChunkSize <= bytes + ChunkSize - 1
  BY <1>1, ReadCounts, CeilingCounts DEF ReadCount
<1>3. total = bytes + k * Overhead /\ total \in Nat
  BY TotalIsStream, TotalIsNat
<1> HIDE DEF k, total
<1>4. /\ k * Sealed = k * ChunkSize + k * Overhead
      /\ k * ChunkSize \in Nat /\ k * Overhead \in Nat
  BY <1>1, <1>2, SMT
<1>5. total <= k * Sealed /\ k * Sealed <= total + Sealed - 1
  BY <1>1, <1>2, <1>3, <1>4
<1>6. QED BY <1>1, <1>2, <1>3, <1>5, CeilingIsOnly DEF SessionChunks, k, total

\* The i-th sealed chunk begins i * Sealed bytes into the stream; the last one
\* ends with it.
LEMMA StreamEnds ==
  ASSUME NEW bytes \in Nat \ {0}, NEW i \in 0 .. ReadCount(bytes) - 1
  PROVE  /\ i * Sealed \in Nat /\ ReadLength(bytes, i) \in Nat
         /\ i + 1 # ReadCount(bytes) =>
              /\ ReadLength(bytes, i) + Overhead = Sealed
              /\ i * Sealed + Sealed < TotalEncrypted(bytes)
         /\ i + 1 = ReadCount(bytes) =>
              /\ ReadLength(bytes, i) + Overhead = TotalEncrypted(bytes) - i * Sealed
              /\ i * Sealed + Sealed >= TotalEncrypted(bytes)
<1> DEFINE k == ReadCount(bytes)
           total == TotalEncrypted(bytes)
           length == ReadLength(bytes, i)
           from == i * ChunkSize
           to == (i + 1) * ChunkSize
<1>1. /\ ChunkSize \in Nat \ {0} /\ Overhead \in Nat \ {0}
      /\ Sealed = ChunkSize + Overhead
  BY TransfersAssumption DEF Sealed
<1>2. /\ k \in Nat \ {0} /\ i \in Nat /\ bytes <= k * ChunkSize
      /\ from \in Nat /\ from < bytes /\ (i + 1 # k => to < bytes)
  BY ReadCounts
<1>3. total = bytes + k * Overhead /\ total \in Nat
  BY TotalIsStream, TotalIsNat
<1>4. length = IF to <= bytes THEN ChunkSize ELSE bytes - from
  BY DEF ReadLength
<1>5. to = from + ChunkSize
  BY <1>1, <1>2, SMT
<1>6. /\ i * Sealed = from + i * Overhead /\ i * Overhead \in Nat
      /\ (i + 1) * Overhead = i * Overhead + Overhead
  BY <1>1, <1>2, SMT
<1>7. CASE i + 1 # k
  <2>1. (i + 1) * Overhead <= k * Overhead /\ k * Overhead \in Nat
    <3>1. i + 1 <= k /\ i + 1 \in Int /\ k \in Int
      BY <1>2
    <3>2. k * Overhead \in Nat
      BY <1>1, <1>2, SMT
    <3>3. QED BY <1>1, <3>1, <3>2, Stretch
  <2> HIDE DEF k, total, length, from, to
  <2>2. QED
    BY <1>1, <1>2, <1>3, <1>4, <1>5, <1>6, <1>7, <2>1 DEF k, total, length
<1>8. CASE i + 1 = k
  <2>1. bytes <= to
    BY <1>2, <1>8
  <2>2. k * Overhead = i * Overhead + Overhead
    BY <1>6, <1>8
  <2> HIDE DEF k, total, length, from, to
  <2>3. length = bytes - from /\ length \in Nat
    BY <1>1, <1>2, <1>4, <1>5, <2>1
  <2>4. total = bytes + i * Overhead + Overhead
    BY <1>1, <1>3, <1>6, <2>2
  <2>5. length + Overhead = total - i * Sealed
    BY <1>1, <1>2, <1>6, <2>3, <2>4
  <2>6. i * Sealed + Sealed >= total
    BY <1>1, <1>2, <1>5, <1>6, <2>1, <2>4
  <2>7. QED
    BY <1>1, <1>2, <1>6, <1>8, <2>3, <2>5, <2>6 DEF k, total, length
<1>9. QED BY <1>7, <1>8

\* The range that is served is the chunk as it was sealed.
LEMMA RangeIsSealed ==
  ASSUME NEW bytes \in Nat \ {0}, NEW i \in 0 .. ReadCount(bytes) - 1,
         NEW r, r.size = TotalEncrypted(bytes), NEW kind
  PROVE  RangeOf(kind, r, i) = SealedChunk(bytes, i)
<1> DEFINE start == i * Sealed
           total == TotalEncrypted(bytes)
           length == ReadLength(bytes, i) + Overhead
<1>1. start \in Nat /\ total \in Nat /\ Sealed \in Nat /\ length \in Nat
  BY StreamEnds, TotalIsNat, TransfersAssumption
<1>2. \/ length = Sealed /\ start + Sealed < total
      \/ length = total - start /\ start + Sealed >= total
  BY StreamEnds
<1>3. SealedChunk(bytes, i) = [start |-> start, length |-> length]
  BY DEF SealedChunk
<1>4. ChunkRange(r, i) =
        [start |-> start,
         length |-> (IF start + Sealed - 1 >= total - 1 THEN total - 1
                     ELSE start + Sealed - 1) - start + 1]
  BY DEF ChunkRange, LastByte
<1>5. BundleRange(r, i) =
        [start |-> start,
         length |-> IF total - start < Sealed THEN total - start ELSE Sealed]
  BY DEF BundleRange
<1> HIDE DEF start, total, length
<1>6. length = (IF start + Sealed - 1 >= total - 1 THEN total - 1
                ELSE start + Sealed - 1) - start + 1
  BY <1>1, <1>2
<1>7. length = IF total - start < Sealed THEN total - start ELSE Sealed
  BY <1>1, <1>2
<1>8. ChunkRange(r, i) = SealedChunk(bytes, i) /\ BundleRange(r, i) = SealedChunk(bytes, i)
  BY <1>3, <1>4, <1>5, <1>6, <1>7
<1>9. QED BY <1>8 DEF RangeOf, ShareChunkRange

\* The bytes of the first n chunks of a file.
Cut(bytes, n) == IF n * ChunkSize <= bytes THEN n * ChunkSize ELSE bytes

LEMMA CutGrows ==
  ASSUME NEW bytes \in Nat \ {0}
  PROVE  /\ Cut(bytes, 0) = 0
         /\ Cut(bytes, ReadCount(bytes)) = bytes
         /\ \A n \in 0 .. ReadCount(bytes) - 1 :
              /\ Cut(bytes, n) \in Nat /\ ReadLength(bytes, n) \in Nat
              /\ Cut(bytes, n + 1) = Cut(bytes, n) + ReadLength(bytes, n)
<1>1. ChunkSize \in Nat \ {0} /\ 0 * ChunkSize = 0
  BY TransfersAssumption, SMT
<1>2. Cut(bytes, 0) = 0
  BY <1>1 DEF Cut
<1>3. ASSUME NEW n \in 0 .. ReadCount(bytes) - 1
      PROVE  /\ Cut(bytes, n) \in Nat /\ ReadLength(bytes, n) \in Nat
             /\ Cut(bytes, n + 1) = Cut(bytes, n) + ReadLength(bytes, n)
  <2> DEFINE from == n * ChunkSize
             to == (n + 1) * ChunkSize
  <2>1. from \in Nat /\ from < bytes /\ n \in Nat
    BY ReadCounts
  <2>2. to = from + ChunkSize
    BY <1>1, <2>1, SMT
  <2>3. /\ Cut(bytes, n) = IF from <= bytes THEN from ELSE bytes
        /\ Cut(bytes, n + 1) = IF to <= bytes THEN to ELSE bytes
        /\ ReadLength(bytes, n) = IF to <= bytes THEN ChunkSize ELSE bytes - from
    BY DEF Cut, ReadLength
  <2> HIDE DEF from, to
  <2>4. QED BY <1>1, <2>1, <2>2, <2>3
<1>4. Cut(bytes, ReadCount(bytes)) = bytes
  <2>1. bytes <= ReadCount(bytes) * ChunkSize /\ ReadCount(bytes) * ChunkSize \in Nat
    BY <1>1, ReadCounts, SMT
  <2>2. QED BY <2>1 DEF Cut
<1>5. QED BY <1>2, <1>3, <1>4

-----------------------------------------------------------------------------
(***************************************************************************)
(* Transfers: the inductive invariant                                      *)
(***************************************************************************)
Pieces == ReadCount(sending.size)

\* The row that a completed upload writes.
RowOf ==
  [size   |-> TotalEncrypted(sending.measured),
   padded |-> TotalEncrypted(sending.measured) + sending.padding,
   count  |-> StoredCount(TotalEncrypted(sending.measured))]

Begun ==
  /\ sending.measured \in FileSizes /\ sending.size \in FileSizes
  /\ sending.padding \in Paddings

\* What was sent is as much of the file as its chunks hold.
SentSoFar ==
  sending.pc = "chunks" =>
    /\ sending.sent \in 0 .. Pieces /\ sending.sent <= Expected
    /\ sending.stored = Cut(sending.size, sending.sent) + sending.sent * Overhead
                         + (IF sending.sent = Expected THEN sending.padding ELSE 0)

RowIsFile ==
  /\ sending.pc = "done" => sending.size = sending.measured
  /\ fileRow # NoRow => sending.pc = "done" /\ fileRow = RowOf

\* What was read is as much of the file as the chunks that opened.
ReadSoFar ==
  reading.pc # "idle" =>
    /\ sending.pc = "done" /\ reading.row = RowOf
    /\ reading.got = Cut(sending.size, reading.next)
    /\ reading.next \in 0 .. reading.row.count
    /\ reading.next # 0 => reading.row.count = Pieces
    /\ reading.pc = "done" => reading.next = reading.row.count

TransfersInv ==
  /\ TransfersTypeOK
  /\ sending.pc = "idle" => sending = NotSending /\ fileRow = NoRow
  /\ sending.pc # "idle" => Begun
  /\ SentSoFar /\ RowIsFile /\ ReadSoFar

SendingRow == [pc: {"idle", "chunks", "done", "failed"}, measured: Nat, size: Nat,
               sent: Nat, stored: Nat, padding: Nat]
StoredRow == [size: Nat, padded: Nat, count: Nat]
ReadingRow == [pc: {"idle", "chunks", "done", "failed"},
               kind: {"owner", "share", "bundle"}, row: StoredRow, next: Nat,
               got: Nat]

LEMMA InitTransfers == TransfersInit => TransfersInv
  BY DEF TransfersInit, TransfersInv, TransfersTypeOK, NotSending, NoRow,
         NoReading, Places, SentSoFar, RowIsFile, ReadSoFar

\* The bounds of everything the chunks of a begun upload are computed from.
LEMMA BegunNumbers ==
  ASSUME Begun
  PROVE  /\ sending.measured \in Nat \ {0} /\ sending.size \in Nat \ {0}
         /\ sending.padding \in Nat /\ Pieces \in Nat \ {0}
         /\ Expected = ReadCount(sending.measured) /\ Expected \in Nat \ {0}
         /\ RowOf \in StoredRow /\ RowOf.size = TotalEncrypted(sending.measured)
         /\ RowOf.count \in Nat \ {0} /\ RowOf # NoRow
<1>1. /\ sending.measured \in Nat \ {0} /\ sending.size \in Nat \ {0}
      /\ sending.padding \in Nat
  BY TransfersAssumption DEF Begun
<1>2. Pieces \in Nat \ {0} /\ Expected = ReadCount(sending.measured)
      /\ Expected \in Nat \ {0}
  BY <1>1, ReadCounts, SessionExpects DEF Pieces, Expected
<1> DEFINE total == TotalEncrypted(sending.measured)
<1>3. total \in Nat \ {0} /\ ChunkSize \in Nat \ {0}
  BY <1>1, TotalIsNat, TransfersAssumption
<1> HIDE DEF total
<1>4. StoredCount(total) \in Nat /\ total <= StoredCount(total) * ChunkSize
  BY <1>3, CeilingCounts DEF StoredCount
<1>5. StoredCount(total) # 0
  BY <1>3, <1>4, SMT
<1>6. RowOf = [size |-> total, padded |-> total + sending.padding,
               count |-> StoredCount(total)]
  BY DEF RowOf, total
<1>7. RowOf \in StoredRow /\ RowOf.size = total /\ RowOf.count = StoredCount(total)
  BY <1>1, <1>3, <1>4, <1>6 DEF StoredRow
<1>8. RowOf # NoRow
  BY <1>3, <1>7 DEF NoRow
<1>9. QED BY <1>1, <1>2, <1>4, <1>5, <1>7, <1>8 DEF total

-----------------------------------------------------------------------------
(* Transfers: the steps of an upload.                                      *)

LEMMA StartedKeeps ==
  ASSUME TransfersInv, UploadStarted
  PROVE  TransfersInv'
<1>1. PICK measured \in FileSizes, bytes \in FileSizes, padding \in Paddings :
        sending' = [NotSending EXCEPT !.pc = "chunks", !.measured = measured,
                                      !.size = bytes, !.padding = padding]
  BY DEF UploadStarted
<1>2. measured \in Nat \ {0} /\ bytes \in Nat \ {0} /\ padding \in Nat
  BY TransfersAssumption
<1>3. /\ sending' \in SendingRow /\ sending'.pc = "chunks"
      /\ sending'.measured = measured /\ sending'.size = bytes
      /\ sending'.padding = padding /\ sending'.sent = 0 /\ sending'.stored = 0
  BY <1>1, <1>2 DEF NotSending, SendingRow
<1>4. Begun'
  BY <1>3 DEF Begun
<1>5. /\ Pieces' \in Nat \ {0} /\ Expected' \in Nat \ {0}
  <2>1. Pieces' = ReadCount(bytes) /\ Expected' = ReadCount(measured)
    BY <1>2, <1>3, SessionExpects DEF Pieces, Expected
  <2>2. QED BY <1>2, <2>1, ReadCounts
<1>6. SentSoFar'
  <2>1. Cut(bytes, 0) = 0 /\ 0 * Overhead = 0
    BY <1>2, CutGrows, TransfersAssumption, SMT
  <2>2. 0 \in 0 .. Pieces' /\ 0 <= Expected' /\ 0 # Expected'
    BY <1>5
  <2>3. QED BY <1>3, <2>1, <2>2 DEF SentSoFar
<1>7. /\ sending.pc = "idle" /\ fileRow' = NoRow /\ reading' = reading
      /\ reading.pc = "idle"
  BY DEF UploadStarted, TransfersInv, ReadSoFar
<1>8. TransfersTypeOK'
  BY <1>3 DEF UploadStarted, TransfersInv, TransfersTypeOK, SendingRow
<1>9. QED
  BY <1>3, <1>4, <1>6, <1>7, <1>8 DEF TransfersInv, RowIsFile, ReadSoFar

\* The record of an upload with another chunk.
WithChunk(w, count, kept) == [w EXCEPT !.sent = count, !.stored = kept]

LEMMA ChunkIsAdded ==
  ASSUME NEW w \in SendingRow, NEW count \in Nat, NEW kept \in Nat
  PROVE  LET x == WithChunk(w, count, kept)
         IN /\ x \in SendingRow /\ x.pc = w.pc /\ x.measured = w.measured
            /\ x.size = w.size /\ x.padding = w.padding /\ x.sent = count
            /\ x.stored = kept
  BY DEF WithChunk, SendingRow

LEMMA SentKeeps ==
  ASSUME TransfersInv, ChunkSent
  PROVE  TransfersInv'
<1> DEFINE n == sending.sent
           bytes == sending.size
           last == IF n = Expected - 1 THEN sending.padding ELSE 0
           kept == sending.stored + ReadLength(bytes, n) + Overhead + last
<1>1. /\ sending \in SendingRow /\ sending.pc = "chunks" /\ Begun /\ SentSoFar
      /\ fileRow = NoRow /\ reading.pc = "idle" /\ TransfersTypeOK
      /\ n \in Nat /\ n < Pieces /\ sending.stored \in Nat
  BY DEF TransfersInv, TransfersTypeOK, SendingRow, ChunkSent, RowIsFile, ReadSoFar,
         Pieces
<1>2. /\ bytes \in Nat \ {0} /\ sending.padding \in Nat /\ Overhead \in Nat
      /\ Expected \in Nat \ {0} /\ Pieces \in Nat \ {0} /\ Pieces = ReadCount(bytes)
  BY <1>1, BegunNumbers, TransfersAssumption DEF Pieces
<1>3. CASE n >= Expected
  <2>1. sending' = [sending EXCEPT !.pc = "failed"]
    BY <1>3 DEF ChunkSent
  <2>2. /\ sending' \in SendingRow /\ sending'.pc = "failed"
        /\ sending'.measured = sending.measured /\ sending'.size = bytes
        /\ sending'.padding = sending.padding
    BY <1>1, <2>1 DEF SendingRow
  <2>3. QED
    BY <1>1, <2>2
    DEF ChunkSent, TransfersInv, TransfersTypeOK, SendingRow, Begun, SentSoFar,
        RowIsFile, ReadSoFar
<1>4. CASE ~(n >= Expected)
  <2>1. sending' = [sending EXCEPT !.sent = n + 1, !.stored = kept]
    BY <1>4 DEF ChunkSent
  <2>2. /\ Cut(bytes, n) \in Nat /\ ReadLength(bytes, n) \in Nat
        /\ Cut(bytes, n + 1) = Cut(bytes, n) + ReadLength(bytes, n)
    BY <1>1, <1>2, CutGrows
  <2>3. kept \in Nat
    BY <1>1, <1>2, <2>2
  <2>4. (n + 1) * Overhead = n * Overhead + Overhead /\ n * Overhead \in Nat
    BY <1>1, <1>2, SMT
  <2>5. kept = Cut(bytes, n + 1) + (n + 1) * Overhead
                 + (IF n + 1 = Expected THEN sending.padding ELSE 0)
    <3>1. sending.stored = Cut(bytes, n) + n * Overhead
      BY <1>1, <1>2, <1>4, <2>2, <2>4 DEF SentSoFar
    <3>2. last = IF n + 1 = Expected THEN sending.padding ELSE 0
      BY <1>1, <1>2
    <3> HIDE DEF last
    <3>3. last \in Nat
      BY <1>2, <3>2
    <3>4. QED BY <1>1, <1>2, <2>2, <2>4, <3>1, <3>2, <3>3
  <2> HIDE DEF kept
  <2>6. /\ sending' \in SendingRow /\ sending'.pc = "chunks"
        /\ sending'.measured = sending.measured /\ sending'.size = bytes
        /\ sending'.padding = sending.padding /\ sending'.sent = n + 1
        /\ sending'.stored = kept
    <3>1. PICK w \in SendingRow, c \in Nat, k \in Nat :
            w = sending /\ c = n + 1 /\ k = kept
      BY <1>1, <2>3
    <3>2. sending' = WithChunk(w, c, k)
      BY <2>1, <3>1 DEF WithChunk
    <3>3. /\ sending' \in SendingRow /\ sending'.pc = w.pc
          /\ sending'.measured = w.measured /\ sending'.size = w.size
          /\ sending'.padding = w.padding /\ sending'.sent = c
          /\ sending'.stored = k
      BY <3>2, ChunkIsAdded
    <3>4. QED BY <1>1, <3>1, <3>3
  <2>7. Expected' = Expected /\ Pieces' = Pieces /\ Begun'
    BY <1>1, <2>6 DEF Expected, Pieces, Begun
  <2>8. n + 1 \in 0 .. Pieces /\ n + 1 <= Expected
    BY <1>1, <1>2, <1>4
  <2>9. SentSoFar'
    BY <2>5, <2>6, <2>7, <2>8 DEF SentSoFar
  <2>10. QED
    BY <1>1, <2>6, <2>7, <2>9
    DEF ChunkSent, TransfersInv, TransfersTypeOK, SendingRow, RowIsFile, ReadSoFar
<1>5. QED BY <1>3, <1>4

\* The number of bytes says that the file is as long as it was measured.
LEMMA CompletedIsFile ==
  ASSUME TransfersInv, sending.pc = "chunks", sending.sent = Pieces,
         sending.sent = Expected,
         sending.stored = TotalEncrypted(sending.measured) + sending.padding
  PROVE  sending.size = sending.measured
<1> DEFINE n == sending.sent
<1>1. Begun /\ SentSoFar
  BY DEF TransfersInv
<1>2. /\ sending.measured \in Nat \ {0} /\ sending.size \in Nat \ {0}
      /\ sending.padding \in Nat /\ n \in Nat \ {0} /\ n = ReadCount(sending.size)
      /\ n = ReadCount(sending.measured) /\ Overhead \in Nat
  BY <1>1, BegunNumbers, TransfersAssumption DEF Pieces
<1>3. n * Overhead \in Nat
  BY <1>2, SMT
<1>4. sending.stored = sending.size + n * Overhead + sending.padding
  <2>1. Cut(sending.size, n) = sending.size
    BY <1>2, CutGrows
  <2>2. QED BY <1>1, <2>1 DEF SentSoFar
<1>5. sending.stored = sending.measured + n * Overhead + sending.padding
  BY <1>2, TotalIsStream
<1> DEFINE sealing == n * Overhead
<1>6. sealing \in Nat
  BY <1>3
<1>7. sending.size + sealing + sending.padding = sending.measured + sealing + sending.padding
  BY <1>4, <1>5
<1> HIDE DEF sealing
<1>8. QED BY <1>2, <1>6, <1>7

LEMMA CompletedKeeps ==
  ASSUME TransfersInv, UploadCompleted
  PROVE  TransfersInv'
<1> DEFINE total == TotalEncrypted(sending.measured)
<1>1. /\ sending \in SendingRow /\ sending.pc = "chunks" /\ Begun
      /\ fileRow = NoRow /\ reading.pc = "idle" /\ TransfersTypeOK
      /\ sending.sent = Pieces
  BY DEF TransfersInv, TransfersTypeOK, SendingRow, UploadCompleted, RowIsFile,
         ReadSoFar, Pieces
<1>2. PICK pc \in {"done", "failed"} : sending' = [sending EXCEPT !.pc = pc]
  BY DEF UploadCompleted
<1>3. /\ sending' \in SendingRow /\ sending'.pc = pc
      /\ sending'.measured = sending.measured /\ sending'.size = sending.size
      /\ sending'.padding = sending.padding
  BY <1>1, <1>2 DEF SendingRow
<1>4. Begun' /\ RowOf' = RowOf /\ RowOf \in StoredRow /\ NoRow \in StoredRow
  BY <1>1, <1>3, BegunNumbers DEF Begun, RowOf, NoRow, StoredRow
<1>5. CASE sending.sent = Expected /\ sending.stored = total + sending.padding
  <2>1. sending.size = sending.measured
    BY <1>1, <1>5, CompletedIsFile
  <2>2. sending' = [sending EXCEPT !.pc = "done"] /\ fileRow' = RowOf
        /\ copies' = {"primary"}
    BY <1>5 DEF UploadCompleted, RowOf
  <2>3. sending'.pc = "done"
    BY <1>1, <2>2 DEF SendingRow
  <2>4. QED
    BY <1>1, <1>3, <1>4, <2>1, <2>2, <2>3
    DEF UploadCompleted, TransfersInv, TransfersTypeOK, SendingRow, StoredRow,
        SentSoFar, RowIsFile, ReadSoFar, Places
<1>6. CASE ~(sending.sent = Expected /\ sending.stored = total + sending.padding)
  <2>1. sending' = [sending EXCEPT !.pc = "failed"] /\ UNCHANGED <<fileRow, copies>>
    BY <1>6 DEF UploadCompleted
  <2>2. sending'.pc = "failed"
    BY <1>1, <2>1 DEF SendingRow
  <2>3. QED
    BY <1>1, <1>3, <1>4, <2>1, <2>2
    DEF UploadCompleted, TransfersInv, TransfersTypeOK, SendingRow, SentSoFar,
        RowIsFile, ReadSoFar
<1>7. QED BY <1>5, <1>6

-----------------------------------------------------------------------------
(* Transfers: the steps of a download.                                     *)

\* Only the download changes, and the row it goes by stays the file's.
Reads == UNCHANGED <<sending, fileRow, copies, places>>

LEMMA ReadingKeeps ==
  ASSUME TransfersInv, Reads, reading' \in ReadingRow, ReadSoFar'
  PROVE  TransfersInv'
<1>1. TransfersTypeOK'
  BY DEF TransfersInv, TransfersTypeOK, Reads, ReadingRow, StoredRow
<1>2. /\ Begun' = Begun /\ SentSoFar' = SentSoFar /\ RowIsFile' = RowIsFile
  BY DEF Reads, Begun, SentSoFar, RowIsFile, RowOf, Pieces, Expected
<1>3. QED BY <1>1, <1>2 DEF TransfersInv, Reads

\* What a download under way has.
LEMMA ReadingHas ==
  ASSUME TransfersInv, reading.pc # "idle"
  PROVE  /\ Begun /\ sending.size = sending.measured
         /\ reading \in ReadingRow /\ reading.row = RowOf
         /\ reading.row.count \in Nat \ {0} /\ reading.next \in Nat
         /\ reading.got \in Nat
         /\ reading.kind \in {"owner", "share", "bundle"}
<1>1. /\ sending.pc = "done" /\ reading.row = RowOf /\ Begun
      /\ sending.size = sending.measured /\ reading \in ReadingRow
  BY DEF TransfersInv, TransfersTypeOK, ReadSoFar, RowIsFile, ReadingRow, StoredRow
<1>2. QED BY <1>1, BegunNumbers DEF ReadingRow

LEMMA BegunKeeps ==
  ASSUME TransfersInv, NEW kind \in {"owner", "share", "bundle"}, DownloadBegun(kind)
  PROVE  TransfersInv'
<1>1. /\ sending.pc = "done" /\ fileRow = RowOf /\ Begun
      /\ sending.size \in Nat \ {0} /\ RowOf \in StoredRow
      /\ RowOf.count \in Nat
  BY BegunNumbers DEF DownloadBegun, TransfersInv, RowIsFile
<1>2. reading' = [NoReading EXCEPT !.pc = "chunks", !.kind = kind, !.row = fileRow]
  BY DEF DownloadBegun
<1>3. /\ reading' \in ReadingRow /\ reading'.pc = "chunks" /\ reading'.row = RowOf
      /\ reading'.next = 0 /\ reading'.got = 0
  BY <1>1, <1>2 DEF NoReading, ReadingRow
<1>4. Reads
  BY DEF DownloadBegun, Reads
<1>5. sending' = sending /\ RowOf' = RowOf /\ Pieces' = Pieces
  BY <1>4 DEF Reads, RowOf, Pieces
<1>6. ReadSoFar'
  <2>1. Cut(sending.size, 0) = 0
    BY <1>1, CutGrows
  <2>2. QED BY <1>1, <1>3, <1>5, <2>1 DEF ReadSoFar
<1>7. QED BY <1>3, <1>4, <1>6, ReadingKeeps

\* The record of a download with another chunk.
WithPiece(w, next, got) == [w EXCEPT !.next = next, !.got = got]

LEMMA PieceIsAdded ==
  ASSUME NEW w \in ReadingRow, NEW next \in Nat, NEW got \in Nat
  PROVE  LET x == WithPiece(w, next, got)
         IN /\ x \in ReadingRow /\ x.pc = w.pc /\ x.row = w.row
            /\ x.next = next /\ x.got = got
  BY DEF WithPiece, ReadingRow

LEMMA PieceEnds ==
  ASSUME NEW w \in ReadingRow, NEW pc \in {"done", "failed"}
  PROVE  LET x == [w EXCEPT !.pc = pc]
         IN /\ x \in ReadingRow /\ x.pc = pc /\ x.row = w.row
            /\ x.next = w.next /\ x.got = w.got
  BY DEF ReadingRow

LEMMA EndedKeeps ==
  ASSUME TransfersInv, Reads, reading.pc # "idle",
         NEW pc \in {"done", "failed"}, reading' = [reading EXCEPT !.pc = pc],
         pc = "done" => reading.next = reading.row.count
  PROVE  TransfersInv'
<1>1. /\ reading' \in ReadingRow /\ reading'.pc = pc /\ reading'.row = reading.row
      /\ reading'.next = reading.next /\ reading'.got = reading.got
  BY ReadingHas, PieceEnds
<1>2. sending' = sending /\ RowOf' = RowOf /\ Pieces' = Pieces
  BY DEF Reads, RowOf, Pieces
<1>3. ReadSoFar'
  BY <1>1, <1>2 DEF TransfersInv, ReadSoFar
<1>4. QED BY <1>1, <1>3, ReadingKeeps

LEMMA FetchedKeeps ==
  ASSUME TransfersInv, ChunkFetched
  PROVE  TransfersInv'
<1> DEFINE n == reading.next
           bytes == sending.size
           got == reading.got + ReadLength(bytes, n)
<1>1. Reads /\ reading.pc = "chunks" /\ n < reading.row.count
  BY DEF ChunkFetched, Reads
<1>2. /\ Begun /\ bytes = sending.measured /\ reading \in ReadingRow
      /\ reading.row.count \in Nat \ {0} /\ n \in Nat /\ reading.got \in Nat
      /\ reading.got = Cut(bytes, n)
  BY <1>1, ReadingHas DEF TransfersInv, ReadSoFar
<1>3. bytes \in Nat \ {0} /\ Pieces \in Nat \ {0} /\ Pieces = ReadCount(bytes)
  BY <1>2, BegunNumbers DEF Pieces
<1>4. CASE ~Opens(reading.kind, reading.row, n)
  <2>1. reading' = [reading EXCEPT !.pc = "failed"]
    BY <1>4 DEF ChunkFetched
  <2>2. QED BY <1>1, <2>1, EndedKeeps
<1>5. CASE Opens(reading.kind, reading.row, n)
  <2>1. n < Pieces /\ reading.row.count = Pieces
    BY <1>2, <1>5 DEF Opens, Pieces
  <2>2. /\ ReadLength(bytes, n) \in Nat
        /\ Cut(bytes, n + 1) = Cut(bytes, n) + ReadLength(bytes, n)
    BY <1>2, <1>3, <2>1, CutGrows
  <2>3. reading' = [reading EXCEPT !.next = n + 1, !.got = got]
    BY <1>5 DEF ChunkFetched
  <2>4. reading' = WithPiece(reading, n + 1, got)
    BY <2>3 DEF WithPiece
  <2>5. got \in Nat /\ n + 1 \in Nat /\ got = Cut(bytes, n + 1)
    BY <1>2, <2>2
  <2>6. n + 1 \in 0 .. reading.row.count
    BY <1>1, <1>2
  <2>7. sending' = sending /\ RowOf' = RowOf /\ Pieces' = Pieces
    BY <1>1 DEF Reads, RowOf, Pieces
  <2>8. /\ reading' \in ReadingRow /\ reading'.pc = reading.pc
        /\ reading'.row = reading.row /\ reading'.next = n + 1 /\ reading'.got = got
    <3>1. PICK w \in ReadingRow, c \in Nat, k \in Nat :
            w = reading /\ c = n + 1 /\ k = got
      BY <1>2, <2>5
    <3>2. reading' = WithPiece(w, c, k)
      BY <2>4, <3>1
    <3>3. /\ reading' \in ReadingRow /\ reading'.pc = w.pc
          /\ reading'.row = w.row /\ reading'.next = c /\ reading'.got = k
      BY <3>2, PieceIsAdded
    <3>4. QED BY <3>1, <3>3
  <2> HIDE DEF n, got, bytes
  <2>9. ReadSoFar'
    BY <1>1, <2>1, <2>5, <2>6, <2>7, <2>8 DEF TransfersInv, ReadSoFar, bytes
  <2>10. QED BY <1>1, <2>8, <2>9, ReadingKeeps
<1>6. QED BY <1>4, <1>5

LEMMA NextTransfers ==
  ASSUME TransfersInv, TransfersNext
  PROVE  TransfersInv'
<1>1. CASE UploadStarted
  BY <1>1, StartedKeeps
<1>2. CASE ChunkSent
  BY <1>2, SentKeeps
<1>3. CASE UploadCompleted
  BY <1>3, CompletedKeeps
<1>4. CASE CopyMade \/ CopyLost
  BY <1>4
  DEF CopyMade, CopyLost, TransfersInv, TransfersTypeOK, Begun, SentSoFar,
      RowIsFile, ReadSoFar, RowOf, Pieces, Expected
<1>5. CASE ObjectsDeleted
  BY <1>5
  DEF ObjectsDeleted, TransfersInv, TransfersTypeOK, NoRow, Begun, SentSoFar,
      RowIsFile, ReadSoFar, RowOf, Pieces, Expected
<1>6. CASE OwnerDownloads \/ VisitorDownloads \/ BundleWritten
  BY <1>6, BegunKeeps DEF OwnerDownloads, VisitorDownloads, BundleWritten
<1>7. CASE ChunkFetched
  BY <1>7, FetchedKeeps
<1>8. CASE ChunkRefused
  BY <1>8, EndedKeeps DEF ChunkRefused, Reads
<1>9. CASE DownloadDone
  BY <1>9, EndedKeeps DEF DownloadDone, Reads
<1>10. QED
  BY <1>1, <1>2, <1>3, <1>4, <1>5, <1>6, <1>7, <1>8, <1>9 DEF TransfersNext

LEMMA TransfersInvariant == TransfersSpec => []TransfersInv
<1>1. TransfersInv /\ [TransfersNext]_transfersVars => TransfersInv'
  <2>1. CASE TransfersInv /\ UNCHANGED transfersVars
    BY <2>1
    DEF transfersVars, TransfersInv, TransfersTypeOK, Begun, SentSoFar, RowIsFile,
        ReadSoFar, RowOf, Pieces, Expected
  <2>2. QED BY <2>1, NextTransfers
<1>2. QED BY InitTransfers, <1>1, PTL DEF TransfersSpec

(* Every variable of the transfers keeps its type.                         *)
THEOREM TransfersTypeCorrect == TransfersSpec => []TransfersTypeOK
<1>1. TransfersInv => TransfersTypeOK
  BY DEF TransfersInv
<1>2. QED BY <1>1, TransfersInvariant, PTL

(* For every chunk bytes, every overhead of the cipher and every bytes of a  *)
(* file and its padding, the range that is served for a chunk is the chunk *)
(* as it was sealed, and a download that ends well has the whole file      *)
(* (handlers/downloads.go:80, file_shares.go:852, offline_decrypt.go:340,  *)
(* commands.go:819).                                                       *)
THEOREM TransfersKept == TransfersSpec => []TransfersHold
<1>1. TransfersInv => ServedIsSealed
  <2>1. SUFFICES ASSUME TransfersInv, fileRow # NoRow,
                        NEW i \in 0 .. ReadCount(sending.size) - 1,
                        NEW kind \in {"owner", "share", "bundle"}
                 PROVE  RangeOf(kind, fileRow, i) = SealedChunk(sending.size, i)
    BY DEF ServedIsSealed
  <2>2. Begun /\ sending.size = sending.measured /\ fileRow = RowOf
    BY <2>1 DEF TransfersInv, RowIsFile
  <2>3. /\ sending.size \in Nat \ {0}
        /\ fileRow.size = TotalEncrypted(sending.size)
    BY <2>2, BegunNumbers
  <2>4. QED BY <2>1, <2>3, RangeIsSealed
<1>2. TransfersInv => DownloadedIsFile
  <2>1. SUFFICES ASSUME TransfersInv, reading.pc = "done"
                 PROVE  reading.got = sending.measured
    BY DEF DownloadedIsFile
  <2>2. /\ Begun /\ sending.size = sending.measured
        /\ reading.row.count \in Nat \ {0}
    BY <2>1, ReadingHas
  <2>3. /\ reading.got = Cut(sending.size, reading.next)
        /\ reading.next = reading.row.count /\ reading.row.count = Pieces
    BY <2>1, <2>2 DEF TransfersInv, ReadSoFar
  <2>4. sending.size \in Nat \ {0}
    BY <2>2, BegunNumbers
  <2>5. QED BY <2>2, <2>3, <2>4, CutGrows DEF Pieces
<1>3. QED BY <1>1, <1>2, TransfersInvariant, PTL DEF TransfersHold

-----------------------------------------------------------------------------
(***************************************************************************)
(* The machines side by side                                               *)
(***************************************************************************)

\* Whichever machine is explored, each of them keeps to its specification.
LEMMA FilesParts == FilesSpec => Spec /\ RemovalSpec /\ TransfersSpec
<1>1. FilesInit => Init /\ RemovalInit /\ TransfersInit
  BY DEF FilesInit
<1>2. [FilesNext]_FilesVars =>
        [Next]_vars /\ [RemovalNext]_removalVars /\ [TransfersNext]_transfersVars
  BY DEF FilesNext, FilesVars
<1>3. QED
  BY <1>1, <1>2, PTL DEF FilesSpec, Spec, RemovalSpec, TransfersSpec

(* Whichever of the machines is at work, its variables have the types they *)
(* should.                                                                 *)
THEOREM FilesTypeCorrect == FilesSpec => []FilesTypeOK
<1>1. TypeOK /\ RemovalTypeOK /\ TransfersTypeOK => FilesTypeOK
  BY DEF FilesTypeOK
<1>2. QED
  BY <1>1, FilesParts, TypeCorrect, RemovalTypeCorrect, TransfersTypeCorrect, PTL
=============================================================================
