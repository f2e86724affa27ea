------------------------------ MODULE Transfers ------------------------------
(***************************************************************************)
(* The bytes of one file from the client's disk to the object in storage   *)
(* and back: how the client cuts and seals it, what the server counts and  *)
(* stores, which range it answers a request for a chunk with, and how a    *)
(* download, a visitor's download of a share and an offline bundle put the *)
(* file together again (cmd/arkfile-client/commands.go, offline_decrypt.go,*)
(* handlers/uploads.go, downloads.go, file_shares.go, export.go).          *)
(* A sealed chunk opens only with its index and the number of chunks that  *)
(* it was sealed with.                                                     *)
(***************************************************************************)
EXTENDS Integers

CONSTANTS
  ChunkSize,   \* plaintextChunkSizeBytes of chunking-params.json: 16 MiB
  Overhead,    \* nonce and tag of AES-GCM: 28
  FileSizes,   \* sizes a file on the client's disk may have
  Paddings     \* what CalculatePaddedSize adds

ASSUME TransfersAssumption ==
  /\ ChunkSize \in Nat \ {0}
  /\ Overhead \in Nat \ {0}
  /\ FileSizes \subseteq Nat \ {0}
  /\ Paddings \subseteq Nat

Places == {"primary", "secondary", "tertiary"}

VARIABLES
  sending,  \* the upload: measured and real size, chunks sent, bytes stored
  fileRow,  \* the row of file_metadata
  copies,   \* providers that hold the object
  places,   \* providers configured
  reading   \* the download: its kind, the row it read, next chunk, bytes

transfersVars == <<sending, fileRow, copies, places, reading>>

Ceiling(a, b) == (a + b - 1) \div b

Sealed == ChunkSize + Overhead

\* doChunkedUpload reads the file in chunks until its end.
ReadCount(size) == Ceiling(size, ChunkSize)

ReadLength(size, i) ==
  IF (i + 1) * ChunkSize <= size THEN ChunkSize ELSE size - i * ChunkSize

\* calculateTotalEncryptedSize
TotalEncrypted(size) ==
  (size \div ChunkSize) * Sealed
    + (IF size % ChunkSize = 0 THEN 0 ELSE (size % ChunkSize) + Overhead)

\* CreateUploadSession: total_chunks of the session.
SessionChunks(total) == Ceiling(total, Sealed)

\* CompleteUpload: chunk_count of the file.
StoredCount(total) == Ceiling(total, ChunkSize)

NotSending == [pc |-> "idle", measured |-> 0, size |-> 0, sent |-> 0, stored |-> 0,
         padding |-> 0]
NoRow == [size |-> 0, padded |-> 0, count |-> 0]
NoReading == [pc |-> "idle", kind |-> "owner", row |-> NoRow, next |-> 0, got |-> 0]

TransfersTypeOK ==
  /\ sending \in [pc: {"idle", "chunks", "done", "failed"}, measured: Nat, size: Nat,
                  sent: Nat, stored: Nat, padding: Nat]
  /\ fileRow \in [size: Nat, padded: Nat, count: Nat]
  /\ copies \subseteq Places
  /\ places \subseteq Places
  /\ reading \in [pc: {"idle", "chunks", "done", "failed"},
                  kind: {"owner", "share", "bundle"},
                  row: [size: Nat, padded: Nat, count: Nat], next: Nat, got: Nat]

TransfersInit ==
  /\ sending = NotSending
  /\ fileRow = NoRow
  /\ copies = {}
  /\ places \in {{"primary"}, {"primary", "secondary"}, Places}
  /\ reading = NoReading

-----------------------------------------------------------------------------
(* Uploading.                                                              *)

\* uploadOneFile measures the file and CreateUploadSession makes a row of
\* that; what is read afterwards may have grown or shrunk.
UploadStarted ==
  /\ sending.pc = "idle"
  /\ \E measured, size \in FileSizes, padding \in Paddings :
       sending' = [NotSending EXCEPT !.pc = "chunks", !.measured = measured,
                               !.size = size, !.padding = padding]
  /\ UNCHANGED <<fileRow, copies, places, reading>>

Expected == SessionChunks(TotalEncrypted(sending.measured))

\* UploadChunk; the last chunk the session expects takes the padding along.
ChunkSent ==
  /\ sending.pc = "chunks"
  /\ sending.sent < ReadCount(sending.size)
  /\ sending' =
       IF sending.sent >= Expected
       THEN [sending EXCEPT !.pc = "failed"]
       ELSE [sending EXCEPT
              !.sent = @ + 1,
              !.stored = @ + ReadLength(sending.size, sending.sent) + Overhead
                           + (IF sending.sent = Expected - 1 THEN sending.padding ELSE 0)]
  /\ UNCHANGED <<fileRow, copies, places, reading>>

\* CompleteUpload: every chunk is there and the bytes are as many as announced.
UploadCompleted ==
  /\ sending.pc = "chunks"
  /\ sending.sent = ReadCount(sending.size)
  /\ LET total == TotalEncrypted(sending.measured) IN
     IF sending.sent = Expected /\ sending.stored = total + sending.padding
     THEN /\ sending' = [sending EXCEPT !.pc = "done"]
          /\ fileRow' = [size |-> total, padded |-> total + sending.padding,
                     count |-> StoredCount(total)]
          /\ copies' = {"primary"}
     ELSE /\ sending' = [sending EXCEPT !.pc = "failed"]
          /\ UNCHANGED <<fileRow, copies>>
  /\ UNCHANGED <<places, reading>>

\* A copy task has made another copy, or the first provider lost its own.
CopyMade ==
  /\ fileRow # NoRow
  /\ \E s \in places \ copies : copies' = copies \cup {s}
  /\ UNCHANGED <<sending, fileRow, places, reading>>

CopyLost ==
  /\ \E s \in copies : copies' = copies \ {s}
  /\ UNCHANGED <<sending, fileRow, places, reading>>

ObjectsDeleted ==
  /\ fileRow # NoRow
  /\ fileRow' = NoRow
  /\ copies' = {}
  /\ UNCHANGED <<sending, places, reading>>

-----------------------------------------------------------------------------
(* What is served and how it is cut again.                                 *)

\* The i-th sealed chunk in the object.
SealedChunk(size, i) ==
  [start |-> i * Sealed, length |-> ReadLength(size, i) + Overhead]

\* Mutant: the range ends with the object, padding included.
LastBytePadded(r) == r.padded - 1

\* The end of the encrypted stream, not of the object.
LastByte(r) == r.size - 1

\* DownloadFileChunk; a length below one is refused.
ChunkRange(r, i) ==
  LET start == i * Sealed
      end == IF start + Sealed - 1 >= LastByte(r) THEN LastByte(r) ELSE start + Sealed - 1
  IN [start |-> start, length |-> end - start + 1]

\* DownloadShareChunk computes it alike.
ShareChunkRange(r, i) == ChunkRange(r, i)

\* decryptBundleBlob: what is left of the stream, a chunk at a time.
BundleRange(r, i) ==
  LET left == r.size - i * Sealed
  IN [start |-> i * Sealed, length |-> IF left < Sealed THEN left ELSE Sealed]

RangeOf(kind, r, i) ==
  IF kind = "owner" THEN ChunkRange(r, i)
  ELSE IF kind = "share" THEN ShareChunkRange(r, i) ELSE BundleRange(r, i)

\* decryptChunk
Opens(kind, r, i) ==
  /\ i < ReadCount(sending.size)
  /\ RangeOf(kind, r, i) = SealedChunk(sending.size, i)
  /\ r.count = ReadCount(sending.measured)

\* GetObjectChunkWithFallback asks one provider after the other; one that is
\* down is a refusal.
ChunkServed == copies \cap places # {}

\* GetObjectWithFallback does so for the whole object.
ObjectServed == copies \cap places # {}

-----------------------------------------------------------------------------
(* Downloading.                                                            *)

DownloadBegun(kind) ==
  /\ reading.pc = "idle"
  /\ fileRow # NoRow
  /\ reading' = [NoReading EXCEPT !.pc = "chunks", !.kind = kind, !.row = fileRow]
  /\ UNCHANGED <<sending, fileRow, copies, places>>

\* handleDownloadCommand and handleShareDownload ask for the row.
OwnerDownloads == DownloadBegun("owner")
VisitorDownloads == DownloadBegun("share")

\* ExportFile and streamExportBundle write row and object to a bundle.
BundleWritten == ObjectServed /\ DownloadBegun("bundle")

\* doChunkedDownload: the server looks the row up for every chunk; an offline
\* bundle needs no server.
ChunkFetched ==
  /\ reading.pc = "chunks"
  /\ reading.next < reading.row.count
  /\ reading.kind = "bundle" \/ (fileRow # NoRow /\ ChunkServed)
  /\ reading' =
       IF Opens(reading.kind, reading.row, reading.next)
       THEN [reading EXCEPT !.next = @ + 1,
                            !.got = @ + ReadLength(sending.size, reading.next)]
       ELSE [reading EXCEPT !.pc = "failed"]
  /\ UNCHANGED <<sending, fileRow, copies, places>>

\* Any answer but a chunk ends the download, which removes its output.
ChunkRefused ==
  /\ reading.pc = "chunks" /\ reading.kind # "bundle"
  /\ reading' = [reading EXCEPT !.pc = "failed"]
  /\ UNCHANGED <<sending, fileRow, copies, places>>

DownloadDone ==
  /\ reading.pc = "chunks"
  /\ reading.next = reading.row.count
  /\ reading' = [reading EXCEPT !.pc = "done"]
  /\ UNCHANGED <<sending, fileRow, copies, places>>

TransfersNext ==
  \/ UploadStarted \/ ChunkSent \/ UploadCompleted
  \/ CopyMade \/ CopyLost \/ ObjectsDeleted
  \/ OwnerDownloads \/ VisitorDownloads \/ BundleWritten
  \/ ChunkFetched \/ ChunkRefused \/ DownloadDone

TransfersSpec == TransfersInit /\ [][TransfersNext]_transfersVars

-----------------------------------------------------------------------------
(* Properties.                                                             *)

(* Whatever the size of a file and of its padding, the range the server    *)
(* serves for a chunk, to its owner or through a share, and the piece an   *)
(* offline bundle is cut into are the chunk as it was sealed               *)
(* (handlers/downloads.go:80, file_shares.go:852, offline_decrypt.go:340). *)
ServedIsSealed ==
  fileRow # NoRow =>
    \A i \in 0 .. ReadCount(sending.size) - 1, kind \in {"owner", "share", "bundle"} :
      RangeOf(kind, fileRow, i) = SealedChunk(sending.size, i)

(* A download that ends well has the whole file, although the file may     *)
(* have changed on the disk while it was uploaded, have been deleted since *)
(* or have moved to another provider (commands.go:819).                    *)
DownloadedIsFile == reading.pc = "done" => reading.got = sending.measured

\* What is served and what is put together: see the two parts.
TransfersHold == ServedIsSealed /\ DownloadedIsFile

(* A file that was stored has as many chunks to be downloaded as were      *)
(* uploaded: with another number no chunk of it opens                      *)
(* (handlers/uploads.go:988).                                              *)
CountIsUploaded == fileRow # NoRow => fileRow.count = ReadCount(sending.size)
=============================================================================
