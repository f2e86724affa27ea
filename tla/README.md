# TLA+ models of Arkfile

Arkfile is a file server whose clients encrypt: users upload files in
chunks to S3-compatible storage, share them, and pay for storage from a prepaid balance.
This directory holds TLA+ modules of its stateful parts, TLC configurations
that check them on small instances, and TLAPS proofs for all instances.

    tlc -workers 2 -config Files.cfg MCFiles
    tlapm Uploads_proofs.tla

`PROJECT.json` lists the components, the runs, the source lines behind every
definition, a mutation for every property (a plausible bug that the property
catches), the findings, and the hazards of the code with the properties
that watch them.

## 1. The system

One Go process (echo handlers, a few background goroutines) over an rqlite
database, one to three S3 providers, BTCPay Server for payments, and
key files. A web client and two command line programs talk to it. Several
requests run at once, also of one user; nothing but the database
and a handful of mutexes orders them.

| part | state | operations | what makes it hard |
|---|---|---|---|
| uploads (`handlers/uploads.go`, `streaming_hash.go`) | `upload_sessions`, `upload_chunks`, `file_metadata`, `users.total_storage_bytes`, the S3 multipart upload, two maps of running hashes in memory | init, chunk, complete, cancel, delete | reads before transactions, storage calls between them, hashes lost at a restart, chunks sent again |
| clean-up jobs (`admin_task_runner.go`) | `storage_upload_id`, the objects of the first provider | abort abandoned multipart uploads, sweep orphaned objects, every 30 minutes | run beside uploads, cancels and deletions, on what they read earlier |
| administration of files and users (`handlers/admin.go`) | users, files, usage | approve, update, delete a user, delete a file | partial failure, repeated requests, an owner who goes on uploading |
| replication and verification (`admin_task_runner.go`, `models/admin_task.go`, `file_storage_location.go`) | `admin_tasks`, `file_storage_locations`, counts per provider, cancel functions in memory | copy, verify, sync, cancel, fail stale tasks at start | cancel against completion, deletion against copy, restarts |
| storage administration (`admin_storage.go`, `storage/registry.go`, `main.go`) | `storage_providers.role`, the registry in memory | set and exchange roles, assignment at start | separate statements, registry against table |
| downloads (`downloads.go`, `export.go`, the clients) | none of their own | chunk ranges for owner, share and offline bundle | three computations of one range, padding, sizes at multiples of a chunk |
| meter and sweep (`billing/meter.go`, `sweep.go`, `gift.go`) | `storage_usage_accumulator`, `user_credits`, `credit_transactions` | tick, sweep, gift | a list read outside the transactions that use it |
| scheduler (`billing/scheduler.go`) | next boundary and last sweep date, in memory | the loop of `Run` | slow rounds, skipped rounds, restarts |
| payments (`handlers/payments.go`, `billing/payments.go`, `reconcile.go`) | `payment_invoices` here, the invoice at BTCPay | create, webhook, sync, reconcile | duplicated and overlapping webhooks, two sources of truth |
| sessions (`models/refresh_token.go`, `handlers/auth.go`, `session_extend.go`, `auth/token_revocation.go`) | `refresh_tokens`, `revoked_tokens`, `user_jwt_revocations`, a cache | login, rotation, reuse detection, logout, extension | rotation in two statements, a cache filled after it was dropped |
| signing keys (`auth/keys.go`, `jwt_rotation.go`) | versions and pointers in `system_keys`, rings in memory | rotate, retire, load | a sequence of statements per tier, crashes between them |
| accounts (`handlers/auth.go`, `reregistration.go`, `bootstrap.go`, `auth/opaque_*.go`) | `users`, OPAQUE records and ceremonies, server keys, bootstrap token and file | register, log in, flag, re-register, replace keys, delete, bootstrap | checks at the first request, changes at the second |
| MFA (`auth/mfa_*.go`, `cli/mfa`) | credentials, backup codes, usage log, failure counter | enrol, verify, lock, reset, remove, recover | read then write, replay windows, lost answers |
| master keys (`auth/*_rotation_*.go`, `crypto/*rotation.go`) | wrapped keys and credentials in the database, masters in files, mandates | mandate, apply, recover | crash between database and file |
| shares (`handlers/file_shares.go`) | `file_share_keys` with access counts | create, list, download, revoke | counting against retries, revocation on an old read |
| limits (`flood_guard.go`, `share_enumeration.go`, `rate_limiting.go`) | trackers in memory, `share_access_attempts` | hit, decay, clean up | windows, tiers and penalties that overlap |
| command line client (`cmd/arkfile-client`) | session file, agent with account key and digests | login, upload, refresh, delete, logout | processes side by side over one session file |
| listing, contact info, routes, configuration, logging | read only, single statements or no shared state | | |

How they interact: a request passes the limits and the middleware (JWT, revocation cache)
and runs its handler; completing an upload starts a copy to the second
provider as an admin task; deletion touches each provider that has a location;
the meter reads the total that uploads and deletions keep; the scheduler calls
meter and sweep; webhooks and the admin's sync meet in `SettlePaymentInvoice`; a
share reads the file's row and object; a key replacement flags every account for
re-registration; a reset of MFA or of a user revokes sessions.

What makes each part correct, in one line each: a listed file has its bytes and
their hash, its session is closed, and the user's total is the sum of the
files (uploads, administration); parts and objects of dead sessions are reclaimed (jobs);
locations tell the truth and tasks end (replication); uploads have a primary, and table and
registry agree (roles); what is served is the chunk that was sealed (downloads);
every charge is billed once (meter, sweep), every hour is charged once and each
day swept (scheduler), every payment is credited once and in the end (payments);
a session that has ended stays ended and a revocation bites in bounded time
(sessions); a token issued stays verifiable (signing keys); an account can always be
entered (accounts); a code works once, failures add up, a factor comes with codes,
and a person who has lost one thing gets in (MFA); a crash never leaves keys
that nothing can decrypt (master keys); a share is used at most as often as it allows
(shares); asking again never shortens a block (limits); a file is sealed for the account that
gets it (client).

## 2. Modules

| module | models | uses |
|---|---|---|
| `FileStore` | abstract: what uploads and deletions promise a user | |
| `Uploads` | sessions, chunks, completion, cancel, deletion, the reclaiming job, restarts | instantiates `FileStore` |
| `Removal` | end of an upload, deletion by owner and administrator, deletion of the user, the orphan sweep | |
| `Replicas` | copies, verifications, their slots and cancellation, deletions over several providers, restarts | |
| `StorageRoles` | roles of providers in table and registry, exchange and start | |
| `Transfers` | the bytes of a file from the client to the object and back | |
| `Account` | abstract: what billing promises an account holder | |
| `Ledger` | meter, sweep, gifts, invoices, restarts | instantiates `Account` |
| `Scheduler` | when ticks and sweeps happen | |
| `Sessions` | refresh tokens, access tokens and their revocations with the cache | |
| `SigningKeys` | versions of the keys that sign access tokens | |
| `Accounts` | registration, login, re-registration, server keys, bootstrap | |
| `Codes`, `Lockout`, `Enrollment` | MFA on the server: one code presented by many, the failure counter, factors and their codes | |
| `Recovery` | MFA of one person with the two command line programs | |
| `Masters` | the two master keys and their offline rotations | |
| `Shares` | limit, revocation and download of shares | |
| `Limits` | flood guard, enumeration guard, failed attempts | |
| `Client` | command line client and its agent, several processes | |
| `MCUploads`, `MCLedger`, `MCReplicas` | instances | their module |
| `MCFiles` | `Uploads`, `Removal`, `Transfers` | `MCUploads` |
| `MCAccess` | `Sessions`, `Codes`, `Lockout`, `Enrollment`, `Limits`, `Accounts`, `Ledger` | `MCLedger` |
| `MCService` | `Scheduler`, `Shares`, `StorageRoles`, `SigningKeys`, `Masters`, `Client`, `Recovery` | |
| `Uploads_proofs`, `Ledger_proofs`, `Scheduler_proofs`, `Replicas_proofs` | theorems about one module each | it, `TLAPS` |
| `Files_proofs`, `Access_proofs`, `Service_proofs` | theorems about the machines of `MCFiles`, of `MCAccess`, of `MCService` | these, the proofs above |
| `Sums_proofs` | lemmas on sums, counts and greatest elements | library theorems |

`MCFiles`, `MCAccess` and `MCService` put machines side by side that share no
state: a variable (`machine`, `part`) says which one a behaviour explores, and the
others stay as they begin. One run so checks several small machines; it claims
nothing about their interaction. Where parts do interact they are in one module:
ledger and payments, client and agent, completion, deletions and sweep, copies and deletions.

### Conventions

A handler is a *request*: `req[r]` (`ops[h]`, `work[r]`, ...) is its program counter (`pc`) with what it
has read so far. Each step is one database read, one transaction, one call to a
provider, or one critical section, so a step may act on what was read several
steps earlier. `CreateCheck`/`CreateCommit`, for example, are `CreateUploadSession`
before and inside its transaction. An action whose name ends in `Fail` or `Fails` is the
error path of the step before it in the text; in modules without failures of their own
an action gives a request up at any point (`GiveUp`, `Abandon`, `CommandEnds`), which
is what an error or a crash comes to. `MayFail` switches failures
of storage and database on, `MaxCrashes` and `MaxFaults` bound deaths of the process;
a crash forgets all that lives in memory and keeps tables and storage. Variables
that no code has are marked as history.

**Transactions are atomic.** The code relies on it in comments
(`handlers/uploads.go:191`, `billing/sweep.go:100`), and the models take it as an
assumption, serialisability included (a transaction that read a row fails when another one
has changed it since): `database/sql` promises it, while the driver (gorqlite) is outside
the repository. A document of the repository doubts it for rqlite (finding C-16 of the review under
`docs/`); what would follow from a weaker isolation is not studied here.
Single statements outside a transaction are atomic steps of their own.

### Uploads

The client mints `file_id`, which is also the key of the session and of the
object, so `status`, `meta`, `mpu`, `object` are functions on `Files`.
`status`, `owner`, `size`, `expired`, `uploadId` are columns of
`upload_sessions`, `row` the etags in `upload_chunks`, `meta` the
`stored_blob_sha256sum` of the file row (`NoFile` when there is none), `usage` the
user's total. `mpu` and `part` are S3's view: `part` keeps the content of
each part, a version number that differs only for the last chunk, which
gets fresh padding every time it is received. `hash` is
the sequence of chunks the running hash has taken; two hash maps (encrypted stream,
stored blob) are kept in step by the code and are one variable. An absent and an
empty hash state are the same, as the code creates it on the first chunk and writes
to it at once. `Garbled` is what two unsynchronised `WriteChunk` calls may leave.

Left out, because they only refuse requests: authentication, approval, the
negative-balance gate, size limits. `DeleteRemove` collapses the loop over
locations to the primary's. The replication that a completion starts
and deletion from several providers are in `Replicas`.

`FileStore` is what a user sees of all this: a shelf of files with their sizes, what is charged
for them, and the `file_id`s that are used up. A file and its charge come and go in
one step, and no `file_id` comes twice. `FileStoreSpec` is that specification under the mapping
shelf = rows of `file_metadata` with the size of their session, charged = `usage`, and
spent = the files whose multipart upload is done while nobody is left to commit them (`Committing`). Every step of
`Uploads` but the two transactions that insert and delete a row is a `Lose` or changes nothing of it.

### Ledger, Account

`balance`, `unbilled` and `invoice` are the columns, `ledger` the rows of
`credit_transactions` of each user, `remote` what BTCPay says. A missing
`user_credits` row is a balance of 0. `Orphans` are invoices an older release left
paid without a ledger row, which `reconcile.go` exists for. The webhook's early
return for an invoice that is paid and credited coincides with the one in `Check`.
`ReconcileOne` follows the text match in `isDuplicateTransactionIDError`: *any*
failure of the insert is wrapped as a likely duplicate, so it is skipped.
`Settle` has the swallowed-duplicate path of the code, which writes the balance
without a row; the inductive invariant (`CreditIsClosed`) shows that it is unreachable.

`Account` says what a user may rely on: storage is metered, what is owed is
billed at once and in full, an invoice is credited once. `AccountSpec` is
that specification under the mapping owed = `unbilled`, credited = the invoices
with a ledger row.

### Scheduler

`now` counts units of which `Interval` make a tick interval and `Day` a day.
`proc` is the goroutine: down, asleep until a boundary, or in a round that began
`at` some time. `charged`, `swept`, `since` and `missed` are history for the
properties. The tick of a user and the sweep are counted, whatever their
amounts; `Ledger` has those. A sweep that fails counts as the day's, as
`lastSweepDate` is set either way.

### Replicas

`file` is the row of `file_metadata`, `loc` the status column of
`file_storage_locations`, `object` what each provider really has, absent, whole or cut
short. `req` and `status` are a row of `admin_tasks` (what was asked, how it
stands), `run` the goroutine of the task with the cancellation of its context,
`del` a deleting request. A copy looks at its context between files and in
every call to a provider, a verification between answers; its HEADs are under way
together, so `Head` may take any of them. `doomed` and `clashed` are history: the files a
deletion has found, and the locations two tasks copied to at once.

`Upload` is one step, as `Uploads` has the steps before it. `StoreFails` lets calls to a
provider fail or cut a copy short, `DbFails` lets statements fail, `Workers` is
the size of the semaphore. Every file has the hash of its object stored, as completion
records it. `DeleteUser` is a deletion of each of its files from the primary.

Left out: roles of providers are fixed; progress, details and statistics of a task are
not kept; the backfill at startup finds nothing, as every file has a location; the
job that reclaims multipart uploads is in `Uploads`.

### Removal

A `storage_id` is made for one upload session, so files, sessions and objects are functions on or
subsets of `Blobs`; all belong to one user and have size one. `work[r]` is a request: one about to
record a file whose object is assembled, an owner's deletion (all locations, then the
transaction), or an administrator's of a file or of the user (first provider only, then the transaction).
`sweep` is `removeOrphanedStorageObjects` with what it has read: files, then sessions, then
the listing, then one removal after the other. A transaction that read rows another one changed fails, which is an
action (`RecordFails`, `DeletionFails`). `counted` is what quota and meter
go by; `cut` and `byAdmin` are history. An hour is assumed not to pass while a sweep works.
`ListedHasObject` exempts files a deletion of which has removed an object: deletions remove objects
first and may fail afterwards (`DanglingOnlyByDelete` says the same of `Uploads`).

### StorageRoles

A provider is named by the slot of the environment that configures it; `RestartServer(n)` starts with
the first `n` slots. `dbRole` is the column, `registry` the three pointers in memory. An exchange is
`first` UPDATE, `second` UPDATE or `undo`, then the `swap` in memory, with checks made at
the request's beginning. `headless` (no row the start read named a primary) and
`astray` (rows and registry may differ until the next start) are history; the second holds after
what the code documents as needing a restart, after two exchanges at once, and after a roll-back that failed.

### Transfers

Sizes are the real ones (`ChunkSize` 16 MiB, `Overhead` 28 bytes), and only sizes: `sending` is an
upload chunk by chunk, from a file that may have changed between measuring and reading, `fileRow` what
completion records, `reading` a download by the owner, through a share or from an offline bundle. A sealed
chunk is a range of the object together with its index and the number of chunks it was sealed with,
as that is what authenticates it; a range that is not exactly one sealed chunk does not open.
`copies` and `places` are the providers that hold the object and those configured, which
decide where a read falls back to.

### Sessions

`refresh` is the table of one user, `iat` the second each JWT was issued in, `jwtRev` the row of
`user_jwt_revocations`, `dead` the JWTs refused for themselves, `userCache` the entry of
`userRevocationCache`. A rotation is `insert` and `mark` after its check; a reuse revokes the
family, then the JWTs, then drops the cache. A request reads the clock, the cache, the table, and stores an entry
stamped with the clock it read first, which is what `ServedWasValid` rests on: a revocation
is honoured at the latest one `TTL` after it happened, in spite of the entry that is
stored after the cache was dropped. `ReadFails` is the middleware's fail-open path; such requests are not
"serving" for the property, and section 4 lists them.

### Codes, Lockout, Enrollment

*Codes* has one TOTP code with its neighbour windows and one backup code, presented by several
requests. The replay check and the log are two steps. `excused` counts the second acceptances that
overlap allows. *Lockout* has the row of `user_mfa_lockout`, read and written in two
steps; `raced` says that a read met a count about to change, which the code does not prevent and
`FailuresAddUp` therefore exempts. *Enrollment* has one row per method, the ceremony of a
key, and whether codes exist; a row is named by a number, so that "the row that was verified" and
"the row that is enabled" are different things. `overlapped` and `stripped` name the two races of the code.

### Recovery

One person with a phone, a key ring and a sheet of codes, and what the tools `arkfile-client` and
`arkfile-admin` keep in the session file (`tokens`). A request is one step of the server, with or without
an answer; commands die, sessions end, one thing gets lost. The property is the person's: being able to get in.

### SigningKeys, Masters

*SigningKeys* has rows and pointer of two tiers, the rings in memory, and a rotation as
the sequence of statements it is; a token is the seed that signed it. *Masters* numbers masters in
the order they are drawn; `wrappedBy` says under which master a row of `system_keys` is,
`envMaster` and `spares` which masters files hold. The steps of an application are those
of `ApplyEnvelopeMasterRotation` in its order (recovery file, backup, rows, master file), and it may end after each. `content`
follows which credential's secret a row holds.

### Accounts

A ceremony is a row of `opaque_auth_sessions` that its first request makes and its second
uses; `caller` is a finalize between its checks and its transaction, with what it read of the row. `record` says with
which generation of server keys an OPAQUE record was made, 0 that there is none. `handoff` is the token that
leads a flagged login into re-registration. `boot`, `bootFile`, `bootHeld` are the bootstrap token's row, its
file and what the operator has read; `startup` is where the start stands. Names are folded names; that
one is spelt as in `ADMIN_USERNAMES`, which makes its account an administrator's, is a choice of the
registration. `ReplaceFail` has every way a replacement of the server keys ends short: nothing stored,
new keys stored and the old ones in memory, the old ones put back and loaded again or not. Passwords and messages are left out.

### Shares

`share` is the table, `gets` the requests for a chunk between the check, the conditional
UPDATE of the count, and the answer, `owner` the revocations between what they read and
what they write. `started` counts first chunks sent.

### Limits

A behaviour is about one of three limiters (`guard`). Time is counted in minutes, penalties grow with
the tier. The assumption `PenaltiesEnd` states what the constants of the code satisfy: no
penalty is longer than the silence that lowers a tier, nor than the retention of rows.

### Client

Two processes of the command line client over a session file and the agent. `cmd[p]` has the
session a command loaded when it began, which is a copy: what another process saves in the file does not reach it.
`calm` is history: no session was in the hands of two commands and no rotation was left
half done. `digests` is the agent's cache, in which every file is a hit, as all have one content. A hit is
confirmed by the server, not confirmed, or believed since the request failed (`TakenForDuplicate`), and
the first and the last refuse the upload alike (`Refused`). `crossed` and `untold` are the two things that excuse a
refusal without a copy, `misled` says that one happened without them. `drift` marks a file whose command found another user in the session file at its second reading.

## 3. What the runs check

| run | instance | properties |
|---|---|---|
| `Files` | one user, 2 files of 1 chunk, 2 requests, any client, failures; 2 files, 2 requests, 1 fault for `Removal`; files of 6 sizes around one and two chunks for `Transfers` | `FilesTypeOK`, `SessionCap`, `FileClosesSession`, `FileStoreSpec`, `RemovalHolds`, `TransfersHold`, `NoResurrection` |
| `Uploads_resend` | 1 file of 2 chunks, each sent up to twice in any order, 2 requests, wrong sizes, failures, 1 crash | `ObjectIsRecorded`, `DanglingOnlyByDelete` |
| `Uploads_orderly` | 2 files of 2 chunks, room for one, the repository's clients, nothing fails | `StalePartsReclaimed` |
| `Ledger_credit` | 2 users, 2 invoices of which one is an orphan, 1 tick, 1 gift, 1 crash | `CreditedOnce`, `CreditedIsPaid`, `SettledIsCredited` |
| `Replicas_tasks` | 1 file, 2 providers, 2 tasks, copies as by default or careful, verifications with and without repair, 2 slots, 1 deletion by owner or administrator, failures of providers, 1 crash | `TypeOK`, `ActiveHasObject`, `LastCopySurvives`, `RunningHasSlot`, `ActiveIsVerified` |
| `Replicas_slots` | the same with 1 slot and failing statements, no failing provider, no crash, an owner's deletion and the copies that completions start | `TasksEnd` |
| `Access` | 2 requests in each machine; 4 tokens and 2 seconds; a code good for 3 windows, 2 sets of codes; 4 failures and 4 minutes; 3 credential rows; 2 tiers, 5 hits, 14 minutes; 2 names, 2 ceremonies, 2 callers, 2 generations of server keys, 1 bootstrap token, failing key replacements; the ledger with 2 users, 1 invoice, failures, payments after expiry | `AccessTypeOK`, `ServedWasValid`, `EndedStaysEnded`, `CodesHold`, `MFAHolds`, `BlockNeverShortened`, `AccountsHold`, `RunningBalance`, `AccountSpec`, `SweepDrainsUnbilled` |
| `Service` | 2 users, 1⅔ days of 3 intervals of 2 units, 2 restarts, lag and failures; 1 share, 3 visitors, 2 revokers, limits 0 to 2; 3 slots, 2 administrators; 1 keeper, 3 versions, 5 seeds; 2 system keys, 1 user with 2 credentials, 5 masters; 2 processes, 2 people, 2 pairs of tokens; 3 credential rows, 3 sets of codes, 1 loss | `ServiceTypeOK`, `ChargedOncePerHour`, `OneSweepPerProcess`, `NoDaySkipped`, `DownloadsWithinLimit`, `RolesHold`, `IssuedStillVerified`, `MasterNeverLost`, `ClientHolds`, `RefusedIsOwn`, `RecoveryHolds` |

Several properties are conjunctions of parts with comments of their own:
`RemovalHolds` (`ListedHasObject`, `CountedIsExplained`, `DeletedHasNoFiles`), `ClientHolds`
(`KeyOfOwner`, `SessionSurvives`), `TransfersHold` (`ServedIsSealed`,
`DownloadedIsFile`), `CodesHold` (`BackupCodeOnce`, `CodeOncePerWindow`), `MFAHolds`
(`FailuresAddUp`, `GuessesBounded`, `EnabledWasVerified`, `CodesForFactors`), `RecoveryHolds`
(`WayIn`, `SheetIsGood`), `RolesHold` (`EveryProviderPlaced`, `RolesAgree`), `AccountsHold`
(`AccountReachable`, `OneAdminPerToken`).

*Bounds.* Two requests meet in every race of two handlers, the background job and
the scheduler come on top. Two files are the least for which the cap of one
session bites and one file's cancel frees the place of another. Two chunks are
the least with an order and with a padded last one. A chunk sent twice shows every
difference a resend makes, one crash separates before from after; a third sending
or crash repeats the second. A machine that dies does so in a run of its own, where little else goes on
(`Uploads_resend`, `Ledger_credit`, `Replicas_tasks`): deaths are left out of `Files` and of the ledger in `Access`, whose properties are proved with them. One user suffices in `Uploads` and `Removal`: nothing there
relates two users, and the proofs cover any number. Two users in `Ledger` let a
sweep be half done. The scheduler's interval of two units separates a boundary from a
time between boundaries, its three intervals a day have a boundary before, at and
after the sweep time. In `Replicas` two providers are a source and a destination, and either
may be the primary; two tasks copy over each other, verify what the other copies, or
compete for the one slot of `Replicas_slots` (`main.go:216` configures two, which takes
three tasks to make one wait). A copy that overwrites is in `Replicas_slots`. Nothing there relates two files; the proofs cover any number.
Four tokens are two sign-ins, or one with a rotation whose child is rotated; a
`TTL` of one second and a clock of two have a revocation inside and outside of it. Three visitors
overrun a limit of two if anything can. Three slots are all the environment has; five masters are three
rotations after the first two masters. A failing keeper and its repetition take three versions. The
tiers of `Limits` are two of the code's, with a penalty that does, and one that does not, outlast the counting window;
the clock is long enough to go up both, wait, decay and be forgotten. In `Transfers` the sizes are
one byte, the largest file whose sealed size fits a chunk and the next, exactly one chunk and the next,
and two chunks.

*Symmetry* (files, requests, users, names, ceremonies, owners, each within its machine) is used in runs without a
liveness property only. Where machines name the same model values, the permutations of one set
act on each of them alike. Deadlock is not checked: clients may stop, and bounds end every behaviour.

*Time.* Each run ends within three minutes with two workers; which machines share a
run, and with what bounds, is chosen for that.

*Fairness.* Handlers that have begun proceed (weak fairness of
`Proceed`: goroutines are scheduled, calls have timeouts); the reclaiming job runs
every 30 minutes; a task's goroutine goes on once it runs, and gets a slot that
stays free (weak fairness of `Start`, `CopyStep`, `VerifyStep`: with two tasks the
slot a task waits for is not taken again and again, as each is submitted once).
`RemovalFairSpec` lets the sweep run again and again (weak fairness of `SweepStep`) and hours pass between
sweeps (strong fairness of `Aged`). No client is ever obliged to act. `SettledIsCredited` also assumes
that BTCPay redelivers the webhook of a settled invoice until it is
answered with success (strong fairness of `Webhook`): an assumption
about an external server.

*Conditions.* `StoredHashIsObjectHash` needs clients that send one chunk after the
other and no restart; `CreditedIsPaid` and `SettledIsCredited` need BTCPay never to settle an
expired invoice; `AccountSpec` and `SweepDrainsUnbilled` need the scheduler to be the only
job. `ActiveIsVerified` is about instances where every copy verifies and skips what is
there, and exempts `clashed` locations; `LastCopySurvives` is about instances where copies skip and verifications do
not fix (both conditions are in the property; the copies of the run skip, as the command does by default, and its
verifications may fix); it and `RunningHasSlot` need the statements that record
an outcome to succeed (`DbFails` is `FALSE`). `IssuedStillVerified` needs one
administrator at a time. The exceptions written into `RolesAgree`, `FailuresAddUp`, `CodeOncePerWindow`,
`EnabledWasVerified`, `CodesForFactors`, `WayIn`, `SheetIsGood`, `KeyOfOwner` and `SessionSurvives` are history variables, each set by
the steps that the code's own races or lost answers consist of, and named in the comment of the property.
What happens without these conditions is in the next section.

`RefusedIsOwn` is about the digests alone, since the code refuses a file on them when the server cannot be asked
(`dedup.go:96`): it claims a copy only up to what the agent can know. It exempts refusals on the digest of another
account once commands of two accounts ran at one time (`crossed`: one of them fills the cache it has just
seen the other take over), and of a file that is gone while the agent has not been told, or was told while another command had
the file in hand (`untold`). Without these it says that logins, logouts, expiries, rotations and commands killed half way never
leave the digests of one account to the next.

*What properties allow.* Several hazards of `PROJECT.json` have no property, with a note, since the code does what would
have to be forbidden; a property nearby does not cover them. Thus `FileClosesSession` allows the cancel that overwrites a completed session,
`EndedStaysEnded` a second working token after a half-done rotation, `CodesHold` the same code in the next window,
`AccountsHold` a bootstrap token nobody can read, `DownloadsWithinLimit` a last download that loses its later
chunks, `RunningHasSlot` a task that is pending for ever, and `TasksEnd` a canceled one that completes.

## 4. Disagreements between code and documents

Each is a run that TLC ends with a counterexample.

| run | what happens |
|---|---|
| `Uploads_hash_crash` | The server restarts between two chunks. The next chunk starts a new hash state and the file is recorded with the hash of its second half (`uploads.go:703`), though `unified_schema.sql:38` calls the column the hash of the complete object; verification and copies compare with it. |
| `Keys_rotation` | A user has an authenticator and a security key. The rotation of the user-secret master re-encrypts each row and writes it back by user name alone (`crypto/user_secret_rotation.go:115`), so both rows end up with the last one's content and a credential is gone. |
| `Transfers_count` | A file of exactly 16 MiB. Completion divides the encrypted size by the plaintext chunk size (`uploads.go:988`) and records two chunks where one was uploaded; as the number of chunks is authenticated with each, no download of the file opens. `scripts/testing/e2e-test.sh:1519` uploads such a file and never downloads it. |
| `Removal_orphans` | An upload's object is assembled and the transaction that records it fails. The session stays, and the sweep spares every object a session ever named, whatever its status (`admin_task_runner.go:751`), though it is there for orphans. |

Smaller observations without a run. *Files and billing*:

- The quota is checked against finished files alone (`uploads.go:144`); sessions opened together
  exceed it. An archived design says open sessions count.
- A cancel reads `in_progress`, a completion commits, the cancel's UPDATE names the session only: a
  listed file has a canceled session (`uploads.go:381`, against the comment at 368).
- An hour bridged by a restart is not metered (`scheduler.go:173`, against the comment at 25).
- With the sweep's protection restricted to open sessions and those a request works on,
  `OrphansReclaimed` holds. As the code stands the sweep never removes anything, and no orphan ever goes (`OrphansStay`, proved).
- `AdminDeleteFile` and `DeleteUser` never reduce `total_storage_bytes`, and deleted users go on being metered
  (`billing/meter.go:37` asks for approval only); `CountedIsExplained` therefore counts what administrators deleted.
  Both remove the first provider's object only.
- A swap of primary and secondary between `CompleteMultipartUpload` (`uploads.go:935`) and the
  insert of the location (`:1015`) records the object at the wrong provider.
- Two sweeps at once (the developer's `tick-now` beside the scheduler) list one accumulator and both
  charge it (`sweep.go:67`), though `docs/wip/storage-credits-v2.md:278` calls the sweep
  idempotent per row.
- A sync stores `expired`, BTCPay settles after all, and `SettlePaymentInvoice` refuses
  (`payments.go:141`): the payment is never credited, against `docs/wip/payments.md:13`.
- `billing_sweeps` is said to prevent duplicated
  processing (`unified_schema.sql:428`) and nothing reads it; a sweep time after the day's
  last tick boundary is never reached; a failing sweep still uses up its day.

*Replication and roles*:

- Two verifying copies to one location at once each compare their own hash, and the later
  object stays: an active location may have an object that is cut.
- A copy overwrites the destination before it compares hashes (`admin_task_runner.go:323`). Without
  `skip_existing`, as the automatic replication is submitted, a copy that is cut short
  damages an object that was good, and with a broken source the last good one. A query for
  locations that fails counts as none (`admin_task_runner.go:292`), and the copy skips nothing either.
- Canceling a verification that fixes makes the HEADs under way fail, and a failure counts as
  missing (`admin_task_runner.go:552`): a good location may be marked missing. An answer that is old when it
  is received does the same.
- A copy that is put after a deletion has passed stays, and nothing refers to it.
- Rows in `delete_failed` go with the file (`ON DELETE CASCADE`), so the alert that counts them
  (`admin_storage.go:278`) counts deletions that are under way or failed in the end only.
- A final UPDATE of a task that fails leaves it `running` without a slot until the next
  start; a task that was pending at a crash stays pending for ever (`admin_task.go:122`).
- A crash between the two UPDATEs of an exchange can leave no row that names a primary; after a change to tertiary
  and a restart the registry may have no secondary.

*Sessions, MFA and limits*:

- A rotation that passed its check while all sessions are revoked leaves a working one; overlapping rotations
  give a family two working tokens; `auth.go:27` speaks of an atomic rotation, which is two statements.
- Extending a session does not drop the cache when it meets a reused token; the middleware lets a request pass
  when the database cannot answer for the user's revocation.
- Removing the authenticator while a key's enrolment is pending lets the key complete without backup codes.
- An authenticator is added beside a key over `/api/mfa/credentials/totp/add`, but the request that
  verifies it takes temporary tokens only, so it cannot complete with the full one (`docs/api.md:103`).
- `arkfile-admin recover-mfa` works only with the temporary token of a session in setup. A resumed key
  enrolment returns no codes (`auth/mfa_webauthn.go:33`) while the tool says "Use your saved copy" (`cli/mfa/setup.go:155`).
- A reset of MFA that is repeated after the revocation of tokens failed reports that it was done already and revokes nothing.
- `CleanupMFALogs` compares text renderings of times. Failures of registration are never recorded,
  and a success never resets `failed_count`. `RateLimitManager` (`middleware.go`) is never initialised.

*Keys and accounts*:

- Two rotations of the signing keys at once may draw the same version, and the later seed takes the earlier one's row:
  tokens of the earlier are refused (`auth/jwt_rotation.go:17` promises they are not).
- A crash between the commit of the user-secret rotation and the writing of the new master loses that master
  (`auth/user_secret_rotation_apply.go:98`).
- A registration begun before the server keys are replaced and finished afterwards gives a record of the old keys.
- An administrator who is flagged is answered as an unknown name and never led into re-registration.
- A crash between the row and the file of the bootstrap token leaves one nobody can read, until
  the start is forced to make another; the clean-up of a left-over token (`auth/bootstrap.go:69`) cannot be reached once a token exists.

*Shares and clients*:

- A first chunk that is lost and asked for again counts as another access. `ListShares` revokes a share as exhausted while
  its last allowed download is still fetching.
- A refresh of a token makes the agent's key that of another session, so the next command
  finds it wiped. Two commands that share a session present a used token and end it (`main.go:1414`); a
  refresh of an older login overwrites, and after a logout recreates, the session file. The
  server is not told of a logout.
- A login between a command's two readings of the session file uploads under another account's key (`main.go:525`).
- `performDedupCheck` forgets a digest on any answer but 200, an expired token's too, and takes a file for a duplicate on the digest alone
  when the request fails (`dedup.go:96`): of a file deleted in the web client no copy is left, and the upload
  is refused all the same. Digests reappear after a logout, and where commands of two accounts run at one time those of the
  other account are believed.
- A replacement of the server keys that fails between storing and loading leaves the new ones stored and the old ones in
  memory until the next start (`auth/opaque_rotation.go:107`, `:131`), and records made meanwhile are of the old keys.

## 5. What is proved

Proofs hold for every value of the constants that satisfies the module's
assumptions (`UploadsAssumption`, `LedgerAssumption`, ...).

*Uploads_proofs.* None of the properties about a file is inductive: they
depend on what a handler in the middle of its work knows. `FileInv` is the
conjunction of `UploadInv` (a session that was never begun has no multipart upload, the
upload of a completed session is done), `RowInv` (under a file row the upload is done and the
object is there or was deleted), `DeletingInv` (a handler deletes only what was completed), and
`CommittingInv` (a request about to commit a file has the object, finds no row and no completed
session, and nobody else is committing or deleting that file). The last is the crux of `NoResurrection`: S3
completes an upload once, so at most one request per file reaches `complete_commit`, and
none after a deletion. `ObjectIsRecorded` needs `RecordInv`: whoever completes holds the rows as they are (`RowsRead`), since rows that are
all there are not written again, and when S3 has completed the upload its parts are those of the rows (`PartsDone`). `FileClosesSession` and `SessionCap` need no more than types: the first because every UPDATE that
abandons names sessions in progress only; the second because the count and the insert
are one step, with a proof about cardinalities of `InProgress`.

`FileStoreImplemented` puts these together: every step of `Uploads` is a step of `FileStore`. A `file_id` that is spent stays so, since
uploads only advance (`UploadsAdvance`) and a handler comes to its commit from an open upload alone (`CommitsFromOpen`); the file a
completion brings was not spent, as its one committer was there (`CommittingInv`), and is from then on. Owner and size of a session are fixed before its upload is done
(`OwnerInv`), so one user is charged with it, once. A deletion subtracts what the sum of the user's files contains, so nothing is
cut off at 0. Quota, cap, hashes, parts and the cleanup job do not appear in `FileStore`; nor do crashes, which are uploads lost.

*Ledger_proofs.* `RunningBalance` would be inductive with types alone, but for the
path of `Settle` that writes a balance without a row. `LedgerInv` excludes it: an
invoice with a credit is neither absent nor pending (`CreditIsClosed`), what a handler has read
still holds as far as it matters (`HandlersOK`: statuses only move away from pending), the insert of
an invoice is the first thing to happen to its row (`InsertIsFirst`), and a row has an invoice at BTCPay
(`RowHasRemote`). From it each step writes at most one ledger row, and a payment's row only where
there was none (`OneEntry`), which gives `RunningBalance` and `CreditedOnce`. `CreditedIsPaid` adds what
handlers know about BTCPay (`PaidInv`), for instances where an expired invoice stays
unpaid. `SweepDrainsUnbilled` and `AccountImplemented` assume a single job and need one
invariant more (`SweepIsFresh`): what a sweep has listed is what is there, as
the only job that could change it is busy sweeping.

*Scheduler_proofs.* `ChargedOncePerHour` depends on the arithmetic of boundaries: for
any `Interval`, `Truncate` gives the last boundary that is not later than its argument, and
`NextBoundary` a later one (`TruncateIsBoundary`, `TruncateIsLast`, `NextBoundaryIsLater`).
`ChargeInv` adds what makes it inductive: nothing is charged ahead of the clock (`NotAhead`),
the boundary a process sleeps towards and those after it are not charged (`TargetIsNew`), and the users
still to do in a round are not charged for its hour (`RoundIsNew`). `OneSweepPerProcess` follows
from `SweepInv`: days after the one a process remembers have had at most one sweep
for each restart (`SweptBefore`), and days do not run backwards (`DayIsMonotone`). `NoDaySkipped`
relates the history of a process to every day it has lived through (`DayInv`): what it has not swept is the day of the last
boundary at most. It assumes `DayIsFilled`, which the default settings satisfy (an interval of an hour, a sweep
at 00:15): with a sweep due after the day's last boundary the configuration is accepted and no day is ever swept.

*Replicas_proofs.* `Typed` is `TypeOK` with one relation more: a goroutine past its wait is of the
kind its task was asked for, as `Start` chooses the first step by it. `ActiveHasObject` needs `Safe`: what a
copy is about to call a success is at its destination (`Carries`), and whoever deletes an
object works on a doomed file; the lemma `DeletionEffect` says once what deletions
leave alone. `LastCopySurvives` needs `Kept`: under its conditions every stored file that is not doomed is active and
whole at the primary, and every copy works towards another provider (`Told`, `Elsewhere`). The crux is that
`skip_existing` rules out a copy to the primary for as long as the primary's location is
active, which no such copy can change. `RunningHasSlot` follows from `Slots`, its statement with what it
takes to be inductive. `ActiveIsVerified` needs that a goroutine under way holds the slot of its task, and that what it
holds of the source is whole, so that a copy that succeeds is whole or has met another at the same place (`Vetted`).
The last three assume `DbFails = FALSE`: a hash that cannot be read is taken for one that fits.

*Files_proofs*, about `Removal` and `Transfers`. `ListedHasObject` is not inductive: a request about to record a file must
have its object (`RecordsOne`), nobody else may be recording it (`Unshared`), and the sweep must spare it. The last is
`SweepSpares` with `AgedHasSession`: when the sweep has read the sessions, every object that is an hour
old is among those it spares, since an object has a session before it exists
(`StoredHasSession`) and no object turns an hour old while the sweep works. The same argument shows more than it should:
the sweep removes nothing (`SweepRemovesNone`), and as a request removes objects of its own files only
(`RemovesItsOwn`), an orphan stays for ever (`OrphansStay`): the counterexample of `Removal_orphans` is not one bad schedule but every one. `CountedIsExplained` needs that
an owner's deletion is of one file that is still listed when it commits (`DeletesOne`), and counts with the library's
theorems about cardinalities. `DeletedHasNoFiles` rests on the transaction that records a file reading its user's row.
`TransfersHold` rests on arithmetic that holds for every length: the number of chunks is a rounded-up quotient
(`CeilingIsOnly`), and the total the client announces is the bytes it will send (`TotalIsStream`, `StreamEnds`). `TransfersInv` then says
that what was sent, or read, is as much of the file as its chunks hold, so that the comparison of byte counts at the end
finds a file that changed on the disk.

*Service_proofs*, about `Masters`, `SigningKeys`, `Shares`, `Client`, `Recovery` and `StorageRoles`.

- `MasterNeverLost` needs the order of the steps (`WrittenFirst`): from the recovery file on the
  new master is in a file, from the backup on the old one is, and the running service holds one that a file has, so that
  keys it stores meanwhile are covered as well.
- `IssuedStillVerified` needs that every seed of a ring is still stored or was retired by hand (`RingsKnown`), and that a ring
  that is loaded but not yet installed is a good one (`KeeperHolds`). It assumes one keeper (`OneKeeper`), without which it is
  false; the types are proved without.
- `DownloadsWithinLimit` counts the requests that are counted and still fetching as sent (`Pending`), which makes
  it inductive once requests are known to work on shares that exist (`WorksOnMade`, `GoneWithFile`) and only first
  chunks to be counted (`CountsFirst`). `RevokedForGood` is proved and not checked by a run: what `ListShares` found is still so when it writes
  (`FoundStillSo`), as counts never fall and nothing un-expires.
- `ClientHolds` needs two invariants. Whoever keeps a token pair, the session file, the agent or a command, keeps it under the
  name it was issued for (`PairsOwned`), which gives a file its owner's key. While no session was shared and no rotation was half
  done (`calm`), a family of tokens is in one command's hands at most, with its latest pair, and the session file has that pair
  too unless the command is about to save it (`CalmKept`); so nobody presents a used token.
- `RefusedIsOwn` needs `DuplicatesInv`: as long as no two accounts had commands at one time, the commands at work are of one
  account (`OneAccount`), the digests are of the account whose key the agent holds, and those a command with a key can find are of its own.
  A command whose account is another is refused the key, which wipes the digests, or is a login, whose key replaces
  key and digests together. A file that is gone and whose digest is kept or in hand is `untold` (`Accounted`).
- `RecoveryHolds`: every completed factor is at hand (`HeldAll`), and the codes written down are those of the server as soon as a
  row counts (`SheetKept`). With no loss both hold, with one loss one of the two still does, and either lets the person in.
- `RolesHold`. That a start gives each provider a role is a fact about `Resolve` for any rows (`RegisteredIs`): providers whose
  rows name a role first get it, and the others are dealt out to the roles still open, of which there are as many (`Dealt`). `RolesAgree`
  needs to know how far a change that is alone has come (`ChangeKept`): which rows it has written, what a
  roll-back would restore, and what the swap in memory is to match. `SecondThere` says why that swap never leaves the registry without a primary.

*Access_proofs*, about `Codes`, `Sessions`, `Accounts`, `Enrollment`, `Lockout` and `Limits`.

- `CodesHold` rests on `WindowInv`: of the requests that would be the
  first to have the code accepted in a window at most one is not excused (`OneFirst`), and once it was accepted its use is in
  the log, or the window is past and only slow requests could still look (`AcceptedIsLogged`). The backup code's part is
  `BackupInv`.
- `ServedWasValid` needs to know of a revocation time that was read earlier how stale it may be: none is missed that
  came before the clock was read (`Fits`), for the cache and for requests that carry one towards it; what a request relies on when it is
  served is `OpKnows`. `EndedStaysEnded` needs that a row is made once and for one family (`RowKinds`, `Grows`) and that
  two sign-ins under way have different tokens (`LoginsApart`).
- `AccountsHold` needs that a ceremony that makes a record has drawn a secret
  from the server keys (`RowHolds`), that a request about to commit has read such a row (`CallHolds`), and that a token that can still be used has made nobody (`TokenUnused`); the types need that
  keys are put back only where new ones were stored (`KeysHold`).
- `FactorsHold`: codes are there for every row and every enrolment that goes without issuing any (`RowsHaveCodes`), and while a code has been
  found right, the secret it will enable is the one it was found right with or came after (`EnablesKnown`).
- `LockHolds`: the row, and any row a request is about to write, counts no more failures than happened in its window
  (`RowsBacked`); without a race one request at most is about to write, from the row as it is (`Unraced`); and those inside the
  lock and those counted stay together under the bound (`FewInside`), which takes a finite number of requests.
- `BlockNeverShortened` needs that a block ends no later than the last hit and the penalty of the tier that the count stands for
  (`FloodFits`, `EnumFits`, `AttemptsFit`), since a later hit sets the block anew.

*The instances side by side.* `FilesTypeOK`, `AccessTypeOK`, `MFAHolds` and `ServiceTypeOK` are about the modules
that put machines beside each other. `FilesParts`, `AccessParts` and `ServiceParts` show that each of their behaviours is one of every
machine: a machine that is not explored begins as it should and stutters.

*Sums_proofs.* Counts and sums over sets are folds of the community modules, which are recursive functions given by `CHOOSE`. That such a function
exists is proved once, by the well-foundedness of `<` on the naturals; that a sum grows and shrinks by
what one element contributes follows, and that is all `UsageIsSumOfFiles`, `LockHolds` and the greatest key version need. `UsageIsSumOfFiles`, which
`FileStoreSpec` rests on, needs nothing about handlers but that whoever commits a file knows its hash (`HashKnown`): the usage is written in the
transactions that insert and delete the row, so it cannot drift whatever fails in between.

*Assumptions* beyond those the modules name. `CreditedIsPaid`, `SweepDrainsUnbilled`, `AccountSpec`, `NoDaySkipped`, `LastCopySurvives`, `RunningHasSlot`,
`ActiveIsVerified` and `IssuedStillVerified` are proved under the conditions of section 3, which their theorems state as
hypotheses on constants.

*Model-checked only.* Liveness (`StalePartsReclaimed`, `SettledIsCredited`, `TasksEnd`), which the prover does not do; and the
counterexamples of section 4, which are TLC's. Every other property of the runs that pass is a theorem.

## 6. What is not modelled

See `PROJECT.json`: components with status `not_modelled`, and the notes of those modelled in part.
Cryptography, the messages of OPAQUE and WebAuthn,
parsing and formatting are outside: the properties here do not tell their results
apart. Storage rates are arithmetic on prices. Routes, settings and logging have no protocol;
listings, status pages and the commands that print them only read. The web client's pages and caches are left out but for the order of
its uploads. Isolation weaker than serialisable transactions is an assumption, see section 2.

## 7. Plan

Done: every part of section 1 whose state outlives a request has a module, checked; every safety property the runs check is
proved. Left, in order:

1. `FileStore` for the deletions by administrators in `Removal`, which keep the charge, and for the locations of `Replicas`.
2. Composition: a session that is revoked between the middleware and the transaction of an upload; the roles of providers
   changing under uploads and copies.
