------------------------------- MODULE Shares -------------------------------
(***************************************************************************)
(* The shares of one file and their downloads: the limit on accesses, the  *)
(* ways a share is revoked, and what a visitor gets chunk by chunk         *)
(* (handlers/file_shares.go, the share endpoints of handlers/admin.go).    *)
(* The rows of two shares meet nowhere but in ListShares and in the        *)
(* deletion of their file.                                                 *)
(***************************************************************************)
EXTENDS Integers, FiniteSets

CONSTANTS
  Shares,     \* share ids
  Requests,   \* chunk requests being served
  Owners,     \* requests of the owner and of administrators being served
  AccessLimits,     \* max_accesses a share may be made with; 0: none
  LastChunk,  \* index of the file's last chunk
  MaxStarts   \* bound: first chunks ever sent for a share

ASSUME SharesAssumption ==
  /\ IsFiniteSet(Requests)
  /\ AccessLimits \subseteq Nat
  /\ LastChunk \in Nat
  /\ MaxStarts \in Nat

VARIABLES
  share,      \* table file_share_keys
  file,       \* whether the file is there
  gets,       \* the requests of DownloadShareChunk
  owner,      \* the requests of ListShares, RevokeShare, AdminRevokeShare
  started     \* history: first chunks sent

sharesVars == <<share, file, gets, owner, started>>

Reasons == {"", "owner", "admin", "time", "exhausted"}
Chunks == 0 .. LastChunk
Counts == 0 .. MaxStarts

NoShare == [made |-> FALSE, limit |-> 0, count |-> 0, reason |-> "",
            expired |-> FALSE]
NoRequest == [pc |-> "idle"]

SharesTypeOK ==
  /\ share \in [Shares -> [made: BOOLEAN, limit: AccessLimits \cup {0},
                           count: Counts, reason: Reasons,
                           expired: BOOLEAN]]
  /\ file \in BOOLEAN
  /\ gets \in [Requests -> {NoRequest}
                 \cup [pc: {"count", "fetch"}, share: Shares, chunk: Chunks]]
  /\ owner \in [Owners -> {NoRequest}
                  \cup [pc: {"revoke"}, share: Shares, reason: Reasons \ {""}]]
  /\ started \in [Shares -> Counts]

SharesInit ==
  /\ share = [s \in Shares |-> NoShare]
  /\ file = TRUE
  /\ gets = [r \in Requests |-> NoRequest]
  /\ owner = [o \in Owners |-> NoRequest]
  /\ started = [s \in Shares |-> 0]

Exhausted(s) == share[s].limit # 0 /\ share[s].count >= share[s].limit

\* What the row says to every public endpoint (GetShareEnvelope,
\* GetShareDownloadMetadata) before its limit is looked at.
Open(s) == share[s].made /\ share[s].reason = "" /\ ~share[s].expired

-----------------------------------------------------------------------------

\* CreateFileShare.  The id must be new; the row outlives a revocation.
CreateFileShare(s) ==
  /\ file
  /\ ~share[s].made
  /\ \E limit \in AccessLimits :
       share' = [share EXCEPT ![s] = [NoShare EXCEPT !.made = TRUE,
                                                     !.limit = limit]]
  /\ UNCHANGED <<file, gets, owner, started>>

Expire(s) ==
  /\ share[s].made /\ ~share[s].expired
  /\ share' = [share EXCEPT ![s].expired = TRUE]
  /\ UNCHANGED <<file, gets, owner, started>>

\* DownloadShareChunk up to its checks of the row and of the file; the limit
\* is looked at for the first chunk only.
AskChunk(r, s, c) ==
  /\ gets[r] = NoRequest
  /\ Open(s)
  /\ c = 0 => ~Exhausted(s)
  /\ file
  /\ gets' = [gets EXCEPT ![r] =
       [pc |-> IF c = 0 THEN "count" ELSE "fetch", share |-> s, chunk |-> c]]
  /\ UNCHANGED <<share, file, owner, started>>

\* Mutant: the increment is not conditional.
MayAlwaysCount(s) == share[s].made

\* The WHERE clause of the conditional increment.
MayCount(s) ==
  share[s].made /\ (share[s].limit = 0 \/ share[s].count < share[s].limit)

\* The first chunk counts as an access before it is fetched.
CountAccess(r) ==
  /\ gets[r].pc = "count"
  /\ LET s == gets[r].share IN
       IF MayCount(s)
       THEN /\ share[s].count < MaxStarts
            /\ share' = [share EXCEPT ![s].count = @ + 1]
            /\ gets' = [gets EXCEPT ![r].pc = "fetch"]
       ELSE /\ gets' = [gets EXCEPT ![r] = NoRequest]
            /\ UNCHANGED share
  /\ UNCHANGED <<file, owner, started>>

\* GetObjectChunkWithFallback and the answer.
SendChunk(r) ==
  /\ gets[r].pc = "fetch"
  /\ file
  /\ started' = IF gets[r].chunk = 0
                THEN [started EXCEPT ![gets[r].share] = @ + 1] ELSE started
  /\ gets' = [gets EXCEPT ![r] = NoRequest]
  /\ UNCHANGED <<share, file, owner>>

\* A statement or the storage fails, or the process dies: an access counted
\* stays counted.
LoseChunk(r) ==
  /\ gets[r] # NoRequest
  /\ gets' = [gets EXCEPT ![r] = NoRequest]
  /\ UNCHANGED <<share, file, owner, started>>

-----------------------------------------------------------------------------
(* Revocation: a read of the row, then an UPDATE by its id alone.          *)

ReadShare(o, s, reason) ==
  /\ owner[o] = NoRequest
  /\ share[s].made
  /\ owner' = [owner EXCEPT ![o] =
                 [pc |-> "revoke", share |-> s, reason |-> reason]]
  /\ UNCHANGED <<share, file, gets, started>>

\* RevokeShare asks only whose the share is.
RevokeShare(o, s) == ReadShare(o, s, "owner")

AdminRevokeShare(o, s) == share[s].reason = "" /\ ReadShare(o, s, "admin")

\* ListShares closes what it finds expired or used up.
ListExpired(o, s) ==
  share[s].reason = "" /\ share[s].expired /\ ReadShare(o, s, "time")

ListExhausted(o, s) ==
  Open(s) /\ Exhausted(s) /\ ReadShare(o, s, "exhausted")

WriteRevocation(o) ==
  /\ owner[o] # NoRequest
  /\ LET s == owner[o].share IN
       share' = IF share[s].made
                THEN [share EXCEPT ![s].reason = owner[o].reason] ELSE share
  /\ owner' = [owner EXCEPT ![o] = NoRequest]
  /\ UNCHANGED <<file, gets, started>>

\* DeleteFile, AdminDeleteFile: the object first, then the rows.
DeleteFile ==
  /\ file
  /\ file' = FALSE
  /\ share' = [s \in Shares |-> NoShare]
  /\ UNCHANGED <<gets, owner, started>>

SharesNext ==
  \/ \E s \in Shares : CreateFileShare(s) \/ Expire(s)
  \/ \E r \in Requests :
       \/ \E s \in Shares, c \in Chunks : AskChunk(r, s, c)
       \/ CountAccess(r) \/ SendChunk(r) \/ LoseChunk(r)
  \/ \E o \in Owners :
       \/ \E s \in Shares : \/ RevokeShare(o, s) \/ AdminRevokeShare(o, s)
                            \/ ListExpired(o, s) \/ ListExhausted(o, s)
       \/ WriteRevocation(o)
  \/ DeleteFile

SharesSpec == SharesInit /\ [][SharesNext]_sharesVars

-----------------------------------------------------------------------------
(* Properties.                                                             *)

\* Accesses counted for which the first chunk is still being fetched.
Pending(s) ==
  {r \in Requests : /\ gets[r].pc = "fetch" /\ gets[r].share = s
                    /\ gets[r].chunk = 0}

(* However many visitors ask at once and however often one retries, the    *)
(* first chunk of a share is sent no more often than its limit allows, and *)
(* no access is sent uncounted (the conditional UPDATE at                  *)
(* handlers/file_shares.go:869).                                           *)
DownloadsWithinLimit ==
  \A s \in Shares : share[s].made =>
    /\ share[s].limit # 0 => share[s].count <= share[s].limit
    /\ started[s] + Cardinality(Pending(s)) <= share[s].count

(* A share revoked is never open again, whoever revokes it twice and with  *)
(* whatever reason, and a share is only said to be used up or expired when *)
(* it is: the reasons ListShares writes come from an earlier read          *)
(* (handlers/file_shares.go:490, handlers/admin.go:1380).                  *)
RevokedForGood ==
  [][\A s \in Shares : share[s].made /\ share[s].reason # "" =>
       \/ ~share'[s].made
       \/ /\ share'[s].reason # ""
          /\ share'[s].reason = "exhausted" => Exhausted(s)
          /\ share'[s].reason = "time" => share[s].expired]_sharesVars
=============================================================================
