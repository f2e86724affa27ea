------------------------------- MODULE Client -------------------------------
(***************************************************************************)
(* The commands one person runs side by side with the command line client  *)
(* (cmd/arkfile-client).  They share a session file and the agent, a       *)
(* daemon that keeps the account key and the digests of uploaded files.    *)
(* Of the server only the pairs of tokens are kept, as module Sessions has *)
(* them, and the files of each account.  All files have one content, so    *)
(* every digest in the cache is a hit.                                     *)
(***************************************************************************)
EXTENDS Integers

CONSTANTS
  Commands,   \* processes that run at one time
  People,     \* accounts used on this machine
  MaxPairs,   \* bound: pairs of an access and a refresh token
  FileIds     \* bound: files ever uploaded; an id is a new UUID

ASSUME ClientAssumption == MaxPairs \in Nat \ {0}

CONSTANT NoOne
ASSUME NoOneAssumption == NoOne \notin People

VARIABLES
  sessionFile, \* ~/.arkfile-session.json; there is none when pair = 0
  agent,       \* the daemon and the key it keeps; bound: the pair it is for
  digests,     \* Agent.digestCache, by file
  issued,      \* the server's tokens
  files,       \* the server's files
  cmd,         \* the commands, with the session each loaded
  calm,        \* history: no session was shared, no rotation was half done
  reused,      \* history: while calm, the server met a used refresh token
  crossed,     \* history: commands of two accounts ran at one time
  untold,      \* history: deleted files whose digest may be kept or in use
  misled       \* history: a file was refused that nothing excuses

clientVars ==
  <<sessionFile, agent, digests, issued, files, cmd, calm, reused, crossed, untold, misled>>

Pairs == 1 .. MaxPairs
Anyone == People \cup {NoOne}

NoSession == [user |-> NoOne, pair |-> 0]
NoKey == [owner |-> NoOne, bound |-> 0]
Unissued == [user |-> NoOne, family |-> 0, used |-> FALSE, revoked |-> FALSE,
             ended |-> FALSE]
NoFileYet == [owner |-> NoOne, key |-> NoOne, drift |-> FALSE, there |-> FALSE]
NoCommand == [pc |-> "idle", user |-> NoOne, pair |-> 0, key |-> NoOne,
              drift |-> FALSE, file |-> {}, back |-> "idle"]

ClientSteps ==
  {"idle", "save", "store", "list", "fill", "begun", "ready", "hit", "stale",
   "sending", "added", "rotated", "delete", "deleted", "clear", "remove"}

ClientStateOK ==
  /\ sessionFile \in [user: Anyone, pair: 0 .. MaxPairs]
  /\ agent \in [up: BOOLEAN, owner: Anyone, bound: 0 .. MaxPairs]
  /\ digests \subseteq FileIds
  /\ issued \in [Pairs -> [user: Anyone, family: 0 .. MaxPairs, used: BOOLEAN,
                           revoked: BOOLEAN, ended: BOOLEAN]]
  /\ files \in [FileIds -> [owner: Anyone, key: Anyone, drift: BOOLEAN,
                            there: BOOLEAN]]
  /\ cmd \in [Commands -> [pc: ClientSteps, user: Anyone, pair: 0 .. MaxPairs,
                           key: Anyone, drift: BOOLEAN, file: SUBSET FileIds,
                           back: ClientSteps]]
  /\ calm \in BOOLEAN /\ reused \in BOOLEAN

ClientTypeOK ==
  /\ ClientStateOK
  /\ crossed \in BOOLEAN /\ untold \subseteq FileIds /\ misled \in BOOLEAN

ClientInit ==
  /\ sessionFile = NoSession
  /\ agent = [up |-> TRUE, owner |-> NoOne, bound |-> 0]
  /\ digests = {}
  /\ issued = [n \in Pairs |-> Unissued]
  /\ files = [f \in FileIds |-> NoFileYet]
  /\ cmd = [p \in Commands |-> NoCommand]
  /\ calm = TRUE /\ reused = FALSE
  /\ crossed = FALSE /\ untold = {} /\ misled = FALSE

Is(p, step) == cmd[p].pc = step
Go(p, step) == cmd' = [cmd EXCEPT ![p].pc = step]
Done(p) == cmd' = [cmd EXCEPT ![p] = NoCommand]

Loaded(p) == [user |-> cmd[p].user, pair |-> cmd[p].pair]

\* The server accepts the access token of a pair.  It may refuse it all the
\* same, once expired: a step that needs an answer never has to happen.
Authorised(p) == ~issued[cmd[p].pair].ended

MayIssue(n) == n \in Pairs /\ issued[n] = Unissued
               /\ \A m \in Pairs : m < n => issued[m] # Unissued

server == <<issued, files>>
duplicates == <<crossed, untold, misled>>
history == <<calm, reused, duplicates>>

\* A command of u begins: one of another account may be at work.
Begins(p, u) ==
  crossed' = (crossed \/ \E q \in Commands \ {p} : cmd[q].pair # 0 /\ cmd[q].user # u)

-----------------------------------------------------------------------------
(* The agent.                                                              *)

Hold(key) == agent' = [up |-> agent.up, owner |-> key.owner, bound |-> key.bound]

\* wipeAllSensitiveDataLocked
Wipe == Hold(NoKey) /\ digests' = {}
KeepAgent == UNCHANGED <<agent, digests>>

\* handleAgentStart and ensureAgentRunning, whose daemon starts with nothing.
AgentStarts ==
  /\ ~agent.up
  /\ agent' = [agent EXCEPT !.up = TRUE]
  /\ UNCHANGED <<sessionFile, digests, server, cmd, history>>

\* handleStop, or the daemon dies.
AgentStops ==
  /\ agent.up
  /\ agent' = [up |-> FALSE, owner |-> NoOne, bound |-> 0]
  /\ digests' = {}
  /\ UNCHANGED <<sessionFile, server, cmd, history>>

\* checkAndExpireKey: only with a key are the digests wiped.
KeyExpires ==
  /\ agent.bound # 0
  /\ Wipe
  /\ UNCHANGED <<sessionFile, server, cmd, history>>

-----------------------------------------------------------------------------
(* login                                                                   *)

LoginPair(p, u) ==
  /\ Is(p, "idle")
  /\ \E n \in Pairs :
       /\ MayIssue(n)
       /\ issued' = [issued EXCEPT ![n] = [Unissued EXCEPT !.user = u, !.family = n]]
       /\ cmd' = [cmd EXCEPT ![p] = [NoCommand EXCEPT !.pc = "save", !.user = u,
                                                      !.pair = n]]
  /\ Begins(p, u)
  /\ UNCHANGED <<sessionFile, agent, digests, files, calm, reused, untold, misled>>

\* saveAuthSession; without it (--save-session=false, or it fails) the login
\* goes on.
LoginSaved(p) ==
  /\ Is(p, "save")
  /\ sessionFile' \in {Loaded(p), sessionFile}
  /\ Go(p, "store")
  /\ UNCHANGED <<agent, digests, server, history>>

\* Mutant: the key is put over the one kept before, whose digests stay.
PutOver(key) == Hold(key) /\ UNCHANGED digests

TakeKey(key) == Hold(key) /\ digests' = {}

\* handleStoreAccountKey: what was kept before is wiped first.
KeyStored(p) ==
  /\ Is(p, "store")
  /\ IF agent.up THEN TakeKey([owner |-> cmd[p].user, bound |-> cmd[p].pair]) ELSE KeepAgent
  /\ Go(p, "list")
  /\ UNCHANGED <<sessionFile, server, history>>

OwnFiles(u) == {f \in FileIds : files[f].there /\ files[f].owner = u}

\* populateDigestCache, which decrypts the digests with the key of the login.
FilesListed(p) ==
  /\ Is(p, "list")
  /\ Authorised(p)
  /\ cmd' = [cmd EXCEPT ![p].pc = "fill",
                        ![p].file = {f \in OwnFiles(cmd[p].user) : files[f].key = cmd[p].user}]
  /\ UNCHANGED <<sessionFile, agent, digests, server, history>>

\* handleStoreDigestCache: the whole cache is replaced.
CacheFilled(p) ==
  /\ Is(p, "fill")
  /\ digests' = IF agent.up THEN cmd[p].file ELSE digests
  /\ Done(p)
  /\ UNCHANGED <<sessionFile, agent, server, history>>

-----------------------------------------------------------------------------
(* upload                                                                  *)

\* A command that loads a session another one has in hand shares it.
SharesSession(p) ==
  \E q \in Commands \ {p} :
    /\ cmd[q].pair # 0
    /\ issued[cmd[q].pair].family = issued[sessionFile.pair].family

\* requireSession
LoadSession(p, step) ==
  /\ Is(p, "idle")
  /\ sessionFile.pair # 0
  /\ cmd' = [cmd EXCEPT ![p] = [NoCommand EXCEPT !.pc = step, !.user = sessionFile.user,
                                                 !.pair = sessionFile.pair]]
  /\ calm' = (calm /\ ~SharesSession(p))
  /\ Begins(p, sessionFile.user)

UploadBegun(p) ==
  /\ LoadSession(p, "begun")
  /\ UNCHANGED <<sessionFile, agent, digests, server, reused, untold, misled>>

\* Mutant: the agent does not compare the session with the one of its key.
BoundToAnything(pair) == agent.bound # 0

BoundTo(pair) == agent.bound = pair

\* requireAccountKey reads the session file again; handleGetAccountKey.
KeyGiven(p) ==
  /\ Is(p, "begun")
  /\ sessionFile.pair # 0 /\ agent.bound # 0
  /\ BoundTo(sessionFile.pair)
  /\ cmd' = [cmd EXCEPT ![p].pc = "ready", ![p].key = agent.owner,
                        ![p].drift = (sessionFile.user # cmd[p].user)]
  /\ UNCHANGED <<sessionFile, agent, digests, server, history>>

\* No session, no agent, no key, or the key of another session: that wipes it.
KeyRefused(p) ==
  /\ Is(p, "begun")
  /\ sessionFile.pair = 0 \/ agent.bound = 0 \/ ~BoundTo(sessionFile.pair)
  /\ IF sessionFile.pair # 0 /\ agent.bound # 0 THEN Wipe ELSE KeepAgent
  /\ Done(p)
  /\ UNCHANGED <<sessionFile, server, history>>

\* checkDedup: the content is in the cache.
DigestFound(p) ==
  /\ Is(p, "ready")
  /\ \E f \in digests : cmd' = [cmd EXCEPT ![p].pc = "hit", ![p].file = {f}]
  /\ UNCHANGED <<sessionFile, agent, digests, server, history>>

\* What GET /api/files/:id/meta confirms with a 200.
Confirmed(p, f) ==
  Authorised(p) /\ files[f].there /\ files[f].owner = cmd[p].user

\* A hit is excused when the file is the account's own, unless accounts had their
\* commands at one time, and is there, unless the agent need not know better.
Excused(p, f) ==
  /\ files[f].owner = cmd[p].user \/ crossed
  /\ files[f].there \/ f \in untold

\* The result is a duplicate: the file is reported and not uploaded.
Refused(p) ==
  /\ misled' = (misled \/ \E f \in cmd[p].file : ~Excused(p, f))
  /\ cmd' = [cmd EXCEPT ![p].pc = "ready", ![p].file = {}]
  /\ UNCHANGED <<sessionFile, agent, digests, server, calm, reused, crossed, untold>>

\* performDedupCheck: the server says that it has the file.
IsDuplicate(p) ==
  /\ Is(p, "hit")
  /\ \A f \in cmd[p].file : Confirmed(p, f)
  /\ Refused(p)

\* The request failed: still a duplicate, whatever the server has.
TakenForDuplicate(p) ==
  /\ Is(p, "hit")
  /\ Refused(p)

\* Any status but 200, an expired token's too.
NotConfirmed(p) ==
  /\ Is(p, "hit")
  /\ Go(p, "stale")
  /\ UNCHANGED <<sessionFile, agent, digests, server, history>>

StaleDigestRemoved(p) ==
  /\ Is(p, "stale")
  /\ digests' = digests \ cmd[p].file
  /\ cmd' = [cmd EXCEPT ![p].pc = "sending", ![p].file = {}]
  /\ UNCHANGED <<sessionFile, agent, server, history>>

\* doChunkedUpload: the session is written by the server as the owner.  No digest
\* was found, or the cache cannot be had, or --force does not look.
Uploaded(p) ==
  /\ Is(p, "ready") \/ Is(p, "sending")
  /\ Authorised(p)
  /\ \E f \in FileIds :
       /\ files[f] = NoFileYet
       /\ files' = [files EXCEPT ![f] = [owner |-> cmd[p].user, key |-> cmd[p].key,
                                         drift |-> cmd[p].drift, there |-> TRUE]]
       /\ cmd' = [cmd EXCEPT ![p].pc = "added", ![p].file = {f}]
  /\ UNCHANGED <<sessionFile, agent, digests, issued, history>>

\* handleAddDigest makes a cache where there is none; then the next file.
DigestAdded(p) ==
  /\ Is(p, "added")
  /\ digests' = IF agent.up THEN digests \cup cmd[p].file ELSE digests
  /\ cmd' = [cmd EXCEPT ![p].pc = "ready", ![p].file = {}]
  /\ UNCHANGED <<sessionFile, agent, server, history>>

-----------------------------------------------------------------------------
(* Refreshing the session, before a file or a chunk and after a 401.       *)

MayRefresh(p) == cmd[p].pc \in {"ready", "sending"}

\* Mutant: the process goes on with the refresh token it sent.
AdoptNothing(c, n) == [c EXCEPT !.pc = "rotated", !.back = c.pc]

Adopt(c, n) == [c EXCEPT !.pc = "rotated", !.back = c.pc, !.pair = n]

\* refreshSessionToken; the server has rotated the token when the answer is
\* lost, and that ends the batch.
Refreshed(p) ==
  /\ MayRefresh(p)
  /\ ~issued[cmd[p].pair].revoked /\ ~issued[cmd[p].pair].used
  /\ \E n \in Pairs :
       /\ MayIssue(n)
       /\ issued' = [issued EXCEPT
            ![cmd[p].pair].used = TRUE,
            ![n] = [Unissued EXCEPT !.user = cmd[p].user,
                                    !.family = issued[cmd[p].pair].family]]
       /\ \/ cmd' = [cmd EXCEPT ![p] = Adopt(@, n)] /\ UNCHANGED calm
          \/ Done(p) /\ calm' = FALSE
  /\ UNCHANGED <<sessionFile, agent, digests, files, reused, duplicates>>

\* Pairs of a family whose refresh tokens fall, of a user whose access
\* tokens do.
Fall(family, user) ==
  [n \in Pairs |->
     [issued[n] EXCEPT !.revoked = @ \/ issued[n].family = family,
                       !.ended = @ \/ issued[n].user = user]]

RefreshRefused(p) ==
  /\ MayRefresh(p)
  /\ LET mine == issued[cmd[p].pair] IN
       /\ mine.revoked \/ mine.used
       /\ issued' = IF mine.revoked THEN issued ELSE Fall(mine.family, mine.user)
       /\ reused' = (reused \/ (calm /\ ~mine.revoked))
  /\ Done(p)
  /\ UNCHANGED <<sessionFile, agent, digests, files, calm, duplicates>>

\* atomicSaveAuthSession; a failure is only logged.
RotationSaved(p) ==
  /\ Is(p, "rotated")
  /\ \/ sessionFile' = Loaded(p) /\ UNCHANGED calm
     \/ sessionFile' = sessionFile /\ calm' = FALSE
  /\ cmd' = [cmd EXCEPT ![p].pc = cmd[p].back, ![p].back = "idle"]
  /\ UNCHANGED <<agent, digests, server, reused, duplicates>>

-----------------------------------------------------------------------------
(* delete-file, logout, revoke-all                                         *)

DeleteBegun(p) ==
  /\ LoadSession(p, "delete")
  /\ UNCHANGED <<sessionFile, agent, digests, server, reused, untold, misled>>

\* A file goes, and the agent has not been told.
Vanishes(f) ==
  /\ files' = [files EXCEPT ![f].there = FALSE]
  /\ untold' = untold \cup {f}
  /\ UNCHANGED <<sessionFile, agent, digests, issued, calm, reused, crossed, misled>>

FileDeleted(p) ==
  /\ Is(p, "delete")
  /\ Authorised(p)
  /\ \E f \in OwnFiles(cmd[p].user) :
       /\ Vanishes(f)
       /\ cmd' = [cmd EXCEPT ![p].pc = "deleted", ![p].file = {f}]

\* Mutant: the agent is not told.
Untouched(p) == digests

Without(p) == digests \ cmd[p].file

InOtherHands(p) == UNION {cmd[q].file : q \in Commands \ {p}}

\* handleRemoveDigest
DigestRemoved(p) ==
  /\ Is(p, "deleted")
  /\ digests' = Without(p)
  /\ untold' = untold \ (cmd[p].file \ InOtherHands(p))
  /\ Done(p)
  /\ UNCHANGED <<sessionFile, agent, server, calm, reused, crossed, misled>>

\* A file is deleted in the web client.
DeletedElsewhere ==
  /\ \E f \in FileIds : files[f].there /\ Vanishes(f)
  /\ UNCHANGED cmd

\* POST /api/auth/revoke-all, with the session just loaded.
AllRevoked(p) ==
  /\ LoadSession(p, "clear")
  /\ ~issued[sessionFile.pair].ended
  /\ issued' = [n \in Pairs |->
       [issued[n] EXCEPT !.revoked = @ \/ issued[n].user = sessionFile.user,
                         !.ended = @ \/ issued[n].user = sessionFile.user]]
  /\ UNCHANGED <<sessionFile, agent, digests, files, reused, untold, misled>>

\* handleClear, where a logout begins; the server is not told of it.
AgentCleared(p) ==
  /\ Is(p, "clear") \/ Is(p, "idle")
  /\ Wipe
  /\ Go(p, "remove")
  /\ UNCHANGED <<sessionFile, server, history>>

SessionRemoved(p) ==
  /\ Is(p, "remove")
  /\ sessionFile' = NoSession
  /\ Done(p)
  /\ UNCHANGED <<agent, digests, server, history>>

-----------------------------------------------------------------------------

\* A command ends: its last file is done, a request failed, or it was killed.
Ends(p) ==
  /\ ~Is(p, "idle")
  /\ calm' = (calm /\ ~Is(p, "rotated"))
  /\ Done(p)
  /\ UNCHANGED <<sessionFile, agent, digests, server, reused, duplicates>>

ClientNext ==
  \/ AgentStarts \/ AgentStops \/ KeyExpires \/ DeletedElsewhere
  \/ \E p \in Commands :
       \/ \E u \in People : LoginPair(p, u)
       \/ LoginSaved(p) \/ KeyStored(p) \/ FilesListed(p) \/ CacheFilled(p)
       \/ UploadBegun(p) \/ KeyGiven(p) \/ KeyRefused(p)
       \/ DigestFound(p)
       \/ IsDuplicate(p) \/ TakenForDuplicate(p) \/ NotConfirmed(p)
       \/ StaleDigestRemoved(p) \/ Uploaded(p) \/ DigestAdded(p)
       \/ Refreshed(p) \/ RefreshRefused(p) \/ RotationSaved(p)
       \/ DeleteBegun(p) \/ FileDeleted(p) \/ DigestRemoved(p)
       \/ AllRevoked(p) \/ AgentCleared(p) \/ SessionRemoved(p)
       \/ Ends(p)

ClientSpec == ClientInit /\ [][ClientNext]_clientVars

-----------------------------------------------------------------------------
(* Properties.                                                             *)

(* A file is uploaded under the key of the account it goes to, whoever     *)
(* logs in meanwhile, unless the session file changed hands between the    *)
(* two times a command reads it (cmd/arkfile-client/main.go:525).          *)
KeyOfOwner ==
  \A f \in FileIds : files[f] # NoFileYet /\ ~files[f].drift => files[f].key = files[f].owner

(* Commands that follow one another, and batches of several accounts or    *)
(* logins side by side, never present a refresh token twice: that would    *)
(* end the session.  Two commands with the same session, a rotation that   *)
(* was not saved or whose answer was lost do (main.go:1414).               *)
SessionSurvives == ~reused

\* Keys and sessions: see the two parts.
ClientHolds == KeyOfOwner /\ SessionSurvives

(* A file is refused as a duplicate of one that the account itself         *)
(* uploaded, and that is still there, however often logins, logouts and    *)
(* expiries have emptied and filled the digests in between.  When the      *)
(* server cannot be asked the code refuses on the digest alone             *)
(* (dedup.go:96), so two things are excused.  Digests of another account   *)
(* are believed once commands of two accounts ran at one time.  And a      *)
(* copy may be gone of whose deletion the agent knows nothing: it was      *)
(* deleted in the web client, the command that deleted it has not told the *)
(* agent yet or died, or another command had the file in hand when it did. *)
RefusedIsOwn == ~misled
=============================================================================
