------------------------------ MODULE Recovery ------------------------------
(***************************************************************************)
(* What one person knows and holds against what the server asks for at a   *)
(* login: the commands login, setup-mfa, recover-mfa and mfa of the two    *)
(* command line programs (cmd/arkfile-admin, cmd/arkfile-client, cli/mfa)  *)
(* with answers that get lost, commands that die, sessions that end and    *)
(* devices that go missing.  A request is one step of the server: module   *)
(* Enrollment has its statements and the requests that overlap.            *)
(***************************************************************************)
EXTENDS Integers

CONSTANTS
  CodesPerSet,  \* backup codes of a set; the server makes ten
  MaxEnrolled,  \* bound: rows of user_mfa_credentials ever made
  MaxSets,      \* bound: sets of backup codes ever made
  MaxLosses     \* bound: devices or sheets of codes that go missing

ASSUME RecoveryAssumption ==
  /\ CodesPerSet \in Nat \ {0}
  /\ MaxEnrolled \in Nat \ {0}
  /\ MaxSets \in Nat \ {0}
  /\ MaxLosses \in Nat

VARIABLES
  program,    \* the program: login of arkfile-client has --defer-mfa
  factor,     \* the server's rows: the number of a secret or a key, completed
  codeSet,    \* the server's set of backup codes; 0 when there is none
  codesLeft,  \* its codes that are not used
  held,       \* secrets in the person's phone, keys on the key ring
  sheet,      \* the set the person wrote down
  tokens,     \* the tokens of the session file
  doing,      \* the command that runs
  made,       \* rows and sets made so far; each is named by its number
  losses,     \* how often something went missing
  unlucky     \* history: codes were replaced and the answer lost, or deleted
              \* under a row that stays, and no codes came since

recoveryVars ==
  <<program, factor, codeSet, codesLeft, held, sheet, tokens, doing, made, losses,
    unlucky>>

FactorKinds == {"totp", "webauthn"}
Numbers == 0 .. MaxEnrolled
NoFactor == [id |-> 0, done |-> FALSE]
NoTokens == [temp |-> "none", full |-> "none"]
TempOnly == [temp |-> "live", full |-> "none"]
FullOnly == [temp |-> "none", full |-> "live"]
Nothing == [pc |-> "none"]

RecoveryTypeOK ==
  /\ program \in {"admin", "client"}
  /\ factor \in [FactorKinds -> [id: Numbers, done: BOOLEAN]]
  /\ codeSet \in 0 .. MaxSets
  /\ codesLeft \in 0 .. CodesPerSet
  /\ held \subseteq FactorKinds \X Numbers
  /\ sheet \in 0 .. MaxSets
  /\ tokens \in [temp: {"none", "live", "dead"}, full: {"none", "live", "dead"}]
  /\ doing \in {Nothing} \cup [pc: {"enrol"}, kind: FactorKinds, with: {"temp", "full"}]
                        \cup [pc: {"second", "reset"}]
  /\ made \in [rows: 0 .. MaxEnrolled, sets: 0 .. MaxSets]
  /\ losses \in 0 .. MaxLosses
  /\ unlucky \in BOOLEAN

\* Registration and bootstrap leave a session with a temporary token.
RecoveryInit ==
  /\ program \in {"admin", "client"}
  /\ factor = [k \in FactorKinds |-> NoFactor]
  /\ codeSet = 0 /\ codesLeft = 0
  /\ held = {} /\ sheet = 0
  /\ tokens = TempOnly
  /\ doing = Nothing
  /\ made = [rows |-> 0, sets |-> 0]
  /\ losses = 0 /\ unlucky = FALSE

HasFactor(k) == factor[k].id # 0
BeingEnrolled(k) == HasFactor(k) /\ ~factor[k].done
AnyCompleted(f) == \E k \in FactorKinds : f[k].done
SheetFits == sheet # 0 /\ sheet = codeSet
KnowsCode == SheetFits /\ codesLeft > 0
CanAnswer(k) == factor[k].done /\ <<k, factor[k].id>> \in held

\* Each command takes the temporary token when the file has one.
TokenUsed == IF tokens.temp # "none" THEN "temp" ELSE "full"
Accepted(t) == tokens[t] = "live"

\* RequireMFA: a full token is worth nothing without a completed factor.
FullAccepted == TokenUsed = "full" /\ Accepted("full") /\ AnyCompleted(factor)

\* The server makes a set of codes; without an answer the person never sees it.
Issued(shown, bad) ==
  /\ made.sets < MaxSets
  /\ codeSet' = made.sets + 1
  /\ codesLeft' = CodesPerSet
  /\ sheet' = IF shown THEN made.sets + 1 ELSE sheet
  /\ unlucky' = IF shown THEN FALSE ELSE unlucky \/ bad

SameCodes == UNCHANGED <<codeSet, codesLeft, sheet, unlucky>>

-----------------------------------------------------------------------------
(* login                                                                   *)

\* handleLoginCommand: without a completed factor the temporary token is
\* saved; arkfile-client saves it with --defer-mfa.
LoginToSetUp ==
  /\ doing = Nothing
  /\ \/ ~AnyCompleted(factor)
     \/ program = "client"
  /\ tokens' = TempOnly
  /\ UNCHANGED <<program, factor, codeSet, codesLeft, held, sheet, doing, made,
                 losses, unlucky>>

\* The password was right and a factor is asked for.
LoginBegun ==
  /\ doing = Nothing
  /\ AnyCompleted(factor)
  /\ doing' = [pc |-> "second"]
  /\ UNCHANGED <<program, factor, codeSet, codesLeft, held, sheet, tokens, made,
                 losses, unlucky>>

\* CompleteLogin with a code of the phone or with the key.
LoginWithFactor ==
  /\ doing.pc = "second"
  /\ \E k \in FactorKinds : CanAnswer(k)
  /\ tokens' \in {FullOnly, tokens}
  /\ doing' = Nothing
  /\ UNCHANGED <<program, factor, codeSet, codesLeft, held, sheet, made, losses,
                 unlucky>>

\* ... with a backup code, which is used up with or without an answer.
LoginWithCode ==
  /\ doing.pc = "second"
  /\ KnowsCode
  /\ codesLeft' = codesLeft - 1
  /\ tokens' \in {FullOnly, tokens}
  /\ doing' = Nothing
  /\ UNCHANGED <<program, factor, codeSet, held, sheet, made, losses, unlucky>>

-----------------------------------------------------------------------------
(* setup-mfa                                                               *)

\* What token the first request wants: the one for a second factor wants a
\* full one.
MaySetUp ==
  /\ doing = Nothing
  /\ \/ TokenUsed = "temp" /\ Accepted("temp")
     \/ FullAccepted

\* Mutant: a secret that is handed out again comes without codes.
CodesWithSecret == ~AnyCompleted(factor) /\ ~HasFactor("totp")

\* ShouldIssueBackupCodes, asked for a new secret and for a pending one.
CodesWithFactor == ~AnyCompleted(factor)

\* runTOTPSetup: the secret goes to the phone, then the command asks for a code.
TOTPShown(answered, id) ==
  /\ held' = IF answered THEN held \cup {<<"totp", id>>} ELSE held
  /\ doing' = IF answered
              THEN [pc |-> "enrol", kind |-> "totp", with |-> TokenUsed]
              ELSE Nothing

\* MFASetup: a pending secret is handed out again.
TOTPSetUp ==
  /\ MaySetUp
  /\ ~factor["totp"].done
  /\ LET new == ~HasFactor("totp")
         id == IF new THEN made.rows + 1 ELSE factor["totp"].id
     IN \E answered \in BOOLEAN :
          /\ id <= MaxEnrolled
          /\ factor' = [factor EXCEPT !["totp"].id = id]
          /\ made' = [rows |-> IF new THEN id ELSE made.rows,
                      sets |-> made.sets + (IF CodesWithFactor THEN 1 ELSE 0)]
          /\ IF CodesWithFactor THEN Issued(answered, SheetFits) ELSE SameCodes
          /\ TOTPShown(answered, id)
  /\ UNCHANGED <<program, tokens, losses>>

\* runWebAuthnSetup: the command asks for a touch of the key.
KeyAsked(answered) ==
  /\ doing' = IF answered
              THEN [pc |-> "enrol", kind |-> "webauthn", with |-> TokenUsed]
              ELSE Nothing
  /\ UNCHANGED held

\* WebAuthnRegisterBegin: a pending key is resumed, and has no codes then; it
\* is not when a newer secret is pending.
KeySetUp ==
  /\ MaySetUp
  /\ ~factor["webauthn"].done
  /\ BeingEnrolled("webauthn") =>
       (BeingEnrolled("totp") => factor["totp"].id < factor["webauthn"].id)
  /\ LET new == ~HasFactor("webauthn")
         id == IF new THEN made.rows + 1 ELSE factor["webauthn"].id
         issue == new /\ ~AnyCompleted(factor)
     IN \E answered \in BOOLEAN :
          /\ id <= MaxEnrolled
          /\ factor' = [factor EXCEPT !["webauthn"].id = id]
          /\ made' = [rows |-> IF new THEN id ELSE made.rows,
                      sets |-> made.sets + (IF issue THEN 1 ELSE 0)]
          /\ IF issue THEN Issued(answered, TRUE) ELSE SameCodes
          /\ KeyAsked(answered)
  /\ UNCHANGED <<program, tokens, losses>>

\* OnComplete; the answer to a full token has no tokens in it.
TokensAfter(with) == IF with = "temp" THEN FullOnly ELSE [tokens EXCEPT !.temp = "none"]

\* MFAVerify, which takes temporary tokens only; setup-mfa --verify is this
\* request alone.
TOTPVerified ==
  /\ \/ doing.pc = "enrol" /\ doing.kind = "totp" /\ doing.with = "temp"
     \/ doing = Nothing /\ TokenUsed = "temp"
  /\ Accepted("temp")
  /\ BeingEnrolled("totp") /\ <<"totp", factor["totp"].id>> \in held
  /\ factor' = [factor EXCEPT !["totp"].done = TRUE]
  /\ tokens' \in {TokensAfter("temp"), tokens}
  /\ doing' = Nothing
  /\ UNCHANGED <<program, codeSet, codesLeft, held, sheet, made, losses,
                 unlucky>>

\* WebAuthnRegisterFinish; the key was touched before.
KeyFinished ==
  /\ doing.pc = "enrol" /\ doing.kind = "webauthn"
  /\ Accepted(doing.with)
  /\ doing.with = "full" => AnyCompleted(factor)
  /\ BeingEnrolled("webauthn")
  /\ factor' = [factor EXCEPT !["webauthn"].done = TRUE]
  /\ held' = held \cup {<<"webauthn", factor["webauthn"].id>>}
  /\ tokens' \in {TokensAfter(doing.with), tokens}
  /\ doing' = Nothing
  /\ UNCHANGED <<program, codeSet, codesLeft, sheet, made, losses, unlucky>>

-----------------------------------------------------------------------------
(* recover-mfa                                                             *)

\* RunRecover goes on with the reset token of the answer.
RecoveryGoesOn(answered) == doing' = IF answered THEN [pc |-> "reset"] ELSE Nothing

\* RecoverWithBackupCode takes temporary tokens only and uses the code up.
CodeBurnt ==
  /\ doing = Nothing
  /\ TokenUsed = "temp" /\ Accepted("temp")
  /\ KnowsCode
  /\ codesLeft' = codesLeft - 1
  /\ \E answered \in BOOLEAN : RecoveryGoesOn(answered)
  /\ UNCHANGED <<program, factor, codeSet, held, sheet, tokens, made, losses,
                 unlucky>>

\* handleRecoverMFACommand saves the temporary token of the answer, nothing
\* else of the session is changed.
ResetSaved(answered, k, id) ==
  /\ tokens' = IF answered THEN [tokens EXCEPT !.temp = "live"] ELSE tokens
  /\ held' = IF answered /\ k = "totp" THEN held \cup {<<k, id>>} ELSE held

\* MFAReset with the reset token puts a pending row in the place of the factor
\* and new codes in the place of the old.
FactorReset(k) ==
  /\ doing.pc = "reset"
  /\ made.rows < MaxEnrolled
  /\ made' = [rows |-> made.rows + 1, sets |-> made.sets + 1]
  /\ factor' = [factor EXCEPT ![k] = [id |-> made.rows + 1, done |-> FALSE]]
  /\ \E answered \in BOOLEAN :
       /\ Issued(answered, TRUE)
       /\ ResetSaved(answered, k, made.rows + 1)
  /\ doing' = Nothing
  /\ UNCHANGED <<program, losses>>

-----------------------------------------------------------------------------
(* mfa, and what an administrator does.                                    *)

\* RegenerateMFABackupCodes; the commands of mfa use the access token.
CodesRegenerated ==
  /\ doing = Nothing
  /\ Accepted("full") /\ AnyCompleted(factor)
  /\ \E answered \in BOOLEAN : Issued(answered, TRUE)
  /\ made' = [made EXCEPT !.sets = @ + 1]
  /\ UNCHANGED <<program, factor, held, tokens, doing, losses>>

\* Mutant: the codes go with any factor.
CodesGoToo(f) == TRUE

\* The codes go with the last completed factor.
CodesGoWith(f) == ~AnyCompleted(f)

\* The rows of ks are deleted, then the sessions revoked, which may fail.
FactorsDeleted(ks) ==
  /\ LET left == [k \in FactorKinds |-> IF k \in ks THEN NoFactor ELSE factor[k]]
     IN /\ factor' = left
        /\ IF CodesGoWith(left)
           THEN /\ codeSet' = 0 /\ codesLeft' = 0
                /\ unlucky' = (\E k \in FactorKinds : left[k].id # 0 /\ ~left[k].done)
           ELSE UNCHANGED <<codeSet, codesLeft, unlucky>>
  /\ tokens' \in {[tokens EXCEPT !.full = IF @ = "live" THEN "dead" ELSE @], tokens}
  /\ UNCHANGED <<program, held, sheet, doing, made, losses>>

\* DeleteMFACredential of a completed factor: mfa list shows no others.
FactorRemoved(k) ==
  /\ doing = Nothing
  /\ Accepted("full")
  /\ factor[k].done
  /\ FactorsDeleted({k})

\* AdminResetUserMFA of all factors or of one.
ResetByAdmin ==
  /\ \E k \in FactorKinds : HasFactor(k)
  /\ \/ FactorsDeleted(FactorKinds)
     \/ \E k \in FactorKinds : factor[k].done /\ FactorsDeleted({k})

-----------------------------------------------------------------------------

\* A command dies or is refused; what it did not save is gone.
CommandEnds ==
  /\ doing # Nothing
  /\ doing' = Nothing
  /\ UNCHANGED <<program, factor, codeSet, codesLeft, held, sheet, tokens, made,
                 losses, unlucky>>

\* A token expires; handleLogoutCommand removes the session file.
TokenEnds ==
  /\ tokens' \in {NoTokens,
                  [tokens EXCEPT !.temp = IF @ = "live" THEN "dead" ELSE @],
                  [tokens EXCEPT !.full = IF @ = "live" THEN "dead" ELSE @]}
  /\ tokens' = NoTokens => doing = Nothing
  /\ UNCHANGED <<program, factor, codeSet, codesLeft, held, sheet, doing, made,
                 losses, unlucky>>

\* The phone, the key or the sheet goes missing.  A new phone is there at once.
Lost ==
  /\ losses < MaxLosses
  /\ losses' = losses + 1
  /\ \/ \E k \in FactorKinds : held' = {h \in held : h[1] # k} /\ UNCHANGED sheet
     \/ sheet' = 0 /\ UNCHANGED held
  /\ UNCHANGED <<program, factor, codeSet, codesLeft, tokens, doing, made,
                 unlucky>>

RecoveryNext ==
  \/ LoginToSetUp \/ LoginBegun \/ LoginWithFactor \/ LoginWithCode
  \/ TOTPSetUp \/ KeySetUp \/ TOTPVerified \/ KeyFinished
  \/ CodeBurnt \/ \E k \in FactorKinds : FactorReset(k) \/ FactorRemoved(k)
  \/ CodesRegenerated \/ ResetByAdmin
  \/ CommandEnds \/ TokenEnds \/ Lost

RecoverySpec == RecoveryInit /\ [][RecoveryNext]_recoveryVars

-----------------------------------------------------------------------------
(* Properties.                                                             *)

\* With the password the person gets a full session: by enrolling when the
\* server knows of no factor, by a factor at hand, or by a code.
HasWayIn == ~AnyCompleted(factor) \/ (\E k \in FactorKinds : CanAnswer(k)) \/ KnowsCode

(* Whatever answers are lost, commands die and sessions end, a person whose *)
(* phone, key and sheet are all there gets in, and so does one who misses   *)
(* one of them, unless an answer with codes was lost outside of the first   *)
(* enrolment of an authenticator, or the codes are used up                  *)
(* (auth/mfa_setup.go:77, handlers/auth.go:993).                            *)
WayIn ==
  losses = 0 \/ (losses = 1 /\ ~unlucky /\ (codesLeft > 0 \/ codeSet = 0)) => HasWayIn

(* The codes that go with a completed factor are the ones the person wrote  *)
(* down, with the same exceptions; in particular an enrolment that was      *)
(* broken off and resumed leaves no other ones                              *)
(* (auth/mfa_setup.go:75).                                                  *)
SheetIsGood ==
  AnyCompleted(factor) /\ losses = 0 /\ ~unlucky => SheetFits

RecoveryHolds == WayIn /\ SheetIsGood
=============================================================================
