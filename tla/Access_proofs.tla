---------------------------- MODULE Access_proofs ----------------------------
(***************************************************************************)
(* What holds of the codes of a second factor, of sessions, of accounts    *)
(* and of the rate limits, for any number of requests, tokens, ceremonies, *)
(* keys and refused attempts: the components that decide who is let in.    *)
(***************************************************************************)
EXTENDS MCAccess, Ledger_proofs, Sums_proofs

-----------------------------------------------------------------------------
(***************************************************************************)
(* Codes: types                                                            *)
(***************************************************************************)

TotpStep == [pc: {"replay", "log"}, use: Windows, late: BOOLEAN]
BackupStep == [pc: {"consume"}, set: Sets]
Step == {NoCode} \cup TotpStep \cup BackupStep

LEMMA StepKinds ==
  ASSUME NEW s \in Step
  PROVE  /\ s.pc \in {"replay", "log"} => s \in TotpStep
         /\ s.pc = "consume" => s \in BackupStep
  BY DEF Step, TotpStep, BackupStep, NoCode

LEMMA GoesTyped ==
  ASSUME CodesTypeOK, NEW p \in Presenters, NEW s \in Step, Goes(p, s)
  PROVE  /\ presented' \in [Presenters -> Step]
         /\ presented'[p] = s
         /\ \A q \in Presenters : q # p => presented'[q] = presented[q]
  BY DEF CodesTypeOK, Goes, Step, TotpStep, BackupStep

LEMMA NoCodeTyped == NoCode \in Step /\ NoCode.pc = "idle"
  BY DEF Step, NoCode

\* What CheckReplay makes of a request that passes.
Passes(p) ==
  [presented[p] EXCEPT !.pc = "log", !.late =
     @ \/ \E q \in Presenters : /\ presented[q].pc = "log"
                                /\ presented[q].use = presented[p].use]

LEMMA PassesTyped ==
  ASSUME CodesTypeOK, NEW p \in Presenters, presented[p].pc = "replay"
  PROVE  /\ Passes(p) \in TotpStep /\ Passes(p).pc = "log"
         /\ Passes(p).use = presented[p].use
         /\ Passes(p).late <=>
              \/ presented[p].late
              \/ \E q \in Presenters : /\ presented[q].pc = "log"
                                       /\ presented[q].use = presented[p].use
<1> DEFINE other == \E q \in Presenters : /\ presented[q].pc = "log"
                                          /\ presented[q].use = presented[p].use
<1>1. presented[p] \in TotpStep
  BY StepKinds DEF CodesTypeOK, Step, TotpStep, BackupStep
<1>2. Passes(p) = [presented[p] EXCEPT !.pc = "log", !.late = @ \/ other]
  BY DEF Passes
<1>3. other \in BOOLEAN
  OBVIOUS
<1> HIDE DEF other
<1>4. (presented[p].late \/ other) \in BOOLEAN
  BY <1>1, <1>3 DEF TotpStep
<1>5. /\ Passes(p) \in TotpStep /\ Passes(p).pc = "log"
      /\ Passes(p).use = presented[p].use
      /\ Passes(p).late = (presented[p].late \/ other)
  BY <1>1, <1>2, <1>4 DEF TotpStep
<1>6. QED BY <1>5 DEF other

LEMMA StepTypes ==
  ASSUME CodesTypeOK, CodesNext
  PROVE  CodesTypeOK'
<1>1. ASSUME NEW p \in Presenters, PresentCode(p)
      PROVE  CodesTypeOK'
  <2>1. [pc |-> "replay", use |-> window, late |-> FALSE] \in Step
    BY DEF CodesTypeOK, Step, TotpStep
  <2>2. QED BY <1>1, <2>1, GoesTyped
            DEF PresentCode, CodesTypeOK, Step, TotpStep, BackupStep
<1>2. ASSUME NEW p \in Presenters, CheckReplay(p)
      PROVE  CodesTypeOK'
  <2>1. Goes(p, NoCode) \/ Goes(p, Passes(p))
    BY <1>2 DEF CheckReplay, Passes
  <2>2. NoCode \in Step /\ Passes(p) \in Step
    BY <1>2, NoCodeTyped, PassesTyped DEF CheckReplay, Step
  <2>3. presented' \in [Presenters -> Step]
    BY <2>1, <2>2, GoesTyped
  <2>4. QED
    BY <1>2, <2>3 DEF CheckReplay, CodesTypeOK, Step, TotpStep, BackupStep
<1>3. ASSUME NEW p \in Presenters, LogUsage(p)
      PROVE  CodesTypeOK'
  <2>1. presented' \in [Presenters -> Step]
    BY <1>3, NoCodeTyped, GoesTyped DEF LogUsage
  <2>2. PICK use \in Windows : use = presented[p].use
    BY <1>3, StepKinds DEF LogUsage, CodesTypeOK, Step, TotpStep, BackupStep
  <2>3. accepted[use] < MaxAccepted /\ accepted' = [accepted EXCEPT ![use] = @ + 1]
    BY <1>3, <2>2 DEF LogUsage
  <2>4. accepted' \in [Windows -> 0 .. MaxAccepted]
    <3>1. accepted[use] + 1 \in 0 .. MaxAccepted
      BY <2>3, CodesAssumption DEF CodesTypeOK
    <3>2. QED BY <2>3, <3>1 DEF CodesTypeOK
  <2>5. /\ usage' = usage \/ usage' = usage \cup {use}
        /\ excused' = excused \/ excused' = [excused EXCEPT ![use] = @ + 1]
    BY <1>3, <2>2 DEF LogUsage
  <2>6. usage' \subseteq Windows /\ excused' \in [Windows -> Nat]
    BY <2>5 DEF CodesTypeOK
  <2>7. QED
    BY <1>3, <2>1, <2>4, <2>6 DEF LogUsage, CodesTypeOK, Step, TotpStep, BackupStep
<1>4. ASSUME NEW p \in Presenters, FindBackupCode(p)
      PROVE  CodesTypeOK'
  <2>1. [pc |-> "consume", set |-> backup.set] \in Step
    BY DEF CodesTypeOK, Step, BackupStep
  <2>2. QED BY <1>4, <2>1, GoesTyped
            DEF FindBackupCode, CodesTypeOK, Step, TotpStep, BackupStep
<1>5. ASSUME NEW p \in Presenters, ConsumeBackupCode(p)
      PROVE  CodesTypeOK'
  <2>1. presented' \in [Presenters -> Step]
    BY <1>5, NoCodeTyped, GoesTyped DEF ConsumeBackupCode
  <2>2. PICK set \in Sets : set = presented[p].set
    BY <1>5, StepKinds
    DEF ConsumeBackupCode, CodesTypeOK, Step, TotpStep, BackupStep
  <2>3. \/ UNCHANGED <<backup, redeemed>>
        \/ /\ backup' = [backup EXCEPT !.unused = FALSE]
           /\ redeemed' = [redeemed EXCEPT ![set] = @ + 1]
    BY <1>5, <2>2 DEF ConsumeBackupCode
  <2>4. backup' \in [set: Sets, unused: BOOLEAN]
    BY <2>3 DEF CodesTypeOK
  <2>5. redeemed' \in [Sets -> Nat]
    BY <2>3 DEF CodesTypeOK
  <2>6. QED BY <1>5, <2>1, <2>4, <2>5
            DEF ConsumeBackupCode, CodesTypeOK, Step, TotpStep, BackupStep
<1>6. ASSUME NEW p \in Presenters, GiveUp(p)
      PROVE  CodesTypeOK'
  BY <1>6, NoCodeTyped, GoesTyped
  DEF GiveUp, CodesTypeOK, Step, TotpStep, BackupStep
<1>7. CASE NewBackupCodes
  BY <1>7 DEF NewBackupCodes, CodesTypeOK
<1>8. CASE CleanupMFALogs
  <2>1. ASSUME NEW p \in Presenters, presented[p].pc = "replay"
        PROVE  [presented[p] EXCEPT !.late = TRUE] \in TotpStep
    <3>1. presented[p] \in TotpStep
      BY <2>1, StepKinds DEF CodesTypeOK, Step, TotpStep, BackupStep
    <3>2. QED BY <3>1 DEF TotpStep
  <2>2. presented' \in [Presenters -> Step]
    BY <1>8, <2>1 DEF CleanupMFALogs, CodesTypeOK, Step, TotpStep, BackupStep
  <2>3. usage' \subseteq Windows
    BY <1>8 DEF CleanupMFALogs, CodesTypeOK
  <2>4. QED BY <1>8, <2>2, <2>3
            DEF CleanupMFALogs, CodesTypeOK, Step, TotpStep, BackupStep
<1>9. CASE TickWindow
  BY <1>9, CodesAssumption DEF TickWindow, CodesTypeOK, Windows
<1>10. QED
  BY <1>1, <1>2, <1>3, <1>4, <1>5, <1>6, <1>7, <1>8, <1>9 DEF CodesNext

-----------------------------------------------------------------------------
(***************************************************************************)
(* Codes: a TOTP code in one window                                        *)
(***************************************************************************)

\* The request has passed the check first and will log the use.
First(p, w) == presented[p].pc = "log" /\ presented[p].use = w /\ ~presented[p].late

\* The request is about to look for a use without having been overtaken.
InTime(p, w) ==
  presented[p].pc = "replay" /\ presented[p].use = w /\ ~presented[p].late

OneFirst(w) == \A p, q \in Presenters : First(p, w) /\ First(q, w) => p = q

\* Once the code was accepted, its use is in the log, or was and is deleted when
\* only slow requests are left.
AcceptedIsLogged(w) ==
  accepted[w] > excused[w] =>
    /\ \A p \in Presenters : ~First(p, w)
    /\ \/ w \in usage
       \/ w # window /\ \A p \in Presenters : ~InTime(p, w)

WindowInv ==
  \A w \in Windows : /\ OneFirst(w) /\ AcceptedIsLogged(w)
                     /\ accepted[w] <= 1 + excused[w]
                     /\ w > window => accepted[w] = 0

\* A step that changes no request for the worse, nor what was accepted.
LEMMA WindowStays ==
  ASSUME CodesTypeOK, WindowInv, UNCHANGED <<window, usage, accepted, excused>>,
         \A p \in Presenters, w \in Windows :
           /\ First(p, w)' => First(p, w)
           /\ InTime(p, w)' => InTime(p, w) \/ w = window
  PROVE  WindowInv'
<1>1. ASSUME NEW w \in Windows
      PROVE  OneFirst(w)' /\ AcceptedIsLogged(w)'
  BY DEF WindowInv, OneFirst, AcceptedIsLogged
<1>2. QED BY <1>1 DEF WindowInv

\* A request that ends or begins with something else than a TOTP code.
LEMMA OtherStays ==
  ASSUME CodesTypeOK, WindowInv, NEW p \in Presenters,
         NEW s \in Step, s.pc \in {"idle", "consume"}, Goes(p, s),
         UNCHANGED <<window, usage, accepted, excused>>
  PROVE  WindowInv'
<1>1. ASSUME NEW q \in Presenters, NEW w \in Windows
      PROVE  /\ First(q, w)' => First(q, w)
             /\ InTime(q, w)' => InTime(q, w)
  <2>1. CASE q = p
    BY <2>1, GoesTyped DEF First, InTime
  <2>2. CASE q # p
    BY <2>2, GoesTyped DEF First, InTime
  <2>3. QED BY <2>1, <2>2
<1>2. QED BY <1>1, WindowStays

LEMMA PresentWindow ==
  ASSUME CodesTypeOK, WindowInv, NEW p \in Presenters, PresentCode(p)
  PROVE  WindowInv'
<1> DEFINE s == [pc |-> "replay", use |-> window, late |-> FALSE]
<1>1. s \in Step /\ s.pc = "replay" /\ s.use = window
  BY DEF CodesTypeOK, Step, TotpStep
<1>2. Goes(p, s) /\ UNCHANGED <<window, usage, accepted, excused>>
  BY DEF PresentCode
<1> HIDE DEF s
<1>3. presented'[p] = s /\ \A q \in Presenters : q # p => presented'[q] = presented[q]
  BY <1>1, <1>2, GoesTyped
<1>4. ASSUME NEW q \in Presenters, NEW w \in Windows
      PROVE  /\ First(q, w)' => First(q, w)
             /\ InTime(q, w)' => InTime(q, w) \/ w = window
  <2>1. CASE q = p
    BY <1>1, <1>3, <2>1 DEF First, InTime
  <2>2. CASE q # p
    BY <1>3, <2>2 DEF First, InTime
  <2>3. QED BY <2>1, <2>2
<1>5. QED BY <1>2, <1>4, WindowStays

LEMMA CheckWindow ==
  ASSUME CodesTypeOK, WindowInv, NEW p \in Presenters, CheckReplay(p)
  PROVE  WindowInv'
<1>1. PICK use \in Windows : use = presented[p].use
  BY StepKinds DEF CheckReplay, CodesTypeOK, Step, TotpStep, BackupStep
<1>2. /\ UNCHANGED <<window, usage, accepted, excused>>
      /\ presented[p].pc = "replay"
  BY DEF CheckReplay
<1>3. CASE Used(presented[p].use)
  <2>1. Goes(p, NoCode)
    BY <1>3 DEF CheckReplay
  <2>2. QED BY <1>2, <2>1, NoCodeTyped, OtherStays
<1>4. CASE ~Used(presented[p].use)
  <2>1. Goes(p, Passes(p)) /\ use \notin usage
    BY <1>1, <1>4 DEF CheckReplay, Passes, Used
  <2>2. Passes(p) \in Step
    BY <1>2, PassesTyped DEF Step
  <2>3. /\ presented'[p] = Passes(p)
        /\ \A q \in Presenters : q # p => presented'[q] = presented[q]
    BY <2>1, <2>2, GoesTyped
  <2>4. /\ presented'[p].pc = "log" /\ presented'[p].use = use
        /\ ~presented'[p].late =>
             /\ ~presented[p].late
             /\ \A q \in Presenters : ~(presented[q].pc = "log" /\ presented[q].use = use)
    BY <1>1, <1>2, <2>3, PassesTyped
  <2>5. ASSUME NEW w \in Windows
        PROVE  OneFirst(w)' /\ AcceptedIsLogged(w)'
    <3>1. \A q \in Presenters : q # p =>
            (First(q, w)' <=> First(q, w)) /\ (InTime(q, w)' <=> InTime(q, w))
      BY <2>3 DEF First, InTime
    <3>2. ~InTime(p, w)'
      BY <2>4 DEF InTime
    <3>3. First(p, w)' => /\ w = use /\ InTime(p, w)
                          /\ \A q \in Presenters : ~First(q, w)
      BY <1>1, <1>2, <2>4 DEF First, InTime
    <3>4. OneFirst(w)'
      BY <3>1, <3>3 DEF OneFirst, WindowInv
    <3>5. AcceptedIsLogged(w)'
      <4>1. SUFFICES ASSUME accepted[w] > excused[w]
                     PROVE  /\ \A q \in Presenters : ~First(q, w)'
                            /\ \/ w \in usage
                               \/ /\ w # window
                                  /\ \A q \in Presenters : ~InTime(q, w)'
        BY <1>2 DEF AcceptedIsLogged
      <4>2. /\ \A q \in Presenters : ~First(q, w)
            /\ \/ w \in usage
               \/ w # window /\ \A q \in Presenters : ~InTime(q, w)
        BY <4>1 DEF WindowInv, AcceptedIsLogged
      <4>3. ~First(p, w)'
        BY <2>1, <3>3, <4>2
      <4>4. QED BY <3>1, <3>2, <4>2, <4>3
    <3>6. QED BY <3>4, <3>5
  <2>6. QED BY <1>2, <2>5 DEF WindowInv
<1>5. QED BY <1>3, <1>4

LEMMA LogWindow ==
  ASSUME CodesTypeOK, WindowInv, NEW p \in Presenters, LogUsage(p),
         presented[p].use <= window
  PROVE  WindowInv'
<1>1. PICK use \in Windows : use = presented[p].use
  BY StepKinds DEF LogUsage, CodesTypeOK, Step, TotpStep, BackupStep
<1>2. /\ accepted' = [accepted EXCEPT ![use] = @ + 1]
      /\ UNCHANGED window
      /\ presented[p].pc = "log"
      /\ Goes(p, NoCode)
      /\ \/ /\ usage' = usage \cup {use}
            /\ presented[p].late /\ excused' = [excused EXCEPT ![use] = @ + 1]
         \/ /\ usage' = usage \cup {use}
            /\ ~presented[p].late /\ excused' = excused
         \/ usage' = usage /\ excused' = [excused EXCEPT ![use] = @ + 1]
  BY <1>1 DEF LogUsage
<1>3. /\ \A q \in Presenters : q # p => presented'[q] = presented[q]
      /\ presented'[p].pc = "idle"
  BY <1>2, NoCodeTyped, GoesTyped
<1>4. ASSUME NEW w \in Windows, NEW q \in Presenters
      PROVE  /\ First(q, w)' => First(q, w) /\ q # p
             /\ InTime(q, w)' => InTime(q, w)
  BY <1>3 DEF First, InTime
<1>5. /\ accepted \in [Windows -> 0 .. MaxAccepted] /\ excused \in [Windows -> Nat]
      /\ window \in Windows /\ Windows \subseteq Nat
  BY DEF CodesTypeOK, Windows
<1>6. accepted[use] \in Nat /\ excused[use] \in Nat
  BY <1>5, CodesAssumption
<1>7. ASSUME NEW w \in Windows, w # use
      PROVE  /\ OneFirst(w)' /\ AcceptedIsLogged(w)'
             /\ accepted'[w] <= 1 + excused'[w]
             /\ w > window' => accepted'[w] = 0
  <2>1. /\ accepted'[w] = accepted[w] /\ excused'[w] = excused[w]
        /\ w \in usage => w \in usage'
    BY <1>2, <1>5, <1>7
  <2>2. OneFirst(w)' /\ AcceptedIsLogged(w)'
    BY <1>2, <1>4, <2>1 DEF WindowInv, OneFirst, AcceptedIsLogged
  <2>3. QED BY <1>2, <2>1, <2>2 DEF WindowInv
<1>8. OneFirst(use)'
  BY <1>4 DEF WindowInv, OneFirst
<1>9. ~(use > window)
  BY <1>1, <1>5
<1>10. accepted'[use] = accepted[use] + 1
  BY <1>2, <1>5
<1>11. CASE excused' = [excused EXCEPT ![use] = @ + 1]
  <2>1. excused'[use] = excused[use] + 1
    BY <1>5, <1>11
  <2>2. accepted'[use] <= 1 + excused'[use]
    BY <1>6, <1>10, <2>1 DEF WindowInv
  <2>3. accepted'[use] > excused'[use] => accepted[use] > excused[use]
    BY <1>6, <1>10, <2>1
  <2>4. AcceptedIsLogged(use)'
    BY <1>2, <1>4, <2>3 DEF WindowInv, AcceptedIsLogged
  <2>5. QED BY <1>2, <1>7, <1>8, <1>9, <2>2, <2>4 DEF WindowInv
<1>12. CASE usage' = usage \cup {use} /\ ~presented[p].late /\ excused' = excused
  <2>1. First(p, use)
    BY <1>1, <1>2, <1>12 DEF First
  <2>2. ~(accepted[use] > excused[use])
    BY <2>1 DEF WindowInv, AcceptedIsLogged
  <2>3. accepted'[use] <= 1 + excused'[use]
    BY <1>6, <1>10, <1>12, <2>2
  <2>4. \A q \in Presenters : ~First(q, use)'
    BY <1>4, <2>1 DEF WindowInv, OneFirst
  <2>5. AcceptedIsLogged(use)'
    BY <1>12, <2>4 DEF AcceptedIsLogged
  <2>6. QED BY <1>2, <1>7, <1>8, <1>9, <2>3, <2>5 DEF WindowInv
<1>13. QED BY <1>2, <1>11, <1>12

\* No request has read a window that is still to come.
UseIsPast ==
  \A p \in Presenters : presented[p].pc \in {"replay", "log"} => presented[p].use <= window

LEMMA CleanupWindow ==
  ASSUME CodesTypeOK, WindowInv, CleanupMFALogs
  PROVE  WindowInv'
<1> DEFINE old == {w \in usage : window - w > UsageKept}
<1>1. /\ usage' = usage \ old
      /\ UNCHANGED <<window, accepted, excused>>
      /\ presented' = [p \in Presenters |->
           IF presented[p].pc = "replay" /\ presented[p].use \in old
           THEN [presented[p] EXCEPT !.late = TRUE] ELSE presented[p]]
  BY DEF CleanupMFALogs
<1>2. ASSUME NEW p \in Presenters, NEW w \in Windows
      PROVE  /\ First(p, w)' => First(p, w)
             /\ InTime(p, w)' => InTime(p, w) /\ w \notin old
  <2>1. CASE presented[p].pc = "replay" /\ presented[p].use \in old
    <3>1. presented[p] \in TotpStep
      BY <2>1, StepKinds DEF CodesTypeOK, Step, TotpStep, BackupStep
    <3>2. presented'[p] = [presented[p] EXCEPT !.late = TRUE]
      BY <1>1, <2>1
    <3>3. presented'[p].late /\ presented'[p].pc = "replay"
      BY <2>1, <3>1, <3>2 DEF TotpStep
    <3>4. QED BY <3>3 DEF First, InTime
  <2>2. CASE ~(presented[p].pc = "replay" /\ presented[p].use \in old)
    <3>1. presented'[p] = presented[p]
      BY <1>1, <2>2
    <3>2. QED BY <2>2, <3>1 DEF First, InTime
  <2>3. QED BY <2>1, <2>2
<1>3. ASSUME NEW w \in old
      PROVE  w # window
  BY <1>3, CodesAssumption DEF CodesTypeOK, Windows
<1> HIDE DEF old
<1>4. ASSUME NEW w \in Windows
      PROVE  OneFirst(w)' /\ AcceptedIsLogged(w)'
  <2>1. OneFirst(w)'
    BY <1>2 DEF WindowInv, OneFirst
  <2>2. SUFFICES ASSUME accepted[w] > excused[w]
                 PROVE  /\ \A p \in Presenters : ~First(p, w)'
                        /\ \/ w \in usage'
                           \/ w # window /\ \A p \in Presenters : ~InTime(p, w)'
    BY <1>1, <2>1 DEF AcceptedIsLogged
  <2>3. /\ \A p \in Presenters : ~First(p, w)
        /\ \/ w \in usage
           \/ w # window /\ \A p \in Presenters : ~InTime(p, w)
    BY <2>2 DEF WindowInv, AcceptedIsLogged
  <2>4. CASE w \in old
    BY <1>2, <1>3, <2>3, <2>4
  <2>5. CASE w \notin old
    BY <1>1, <1>2, <2>3, <2>5
  <2>6. QED BY <2>4, <2>5
<1>5. QED BY <1>1, <1>4 DEF WindowInv

LEMMA TickWindowInv ==
  ASSUME CodesTypeOK, WindowInv, UseIsPast, TickWindow
  PROVE  WindowInv'
<1>1. /\ window' = window + 1 /\ window \in Nat
      /\ UNCHANGED <<usage, presented, accepted, excused>>
  BY DEF TickWindow, CodesTypeOK, Windows
<1>2. ASSUME NEW w \in Windows
      PROVE  /\ OneFirst(w)' /\ AcceptedIsLogged(w)'
             /\ accepted'[w] <= 1 + excused'[w]
             /\ w > window' => accepted'[w] = 0
  <2>1. w \in Nat /\ excused[w] \in Nat
    BY DEF CodesTypeOK, Windows
  <2>2. w > window => accepted[w] = 0
    BY DEF WindowInv
  <2>3. OneFirst(w)'
    BY <1>1 DEF WindowInv, OneFirst, First
  <2>4. AcceptedIsLogged(w)'
    <3>1. CASE w > window
      <4>1. ~(accepted[w] > excused[w])
        BY <2>1, <2>2, <3>1
      <4>2. QED BY <1>1, <4>1 DEF AcceptedIsLogged
    <3>2. CASE ~(w > window)
      <4>1. w # window'
        BY <1>1, <2>1, <3>2
      <4>2. AcceptedIsLogged(w)
        BY DEF WindowInv
      <4>3. QED BY <1>1, <4>1, <4>2 DEF AcceptedIsLogged, First, InTime
    <3>3. QED BY <3>1, <3>2
  <2>5. accepted'[w] <= 1 + excused'[w]
    BY <1>1 DEF WindowInv
  <2>6. w > window' => accepted'[w] = 0
    BY <1>1, <2>1, <2>2
  <2>7. QED BY <2>3, <2>4, <2>5, <2>6
<1>3. QED BY <1>2 DEF WindowInv

LEMMA StepWindow ==
  ASSUME CodesTypeOK, WindowInv, UseIsPast, CodesNext
  PROVE  WindowInv'
<1>1. ASSUME NEW p \in Presenters, PresentCode(p) \/ CheckReplay(p)
      PROVE  WindowInv'
  BY <1>1, PresentWindow, CheckWindow
<1>2. ASSUME NEW p \in Presenters, LogUsage(p)
      PROVE  WindowInv'
  <2>1. presented[p].use <= window
    BY <1>2 DEF LogUsage, UseIsPast
  <2>2. QED BY <1>2, <2>1, LogWindow
<1>3. ASSUME NEW p \in Presenters, FindBackupCode(p)
      PROVE  WindowInv'
  <2> DEFINE s == [pc |-> "consume", set |-> backup.set]
  <2>1. s \in Step /\ s.pc = "consume"
    BY DEF CodesTypeOK, Step, BackupStep
  <2>2. Goes(p, s) /\ UNCHANGED <<window, usage, accepted, excused>>
    BY <1>3 DEF FindBackupCode
  <2>3. QED BY <2>1, <2>2, OtherStays
<1>4. ASSUME NEW p \in Presenters, ConsumeBackupCode(p) \/ GiveUp(p)
      PROVE  WindowInv'
  <2>1. Goes(p, NoCode) /\ UNCHANGED <<window, usage, accepted, excused>>
    BY <1>4 DEF ConsumeBackupCode, GiveUp
  <2>2. QED BY <2>1, NoCodeTyped, OtherStays
<1>5. CASE NewBackupCodes
  BY <1>5, WindowStays DEF NewBackupCodes, First, InTime
<1>6. CASE CleanupMFALogs \/ TickWindow
  BY <1>6, CleanupWindow, TickWindowInv
<1>7. QED BY <1>1, <1>2, <1>3, <1>4, <1>5, <1>6 DEF CodesNext

LEMMA StepPast ==
  ASSUME CodesTypeOK, UseIsPast, CodesNext
  PROVE  UseIsPast'
<1>1. window \in Nat /\ window <= window'
  <2>1. window' = window \/ window' = window + 1
    BY DEF CodesNext, PresentCode, CheckReplay, LogUsage, FindBackupCode,
           ConsumeBackupCode, GiveUp, NewBackupCodes, CleanupMFALogs, TickWindow
  <2>2. window \in Nat
    BY DEF CodesTypeOK, Windows
  <2>3. QED BY <2>1, <2>2
<1>2. ASSUME NEW p \in Presenters, presented'[p].pc \in {"replay", "log"}
      PROVE  \/ presented'[p].use = window
             \/ presented[p].pc \in {"replay", "log"} /\ presented'[p].use = presented[p].use
  <2>1. ASSUME NEW q \in Presenters, NEW s \in Step, Goes(q, s),
               \/ s.pc \notin {"replay", "log"}
               \/ s.use = window
               \/ presented[q].pc \in {"replay", "log"} /\ s.use = presented[q].use
        PROVE  \/ presented'[p].use = window
               \/ presented[p].pc \in {"replay", "log"} /\ presented'[p].use = presented[p].use
    BY <1>2, <2>1, GoesTyped
  <2>2. ASSUME NEW q \in Presenters, PresentCode(q)
        PROVE  \/ presented'[p].use = window
               \/ presented[p].pc \in {"replay", "log"} /\ presented'[p].use = presented[p].use
    <3> DEFINE s == [pc |-> "replay", use |-> window, late |-> FALSE]
    <3>1. s \in Step /\ s.use = window
      BY DEF CodesTypeOK, Step, TotpStep
    <3>2. Goes(q, s)
      BY <2>2 DEF PresentCode
    <3>3. QED BY <2>1, <3>1, <3>2
  <2>3. ASSUME NEW q \in Presenters, CheckReplay(q)
        PROVE  \/ presented'[p].use = window
               \/ presented[p].pc \in {"replay", "log"} /\ presented'[p].use = presented[p].use
    <3>1. /\ Goes(q, NoCode) \/ Goes(q, Passes(q))
          /\ presented[q].pc = "replay"
      BY <2>3 DEF CheckReplay, Passes
    <3>2. Passes(q) \in Step /\ Passes(q).use = presented[q].use
      BY <3>1, PassesTyped DEF Step
    <3>3. QED BY <2>1, <3>1, <3>2, NoCodeTyped
  <2>4. ASSUME NEW q \in Presenters, LogUsage(q) \/ ConsumeBackupCode(q) \/ GiveUp(q)
        PROVE  \/ presented'[p].use = window
               \/ presented[p].pc \in {"replay", "log"} /\ presented'[p].use = presented[p].use
    BY <2>1, <2>4, NoCodeTyped DEF LogUsage, ConsumeBackupCode, GiveUp
  <2>5. ASSUME NEW q \in Presenters, FindBackupCode(q)
        PROVE  \/ presented'[p].use = window
               \/ presented[p].pc \in {"replay", "log"} /\ presented'[p].use = presented[p].use
    <3> DEFINE s == [pc |-> "consume", set |-> backup.set]
    <3>1. s \in Step /\ s.pc = "consume"
      BY DEF CodesTypeOK, Step, BackupStep
    <3>2. Goes(q, s)
      BY <2>5 DEF FindBackupCode
    <3>3. QED BY <2>1, <3>1, <3>2
  <2>6. CASE NewBackupCodes \/ TickWindow
    BY <1>2, <2>6 DEF NewBackupCodes, TickWindow
  <2>7. CASE CleanupMFALogs
    <3>1. \/ presented'[p] = presented[p]
          \/ /\ presented[p].pc = "replay"
             /\ presented'[p] = [presented[p] EXCEPT !.late = TRUE]
      BY <2>7 DEF CleanupMFALogs
    <3>2. presented[p].pc = "replay" => presented[p] \in TotpStep
      BY StepKinds DEF CodesTypeOK, Step, TotpStep, BackupStep
    <3>3. QED BY <1>2, <3>1, <3>2 DEF TotpStep
  <2>8. QED BY <2>2, <2>3, <2>4, <2>5, <2>6, <2>7 DEF CodesNext
<1>3. ASSUME NEW p \in Presenters, presented'[p].pc \in {"replay", "log"}
      PROVE  presented'[p].use <= window'
  <2>1. CASE presented'[p].use = window
    BY <1>1, <2>1
  <2>2. CASE presented[p].pc \in {"replay", "log"} /\ presented'[p].use = presented[p].use
    <3>1. presented[p].use \in Nat /\ presented[p].use <= window
      BY <2>2, StepKinds
      DEF UseIsPast, CodesTypeOK, Step, TotpStep, BackupStep, Windows
    <3>2. window' \in Nat
      BY StepTypes DEF CodesTypeOK, Windows
    <3>3. QED BY <1>1, <2>2, <3>1, <3>2
  <2>3. QED BY <1>2, <1>3, <2>1, <2>2
<1>4. QED BY <1>3 DEF UseIsPast

-----------------------------------------------------------------------------
(***************************************************************************)
(* Codes: the backup codes                                                 *)
(***************************************************************************)

\* A set still to come is not redeemed, nor is an unused code.
BackupInv ==
  /\ \A s \in Sets : redeemed[s] <= 1 /\ (s > backup.set => redeemed[s] = 0)
  /\ backup.unused => redeemed[backup.set] = 0

LEMMA StepBackup ==
  ASSUME CodesTypeOK, BackupInv, CodesNext
  PROVE  BackupInv'
<1>1. /\ backup.set \in Sets /\ backup \in [set: Sets, unused: BOOLEAN]
      /\ Sets \subseteq Nat /\ redeemed \in [Sets -> Nat]
  BY CodesAssumption DEF CodesTypeOK
<1>2. CASE UNCHANGED <<backup, redeemed>>
  BY <1>2 DEF BackupInv
<1>3. ASSUME NEW p \in Presenters, ConsumeBackupCode(p)
      PROVE  BackupInv'
  <2>1. PICK set \in Sets : set = presented[p].set
    BY <1>3, StepKinds
    DEF ConsumeBackupCode, CodesTypeOK, Step, TotpStep, BackupStep
  <2>2. CASE ~Redeemable(set)
    BY <1>2, <1>3, <2>1, <2>2 DEF ConsumeBackupCode
  <2>3. CASE Redeemable(set)
    <3>1. /\ backup.set = set /\ backup.unused
          /\ backup' = [backup EXCEPT !.unused = FALSE]
          /\ redeemed' = [redeemed EXCEPT ![set] = @ + 1]
      BY <1>3, <2>1, <2>3 DEF ConsumeBackupCode, Redeemable
    <3>2. redeemed[set] = 0
      BY <3>1 DEF BackupInv
    <3>3. /\ backup'.set = set /\ ~backup'.unused
          /\ redeemed'[set] = 1
          /\ \A s \in Sets : s # set => redeemed'[s] = redeemed[s]
      BY <1>1, <3>1, <3>2
    <3>4. ASSUME NEW s \in Sets
          PROVE  redeemed'[s] <= 1 /\ (s > backup'.set => redeemed'[s] = 0)
      BY <1>1, <3>1, <3>3 DEF BackupInv
    <3>5. QED BY <3>3, <3>4 DEF BackupInv
  <2>4. QED BY <2>2, <2>3
<1>4. CASE NewBackupCodes
  <2>1. /\ backup'.set = backup.set + 1 /\ backup'.set \in Sets
        /\ UNCHANGED redeemed
    BY <1>4 DEF NewBackupCodes
  <2>2. PICK old \in Nat : old = backup.set
    BY <1>1
  <2>3. backup'.set = old + 1
    BY <2>1, <2>2
  <2>4. old + 1 > old /\ \A s \in Nat : s > old + 1 => s > old
    OBVIOUS
  <2>5. ASSUME NEW s \in Sets
        PROVE  redeemed[s] <= 1 /\ (s > backup'.set => redeemed[s] = 0)
    <3>1. s > old => redeemed[s] = 0
      BY <2>2 DEF BackupInv
    <3>2. QED BY <1>1, <2>3, <2>4, <3>1 DEF BackupInv
  <2>6. redeemed[backup'.set] = 0
    <3>1. backup'.set > backup.set
      BY <2>2, <2>3, <2>4
    <3>2. QED BY <2>1, <3>1 DEF BackupInv
  <2>7. QED BY <2>1, <2>5, <2>6 DEF BackupInv
<1>5. \/ UNCHANGED <<backup, redeemed>> \/ NewBackupCodes
      \/ \E p \in Presenters : ConsumeBackupCode(p)
  BY DEF CodesNext, PresentCode, CheckReplay, LogUsage, FindBackupCode, GiveUp,
         CleanupMFALogs, TickWindow
<1>6. QED BY <1>2, <1>3, <1>4, <1>5

-----------------------------------------------------------------------------
(***************************************************************************)
(* Codes: theorems                                                         *)
(***************************************************************************)

CodesInv == CodesTypeOK /\ WindowInv /\ UseIsPast /\ BackupInv

LEMMA InitCodes == CodesInit => CodesInv
<1>1. SUFFICES ASSUME CodesInit
               PROVE  CodesInv
  OBVIOUS
<1>2. CodesTypeOK
  <2>1. 1 \in Windows
    BY CodesAssumption DEF Windows
  <2>2. 0 \in 0 .. MaxAccepted
    BY CodesAssumption
  <2>3. [set |-> 1, unused |-> TRUE] \in [set: Sets, unused: BOOLEAN]
    BY CodesAssumption
  <2>4. presented \in [Presenters -> Step]
    BY <1>1, NoCodeTyped DEF CodesInit
  <2>5. QED BY <1>1, <2>1, <2>2, <2>3, <2>4
            DEF CodesInit, CodesTypeOK, Step, TotpStep, BackupStep
<1>3. \A p \in Presenters : presented[p].pc = "idle"
  BY <1>1, NoCodeTyped DEF CodesInit
<1>4. WindowInv /\ UseIsPast
  BY <1>1, <1>3 DEF CodesInit, WindowInv, UseIsPast, OneFirst, AcceptedIsLogged, First
<1>5. BackupInv
  BY <1>1, CodesAssumption DEF CodesInit, BackupInv
<1>6. QED BY <1>2, <1>4, <1>5 DEF CodesInv

LEMMA CodesInvariant == CodesSpec => []CodesInv
<1>1. ASSUME CodesInv, [CodesNext]_codesVars
      PROVE  CodesInv'
  <2>1. CASE CodesNext
    BY <1>1, <2>1, StepTypes, StepWindow, StepPast, StepBackup DEF CodesInv
  <2>2. CASE UNCHANGED codesVars
    BY <1>1, <2>2 DEF codesVars, CodesInv, CodesTypeOK, WindowInv, UseIsPast,
                      BackupInv, OneFirst, AcceptedIsLogged, First, InTime
  <2>3. QED BY <1>1, <2>1, <2>2
<1>2. QED BY InitCodes, <1>1, PTL DEF CodesSpec

(* Every variable of the codes keeps its type.                             *)
THEOREM CodesTypeCorrect == CodesSpec => []CodesTypeOK
<1>1. CodesInv => CodesTypeOK
  BY DEF CodesInv
<1>2. QED BY <1>1, CodesInvariant, PTL

(* A backup code is accepted once, and a TOTP code a second time in one    *)
(* window only by requests that overlapped, that could not log it or were  *)
(* so slow that the log was cleaned, for any number of requests            *)
(* (auth/mfa_totp.go:129, auth/mfa_backup_codes.go:68).                    *)
THEOREM CodesKept == CodesSpec => []CodesHold
<1>1. CodesInv => CodesHold
  BY DEF CodesInv, WindowInv, BackupInv, CodesHold, BackupCodeOnce,
         CodeOncePerWindow
<1>2. QED BY <1>1, CodesInvariant, PTL

-----------------------------------------------------------------------------
(***************************************************************************)
(* Sessions: the inductive invariant                                       *)
(***************************************************************************)

\* The reading of the revocation time that a clock read at "at" may use: no
\* revocation earlier than that reading is missed.
Fits(rev, at) == \A r \in revs : r < at => r <= rev

\* What a request knows of the tables.
OpKnows(h) ==
  /\ ops[h].pc \in {"insert", "mark", "reuse"} =>
       ops[h].tok \in Tokens /\ refresh[ops[h].tok] # NoRow
  /\ At(h, "login") =>
       /\ ops[h].jwt \in JWTs /\ ops[h].jwt <= minted.jwt
       /\ iat[ops[h].jwt] = 0
  /\ ops[h].pc \in {"read", "store", "serving"} =>
       /\ ops[h].jwt \in JWTs /\ iat[ops[h].jwt] # 0
       /\ ops[h].at <= now
  /\ At(h, "store") => Fits(ops[h].rev, ops[h].at)
  /\ At(h, "serving") =>
       \A r \in revs : r <= ops[h].at - TTL => r < iat[ops[h].jwt]

LoginsApart ==
  \A h, g \in Handlers :
    At(h, "login") /\ At(g, "login") /\ h # g => ops[h].jwt # ops[g].jwt

Made ==
  /\ \A t \in Tokens : refresh[t] # NoRow => t <= minted.token
  /\ \A j \in JWTs : iat[j] # 0 => j <= minted.jwt

Revoked ==
  /\ \A r \in revs : r <= jwtRev
  /\ jwtRev <= now

CacheFits ==
  userCache.present => userCache.at <= now /\ Fits(userCache.rev, userCache.at)

SessionsInv ==
  /\ SessionsTypeOK
  /\ \A h \in Handlers : OpKnows(h)
  /\ LoginsApart /\ Made /\ Revoked /\ CacheFits

\* What no step takes back.
Grows ==
  /\ minted.token <= minted'.token /\ minted.jwt <= minted'.jwt
  /\ \A t \in Tokens : refresh[t] # NoRow =>
       refresh'[t] # NoRow /\ refresh'[t].family = refresh[t].family
  /\ \A j \in JWTs : iat[j] # 0 => iat'[j] = iat[j]
  /\ now <= now'
  /\ \A r \in revs' : r \in revs \/ r = now

LEMMA RowKinds ==
  ASSUME NEW row \in TokenRow \cup {NoRow}
  PROVE  /\ row.family \in 0 .. MaxMinted
         /\ row # NoRow <=> row \in TokenRow
         /\ row # NoRow <=> row.family \in Tokens
<1>1. NoRow.family = 0 /\ 0 \notin Tokens /\ Tokens \subseteq 0 .. MaxMinted
      /\ 0 \in 0 .. MaxMinted
  BY SessionsAssumption DEF NoRow, Tokens
<1>2. \A r \in TokenRow : r.family \in Tokens
  BY DEF TokenRow
<1>3. QED BY <1>1, <1>2

LEMMA RowMarked ==
  ASSUME NEW row \in TokenRow
  PROVE  /\ [row EXCEPT !.superseded = TRUE] \in TokenRow
         /\ [row EXCEPT !.revoked = TRUE] \in TokenRow
         /\ [row EXCEPT !.familyRevoked = TRUE] \in TokenRow
         /\ [row EXCEPT !.superseded = TRUE].family = row.family
         /\ [row EXCEPT !.revoked = TRUE].family = row.family
         /\ [row EXCEPT !.familyRevoked = TRUE].family = row.family
  BY DEF TokenRow

LEMMA FreshIsRow ==
  ASSUME NEW f \in Tokens
  PROVE  /\ Fresh(f) \in TokenRow /\ Fresh(f) # NoRow /\ Fresh(f).family = f
<1>1. \A row \in [family: {0}, superseded: BOOLEAN, revoked: BOOLEAN,
                  familyRevoked: BOOLEAN] :
        /\ [row EXCEPT !.family = f] \in TokenRow
        /\ [row EXCEPT !.family = f].family = f
  BY DEF TokenRow
<1>2. NoRow \in [family: {0}, superseded: BOOLEAN, revoked: BOOLEAN,
                 familyRevoked: BOOLEAN]
  BY DEF NoRow
<1>3. Fresh(f) \in TokenRow /\ Fresh(f).family = f
  BY <1>1, <1>2 DEF Fresh
<1>4. QED BY <1>3, RowKinds

LEMMA OpStays ==
  ASSUME SessionsTypeOK, SessionsTypeOK', Grows,
         NEW h \in Handlers, OpKnows(h), ops'[h] = ops[h],
         At(h, "login") => iat'[ops[h].jwt] = iat[ops[h].jwt]
  PROVE  OpKnows(h)'
<1>1. ops[h] \in Op /\ now \in Nat /\ now' \in Nat /\ minted.jwt \in Nat /\ minted'.jwt \in Nat
  BY DEF SessionsTypeOK, Time
<1>2. ops[h].at \in Nat /\ ops[h].rev \in Nat /\ ops[h].jwt \in Nat
  BY <1>1 DEF Op
<1>3. \A r \in revs' : r \in Nat /\ (r \in revs \/ r = now)
  BY DEF Grows, SessionsTypeOK, Time
<1>4. ops[h].pc \in {"insert", "mark", "reuse"} =>
        ops'[h].tok \in Tokens /\ refresh'[ops'[h].tok] # NoRow
  BY DEF OpKnows, Grows
<1>5. At(h, "login") =>
       /\ ops'[h].jwt \in JWTs /\ ops'[h].jwt <= minted'.jwt
       /\ iat'[ops'[h].jwt] = 0
  BY <1>1, <1>2 DEF OpKnows, Grows
<1>6. ops[h].pc \in {"read", "store", "serving"} =>
       /\ ops'[h].jwt \in JWTs /\ iat'[ops'[h].jwt] = iat[ops[h].jwt]
       /\ iat[ops[h].jwt] # 0
       /\ ops'[h].at <= now /\ ops'[h].at <= now'
  BY <1>1, <1>2 DEF OpKnows, Grows
<1>7. At(h, "store") => Fits(ops[h].rev, ops[h].at)'
  BY <1>1, <1>2, <1>3, <1>6 DEF OpKnows, Fits, At
<1>8. ASSUME At(h, "serving")
      PROVE \A r \in revs' : r <= ops'[h].at - TTL => r < iat'[ops'[h].jwt]
  <2>1. ~(now <= ops[h].at - TTL)
    BY <1>1, <1>2, <1>6, <1>8, SessionsAssumption DEF At
  <2>2. QED BY <1>3, <1>6, <1>8, <2>1 DEF OpKnows, At
<1>9. QED BY <1>4, <1>5, <1>6, <1>7, <1>8 DEF OpKnows, At

\* A step that begins, moves or ends the request h and lets nobody sign in.
LEMMA OneMoves ==
  ASSUME SessionsInv, SessionsTypeOK', Grows, NEW h \in Handlers,
         \A g \in Handlers : g # h => ops'[g] = ops[g],
         OpKnows(h)',
         \A g \in Handlers : (At(g, "login") /\ g # h) =>
           iat'[ops[g].jwt] = iat[ops[g].jwt],
         At(h, "login")' =>
           \A g \in Handlers : (At(g, "login") /\ g # h) => ops[g].jwt # ops'[h].jwt
  PROVE  (\A g \in Handlers : OpKnows(g)') /\ LoginsApart'
<1>1. \A g \in Handlers : OpKnows(g)'
  BY OpStays DEF SessionsInv
<1>2. LoginsApart'
  BY DEF SessionsInv, LoginsApart, At
<1>3. QED BY <1>1, <1>2

LEMMA NoneMoves ==
  ASSUME SessionsInv, SessionsTypeOK', Grows, UNCHANGED <<ops, iat>>
  PROVE  (\A g \in Handlers : OpKnows(g)') /\ LoginsApart'
<1>1. \A g \in Handlers : OpKnows(g)'
  BY OpStays DEF SessionsInv
<1>2. LoginsApart'
  BY DEF SessionsInv, LoginsApart, At
<1>3. QED BY <1>1, <1>2

LEMMA CacheStays ==
  ASSUME SessionsInv, SessionsTypeOK', Grows, userCache' \in {NoEntry, userCache}
  PROVE  CacheFits'
<1>1. /\ now \in Nat /\ now' \in Nat /\ userCache.at \in Nat
      /\ userCache.rev \in Nat
  BY DEF SessionsInv, SessionsTypeOK, Time
<1>2. \A r \in revs' : r \in Nat /\ (r \in revs \/ r = now)
  BY DEF Grows, SessionsTypeOK, Time
<1>3. CASE userCache' = NoEntry
  BY <1>3 DEF CacheFits, NoEntry
<1>4. CASE userCache' = userCache
  BY <1>1, <1>2, <1>4 DEF CacheFits, SessionsInv, Fits, Grows
<1>5. QED BY <1>3, <1>4

LEMMA GoesTo ==
  ASSUME SessionsTypeOK, NEW h \in Handlers, NEW o \in Op,
         ops' = [ops EXCEPT ![h] = o]
  PROVE  /\ ops' \in [Handlers -> Op] /\ ops'[h] = o
         /\ \A g \in Handlers : g # h => ops'[g] = ops[g]
  BY DEF SessionsTypeOK

LEMMA NoOpTyped == NoOp \in Op /\ NoOp.pc = "idle"
  BY SessionsAssumption DEF NoOp, Op, Steps

LEMMA PresentsOp ==
  ASSUME NEW step \in Steps, NEW t \in Tokens
  PROVE  \E o \in Op : /\ o = [NoOp EXCEPT !.pc = step, !.tok = t]
                       /\ o.pc = step /\ o.tok = t
<1>1. t \in 0 .. MaxMinted
  BY SessionsAssumption DEF Tokens
<1>2. \A o \in Op : /\ [o EXCEPT !.pc = step, !.tok = t] \in Op
                    /\ [o EXCEPT !.pc = step, !.tok = t].pc = step
                    /\ [o EXCEPT !.pc = step, !.tok = t].tok = t
  BY <1>1 DEF Op
<1>3. QED BY <1>2, NoOpTyped

Carries(step, j, c) == [NoOp EXCEPT !.pc = step, !.jwt = j, !.at = c]

LEMMA CarriesOp ==
  ASSUME NEW step \in Steps, NEW j \in JWTs, NEW c \in Time
  PROVE  /\ Carries(step, j, c) \in Op /\ Carries(step, j, c).pc = step
         /\ Carries(step, j, c).jwt = j /\ Carries(step, j, c).at = c
<1>1. j \in 0 .. MaxMinted /\ c \in 0 .. MaxTime
  BY SessionsAssumption DEF JWTs, Time
<1>2. \A o \in Op : /\ [o EXCEPT !.pc = step, !.jwt = j, !.at = c] \in Op
                    /\ [o EXCEPT !.pc = step, !.jwt = j, !.at = c].pc = step
                    /\ [o EXCEPT !.pc = step, !.jwt = j, !.at = c].jwt = j
                    /\ [o EXCEPT !.pc = step, !.jwt = j, !.at = c].at = c
  BY <1>1 DEF Op
<1>3. QED BY <1>2, NoOpTyped DEF Carries

LEMMA Answers ==
  ASSUME SessionsTypeOK, NEW h \in Handlers, Answer(h)
  PROVE  /\ ops' \in [Handlers -> Op] /\ ops'[h].pc = "idle" /\ OpKnows(h)'
         /\ \A g \in Handlers : g # h => ops'[g] = ops[g]
<1>1. /\ ops' \in [Handlers -> Op] /\ ops'[h].pc = "idle"
      /\ \A g \in Handlers : g # h => ops'[g] = ops[g]
  BY GoesTo, NoOpTyped DEF Answer
<1>2. QED BY <1>1 DEF OpKnows, At

LEMMA Moves ==
  ASSUME SessionsTypeOK, NEW h \in Handlers, NEW step \in Steps, MovesTo(h, step)
  PROVE  /\ ops' \in [Handlers -> Op] /\ ops'[h].pc = step
         /\ ops'[h].tok = ops[h].tok /\ ops'[h].jwt = ops[h].jwt
         /\ ops'[h].at = ops[h].at /\ ops'[h].rev = ops[h].rev
         /\ \A g \in Handlers : g # h => ops'[g] = ops[g]
<1> DEFINE o == [ops[h] EXCEPT !.pc = step]
<1>1. ops[h] \in Op
  BY DEF SessionsTypeOK
<1>2. /\ o \in Op /\ o.pc = step /\ o.tok = ops[h].tok /\ o.jwt = ops[h].jwt
      /\ o.at = ops[h].at /\ o.rev = ops[h].rev
  BY <1>1 DEF Op
<1>3. ops' = [ops EXCEPT ![h] = o]
  BY DEF MovesTo
<1> HIDE DEF o
<1>4. QED BY <1>2, <1>3, GoesTo

\* A step of one request that leaves the clock and the tables alone.
LEMMA QuietStep ==
  ASSUME SessionsInv, NEW h \in Handlers, UNCHANGED <<now, tables>>,
         ops' \in [Handlers -> Op],
         \A g \in Handlers : g # h => ops'[g] = ops[g],
         OpKnows(h)', ~At(h, "login")',
         userCache' \in [present: BOOLEAN, rev: 0 .. MaxTime, at: 0 .. MaxTime],
         CacheFits'
  PROVE  SessionsInv'
<1>1. SessionsTypeOK'
  BY DEF SessionsInv, SessionsTypeOK, tables
<1>2. now \in Nat /\ minted.token \in Nat /\ minted.jwt \in Nat
  BY DEF SessionsInv, SessionsTypeOK, Time
<1>3. Grows
  BY <1>2 DEF Grows, tables
<1>4. Made' /\ Revoked'
  BY DEF SessionsInv, Made, Revoked, tables
<1>5. (\A g \in Handlers : OpKnows(g)') /\ LoginsApart'
  BY <1>1, <1>3, OneMoves DEF tables
<1>6. QED BY <1>1, <1>4, <1>5 DEF SessionsInv

LEMMA QuietCache ==
  ASSUME SessionsInv, UNCHANGED <<now, tables>>, userCache' \in {NoEntry, userCache}
  PROVE  /\ userCache' \in [present: BOOLEAN, rev: 0 .. MaxTime, at: 0 .. MaxTime]
         /\ CacheFits'
<1>1. NoEntry \in [present: BOOLEAN, rev: 0 .. MaxTime, at: 0 .. MaxTime]
  BY SessionsAssumption DEF NoEntry
<1>2. CASE userCache' = NoEntry
  BY <1>1, <1>2 DEF CacheFits, NoEntry
<1>3. CASE userCache' = userCache
  BY <1>3 DEF CacheFits, Fits, SessionsInv, SessionsTypeOK, tables
<1>4. QED BY <1>2, <1>3

LEMMA PresentKeeps ==
  ASSUME SessionsInv, NEW h \in Handlers, NEW t \in Tokens, Present(h, t)
  PROVE  SessionsInv'
<1>1. PICK step : step = Verdict(t)
  OBVIOUS
<1>2. step \in {"reuse", "insert"} /\ step \in Steps
  BY <1>1 DEF Present, Verdict, Steps
<1>3. PICK o \in Op : /\ o = [NoOp EXCEPT !.pc = step, !.tok = t]
                      /\ o.pc = step /\ o.tok = t
  BY <1>2, PresentsOp
<1>4. /\ ops' = [ops EXCEPT ![h] = o] /\ refresh[t] # NoRow
      /\ UNCHANGED <<now, tables, userCache>>
  BY <1>1, <1>3 DEF Present, Begin
<1>5. /\ ops' \in [Handlers -> Op] /\ ops'[h] = o
      /\ \A g \in Handlers : g # h => ops'[g] = ops[g]
  BY <1>3, <1>4, GoesTo DEF SessionsInv
<1>6. OpKnows(h)' /\ ~At(h, "login")'
  BY <1>2, <1>3, <1>4, <1>5 DEF OpKnows, At, tables
<1>7. QED BY <1>4, <1>5, <1>6, QuietCache, QuietStep

\* The steps that only answer, and may drop the cache.
LEMMA AnswerKeeps ==
  ASSUME SessionsInv, NEW h \in Handlers, Answer(h), UNCHANGED <<now, tables>>,
         userCache' \in {NoEntry, userCache}
  PROVE  SessionsInv'
<1>1. /\ ops' \in [Handlers -> Op] /\ OpKnows(h)' /\ ~At(h, "login")'
      /\ \A g \in Handlers : g # h => ops'[g] = ops[g]
  BY Answers DEF SessionsInv, At
<1>2. QED BY <1>1, QuietCache, QuietStep

LEMMA StartKeeps ==
  ASSUME SessionsInv, NEW h \in Handlers, NEW j \in JWTs, StartRequest(h, j)
  PROVE  SessionsInv'
<1>1. /\ now \in Nat /\ now \in Time /\ iat[j] \in Nat
      /\ userCache.at \in Nat /\ userCache.rev \in Nat
  BY DEF SessionsInv, SessionsTypeOK, Time
<1> DEFINE o == Carries(IF Hit THEN "serving" ELSE "read", j, now)
<1>2. /\ o \in Op /\ o.pc = (IF Hit THEN "serving" ELSE "read")
      /\ o.jwt = j /\ o.at = now
  BY <1>1, CarriesOp DEF Steps
<1>3. /\ ops' = [ops EXCEPT ![h] = o] /\ iat[j] # 0
      /\ UNCHANGED <<now, tables, userCache>>
      /\ ~(Hit /\ Outdated(userCache.rev, j))
  BY DEF StartRequest, Begin, Usable, Carries
<1> HIDE DEF o
<1>4. /\ ops' \in [Handlers -> Op] /\ ops'[h] = o
      /\ \A g \in Handlers : g # h => ops'[g] = ops[g]
  BY <1>2, <1>3, GoesTo DEF SessionsInv
<1>5. ASSUME Hit, NEW r \in revs, r <= now - TTL
      PROVE  r < iat[j]
  <2>1. r \in Nat
    BY DEF SessionsInv, SessionsTypeOK, Time
  <2>2. userCache.present /\ now - userCache.at < TTL
    BY <1>5 DEF Hit
  <2>3. r < userCache.at
    BY <1>1, <1>5, <2>1, <2>2, SessionsAssumption
  <2>4. r <= userCache.rev
    BY <2>2, <2>3 DEF SessionsInv, CacheFits, Fits
  <2>5. QED BY <1>1, <1>3, <1>5, <2>1, <2>4 DEF Outdated
<1>6. OpKnows(h)' /\ ~At(h, "login")'
  BY <1>1, <1>2, <1>3, <1>4, <1>5 DEF OpKnows, At, tables
<1>7. QED BY <1>3, <1>4, <1>6, QuietCache, QuietStep

LEMMA ReadKeeps ==
  ASSUME SessionsInv, NEW h \in Handlers, ReadRevocation(h)
  PROVE  SessionsInv'
<1> DEFINE o == [ops[h] EXCEPT !.pc = "store", !.rev = jwtRev]
<1>1. ops[h] \in Op /\ jwtRev \in 0 .. MaxTime
  BY DEF SessionsInv, SessionsTypeOK
<1>2. /\ o \in Op /\ o.pc = "store" /\ o.rev = jwtRev
      /\ o.jwt = ops[h].jwt /\ o.at = ops[h].at
  BY <1>1 DEF Op, Steps
<1>3. ops' = [ops EXCEPT ![h] = o] /\ UNCHANGED <<now, tables, userCache>>
  BY DEF ReadRevocation
<1> HIDE DEF o
<1>4. /\ ops' \in [Handlers -> Op] /\ ops'[h] = o
      /\ \A g \in Handlers : g # h => ops'[g] = ops[g]
  BY <1>2, <1>3, GoesTo DEF SessionsInv
<1>5. Fits(jwtRev, ops[h].at)
  BY DEF SessionsInv, Revoked, Fits
<1>6. OpKnows(h) /\ ops[h].pc = "read"
  BY DEF SessionsInv, ReadRevocation, At
<1>7. OpKnows(h)' /\ ~At(h, "login")'
  BY <1>2, <1>3, <1>4, <1>5, <1>6 DEF OpKnows, At, tables, Fits
<1>8. QED BY <1>3, <1>4, <1>7, QuietCache, QuietStep

LEMMA StoreKeeps ==
  ASSUME SessionsInv, NEW h \in Handlers, StoreRevocation(h)
  PROVE  SessionsInv'
<1>1. /\ ops[h] \in Op /\ OpKnows(h) /\ ops[h].pc = "store"
      /\ UNCHANGED <<now, tables>> /\ userCache' = Entry(ops[h])
  BY DEF SessionsInv, SessionsTypeOK, StoreRevocation, At
<1>2. /\ ops[h].rev \in 0 .. MaxTime /\ ops[h].at \in 0 .. MaxTime
      /\ ops[h].jwt \in JWTs /\ ops[h].at <= now
      /\ Fits(ops[h].rev, ops[h].at) /\ iat[ops[h].jwt] # 0
      /\ iat[ops[h].jwt] \in Nat
  BY <1>1 DEF Op, OpKnows, At, SessionsInv, SessionsTypeOK
<1>3. /\ userCache' \in [present: BOOLEAN, rev: 0 .. MaxTime, at: 0 .. MaxTime]
      /\ CacheFits'
  BY <1>1, <1>2 DEF Entry, CacheFits, Fits, tables
<1>4. CASE Outdated(ops[h].rev, ops[h].jwt)
  <2>1. Answer(h)
    BY <1>4 DEF StoreRevocation
  <2>2. QED BY <1>1, <1>3, <2>1, Answers, QuietStep DEF SessionsInv, At
<1>5. CASE ~Outdated(ops[h].rev, ops[h].jwt)
  <2>1. MovesTo(h, "serving") /\ "serving" \in Steps
    BY <1>5 DEF StoreRevocation, Steps
  <2>2. /\ ops' \in [Handlers -> Op] /\ ops'[h].pc = "serving"
        /\ ops'[h].jwt = ops[h].jwt /\ ops'[h].at = ops[h].at
        /\ \A g \in Handlers : g # h => ops'[g] = ops[g]
    BY <2>1, Moves DEF SessionsInv
  <2>3. \A r \in revs : r <= ops[h].at - TTL => r < iat[ops[h].jwt]
    BY <1>2, <1>5, SessionsAssumption
       DEF Fits, Outdated, SessionsInv, SessionsTypeOK, Time
  <2>4. OpKnows(h)' /\ ~At(h, "login")'
    BY <1>1, <1>2, <2>2, <2>3 DEF OpKnows, At, tables
  <2>5. QED BY <1>1, <1>3, <2>2, <2>4, QuietStep
<1>6. QED BY <1>4, <1>5

\* CeremonyRows are only marked: as superseded, as revoked, or with their family.
MarksRows ==
  /\ refresh' \in [Tokens -> TokenRow \cup {NoRow}]
  /\ \A t \in Tokens :
       /\ refresh[t] = NoRow <=> refresh'[t] = NoRow
       /\ refresh'[t].family = refresh[t].family
       /\ Live(t)' => Live(t)

LEMMA MarkOne ==
  ASSUME SessionsTypeOK, NEW t \in Tokens, refresh[t] # NoRow,
         \/ refresh' = [refresh EXCEPT ![t].superseded = TRUE]
         \/ refresh' = [refresh EXCEPT ![t].revoked = TRUE]
  PROVE  MarksRows
<1>1. refresh[t] \in TokenRow
  BY RowKinds DEF SessionsTypeOK
<1>2. PICK row \in TokenRow :
        /\ row.family = refresh[t].family /\ (row.superseded \/ row.revoked)
        /\ refresh' = [refresh EXCEPT ![t] = row]
  <2>1. CASE refresh' = [refresh EXCEPT ![t].superseded = TRUE]
    <3>1. [refresh[t] EXCEPT !.superseded = TRUE].superseded
      BY <1>1 DEF TokenRow
    <3>2. QED BY <1>1, <2>1, <3>1, RowMarked
  <2>2. CASE refresh' = [refresh EXCEPT ![t].revoked = TRUE]
    <3>1. [refresh[t] EXCEPT !.revoked = TRUE].revoked
      BY <1>1 DEF TokenRow
    <3>2. QED BY <1>1, <2>2, <3>1, RowMarked
  <2>3. QED BY <2>1, <2>2
<1>3. row # NoRow
  BY RowKinds
<1>4. QED BY <1>2, <1>3 DEF MarksRows, SessionsTypeOK, Live

LEMMA MarkMany ==
  ASSUME SessionsTypeOK, NEW S \in SUBSET Tokens,
         \A t \in S : refresh[t] # NoRow,
         \/ refresh' = [t \in Tokens |-> IF t \in S
              THEN [refresh[t] EXCEPT !.familyRevoked = TRUE] ELSE refresh[t]]
         \/ refresh' = [t \in Tokens |-> IF t \in S
              THEN [refresh[t] EXCEPT !.revoked = TRUE] ELSE refresh[t]]
  PROVE  MarksRows
<1>1. \A t \in S : refresh[t] \in TokenRow
  BY RowKinds DEF SessionsTypeOK
<1>2. \A t \in Tokens \ S : refresh'[t] = refresh[t]
  OBVIOUS
<1>3. \A t \in S : /\ refresh'[t] \in TokenRow
                   /\ refresh'[t].family = refresh[t].family
                   /\ refresh'[t].revoked \/ refresh'[t].familyRevoked
  <2>1. SUFFICES ASSUME NEW t \in S
                 PROVE  /\ refresh'[t] \in TokenRow
                        /\ refresh'[t].family = refresh[t].family
                        /\ refresh'[t].revoked \/ refresh'[t].familyRevoked
    OBVIOUS
  <2>2. \/ refresh'[t] = [refresh[t] EXCEPT !.familyRevoked = TRUE]
        \/ refresh'[t] = [refresh[t] EXCEPT !.revoked = TRUE]
    OBVIOUS
  <2>3. /\ [refresh[t] EXCEPT !.familyRevoked = TRUE].familyRevoked
        /\ [refresh[t] EXCEPT !.revoked = TRUE].revoked
    BY <1>1 DEF TokenRow
  <2>4. QED BY <1>1, <2>2, <2>3, RowMarked
<1>4. \A t \in S : refresh'[t] # NoRow
  BY <1>3, RowKinds
<1>5. refresh' \in [Tokens -> TokenRow \cup {NoRow}]
  <2>1. \A t \in Tokens : refresh'[t] \in TokenRow \cup {NoRow}
    BY <1>2, <1>3 DEF SessionsTypeOK
  <2>2. QED BY <2>1
<1>6. QED BY <1>2, <1>3, <1>4, <1>5 DEF MarksRows, Live

\* A step that marks rows, revokes at most now and makes at most one JWT.
LEMMA MarkStep ==
  ASSUME SessionsInv, MarksRows, UNCHANGED <<now, minted, iat>>,
         ops' \in [Handlers -> Op], dead' \subseteq JWTs,
         \/ UNCHANGED <<jwtRev, revs>>
         \/ WriteJWTRevocation,
         userCache' \in {NoEntry, userCache}
  PROVE  SessionsTypeOK' /\ Grows /\ Made' /\ Revoked' /\ CacheFits'
<1>1. now \in Nat /\ minted.token \in Nat /\ minted.jwt \in Nat /\ now \in 0 .. MaxTime
      /\ now \in Time
  BY DEF SessionsInv, SessionsTypeOK, Time
<1>2. NoEntry \in [present: BOOLEAN, rev: 0 .. MaxTime, at: 0 .. MaxTime]
  BY SessionsAssumption DEF NoEntry
<1>3. jwtRev' \in 0 .. MaxTime /\ revs' \subseteq Time
  BY <1>1 DEF SessionsInv, SessionsTypeOK, WriteJWTRevocation
<1>4. userCache' \in [present: BOOLEAN, rev: 0 .. MaxTime, at: 0 .. MaxTime]
  BY <1>2 DEF SessionsInv, SessionsTypeOK
<1>5. SessionsTypeOK'
  BY <1>3, <1>4 DEF SessionsInv, SessionsTypeOK, MarksRows
<1>6. Grows
  BY <1>1 DEF Grows, MarksRows, WriteJWTRevocation
<1>7. Made'
  BY DEF SessionsInv, Made, MarksRows
<1>8. Revoked'
  <2>1. /\ \A r \in revs : r \in Nat /\ r <= jwtRev
        /\ jwtRev <= now /\ jwtRev \in Nat
    BY DEF SessionsInv, SessionsTypeOK, Time, Revoked
  <2>2. \A r \in revs : r <= now
    BY <1>1, <2>1
  <2>3. CASE UNCHANGED <<jwtRev, revs>>
    BY <2>1, <2>3 DEF Revoked
  <2>4. CASE WriteJWTRevocation
    BY <1>1, <2>2, <2>4 DEF Revoked, WriteJWTRevocation
  <2>5. QED BY <2>3, <2>4
<1>9. QED BY <1>5, <1>6, <1>7, <1>8, CacheStays

LEMMA ReuseFamilyKeeps ==
  ASSUME SessionsInv, NEW h \in Handlers, ReuseFamily(h)
  PROVE  SessionsInv' /\ MarksRows
<1> DEFINE S == {t \in Tokens : /\ refresh[t] # NoRow
                                /\ refresh[t].family = refresh[ops[h].tok].family}
<1>1. MarksRows
  <2>1. CASE UNCHANGED refresh
    BY <2>1 DEF MarksRows, SessionsInv, SessionsTypeOK, Live
  <2>2. CASE refresh' = [t \in Tokens |-> IF t \in S
               THEN [refresh[t] EXCEPT !.familyRevoked = TRUE] ELSE refresh[t]]
    <3>1. S \in SUBSET Tokens /\ \A t \in S : refresh[t] # NoRow
      OBVIOUS
    <3> HIDE DEF S
    <3>2. QED BY <2>2, <3>1, MarkMany DEF SessionsInv
  <2>3. QED BY <2>1, <2>2 DEF ReuseFamily
<1>2. MovesTo(h, "reuseJWT") /\ "reuseJWT" \in Steps
  BY DEF ReuseFamily, Steps
<1>3. /\ ops' \in [Handlers -> Op] /\ ops'[h].pc = "reuseJWT"
      /\ \A g \in Handlers : g # h => ops'[g] = ops[g]
  BY <1>2, Moves DEF SessionsInv
<1>4. OpKnows(h)' /\ ~At(h, "login")'
  BY <1>3 DEF OpKnows, At
<1>5. SessionsTypeOK' /\ Grows /\ Made' /\ Revoked' /\ CacheFits'
  BY <1>1, <1>3, MarkStep DEF ReuseFamily, SessionsInv, SessionsTypeOK
<1>6. (\A g \in Handlers : OpKnows(g)') /\ LoginsApart'
  BY <1>3, <1>4, <1>5, OneMoves DEF ReuseFamily
<1>7. QED BY <1>1, <1>5, <1>6 DEF SessionsInv

LEMMA RevokeJWTKeeps ==
  ASSUME SessionsInv, NEW h \in Handlers, ReuseJWT(h) \/ RevokeAllJWT(h)
  PROVE  SessionsInv' /\ MarksRows
<1>1. MarksRows
  BY DEF MarksRows, SessionsInv, SessionsTypeOK, Live, ReuseJWT, RevokeAllJWT
<1>2. PICK step \in {"reuseCache", "dropCache"} : MovesTo(h, step) /\ step \in Steps
  BY DEF ReuseJWT, RevokeAllJWT, Steps
<1>3. /\ ops' \in [Handlers -> Op] /\ ops'[h].pc = step
      /\ \A g \in Handlers : g # h => ops'[g] = ops[g]
  BY <1>2, Moves DEF SessionsInv
<1>4. OpKnows(h)' /\ ~At(h, "login")'
  BY <1>2, <1>3 DEF OpKnows, At
<1>5. SessionsTypeOK' /\ Grows /\ Made' /\ Revoked' /\ CacheFits'
  BY <1>1, <1>3, MarkStep DEF ReuseJWT, RevokeAllJWT, SessionsInv, SessionsTypeOK
<1>6. (\A g \in Handlers : OpKnows(g)') /\ LoginsApart'
  BY <1>3, <1>4, <1>5, OneMoves DEF ReuseJWT, RevokeAllJWT
<1>7. QED BY <1>1, <1>5, <1>6 DEF SessionsInv

LEMMA LogoutKeeps ==
  ASSUME SessionsInv, NEW t \in Tokens, LogoutOrExpiry(t)
  PROVE  SessionsInv' /\ MarksRows
<1>1. MarksRows
  BY MarkOne DEF LogoutOrExpiry, SessionsInv
<1>2. SessionsTypeOK' /\ Grows /\ Made' /\ Revoked' /\ CacheFits'
  BY <1>1, MarkStep DEF LogoutOrExpiry, SessionsInv, SessionsTypeOK
<1>3. (\A g \in Handlers : OpKnows(g)') /\ LoginsApart'
  BY <1>2, NoneMoves DEF LogoutOrExpiry
<1>4. QED BY <1>1, <1>2, <1>3 DEF SessionsInv

LEMMA RevokeTokenKeeps ==
  ASSUME SessionsInv, NEW j \in JWTs, RevokeTokenOrExpiry(j)
  PROVE  SessionsInv' /\ MarksRows
<1>1. MarksRows
  BY DEF MarksRows, SessionsInv, SessionsTypeOK, Live, RevokeTokenOrExpiry
<1>2. SessionsTypeOK' /\ Grows /\ Made' /\ Revoked' /\ CacheFits'
  BY <1>1, MarkStep DEF RevokeTokenOrExpiry, SessionsInv, SessionsTypeOK
<1>3. (\A g \in Handlers : OpKnows(g)') /\ LoginsApart'
  BY <1>2, NoneMoves DEF RevokeTokenOrExpiry
<1>4. QED BY <1>1, <1>2, <1>3 DEF SessionsInv

LEMMA RevokeAllKeeps ==
  ASSUME SessionsInv, NEW h \in Handlers, RevokeAllRefresh(h)
  PROVE  SessionsInv' /\ MarksRows
<1> DEFINE S == {t \in Tokens : refresh[t] # NoRow}
<1>1. MarksRows
  <2>1. refresh' = [t \in Tokens |-> IF t \in S
               THEN [refresh[t] EXCEPT !.revoked = TRUE] ELSE refresh[t]]
    BY DEF RevokeAllRefresh
  <2>2. S \in SUBSET Tokens /\ \A t \in S : refresh[t] # NoRow
    OBVIOUS
  <2> HIDE DEF S
  <2>3. QED BY <2>1, <2>2, MarkMany DEF SessionsInv
<1>2. /\ ops' \in [Handlers -> Op] /\ ops'[h].pc = "revokeJWT"
      /\ \A g \in Handlers : g # h => ops'[g] = ops[g]
  <2>1. \A o \in Op : /\ [o EXCEPT !.pc = "revokeJWT"] \in Op
                      /\ [o EXCEPT !.pc = "revokeJWT"].pc = "revokeJWT"
    BY DEF Op, Steps
  <2>2. PICK o \in Op : o = [NoOp EXCEPT !.pc = "revokeJWT"] /\ o.pc = "revokeJWT"
    BY <2>1, NoOpTyped
  <2>3. ops' = [ops EXCEPT ![h] = o]
    BY <2>2 DEF RevokeAllRefresh, Begin
  <2>4. QED BY <2>2, <2>3, GoesTo DEF SessionsInv
<1>3. OpKnows(h)' /\ ~At(h, "login")'
  BY <1>2 DEF OpKnows, At
<1>4. SessionsTypeOK' /\ Grows /\ Made' /\ Revoked' /\ CacheFits'
  BY <1>1, <1>2, MarkStep DEF RevokeAllRefresh, SessionsInv, SessionsTypeOK
<1>5. (\A g \in Handlers : OpKnows(g)') /\ LoginsApart'
  BY <1>2, <1>3, <1>4, OneMoves DEF RevokeAllRefresh
<1>6. QED BY <1>1, <1>4, <1>5 DEF SessionsInv

\* A step that makes a token or a JWT, and leaves the clock and what is revoked
\* alone.
LEMMA MintStep ==
  ASSUME SessionsInv, UNCHANGED <<now, jwtRev, dead, userCache, revs>>,
         ops' \in [Handlers -> Op],
         refresh' \in [Tokens -> TokenRow \cup {NoRow}],
         iat' \in [JWTs -> 0 .. MaxTime],
         minted' \in [token: 0 .. MaxMinted, jwt: 0 .. MaxMinted],
         minted.token <= minted'.token, minted.jwt <= minted'.jwt,
         \A t \in Tokens : refresh[t] # NoRow =>
           refresh'[t] # NoRow /\ refresh'[t].family = refresh[t].family,
         \A j \in JWTs : iat[j] # 0 => iat'[j] = iat[j]
  PROVE  SessionsTypeOK' /\ Grows /\ Revoked' /\ CacheFits'
<1>1. SessionsTypeOK'
  BY DEF SessionsInv, SessionsTypeOK
<1>2. Grows
  BY DEF Grows, SessionsInv, SessionsTypeOK, Time
<1>3. Revoked'
  BY DEF SessionsInv, Revoked
<1>4. QED BY <1>1, <1>2, <1>3, CacheStays

LEMMA NextJWT ==
  ASSUME SessionsInv, MayMint
  PROVE  /\ minted.jwt + 1 \in JWTs /\ iat[minted.jwt + 1] = 0
         /\ [minted EXCEPT !.jwt = @ + 1] \in
              [token: 0 .. MaxMinted, jwt: 0 .. MaxMinted]
         /\ [minted EXCEPT !.jwt = @ + 1].jwt = minted.jwt + 1
         /\ [minted EXCEPT !.jwt = @ + 1].token = minted.token
<1>1. minted \in [token: 0 .. MaxMinted, jwt: 0 .. MaxMinted]
  BY DEF SessionsInv, SessionsTypeOK
<1>2. /\ minted.token \in Nat /\ minted.jwt \in Nat
      /\ minted.jwt + 1 \in 0 .. MaxMinted /\ minted.jwt + 1 \in JWTs
  BY <1>1, SessionsAssumption DEF MayMint, JWTs
<1>3. iat[minted.jwt + 1] = 0
  BY <1>2 DEF SessionsInv, Made
<1>4. QED BY <1>1, <1>2, <1>3

LEMMA NextToken ==
  ASSUME SessionsInv, MayMint
  PROVE  /\ minted.token + 1 \in Tokens /\ refresh[minted.token + 1] = NoRow
         /\ [minted EXCEPT !.token = minted.token + 1] \in
              [token: 0 .. MaxMinted, jwt: 0 .. MaxMinted]
         /\ [minted EXCEPT !.token = minted.token + 1].token = minted.token + 1
         /\ [minted EXCEPT !.token = minted.token + 1].jwt = minted.jwt
<1>1. minted \in [token: 0 .. MaxMinted, jwt: 0 .. MaxMinted]
  BY DEF SessionsInv, SessionsTypeOK
<1>2. /\ minted.token \in Nat /\ minted.jwt \in Nat
      /\ minted.token + 1 \in 0 .. MaxMinted /\ minted.token + 1 \in Tokens
  BY <1>1, SessionsAssumption DEF MayMint, Tokens
<1>3. refresh[minted.token + 1] = NoRow
  BY <1>2 DEF SessionsInv, Made
<1>4. QED BY <1>1, <1>2, <1>3

LEMMA LoginJWTKeeps ==
  ASSUME SessionsInv, NEW h \in Handlers, LoginJWT(h)
  PROVE  SessionsInv' /\ Grows
<1> DEFINE n == minted.jwt + 1
           o == Carries("login", n, now)
<1>1. /\ n \in JWTs /\ iat[n] = 0 /\ n \in Nat /\ minted.jwt < n /\ minted.jwt \in Nat
      /\ minted' \in [token: 0 .. MaxMinted, jwt: 0 .. MaxMinted]
      /\ minted'.jwt = n /\ minted'.token = minted.token /\ minted.token \in Nat
  BY NextJWT DEF LoginJWT, SessionsInv, SessionsTypeOK
<1>2. o \in Op /\ o.pc = "login" /\ o.jwt = n
  BY <1>1, CarriesOp DEF SessionsInv, SessionsTypeOK, Steps
<1>3. ops' = [ops EXCEPT ![h] = o] /\ UNCHANGED <<now, refresh, iat, jwtRev, dead, userCache, revs>>
  BY DEF LoginJWT, Begin, Carries
<1> HIDE DEF n, o
<1>4. /\ ops' \in [Handlers -> Op] /\ ops'[h] = o
      /\ \A g \in Handlers : g # h => ops'[g] = ops[g]
  BY <1>2, <1>3, GoesTo DEF SessionsInv
<1>5. SessionsTypeOK' /\ Grows /\ Revoked' /\ CacheFits'
  BY <1>1, <1>3, <1>4, MintStep DEF SessionsInv, SessionsTypeOK
<1>6. OpKnows(h)'
  BY <1>1, <1>2, <1>3, <1>4 DEF OpKnows, At
<1>7. \A g \in Handlers : At(g, "login") => ops[g].jwt # n
  BY <1>1 DEF SessionsInv, OpKnows, JWTs
<1>8. (\A g \in Handlers : OpKnows(g)') /\ LoginsApart'
  BY <1>2, <1>3, <1>4, <1>5, <1>6, <1>7, OneMoves
<1>9. Made'
  BY <1>1, <1>3 DEF SessionsInv, Made, Tokens, JWTs
<1>10. QED BY <1>5, <1>8, <1>9 DEF SessionsInv

LEMMA LoginRefreshKeeps ==
  ASSUME SessionsInv, NEW h \in Handlers, LoginRefresh(h)
  PROVE  SessionsInv' /\ Grows
<1> DEFINE t == minted.token + 1
           j == ops[h].jwt
<1>1. /\ t \in Tokens /\ refresh[t] = NoRow /\ t \in Nat
      /\ minted' \in [token: 0 .. MaxMinted, jwt: 0 .. MaxMinted]
      /\ minted'.token = t /\ minted'.jwt = minted.jwt
      /\ minted.token \in Nat /\ minted.token < t /\ minted.jwt \in Nat
  BY NextToken DEF LoginRefresh, SessionsInv, SessionsTypeOK
<1>2. /\ j \in JWTs /\ iat[j] = 0 /\ j <= minted.jwt /\ ops[h].at \in 0 .. MaxTime
      /\ ops[h].pc = "login"
  BY DEF LoginRefresh, SessionsInv, SessionsTypeOK, OpKnows, Op, At
<1>3. /\ refresh' = [refresh EXCEPT ![t] = Fresh(t)]
      /\ iat' = [iat EXCEPT ![j] = ops[h].at] /\ Answer(h)
      /\ UNCHANGED <<now, jwtRev, dead, userCache, revs>>
  BY DEF LoginRefresh
<1> HIDE DEF t, j
<1>4. /\ ops' \in [Handlers -> Op] /\ OpKnows(h)' /\ ops'[h].pc = "idle"
      /\ \A g \in Handlers : g # h => ops'[g] = ops[g]
  BY <1>3, Answers DEF SessionsInv
<1>5. /\ refresh' \in [Tokens -> TokenRow \cup {NoRow}]
      /\ \A u \in Tokens : u # t => refresh'[u] = refresh[u]
  BY <1>1, <1>3, FreshIsRow DEF SessionsInv, SessionsTypeOK
<1>6. /\ iat' \in [JWTs -> 0 .. MaxTime]
      /\ \A k \in JWTs : k # j => iat'[k] = iat[k]
  BY <1>2, <1>3 DEF SessionsInv, SessionsTypeOK
<1>7. SessionsTypeOK' /\ Grows /\ Revoked' /\ CacheFits'
  BY <1>1, <1>2, <1>3, <1>4, <1>5, <1>6, MintStep
<1>8. \A g \in Handlers : At(g, "login") /\ g # h => iat'[ops[g].jwt] = iat[ops[g].jwt]
  <2>1. \A g \in Handlers : At(g, "login") /\ g # h =>
          ops[g].jwt \in JWTs /\ ops[g].jwt # j
    BY <1>2 DEF SessionsInv, OpKnows, LoginsApart, At, j
  <2>2. QED BY <1>6, <2>1
<1>9. (\A g \in Handlers : OpKnows(g)') /\ LoginsApart'
  BY <1>4, <1>7, <1>8, OneMoves DEF At
<1>10. Made'
  BY <1>1, <1>2, <1>5, <1>6 DEF SessionsInv, Made, Tokens, JWTs
<1>11. QED BY <1>7, <1>9, <1>10 DEF SessionsInv

LEMMA RotateInsertKeeps ==
  ASSUME SessionsInv, NEW h \in Handlers, RotateInsert(h)
  PROVE  SessionsInv' /\ Grows
<1> DEFINE t == minted.token + 1
           f == refresh[ops[h].tok].family
<1>1. /\ t \in Tokens /\ refresh[t] = NoRow /\ t \in Nat
      /\ minted' \in [token: 0 .. MaxMinted, jwt: 0 .. MaxMinted]
      /\ minted'.token = t /\ minted'.jwt = minted.jwt
      /\ minted.token \in Nat /\ minted.token < t /\ minted.jwt \in Nat
  BY NextToken DEF RotateInsert, SessionsInv, SessionsTypeOK
<1>2. /\ ops[h].tok \in Tokens /\ refresh[ops[h].tok] # NoRow
      /\ ops[h].pc = "insert"
  BY DEF RotateInsert, SessionsInv, OpKnows, At
<1>3. f \in Tokens
  BY <1>2, RowKinds DEF SessionsInv, SessionsTypeOK
<1>4. /\ refresh' = [refresh EXCEPT ![t] = Fresh(f)]
      /\ MovesTo(h, "mark") /\ "mark" \in Steps
      /\ UNCHANGED <<now, iat, jwtRev, dead, userCache, revs>>
  BY DEF RotateInsert, Steps
<1> HIDE DEF t, f
<1>5. /\ ops' \in [Handlers -> Op] /\ ops'[h].pc = "mark"
      /\ ops'[h].tok = ops[h].tok
      /\ \A g \in Handlers : g # h => ops'[g] = ops[g]
  BY <1>4, Moves DEF SessionsInv
<1>6. /\ refresh' \in [Tokens -> TokenRow \cup {NoRow}]
      /\ \A u \in Tokens : u # t => refresh'[u] = refresh[u]
  BY <1>1, <1>3, <1>4, FreshIsRow DEF SessionsInv, SessionsTypeOK
<1>7. SessionsTypeOK' /\ Grows /\ Revoked' /\ CacheFits'
  BY <1>1, <1>4, <1>5, <1>6, MintStep DEF SessionsInv, SessionsTypeOK
<1>8. OpKnows(h)'
  BY <1>1, <1>2, <1>5, <1>6 DEF OpKnows, At
<1>9. (\A g \in Handlers : OpKnows(g)') /\ LoginsApart'
  BY <1>4, <1>5, <1>7, <1>8, OneMoves DEF At
<1>10. Made'
  BY <1>1, <1>4, <1>6 DEF SessionsInv, Made, Tokens, JWTs
<1>11. QED BY <1>7, <1>9, <1>10 DEF SessionsInv

LEMMA RotateMarkKeeps ==
  ASSUME SessionsInv, NEW h \in Handlers, RotateMark(h)
  PROVE  SessionsInv' /\ Grows /\ MarksRows
<1> DEFINE n == minted.jwt + 1
<1>1. /\ n \in JWTs /\ iat[n] = 0 /\ n \in Nat /\ minted.jwt < n /\ minted.jwt \in Nat
      /\ minted' \in [token: 0 .. MaxMinted, jwt: 0 .. MaxMinted]
      /\ minted'.jwt = n /\ minted'.token = minted.token /\ minted.token \in Nat
  BY NextJWT DEF RotateMark, SessionsInv, SessionsTypeOK
<1>2. /\ ops[h].tok \in Tokens /\ refresh[ops[h].tok] # NoRow
      /\ ops[h].pc = "mark"
  BY DEF RotateMark, SessionsInv, OpKnows, At
<1>3. /\ refresh' = [refresh EXCEPT ![ops[h].tok].superseded = TRUE]
      /\ iat' = [iat EXCEPT ![n] = now] /\ Answer(h)
      /\ UNCHANGED <<now, jwtRev, dead, userCache, revs>>
  BY DEF RotateMark
<1> HIDE DEF n
<1>4. /\ ops' \in [Handlers -> Op] /\ OpKnows(h)' /\ ops'[h].pc = "idle"
      /\ \A g \in Handlers : g # h => ops'[g] = ops[g]
  BY <1>3, Answers DEF SessionsInv
<1>5. MarksRows
  BY <1>2, <1>3, MarkOne DEF SessionsInv
<1>6. /\ iat' \in [JWTs -> 0 .. MaxTime]
      /\ \A k \in JWTs : k # n => iat'[k] = iat[k]
  BY <1>1, <1>3 DEF SessionsInv, SessionsTypeOK, Time
<1>7. SessionsTypeOK' /\ Grows /\ Revoked' /\ CacheFits'
  BY <1>1, <1>3, <1>4, <1>5, <1>6, MintStep DEF MarksRows
<1>8. \A g \in Handlers : At(g, "login") => iat'[ops[g].jwt] = iat[ops[g].jwt]
  BY <1>1, <1>6 DEF SessionsInv, OpKnows, JWTs
<1>9. (\A g \in Handlers : OpKnows(g)') /\ LoginsApart'
  BY <1>4, <1>7, <1>8, OneMoves DEF At
<1>10. Made'
  BY <1>1, <1>5, <1>6 DEF SessionsInv, Made, MarksRows, Tokens, JWTs
<1>11. QED BY <1>5, <1>7, <1>9, <1>10 DEF SessionsInv

LEMMA TickKeeps ==
  ASSUME SessionsInv, TickSecond
  PROVE  SessionsInv'
<1>1. /\ now \in Nat /\ now' = now + 1 /\ now' \in Time
      /\ UNCHANGED <<tables, userCache, ops>>
  BY SessionsAssumption DEF TickSecond, SessionsInv, SessionsTypeOK, Time
<1>2. SessionsTypeOK'
  BY <1>1 DEF SessionsInv, SessionsTypeOK, tables
<1>3. Grows
  BY <1>1 DEF Grows, tables, SessionsInv, SessionsTypeOK
<1>4. Made' /\ Revoked'
  BY <1>1 DEF SessionsInv, SessionsTypeOK, Made, Revoked, tables
<1>5. QED BY <1>1, <1>2, <1>3, <1>4, NoneMoves, CacheStays DEF SessionsInv, tables

LEMMA CrashKeeps ==
  ASSUME SessionsInv, CrashProcess
  PROVE  SessionsInv'
<1>1. /\ ops' = [h \in Handlers |-> NoOp] /\ userCache' = NoEntry
      /\ UNCHANGED <<now, tables>>
  BY DEF CrashProcess
<1>2. ops' \in [Handlers -> Op] /\ \A h \in Handlers : ops'[h].pc = "idle"
  BY <1>1, NoOpTyped
<1>3. /\ userCache' \in [present: BOOLEAN, rev: 0 .. MaxTime, at: 0 .. MaxTime]
      /\ CacheFits'
  BY <1>1, QuietCache
<1>4. SessionsTypeOK'
  BY <1>1, <1>2, <1>3 DEF SessionsInv, SessionsTypeOK, tables
<1>5. (\A h \in Handlers : OpKnows(h)') /\ LoginsApart'
  BY <1>2 DEF OpKnows, LoginsApart, At
<1>6. Made' /\ Revoked'
  BY <1>1 DEF SessionsInv, Made, Revoked, tables
<1>7. QED BY <1>3, <1>4, <1>5, <1>6 DEF SessionsInv

LEMMA InitSessions == SessionsInit => SessionsInv
<1> SUFFICES ASSUME SessionsInit PROVE SessionsInv
  OBVIOUS
<1>1. \A h \in Handlers : ops[h].pc = "idle"
  BY NoOpTyped DEF SessionsInit
<1>2. ops \in [Handlers -> Op]
  BY NoOpTyped DEF SessionsInit
<1>3. userCache \in [present: BOOLEAN, rev: 0 .. MaxTime, at: 0 .. MaxTime]
  BY SessionsAssumption DEF SessionsInit, NoEntry
<1>4. /\ now \in Time /\ 0 \in 0 .. MaxTime
      /\ minted \in [token: 0 .. MaxMinted, jwt: 0 .. MaxMinted]
  BY SessionsAssumption DEF SessionsInit, Time
<1>5. SessionsTypeOK
  BY <1>2, <1>3, <1>4 DEF SessionsInit, SessionsTypeOK
<1>6. (\A h \in Handlers : OpKnows(h)) /\ LoginsApart
  BY <1>1 DEF OpKnows, LoginsApart, At
<1>7. Made /\ Revoked /\ CacheFits
  BY DEF SessionsInit, Made, Revoked, CacheFits, NoEntry
<1>8. QED BY <1>5, <1>6, <1>7 DEF SessionsInv

\* The steps of requests that leave the clock, the tables and what was minted
\* alone.
LEMMA QuietKeeps ==
  ASSUME SessionsInv, NEW h \in Handlers,
         \/ \E t \in Tokens : Present(h, t)
         \/ ReuseCache(h) \/ DropCache(h) \/ FailOp(h)
         \/ \E j \in JWTs : StartRequest(h, j)
         \/ ReadRevocation(h) \/ ReadFails(h) \/ StoreRevocation(h)
         \/ FinishRequest(h)
  PROVE  SessionsInv' /\ UNCHANGED <<now, tables>>
<1>1. UNCHANGED <<now, tables>>
  BY DEF Present, ReuseCache, DropCache, FailOp, StartRequest, ReadRevocation,
         ReadFails, StoreRevocation, FinishRequest
<1>2. CASE ReuseCache(h) \/ DropCache(h) \/ FailOp(h) \/ ReadFails(h) \/ FinishRequest(h)
  BY <1>1, <1>2, AnswerKeeps DEF ReuseCache, DropCache, FailOp, ReadFails, FinishRequest
<1>3. QED BY <1>1, <1>2, PresentKeeps, StartKeeps, ReadKeeps, StoreKeeps

LEMMA NextSessions == ASSUME SessionsInv, SessionsNext PROVE SessionsInv'
<1>1. ASSUME NEW h \in Handlers,
             \/ LoginJWT(h) \/ LoginRefresh(h)
             \/ RotateInsert(h) \/ RotateMark(h)
             \/ ReuseFamily(h) \/ ReuseJWT(h)
             \/ RevokeAllRefresh(h) \/ RevokeAllJWT(h)
      PROVE  SessionsInv'
  BY <1>1, LoginJWTKeeps, LoginRefreshKeeps, RotateInsertKeeps, RotateMarkKeeps,
     ReuseFamilyKeeps, RevokeAllKeeps, RevokeJWTKeeps
<1>2. QED BY <1>1, QuietKeeps, LogoutKeeps, RevokeTokenKeeps, TickKeeps, CrashKeeps
          DEF SessionsNext

LEMMA SessionsInvariant == SessionsSpec => []SessionsInv
<1>1. ASSUME SessionsInv, [SessionsNext]_sessionsVars
      PROVE  SessionsInv'
  <2>1. CASE UNCHANGED sessionsVars
    <3>1. UNCHANGED <<now, refresh, iat, jwtRev, dead, userCache, ops, minted, revs>>
      BY <2>1 DEF sessionsVars
    <3>2. (\A h \in Handlers : OpKnows(h)') /\ LoginsApart'
      BY <1>1, <3>1 DEF SessionsInv, OpKnows, LoginsApart, Fits, At
    <3>3. SessionsTypeOK' /\ Made' /\ Revoked' /\ CacheFits'
      BY <1>1, <3>1 DEF SessionsInv, SessionsTypeOK, Made, Revoked, CacheFits, Fits
    <3>4. QED BY <3>2, <3>3 DEF SessionsInv
  <2>2. QED BY <1>1, <2>1, NextSessions
<1>2. QED BY InitSessions, <1>1, PTL DEF SessionsSpec

\* A token that works after a step worked before it, or a sign-in or a rotation
\* that had passed its check made it.
LiveComes ==
  \A t \in Tokens : Live(t)' =>
    \/ Live(t)
    \/ /\ refresh[t] = NoRow /\ refresh'[t].family = t
       /\ \E h \in Handlers : At(h, "login")
    \/ \E h \in Handlers :
         /\ At(h, "insert")
         /\ refresh'[t].family = refresh[ops[h].tok].family

\* A rotation passes its check with a token that works.
RotationComes ==
  \A h \in Handlers :
    /\ At(h, "insert")' =>
         \/ At(h, "insert") /\ ops'[h].tok = ops[h].tok
         \/ ops'[h].tok \in Tokens /\ Live(ops'[h].tok)
    /\ At(h, "mark")' => At(h, "mark") \/ At(h, "insert")
    /\ At(h, "login")' => At(h, "login") \/ LoginJWT(h)

RowsStay ==
  \A t \in Tokens : refresh[t] # NoRow =>
    refresh'[t] # NoRow /\ refresh'[t].family = refresh[t].family

LEMMA LiveSteps ==
  ASSUME SessionsInv, [SessionsNext]_sessionsVars
  PROVE  LiveComes /\ RowsStay
<1>1. CASE MarksRows
  BY <1>1 DEF MarksRows, LiveComes, RowsStay
<1>2. CASE UNCHANGED refresh
  BY <1>2 DEF LiveComes, RowsStay, Live
<1>3. ASSUME NEW h \in Handlers, LoginRefresh(h)
      PROVE  LiveComes /\ RowsStay
  <2>1. PICK t \in Tokens : /\ refresh' = [refresh EXCEPT ![t] = Fresh(t)]
                            /\ refresh[t] = NoRow
    BY <1>3, NextToken DEF LoginRefresh
  <2>2. refresh'[t].family = t /\ \A u \in Tokens : u # t => refresh'[u] = refresh[u]
    BY <2>1, FreshIsRow DEF SessionsInv, SessionsTypeOK
  <2>3. At(h, "login")
    BY <1>3 DEF LoginRefresh
  <2>4. LiveComes
    BY <2>1, <2>2, <2>3 DEF LiveComes, Live
  <2>5. RowsStay
    BY <2>1, <2>2 DEF RowsStay
  <2>6. QED BY <2>4, <2>5
<1>4. ASSUME NEW h \in Handlers, RotateInsert(h)
      PROVE  LiveComes /\ RowsStay
  <2> DEFINE f == refresh[ops[h].tok].family
  <2>1. At(h, "insert") /\ ops[h].tok \in Tokens /\ refresh[ops[h].tok] # NoRow
    BY <1>4 DEF RotateInsert, SessionsInv, OpKnows, At
  <2>2. f \in Tokens
    BY <2>1, RowKinds DEF SessionsInv, SessionsTypeOK
  <2>3. PICK t \in Tokens : /\ refresh' = [refresh EXCEPT ![t] = Fresh(f)]
                            /\ refresh[t] = NoRow
    BY <1>4, NextToken DEF RotateInsert
  <2> HIDE DEF f
  <2>4. refresh'[t].family = f /\ \A u \in Tokens : u # t => refresh'[u] = refresh[u]
    BY <2>2, <2>3, FreshIsRow DEF SessionsInv, SessionsTypeOK
  <2>5. LiveComes
    BY <2>1, <2>3, <2>4 DEF LiveComes, Live, f
  <2>6. RowsStay
    BY <2>3, <2>4 DEF RowsStay
  <2>7. QED BY <2>5, <2>6
<1>5. ASSUME NEW h \in Handlers,
             \/ LoginJWT(h) \/ LoginRefresh(h)
             \/ RotateInsert(h) \/ RotateMark(h)
             \/ ReuseFamily(h) \/ ReuseJWT(h)
             \/ RevokeAllRefresh(h) \/ RevokeAllJWT(h)
      PROVE  LiveComes /\ RowsStay
  <2>1. CASE LoginJWT(h)
    BY <2>1, <1>2 DEF LoginJWT
  <2>2. QED BY <1>1, <1>3, <1>4, <1>5, <2>1, RotateMarkKeeps, ReuseFamilyKeeps,
               RevokeAllKeeps, RevokeJWTKeeps
<1>6. CASE UNCHANGED sessionsVars \/ TickSecond \/ CrashProcess
  BY <1>2, <1>6 DEF sessionsVars, TickSecond, CrashProcess, tables
<1>7. ASSUME UNCHANGED tables
      PROVE  LiveComes /\ RowsStay
  BY <1>2, <1>7 DEF tables
<1>8. QED BY <1>1, <1>5, <1>6, <1>7, QuietKeeps, LogoutKeeps, RevokeTokenKeeps
          DEF SessionsNext

LEMMA RotationSteps ==
  ASSUME SessionsInv, [SessionsNext]_sessionsVars
  PROVE  RotationComes
<1> DEFINE C(h) ==
      /\ At(h, "insert")' =>
           \/ At(h, "insert") /\ ops'[h].tok = ops[h].tok
           \/ ops'[h].tok \in Tokens /\ Live(ops'[h].tok)
      /\ At(h, "mark")' => At(h, "mark") \/ At(h, "insert")
      /\ At(h, "login")' => At(h, "login") \/ LoginJWT(h)
<1> SUFFICES ASSUME NEW g \in Handlers PROVE C(g)
  BY DEF RotationComes
<1>0. ASSUME ops'[g] = ops[g] PROVE C(g)
  BY <1>0 DEF At
<1>1. ASSUME NEW h \in Handlers, Answer(h) PROVE C(g)
  <2>1. CASE g = h
    BY <1>1, <2>1, Answers DEF SessionsInv, At
  <2>2. CASE g # h
    BY <1>0, <1>1, <2>2, Answers DEF SessionsInv
  <2>3. QED BY <2>1, <2>2
<1>2. ASSUME NEW h \in Handlers,
             NEW step \in {"reuseJWT", "reuseCache", "dropCache", "serving"},
             MovesTo(h, step)
      PROVE  C(g)
  <2>0. step \in Steps
    BY <1>2 DEF Steps
  <2>1. CASE g = h
    BY <1>2, <2>0, <2>1, Moves DEF SessionsInv, At
  <2>2. CASE g # h
    BY <1>0, <1>2, <2>0, <2>2, Moves DEF SessionsInv
  <2>3. QED BY <2>1, <2>2
<1>3. ASSUME NEW h \in Handlers, NEW o \in Op, o.pc \notin {"insert", "mark", "login"},
             ops' = [ops EXCEPT ![h] = o]
      PROVE  C(g)
  <2>1. ops'[h] = o /\ \A q \in Handlers : q # h => ops'[q] = ops[q]
    BY <1>3, GoesTo DEF SessionsInv
  <2>2. CASE g = h
    BY <1>3, <2>1, <2>2 DEF At
  <2>3. CASE g # h
    BY <1>0, <2>1, <2>3
  <2>4. QED BY <2>2, <2>3
<1>4. ASSUME NEW h \in Handlers, RotateInsert(h) PROVE C(g)
  <2>1. /\ At(h, "insert") /\ ops'[h].pc = "mark"
        /\ \A q \in Handlers : q # h => ops'[q] = ops[q]
    BY <1>4, Moves DEF RotateInsert, SessionsInv, Steps
  <2>2. CASE g = h
    BY <2>1, <2>2 DEF At
  <2>3. CASE g # h
    BY <1>0, <2>1, <2>3
  <2>4. QED BY <2>2, <2>3
<1>5. ASSUME NEW h \in Handlers, LoginJWT(h) PROVE C(g)
  <2>1. minted.jwt + 1 \in JWTs /\ now \in Time /\ "login" \in Steps
    BY <1>5, NextJWT DEF LoginJWT, SessionsInv, SessionsTypeOK, Steps
  <2> DEFINE o == Carries("login", minted.jwt + 1, now)
  <2>2. o \in Op /\ o.pc = "login" /\ ops' = [ops EXCEPT ![h] = o]
    <3>1. o \in Op /\ o.pc = "login"
      BY <2>1, CarriesOp
    <3>2. QED BY <1>5, <3>1 DEF LoginJWT, Begin, Carries
  <2> HIDE DEF o
  <2>3. ops'[h] = o /\ \A q \in Handlers : q # h => ops'[q] = ops[q]
    BY <2>2, GoesTo DEF SessionsInv
  <2>4. CASE g = h
    BY <1>5, <2>2, <2>3, <2>4 DEF At
  <2>5. CASE g # h
    BY <1>0, <2>3, <2>5
  <2>6. QED BY <2>4, <2>5
<1>6. ASSUME NEW h \in Handlers, NEW t \in Tokens, Present(h, t) PROVE C(g)
  <2>1. PICK step : step = Verdict(t)
    OBVIOUS
  <2>2. /\ step \in {"reuse", "insert"} /\ step \in Steps
        /\ step = "insert" => Live(t)
    BY <1>6, <2>1 DEF Present, Verdict, Steps, Live
  <2>3. PICK o \in Op : /\ o = [NoOp EXCEPT !.pc = step, !.tok = t]
                        /\ o.pc = step /\ o.tok = t
    BY <2>2, PresentsOp
  <2>4. ops' = [ops EXCEPT ![h] = o]
    BY <1>6, <2>1, <2>3 DEF Present, Begin
  <2>5. ops'[h] = o /\ \A q \in Handlers : q # h => ops'[q] = ops[q]
    BY <2>4, GoesTo DEF SessionsInv
  <2>6. CASE g = h
    BY <2>2, <2>3, <2>5, <2>6 DEF At
  <2>7. CASE g # h
    BY <1>0, <2>5, <2>7
  <2>8. QED BY <2>6, <2>7
<1>7. ASSUME NEW h \in Handlers, RevokeAllRefresh(h) PROVE C(g)
  <2>1. \A o \in Op : /\ [o EXCEPT !.pc = "revokeJWT"] \in Op
                      /\ [o EXCEPT !.pc = "revokeJWT"].pc = "revokeJWT"
    BY DEF Op, Steps
  <2>2. PICK o \in Op : o = [NoOp EXCEPT !.pc = "revokeJWT"] /\ o.pc = "revokeJWT"
    BY <2>1, NoOpTyped
  <2>3. ops' = [ops EXCEPT ![h] = o]
    BY <1>7, <2>2 DEF RevokeAllRefresh, Begin
  <2>4. QED BY <1>3, <2>2, <2>3
<1>8. ASSUME NEW h \in Handlers, NEW j \in JWTs, StartRequest(h, j) PROVE C(g)
  <2>1. now \in Time /\ (IF Hit THEN "serving" ELSE "read") \in Steps
    BY DEF SessionsInv, SessionsTypeOK, Steps
  <2> DEFINE o == Carries(IF Hit THEN "serving" ELSE "read", j, now)
  <2>2. /\ o \in Op /\ o.pc = (IF Hit THEN "serving" ELSE "read")
        /\ ops' = [ops EXCEPT ![h] = o]
    <3>1. o \in Op /\ o.pc = (IF Hit THEN "serving" ELSE "read")
      BY <2>1, CarriesOp
    <3>2. QED BY <1>8, <3>1 DEF StartRequest, Begin, Carries
  <2> HIDE DEF o
  <2>3. QED BY <1>3, <2>2
<1>9. ASSUME NEW h \in Handlers, ReadRevocation(h) PROVE C(g)
  <2>1. ops[h] \in Op /\ jwtRev \in 0 .. MaxTime
    BY DEF SessionsInv, SessionsTypeOK
  <2> DEFINE o == [ops[h] EXCEPT !.pc = "store", !.rev = jwtRev]
  <2>2. o \in Op /\ o.pc = "store"
    BY <2>1 DEF Op, Steps
  <2>3. ops' = [ops EXCEPT ![h] = o]
    BY <1>9 DEF ReadRevocation
  <2> HIDE DEF o
  <2>4. QED BY <1>3, <2>2, <2>3
<1>10. CASE CrashProcess
  BY <1>10, NoOpTyped DEF CrashProcess, At
<1> HIDE DEF C
<1>11. CASE \/ UNCHANGED sessionsVars \/ TickSecond
            \/ \E t \in Tokens : LogoutOrExpiry(t)
            \/ \E j \in JWTs : RevokeTokenOrExpiry(j)
  BY <1>0, <1>11 DEF sessionsVars, TickSecond, LogoutOrExpiry, RevokeTokenOrExpiry
<1>12. ASSUME NEW h \in Handlers, ReuseFamily(h) \/ ReuseJWT(h) \/ RevokeAllJWT(h)
                                  \/ StoreRevocation(h)
       PROVE  C(g)
  BY <1>1, <1>2, <1>12 DEF ReuseFamily, ReuseJWT, RevokeAllJWT, StoreRevocation
<1>13. ASSUME NEW h \in Handlers, LoginRefresh(h) \/ RotateMark(h) \/ ReuseCache(h)
                \/ DropCache(h) \/ ReadFails(h) \/ FinishRequest(h) \/ FailOp(h)
       PROVE  C(g)
  BY <1>1, <1>13 DEF LoginRefresh, RotateMark, ReuseCache, DropCache, ReadFails,
                     FinishRequest, FailOp
<1>14. QED BY <1>4, <1>5, <1>6, <1>7, <1>8, <1>9, <1>10, <1>11, <1>12, <1>13
           DEF SessionsNext

\* What makes a JWT that is accepted.
LEMMA JWTSteps ==
  ASSUME SessionsInv, [SessionsNext]_sessionsVars
  PROVE  /\ \A j \in JWTs :
              \/ iat'[j] = iat[j]
              \/ \E h \in Handlers : ops[h].pc \in {"login", "mark"}
         /\ dead \subseteq dead' /\ jwtRev <= jwtRev'
<1>0. jwtRev \in Nat /\ jwtRev <= now
  BY DEF SessionsInv, SessionsTypeOK, Revoked
<1>1. ASSUME UNCHANGED <<iat, dead>>, jwtRev' = jwtRev \/ jwtRev' = now
      PROVE  /\ \A j \in JWTs : iat'[j] = iat[j]
             /\ dead \subseteq dead' /\ jwtRev <= jwtRev'
  BY <1>0, <1>1
<1>2. CASE UNCHANGED tables
  BY <1>1, <1>2 DEF tables
<1>3. ASSUME NEW h \in Handlers,
             \/ LoginJWT(h) \/ RotateInsert(h)
             \/ ReuseFamily(h) \/ ReuseJWT(h)
             \/ RevokeAllRefresh(h) \/ RevokeAllJWT(h)
      PROVE  UNCHANGED <<iat, dead>> /\ (jwtRev' = jwtRev \/ jwtRev' = now)
  BY <1>3 DEF LoginJWT, RotateInsert, ReuseFamily, ReuseJWT, RevokeAllRefresh,
              RevokeAllJWT, WriteJWTRevocation
<1>4. ASSUME NEW h \in Handlers, LoginRefresh(h) \/ RotateMark(h)
      PROVE  /\ ops[h].pc \in {"login", "mark"}
             /\ dead \subseteq dead' /\ jwtRev <= jwtRev'
  BY <1>0, <1>4 DEF LoginRefresh, RotateMark, At
<1>5. CASE \E t \in Tokens : LogoutOrExpiry(t)
  BY <1>1, <1>5 DEF LogoutOrExpiry
<1>6. CASE \E j \in JWTs : RevokeTokenOrExpiry(j)
  BY <1>0, <1>6 DEF RevokeTokenOrExpiry
<1>7. CASE UNCHANGED sessionsVars \/ TickSecond \/ CrashProcess
  BY <1>1, <1>7 DEF sessionsVars, TickSecond, CrashProcess, tables
<1>8. QED BY <1>1, <1>2, <1>3, <1>4, <1>5, <1>6, <1>7, QuietKeeps DEF SessionsNext

LEMMA EndedSteps ==
  ASSUME SessionsInv, [SessionsNext]_sessionsVars
  PROVE  \A f \in Tokens : Ended(f) => Ended(f)'
<1> SUFFICES ASSUME NEW f \in Tokens, Ended(f) PROVE Ended(f)'
  OBVIOUS
<1>1. LiveComes /\ RowsStay /\ RotationComes
  BY LiveSteps, RotationSteps
<1>2. refresh'[f] # NoRow /\ refresh'[f].family = f
  BY <1>1 DEF Ended, RowsStay
<1>3. ASSUME NEW t \in Tokens, refresh'[t].family = f, Live(t)'
      PROVE  FALSE
  <2>1. Live(t) => refresh[t].family = f
    BY <1>1, <1>3 DEF RowsStay, Live
  <2>2. ~Live(t)
    BY <2>1 DEF Ended
  <2>3. CASE refresh[t] = NoRow /\ refresh'[t].family = t
    BY <1>3, <2>3 DEF Ended
  <2>4. CASE \E h \in Handlers :
               /\ At(h, "insert")
               /\ refresh'[t].family = refresh[ops[h].tok].family
    BY <1>3, <2>4 DEF Ended
  <2>5. QED BY <1>1, <1>3, <2>2, <2>3, <2>4 DEF LiveComes
<1>4. ASSUME NEW h \in Handlers, At(h, "insert")'
      PROVE  refresh'[ops'[h].tok].family # f
  <2>1. CASE At(h, "insert") /\ ops'[h].tok = ops[h].tok
    <3>1. /\ ops[h].tok \in Tokens /\ refresh[ops[h].tok] # NoRow
          /\ refresh[ops[h].tok].family # f
      BY <2>1 DEF SessionsInv, OpKnows, At, Ended
    <3>2. QED BY <1>1, <2>1, <3>1 DEF RowsStay
  <2>2. CASE ops'[h].tok \in Tokens /\ Live(ops'[h].tok)
    <3>1. refresh[ops'[h].tok] # NoRow /\ refresh[ops'[h].tok].family # f
      BY <2>2 DEF Ended, Live
    <3>2. QED BY <1>1, <2>2, <3>1 DEF RowsStay
  <2>3. QED BY <1>1, <1>4, <2>1, <2>2 DEF RotationComes
<1>5. QED BY <1>2, <1>3, <1>4 DEF Ended

LEMMA LoggedOutSteps ==
  ASSUME SessionsInv, [SessionsNext]_sessionsVars, LoggedOut,
         ~(\E h \in Handlers : LoginJWT(h))
  PROVE  LoggedOut'
<1>1. LiveComes /\ RotationComes
  BY LiveSteps, RotationSteps
<1>2. \A h \in Handlers : ~At(h, "login") /\ ~At(h, "insert") /\ ~At(h, "mark")
  BY DEF LoggedOut, At
<1>3. \A t \in Tokens : ~Live(t)'
  BY <1>1, <1>2 DEF LoggedOut, LiveComes
<1>4. ASSUME NEW j \in JWTs
      PROVE  iat'[j] = 0 \/ Outdated(jwtRev, j)' \/ j \in dead'
  <2>1. iat'[j] = iat[j] /\ dead \subseteq dead' /\ jwtRev <= jwtRev'
    BY <1>2, JWTSteps DEF At
  <2>2. iat[j] \in Nat /\ jwtRev \in Nat
    BY DEF SessionsInv, SessionsTypeOK
  <2>3. jwtRev' \in Nat
    BY NextSessions DEF SessionsInv, SessionsTypeOK, sessionsVars
  <2>4. iat[j] = 0 \/ jwtRev >= iat[j] \/ j \in dead
    BY DEF LoggedOut, Outdated
  <2>5. QED BY <2>1, <2>2, <2>3, <2>4 DEF Outdated
<1>5. \A h \in Handlers : ops'[h].pc \notin {"login", "insert", "mark"}
  <2>1. \A h \in Handlers : ~At(h, "login")' /\ ~At(h, "insert")' /\ ~At(h, "mark")'
    BY <1>1, <1>2 DEF RotationComes, LoggedOut
  <2>2. QED BY <2>1 DEF At
<1>6. QED BY <1>3, <1>4, <1>5 DEF LoggedOut

(* Every variable of the sessions keeps its type.                          *)
THEOREM SessionsTypeCorrect == SessionsSpec => []SessionsTypeOK
<1>1. SessionsInv => SessionsTypeOK
  BY DEF SessionsInv
<1>2. QED BY <1>1, SessionsInvariant, PTL

(* A request that is let through carries a JWT that no revocation of a TTL *)
(* or more before the request had hit, for any number of handlers, any TTL *)
(* and however stale the entry that the cache was given                    *)
(* (auth/token_revocation.go:47).                                          *)
THEOREM ServedWasValidHolds == SessionsSpec => []ServedWasValid
<1>1. SessionsInv => ServedWasValid
  BY DEF SessionsInv, OpKnows, ServedWasValid
<1>2. QED BY <1>1, SessionsInvariant, PTL

(* No rotation, retry or restart brings an ended session back, and a user  *)
(* who is logged out everywhere is so until a sign-in is completed         *)
(* (models/refresh_token.go:106, handlers/auth.go:169).                    *)
THEOREM EndedStaysEndedHolds == SessionsSpec => EndedStaysEnded
<1>1. ASSUME SessionsInv, [SessionsNext]_sessionsVars
      PROVE  [/\ \A f \in Tokens : Ended(f) => Ended(f)'
              /\ LoggedOut /\ ~(\E h \in Handlers : LoginJWT(h))
                   => LoggedOut']_sessionsVars
  BY <1>1, EndedSteps, LoggedOutSteps
<1>2. QED BY <1>1, SessionsInvariant, PTL DEF SessionsSpec, EndedStaysEnded

-----------------------------------------------------------------------------
(***************************************************************************)
(* Accounts: the inductive invariant                                       *)
(***************************************************************************)

UserRow == [row: {"none", "active", "deleted"}, flagged: BOOLEAN,
            admin: BOOLEAN, seen: BOOLEAN]
CallRow == [at: {"idle", "flag", "commit"}, row: CeremonyRows,
            subject: Names \cup Ceremonies \cup {"none"}]

\* A ceremony that makes a record has drawn a secret from the server keys.
Drawn(row) ==
  /\ row.name \in Names
  /\ row.kind \in {"registration", "reregistration", "bootstrap"} => row.key # 0

RowHolds(s) == ceremony[s].at = "open" => Drawn(ceremony[s])

CallHolds(c) ==
  /\ caller[c].at = "flag" => caller[c].subject \in Names
  /\ caller[c].at = "commit" =>
       caller[c].subject \in Ceremonies /\ Drawn(caller[c].row)

\* There is room for new keys to be stored, and an old one to be put back.
KeysHold ==
  /\ rotor = "store" => storedKey < MaxKey
  /\ rotor = "reload" => storedKey > 1

\* A token that can still be used has made nobody.
TokenUnused == boot.id # 0 /\ ~boot.consumed => madeWith[boot.id] = 0

AccountsInv ==
  /\ AccountsTypeOK
  /\ \A s \in Ceremonies : RowHolds(s)
  /\ \A c \in Callers : CallHolds(c)
  /\ KeysHold /\ TokenUnused
  /\ AccountReachable /\ OneAdminPerToken

-----------------------------------------------------------------------------
(* The ceremonies.                                                         *)

Opens ==
  \E s \in Ceremonies, kind \in Kinds, u \in Names, key \in 0 .. MaxKey :
    /\ OpenRow(s, kind, u, key)
    /\ kind \in {"registration", "reregistration", "bootstrap"} => key # 0

Closes == \E s \in Ceremonies : ceremony' = Closed(s)

LEMMA CommitsClose ==
  ASSUME AccountsInv, NEW c \in Callers,
         RegisterCommit(c) \/ ReregisterCommit(c) \/ BootstrapCommit(c)
  PROVE  Closes
  BY DEF RegisterCommit, ReregisterCommit, BootstrapCommit, Committing, Closes,
         AccountsInv, CallHolds

LEMMA ResponsesOpen ==
  ASSUME AccountsInv, NEW s \in Ceremonies, NEW u \in Names,
         \/ OpaqueRegisterResponse(s, u) \/ ReregisterResponse(s, u)
         \/ BootstrapRegisterResponse(s, u) \/ LoginWithRecord(s, u)
         \/ AdminOpaqueAuthResponse(s, u)
  PROVE  Opens
<1>1. /\ loadedKey \in 0 .. MaxKey /\ loadedKey # 0 /\ record[u] \in 0 .. MaxKey
      /\ 0 \in 0 .. MaxKey
  BY AccountsAssumption DEF AccountsInv, AccountsTypeOK
<1>2. CASE OpaqueRegisterResponse(s, u)
  BY <1>1, <1>2 DEF OpaqueRegisterResponse, SecretDrawn, Opens, Kinds
<1>3. CASE ReregisterResponse(s, u)
  BY <1>1, <1>3 DEF ReregisterResponse, SecretDrawn, Opens, Kinds
<1>4. CASE BootstrapRegisterResponse(s, u)
  BY <1>1, <1>4 DEF BootstrapRegisterResponse, SecretDrawn, Opens, Kinds
<1>5. CASE LoginWithRecord(s, u)
  BY <1>1, <1>5 DEF LoginWithRecord, Opens, Kinds
<1>6. CASE AdminOpaqueAuthResponse(s, u)
  BY <1>1, <1>6 DEF AdminOpaqueAuthResponse, Opens, Kinds
<1>7. QED BY <1>2, <1>3, <1>4, <1>5, <1>6

LEMMA FakeOpens ==
  ASSUME AccountsInv, NEW c \in Callers, NEW s \in Ceremonies, LoginFakeRecord(c, s)
  PROVE  Opens
<1>1. caller[c].subject \in Names /\ 0 \in 0 .. MaxKey
  BY AccountsAssumption DEF LoginFakeRecord, AccountsInv, CallHolds
<1>2. QED BY <1>1 DEF LoginFakeRecord, Opens, Kinds

LEMMA CeremonyMoves ==
  ASSUME AccountsInv, AccountsNext
  PROVE  UNCHANGED ceremony \/ Opens \/ Closes
<1>1. ASSUME NEW s \in Ceremonies,
             \/ ExpireRow(s) \/ FinalizeTaken(s) \/ OpaqueAuthFinalize(s)
             \/ AdminOpaqueAuthFinalize(s)
      PROVE  Closes
  BY <1>1 DEF ExpireRow, FinalizeTaken, OpaqueAuthFinalize,
              AdminOpaqueAuthFinalize, Closes
<1>2. ASSUME NEW c \in Callers,
             \/ LoginHandoff(c) \/ GiveUpCall(c)
             \/ \E u \in Names : LoginNoRecord(c, u)
             \/ \E s \in Ceremonies : FinalizeRead(c, s)
      PROVE  UNCHANGED ceremony
  BY <1>2 DEF LoginHandoff, GiveUpCall, LoginNoRecord, FinalizeRead
<1>3. ASSUME NEW u \in Names,
             \/ ExpireHandoff(u) \/ AdminLogin(u) \/ FlagUser(u)
             \/ DeleteUser(u) \/ CleanupTestUser(u)
      PROVE  UNCHANGED ceremony
  BY <1>3 DEF ExpireHandoff, AdminLogin, FlagUser, DeleteUser, CleanupTestUser
<1>4. CASE \/ FlagAllUsers \/ RotateFlag \/ ReplaceGuarded \/ ReplaceStore
           \/ ReplaceReload \/ ReplaceFail \/ RestartAccounts
           \/ (\E force \in BOOLEAN : BootCheck(force))
           \/ BootWriteFile \/ BootFileFail \/ ReadToken
  BY <1>4 DEF FlagAllUsers, RotateFlag, ReplaceGuarded, ReplaceStore,
              ReplaceReload, ReplaceFail, RestartAccounts, BootCheck,
              BootWriteFile, BootFileFail, ReadToken
<1>5. QED BY <1>1, <1>2, <1>3, <1>4, ResponsesOpen, FakeOpens, CommitsClose
          DEF AccountsNext

LEMMA NewRowIsRow ==
  /\ NewRow \in CeremonyRows /\ [NewRow EXCEPT !.at = "ended"] \in CeremonyRows
  /\ [NewRow EXCEPT !.at = "ended"].at = "ended"
  BY AccountsAssumption DEF NewRow, CeremonyRows, Kinds

LEMMA CeremoniesHold ==
  ASSUME AccountsInv, UNCHANGED ceremony \/ Opens \/ Closes
  PROVE  /\ ceremony' \in [Ceremonies -> CeremonyRows]
         /\ \A s \in Ceremonies : RowHolds(s)'
<1>0. ceremony \in [Ceremonies -> CeremonyRows]
  BY DEF AccountsInv, AccountsTypeOK, CeremonyRows
<1>1. CASE UNCHANGED ceremony
  BY <1>0, <1>1 DEF AccountsInv, RowHolds
<1>2. CASE Opens
  <2>1. PICK s \in Ceremonies, kind \in Kinds, u \in Names, key \in 0 .. MaxKey :
          /\ OpenRow(s, kind, u, key)
          /\ kind \in {"registration", "reregistration", "bootstrap"} => key # 0
    BY <1>2 DEF Opens
  <2>2. PICK r \in CeremonyRows : /\ r.kind = kind /\ r.name = u /\ r.key = key
                                 /\ r.at = "open"
                                 /\ ceremony' = [ceremony EXCEPT ![s] = r]
    BY <2>1 DEF OpenRow, CeremonyRows
  <2>3. /\ ceremony' \in [Ceremonies -> CeremonyRows] /\ ceremony'[s] = r
        /\ \A q \in Ceremonies : q # s => ceremony'[q] = ceremony[q]
    BY <1>0, <2>2
  <2>4. QED BY <2>1, <2>2, <2>3 DEF AccountsInv, RowHolds, Drawn
<1>3. CASE Closes
  <2>1. PICK s \in Ceremonies :
          ceremony' = [ceremony EXCEPT ![s] = [NewRow EXCEPT !.at = "ended"]]
    BY <1>3 DEF Closes, Closed
  <2>2. /\ ceremony' \in [Ceremonies -> CeremonyRows]
        /\ ceremony'[s].at = "ended"
        /\ \A q \in Ceremonies : q # s => ceremony'[q] = ceremony[q]
    BY <1>0, <2>1, NewRowIsRow
  <2>3. QED BY <2>1, <2>2 DEF AccountsInv, RowHolds
<1>4. QED BY <1>1, <1>2, <1>3

-----------------------------------------------------------------------------
(* The requests.                                                           *)

CallMade(o) ==
  /\ o.at = "flag" => o.subject \in Names
  /\ o.at = "commit" => o.subject \in Ceremonies /\ Drawn(o.row)

LEMMA CallerMoves ==
  ASSUME AccountsInv, AccountsNext
  PROVE  \/ UNCHANGED caller
         \/ \E c \in Callers, o \in CallRow :
              CallMade(o) /\ caller' = [caller EXCEPT ![c] = o]
         \/ caller' = [c \in Callers |-> NoCall]
<1>0. NoCall \in CallRow /\ CallMade(NoCall)
  BY NewRowIsRow DEF NoCall, CallRow, CallMade
<1>1. ASSUME NEW c \in Callers,
             \/ LoginHandoff(c) \/ GiveUpCall(c)
             \/ \E s \in Ceremonies : LoginFakeRecord(c, s)
             \/ RegisterCommit(c) \/ ReregisterCommit(c) \/ BootstrapCommit(c)
      PROVE  caller' = [caller EXCEPT ![c] = NoCall]
  BY <1>1 DEF LoginHandoff, GiveUpCall, LoginFakeRecord, RegisterCommit,
              ReregisterCommit, BootstrapCommit
<1>2. ASSUME NEW c \in Callers, NEW u \in Names, LoginNoRecord(c, u)
      PROVE  \E o \in CallRow : CallMade(o) /\ caller' = [caller EXCEPT ![c] = o]
  BY <1>2, NewRowIsRow DEF LoginNoRecord, CallRow, CallMade
<1>3. ASSUME NEW c \in Callers, NEW s \in Ceremonies, FinalizeRead(c, s)
      PROVE  \E o \in CallRow : CallMade(o) /\ caller' = [caller EXCEPT ![c] = o]
  <2>1. ceremony[s] \in CeremonyRows /\ Drawn(ceremony[s])
    BY <1>3 DEF FinalizeRead, AccountsInv, AccountsTypeOK, RowHolds
  <2>2. QED BY <1>3, <2>1 DEF FinalizeRead, CallRow, CallMade
<1>4. ASSUME NEW s \in Ceremonies,
             \/ ExpireRow(s) \/ FinalizeTaken(s) \/ OpaqueAuthFinalize(s)
             \/ AdminOpaqueAuthFinalize(s)
      PROVE  UNCHANGED caller
  BY <1>4 DEF ExpireRow, FinalizeTaken, OpaqueAuthFinalize,
              AdminOpaqueAuthFinalize
<1>5. ASSUME NEW u \in Names,
             \/ ExpireHandoff(u) \/ AdminLogin(u) \/ FlagUser(u)
             \/ DeleteUser(u) \/ CleanupTestUser(u)
      PROVE  UNCHANGED caller
  BY <1>5 DEF ExpireHandoff, AdminLogin, FlagUser, DeleteUser, CleanupTestUser
<1>6. CASE \/ FlagAllUsers \/ RotateFlag \/ ReplaceGuarded \/ ReplaceStore
           \/ ReplaceReload \/ ReplaceFail
           \/ (\E force \in BOOLEAN : BootCheck(force))
           \/ BootWriteFile \/ BootFileFail \/ ReadToken
  BY <1>6 DEF FlagAllUsers, RotateFlag, ReplaceGuarded, ReplaceStore,
              ReplaceReload, ReplaceFail, BootCheck,
              BootWriteFile, BootFileFail, ReadToken
<1>7. ASSUME NEW s \in Ceremonies, NEW u \in Names,
             \/ OpaqueRegisterResponse(s, u) \/ ReregisterResponse(s, u)
             \/ BootstrapRegisterResponse(s, u) \/ LoginWithRecord(s, u)
             \/ AdminOpaqueAuthResponse(s, u)
      PROVE  UNCHANGED caller
  BY <1>7 DEF OpaqueRegisterResponse, ReregisterResponse,
              BootstrapRegisterResponse, LoginWithRecord, AdminOpaqueAuthResponse
<1>8. CASE RestartAccounts
  BY <1>8 DEF RestartAccounts
<1>9. QED BY <1>0, <1>1, <1>2, <1>3, <1>4, <1>5, <1>6, <1>7, <1>8
          DEF AccountsNext

LEMMA CallersHold ==
  ASSUME AccountsInv, AccountsNext
  PROVE  /\ caller' \in [Callers -> CallRow]
         /\ \A c \in Callers : CallHolds(c)'
<1>0. caller \in [Callers -> CallRow] /\ \A c \in Callers : CallMade(caller[c])
  BY DEF AccountsInv, AccountsTypeOK, CallRow, CallHolds, CallMade
<1>1. /\ caller' \in [Callers -> CallRow]
      /\ \A c \in Callers : CallMade(caller'[c])
  <2>1. NoCall \in CallRow /\ CallMade(NoCall)
    BY NewRowIsRow DEF NoCall, CallRow, CallMade
  <2>2. CASE UNCHANGED caller
    BY <1>0, <2>2
  <2>3. CASE caller' = [c \in Callers |-> NoCall]
    BY <2>1, <2>3
  <2>4. ASSUME NEW c \in Callers, NEW o \in CallRow, CallMade(o),
               caller' = [caller EXCEPT ![c] = o]
        PROVE  /\ caller' \in [Callers -> CallRow]
               /\ \A d \in Callers : CallMade(caller'[d])
    BY <1>0, <2>4
  <2>5. QED BY <2>2, <2>3, <2>4, CallerMoves
<1>2. QED BY <1>1 DEF CallMade, CallHolds

-----------------------------------------------------------------------------
(* The keys.                                                               *)

LEMMA KeysStay ==
  ASSUME AccountsInv, AccountsNext
  PROVE  /\ storedKey' \in 1 .. MaxKey /\ loadedKey' \in 1 .. MaxKey
         /\ rotor' \in {"idle", "store", "reload"} /\ KeysHold'
<1>0. /\ storedKey \in 1 .. MaxKey /\ loadedKey \in 1 .. MaxKey
      /\ rotor \in {"idle", "store", "reload"} /\ KeysHold
  BY DEF AccountsInv, AccountsTypeOK
<1>1. CASE UNCHANGED keyState
  BY <1>0, <1>1 DEF keyState, KeysHold
<1>2. CASE RotateFlag \/ ReplaceGuarded
  BY <1>0, <1>2 DEF RotateFlag, ReplaceGuarded, KeysHold
<1>3. CASE ReplaceStore
  BY <1>0, <1>3, AccountsAssumption DEF ReplaceStore, KeysHold
<1>4. CASE ReplaceReload \/ RestartAccounts
  BY <1>0, <1>4 DEF ReplaceReload, RestartAccounts, KeysHold
<1>5. CASE ReplaceFail
  <2>1. CASE UNCHANGED <<storedKey, loadedKey>>
    BY <1>0, <1>5, <2>1 DEF ReplaceFail, KeysHold
  <2>2. CASE /\ rotor = "reload"
             /\ storedKey' = storedKey - 1 /\ loadedKey' \in {loadedKey, storedKey'}
    <3>1. storedKey > 1 /\ storedKey \in 1 .. MaxKey /\ MaxKey \in Nat
      BY <1>0, <2>2, AccountsAssumption DEF KeysHold
    <3>2. storedKey' \in 1 .. MaxKey
      BY <2>2, <3>1
    <3>3. QED BY <1>0, <1>5, <2>2, <3>2 DEF ReplaceFail, KeysHold
  <2>3. QED BY <1>5, <2>1, <2>2 DEF ReplaceFail
<1>6. ASSUME NEW s \in Ceremonies, NEW u \in Names,
             \/ OpaqueRegisterResponse(s, u) \/ ReregisterResponse(s, u)
             \/ BootstrapRegisterResponse(s, u) \/ LoginWithRecord(s, u)
             \/ AdminOpaqueAuthResponse(s, u)
      PROVE  UNCHANGED keyState
  BY <1>6 DEF OpaqueRegisterResponse, ReregisterResponse,
              BootstrapRegisterResponse, LoginWithRecord, AdminOpaqueAuthResponse
<1>7. ASSUME NEW s \in Ceremonies,
             \/ ExpireRow(s) \/ FinalizeTaken(s) \/ OpaqueAuthFinalize(s)
             \/ AdminOpaqueAuthFinalize(s)
      PROVE  UNCHANGED keyState
  BY <1>7 DEF ExpireRow, FinalizeTaken, OpaqueAuthFinalize,
              AdminOpaqueAuthFinalize
<1>8. ASSUME NEW u \in Names,
             \/ ExpireHandoff(u) \/ AdminLogin(u) \/ FlagUser(u)
             \/ DeleteUser(u) \/ CleanupTestUser(u)
      PROVE  UNCHANGED keyState
  BY <1>8 DEF ExpireHandoff, AdminLogin, FlagUser, DeleteUser, CleanupTestUser
<1>9. ASSUME NEW c \in Callers,
             \/ LoginHandoff(c) \/ GiveUpCall(c)
             \/ (\E u \in Names : LoginNoRecord(c, u))
             \/ (\E s \in Ceremonies : LoginFakeRecord(c, s) \/ FinalizeRead(c, s))
             \/ RegisterCommit(c) \/ ReregisterCommit(c) \/ BootstrapCommit(c)
      PROVE  UNCHANGED keyState
  BY <1>9 DEF LoginHandoff, GiveUpCall, LoginNoRecord, LoginFakeRecord,
              FinalizeRead, RegisterCommit, ReregisterCommit, BootstrapCommit
<1>10. CASE \/ FlagAllUsers \/ (\E force \in BOOLEAN : BootCheck(force))
           \/ BootWriteFile \/ BootFileFail \/ ReadToken
  BY <1>1, <1>10 DEF FlagAllUsers, BootCheck, BootWriteFile, BootFileFail, ReadToken
<1>11. QED BY <1>1, <1>2, <1>3, <1>4, <1>5, <1>6, <1>7, <1>8, <1>9, <1>10 DEF AccountsNext

-----------------------------------------------------------------------------
(* The bootstrap token.                                                    *)

BootHolds ==
  /\ boot \in [id: 0 .. MaxToken, consumed: BOOLEAN]
  /\ bootFile \in 0 .. MaxToken /\ bootHeld \in 0 .. MaxToken
  /\ startup \in {"check", "file", "up"}
  /\ madeWith \in [1 .. MaxToken -> Nat]
  /\ TokenUnused /\ OneAdminPerToken

LEMMA BootCheckHolds ==
  ASSUME BootHolds, NEW force \in BOOLEAN, BootCheck(force)
  PROVE  BootHolds'
<1>1. UNCHANGED <<bootHeld, madeWith>> /\ startup' \in {"check", "file", "up"}
  BY DEF BootCheck
<1>2. CASE UNCHANGED boot /\ bootFile' \in {0, bootFile}
  BY <1>1, <1>2, AccountsAssumption DEF BootHolds, TokenUnused, OneAdminPerToken
<1>3. CASE /\ \E t \in 1 .. MaxToken :
                /\ \A o \in 1 .. MaxToken :
                     (boot.id >= o \/ bootFile >= o \/ bootHeld >= o
                        \/ madeWith[o] > 0) => t > o
                /\ boot' = [id |-> t, consumed |-> FALSE]
           /\ UNCHANGED bootFile
  <2>1. PICK t \in 1 .. MaxToken :
          /\ madeWith[t] > 0 => t > t
          /\ boot' = [id |-> t, consumed |-> FALSE]
    BY <1>3
  <2>2. madeWith[t] = 0
    BY <2>1 DEF BootHolds
  <2>3. boot' \in [id: 0 .. MaxToken, consumed: BOOLEAN]
    BY <2>1, AccountsAssumption
  <2>4. TokenUnused'
    BY <1>1, <2>1, <2>2 DEF TokenUnused
  <2>5. QED BY <1>1, <1>3, <2>3, <2>4 DEF BootHolds, OneAdminPerToken
<1>4. QED BY <1>2, <1>3 DEF BootCheck

LEMMA BootstrapHolds ==
  ASSUME BootHolds, NEW c \in Callers, BootstrapCommit(c)
  PROVE  BootHolds'
<1>1. /\ boot.id \in 1 .. MaxToken /\ madeWith[boot.id] = 0
      /\ boot' = [boot EXCEPT !.consumed = TRUE]
      /\ madeWith' = [madeWith EXCEPT ![boot.id] = @ + 1]
      /\ UNCHANGED <<bootFile, bootHeld, startup>>
  BY AccountsAssumption DEF BootstrapCommit, Consumable, BootHolds, TokenUnused
<1>2. /\ boot' \in [id: 0 .. MaxToken, consumed: BOOLEAN]
      /\ boot'.consumed
  BY <1>1 DEF BootHolds
<1>3. /\ madeWith' \in [1 .. MaxToken -> Nat] /\ madeWith'[boot.id] = 1
      /\ \A t \in 1 .. MaxToken : t # boot.id => madeWith'[t] = madeWith[t]
  BY <1>1 DEF BootHolds
<1>4. QED BY <1>1, <1>2, <1>3 DEF BootHolds, TokenUnused, OneAdminPerToken

LEMMA BootStays ==
  ASSUME BootHolds, UNCHANGED bootVars
  PROVE  BootHolds'
  BY DEF BootHolds, bootVars, TokenUnused, OneAdminPerToken

LEMMA BootClears ==
  ASSUME BootHolds, UNCHANGED madeWith, startup' \in {"check", "file", "up"},
         \/ UNCHANGED boot
         \/ boot' = [id |-> 0, consumed |-> FALSE],
         bootFile' \in 0 .. MaxToken, bootHeld' \in 0 .. MaxToken
  PROVE  BootHolds'
<1>1. boot' \in [id: 0 .. MaxToken, consumed: BOOLEAN]
  <2>1. [id |-> 0, consumed |-> FALSE] \in [id: 0 .. MaxToken, consumed: BOOLEAN]
    BY AccountsAssumption
  <2>2. QED BY <2>1 DEF BootHolds
<1>2. TokenUnused'
  BY DEF BootHolds, TokenUnused
<1>3. QED BY <1>1, <1>2 DEF BootHolds, OneAdminPerToken

LEMMA NextBoot ==
  ASSUME BootHolds, AccountsNext
  PROVE  BootHolds'
<1>1. ASSUME NEW s \in Ceremonies, NEW u \in Names,
             \/ OpaqueRegisterResponse(s, u) \/ ReregisterResponse(s, u)
             \/ BootstrapRegisterResponse(s, u) \/ LoginWithRecord(s, u)
             \/ AdminOpaqueAuthResponse(s, u)
      PROVE  UNCHANGED bootVars
  BY <1>1 DEF OpaqueRegisterResponse, ReregisterResponse,
              BootstrapRegisterResponse, LoginWithRecord, AdminOpaqueAuthResponse
<1>2. ASSUME NEW s \in Ceremonies,
             \/ ExpireRow(s) \/ FinalizeTaken(s) \/ OpaqueAuthFinalize(s)
             \/ AdminOpaqueAuthFinalize(s)
      PROVE  UNCHANGED bootVars
  BY <1>2 DEF ExpireRow, FinalizeTaken, OpaqueAuthFinalize,
              AdminOpaqueAuthFinalize
<1>3. ASSUME NEW u \in Names,
             \/ ExpireHandoff(u) \/ FlagUser(u)
             \/ DeleteUser(u) \/ CleanupTestUser(u)
      PROVE  UNCHANGED bootVars
  BY <1>3 DEF ExpireHandoff, FlagUser, DeleteUser, CleanupTestUser
<1>4. ASSUME NEW c \in Callers,
             \/ LoginHandoff(c) \/ GiveUpCall(c)
             \/ (\E u \in Names : LoginNoRecord(c, u))
             \/ (\E s \in Ceremonies : LoginFakeRecord(c, s) \/ FinalizeRead(c, s))
             \/ RegisterCommit(c) \/ ReregisterCommit(c)
      PROVE  UNCHANGED bootVars
  BY <1>4 DEF LoginHandoff, GiveUpCall, LoginNoRecord, LoginFakeRecord,
              FinalizeRead, RegisterCommit, ReregisterCommit
<1>5. CASE \/ FlagAllUsers \/ RotateFlag \/ ReplaceGuarded \/ ReplaceStore
           \/ ReplaceReload \/ ReplaceFail
  BY <1>5, BootStays DEF FlagAllUsers, RotateFlag, ReplaceGuarded, ReplaceStore,
              ReplaceReload, ReplaceFail
<1>6. ASSUME NEW u \in Names, AdminLogin(u)
      PROVE  BootHolds'
  BY <1>6, BootClears DEF AdminLogin, BootHolds
<1>7. CASE RestartAccounts \/ BootWriteFile \/ BootFileFail \/ ReadToken
  <2>1. boot.id \in 0 .. MaxToken
    BY DEF BootHolds
  <2>2. QED BY <1>7, <2>1, BootClears
            DEF RestartAccounts, BootWriteFile, BootFileFail, ReadToken, BootHolds
<1>8. QED BY <1>1, <1>2, <1>3, <1>4, <1>5, <1>6, <1>7, BootCheckHolds,
             BootstrapHolds, BootStays DEF AccountsNext

-----------------------------------------------------------------------------
(* The users and their records.                                            *)

UsersHold ==
  /\ user \in [Names -> UserRow] /\ record \in [Names -> 0 .. MaxKey]
  /\ AccountReachable

LEMMA UsersStay ==
  ASSUME UsersHold, UNCHANGED <<user, record>>
  PROVE  UsersHold'
  BY DEF UsersHold, AccountReachable, ActiveName

\* A row and a record are written for one name.
LEMMA OneWritten ==
  ASSUME UsersHold, NEW u \in Names, NEW r \in UserRow, NEW k \in 0 .. MaxKey,
         user' = [user EXCEPT ![u] = r], record' = [record EXCEPT ![u] = k],
         r.row = "active" => k # 0 \/ r.flagged
  PROVE  UsersHold'
<1>1. /\ user' \in [Names -> UserRow] /\ record' \in [Names -> 0 .. MaxKey]
      /\ user'[u] = r /\ record'[u] = k
      /\ \A v \in Names : v # u => user'[v] = user[v] /\ record'[v] = record[v]
  BY DEF UsersHold
<1>2. QED BY <1>1 DEF UsersHold, AccountReachable, ActiveName

LEMMA RecordStays ==
  ASSUME UsersHold, NEW u \in Names, UNCHANGED record
  PROVE  record[u] \in 0 .. MaxKey /\ record' = [record EXCEPT ![u] = record[u]]
  BY DEF UsersHold

\* The secret of a ceremony that commits.
LEMMA CommitsSecret ==
  ASSUME AccountsInv, NEW c \in Callers,
         NEW kind \in {"registration", "reregistration", "bootstrap"},
         Committing(c, kind)
  PROVE  /\ caller[c].row.name \in Names
         /\ RecordMade(c) \in 0 .. MaxKey /\ RecordMade(c) # 0
  BY DEF AccountsInv, AccountsTypeOK, CeremonyRows, Committing, CallHolds, Drawn,
         RecordMade

LEMMA NewRows ==
  /\ NoUser \in UserRow
  /\ [NoUser EXCEPT !.row = "active"] \in UserRow
  /\ \A a \in BOOLEAN : [NoUser EXCEPT !.row = "active", !.admin = a] \in UserRow
<1>1. NoUser \in UserRow
  BY DEF NoUser, UserRow
<1>2. \A r \in UserRow :
        /\ [r EXCEPT !.row = "active"] \in UserRow
        /\ \A a \in BOOLEAN : [r EXCEPT !.row = "active", !.admin = a] \in UserRow
  BY DEF UserRow
<1>3. QED BY <1>1, <1>2

LEMMA RowEdited ==
  ASSUME NEW r \in UserRow
  PROVE  /\ [r EXCEPT !.flagged = FALSE] \in UserRow
         /\ [r EXCEPT !.flagged = TRUE] \in UserRow
         /\ [r EXCEPT !.flagged = TRUE].flagged
         /\ [r EXCEPT !.row = "deleted"] \in UserRow
         /\ [r EXCEPT !.row = "deleted"].row = "deleted"
         /\ [r EXCEPT !.seen = TRUE] \in UserRow
         /\ [r EXCEPT !.seen = TRUE].row = r.row
         /\ [r EXCEPT !.seen = TRUE].flagged = r.flagged
  BY DEF UserRow

LEMMA CommitUsers ==
  ASSUME AccountsInv, UsersHold, NEW c \in Callers,
         RegisterCommit(c) \/ ReregisterCommit(c) \/ BootstrapCommit(c)
  PROVE  UsersHold'
<1> DEFINE u == caller[c].row.name
<1>1. u \in Names /\ RecordMade(c) \in 0 .. MaxKey /\ RecordMade(c) # 0
  BY CommitsSecret DEF RegisterCommit, ReregisterCommit, BootstrapCommit
<1>2. record' = [record EXCEPT ![u] = RecordMade(c)]
  BY DEF RegisterCommit, ReregisterCommit, BootstrapCommit
<1>3. \E r \in UserRow : user' = [user EXCEPT ![u] = r]
  <2>1. CASE RegisterCommit(c)
    BY <2>1, NewRows DEF RegisterCommit
  <2>2. CASE BootstrapCommit(c)
    <3>1. [NoUser EXCEPT !.row = "active", !.admin = TRUE] \in UserRow
      BY NewRows
    <3>2. user' = [user EXCEPT ![u] = [NoUser EXCEPT !.row = "active", !.admin = TRUE]]
      BY <2>2 DEF BootstrapCommit
    <3>3. QED BY <3>1, <3>2
  <2>3. CASE ReregisterCommit(c)
    <3>1. user[u] \in UserRow
      BY <1>1 DEF UsersHold
    <3>2. user' = [user EXCEPT ![u] = [user[u] EXCEPT !.flagged = FALSE]]
      BY <2>3 DEF ReregisterCommit
    <3>3. QED BY <3>1, <3>2, RowEdited
  <2>4. QED BY <2>1, <2>2, <2>3
<1> HIDE DEF u
<1>4. QED BY <1>1, <1>2, <1>3, OneWritten

LEMMA AdminUsers ==
  ASSUME UsersHold, NEW u \in Names,
         \/ AdminLogin(u) \/ FlagUser(u) \/ DeleteUser(u) \/ CleanupTestUser(u)
  PROVE  UsersHold'
<1>1. user[u] \in UserRow /\ 0 \in 0 .. MaxKey
  BY AccountsAssumption DEF UsersHold
<1>2. CASE AdminLogin(u)
  <2>1. /\ user' = [user EXCEPT ![u] = [user[u] EXCEPT !.seen = TRUE]]
        /\ UNCHANGED record /\ ActiveName(u)
    BY <1>2 DEF AdminLogin
  <2>2. record[u] # 0 \/ user[u].flagged
    BY <2>1 DEF UsersHold, AccountReachable
  <2>3. QED BY <1>1, <2>1, <2>2, RowEdited, RecordStays, OneWritten
<1>3. CASE FlagUser(u)
  <2>1. Flaggable(u) = TRUE
    BY <1>3 DEF FlagUser, Flaggable, ActiveName
  <2>2. /\ user' = [user EXCEPT ![u] = [user[u] EXCEPT !.flagged = TRUE]]
        /\ record' = [record EXCEPT ![u] = 0]
    BY <1>3, <2>1 DEF FlagUser
  <2>3. QED BY <1>1, <2>2, RowEdited, OneWritten
<1>4. CASE DeleteUser(u)
  <2>1. /\ user' = [user EXCEPT ![u] = [user[u] EXCEPT !.row = "deleted"]]
        /\ UNCHANGED record
    BY <1>4 DEF DeleteUser
  <2>2. [user[u] EXCEPT !.row = "deleted"].row # "active"
    BY <1>1, RowEdited
  <2>3. QED BY <1>1, <2>1, <2>2, RowEdited, RecordStays, OneWritten
<1>5. CASE CleanupTestUser(u)
  <2>1. NoUser.row = "none"
    BY DEF NoUser
  <2>2. QED BY <1>1, <1>5, <2>1, NewRows, OneWritten DEF CleanupTestUser
<1>6. QED BY <1>2, <1>3, <1>4, <1>5

LEMMA FlagAllHolds ==
  ASSUME UsersHold, AllFlagged
  PROVE  UsersHold'
<1>1. record' \in [Names -> 0 .. MaxKey]
  BY AccountsAssumption DEF AllFlagged
<1>2. ASSUME NEW u \in Names
      PROVE  /\ user'[u] \in UserRow
             /\ user'[u].row = "active" => user'[u].flagged
  <2>1. user[u] \in UserRow
    BY DEF UsersHold
  <2>2. PICK b \in BOOLEAN : b = (user[u].flagged \/ Flaggable(u))
    OBVIOUS
  <2>3. user'[u] = [user[u] EXCEPT !.flagged = b]
    BY <2>2 DEF AllFlagged
  <2>4. /\ [user[u] EXCEPT !.flagged = b] \in UserRow
        /\ [user[u] EXCEPT !.flagged = b].row = user[u].row
        /\ [user[u] EXCEPT !.flagged = b].flagged = b
    BY <2>1 DEF UserRow
  <2>5. user[u].row = "active" => b
    BY <2>2 DEF Flaggable, ActiveName
  <2>6. QED BY <2>3, <2>4, <2>5
<1>3. user' \in [Names -> UserRow]
  <2>1. user' = [u \in Names |-> user'[u]]
    BY DEF AllFlagged
  <2>2. QED BY <1>2, <2>1
<1>4. QED BY <1>1, <1>2, <1>3 DEF UsersHold, AccountReachable, ActiveName

LEMMA NextUsers ==
  ASSUME AccountsInv, UsersHold, AccountsNext
  PROVE  UsersHold'
<1>1. ASSUME NEW s \in Ceremonies, NEW u \in Names,
             \/ OpaqueRegisterResponse(s, u) \/ ReregisterResponse(s, u)
             \/ BootstrapRegisterResponse(s, u) \/ LoginWithRecord(s, u)
             \/ AdminOpaqueAuthResponse(s, u)
      PROVE  UNCHANGED <<user, record>>
  BY <1>1 DEF OpaqueRegisterResponse, ReregisterResponse,
              BootstrapRegisterResponse, LoginWithRecord, AdminOpaqueAuthResponse
<1>2. ASSUME NEW s \in Ceremonies,
             \/ ExpireRow(s) \/ FinalizeTaken(s) \/ OpaqueAuthFinalize(s)
             \/ AdminOpaqueAuthFinalize(s)
      PROVE  UNCHANGED <<user, record>>
  BY <1>2 DEF ExpireRow, FinalizeTaken, OpaqueAuthFinalize,
              AdminOpaqueAuthFinalize
<1>3. ASSUME NEW u \in Names, ExpireHandoff(u)
      PROVE  UNCHANGED <<user, record>>
  BY <1>3 DEF ExpireHandoff
<1>4. ASSUME NEW c \in Callers,
             \/ LoginHandoff(c) \/ GiveUpCall(c)
             \/ (\E u \in Names : LoginNoRecord(c, u))
             \/ (\E s \in Ceremonies : LoginFakeRecord(c, s) \/ FinalizeRead(c, s))
      PROVE  UNCHANGED <<user, record>>
  BY <1>4 DEF LoginHandoff, GiveUpCall, LoginNoRecord, LoginFakeRecord, FinalizeRead
<1>5. CASE \/ ReplaceGuarded \/ ReplaceStore \/ ReplaceReload \/ ReplaceFail
           \/ RestartAccounts \/ (\E force \in BOOLEAN : BootCheck(force))
           \/ BootWriteFile \/ BootFileFail \/ ReadToken
  BY <1>5, UsersStay DEF ReplaceGuarded, ReplaceStore, ReplaceReload, ReplaceFail,
     RestartAccounts, BootCheck, BootWriteFile, BootFileFail, ReadToken
<1>6. CASE FlagAllUsers \/ RotateFlag
  BY <1>6, FlagAllHolds DEF FlagAllUsers, RotateFlag
<1>7. QED BY <1>1, <1>2, <1>3, <1>4, <1>5, <1>6, UsersStay, AdminUsers, CommitUsers
          DEF AccountsNext

LEMMA HandoffStays ==
  ASSUME AccountsInv, AccountsNext
  PROVE  handoff' \subseteq Names
<1>0. handoff \subseteq Names
  BY DEF AccountsInv, AccountsTypeOK
<1>1. ASSUME NEW c \in Callers, LoginHandoff(c)
      PROVE  handoff' \subseteq Names
  BY <1>0, <1>1 DEF LoginHandoff, AccountsInv, CallHolds
<1>2. ASSUME NEW u \in Names, ExpireHandoff(u)
      PROVE  handoff' \subseteq Names
  BY <1>0, <1>2 DEF ExpireHandoff
<1>3. ASSUME NEW s \in Ceremonies, NEW u \in Names,
             \/ OpaqueRegisterResponse(s, u) \/ ReregisterResponse(s, u)
             \/ BootstrapRegisterResponse(s, u) \/ LoginWithRecord(s, u)
             \/ AdminOpaqueAuthResponse(s, u)
      PROVE  UNCHANGED handoff
  BY <1>3 DEF OpaqueRegisterResponse, ReregisterResponse,
              BootstrapRegisterResponse, LoginWithRecord, AdminOpaqueAuthResponse
<1>4. ASSUME NEW s \in Ceremonies,
             \/ ExpireRow(s) \/ FinalizeTaken(s) \/ OpaqueAuthFinalize(s)
             \/ AdminOpaqueAuthFinalize(s)
      PROVE  UNCHANGED handoff
  BY <1>4 DEF ExpireRow, FinalizeTaken, OpaqueAuthFinalize,
              AdminOpaqueAuthFinalize
<1>5. ASSUME NEW c \in Callers,
             \/ GiveUpCall(c) \/ (\E u \in Names : LoginNoRecord(c, u))
             \/ (\E s \in Ceremonies : LoginFakeRecord(c, s) \/ FinalizeRead(c, s))
             \/ RegisterCommit(c) \/ ReregisterCommit(c) \/ BootstrapCommit(c)
      PROVE  UNCHANGED handoff
  BY <1>5 DEF GiveUpCall, LoginNoRecord, LoginFakeRecord, FinalizeRead,
              RegisterCommit, ReregisterCommit, BootstrapCommit
<1>6. ASSUME NEW u \in Names,
             AdminLogin(u) \/ FlagUser(u) \/ DeleteUser(u) \/ CleanupTestUser(u)
      PROVE  UNCHANGED handoff
  BY <1>6 DEF AdminLogin, FlagUser, DeleteUser, CleanupTestUser
<1>7. CASE \/ FlagAllUsers \/ RotateFlag \/ ReplaceGuarded \/ ReplaceStore
           \/ ReplaceReload \/ ReplaceFail \/ RestartAccounts
           \/ (\E force \in BOOLEAN : BootCheck(force))
           \/ BootWriteFile \/ BootFileFail \/ ReadToken
  BY <1>0, <1>7 DEF FlagAllUsers, RotateFlag, ReplaceGuarded, ReplaceStore,
              ReplaceReload, ReplaceFail, RestartAccounts, BootCheck,
              BootWriteFile, BootFileFail, ReadToken
<1>8. QED BY <1>0, <1>1, <1>2, <1>3, <1>4, <1>5, <1>6, <1>7 DEF AccountsNext

-----------------------------------------------------------------------------
(* Theorems.                                                               *)

LEMMA AccountsParts ==
  AccountsInv <=>
    /\ UsersHold /\ BootHolds /\ KeysHold
    /\ ceremony \in [Ceremonies -> CeremonyRows]
    /\ \A s \in Ceremonies : RowHolds(s)
    /\ caller \in [Callers -> CallRow]
    /\ \A c \in Callers : CallHolds(c)
    /\ handoff \subseteq Names
    /\ storedKey \in 1 .. MaxKey /\ loadedKey \in 1 .. MaxKey
    /\ rotor \in {"idle", "store", "reload"}
  BY DEF AccountsInv, AccountsTypeOK, UsersHold, BootHolds, UserRow, CeremonyRows, CallRow

LEMMA InitAccounts == AccountsInit => AccountsInv
<1> SUFFICES ASSUME AccountsInit PROVE AccountsInv
  OBVIOUS
<1>1. UsersHold
  <2>1. NoUser.row = "none" /\ 0 \in 0 .. MaxKey
    BY AccountsAssumption DEF NoUser
  <2>2. QED BY <2>1, NewRows DEF AccountsInit, UsersHold, AccountReachable, ActiveName
<1>2. BootHolds
  BY AccountsAssumption DEF AccountsInit, BootHolds, TokenUnused, OneAdminPerToken
<1>3. /\ ceremony \in [Ceremonies -> CeremonyRows]
      /\ \A s \in Ceremonies : RowHolds(s)
  BY NewRowIsRow DEF AccountsInit, RowHolds, NewRow
<1>4. caller \in [Callers -> CallRow] /\ \A c \in Callers : CallHolds(c)
  BY NewRowIsRow DEF AccountsInit, CallRow, CallHolds, NoCall
<1>5. /\ KeysHold /\ storedKey \in 1 .. MaxKey /\ loadedKey \in 1 .. MaxKey
      /\ rotor \in {"idle", "store", "reload"} /\ handoff \subseteq Names
  BY AccountsAssumption DEF AccountsInit, KeysHold
<1>6. QED BY <1>1, <1>2, <1>3, <1>4, <1>5, AccountsParts

LEMMA NextAccounts == ASSUME AccountsInv, AccountsNext PROVE AccountsInv'
<1>1. UsersHold /\ BootHolds
  BY AccountsParts
<1>2. UsersHold' /\ BootHolds'
  BY <1>1, NextUsers, NextBoot
<1>3. /\ ceremony' \in [Ceremonies -> CeremonyRows]
      /\ \A s \in Ceremonies : RowHolds(s)'
  BY CeremonyMoves, CeremoniesHold
<1>4. caller' \in [Callers -> CallRow] /\ \A c \in Callers : CallHolds(c)'
  BY CallersHold
<1>5. /\ KeysHold' /\ storedKey' \in 1 .. MaxKey /\ loadedKey' \in 1 .. MaxKey
      /\ rotor' \in {"idle", "store", "reload"} /\ handoff' \subseteq Names
  BY KeysStay, HandoffStays
<1>6. QED BY <1>2, <1>3, <1>4, <1>5, AccountsParts
             DEF AccountsInv, AccountsTypeOK, UsersHold, BootHolds, UserRow,
                 CeremonyRows, CallRow

LEMMA AccountsInvariant == AccountsSpec => []AccountsInv
<1>1. ASSUME AccountsInv, [AccountsNext]_accountsVars
      PROVE  AccountsInv'
  <2>1. CASE UNCHANGED accountsVars
    BY <1>1, <2>1 DEF accountsVars, AccountsInv, AccountsTypeOK, RowHolds, Drawn,
       CallHolds, KeysHold, TokenUnused, AccountReachable, ActiveName,
       OneAdminPerToken
  <2>2. QED BY <1>1, <2>1, NextAccounts
<1>2. QED BY InitAccounts, <1>1, PTL DEF AccountsSpec

(* Every variable of the accounts keeps its type.                          *)
THEOREM AccountsTypeCorrect == AccountsSpec => []AccountsTypeOK
<1>1. AccountsInv => AccountsTypeOK
  BY DEF AccountsInv
<1>2. QED BY <1>1, AccountsInvariant, PTL

(* An active account has a record or the flag, and a bootstrap token makes *)
(* one administrator, for any number of names, ceremonies and requests     *)
(* (auth/opaque_rotation.go:36).                                           *)
THEOREM AccountsKept == AccountsSpec => []AccountsHold
<1>1. AccountsInv => AccountsHold
  BY DEF AccountsInv, AccountsHold
<1>2. QED BY <1>1, AccountsInvariant, PTL

-----------------------------------------------------------------------------
(***************************************************************************)
(* Limits: tiers and penalties                                             *)
(***************************************************************************)

\* TierFor gives the highest tier reached.
LEMMA TierReached ==
  ASSUME NEW h, IsThresholds(h), NEW c \in Nat
  PROVE  /\ TierFor(h, c) \in Tiers
         /\ \A u \in Tiers : h[u] <= c => u <= TierFor(h, c)
         /\ h[TierFor(h, c)] <= c
<1> DEFINE S == {t \in Tiers : h[t] <= c}
<1>1. TopTier \in Nat
  BY LimitsAssumption
<1>2. 0 \in S
  BY <1>1 DEF IsThresholds, Tiers
<1>3. \E m \in S : \A s \in S : s <= m
  BY <1>1, <1>2, GreatestExists DEF Tiers
<1>4. \E t \in Tiers : h[t] <= c /\ \A u \in Tiers : h[u] <= c => u <= t
  BY <1>3
<1>5. QED BY <1>4 DEF TierFor

\* More hits never lead to a lower tier.
LEMMA TierGrows ==
  ASSUME NEW h, IsThresholds(h), NEW c \in Nat, NEW d \in Nat, c <= d
  PROVE  TierFor(h, c) <= TierFor(h, d)
<1>1. h[TierFor(h, c)] <= c /\ TierFor(h, c) \in Tiers
  BY TierReached
<1>2. h[TierFor(h, c)] \in Nat
  BY <1>1 DEF IsThresholds
<1>3. h[TierFor(h, c)] <= d
  BY <1>1, <1>2
<1>4. QED BY <1>1, <1>3, TierReached

LEMMA PenaltyGrows ==
  ASSUME NEW t \in Tiers, NEW u \in Tiers, t <= u
  PROVE  Penalty[t] <= Penalty[u]
  BY LimitsAssumption

LEMMA PenaltyIsNat ==
  ASSUME NEW t \in Tiers
  PROVE  Penalty[t] \in 0 .. Penalty[TopTier]
<1>1. TopTier \in Tiers /\ t <= TopTier
  BY LimitsAssumption DEF Tiers
<1>2. Penalty[t] \in Nat /\ Penalty[TopTier] \in Nat
  BY <1>1, LimitsAssumption
<1>3. QED BY <1>1, <1>2, PenaltyGrows

\* Each period of silence that has passed lowers the remembered tier by one.
LEMMA SilenceDecays ==
  ASSUME NEW m \in Nat, m < TierDecayPeriod
  PROVE  m \div TierDecayPeriod = 0
<1>1. TierDecayPeriod \in Nat \ {0}
  BY LimitsAssumption
<1>2. QED BY <1>1

-----------------------------------------------------------------------------
(***************************************************************************)
(* Limits: the inductive invariant.  A block lasts no longer than the      *)
(* penalty of the tier, counted from the last hit.                         *)
(***************************************************************************)
FloodFits ==
  flood.until # 0 =>
    /\ flood.last # 0 /\ flood.last <= minute
    /\ flood.until <= flood.last + Penalty[flood.peak]

EnumFits ==
  enum.until # 0 =>
    enum.last <= minute /\ enum.until <= enum.last + Penalty[TierFor(EnumHits, enum.unique)]

AttemptsFit ==
  attempts.until # 0 =>
    /\ attempts.updated <= minute
    /\ attempts.until <= attempts.updated + Penalty[TierFor(AttemptHits, attempts.failed)]

LimitsInv ==
  /\ LimitsTypeOK
  /\ flood.last <= minute /\ enum.last <= minute /\ attempts.updated <= minute
  /\ FloodFits /\ EnumFits /\ AttemptsFit

LEMMA BumpGrows ==
  ASSUME NEW c \in 0 .. MaxHits
  PROVE  Bump(c) \in 0 .. MaxHits /\ c <= Bump(c)
  BY LimitsAssumption DEF Bump

LEMMA InitLimits == LimitsInit => LimitsInv
<1>1. /\ 1 \in Minutes /\ 0 \in 0 .. MaxHits /\ 0 \in Tiers /\ 0 \in 0 .. MaxMinute
      /\ 0 \in Later
  BY LimitsAssumption, PenaltyIsNat DEF Minutes, Tiers, Later
<1>2. QED
  BY <1>1 DEF LimitsInit, LimitsInv, LimitsTypeOK, NoFlood, NoEnum, NoAttempts,
              FloodFits, EnumFits, AttemptsFit

-----------------------------------------------------------------------------
(* Limits: the steps.                                                      *)

FloodRow == [hits: 0 .. MaxHits, peak: Tiers, first: 0 .. MaxMinute,
             last: 0 .. MaxMinute, until: Later]

LEMMA DecayedTier ==
  ASSUME LimitsInv
  PROVE  /\ Decayed(flood) \in Tiers
         /\ \/ Decayed(flood) = flood.peak
            \/ TierDecayPeriod <= minute - flood.last
            \/ TierFullResetPeriod <= minute - flood.last
<1> DEFINE m == minute - flood.last
           lost == m \div TierDecayPeriod
<1>1. /\ m \in Nat /\ flood.peak \in Tiers /\ TopTier \in Nat
      /\ TierDecayPeriod \in Nat \ {0} /\ TierFullResetPeriod \in Nat
  BY LimitsAssumption DEF LimitsInv, LimitsTypeOK, Minutes
<1>2. lost \in Nat
  BY <1>1
<1>3. m < TierDecayPeriod => lost = 0
  BY <1>1, SilenceDecays
<1>4. Decayed(flood) = IF m >= TierFullResetPeriod THEN 0
                       ELSE IF flood.peak > lost THEN flood.peak - lost ELSE 0
  BY DEF Decayed
<1> HIDE DEF m, lost
<1>5. Decayed(flood) \in Tiers
  BY <1>1, <1>2, <1>4 DEF Tiers
<1>6. \/ Decayed(flood) = flood.peak
      \/ TierDecayPeriod <= m
      \/ TierFullResetPeriod <= m
  BY <1>1, <1>2, <1>3, <1>4 DEF Tiers
<1>7. QED BY <1>5, <1>6 DEF m

\* The tracker as a hit finds it has the same block, and a lower tier only when
\* that block is over.
LEMMA WindowedFits ==
  ASSUME LimitsInv
  PROVE  /\ FloodWindowed \in FloodRow
         /\ FloodWindowed.until = flood.until
         /\ flood.until <= minute \/ FloodWindowed.peak = flood.peak
<1>1. /\ flood \in FloodRow /\ minute \in 0 .. MaxMinute /\ minute \in Nat
      /\ flood.last \in Nat /\ flood.last <= minute /\ flood.until \in Nat
      /\ flood.peak \in Tiers
  BY LimitsAssumption, PenaltyIsNat
  DEF LimitsInv, LimitsTypeOK, FloodRow, Minutes, Later
<1>2. 0 \in 0 .. MaxHits /\ 0 \in Tiers /\ 0 \in 0 .. MaxMinute /\ 0 \in Later
  BY LimitsAssumption, PenaltyIsNat DEF Tiers, Later
<1>3. CASE flood.last = 0
  <2>1. flood.until = 0
    BY <1>3 DEF LimitsInv, FloodFits
  <2>2. FloodWindowed = [NoFlood EXCEPT !.first = minute]
    BY <1>3 DEF FloodWindowed
  <2>3. QED BY <1>1, <1>2, <2>1, <2>2 DEF NoFlood, FloodRow
<1>4. CASE flood.last # 0 /\ minute - flood.first > FloodWindow
  <2>1. FloodWindowed = [flood EXCEPT !.hits = 0, !.first = minute,
                                      !.peak = Decayed(flood)]
    BY <1>4 DEF FloodWindowed
  <2>2. \A t \in FloodRow, d \in Tiers :
          LET w == [t EXCEPT !.hits = 0, !.first = minute, !.peak = d]
          IN w \in FloodRow /\ w.until = t.until /\ w.peak = d
    BY <1>1, <1>2 DEF FloodRow
  <2>3. /\ FloodWindowed \in FloodRow /\ FloodWindowed.until = flood.until
        /\ FloodWindowed.peak = Decayed(flood)
    BY <1>1, <2>1, <2>2, DecayedTier
  <2>4. flood.until <= minute \/ Decayed(flood) = flood.peak
    <3>1. /\ Penalty[flood.peak] \in Nat
          /\ Penalty[flood.peak] <= TierDecayPeriod
          /\ Penalty[flood.peak] <= TierFullResetPeriod
          /\ TierDecayPeriod \in Nat /\ TierFullResetPeriod \in Nat
      BY <1>1, PenaltiesEnd, LimitsAssumption
    <3>2. flood.until = 0 \/ flood.until <= flood.last + Penalty[flood.peak]
      BY DEF LimitsInv, FloodFits
    <3>3. QED BY <1>1, <3>1, <3>2, DecayedTier
  <2>5. QED BY <2>3, <2>4
<1>5. CASE flood.last # 0 /\ ~(minute - flood.first > FloodWindow)
  BY <1>1, <1>5 DEF FloodWindowed
<1>6. QED BY <1>3, <1>4, <1>5

LEMMA FloodHitEffect ==
  ASSUME LimitsInv, FloodHit
  PROVE  /\ flood' \in FloodRow
         /\ flood'.last = minute
         /\ flood'.until \in {flood.until, minute + Penalty[flood'.peak]}
         /\ Over(flood.until) \/ flood'.until >= flood.until
         /\ flood'.until <= minute + Penalty[flood'.peak]
<1> DEFINE t == FloodWindowed
           hits == Bump(t.hits)
           current == TierFor(FloodHits, hits)
           effective == IF t.peak > current THEN t.peak ELSE current
           until == IF effective > 0 THEN minute + Penalty[effective] ELSE t.until
<1>1. flood' = [t EXCEPT !.hits = hits, !.last = minute, !.peak = effective,
                         !.until = until]
  BY DEF FloodHit
<1>2. /\ t \in FloodRow /\ t.until = flood.until
      /\ flood.until <= minute \/ t.peak = flood.peak
  BY WindowedFits
<1>3. /\ minute \in 0 .. MaxMinute /\ minute \in Nat /\ MaxMinute \in Nat
      /\ flood.until \in Nat /\ flood.last \in Nat /\ flood.last <= minute
      /\ flood.peak \in Tiers /\ flood.until \in Later
  BY LimitsAssumption, PenaltyIsNat
  DEF LimitsInv, LimitsTypeOK, Minutes, Later
<1>4. hits \in 0 .. MaxHits /\ hits \in Nat
  BY <1>2, BumpGrows, LimitsAssumption DEF FloodRow
<1>5. current \in Tiers /\ t.peak \in Tiers
  BY <1>2, <1>4, TierReached, LimitsAssumption DEF FloodRow
<1> HIDE DEF current, t, hits
<1>6. effective \in Tiers /\ t.peak <= effective /\ TopTier \in Nat
  BY <1>5, LimitsAssumption DEF Tiers
<1>7. /\ Penalty[effective] \in 0 .. Penalty[TopTier] /\ Penalty[TopTier] \in Nat
      /\ Penalty[t.peak] \in Nat /\ Penalty[t.peak] <= Penalty[effective]
      /\ Penalty[effective] \in Nat
  <2>1. TopTier \in Tiers
    BY LimitsAssumption DEF Tiers
  <2>2. Penalty[effective] \in 0 .. Penalty[TopTier]
    BY <1>6, PenaltyIsNat
  <2>3. Penalty[t.peak] <= Penalty[effective]
    BY <1>5, <1>6, PenaltyGrows
  <2>4. QED BY <1>5, <1>6, <2>1, <2>2, <2>3, LimitsAssumption
<1> HIDE DEF effective
<1>8. until \in Later
  BY <1>2, <1>3, <1>7 DEF Later
<1>9. flood.until = 0 \/ flood.until <= flood.last + Penalty[flood.peak]
  BY DEF LimitsInv, FloodFits
<1>10. flood.until <= minute + Penalty[effective]
  <2>1. CASE flood.until <= minute
    BY <2>1, <1>3, <1>7
  <2>2. CASE t.peak = flood.peak
    BY <2>2, <1>3, <1>7, <1>9
  <2>3. QED BY <1>2, <2>1, <2>2
<1>11. until >= flood.until /\ until <= minute + Penalty[effective]
  BY <1>2, <1>3, <1>7, <1>10
<1>12. until \in {flood.until, minute + Penalty[effective]}
  BY <1>2
<1> HIDE DEF until
<1>13. \A w \in FloodRow :
         LET x == [w EXCEPT !.hits = hits, !.last = minute, !.peak = effective,
                            !.until = until]
         IN /\ x \in FloodRow /\ x.last = minute /\ x.peak = effective
            /\ x.until = until
  BY <1>3, <1>4, <1>6, <1>8 DEF FloodRow
<1>14. QED BY <1>1, <1>2, <1>11, <1>12, <1>13

EnumRow == [unique: 0 .. MaxHits, last: 0 .. MaxMinute, until: Later]

LEMMA EnumHitEffect ==
  ASSUME LimitsInv, EnumHit
  PROVE  /\ enum' \in EnumRow
         /\ enum'.last = minute
         /\ Over(enum.until) \/ enum'.until >= enum.until
         /\ enum'.until <= minute + Penalty[TierFor(EnumHits, enum'.unique)]
<1> DEFINE t == IF EnumStale THEN NoEnum ELSE enum
<1>1. /\ minute \in 0 .. MaxMinute /\ minute \in Nat /\ MaxMinute \in Nat
      /\ enum \in EnumRow /\ enum.last <= minute
  BY LimitsAssumption DEF LimitsInv, LimitsTypeOK, Minutes, EnumRow
<1>2. /\ t \in EnumRow /\ t.unique \in 0 .. MaxHits /\ t.unique \in Nat
      /\ t.last \in Nat /\ t.until \in Later /\ t.until \in Nat
  <2>1. 0 \in 0 .. MaxHits /\ 0 \in 0 .. MaxMinute /\ 0 \in Later
    BY LimitsAssumption, PenaltyIsNat DEF Later, Tiers
  <2>2. t \in EnumRow
    BY <1>1, <2>1 DEF NoEnum, EnumRow
  <2>3. QED BY <2>2, LimitsAssumption, PenaltyIsNat DEF EnumRow, Later
<1>3. \/ t.until = 0
      \/ t.last <= minute /\ t.until <= t.last + Penalty[TierFor(EnumHits, t.unique)]
  BY DEF LimitsInv, EnumFits, NoEnum
<1>4. Over(enum.until) \/ t = enum
  BY DEF EnumStale
<1>5. PICK unique \in {t.unique, Bump(t.unique)} \ {0} :
        enum' = [unique |-> unique, last |-> minute,
                 until |-> IF TierFor(EnumHits, unique) > 0
                           THEN minute + Penalty[TierFor(EnumHits, unique)]
                           ELSE t.until]
  BY DEF EnumHit
<1> HIDE DEF t
<1> DEFINE tier == TierFor(EnumHits, unique)
           until == IF tier > 0 THEN minute + Penalty[tier] ELSE t.until
<1>6. unique \in 0 .. MaxHits /\ unique \in Nat /\ t.unique <= unique
  BY <1>2, <1>5, BumpGrows, LimitsAssumption
<1>7. IsThresholds(EnumHits)
  BY LimitsAssumption
<1>8. /\ tier \in Tiers /\ TierFor(EnumHits, t.unique) \in Tiers
      /\ TierFor(EnumHits, t.unique) <= tier
  BY <1>2, <1>6, <1>7, TierReached, TierGrows
<1>9. /\ Penalty[TierFor(EnumHits, t.unique)] \in Nat
      /\ Penalty[TierFor(EnumHits, t.unique)] <= Penalty[tier]
      /\ Penalty[tier] \in 0 .. Penalty[TopTier] /\ Penalty[tier] \in Nat
      /\ Penalty[TopTier] \in Nat
  BY <1>8, PenaltyGrows, PenaltyIsNat, LimitsAssumption DEF Tiers
<1>10. enum' = [unique |-> unique, last |-> minute, until |-> until]
  BY <1>5
<1> HIDE DEF tier
<1>11. until \in Later
  BY <1>1, <1>2, <1>9 DEF Later
<1>12. t.until <= minute + Penalty[tier]
  BY <1>1, <1>2, <1>3, <1>9
<1>13. until >= t.until /\ until <= minute + Penalty[tier]
  BY <1>1, <1>2, <1>9, <1>12
<1> HIDE DEF until
<1>14. /\ enum' \in EnumRow /\ enum'.last = minute /\ enum'.until = until
       /\ enum'.unique = unique
  BY <1>1, <1>6, <1>10, <1>11 DEF EnumRow
<1>15. QED BY <1>4, <1>13, <1>14 DEF tier

AttemptsRow == [failed: 0 .. MaxHits, updated: 0 .. MaxMinute, until: Later]

LEMMA FailedAttemptEffect ==
  ASSUME LimitsInv, FailedAttempt
  PROVE  /\ attempts' \in AttemptsRow
         /\ attempts'.updated = minute
         /\ attempts'.until >= attempts.until
         /\ attempts'.until <= minute + Penalty[TierFor(AttemptHits, attempts'.failed)]
<1> DEFINE failed == Bump(attempts.failed)
           tier == TierFor(AttemptHits, failed)
           until == minute + Penalty[tier]
<1>1. /\ minute \in 0 .. MaxMinute /\ minute \in Nat /\ MaxMinute \in Nat
      /\ attempts.failed \in 0 .. MaxHits /\ attempts.failed \in Nat
      /\ attempts.updated \in Nat /\ attempts.updated <= minute
      /\ attempts.until \in Nat
  BY LimitsAssumption, PenaltyIsNat
  DEF LimitsInv, LimitsTypeOK, Minutes, Later
<1>2. failed \in 0 .. MaxHits /\ failed \in Nat /\ attempts.failed <= failed
  BY <1>1, BumpGrows, LimitsAssumption
<1>3. attempts' = [failed |-> failed, updated |-> minute, until |-> until]
  BY DEF FailedAttempt
<1> HIDE DEF failed
<1>4. /\ tier \in Tiers /\ TierFor(AttemptHits, attempts.failed) \in Tiers
      /\ TierFor(AttemptHits, attempts.failed) <= tier
  BY <1>1, <1>2, LimitsAssumption, TierReached, TierGrows
<1>5. /\ Penalty[TierFor(AttemptHits, attempts.failed)] \in Nat
      /\ Penalty[TierFor(AttemptHits, attempts.failed)] <= Penalty[tier]
      /\ Penalty[tier] \in 0 .. Penalty[TopTier] /\ Penalty[tier] \in Nat
      /\ Penalty[TopTier] \in Nat
  BY <1>4, PenaltyGrows, PenaltyIsNat, LimitsAssumption DEF Tiers
<1>6. \/ attempts.until = 0
      \/ attempts.until <= attempts.updated + Penalty[TierFor(AttemptHits, attempts.failed)]
  BY DEF LimitsInv, AttemptsFit
<1>7. until \in Later /\ until >= attempts.until /\ until <= minute + Penalty[tier]
  BY <1>1, <1>5, <1>6 DEF Later
<1> HIDE DEF tier
<1>8. /\ attempts' \in AttemptsRow /\ attempts'.updated = minute
      /\ attempts'.until = until /\ attempts'.failed = failed
  BY <1>1, <1>2, <1>3, <1>7 DEF AttemptsRow
<1>9. QED BY <1>7, <1>8 DEF tier

\* What a step does to the guard it is about; it leaves the other two alone.
NoneShorter ==
  /\ Over(flood.until) \/ flood'.until >= flood.until
  /\ Over(enum.until) \/ enum'.until >= enum.until
  /\ Over(attempts.until) \/ attempts'.until >= attempts.until

LEMMA NextLimits ==
  ASSUME LimitsInv, LimitsNext
  PROVE  LimitsInv' /\ (RestartGuards \/ NoneShorter)
<1> USE DEF FloodRow, EnumRow, AttemptsRow
<1>1. /\ minute \in Nat /\ MaxMinute \in Nat /\ 0 \in 0 .. MaxHits /\ 0 \in Tiers
      /\ 0 \in 0 .. MaxMinute /\ 0 \in Later
      /\ flood.until \in Nat /\ enum.until \in Nat /\ attempts.until \in Nat
      /\ flood.last \in Nat /\ enum.last \in Nat /\ attempts.updated \in Nat
  BY LimitsAssumption, PenaltyIsNat
  DEF LimitsInv, LimitsTypeOK, Minutes, Later, Tiers
<1>2. CASE FloodHit
  <2>1. flood'.last # 0
    BY <1>2, FloodHitEffect DEF LimitsInv, LimitsTypeOK, Minutes
  <2>2. QED
    BY <1>1, <1>2, <2>1, FloodHitEffect
    DEF FloodHit, LimitsInv, LimitsTypeOK, FloodFits, EnumFits, AttemptsFit,
        NoneShorter
<1>3. CASE EnumHit
  BY <1>1, <1>3, EnumHitEffect
  DEF EnumHit, LimitsInv, LimitsTypeOK, FloodFits, EnumFits, AttemptsFit,
      NoneShorter
<1>4. CASE FailedAttempt
  BY <1>1, <1>4, FailedAttemptEffect
  DEF FailedAttempt, LimitsInv, LimitsTypeOK, FloodFits, EnumFits, AttemptsFit,
      NoneShorter
<1>5. CASE FloodCleanup
  BY <1>1, <1>5
  DEF FloodCleanup, LimitsInv, LimitsTypeOK, FloodFits, EnumFits, AttemptsFit,
      NoneShorter, NoFlood
<1>6. CASE EnumCleanup
  BY <1>1, <1>6
  DEF EnumCleanup, EnumStale, LimitsInv, LimitsTypeOK, FloodFits, EnumFits,
      AttemptsFit, NoneShorter, NoEnum
<1>7. CASE Prune
  <2>1. Over(attempts.until)
    <3>1. TierFor(AttemptHits, attempts.failed) \in Tiers
      BY TierReached, LimitsAssumption DEF LimitsInv, LimitsTypeOK
    <3>2. /\ Penalty[TierFor(AttemptHits, attempts.failed)] \in Nat
          /\ Penalty[TierFor(AttemptHits, attempts.failed)] <= Retention
          /\ Retention \in Nat
      BY <3>1, LimitsAssumption, PenaltiesEnd
    <3>3. QED BY <1>1, <1>7, <3>2 DEF Prune, LimitsInv, AttemptsFit, Over
  <2>2. QED
    BY <1>1, <1>7, <2>1
    DEF Prune, LimitsInv, LimitsTypeOK, FloodFits, EnumFits, AttemptsFit,
        NoneShorter, NoAttempts
<1>8. CASE TickLimits
  <2>1. minute' \in Minutes
    BY <1>1, <1>8 DEF TickLimits, Minutes
  <2>2. QED
    BY <1>1, <1>8, <2>1
    DEF TickLimits, LimitsInv, LimitsTypeOK, FloodFits, EnumFits, AttemptsFit,
        NoneShorter
<1>9. CASE RestartGuards
  BY <1>1, <1>9
  DEF RestartGuards, LimitsInv, LimitsTypeOK, FloodFits, EnumFits, AttemptsFit,
      NoFlood, NoEnum
<1>10. QED
  BY <1>2, <1>3, <1>4, <1>5, <1>6, <1>7, <1>8, <1>9 DEF LimitsNext

LEMMA LimitsInvariant == LimitsSpec => []LimitsInv
<1>1. LimitsInv /\ [LimitsNext]_limitsVars => LimitsInv'
  <2>1. CASE LimitsInv /\ UNCHANGED limitsVars
    BY <2>1
    DEF limitsVars, LimitsInv, LimitsTypeOK, FloodFits, EnumFits, AttemptsFit
  <2>2. QED BY <2>1, NextLimits
<1>2. QED BY InitLimits, <1>1, PTL DEF LimitsSpec

(* Every variable of the limiters keeps its type.                          *)
THEOREM LimitsTypeCorrect == LimitsSpec => []LimitsTypeOK
<1>1. LimitsInv => LimitsTypeOK
  BY DEF LimitsInv
<1>2. QED BY <1>1, LimitsInvariant, PTL

(* A visitor who is blocked is never let go earlier by asking again, by    *)
(* the end of a window, by decay or by cleaning, for any thresholds, any   *)
(* number of tiers and any penalties that end with the silence that lowers *)
(* a tier (handlers/flood_guard.go:162, share_enumeration.go:82,           *)
(* rate_limiting.go:134).                                                  *)
THEOREM BlockNeverShortenedHolds == LimitsSpec => BlockNeverShortened
<1>1. LimitsInv /\ [LimitsNext]_limitsVars =>
        [~RestartGuards => NoneShorter]_limitsVars
  BY NextLimits
<1>2. QED
  BY <1>1, LimitsInvariant, PTL DEF LimitsSpec, BlockNeverShortened, NoneShorter

-----------------------------------------------------------------------------
(***************************************************************************)
(* Enrollment: the inductive invariant                                     *)
(***************************************************************************)

EnrolStep ==
  {NoEnrol} \cup [pc: {"store"}, method: Methods, issue: BOOLEAN]
            \cup [pc: {"reissue", "session", "enable"}]
            \cup [pc: {"save"}, id: Ids]
            \cup [pc: {"remove"}, method: Methods, id: Ids]

\* An enrolment that will store no codes: somebody had them when it began.
Uncodes(s) == s.pc = "store" /\ ~s.issue

\* A factor is complete only if it has a row; a key that is about to be saved
\* was verified.
RowsMade ==
  /\ \A m \in Methods : cred[m].done => HasRow(m)
  /\ \A e \in Enrollers : enrolling[e].pc = "save" => enrolling[e].id \in verified

\* While a code has been found right, the secret it will enable is the one it
\* was verified with or was put in its place since.
EnablesKnown ==
  (\E e \in Enrollers : enrolling[e].pc = "enable") /\ HasRow("totp") =>
    cred["totp"].id \in verified \/ cred["totp"].id \in overlapped

\* Codes are there for any row, and for any enrolment that goes without.
RowsHaveCodes ==
  \/ \E m \in Methods : HasRow(m)
  \/ \E e \in Enrollers : Uncodes(enrolling[e])
  => hasCodes \/ stripped

EnrollmentInv ==
  /\ EnrollmentTypeOK
  /\ RowsMade
  /\ EnablesKnown
  /\ EnabledWasVerified
  /\ RowsHaveCodes

LEMMA EnrolKinds ==
  ASSUME NEW s \in EnrolStep
  PROVE  /\ s.pc \in {"idle", "store", "reissue", "session", "enable", "save", "remove"}
         /\ s.pc = "store" => s.method \in Methods /\ s.issue \in BOOLEAN
         /\ s.pc = "save" => s.id \in Ids
         /\ s.pc = "remove" => s.method \in Methods /\ s.id \in Ids
  BY DEF EnrolStep, NoEnrol

LEMMA InitEnrollment == EnrollmentInit => EnrollmentInv
<1>1. SUFFICES ASSUME EnrollmentInit
               PROVE  EnrollmentInv
  OBVIOUS
<1>2. /\ \A m \in Methods : cred[m] = NoCred
      /\ \A e \in Enrollers : enrolling[e] = NoEnrol
      /\ NoCred.id = 0 /\ NoCred.done = FALSE /\ NoEnrol.pc = "idle"
      /\ 0 \in 0 .. MaxRows /\ "totp" \in Methods
  BY <1>1, EnrollmentAssumption DEF EnrollmentInit, NoCred, NoEnrol, Methods
<1>3. EnrollmentTypeOK
  BY <1>1, <1>2 DEF EnrollmentInit, EnrollmentTypeOK, NoCred
<1>4. RowsMade /\ EnablesKnown /\ EnabledWasVerified /\ RowsHaveCodes
  BY <1>2 DEF RowsMade, EnablesKnown, EnabledWasVerified, RowsHaveCodes, HasRow, Uncodes
<1>5. QED BY <1>3, <1>4 DEF EnrollmentInv

-----------------------------------------------------------------------------
(* Enrollment: the steps.                                                  *)

\* A request goes on and the tables stay.
LEMMA RequestGoes ==
  ASSUME EnrollmentInv, NEW e \in Enrollers, NEW s \in EnrolStep, Proceeds(e, s),
         UNCHANGED <<cred, hasCodes, rows, overlapped, stripped>>,
         challenge' \in BOOLEAN,
         verified \subseteq verified', verified' \subseteq Ids,
         s.pc = "save" => s.id \in verified',
         s.pc = "enable" => cred["totp"].id \in verified',
         Uncodes(s) => hasCodes \/ stripped
  PROVE  EnrollmentInv'
<1>1. /\ enrolling' \in [Enrollers -> EnrolStep]
      /\ enrolling'[e] = s /\ \A f \in Enrollers : f # e => enrolling'[f] = enrolling[f]
  BY DEF EnrollmentInv, EnrollmentTypeOK, EnrolStep, Proceeds
<1>2. EnrollmentTypeOK'
  BY <1>1 DEF EnrollmentInv, EnrollmentTypeOK, EnrolStep
<1>3. RowsMade'
  BY <1>1 DEF EnrollmentInv, RowsMade, HasRow
<1>4. EnablesKnown'
  BY <1>1 DEF EnrollmentInv, EnablesKnown, HasRow
<1>5. EnabledWasVerified'
  BY DEF EnrollmentInv, EnabledWasVerified
<1>6. RowsHaveCodes'
  BY <1>1 DEF EnrollmentInv, RowsHaveCodes, HasRow, Uncodes
<1>7. QED BY <1>2, <1>3, <1>4, <1>5, <1>6 DEF EnrollmentInv

\* A row is made.
LEMMA RowInserted ==
  ASSUME EnrollmentInv, NEW m \in Methods, NEW codes \in BOOLEAN, Insert(m, codes),
         ~codes => hasCodes \/ stripped,
         enrolling' \in [Enrollers -> EnrolStep],
         \A e \in Enrollers : \/ enrolling'[e] = enrolling[e]
                              \/ enrolling'[e].pc \in {"idle", "session"},
         UNCHANGED <<challenge, verified>>
  PROVE  EnrollmentInv'
<1>1. /\ rows \in 0 .. MaxRows /\ rows < MaxRows /\ rows + 1 \in Ids
      /\ rows + 1 \in 0 .. MaxRows /\ rows + 1 # 0
      /\ cred \in [Methods -> [id: 0 .. MaxRows, done: BOOLEAN]]
      /\ "totp" \in Methods
  BY EnrollmentAssumption DEF EnrollmentInv, EnrollmentTypeOK, Insert, Ids, Methods
<1>2. PICK c : c = [id |-> rows + 1, done |-> FALSE]
  OBVIOUS
<1>3. /\ cred' = [cred EXCEPT ![m] = c] /\ c.id = rows + 1 /\ c.done = FALSE
      /\ c \in [id: 0 .. MaxRows, done: BOOLEAN]
      /\ cred'[m] = c /\ \A n \in Methods : n # m => cred'[n] = cred[n]
  BY <1>1, <1>2 DEF Insert
<1>4. /\ hasCodes' = (hasCodes \/ codes) /\ stripped' = (stripped /\ ~codes)
      /\ rows' = rows + 1
      /\ overlapped \subseteq overlapped' /\ overlapped' \subseteq overlapped \cup {rows + 1}
      /\ (\E e \in Enrollers : enrolling[e].pc = "enable") => rows + 1 \in overlapped'
  BY DEF Insert
<1>5. EnrollmentTypeOK'
  BY <1>1, <1>3, <1>4 DEF EnrollmentInv, EnrollmentTypeOK, EnrolStep
<1>6. RowsMade'
  BY <1>3 DEF EnrollmentInv, RowsMade, HasRow
<1>7. EnablesKnown'
  <2>1. CASE m = "totp"
    BY <1>3, <1>4, <2>1 DEF EnablesKnown
  <2>2. CASE m # "totp"
    BY <1>1, <1>3, <1>4, <2>2 DEF EnrollmentInv, EnablesKnown, HasRow
  <2>3. QED BY <2>1, <2>2
<1>8. EnabledWasVerified'
  BY <1>3, <1>4 DEF EnrollmentInv, EnabledWasVerified
<1>9. RowsHaveCodes'
  BY <1>4 DEF EnrollmentInv, EnrollmentTypeOK, RowsHaveCodes
<1>10. QED BY <1>5, <1>6, <1>7, <1>8, <1>9 DEF EnrollmentInv

LEMMA EnrolBegins ==
  ASSUME EnrollmentInv, NEW e \in Enrollers,
         \/ \E m \in Methods : Setup(e, m) \/ ReadCredential(e, m)
         \/ Resume(e) \/ RegenerateBackupCodes(e)
         \/ ResumeKey(e) \/ SaveWebAuthnSession(e) \/ VerifyTOTP(e) \/ FinishKey(e)
         \/ RefuseEnrol(e)
  PROVE  EnrollmentInv'
<1>1. /\ cred \in [Methods -> [id: 0 .. MaxRows, done: BOOLEAN]]
      /\ enrolling \in [Enrollers -> EnrolStep] /\ challenge \in BOOLEAN
      /\ verified \subseteq Ids /\ "totp" \in Methods /\ "webauthn" \in Methods
  BY DEF EnrollmentInv, EnrollmentTypeOK, EnrolStep, Methods
<1>2. \A m \in Methods : HasRow(m) => cred[m].id \in Ids
  BY <1>1, EnrollmentAssumption DEF HasRow, Ids
<1>3. NoEnrol \in EnrolStep /\ NoEnrol.pc = "idle"
  BY DEF EnrolStep, NoEnrol
<1>4. ASSUME NEW m \in Methods, Setup(e, m)
      PROVE  EnrollmentInv'
  <2>1. PICK s : s = [pc |-> "store", method |-> m, issue |-> ~HasCompleted(cred)]
    OBVIOUS
  <2>2. s.pc = "store" /\ s.issue = ~HasCompleted(cred) /\ s \in EnrolStep
    BY <2>1 DEF EnrolStep, HasCompleted
  <2>3. Uncodes(s) => hasCodes \/ stripped
    BY <2>2 DEF EnrollmentInv, RowsMade, RowsHaveCodes, HasCompleted, Uncodes
  <2>4. QED BY <1>1, <1>4, <2>1, <2>2, <2>3, RequestGoes DEF Setup
<1>5. ASSUME NEW m \in Methods, ReadCredential(e, m)
      PROVE  EnrollmentInv'
  <2>1. PICK s : s = [pc |-> "remove", method |-> m, id |-> cred[m].id]
    OBVIOUS
  <2>2. s.pc = "remove" /\ s \in EnrolStep
    BY <1>2, <1>5, <2>1 DEF EnrolStep, ReadCredential
  <2>3. QED BY <1>1, <1>5, <2>1, <2>2, RequestGoes DEF ReadCredential, Uncodes
<1>6. ASSUME Resume(e) \/ RegenerateBackupCodes(e) \/ ResumeKey(e)
      PROVE  EnrollmentInv'
  <2>1. PICK s : s.pc \in {"reissue", "session"} /\ s \in EnrolStep /\ Proceeds(e, s)
    BY <1>6 DEF Resume, RegenerateBackupCodes, ResumeKey, EnrolStep
  <2>2. UNCHANGED <<cred, hasCodes, challenge, rows, verified, overlapped, stripped>>
    BY <1>6 DEF Resume, RegenerateBackupCodes, ResumeKey
  <2>3. QED BY <1>1, <2>1, <2>2, RequestGoes DEF Uncodes
<1>7. CASE SaveWebAuthnSession(e)
  BY <1>1, <1>3, <1>7, RequestGoes DEF SaveWebAuthnSession, Uncodes
<1>8. CASE VerifyTOTP(e)
  <2>1. PICK s : s = [pc |-> "enable"]
    OBVIOUS
  <2>2. s.pc = "enable" /\ s \in EnrolStep
    BY <2>1 DEF EnrolStep
  <2>3. cred["totp"].id \in Ids
    BY <1>1, <1>2, <1>8 DEF VerifyTOTP, PendingRow
  <2>4. QED BY <1>1, <1>8, <2>1, <2>2, <2>3, RequestGoes DEF VerifyTOTP, Uncodes
<1>9. CASE FinishKey(e)
  <2>1. challenge' = FALSE /\ UNCHANGED <<cred, hasCodes, rows, overlapped, stripped>>
    BY <1>9 DEF FinishKey
  <2>2. CASE /\ PendingRow("webauthn")
             /\ verified' = verified \cup {cred["webauthn"].id}
             /\ Proceeds(e, [pc |-> "save", id |-> cred["webauthn"].id])
    <3>1. PICK s : s = [pc |-> "save", id |-> cred["webauthn"].id]
      OBVIOUS
    <3>2. cred["webauthn"].id \in Ids
      BY <1>1, <1>2, <2>2 DEF PendingRow
    <3>3. s.pc = "save" /\ s.id = cred["webauthn"].id /\ s \in EnrolStep
      BY <3>1, <3>2 DEF EnrolStep
    <3>4. QED BY <1>1, <2>1, <2>2, <3>1, <3>2, <3>3, RequestGoes DEF Uncodes
  <2>3. CASE UNCHANGED <<verified, enrolling>>
    <3>1. PICK s \in EnrolStep : s = enrolling[e]
      BY <1>1
    <3>2. Proceeds(e, s)
      BY <1>1, <2>3, <3>1 DEF Proceeds
    <3>3. s.pc = "idle"
      BY <1>3, <1>9, <3>1 DEF FinishKey
    <3>4. QED BY <1>1, <2>1, <2>3, <3>2, <3>3, RequestGoes DEF Uncodes
  <2>4. QED BY <1>9, <2>2, <2>3 DEF FinishKey
<1>10. CASE RefuseEnrol(e)
  BY <1>1, <1>3, <1>10, RequestGoes DEF RefuseEnrol, Uncodes
<1>11. QED BY <1>4, <1>5, <1>6, <1>7, <1>8, <1>9, <1>10

LEMMA RowsMadeKeep ==
  ASSUME EnrollmentInv, NEW e \in Enrollers,
         StoreSetup(e) \/ \E m \in Methods : ResetMFAMethod(e, m)
  PROVE  EnrollmentInv'
<1>1. enrolling \in [Enrollers -> EnrolStep]
  BY DEF EnrollmentInv, EnrollmentTypeOK, EnrolStep
<1>2. NoEnrol \in EnrolStep /\ NoEnrol.pc = "idle"
  BY DEF EnrolStep, NoEnrol
<1>3. CASE StoreSetup(e)
  <2>1. PICK s \in EnrolStep : s = enrolling[e] /\ s.pc = "store"
    BY <1>1, <1>3 DEF StoreSetup
  <2>2. s.method \in Methods /\ s.issue \in BOOLEAN
    BY <2>1, EnrolKinds
  <2>3. UNCHANGED <<challenge, verified>> /\ challenge \in BOOLEAN /\ verified \subseteq Ids
    BY <1>3 DEF StoreSetup, EnrollmentInv, EnrollmentTypeOK
  <2>4. CASE HasRow(s.method)
    <3>1. Proceeds(e, NoEnrol) /\ UNCHANGED <<cred, hasCodes, rows, overlapped, stripped>>
      BY <1>3, <2>1, <2>4 DEF StoreSetup
    <3>2. QED BY <1>2, <2>3, <3>1, RequestGoes DEF Uncodes
  <2>5. CASE ~HasRow(s.method)
    <3>0. PICK t : t = IF s.method = "webauthn" THEN [pc |-> "session"] ELSE NoEnrol
      OBVIOUS
    <3>1. t \in EnrolStep /\ t.pc \in {"idle", "session"}
      <4>1. CASE s.method = "webauthn"
        BY <3>0, <4>1 DEF EnrolStep
      <4>2. CASE s.method # "webauthn"
        BY <1>2, <3>0, <4>2
      <4>3. QED BY <4>1, <4>2
    <3>2. Insert(s.method, s.issue) /\ Proceeds(e, t)
      BY <1>3, <2>1, <2>5, <3>0 DEF StoreSetup
    <3>3. ~s.issue => hasCodes \/ stripped
      BY <2>1 DEF EnrollmentInv, RowsHaveCodes, Uncodes
    <3>4. /\ enrolling' \in [Enrollers -> EnrolStep]
          /\ \A f \in Enrollers : \/ enrolling'[f] = enrolling[f]
                                  \/ enrolling'[f].pc \in {"idle", "session"}
      BY <1>1, <3>1, <3>2 DEF Proceeds
    <3>5. QED BY <2>2, <2>3, <3>2, <3>3, <3>4, RowInserted
  <2>6. QED BY <2>4, <2>5
<1>4. ASSUME NEW m \in Methods, ResetMFAMethod(e, m)
      PROVE  EnrollmentInv'
  <2>1. Insert(m, TRUE) /\ UNCHANGED <<challenge, enrolling, verified>>
    BY <1>4 DEF ResetMFAMethod
  <2>2. QED BY <1>1, <2>1, RowInserted
<1>5. QED BY <1>3, <1>4

LEMMA CodesStored ==
  ASSUME EnrollmentInv, NEW e \in Enrollers, StoreBackupCodes(e)
  PROVE  EnrollmentInv'
<1>1. NoEnrol \in EnrolStep /\ NoEnrol.pc = "idle"
  BY DEF EnrolStep, NoEnrol
<1>2. /\ enrolling' \in [Enrollers -> EnrolStep]
      /\ \A f \in Enrollers : enrolling'[f] = enrolling[f] \/ enrolling'[f].pc = "idle"
  BY <1>1 DEF StoreBackupCodes, Proceeds, EnrollmentInv, EnrollmentTypeOK, EnrolStep
<1>3. EnrollmentTypeOK'
  BY <1>2 DEF StoreBackupCodes, EnrollmentInv, EnrollmentTypeOK, EnrolStep
<1>4. RowsMade' /\ EnablesKnown' /\ EnabledWasVerified' /\ RowsHaveCodes'
  BY <1>2 DEF StoreBackupCodes, EnrollmentInv, RowsMade, EnablesKnown, HasRow,
              EnabledWasVerified, RowsHaveCodes
<1>5. QED BY <1>3, <1>4 DEF EnrollmentInv

\* A factor is completed: what is enabled was verified.
LEMMA FactorEnabled ==
  ASSUME EnrollmentInv, NEW e \in Enrollers, EnableTOTP(e) \/ SaveKey(e)
  PROVE  EnrollmentInv'
<1>1. /\ cred \in [Methods -> [id: 0 .. MaxRows, done: BOOLEAN]]
      /\ enrolling \in [Enrollers -> EnrolStep] /\ challenge \in BOOLEAN
      /\ "totp" \in Methods /\ "webauthn" \in Methods
  BY DEF EnrollmentInv, EnrollmentTypeOK, EnrolStep, Methods
<1>2. NoEnrol \in EnrolStep /\ NoEnrol.pc = "idle"
  BY DEF EnrolStep, NoEnrol
<1>3. /\ enrolling' \in [Enrollers -> EnrolStep]
      /\ \A f \in Enrollers : enrolling'[f] = enrolling[f] \/ enrolling'[f].pc = "idle"
  BY <1>1, <1>2 DEF EnableTOTP, SaveKey, Proceeds
<1>4. /\ UNCHANGED <<hasCodes, rows, verified, overlapped, stripped>>
      /\ challenge' \in BOOLEAN
  BY <1>1 DEF EnableTOTP, SaveKey
<1>5. ASSUME NEW m \in Methods
      PROVE  /\ cred'[m].id = cred[m].id /\ cred'[m].done \in BOOLEAN
             /\ cred'[m] \in [id: 0 .. MaxRows, done: BOOLEAN]
             /\ cred'[m].done =>
                  \/ cred[m].done
                  \/ /\ HasRow(m)
                     /\ \/ cred[m].id \in verified
                        \/ m = "totp" /\ cred[m].id \in overlapped
  <2>1. CASE EnableTOTP(e)
    <3>1. PICK done \in BOOLEAN : done = HasRow("totp")
      BY DEF HasRow
    <3>2. cred' = [cred EXCEPT !["totp"].done = done] /\ enrolling[e].pc = "enable"
      BY <2>1, <3>1 DEF EnableTOTP
    <3>3. done => cred["totp"].id \in verified \/ cred["totp"].id \in overlapped
      BY <3>1, <3>2 DEF EnrollmentInv, EnablesKnown
    <3>4. CASE m = "totp"
      <4>1. cred'[m] = [cred[m] EXCEPT !.done = done]
        BY <1>1, <3>2, <3>4
      <4>2. /\ cred'[m].id = cred[m].id /\ cred'[m].done = done
            /\ cred'[m] \in [id: 0 .. MaxRows, done: BOOLEAN]
        BY <1>1, <4>1
      <4>3. QED BY <3>1, <3>3, <3>4, <4>2
    <3>5. CASE m # "totp"
      BY <1>1, <3>2, <3>5
    <3>6. QED BY <3>4, <3>5
  <2>2. CASE SaveKey(e)
    <3>1. PICK s \in EnrolStep : s = enrolling[e] /\ s.pc = "save"
      BY <1>1, <2>2 DEF SaveKey
    <3>2. s.id \in Ids /\ s.id \in verified
      BY <3>1, EnrolKinds DEF EnrollmentInv, RowsMade
    <3>3. PICK done \in BOOLEAN : done = (cred["webauthn"].done \/ SavedRow(s.id))
      BY <1>1 DEF SavedRow
    <3>4. cred' = [cred EXCEPT !["webauthn"].done = done]
      BY <1>1, <2>2, <3>1, <3>3 DEF SaveKey
    <3>5. SavedRow(s.id) => cred["webauthn"].id \in verified /\ HasRow("webauthn")
      BY <3>2, EnrollmentAssumption DEF SavedRow, HasRow, Ids
    <3>6. CASE m = "webauthn"
      <4>1. cred'[m] = [cred[m] EXCEPT !.done = done]
        BY <1>1, <3>4, <3>6
      <4>2. /\ cred'[m].id = cred[m].id /\ cred'[m].done = done
            /\ cred'[m] \in [id: 0 .. MaxRows, done: BOOLEAN]
        BY <1>1, <4>1
      <4>3. QED BY <3>3, <3>5, <3>6, <4>2
    <3>7. CASE m # "webauthn"
      BY <1>1, <3>4, <3>7
    <3>8. QED BY <3>6, <3>7
  <2>3. QED BY <2>1, <2>2
<1>6. cred' \in [Methods -> [id: 0 .. MaxRows, done: BOOLEAN]]
  <2>1. \E f : cred' = [m \in Methods |-> f[m]]
    BY <1>1 DEF EnableTOTP, SaveKey
  <2>2. QED BY <1>5, <2>1
<1>7. EnrollmentTypeOK'
  BY <1>3, <1>4, <1>6 DEF EnrollmentInv, EnrollmentTypeOK, EnrolStep
<1>8. RowsMade'
  BY <1>3, <1>4, <1>5 DEF EnrollmentInv, RowsMade, HasRow
<1>9. EnablesKnown'
  BY <1>1, <1>3, <1>4, <1>5 DEF EnrollmentInv, EnablesKnown, HasRow
<1>10. EnabledWasVerified'
  BY <1>4, <1>5 DEF EnrollmentInv, EnabledWasVerified
<1>11. RowsHaveCodes'
  BY <1>3, <1>4, <1>5 DEF EnrollmentInv, RowsHaveCodes, HasRow, Uncodes
<1>12. QED BY <1>7, <1>8, <1>9, <1>10, <1>11 DEF EnrollmentInv

\* CeremonyRows go, and the codes with the last completed factor.
LEMMA RowsGo ==
  ASSUME EnrollmentInv, NEW c \in [Methods -> [id: 0 .. MaxRows, done: BOOLEAN]],
         \A m \in Methods : c[m] = cred[m] \/ c[m] = NoCred,
         cred' = c,
         \/ UNCHANGED <<hasCodes, stripped>>
         \/ ~HasCompleted(c) /\ DeleteCodes(c),
         enrolling' \in [Enrollers -> EnrolStep],
         \A e \in Enrollers : enrolling'[e] = enrolling[e] \/ enrolling'[e].pc = "idle",
         UNCHANGED <<challenge, rows, verified, overlapped>>
  PROVE  EnrollmentInv'
<1>1. NoCred.id = 0 /\ NoCred.done = FALSE
  BY DEF NoCred
<1>2. hasCodes' \in BOOLEAN /\ stripped' \in BOOLEAN
  BY DEF EnrollmentInv, EnrollmentTypeOK, DeleteCodes, Uncoded
<1>3. EnrollmentTypeOK'
  BY <1>2 DEF EnrollmentInv, EnrollmentTypeOK, EnrolStep
<1>4. RowsMade' /\ EnablesKnown' /\ EnabledWasVerified'
  BY <1>1 DEF EnrollmentInv, RowsMade, EnablesKnown, EnabledWasVerified, HasRow, Methods
<1>5. RowsHaveCodes'
  <2>1. CASE UNCHANGED <<hasCodes, stripped>>
    BY <1>1, <2>1 DEF EnrollmentInv, RowsHaveCodes, HasRow, Uncodes
  <2>2. CASE ~HasCompleted(c) /\ DeleteCodes(c)
    <3>1. SUFFICES ASSUME \/ \E m \in Methods : HasRow(m)'
                          \/ \E e \in Enrollers : Uncodes(enrolling[e])'
                   PROVE  Uncoded(c)
      BY <2>2 DEF RowsHaveCodes, DeleteCodes
    <3>2. QED BY <2>2, <3>1 DEF HasRow, Uncodes, Uncoded, HasCompleted
  <2>3. QED BY <2>1, <2>2
<1>6. QED BY <1>3, <1>4, <1>5 DEF EnrollmentInv

LEMMA RemovalsKeep ==
  ASSUME EnrollmentInv,
         AdminFullResetUserMFA \/ \E e \in Enrollers : RemoveCredential(e)
  PROVE  EnrollmentInv'
<1>1. /\ cred \in [Methods -> [id: 0 .. MaxRows, done: BOOLEAN]]
      /\ enrolling \in [Enrollers -> EnrolStep]
      /\ NoCred \in [id: 0 .. MaxRows, done: BOOLEAN] /\ NoCred.done = FALSE
      /\ NoEnrol \in EnrolStep /\ NoEnrol.pc = "idle"
  BY EnrollmentAssumption
  DEF EnrollmentInv, EnrollmentTypeOK, EnrolStep, NoCred, NoEnrol
<1>2. CASE AdminFullResetUserMFA
  <2>1. PICK c \in [Methods -> [id: 0 .. MaxRows, done: BOOLEAN]] :
               c = [m \in Methods |-> NoCred]
    BY <1>1
  <2>2. \A m \in Methods : c[m] = NoCred
    BY <2>1
  <2>3. cred' = c /\ UNCHANGED <<challenge, enrolling, rows, verified, overlapped>>
    BY <1>2, <2>1 DEF AdminFullResetUserMFA
  <2>4. ~HasCompleted(c) /\ DeleteCodes(c)
    BY <1>1, <1>2, <2>2, <2>3 DEF AdminFullResetUserMFA, HasCompleted, DeleteCodes, Uncoded
  <2>5. QED BY <1>1, <2>2, <2>3, <2>4, RowsGo
<1>3. ASSUME NEW e \in Enrollers, RemoveCredential(e)
      PROVE  EnrollmentInv'
  <2>1. PICK s \in EnrolStep : s = enrolling[e] /\ s.pc = "remove"
    BY <1>1, <1>3 DEF RemoveCredential
  <2>2. s.method \in Methods
    BY <2>1, EnrolKinds
  <2>3. PICK c : c = IF cred[s.method].id = s.id
                     THEN [cred EXCEPT ![s.method] = NoCred] ELSE cred
    OBVIOUS
  <2>4. /\ c \in [Methods -> [id: 0 .. MaxRows, done: BOOLEAN]]
        /\ \A m \in Methods : c[m] = cred[m] \/ c[m] = NoCred
    BY <1>1, <2>2, <2>3
  <2>5. /\ cred' = c
        /\ \/ ~HasCompleted(c) /\ DeleteCodes(c)
           \/ UNCHANGED <<hasCodes, stripped>>
        /\ Proceeds(e, NoEnrol) /\ UNCHANGED <<challenge, rows, verified, overlapped>>
    BY <1>3, <2>1, <2>3 DEF RemoveCredential, CodesGo
  <2>6. /\ enrolling' \in [Enrollers -> EnrolStep]
        /\ \A f \in Enrollers : enrolling'[f] = enrolling[f] \/ enrolling'[f].pc = "idle"
    BY <1>1, <2>5 DEF Proceeds
  <2>7. QED BY <2>4, <2>5, <2>6, RowsGo
<1>4. QED BY <1>2, <1>3

LEMMA CeremonyLost ==
  ASSUME EnrollmentInv, LoseCeremony
  PROVE  EnrollmentInv'
<1>1. /\ enrolling \in [Enrollers -> EnrolStep]
      /\ NoEnrol \in EnrolStep /\ NoEnrol.pc = "idle"
  BY DEF EnrollmentInv, EnrollmentTypeOK, EnrolStep, NoEnrol
<1>2. /\ enrolling' \in [Enrollers -> EnrolStep]
      /\ \A f \in Enrollers : enrolling'[f] = enrolling[f] \/ enrolling'[f].pc = "idle"
  BY <1>1 DEF LoseCeremony
<1>3. EnrollmentTypeOK'
  BY <1>2 DEF LoseCeremony, EnrollmentInv, EnrollmentTypeOK, EnrolStep
<1>4. RowsMade' /\ EnablesKnown' /\ EnabledWasVerified' /\ RowsHaveCodes'
  BY <1>2 DEF LoseCeremony, EnrollmentInv, RowsMade, EnablesKnown, HasRow,
              EnabledWasVerified, RowsHaveCodes, Uncodes
<1>5. QED BY <1>3, <1>4 DEF EnrollmentInv

LEMMA EnrollmentKeeps == EnrollmentInv /\ [EnrollmentNext]_enrollmentVars => EnrollmentInv'
<1>1. SUFFICES ASSUME EnrollmentInv, [EnrollmentNext]_enrollmentVars
               PROVE  EnrollmentInv'
  OBVIOUS
<1>2. CASE UNCHANGED enrollmentVars
  BY <1>1, <1>2
  DEF enrollmentVars, EnrollmentInv, EnrollmentTypeOK, RowsMade, EnablesKnown, HasRow,
      EnabledWasVerified, RowsHaveCodes, Uncodes
<1>3. CASE EnrollmentNext
  BY <1>1, <1>3, EnrolBegins, RowsMadeKeep, CodesStored, FactorEnabled, RemovalsKeep,
     CeremonyLost
  DEF EnrollmentNext
<1>4. QED BY <1>1, <1>2, <1>3

LEMMA EnrollmentInvariant == EnrollmentSpec => []EnrollmentInv
  BY InitEnrollment, EnrollmentKeeps, PTL DEF EnrollmentSpec

(* CeremonyRows, requests and histories of a user's factors keep their types, for  *)
(* any number of requests and rows.                                        *)
THEOREM EnrollmentTypeCorrect == EnrollmentSpec => []EnrollmentTypeOK
<1>1. EnrollmentInv => EnrollmentTypeOK
  BY DEF EnrollmentInv
<1>2. QED BY <1>1, EnrollmentInvariant, PTL

(* Whatever requests to enrol, reset and remove factors overlap: a factor  *)
(* that is enabled is the one that was verified, but for the one           *)
(* overlap EnabledWasVerified names, and whoever has one has backup codes  *)
(* unless they went with the last one (auth/mfa_setup.go:183, :383,        *)
(* mfa_admin_reset.go:113).                                                *)
THEOREM FactorsKept == EnrollmentSpec => []FactorsHold
<1>1. EnrollmentInv => FactorsHold
  <2>1. SUFFICES ASSUME EnrollmentInv, HasCompleted(cred)
                 PROVE  hasCodes \/ stripped
    BY DEF EnrollmentInv, FactorsHold, CodesForFactors
  <2>2. QED BY <2>1 DEF EnrollmentInv, RowsMade, RowsHaveCodes, HasCompleted
<1>2. QED BY <1>1, EnrollmentInvariant, PTL

-----------------------------------------------------------------------------
(***************************************************************************)
(* Lockout: the inductive invariant                                        *)
(***************************************************************************)

CheckStep ==
  {NoCheck} \cup [pc: {"verify", "right", "wrong"}, at: Clock]
            \cup [pc: {"count"}, at: Clock, row: Lock]

\* A row counts no more failures than fun has from the minute it began; it did
\* not begin after m.
Backed(rec, fun, m) ==
  rec.start # 0 =>
    rec.start <= m /\ rec.count <= Total(fun, rec.start .. MaxClock)

Here(v) == checks[v].pc = "count"

\* The row that v is about to write.
RowToWrite(v) == Counted(checks[v].row, checks[v].at)

RowsBacked ==
  /\ Backed(lock, wrong, clock)
  /\ \A v \in Verifiers : checks[v].pc # "idle" => checks[v].at <= clock
  /\ \A v \in Verifiers : Here(v) => Backed(RowToWrite(v), wrong, clock)
  /\ since <= Total(wrong, Clock)
  /\ Total(wrong, Clock) <= MaxWrong

\* Unless the count was raced for, one request at most is about to write it,
\* from the row as it is.
Unraced ==
  IF raced THEN since = 0
  ELSE /\ \A v \in Verifiers :
            Here(v) => /\ checks[v].row = lock
                       /\ since = RowToWrite(v).count
                       /\ \A u \in Verifiers : Here(u) => u = v
       /\ (\A v \in Verifiers : ~Here(v)) => lock.count = since

\* The requests that passed checkMFALockout in the window of the row and have
\* not counted yet.
Inside == {v \in Verifiers : /\ checks[v].pc \notin {"idle", "count"}
                             /\ InWindow(lock, checks[v].at)}

FewInside == ~raced /\ since >= Hard =>
  since + Cardinality(Inside) <= Hard + Cardinality(Verifiers) - 1

LockoutInv ==
  /\ LockoutTypeOK
  /\ RowsBacked
  /\ Unraced
  /\ FewInside

LEMMA CheckKinds ==
  ASSUME NEW s \in CheckStep
  PROVE  /\ s.pc \in {"idle", "verify", "right", "wrong", "count"}
         /\ s.pc = "idle" <=> s = NoCheck
         /\ s.pc # "idle" => s.at \in Clock
         /\ s.pc = "count" => s.row \in Lock
         /\ s.pc \in {"verify", "right", "wrong"} =>
              s \in [pc: {"verify", "right", "wrong"}, at: Clock]
  BY DEF CheckStep, NoCheck

LEMMA LockoutTypes ==
  ASSUME LockoutTypeOK
  PROVE  /\ clock \in Nat /\ clock >= 1 /\ clock <= MaxClock /\ MaxClock \in Nat
         /\ lock \in Lock /\ since \in Nat /\ raced \in BOOLEAN
         /\ checks \in [Verifiers -> CheckStep]
         /\ wrong \in [Clock -> Nat]
         /\ Hard \in Nat \ {0} /\ LockWindow \in Nat /\ MaxWrong \in Nat
  BY LockoutAssumption DEF LockoutTypeOK, CheckStep, Clock, Wrongs

\* What a request does changes no other.
LEMMA ToMoves ==
  ASSUME LockoutTypeOK, NEW v \in Verifiers, NEW s, To(v, s)
  PROVE  /\ checks'[v] = s
         /\ \A u \in Verifiers : u # v => checks'[u] = checks[u]
         /\ s \in CheckStep => checks' \in [Verifiers -> CheckStep]
  BY DEF LockoutTypeOK, CheckStep, To

LEMMA FromFinite ==
  ASSUME NEW t \in Nat, MaxClock \in Nat, t # 0
  PROVE  t .. MaxClock \in SUBSET Clock /\ IsFiniteSet(t .. MaxClock)
  BY FS_Interval DEF Clock

LEMMA ClockFinite == IsFiniteSet(Clock) /\ Clock \in SUBSET Clock
  BY LockoutAssumption, FS_Interval DEF Clock

LEMMA FromIsTotal ==
  ASSUME NEW t
  PROVE  WrongFrom(t) = Total(wrong, t .. MaxClock)
  BY FoldIsTotal DEF WrongFrom

LEMMA FailuresBump ==
  ASSUME NEW m \in Clock,
         NEW fun \in [Clock -> Nat], NEW g \in [Clock -> Nat],
         g[m] = fun[m] + 1, \A t \in Clock : t # m => g[t] = fun[t]
  PROVE  Total(g, Clock) = Total(fun, Clock) + 1 /\ Total(fun, Clock) \in Nat
  BY ClockFinite, TotalBump, TotalNat

\* As one more failure is counted at m, the rows that were backed are, and so
\* is the row that counts it.
LEMMA BackedMore ==
  ASSUME MaxClock \in Nat, NEW m \in Clock,
         NEW fun \in [Clock -> Nat], NEW g \in [Clock -> Nat],
         g[m] = fun[m] + 1, \A t \in Clock : t # m => g[t] = fun[t],
         NEW rec \in [count: Nat, start: 0 .. MaxClock, last: 0 .. MaxClock],
         Backed(rec, fun, m)
  PROVE  /\ Backed(rec, g, m)
         /\ \A t \in Clock : t <= m => Backed(Counted(rec, t), g, m)
<1>1. ASSUME NEW t \in Nat, t # 0, t <= m
      PROVE  /\ Total(g, t .. MaxClock) = Total(fun, t .. MaxClock) + 1
             /\ Total(fun, t .. MaxClock) \in Nat
  <2>1. PICK S : S = t .. MaxClock
    OBVIOUS
  <2>2. S \in SUBSET Clock /\ IsFiniteSet(S)
    BY <1>1, <2>1, FromFinite
  <2>3. m \in S
    BY <1>1, <2>1 DEF Clock
  <2>4. \A y \in S : y # m => g[y] = fun[y]
    BY <2>2
  <2>5. Total(g, S) = Total(fun, S) + 1
    BY <2>2, <2>3, <2>4, TotalBump
  <2>6. Total(fun, S) \in Nat
    BY <2>2, TotalNat
  <2>7. QED BY <2>1, <2>5, <2>6
<1>2. rec.start \in Nat /\ rec.count \in Nat /\ m \in Nat
  BY DEF Clock
<1>3. Backed(rec, g, m)
  BY <1>1, <1>2 DEF Backed
<1>4. ASSUME NEW t \in Clock, t <= m
      PROVE  Backed(Counted(rec, t), g, m)
  <2>1. t \in Nat /\ t # 0
    BY DEF Clock
  <2>2. CASE InWindow(rec, t)
    <3>1. /\ Counted(rec, t).count = rec.count + 1
          /\ Counted(rec, t).start = rec.start /\ rec.start # 0
      BY <2>2 DEF Counted, InWindow
    <3>2. QED BY <1>1, <1>2, <3>1 DEF Backed
  <2>3. CASE ~InWindow(rec, t)
    <3>1. Counted(rec, t).count = 1 /\ Counted(rec, t).start = t
      BY <2>3 DEF Counted
    <3>2. QED BY <1>1, <1>4, <2>1, <3>1 DEF Backed
  <2>4. QED BY <2>2, <2>3
<1>5. QED BY <1>3, <1>4

\* A row that is backed counts no more failures than there are.
LEMMA BackedBounded ==
  ASSUME LockoutTypeOK, RowsBacked, NEW rec, rec.start \in 0 .. MaxClock,
         rec.start # 0, rec.count \in Nat, Backed(rec, wrong, clock)
  PROVE  rec.count \in Wrongs
<1>1. PICK S : S = rec.start .. MaxClock
  OBVIOUS
<1>2. wrong \in [Clock -> Nat] /\ MaxClock \in Nat /\ MaxWrong \in Nat
  BY LockoutTypes
<1>3. S \in SUBSET Clock /\ IsFiniteSet(S)
  BY <1>1, <1>2, FromFinite
<1>4. Total(wrong, S) <= Total(wrong, Clock) /\ Total(wrong, S) \in Nat
  BY <1>2, <1>3, ClockFinite, TotalPart, TotalNat
<1>5. Total(wrong, Clock) \in Nat
  BY <1>2, ClockFinite, TotalNat
<1>6. rec.count <= Total(wrong, S) /\ Total(wrong, Clock) <= MaxWrong
  BY <1>1 DEF Backed, RowsBacked
<1>7. rec.count <= MaxWrong
  BY <1>2, <1>4, <1>5, <1>6
<1>8. QED BY <1>2, <1>7 DEF Wrongs

LEMMA NewRowTyped ==
  ASSUME LockoutTypeOK, RowsBacked, NEW v \in Verifiers, Here(v)
  PROVE  RowToWrite(v) \in Lock /\ RowToWrite(v).count \in Nat \ {0}
<1>1. PICK rec \in Lock : rec = checks[v].row
  BY LockoutTypes, CheckKinds DEF Here
<1>2. PICK t \in Clock : t = checks[v].at
  BY LockoutTypes, CheckKinds DEF Here
<1>3. RowToWrite(v) = Counted(rec, t) /\ Backed(Counted(rec, t), wrong, clock)
  BY <1>1, <1>2 DEF RowToWrite, RowsBacked
<1>4. rec \in [count: Nat, start: 0 .. MaxClock, last: 0 .. MaxClock]
  BY LockoutTypes DEF Lock, Wrongs
<1>5. t \in 1 .. MaxClock
  BY DEF Clock
<1>6. PICK w : w = Counted(rec, t)
  OBVIOUS
<1>7. CASE InWindow(rec, t)
  <2>1. w = [rec EXCEPT !.count = @ + 1, !.last = t]
    BY <1>6, <1>7 DEF Counted
  <2>a. w = [count |-> rec.count + 1, start |-> rec.start, last |-> t]
    BY <1>4, <2>1
  <2>b. rec.count \in Nat /\ rec.start \in 0 .. MaxClock /\ rec.start # 0
    BY <1>4, <1>7 DEF InWindow
  <2>c. t \in 0 .. MaxClock /\ rec.count + 1 \in Nat \ {0}
    BY <1>5, <2>b
  <2>2. /\ w \in [count: Nat \ {0}, start: 0 .. MaxClock, last: 0 .. MaxClock]
        /\ w.start # 0
    BY <2>a, <2>b, <2>c
  <2>3. w.count \in Wrongs
    BY <1>3, <1>6, <2>2, BackedBounded
  <2>4. QED BY <1>3, <1>6, <2>2, <2>3 DEF Lock
<1>8. CASE ~InWindow(rec, t)
  <2>1. w = [count |-> 1, start |-> t, last |-> t]
    BY <1>6, <1>8 DEF Counted
  <2>2. /\ w \in [count: Nat \ {0}, start: 0 .. MaxClock, last: 0 .. MaxClock]
        /\ w.start # 0
    BY <1>5, <2>1
  <2>3. w.count \in Wrongs
    BY <1>3, <1>6, <2>2, BackedBounded
  <2>4. QED BY <1>3, <1>6, <2>2, <2>3 DEF Lock
<1>9. QED BY <1>7, <1>8

LEMMA InitLockout == LockoutInit => LockoutInv
<1> SUFFICES ASSUME LockoutInit
             PROVE  LockoutInv
  OBVIOUS
<1>1. /\ \A v \in Verifiers : checks[v] = NoCheck
      /\ NoCheck.pc = "idle" /\ NoLock.start = 0 /\ NoLock.count = 0
      /\ clock = 1 /\ lock = NoLock /\ since = 0 /\ raced = FALSE
      /\ 0 \in Wrongs /\ 1 \in Clock /\ 0 \in 0 .. MaxClock
  BY LockoutAssumption DEF LockoutInit, NoCheck, NoLock, Wrongs, Clock
<1>2. LockoutTypeOK
  <2>1. lock \in Lock
    BY <1>1 DEF Lock, NoLock
  <2>2. wrong \in [Clock -> Wrongs]
    BY <1>1 DEF LockoutInit
  <2>3. checks = [v \in Verifiers |-> NoCheck]
    BY DEF LockoutInit
  <2>4. QED BY <1>1, <2>1, <2>2, <2>3 DEF LockoutTypeOK
<1>3. Total(wrong, Clock) = 0
  <2>1. DEFINE G == {T \in SUBSET Clock : Total(wrong, T) = 0}
  <2>2. ASSUME NEW T \in SUBSET Clock, \A U \in SUBSET T : U # T => U \in G
        PROVE  T \in G
    <3>1. CASE T = {}
      BY <3>1, TotalEmpty
    <3>2. CASE T # {}
      <4>1. PICK x \in T : TRUE
        BY <3>2
      <4>2. Total(wrong, T) = wrong[x] + Total(wrong, T \ {x})
        BY <1>2, LockoutTypes, ClockFinite, FS_Subset, TotalMore
      <4>3. Total(wrong, T \ {x}) = 0 /\ wrong[x] = 0
        BY <2>2, <4>1 DEF LockoutInit
      <4>4. QED BY <4>2, <4>3
    <3>3. QED BY <3>1, <3>2
  <2> HIDE DEF G
  <2>3. Clock \in G
    BY <2>2, ClockFinite, SubsetInduction
  <2>4. QED BY <2>3 DEF G
<1>4. RowsBacked
  BY <1>1, <1>3, LockoutAssumption DEF RowsBacked, Backed, Here
<1>5. Unraced
  BY <1>1 DEF Unraced, Here
<1>6. FewInside
  BY <1>1, LockoutAssumption DEF FewInside
<1>7. QED BY <1>2, <1>4, <1>5, <1>6 DEF LockoutInv

\* A step that counts no failure and after which every request is where it was,
\* is done, or has come in; the row it leaves is a backed one.
LEMMA RowsQuiet ==
  ASSUME LockoutTypeOK, RowsBacked, wrong' = wrong, clock' \in Nat, clock <= clock',
         Backed(lock', wrong, clock), lock'.start \in Nat,
         since' \in Nat, since' <= since,
         \A u \in Verifiers :
           \/ checks'[u] = checks[u]
           \/ checks'[u].pc = "idle"
           \/ checks'[u].pc # "count" /\ checks'[u].at \in Nat /\ checks'[u].at <= clock
  PROVE  RowsBacked'
<1>1. clock \in Nat /\ since \in Nat /\ Total(wrong, Clock) \in Nat
  BY LockoutTypes, ClockFinite, TotalNat
<1>2. Backed(lock', wrong', clock')
  BY <1>1 DEF Backed
<1>3. ASSUME NEW u \in Verifiers, checks'[u].pc # "idle"
      PROVE  checks'[u].at <= clock'
  <2>1. CASE checks'[u] = checks[u]
    <3>1. checks[u].at \in Nat /\ checks[u].at <= clock
      BY <1>3, <2>1, LockoutTypes, CheckKinds DEF RowsBacked, Clock
    <3>2. QED BY <1>1, <2>1, <3>1
  <2>2. CASE checks'[u] # checks[u]
    BY <1>1, <1>3, <2>2
  <2>3. QED BY <2>1, <2>2
<1>4. ASSUME NEW u \in Verifiers, checks'[u].pc = "count"
      PROVE  Backed(Counted(checks'[u].row, checks'[u].at), wrong', clock')
  <2>1. checks'[u] = checks[u] /\ Here(u)
    BY <1>4 DEF Here
  <2>2. RowToWrite(u) \in Lock /\ Backed(RowToWrite(u), wrong, clock)
    BY <2>1, NewRowTyped DEF RowsBacked
  <2>3. RowToWrite(u).start \in Nat
    BY <2>2, LockoutTypes DEF Lock
  <2>4. Backed(RowToWrite(u), wrong', clock')
    BY <1>1, <2>2, <2>3 DEF Backed
  <2>5. QED BY <2>1, <2>4 DEF RowToWrite
<1>5. since' <= Total(wrong', Clock) /\ Total(wrong', Clock) <= MaxWrong
  BY <1>1 DEF RowsBacked
<1>6. QED BY <1>2, <1>3, <1>4, <1>5 DEF RowsBacked, Here, RowToWrite

LEMMA InsideFinite ==
  /\ IsFiniteSet(Inside) /\ Cardinality(Inside) \in Nat
  /\ IsFiniteSet(Inside') /\ Cardinality(Inside') \in Nat
  /\ Cardinality(Verifiers) \in Nat
<1>1. Inside \in SUBSET Verifiers /\ Inside' \in SUBSET Verifiers
  BY DEF Inside
<1>2. QED BY <1>1, LockoutAssumption, FS_Subset, FS_CardinalityType

\* No request comes in to the window, and none is counted.
LEMMA FewKept ==
  ASSUME LockoutTypeOK, FewInside, raced' = raced, since' = since,
         Inside' \in SUBSET Inside
  PROVE  FewInside'
<1>1. Cardinality(Inside') <= Cardinality(Inside)
  BY InsideFinite, FS_Subset
<1>2. since \in Nat /\ Hard \in Nat
  BY LockoutTypes
<1>3. QED BY <1>1, <1>2, InsideFinite DEF FewInside

\* The failure that reaches mfaHardCapThreshold is that of a request which is
\* no longer inside.
LEMMA FewFirst ==
  ASSUME LockoutTypeOK, since' \in Nat, since' <= Hard,
         NEW v \in Verifiers, v \notin Inside'
  PROVE  FewInside'
<1>1. Inside' \in SUBSET (Verifiers \ {v})
  BY DEF Inside
<1>2. /\ IsFiniteSet(Verifiers \ {v})
      /\ Cardinality(Verifiers \ {v}) = Cardinality(Verifiers) - 1
  BY LockoutAssumption, FS_RemoveElement
<1>3. Cardinality(Inside') <= Cardinality(Verifiers) - 1
  BY <1>1, <1>2, FS_Subset
<1>4. Hard \in Nat
  BY LockoutTypes
<1>5. QED BY <1>3, <1>4, InsideFinite DEF FewInside

\* The requests between the read and the write, and the row, are as they were.
LEMMA UnracedKept ==
  ASSUME Unraced, UNCHANGED <<lock, since, raced>>,
         \A u \in Verifiers : /\ Here(u)' <=> Here(u)
                              /\ Here(u) => checks'[u] = checks[u]
  PROVE  Unraced'
  BY DEF Unraced, RowToWrite, Here

\* checkMFALockout lets nobody in to a window with mfaHardCapThreshold failures.
LEMMA EnterKeeps ==
  ASSUME LockoutInv, NEW v \in Verifiers, Enter(v)
  PROVE  LockoutInv'
<1> DEFINE s == [pc |-> "verify", at |-> clock]
<1> USE DEF LockoutInv
<1>1. /\ s \in CheckStep /\ s.pc = "verify" /\ s.at = clock
      /\ clock \in Clock /\ clock \in Nat
  BY DEF CheckStep, LockoutTypeOK, Clock
<1>2. To(v, s) /\ UNCHANGED <<clock, lock, wrong, since, raced>> /\ checks[v].pc = "idle"
  BY DEF Enter, NoCheck
<1> HIDE DEF s
<1>3. /\ checks'[v] = s /\ checks' \in [Verifiers -> CheckStep]
      /\ \A u \in Verifiers : u # v => checks'[u] = checks[u]
  BY <1>1, <1>2, ToMoves
<1>4. LockoutTypeOK'
  BY <1>2, <1>3 DEF LockoutTypeOK, CheckStep
<1>5. RowsBacked'
  <2>1. /\ Backed(lock, wrong, clock) /\ lock.start \in Nat /\ since \in Nat
        /\ clock <= clock /\ since <= since
    BY <1>1, LockoutTypes DEF RowsBacked, Lock
  <2>2. QED BY <1>1, <1>2, <1>3, <2>1, RowsQuiet
<1>6. Unraced'
  BY <1>1, <1>2, <1>3, UnracedKept DEF Here
<1>7. FewInside'
  <2>1. CASE ~InWindow(lock, clock)
    <3>1. Inside' \in SUBSET Inside
      BY <1>1, <1>2, <1>3, <2>1 DEF Inside
    <3>2. QED BY <1>2, <3>1, FewKept
  <2>2. CASE InWindow(lock, clock) /\ lock.count < Hard
    <3>1. CASE raced \/ since < Hard
      BY <1>2, <3>1, LockoutTypes DEF FewInside
    <3>2. CASE ~raced /\ ~(since < Hard)
      <4>1. PICK u \in Verifiers : Here(u)
        BY <2>2, <3>2 DEF Unraced
      <4>2. checks[u].row = lock /\ since = RowToWrite(u).count /\ u # v
        BY <1>2, <3>2, <4>1 DEF Unraced, Here
      <4>3. lock.count \in Nat /\ lock \in Lock
        BY LockoutTypes DEF Lock, Wrongs
      <4>4. RowToWrite(u).count \in {lock.count + 1, 1}
        BY <4>2, <4>3 DEF RowToWrite, Counted, Lock
      <4>5. since <= Hard
        BY <2>2, <4>2, <4>3, <4>4, LockoutTypes
      <4>6. u \notin Inside'
        BY <1>3, <4>1, <4>2 DEF Inside, Here
      <4>7. QED BY <1>2, <4>5, <4>6, FewFirst, LockoutTypes
    <3>3. QED BY <3>1, <3>2
  <2>3. CASE InWindow(lock, clock) /\ ~(lock.count < Hard)
    <3>1. lock.count \in Nat /\ lock.start \in Nat /\ Hard \in Nat /\ LockWindow \in Nat
      BY LockoutTypes DEF Lock, Wrongs
    <3>2. LockedUntil(lock, clock) = lock.start + LockWindow
      BY <2>3, <3>1 DEF LockedUntil
    <3>3. clock >= lock.start + LockWindow /\ clock - lock.start < LockWindow
      BY <2>3, <3>2 DEF Enter, InWindow
    <3>4. QED BY <1>1, <3>1, <3>3
  <2>4. QED BY <2>1, <2>2, <2>3
<1>8. QED BY <1>4, <1>5, <1>6, <1>7

LEMMA VerifyKeeps ==
  ASSUME LockoutInv, NEW v \in Verifiers, Verify(v)
  PROVE  LockoutInv'
<1> USE DEF LockoutInv
<1>1. PICK verdict \in {"right", "wrong"} : To(v, [checks[v] EXCEPT !.pc = verdict])
  BY DEF Verify
<1>2. PICK s : s = [checks[v] EXCEPT !.pc = verdict]
  OBVIOUS
<1>3. checks[v] \in [pc: {"verify", "right", "wrong"}, at: Clock] /\ checks[v].pc = "verify"
  BY LockoutTypes, CheckKinds DEF Verify
<1>4. /\ s.pc = verdict /\ s.at = checks[v].at
      /\ s \in CheckStep
  BY <1>2, <1>3 DEF CheckStep
<1>5. /\ checks'[v] = s /\ checks' \in [Verifiers -> CheckStep]
      /\ \A u \in Verifiers : u # v => checks'[u] = checks[u]
  BY <1>1, <1>2, <1>4, ToMoves
<1>6. UNCHANGED <<clock, lock, wrong, since, raced>>
  BY DEF Verify
<1>7. LockoutTypeOK'
  BY <1>5, <1>6 DEF LockoutTypeOK, CheckStep
<1>8. RowsBacked'
  <2>1. /\ Backed(lock, wrong, clock) /\ lock.start \in Nat /\ since \in Nat
        /\ clock \in Nat /\ clock <= clock /\ since <= since
    BY LockoutTypes DEF RowsBacked, Lock
  <2>2. s.pc # "count" /\ s.at \in Nat /\ s.at <= clock
    BY <1>3, <1>4 DEF RowsBacked, Clock
  <2>3. QED BY <1>5, <1>6, <2>1, <2>2, RowsQuiet
<1>9. Unraced'
  BY <1>3, <1>4, <1>5, <1>6, UnracedKept DEF Here
<1>10. FewInside'
  <2>1. Inside' \in SUBSET Inside
    BY <1>3, <1>4, <1>5, <1>6 DEF Inside
  <2>2. QED BY <1>6, <2>1, FewKept
<1>11. QED BY <1>7, <1>8, <1>9, <1>10

\* A failure: the request leaves those inside, and is the one at the row.
LEMMA FailureReadKeeps ==
  ASSUME LockoutInv, NEW v \in Verifiers, ReadFailures(v)
  PROVE  LockoutInv'
<1> DEFINE s == [pc |-> "count", at |-> checks[v].at, row |-> lock]
           more == IF InWindow(lock, checks[v].at) THEN since + 1 ELSE 1
<1> USE DEF LockoutInv
<1>1. /\ clock \in Nat /\ clock \in Clock /\ MaxClock \in Nat /\ MaxWrong \in Nat
      /\ wrong \in [Clock -> Nat] /\ lock \in Lock /\ since \in Nat
      /\ raced \in BOOLEAN /\ Hard \in Nat \ {0}
  BY LockoutTypes DEF LockoutTypeOK
<1>2. /\ checks[v].pc = "wrong" /\ checks[v].at \in Clock /\ checks[v].at <= clock
      /\ s \in CheckStep /\ s.pc = "count" /\ s.at = checks[v].at /\ s.row = lock
  BY LockoutTypes, CheckKinds DEF ReadFailures, RowsBacked, CheckStep
<1>3. /\ wrong' = [wrong EXCEPT ![clock] = @ + 1]
      /\ Race(Counting(v), more) /\ To(v, s) /\ UNCHANGED <<clock, lock>>
      /\ Total(wrong, Clock) < MaxWrong
  BY FromIsTotal DEF ReadFailures, Clock
<1>4. more \in Nat /\ more <= since + 1
  BY <1>1
<1> HIDE DEF s, more
<1>5. /\ checks'[v] = s /\ checks' \in [Verifiers -> CheckStep]
      /\ \A u \in Verifiers : u # v => checks'[u] = checks[u]
  BY <1>2, <1>3, ToMoves
<1>6. /\ raced' = (raced \/ Counting(v))
      /\ since' = IF raced' THEN 0 ELSE more
      /\ since' \in Nat /\ since' <= since + 1
  BY <1>1, <1>3, <1>4 DEF Race
<1>7. /\ wrong' \in [Clock -> Nat] /\ wrong'[clock] = wrong[clock] + 1
      /\ \A t \in Clock : t # clock => wrong'[t] = wrong[t]
  BY <1>1, <1>3
<1>8. Total(wrong', Clock) = Total(wrong, Clock) + 1 /\ Total(wrong, Clock) \in Nat
  BY <1>1, <1>7, FailuresBump
<1>9. RowsBacked'
  <2>1. lock \in [count: Nat, start: 0 .. MaxClock, last: 0 .. MaxClock]
    BY <1>1 DEF Lock, Wrongs
  <2>2. Backed(lock, wrong, clock)
    BY DEF RowsBacked
  <2>3. /\ Backed(lock, wrong', clock)
        /\ \A t \in Clock : t <= clock => Backed(Counted(lock, t), wrong', clock)
    BY <1>1, <1>7, <2>1, <2>2, BackedMore
  <2>4. ASSUME NEW u \in Verifiers, checks'[u].pc # "idle"
        PROVE  checks'[u].at <= clock
    BY <1>2, <1>5, <2>4 DEF RowsBacked
  <2>5. ASSUME NEW u \in Verifiers, checks'[u].pc = "count"
        PROVE  Backed(Counted(checks'[u].row, checks'[u].at), wrong', clock)
    <3>1. CASE u = v
      BY <1>2, <1>5, <2>3, <3>1
    <3>2. CASE u # v
      <4>1. checks'[u] = checks[u] /\ Here(u)
        BY <1>5, <2>5, <3>2 DEF Here
      <4>2. PICK rec \in Lock : rec = RowToWrite(u)
        BY <4>1, NewRowTyped
      <4>3. /\ rec \in [count: Nat, start: 0 .. MaxClock, last: 0 .. MaxClock]
            /\ Backed(rec, wrong, clock)
        BY <1>1, <4>1, <4>2 DEF Lock, Wrongs, RowsBacked
      <4>4. Backed(rec, wrong', clock)
        BY <1>1, <1>7, <4>3, BackedMore
      <4>5. QED BY <4>1, <4>2, <4>4 DEF RowToWrite
    <3>3. QED BY <3>1, <3>2
  <2>6. since' <= Total(wrong', Clock) /\ Total(wrong', Clock) <= MaxWrong
    <3>1. since <= Total(wrong, Clock)
      BY DEF RowsBacked
    <3>2. Total(wrong, Clock) < MaxWrong
      BY <1>3
    <3>3. since' \in Nat /\ since' <= since + 1 /\ since \in Nat /\ MaxWrong \in Nat
      BY <1>1, <1>6
    <3>4. QED BY <1>8, <3>1, <3>2, <3>3
  <2>7. QED BY <1>3, <2>3, <2>4, <2>5, <2>6 DEF RowsBacked, Here, RowToWrite
<1>10. LockoutTypeOK'
  <2>1. Total(wrong', Clock) <= MaxWrong /\ since' <= Total(wrong', Clock)
    BY <1>9 DEF RowsBacked
  <2>2. wrong' \in [Clock -> Wrongs]
    <3>1. \A t \in Clock : wrong'[t] <= Total(wrong', Clock)
      BY <1>7, ClockFinite, TotalAtLeast
    <3>2. \A t \in Clock : wrong'[t] \in Nat /\ wrong'[t] <= MaxWrong
      BY <1>1, <1>7, <1>8, <2>1, <3>1
    <3>3. \A t \in Clock : wrong'[t] \in Wrongs
      BY <1>1, <3>2 DEF Wrongs
    <3>4. QED BY <1>7, <3>3
  <2>3. since' \in Wrongs
    BY <1>1, <1>6, <1>8, <2>1 DEF Wrongs
  <2>4. raced' \in BOOLEAN
    BY <1>1, <1>6 DEF Counting
  <2>5. QED BY <1>1, <1>3, <1>5, <2>2, <2>3, <2>4 DEF LockoutTypeOK, CheckStep
<1>11. Unraced'
  <2>1. CASE raced'
    BY <1>6, <2>1 DEF Unraced
  <2>2. CASE ~raced'
    <3>1. ~raced /\ \A u \in Verifiers : ~Here(u)
      BY <1>2, <1>6, <2>2 DEF Counting, Here
    <3>2. lock.count = since /\ lock.count \in Nat
      BY <1>1, <3>1 DEF Unraced
    <3>3. \A u \in Verifiers : checks'[u].pc = "count" => u = v
      BY <1>5, <3>1 DEF Here
    <3>4. Counted(lock, checks[v].at).count = more
      BY <1>1, <3>2 DEF Counted, Lock, more
    <3>5. checks'[v].row = lock' /\ Counted(checks'[v].row, checks'[v].at).count = since'
      BY <1>2, <1>3, <1>5, <1>6, <2>2, <3>4
    <3>6. QED BY <1>2, <1>5, <2>2, <3>3, <3>5 DEF Unraced, Here, RowToWrite
  <2>3. QED BY <2>1, <2>2
<1>12. FewInside'
  <2>0. v \notin Inside'
    BY <1>2, <1>5 DEF Inside
  <2>1. CASE raced'
    BY <2>1 DEF FewInside
  <2>2. CASE ~raced' /\ since' <= Hard
    BY <1>6, <2>0, <2>2, FewFirst
  <2>3. CASE ~raced' /\ ~(since' <= Hard)
    <3>1. InWindow(lock, checks[v].at) /\ since' = since + 1
      BY <1>1, <1>6, <2>3 DEF more
    <3>2. v \in Inside /\ Inside' \in SUBSET (Inside \ {v})
      BY <1>2, <1>3, <1>5, <2>0, <3>1 DEF Inside
    <3>3. Cardinality(Inside \ {v}) = Cardinality(Inside) - 1 /\ IsFiniteSet(Inside \ {v})
      BY <3>2, InsideFinite, FS_RemoveElement
    <3>4. Cardinality(Inside') <= Cardinality(Inside) - 1
      BY <3>2, <3>3, FS_Subset
    <3>5. ~raced /\ since >= Hard
      BY <1>1, <1>6, <2>3, <3>1
    <3>6. since + Cardinality(Inside) <= Hard + Cardinality(Verifiers) - 1
      BY <3>5 DEF FewInside
    <3>7. QED BY <1>1, <3>1, <3>4, <3>6, InsideFinite DEF FewInside
  <2>4. QED BY <2>1, <2>2, <2>3
<1>13. QED BY <1>9, <1>10, <1>11, <1>12

LEMMA FailureWriteKeeps ==
  ASSUME LockoutInv, NEW v \in Verifiers, WriteFailure(v)
  PROVE  LockoutInv'
<1> USE DEF LockoutInv
<1>1. /\ clock \in Nat /\ clock <= clock /\ since \in Nat /\ since <= since
      /\ Hard \in Nat \ {0} /\ MaxClock \in Nat
  BY LockoutTypes
<1>2. /\ Here(v) /\ lock' = RowToWrite(v) /\ To(v, NoCheck)
      /\ UNCHANGED <<clock, wrong, since, raced>>
  BY DEF WriteFailure, Here, RowToWrite
<1>3. /\ NoCheck \in CheckStep /\ NoCheck.pc = "idle"
      /\ checks'[v] = NoCheck /\ checks' \in [Verifiers -> CheckStep]
      /\ \A u \in Verifiers : u # v => checks'[u] = checks[u]
  BY <1>2, ToMoves DEF CheckStep, NoCheck
<1>4. RowToWrite(v) \in Lock /\ Backed(RowToWrite(v), wrong, clock)
  BY <1>2, NewRowTyped DEF RowsBacked
<1>5. LockoutTypeOK'
  BY <1>2, <1>3, <1>4 DEF LockoutTypeOK, CheckStep
<1>6. RowsBacked'
  <2>1. RowToWrite(v).start \in Nat
    BY <1>1, <1>4 DEF Lock
  <2>2. QED BY <1>1, <1>2, <1>3, <1>4, <2>1, RowsQuiet
<1>7. Unraced'
  <2>1. CASE raced
    BY <1>2, <2>1 DEF Unraced
  <2>2. CASE ~raced
    <3>1. /\ since = RowToWrite(v).count
          /\ \A u \in Verifiers : Here(u) => u = v
      BY <1>2, <2>2 DEF Unraced
    <3>2. \A u \in Verifiers : checks'[u].pc # "count"
      BY <1>3, <3>1 DEF Here
    <3>3. QED BY <1>2, <2>2, <3>1, <3>2 DEF Unraced, Here
  <2>3. QED BY <2>1, <2>2
<1>8. FewInside'
  <2>0. v \notin Inside'
    BY <1>3 DEF Inside
  <2>1. CASE raced
    BY <1>2, <2>1 DEF FewInside
  <2>2. CASE ~raced /\ ~InWindow(checks[v].row, checks[v].at)
    <3>1. since = 1
      BY <1>2, <2>2 DEF Unraced, RowToWrite, Counted
    <3>2. QED BY <1>1, <1>2, <2>0, <3>1, FewFirst
  <2>3. CASE ~raced /\ InWindow(checks[v].row, checks[v].at)
    <3>1. PICK rec \in Lock : rec = lock /\ rec = checks[v].row
      BY <1>2, <2>3, LockoutTypes DEF Unraced
    <3>2. lock'.start = lock.start
      BY <1>2, <2>3, <3>1 DEF RowToWrite, Counted, Lock
    <3>3. Inside' \in SUBSET Inside
      BY <1>3, <3>2 DEF Inside, InWindow
    <3>4. QED BY <1>2, <3>3, FewKept
  <2>4. QED BY <2>1, <2>2, <2>3
<1>9. QED BY <1>5, <1>6, <1>7, <1>8

\* The row goes; a request that has read it is raced.
LEMMA ClearKeeps ==
  ASSUME LockoutInv, lock' = NoLock, UNCHANGED <<clock, wrong>>,
         checks' \in [Verifiers -> CheckStep],
         \A u \in Verifiers : checks'[u] = checks[u] \/ checks'[u].pc = "idle",
         NEW hit \in BOOLEAN, Race(hit, 0),
         ~hit => \A u \in Verifiers : ~Here(u)
  PROVE  LockoutInv'
<1> USE DEF LockoutInv
<1>1. /\ clock \in Nat /\ clock <= clock /\ since \in Nat /\ Hard \in Nat \ {0}
      /\ MaxWrong \in Nat /\ MaxClock \in Nat /\ raced \in BOOLEAN
  BY LockoutTypes
<1>2. since' = 0 /\ raced' \in BOOLEAN /\ (~raced' => \A u \in Verifiers : ~Here(u))
  BY <1>1 DEF Race
<1>3. NoLock \in Lock /\ NoLock.start = 0 /\ NoLock.count = 0
  BY <1>1 DEF Lock, NoLock, Wrongs
<1>4. LockoutTypeOK'
  BY <1>1, <1>2, <1>3 DEF LockoutTypeOK, CheckStep, Wrongs
<1>5. RowsBacked'
  <2>1. Backed(NoLock, wrong, clock) /\ 0 \in Nat /\ 0 <= since
    BY <1>1, <1>3 DEF Backed
  <2>2. QED BY <1>1, <1>2, <1>3, <2>1, RowsQuiet
<1>6. Unraced'
  BY <1>2, <1>3 DEF Unraced, Here
<1>7. FewInside'
  BY <1>1, <1>2 DEF FewInside
<1>8. QED BY <1>4, <1>5, <1>6, <1>7

LEMMA AbandonKeeps ==
  ASSUME LockoutInv, NEW v \in Verifiers, Abandon(v)
  PROVE  LockoutInv'
<1> USE DEF LockoutInv
<1>1. /\ clock \in Nat /\ clock <= clock /\ since \in Nat /\ since <= since
      /\ raced \in BOOLEAN /\ lock.start \in Nat /\ MaxWrong \in Nat
  BY LockoutTypes DEF Lock
<1>2. /\ Race(Here(v), since) /\ To(v, NoCheck) /\ UNCHANGED <<clock, lock, wrong>>
  BY DEF Abandon, Here
<1>3. /\ NoCheck \in CheckStep /\ NoCheck.pc = "idle"
      /\ checks'[v] = NoCheck /\ checks' \in [Verifiers -> CheckStep]
      /\ \A u \in Verifiers : u # v => checks'[u] = checks[u]
  BY <1>2, ToMoves DEF CheckStep, NoCheck
<1>4. /\ raced' = (raced \/ Here(v)) /\ raced' \in BOOLEAN
      /\ since' = IF raced' THEN 0 ELSE since
      /\ since' \in Wrongs /\ since' \in Nat /\ since' <= since
  BY <1>1, <1>2 DEF Race, Here, LockoutTypeOK, Wrongs
<1>5. LockoutTypeOK'
  BY <1>2, <1>3, <1>4 DEF LockoutTypeOK, CheckStep
<1>6. RowsBacked'
  <2>1. Backed(lock, wrong, clock)
    BY DEF RowsBacked
  <2>2. QED BY <1>1, <1>2, <1>3, <1>4, <2>1, RowsQuiet
<1>7. Unraced' /\ FewInside'
  <2>1. CASE raced'
    BY <1>4, <2>1 DEF Unraced, FewInside
  <2>2. CASE ~raced'
    <3>1. raced' = raced /\ ~Here(v) /\ since' = since
      BY <1>1, <1>4, <2>2
    <3>2. Unraced'
      BY <1>2, <1>3, <2>2, <3>1, UnracedKept DEF Here
    <3>3. Inside' \in SUBSET Inside
      BY <1>2, <1>3 DEF Inside
    <3>4. QED BY <2>2, <3>1, <3>2, <3>3, FewKept
  <2>3. QED BY <2>1, <2>2
<1>8. QED BY <1>5, <1>6, <1>7

LEMMA ClockKeeps ==
  ASSUME LockoutInv, TickClock
  PROVE  LockoutInv'
<1> USE DEF LockoutInv
<1>1. /\ clock \in Nat /\ since \in Nat /\ since <= since /\ lock.start \in Nat
      /\ MaxClock \in Nat /\ clock' = clock + 1 /\ clock' <= MaxClock
      /\ UNCHANGED <<lock, checks, wrong, since, raced>>
  BY LockoutTypes DEF TickClock, Lock
<1>2. LockoutTypeOK'
  BY <1>1 DEF LockoutTypeOK, Clock
<1>3. RowsBacked'
  <2>1. Backed(lock, wrong, clock) /\ clock <= clock' /\ clock' \in Nat
    BY <1>1 DEF RowsBacked
  <2>2. QED BY <1>1, <2>1, RowsQuiet
<1>4. Unraced'
  BY <1>1, UnracedKept DEF Here
<1>5. FewInside'
  <2>1. Inside' \in SUBSET Inside
    BY <1>1 DEF Inside
  <2>2. QED BY <1>1, <2>1, FewKept
<1>6. QED BY <1>2, <1>3, <1>4, <1>5

LEMMA NextKeepsLockout ==
  ASSUME LockoutInv, [LockoutNext]_lockoutVars
  PROVE  LockoutInv'
<1>1. ASSUME NEW v \in Verifiers, ClearFailures(v)
      PROVE  LockoutInv'
  <2>1. /\ lock' = NoLock /\ UNCHANGED <<clock, wrong>> /\ checks[v].pc = "right"
        /\ Race(Counting(v), 0) /\ To(v, NoCheck)
    BY <1>1 DEF ClearFailures
  <2>2. /\ NoCheck.pc = "idle" /\ checks'[v] = NoCheck
        /\ checks' \in [Verifiers -> CheckStep]
        /\ \A u \in Verifiers : u # v => checks'[u] = checks[u]
    BY <2>1, ToMoves DEF CheckStep, NoCheck, LockoutInv
  <2>3. Counting(v) \in BOOLEAN /\ (~Counting(v) => \A u \in Verifiers : ~Here(u))
    BY <2>1 DEF Counting, Here
  <2>4. QED BY <2>1, <2>2, <2>3, ClearKeeps
<1>2. CASE AdminReset
  <2>1. /\ lock' = NoLock /\ UNCHANGED <<clock, checks, wrong>>
        /\ Race(\E v \in Verifiers : Here(v), 0)
    BY <1>2 DEF AdminReset, Here
  <2>2. checks' \in [Verifiers -> CheckStep]
    BY <2>1, LockoutTypes DEF LockoutInv
  <2>3. PICK hit : hit = \E v \in Verifiers : Here(v)
    OBVIOUS
  <2>4. hit \in BOOLEAN /\ Race(hit, 0) /\ (~hit => \A u \in Verifiers : ~Here(u))
    BY <2>1, <2>3
  <2>5. QED BY <2>1, <2>2, <2>4, ClearKeeps
<1>3. CASE UNCHANGED lockoutVars
  BY <1>3 DEF lockoutVars, LockoutInv, LockoutTypeOK, RowsBacked, Unraced, Here, RowToWrite,
              FewInside, Inside
<1>4. QED
  BY <1>1, <1>2, <1>3, EnterKeeps, VerifyKeeps, FailureReadKeeps, FailureWriteKeeps, AbandonKeeps,
     ClockKeeps
  DEF LockoutNext

LEMMA LockoutInvariant == LockoutSpec => []LockoutInv
BY InitLockout, NextKeepsLockout, PTL DEF LockoutSpec

(* The rows of user_mfa_lockout and the counts of the history have the     *)
(* types they should, however many requests verify at one time.            *)
THEOREM LockoutTypeCorrect == LockoutSpec => []LockoutTypeOK
<1>1. LockoutInv => LockoutTypeOK
  BY DEF LockoutInv
<1>2. QED BY <1>1, LockoutInvariant, PTL

(* The row counts no failure that did not happen in its window, and all of *)
(* them unless it was raced for; and no more failures fit into one window  *)
(* than mfaHardCapThreshold and those of the other requests that verify at *)
(* the time - for any thresholds, window and number of requests            *)
(* (auth/mfa_lockout.go:35, :102, :156).                                   *)
THEOREM LockKept == LockoutSpec => []LockHolds
<1>1. ASSUME LockoutInv
      PROVE  LockHolds
  <2> USE <1>1 DEF LockoutInv
  <2>1. FailuresAddUp
    BY FromIsTotal DEF FailuresAddUp, RowsBacked, Backed, Unraced, Here
  <2>2. GuessesBounded
    <3>1. since \in Nat /\ Hard \in Nat \ {0} /\ raced \in BOOLEAN
      BY LockoutTypes
    <3>2. QED BY <3>1, InsideFinite DEF GuessesBounded, FewInside, Unraced
  <2>3. QED BY <2>1, <2>2 DEF LockHolds
<1>2. QED BY <1>1, LockoutInvariant, PTL

-----------------------------------------------------------------------------
(***************************************************************************)
(* The machines side by side.  A step of AccessSpec is a step of one of    *)
(* them and leaves the variables of the others alone, so each behaves as   *)
(* its own specification says.                                             *)
(***************************************************************************)

LEMMA AccessParts ==
  AccessSpec => /\ SessionsSpec /\ CodesSpec /\ LockoutSpec /\ EnrollmentSpec
                /\ LimitsSpec /\ AccountsSpec /\ Spec
<1>1. AccessInit => /\ SessionsInit /\ CodesInit /\ LockoutInit /\ EnrollmentInit
                    /\ LimitsInit /\ AccountsInit /\ Init
  BY DEF AccessInit
<1>2. [AccessNext]_AccessVars =>
        /\ [SessionsNext]_sessionsVars /\ [CodesNext]_codesVars
        /\ [LockoutNext]_lockoutVars /\ [EnrollmentNext]_enrollmentVars
        /\ [LimitsNext]_limitsVars /\ [AccountsNext]_accountsVars /\ [Next]_vars
  BY DEF AccessNext, AccessVars
<1>3. QED
  BY <1>1, <1>2, PTL
  DEF AccessSpec, SessionsSpec, CodesSpec, LockoutSpec, EnrollmentSpec, LimitsSpec,
      AccountsSpec, Spec

(* Whichever of the machines is at work, its variables have the types they *)
(* should.                                                                 *)
THEOREM AccessTypeCorrect == AccessSpec => []AccessTypeOK
<1>1. /\ SessionsTypeOK /\ CodesTypeOK /\ LockoutTypeOK /\ EnrollmentTypeOK
      /\ LimitsTypeOK /\ AccountsTypeOK /\ TypeOK
      => AccessTypeOK
  BY DEF AccessTypeOK
<1>2. QED
  BY <1>1, AccessParts, SessionsTypeCorrect, CodesTypeCorrect, LockoutTypeCorrect,
     EnrollmentTypeCorrect, LimitsTypeCorrect, AccountsTypeCorrect, TypeCorrect, PTL

(* The counter of failed codes and the lock, and the factors and codes of  *)
(* an enrolment, for any number of requests                                *)
(* (auth/mfa_lockout.go:35, handlers/mfa.go:90).                           *)
THEOREM MFAKept == AccessSpec => []MFAHolds
<1>1. LockHolds /\ FactorsHold => MFAHolds
  BY DEF MFAHolds
<1>2. QED BY <1>1, AccessParts, LockKept, FactorsKept, PTL

=============================================================================
