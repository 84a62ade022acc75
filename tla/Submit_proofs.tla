---------------------------- MODULE Submit_proofs ----------------------------
(* Theorems about the submission path, for every number of submissions,    *)
(* accounts and challenges and every setting of the challenges.            *)
EXTENDS Submit, Data_proofs, SequenceTheorems

-----------------------------------------------------------------------------
(* Types *)

(* The recalculated asking price is a natural number (RecalcChallengeValue *)
(* writes it into an int column).                                          *)
LEMMA RecalculatedType ==
  ASSUME TypeOK, NEW s \in Submissions
  PROVE  Recalculated(s) \in Nat
<1> USE SubmitConstants
<1> DEFINE c == chal(s)
<1>1. c \in Challenges /\ Curve[c] \in Curves /\ price[c] \in Nat
  BY DEF TypeOK, chal
<1>2. Cardinality(EligibleIn(c)) \in Nat
  <2>1. solves[c] \in Seq([sub : Submissions, value : Nat])
    BY <1>1 DEF TypeOK
  <2>2. IsFiniteSet(1 .. Len(solves[c])) /\ DOMAIN solves[c] = 1 .. Len(solves[c])
    BY <2>1, FS_Interval
  <2>3. EligibleIn(c) \subseteq 1 .. Len(solves[c])
    BY <2>2 DEF EligibleIn
  <2> QED BY <2>2, <2>3, FS_Subset, FS_CardinalityType
<1> DEFINE n == Cardinality(EligibleIn(c)) + (IF eligible[acct(s)] THEN 1 ELSE 0)
<1>3. n \in Nat
  BY <1>2
<1>4. Recalculated(s) = IF Decays(Curve[c].function) THEN RecalcValue(Curve[c], n)
                        ELSE price[c]
  BY DEF Recalculated
<1> HIDE DEF c, n
<1> QED BY <1>1, <1>3, <1>4, RecalcIsNatural

LEMMA FinishType ==
  ASSUME TypeOK, NEW s \in Submissions, NEW o \in Outcomes, Finish(s, o)
  PROVE  /\ pc' \in [Submissions -> {"idle"} \cup Running \cup Outcomes]
         /\ rowLock' \in [Challenges -> Submissions \cup {None}]
         /\ attemptLock' \in [Challenges -> [Accounts -> Submissions \cup {None}]]
  BY DEF TypeOK, Finish, Goto

LEMMA RollbackType ==
  ASSUME TypeOK, NEW s \in Submissions, NEW o \in Outcomes, Rollback(s, o)
  PROVE  TypeOK'
  BY FinishType DEF TypeOK, Rollback, ledger, edits

LEMMA ProceedType ==
  ASSUME TypeOK, NEW s \in Submissions, NEW l \in Running \cup Outcomes, Proceed(s, l)
  PROVE  TypeOK'
  BY DEF TypeOK, Proceed, Goto, locks, ledger, edits

LEMMA Labels ==
  /\ Running = {"gate", "lock", "count", "check", "logged", "locked", "duplicate",
                "solved", "counted", "paid", "priced"}
  /\ Outcomes = {"incorrect", "correct", "already_solved", "not_found", "prereqs_unmet",
                 "no_attempts", "failed"}
  BY DEF Running, Outcomes

LEMMA StepType ==
  ASSUME TypeOK, NEW s \in Submissions, Begin(s) \/ Step(s) \/ Abort(s)
  PROVE  TypeOK'
<1> USE SubmitConstants, Labels
<1>0. chal(s) \in Challenges /\ acct(s) \in Accounts
  BY DEF TypeOK, chal, acct
<1>1. CASE Begin(s)
  BY <1>1, ProceedType DEF Begin
<1>2. CASE Gate(s)
  BY <1>2, RollbackType, ProceedType DEF Gate
<1>3. CASE LockAttempts(s)
  BY <1>0, <1>3 DEF TypeOK, LockAttempts, Goto, ledger, edits
<1>4. CASE CountWrong(s)
  BY <1>4, RollbackType, ProceedType DEF CountWrong
<1>5. CASE InsertIncorrect(s)
  BY <1>5, RollbackType, ProceedType DEF InsertIncorrect
<1>6. CASE CommitIncorrect(s)
  <2>1. wrong' \in [Challenges -> [Accounts -> Nat]]
    BY <1>0, <1>6 DEF TypeOK, CommitIncorrect
  <2>2. Finish(s, "incorrect")
    BY <1>6 DEF CommitIncorrect
  <2> QED BY <1>6, <2>1, <2>2, FinishType DEF TypeOK, CommitIncorrect, edits
<1>7. CASE LockChallenge(s)
  <2>1. CASE state[chal(s)] = "visible"
    <3>0. /\ rowLock' = [rowLock EXCEPT ![chal(s)] = s]
          /\ stamp' = [stamp EXCEPT ![s] = price[chal(s)]]
          /\ pc' = [pc EXCEPT ![s] = "locked"]
      BY <1>7, <2>1 DEF LockChallenge, Goto
    <3>1. rowLock' \in [Challenges -> Submissions \cup {None}]
      BY <3>0 DEF TypeOK
    <3>2. stamp' \in [Submissions -> Nat]
      BY <1>0, <3>0 DEF TypeOK
    <3>3. pc' \in [Submissions -> {"idle"} \cup Running \cup Outcomes]
      BY <3>0 DEF TypeOK
    <3> QED BY <1>7, <2>1, <3>1, <3>2, <3>3 DEF TypeOK, LockChallenge, ledger, edits
  <2>2. CASE state[chal(s)] # "visible"
    BY <1>7, <2>2, RollbackType DEF LockChallenge
  <2> QED BY <2>1, <2>2
<1>8. CASE InsertSolve(s)
  BY <1>8, ProceedType DEF InsertSolve
<1>9. CASE CommitDuplicate(s)
  BY <1>9, RollbackType DEF CommitDuplicate
<1>10. CASE CountPrior(s)
  <2>1. TakesFirstBlood(s) \in BOOLEAN
    BY DEF TakesFirstBlood
  <2> QED BY <1>10, <2>1 DEF TypeOK, CountPrior, Goto, locks, ledger, edits
<1>11. CASE PayFirstBlood(s)
  BY <1>11, RollbackType, ProceedType DEF PayFirstBlood
<1>12. CASE Recalc(s)
  BY <1>12, RecalculatedType DEF TypeOK, Recalc, Goto, locks, ledger, edits
<1>13. CASE CommitCorrect(s)
  <2>1. solves' \in [Challenges -> Seq([sub : Submissions, value : Nat])]
    <3>1. [sub |-> s, value |-> stamp[s]] \in [sub : Submissions, value : Nat]
      BY DEF TypeOK
    <3>2. Append(solves[chal(s)], [sub |-> s, value |-> stamp[s]])
            \in Seq([sub : Submissions, value : Nat])
      <4>1. solves[chal(s)] \in Seq([sub : Submissions, value : Nat])
        BY <1>0 DEF TypeOK
      <4> QED BY <3>1, <4>1
    <3> QED BY <1>0, <1>13, <3>2 DEF TypeOK, CommitCorrect
  <2>2. bonus' \in [Challenges -> SUBSET Accounts]
    BY <1>0, <1>13 DEF TypeOK, CommitCorrect
  <2>3. outbox' \subseteq [kind : {"announce", "pulse"}, sub : Submissions, blood : BOOLEAN]
    <3>1. /\ [kind |-> "pulse", sub |-> s, blood |-> blood[s]]
               \in [kind : {"announce", "pulse"}, sub : Submissions, blood : BOOLEAN]
          /\ [kind |-> "announce", sub |-> s, blood |-> TRUE]
               \in [kind : {"announce", "pulse"}, sub : Submissions, blood : BOOLEAN]
      BY Zenon DEF TypeOK
    <3> QED BY <1>13, <3>1, Zenon DEF TypeOK, CommitCorrect
  <2>4. price' \in [Challenges -> Nat]
    BY <1>0, <1>13 DEF TypeOK, CommitCorrect
  <2>5. Finish(s, "correct")
    BY <1>13 DEF CommitCorrect
  <2> QED BY <1>13, <2>1, <2>2, <2>3, <2>4, <2>5, FinishType DEF TypeOK, CommitCorrect, edits
<1>14. CASE Abort(s)
  BY <1>14, RollbackType DEF Abort
<1> QED
  BY <1>1, <1>2, <1>3, <1>4, <1>5, <1>6, <1>7, <1>8, <1>9, <1>10, <1>11, <1>12, <1>13,
     <1>14 DEF Step

LEMMA AdminType ==
  ASSUME TypeOK,
         \/ \E c \in Challenges : SetChallengeState(c) \/ DeleteChallenge(c)
         \/ \E a \in Accounts : Moderate(a)
  PROVE  TypeOK'
<1>1. ASSUME NEW c \in Challenges, SetChallengeState(c) PROVE TypeOK'
  <2>1. accountEdits' \in Nat /\ challengeEdits' \in Nat
    BY <1>1 DEF TypeOK, SetChallengeState, edits
  <2>2. state' \in [Challenges -> {"visible", "hidden", "deleted"}]
    BY <1>1 DEF TypeOK, SetChallengeState
  <2> QED BY <1>1, <2>1, <2>2 DEF TypeOK, SetChallengeState, txVars, locks, ledger, edits
<1>2. ASSUME NEW c \in Challenges, DeleteChallenge(c) PROVE TypeOK'
  <2>1. accountEdits' \in Nat /\ challengeEdits' \in Nat
    BY <1>2 DEF TypeOK, DeleteChallenge, edits
  <2>2. state' \in [Challenges -> {"visible", "hidden", "deleted"}]
    BY <1>2 DEF TypeOK, DeleteChallenge
  <2> QED BY <1>2, <2>1, <2>2 DEF TypeOK, DeleteChallenge, txVars, locks, ledger, edits
<1>3. ASSUME NEW a \in Accounts, Moderate(a) PROVE TypeOK'
  <2>1. accountEdits' \in Nat /\ challengeEdits' \in Nat
    BY <1>3 DEF TypeOK, Moderate, edits
  <2>2. eligible' \in [Accounts -> BOOLEAN]
    BY <1>3 DEF TypeOK, Moderate
  <2> QED BY <1>3, <2>1, <2>2 DEF TypeOK, Moderate, txVars, locks, ledger, edits
<1> QED BY <1>1, <1>2, <1>3

(* Type correctness of the whole path: every row the transactions write    *)
(* fits its column, in particular every recalculated price.                *)
THEOREM TypeCorrect == Spec => []TypeOK
<1>1. Init => TypeOK
  BY SubmitConstants DEF Init, TypeOK
<1>2. TypeOK /\ [Next]_vars => TypeOK'
  <2> SUFFICES ASSUME TypeOK, [Next]_vars PROVE TypeOK'
    OBVIOUS
  <2>1. CASE Next
    BY <2>1, StepType, AdminType DEF Next
  <2>2. CASE UNCHANGED vars
    BY <2>2 DEF TypeOK, vars, txVars, locks, ledger, edits
  <2> QED BY <2>1, <2>2
<1> QED BY <1>1, <1>2, PTL DEF Spec

-----------------------------------------------------------------------------
(* What a step of one submission leaves alone *)

LEMMA FinishFrame ==
  ASSUME TypeOK, NEW s \in Submissions, NEW o \in Outcomes, Finish(s, o)
  PROVE  /\ pc'[s] = o
         /\ \A t \in Submissions \ {s} : pc'[t] = pc[t]
         /\ \A c \in Challenges : rowLock'[c] = IF rowLock[c] = s THEN None ELSE rowLock[c]
         /\ \A c \in Challenges, a \in Accounts :
              attemptLock'[c][a] = IF attemptLock[c][a] = s THEN None ELSE attemptLock[c][a]
  BY DEF TypeOK, Finish, Goto

(* A statement of s moves no other program counter and takes no lock away  *)
(* from another submission; the request it answers does not change.        *)
LEMMA StepFrame ==
  ASSUME TypeOK, NEW s \in Submissions, Begin(s) \/ Step(s) \/ Abort(s)
  PROVE  /\ req' = req /\ state' = state
         /\ \A t \in Submissions \ {s} : pc'[t] = pc[t]
         /\ \A c \in Challenges, t \in Submissions \ {s} :
              rowLock[c] = t => rowLock'[c] = t
         /\ \A c \in Challenges, a \in Accounts, t \in Submissions \ {s} :
              attemptLock[c][a] = t => attemptLock'[c][a] = t
<1> USE SubmitConstants, Labels
<1> DEFINE Frame == /\ req' = req /\ state' = state
                    /\ \A t \in Submissions \ {s} : pc'[t] = pc[t]
                    /\ \A c \in Challenges, t \in Submissions \ {s} :
                         rowLock[c] = t => rowLock'[c] = t
                    /\ \A c \in Challenges, a \in Accounts, t \in Submissions \ {s} :
                         attemptLock[c][a] = t => attemptLock'[c][a] = t
<1>1. ASSUME NEW o \in Outcomes, Finish(s, o), req' = req, state' = state PROVE Frame
  BY <1>1, FinishFrame
<1>2. ASSUME NEW o \in Outcomes, Rollback(s, o) PROVE Frame
  BY <1>1, <1>2 DEF Rollback
<1>3. ASSUME NEW l, Goto(s, l), req' = req, state' = state, UNCHANGED locks PROVE Frame
  BY <1>3 DEF TypeOK, Goto, locks
<1>4. ASSUME NEW l, Proceed(s, l) PROVE Frame
  BY <1>3, <1>4 DEF Proceed
<1>5. CASE Begin(s)
  BY <1>4, <1>5 DEF Begin
<1>6. CASE Gate(s)
  BY <1>2, <1>4, <1>6 DEF Gate
<1>7. CASE LockAttempts(s)
  <2>1. /\ req' = req /\ state' = state /\ rowLock' = rowLock
        /\ pc' = [pc EXCEPT ![s] = "count"]
        /\ attemptLock' = [attemptLock EXCEPT ![chal(s)][acct(s)] = s]
        /\ attemptLock[chal(s)][acct(s)] = None
    BY <1>7 DEF LockAttempts, Goto
  <2>2. chal(s) \in Challenges /\ acct(s) \in Accounts
    BY DEF TypeOK, chal, acct
  <2>3. ASSUME NEW c \in Challenges, NEW a \in Accounts, NEW t \in Submissions \ {s},
               attemptLock[c][a] = t
        PROVE  attemptLock'[c][a] = t
    <3>1. attemptLock[c] \in [Accounts -> Submissions \cup {None}]
      BY DEF TypeOK
    <3>2. ~(c = chal(s) /\ a = acct(s))
      BY <2>1, <2>3
    <3> QED BY <2>1, <2>2, <2>3, <3>1, <3>2 DEF TypeOK
  <2>4. \A t \in Submissions \ {s} : pc'[t] = pc[t]
    BY <2>1 DEF TypeOK
  <2> QED BY <2>1, <2>3, <2>4
<1>8. CASE CountWrong(s)
  BY <1>2, <1>4, <1>8 DEF CountWrong
<1>9. CASE InsertIncorrect(s)
  BY <1>2, <1>4, <1>9 DEF InsertIncorrect
<1>10. CASE CommitIncorrect(s)
  BY <1>1, <1>10 DEF CommitIncorrect
<1>11. CASE LockChallenge(s)
  <2>1. CASE state[chal(s)] = "visible"
    <3>1. /\ req' = req /\ state' = state /\ attemptLock' = attemptLock
          /\ pc' = [pc EXCEPT ![s] = "locked"]
          /\ rowLock' = [rowLock EXCEPT ![chal(s)] = s]
          /\ rowLock[chal(s)] = None
      BY <1>11, <2>1 DEF LockChallenge, Goto
    <3> QED BY <3>1 DEF TypeOK
  <2>2. CASE state[chal(s)] # "visible"
    BY <1>2, <1>11, <2>2 DEF LockChallenge
  <2> QED BY <2>1, <2>2
<1>12. CASE InsertSolve(s)
  BY <1>4, <1>12 DEF InsertSolve
<1>13. CASE CommitDuplicate(s)
  BY <1>2, <1>13 DEF CommitDuplicate
<1>14. CASE CountPrior(s)
  BY <1>3, <1>14 DEF CountPrior
<1>15. CASE PayFirstBlood(s)
  BY <1>2, <1>4, <1>15 DEF PayFirstBlood
<1>16. CASE Recalc(s)
  BY <1>3, <1>16 DEF Recalc
<1>17. CASE CommitCorrect(s)
  BY <1>1, <1>17 DEF CommitCorrect
<1>18. CASE Abort(s)
  BY <1>2, <1>18 DEF Abort
<1> QED
  BY <1>5, <1>6, <1>7, <1>8, <1>9, <1>10, <1>11, <1>12, <1>13, <1>14, <1>15, <1>16, <1>17,
     <1>18 DEF Step

-----------------------------------------------------------------------------
(* What a step does with the locks and the ledger of its own submission *)

(* A submission enters a phase that needs a lock by taking the lock, and    *)
(* keeps it until it finishes.                                             *)
LEMMA StepLocks ==
  ASSUME TypeOK, LocksHeld, NEW s \in Submissions, Begin(s) \/ Step(s) \/ Abort(s)
  PROVE  /\ pc'[s] \in RowPhase => rowLock'[chal(s)] = s
         /\ pc'[s] \in AttemptPhase /\ Cap[chal(s)] > 0
              => attemptLock'[chal(s)][acct(s)] = s
<1> USE SubmitConstants, Labels DEF RowPhase, AttemptPhase
<1>0. chal(s) \in Challenges /\ acct(s) \in Accounts
  BY DEF TypeOK, chal, acct
<1>1. ASSUME NEW o \in Outcomes, Finish(s, o)
      PROVE  pc'[s] \notin RowPhase /\ pc'[s] \notin AttemptPhase
  BY <1>1, FinishFrame
<1>2. ASSUME NEW o \in Outcomes, Rollback(s, o)
      PROVE  pc'[s] \notin RowPhase /\ pc'[s] \notin AttemptPhase
  BY <1>1, <1>2 DEF Rollback
<1>3. ASSUME NEW l, Proceed(s, l)
      PROVE  pc'[s] = l /\ rowLock' = rowLock /\ attemptLock' = attemptLock
  BY <1>3 DEF TypeOK, Proceed, Goto, locks
<1>4. CASE Begin(s)
  BY <1>4 DEF TypeOK, Begin, Proceed, Goto, locks
<1>5. CASE Gate(s)
  <2>1. CASE PrereqsMet(s)
    BY <1>3, <1>5, <2>1 DEF Gate
  <2>2. CASE ~PrereqsMet(s)
    BY <1>2, <1>5, <2>2 DEF Gate
  <2> QED BY <2>1, <2>2
<1>6. CASE LockAttempts(s)
  <2>1. pc'[s] = "count" /\ attemptLock'[chal(s)][acct(s)] = s
    BY <1>0, <1>6 DEF TypeOK, LockAttempts, Goto
  <2> QED BY <2>1
<1>7. CASE CountWrong(s)
  BY <1>2, <1>3, <1>7 DEF CountWrong, LocksHeld
<1>8. CASE InsertIncorrect(s)
  BY <1>2, <1>3, <1>8 DEF InsertIncorrect, LocksHeld
<1>9. CASE CommitIncorrect(s)
  BY <1>1, <1>9 DEF CommitIncorrect
<1>10. CASE LockChallenge(s)
  <2>1. CASE state[chal(s)] = "visible"
    <3>1. /\ pc'[s] = "locked" /\ rowLock'[chal(s)] = s
          /\ attemptLock' = attemptLock /\ pc[s] = "check"
      BY <1>0, <1>10, <2>1 DEF TypeOK, LockChallenge, Goto
    <3> QED BY <3>1 DEF LocksHeld
  <2>2. CASE state[chal(s)] # "visible"
    BY <1>2, <1>10, <2>2 DEF LockChallenge
  <2> QED BY <2>1, <2>2
<1>11. CASE InsertSolve(s)
  BY <1>3, <1>11 DEF InsertSolve, LocksHeld
<1>12. CASE CommitDuplicate(s)
  BY <1>2, <1>12 DEF CommitDuplicate
<1>13. CASE CountPrior(s)
  <2>1. /\ pc'[s] = "counted" /\ pc[s] = "solved"
        /\ rowLock' = rowLock /\ attemptLock' = attemptLock
    BY <1>13 DEF TypeOK, CountPrior, Goto, locks
  <2> QED BY <2>1 DEF LocksHeld
<1>14. CASE PayFirstBlood(s)
  BY <1>2, <1>3, <1>14 DEF PayFirstBlood, LocksHeld
<1>15. CASE Recalc(s)
  <2>1. /\ pc'[s] = "priced" /\ pc[s] = "paid"
        /\ rowLock' = rowLock /\ attemptLock' = attemptLock
    BY <1>15 DEF TypeOK, Recalc, Goto, locks
  <2> QED BY <2>1 DEF LocksHeld
<1>16. CASE CommitCorrect(s)
  BY <1>1, <1>16 DEF CommitCorrect
<1>17. CASE Abort(s)
  BY <1>2, <1>17 DEF Abort
<1> QED
  BY <1>4, <1>5, <1>6, <1>7, <1>8, <1>9, <1>10, <1>11, <1>12, <1>13, <1>14, <1>15, <1>16,
     <1>17 DEF Step

(* The committed attempts and solves change in the two commits only, and a  *)
(* commit comes from a transaction that holds its locks.                   *)
LEMMA StepLedger ==
  ASSUME TypeOK, NEW s \in Submissions, Begin(s) \/ Step(s) \/ Abort(s)
  PROVE  \/ wrong' = wrong /\ solves' = solves /\ bonus' = bonus
         \/ /\ pc[s] = "logged" /\ pc'[s] = "incorrect"
            /\ wrong' = [wrong EXCEPT ![chal(s)][acct(s)] = @ + 1]
            /\ solves' = solves /\ bonus' = bonus
         \/ /\ pc[s] = "priced" /\ pc'[s] = "correct"
            /\ wrong' = wrong
            /\ solves' = [solves EXCEPT ![chal(s)] =
                            Append(@, [sub |-> s, value |-> stamp[s]])]
            /\ bonus' = IF HoldsBonus(s)
                        THEN [bonus EXCEPT ![chal(s)] = @ \cup {acct(s)}] ELSE bonus
<1> USE Labels
<1> DEFINE Quiet == wrong' = wrong /\ solves' = solves /\ bonus' = bonus
<1>1. ASSUME NEW o \in Outcomes, Rollback(s, o) PROVE Quiet
  BY <1>1 DEF Rollback, ledger
<1>2. ASSUME NEW l, Proceed(s, l) PROVE Quiet
  BY <1>2 DEF Proceed, ledger
<1>3. CASE Begin(s)
  BY <1>3 DEF Begin, Proceed, ledger
<1>4. CASE Gate(s)
  BY <1>1, <1>2, <1>4 DEF Gate
<1>5. CASE LockAttempts(s)
  BY <1>5 DEF LockAttempts, ledger
<1>6. CASE CountWrong(s)
  BY <1>1, <1>2, <1>6 DEF CountWrong
<1>7. CASE InsertIncorrect(s)
  BY <1>1, <1>2, <1>7 DEF InsertIncorrect
<1>8. CASE CommitIncorrect(s)
  BY <1>8, FinishFrame DEF CommitIncorrect
<1>9. CASE LockChallenge(s)
  BY <1>1, <1>9 DEF LockChallenge, ledger
<1>10. CASE InsertSolve(s)
  BY <1>2, <1>10 DEF InsertSolve
<1>11. CASE CommitDuplicate(s)
  BY <1>1, <1>11 DEF CommitDuplicate
<1>12. CASE CountPrior(s)
  BY <1>12 DEF CountPrior, ledger
<1>13. CASE PayFirstBlood(s)
  BY <1>1, <1>2, <1>13 DEF PayFirstBlood
<1>14. CASE Recalc(s)
  BY <1>14 DEF Recalc, ledger
<1>15. CASE CommitCorrect(s)
  BY <1>15, FinishFrame DEF CommitCorrect
<1>16. CASE Abort(s)
  BY <1>1, <1>16 DEF Abort
<1> QED
  BY <1>3, <1>4, <1>5, <1>6, <1>7, <1>8, <1>9, <1>10, <1>11, <1>12, <1>13, <1>14, <1>15,
     <1>16 DEF Step

(* What a submission has established when it reaches a phase.              *)
LEMMA StepReserves ==
  ASSUME TypeOK, Inv, NEW s \in Submissions, Begin(s) \/ Step(s) \/ Abort(s)
  PROVE  /\ pc'[s] \in {"check", "logged"} /\ Cap[chal(s)] > 0
              => wrong' = wrong /\ wrong[chal(s)][acct(s)] < Cap[chal(s)]
         /\ pc'[s] \in {"solved", "counted", "paid", "priced"}
              => solves' = solves /\ acct(s) \notin Solvers(chal(s))
         /\ pc'[s] \in {"logged"} \cup RowPhase => state[chal(s)] # "deleted"
         /\ \A c \in Challenges : rowLock'[c] # None => state[c] = "visible"
<1> USE SubmitConstants, Labels DEF RowPhase
<1> DEFINE Goal == /\ pc'[s] \in {"check", "logged"} /\ Cap[chal(s)] > 0
                       => wrong' = wrong /\ wrong[chal(s)][acct(s)] < Cap[chal(s)]
                   /\ pc'[s] \in {"solved", "counted", "paid", "priced"}
                       => solves' = solves /\ acct(s) \notin Solvers(chal(s))
                   /\ pc'[s] \in {"logged"} \cup RowPhase => state[chal(s)] # "deleted"
                   /\ \A c \in Challenges : rowLock'[c] # None => state[c] = "visible"
<1>0. /\ chal(s) \in Challenges /\ acct(s) \in Accounts
      /\ \A c \in Challenges : rowLock[c] # None => state[c] = "visible"
  BY DEF TypeOK, chal, acct, Inv, LockedIsVisible
<1>1. ASSUME NEW o \in Outcomes, Finish(s, o) PROVE Goal
  BY <1>0, <1>1, FinishFrame
<1>2. ASSUME NEW o \in Outcomes, Rollback(s, o) PROVE Goal
  BY <1>1, <1>2 DEF Rollback
<1>3. ASSUME NEW l, Proceed(s, l)
      PROVE  pc'[s] = l /\ rowLock' = rowLock /\ wrong' = wrong /\ solves' = solves
  BY <1>3 DEF TypeOK, Proceed, Goto, locks, ledger
<1>4. CASE Begin(s)
  BY <1>0, <1>4 DEF TypeOK, Begin, Proceed, Goto, locks
<1>5. CASE Gate(s)
  <2>1. CASE PrereqsMet(s)
    BY <1>0, <1>3, <1>5, <2>1 DEF Gate
  <2>2. CASE ~PrereqsMet(s)
    BY <1>2, <1>5, <2>2 DEF Gate
  <2> QED BY <2>1, <2>2
<1>6. CASE LockAttempts(s)
  <2>1. pc'[s] = "count" /\ rowLock' = rowLock
    BY <1>6 DEF TypeOK, LockAttempts, Goto
  <2> QED BY <1>0, <2>1
<1>7. CASE CountWrong(s)
  <2>1. CASE wrong[chal(s)][acct(s)] >= Cap[chal(s)]
    BY <1>2, <1>7, <2>1 DEF CountWrong
  <2>2. CASE ~(wrong[chal(s)][acct(s)] >= Cap[chal(s)])
    <3>1. wrong[chal(s)][acct(s)] < Cap[chal(s)]
      BY <1>0, <2>2 DEF TypeOK
    <3> QED BY <1>0, <1>3, <1>7, <2>2, <3>1 DEF CountWrong
  <2> QED BY <2>1, <2>2
<1>8. CASE InsertIncorrect(s)
  <2>1. CASE state[chal(s)] = "deleted"
    BY <1>2, <1>8, <2>1 DEF InsertIncorrect
  <2>2. CASE state[chal(s)] # "deleted"
    BY <1>0, <1>3, <1>8, <2>2 DEF InsertIncorrect, Inv, AttemptReserved
  <2> QED BY <2>1, <2>2
<1>9. CASE CommitIncorrect(s)
  BY <1>1, <1>9 DEF CommitIncorrect
<1>10. CASE LockChallenge(s)
  <2>1. CASE state[chal(s)] = "visible"
    <3>1. /\ pc'[s] = "locked"
          /\ \A c \in Challenges : rowLock'[c] = IF c = chal(s) THEN s ELSE rowLock[c]
      BY <1>0, <1>10, <2>1 DEF TypeOK, LockChallenge, Goto
    <3> QED BY <1>0, <2>1, <3>1
  <2>2. CASE state[chal(s)] # "visible"
    BY <1>2, <1>10, <2>2 DEF LockChallenge
  <2> QED BY <2>1, <2>2
<1>11. pc[s] \in RowPhase => state[chal(s)] # "deleted"
  <2>1. pc[s] \in RowPhase => rowLock[chal(s)] = s
    BY DEF Inv, LocksHeld
  <2> QED BY <1>0, <2>1
<1>12. CASE InsertSolve(s)
  BY <1>0, <1>3, <1>11, <1>12 DEF InsertSolve
<1>13. CASE CommitDuplicate(s)
  BY <1>2, <1>13 DEF CommitDuplicate
<1>14. CASE CountPrior(s)
  <2>1. /\ pc'[s] = "counted" /\ pc[s] = "solved" /\ rowLock' = rowLock /\ solves' = solves
    BY <1>14 DEF TypeOK, CountPrior, Goto, locks, ledger
  <2> QED BY <1>0, <1>11, <2>1 DEF Inv, SolveReserved, HoldsSolve
<1>15. CASE PayFirstBlood(s)
  BY <1>0, <1>2, <1>3, <1>11, <1>15 DEF PayFirstBlood, Inv, SolveReserved, HoldsSolve
<1>16. CASE Recalc(s)
  <2>1. /\ pc'[s] = "priced" /\ pc[s] = "paid" /\ rowLock' = rowLock /\ solves' = solves
    BY <1>16 DEF TypeOK, Recalc, Goto, locks, ledger
  <2> QED BY <1>0, <1>11, <2>1 DEF Inv, SolveReserved, HoldsSolve
<1>17. CASE CommitCorrect(s)
  BY <1>1, <1>17 DEF CommitCorrect
<1>18. CASE Abort(s)
  BY <1>2, <1>18 DEF Abort
<1> QED
  BY <1>4, <1>5, <1>6, <1>7, <1>8, <1>9, <1>10, <1>12, <1>13, <1>14, <1>15, <1>16, <1>17,
     <1>18 DEF Step

LEMMA StepInv ==
  ASSUME TypeOK, Inv, NEW s \in Submissions, Begin(s) \/ Step(s) \/ Abort(s)
  PROVE  Inv'
<1> USE SubmitConstants
<1> DEFINE c == chal(s)
           a == acct(s)
<1>0. /\ c \in Challenges /\ a \in Accounts
      /\ \A t \in Submissions : chal(t) \in Challenges /\ acct(t) \in Accounts
      /\ \A t \in Submissions : chal(t)' = chal(t) /\ acct(t)' = acct(t)
  BY StepFrame DEF TypeOK, chal, acct
<1>1. LocksHeld'
  <2>1. LocksHeld
    BY DEF Inv
  <2>2. ASSUME NEW t \in Submissions \ {s}
        PROVE  /\ pc'[t] \in RowPhase => rowLock'[chal(t)] = t
               /\ pc'[t] \in AttemptPhase /\ Cap[chal(t)] > 0
                    => attemptLock'[chal(t)][acct(t)] = t
    BY <1>0, <2>1, StepFrame DEF LocksHeld
  <2>3. /\ pc'[s] \in RowPhase => rowLock'[chal(s)] = s
        /\ pc'[s] \in AttemptPhase /\ Cap[chal(s)] > 0
             => attemptLock'[chal(s)][acct(s)] = s
    BY <2>1, StepLocks
  <2> QED BY <1>0, <2>2, <2>3 DEF LocksHeld
<1>2. LockedIsVisible'
  <2>1. ASSUME NEW t \in Submissions, HoldsRow(t)' PROVE state'[chal(t)] # "deleted"
    <3>1. CASE t = s
      BY <2>1, <3>1, StepReserves, StepFrame DEF HoldsRow, HoldsSolve, RowPhase
    <3>2. CASE t # s
      BY <2>1, <3>2, StepFrame DEF Inv, LockedIsVisible, HoldsRow, HoldsSolve
    <3> QED BY <3>1, <3>2
  <2>2. \A d \in Challenges : rowLock'[d] # None => state'[d] = "visible"
    BY StepReserves, StepFrame
  <2> QED BY <1>0, <2>1, <2>2 DEF LockedIsVisible
<1>3. \A t \in Submissions \ {s} :
        pc[t] \in {"check", "logged"} /\ Cap[chal(t)] > 0 /\ pc[s] = "logged"
          => chal(t) # c \/ acct(t) # a
  BY <1>0 DEF Inv, LocksHeld, AttemptPhase
<1>4. \A t \in Submissions \ {s} :
        HoldsSolve(t) /\ pc[s] = "priced" => chal(t) # c
  BY <1>0 DEF Inv, LocksHeld, RowPhase, HoldsSolve
<1>5. CASE wrong' = wrong /\ solves' = solves /\ bonus' = bonus
  <2>1. AttemptReserved'
    BY <1>0, <1>5, StepReserves, StepFrame DEF Inv, AttemptReserved
  <2>2. \A d \in Challenges : Solvers(d)' = Solvers(d) /\ Referenced(d)' = Referenced(d)
    BY <1>5, StepFrame DEF Solvers, Referenced, acct
  <2>3. SolveReserved'
    BY <1>0, <2>2, StepReserves, StepFrame DEF Inv, SolveReserved, HoldsSolve
  <2>4. AttemptCap' /\ OneSolvePerAccount' /\ DeletedHasNoHistory'
    BY <1>5, <2>2, StepFrame DEF Inv, AttemptCap, OneSolvePerAccount, DeletedHasNoHistory, acct
  <2> QED BY <1>1, <1>2, <2>1, <2>3, <2>4 DEF Inv
<1>6. CASE /\ pc[s] = "logged" /\ pc'[s] = "incorrect"
           /\ wrong' = [wrong EXCEPT ![c][a] = @ + 1]
           /\ solves' = solves /\ bonus' = bonus
  <2>1. /\ wrong'[c][a] = wrong[c][a] + 1 /\ wrong[c][a] \in Nat
        /\ \A d \in Challenges, b \in Accounts :
             d # c \/ b # a => wrong'[d][b] = wrong[d][b]
    BY <1>0, <1>6 DEF TypeOK
  <2>2. AttemptReserved'
    <3>1. ASSUME NEW t \in Submissions, pc'[t] \in {"check", "logged"}, Cap[chal(t)] > 0
          PROVE  wrong'[chal(t)][acct(t)] < Cap[chal(t)]
      <4>1. t # s /\ pc[t] = pc'[t]
        BY <1>6, <3>1, StepFrame
      <4>2. chal(t) # c \/ acct(t) # a
        BY <1>3, <1>6, <3>1, <4>1
      <4> QED BY <1>0, <2>1, <3>1, <4>1, <4>2 DEF Inv, AttemptReserved
    <3> QED BY <1>0, <3>1 DEF AttemptReserved
  <2>3. AttemptCap'
    <3>1. Cap[c] > 0 => wrong[c][a] < Cap[c]
      BY <1>6 DEF Inv, AttemptReserved
    <3>2. Cap[c] > 0 => wrong'[c][a] <= Cap[c]
      BY <1>0, <2>1, <3>1
    <3> QED BY <2>1, <3>2 DEF Inv, AttemptCap
  <2>4. \A d \in Challenges : Solvers(d)' = Solvers(d)
    BY <1>6, StepFrame DEF Solvers, acct
  <2>5. SolveReserved'
    BY <1>0, <1>6, <2>4, StepReserves, StepFrame DEF Inv, SolveReserved, HoldsSolve
  <2>6. OneSolvePerAccount'
    BY <1>6, StepFrame DEF Inv, OneSolvePerAccount, acct
  <2>7. state[c] # "deleted"
    BY <1>6 DEF Inv, LockedIsVisible, HoldsRow
  <2>8. DeletedHasNoHistory'
    <3>1. \A d \in Challenges \ {c} : Referenced(d)' = Referenced(d)
      BY <1>6, <2>1 DEF Referenced
    <3> QED BY <2>7, <3>1, StepFrame DEF Inv, DeletedHasNoHistory
  <2> QED BY <1>1, <1>2, <2>2, <2>3, <2>5, <2>6, <2>8 DEF Inv
<1>7. CASE /\ pc[s] = "priced" /\ pc'[s] = "correct"
           /\ wrong' = wrong
           /\ solves' = [solves EXCEPT ![c] = Append(@, [sub |-> s, value |-> stamp[s]])]
           /\ bonus' = IF HoldsBonus(s) THEN [bonus EXCEPT ![c] = @ \cup {a}] ELSE bonus
  <2>1. /\ \A d \in Challenges \ {c} : solves'[d] = solves[d] /\ bonus'[d] = bonus[d]
        /\ solves'[c] = Append(solves[c], [sub |-> s, value |-> stamp[s]])
        /\ solves[c] \in Seq([sub : Submissions, value : Nat])
    BY <1>0, <1>7 DEF TypeOK
  <2>2. AttemptReserved' /\ AttemptCap'
    BY <1>0, <1>7, StepReserves, StepFrame DEF Inv, AttemptReserved, AttemptCap
  <2>3. \A d \in Challenges \ {c} : Solvers(d)' = Solvers(d)
    BY <2>1, StepFrame DEF Solvers, acct
  <2>4. SolveReserved'
    <3>1. ASSUME NEW t \in Submissions, HoldsSolve(t)'
          PROVE  acct(t) \notin Solvers(chal(t))'
      <4>1. t # s
        BY <1>7, <3>1 DEF HoldsSolve
      <4>2. HoldsSolve(t)
        BY <3>1, <4>1, StepFrame DEF HoldsSolve
      <4>3. chal(t) # c /\ chal(t) \in Challenges
        BY <1>0, <1>4, <1>7, <4>1, <4>2
      <4>4. Solvers(chal(t))' = Solvers(chal(t))
        BY <1>0, <2>3, <4>3
      <4> QED BY <4>2, <4>4 DEF Inv, SolveReserved
    <3> QED BY <1>0, <3>1 DEF SolveReserved
  <2>5. OneSolvePerAccount'
    <3>1. a \notin Solvers(c)
      BY <1>7 DEF Inv, SolveReserved, HoldsSolve
    <3>2. /\ DOMAIN solves'[c] = 1 .. Len(solves[c]) + 1
          /\ DOMAIN solves[c] = 1 .. Len(solves[c])
          /\ \A i \in 1 .. Len(solves[c]) : solves'[c][i] = solves[c][i]
          /\ solves'[c][Len(solves[c]) + 1].sub = s
          /\ Len(solves[c]) \in Nat
      BY <2>1
    <3>3. \A i \in 1 .. Len(solves[c]) : acct(solves[c][i].sub) # a
      BY <3>1, <3>2 DEF Solvers
    <3>4. ASSUME NEW i \in DOMAIN solves'[c], NEW j \in DOMAIN solves'[c],
                 acct(solves'[c][i].sub) = acct(solves'[c][j].sub)
          PROVE  i = j
      <4>1. CASE i \in 1 .. Len(solves[c]) /\ j \in 1 .. Len(solves[c])
        BY <1>0, <3>2, <3>4, <4>1 DEF Inv, OneSolvePerAccount
      <4>2. CASE i = Len(solves[c]) + 1 /\ j = Len(solves[c]) + 1
        BY <4>2
      <4>3. CASE i = Len(solves[c]) + 1 /\ j \in 1 .. Len(solves[c])
        BY <3>2, <3>3, <3>4, <4>3
      <4>4. CASE i \in 1 .. Len(solves[c]) /\ j = Len(solves[c]) + 1
        BY <3>2, <3>3, <3>4, <4>4
      <4> QED BY <3>2, <4>1, <4>2, <4>3, <4>4
    <3>5. \A d \in Challenges : \A i, j \in DOMAIN solves'[d] :
            acct(solves'[d][i].sub) = acct(solves'[d][j].sub) => i = j
      BY <2>1, <3>4 DEF Inv, OneSolvePerAccount
    <3> QED BY <3>5, StepFrame DEF OneSolvePerAccount, acct
  <2>6. state[c] # "deleted"
    BY <1>7 DEF Inv, LockedIsVisible, HoldsRow, HoldsSolve
  <2>7. DeletedHasNoHistory'
    <3>1. \A d \in Challenges \ {c} : Referenced(d)' = Referenced(d)
      BY <1>7, <2>1 DEF Referenced
    <3> QED BY <2>6, <3>1, StepFrame DEF Inv, DeletedHasNoHistory
  <2> QED BY <1>1, <1>2, <2>2, <2>4, <2>5, <2>7 DEF Inv
<1> QED BY <1>5, <1>6, <1>7, StepLedger

(* The admin writes take no lock a submission has, and wait for the ones   *)
(* that matter to them.                                                    *)
LEMMA AdminInv ==
  ASSUME TypeOK, Inv,
         \/ \E c \in Challenges : SetChallengeState(c) \/ DeleteChallenge(c)
         \/ \E a \in Accounts : Moderate(a)
  PROVE  Inv'
<1>1. ASSUME NEW c \in Challenges, NEW new \in {"visible", "hidden", "deleted"},
             rowLock[c] = None,
             state' = [state EXCEPT ![c] = new],
             new = "deleted" => /\ ~Referenced(c)
                                /\ ~\E s \in Submissions : HoldsRow(s) /\ chal(s) = c,
             state[c] # "deleted",
             UNCHANGED <<req, pc, locks, wrong, solves, bonus>>
      PROVE  Inv'
  <2>1. /\ state'[c] = new
        /\ \A d \in Challenges \ {c} : state'[d] = state[d]
    BY <1>1 DEF TypeOK
  <2>2. LocksHeld' /\ AttemptReserved' /\ SolveReserved' /\ AttemptCap' /\ OneSolvePerAccount'
    BY <1>1 DEF Inv, LocksHeld, AttemptReserved, SolveReserved, AttemptCap,
                OneSolvePerAccount, HoldsSolve, Solvers, acct, chal, locks
  <2>3. \A s \in Submissions : /\ chal(s)' = chal(s) /\ HoldsRow(s)' = HoldsRow(s)
                                /\ chal(s) \in Challenges
    BY <1>1 DEF chal, HoldsRow, HoldsSolve, TypeOK
  <2>4. \A d \in Challenges : rowLock'[d] = rowLock[d] /\ Referenced(d)' = Referenced(d)
    BY <1>1 DEF Referenced, locks
  <2>5. LockedIsVisible'
    <3>1. \A d \in Challenges : rowLock'[d] # None => state'[d] = "visible"
      BY <1>1, <2>1, <2>4 DEF Inv, LockedIsVisible
    <3>2. ASSUME NEW s \in Submissions, HoldsRow(s) PROVE state'[chal(s)] # "deleted"
      BY <1>1, <2>1, <2>3, <3>2 DEF Inv, LockedIsVisible
    <3> QED BY <2>3, <3>1, <3>2 DEF LockedIsVisible
  <2>6. DeletedHasNoHistory'
    BY <1>1, <2>1, <2>4 DEF Inv, DeletedHasNoHistory
  <2> QED BY <2>2, <2>5, <2>6 DEF Inv
<1>2. ASSUME NEW c \in Challenges, SetChallengeState(c) PROVE Inv'
  BY <1>1, <1>2 DEF SetChallengeState, txVars, ledger
<1>3. ASSUME NEW c \in Challenges, DeleteChallenge(c) PROVE Inv'
  BY <1>1, <1>3 DEF DeleteChallenge, txVars, ledger
<1>4. ASSUME NEW a \in Accounts, Moderate(a) PROVE Inv'
  BY <1>4 DEF Moderate, Inv, LocksHeld, LockedIsVisible, AttemptReserved, SolveReserved,
       AttemptCap, OneSolvePerAccount, DeletedHasNoHistory, HoldsSolve, HoldsRow, Solvers,
       Referenced, acct, chal, locks, txVars, ledger
<1> QED BY <1>2, <1>3, <1>4

-----------------------------------------------------------------------------
(* The theorems *)

(* What the locks protect is an inductive invariant of the whole path:     *)
(* statements, aborts and admin writes in any order keep it.               *)
THEOREM InvHolds == Spec => []Inv
<1>1. Init => Inv
  BY SubmitConstants DEF Init, Inv, LocksHeld, LockedIsVisible, AttemptReserved, SolveReserved,
     AttemptCap, OneSolvePerAccount, DeletedHasNoHistory, RowPhase, AttemptPhase, HoldsSolve,
     HoldsRow
<1>2. TypeOK /\ Inv /\ [Next]_vars => Inv'
  <2> SUFFICES ASSUME TypeOK, Inv, [Next]_vars PROVE Inv'
    OBVIOUS
  <2>1. CASE Next
    BY <2>1, StepInv, AdminInv DEF Next
  <2>2. CASE UNCHANGED vars
    BY <2>2 DEF Inv, LocksHeld, LockedIsVisible, AttemptReserved, SolveReserved,
       AttemptCap, OneSolvePerAccount, DeletedHasNoHistory, HoldsSolve, HoldsRow, Solvers,
       Referenced, acct, chal, vars, txVars, locks, ledger
  <2> QED BY <2>1, <2>2
<1> QED BY <1>1, <1>2, TypeCorrect, PTL DEF Spec

(* However an account's submissions interleave, at most max_attempts wrong *)
(* answers are ever recorded.                                              *)
THEOREM AttemptCapHolds == Spec => []AttemptCap
<1>1. Inv => AttemptCap
  BY DEF Inv
<1> QED BY <1>1, InvHolds, PTL

(* An account never holds two solves of a challenge.                       *)
THEOREM OneSolveHolds == Spec => []OneSolvePerAccount
<1>1. Inv => OneSolvePerAccount
  BY DEF Inv
<1> QED BY <1>1, InvHolds, PTL

(* A deleted challenge is named by no ledger row.                          *)
THEOREM DeletedHolds == Spec => []DeletedHasNoHistory
<1>1. Inv => DeletedHasNoHistory
  BY DEF Inv
<1> QED BY <1>1, InvHolds, PTL

LEMMA AdminLeavesLedger ==
  ASSUME \/ \E c \in Challenges : SetChallengeState(c) \/ DeleteChallenge(c)
         \/ \E a \in Accounts : Moderate(a)
  PROVE  UNCHANGED <<wrong, solves, bonus, outbox>>
BY DEF SetChallengeState, DeleteChallenge, Moderate, ledger

(* A solve joins the ledger only while its challenge is visible.           *)
THEOREM SolvesLandOnVisibleHolds == Spec => SolvesLandOnVisible
<1> DEFINE Lands == \A c \in Challenges : solves'[c] # solves[c] => state[c] = "visible"
<1>1. TypeOK /\ Inv /\ [Next]_vars => [Lands]_vars
  <2> SUFFICES ASSUME TypeOK, Inv, Next PROVE Lands
    OBVIOUS
  <2>1. ASSUME NEW s \in Submissions, Begin(s) \/ Step(s) \/ Abort(s) PROVE Lands
    <3>0. chal(s) \in Challenges
      BY DEF TypeOK, chal
    <3>1. CASE pc[s] = "priced"
      <4>1. state[chal(s)] = "visible"
        BY <3>0, <3>1, SubmitConstants DEF Inv, LocksHeld, LockedIsVisible, RowPhase
      <4>2. \A d \in Challenges \ {chal(s)} : solves'[d] = solves[d]
        BY <2>1, <3>0, StepLedger DEF TypeOK
      <4> QED BY <4>1, <4>2
    <3>2. CASE pc[s] # "priced"
      BY <2>1, <3>2, StepLedger
    <3> QED BY <3>1, <3>2
  <2>2. CASE UNCHANGED <<wrong, solves, bonus, outbox>>
    BY <2>2
  <2> QED BY <2>1, <2>2, AdminLeavesLedger DEF Next
<1> QED BY <1>1, TypeCorrect, InvHolds, PTL DEF Spec, SolvesLandOnVisible

(* Announcements and pulses are only ever added.                           *)
LEMMA StepOutbox ==
  ASSUME NEW s \in Submissions, Begin(s) \/ Step(s) \/ Abort(s)
  PROVE  outbox \subseteq outbox'
<1>1. ASSUME NEW o, Rollback(s, o) PROVE outbox' = outbox
  BY <1>1 DEF Rollback, ledger
<1>2. ASSUME NEW l, Proceed(s, l) PROVE outbox' = outbox
  BY <1>2 DEF Proceed, ledger
<1>3. CASE Begin(s) \/ LockAttempts(s) \/ CommitIncorrect(s) \/ CountPrior(s) \/ Recalc(s)
  BY <1>3 DEF Begin, Proceed, LockAttempts, CommitIncorrect, CountPrior, Recalc, ledger
<1>4. CASE Gate(s) \/ CountWrong(s) \/ InsertIncorrect(s) \/ InsertSolve(s)
           \/ PayFirstBlood(s) \/ CommitDuplicate(s) \/ Abort(s)
  BY <1>1, <1>2, <1>4 DEF Gate, CountWrong, InsertIncorrect, InsertSolve, PayFirstBlood,
     CommitDuplicate, Abort
<1>5. CASE LockChallenge(s)
  BY <1>1, <1>5 DEF LockChallenge, ledger
<1>6. CASE CommitCorrect(s)
  BY <1>6 DEF CommitCorrect
<1> QED BY <1>3, <1>4, <1>5, <1>6 DEF Step

LEMMA AppendKeeps ==
  ASSUME NEW S, NEW q \in Seq(S), NEW e \in S
  PROVE  /\ Len(q) <= Len(Append(q, e))
         /\ SubSeq(Append(q, e), 1, Len(q)) = q
<1>1. Append(q, e) \in Seq(S) /\ Len(Append(q, e)) = Len(q) + 1 /\ Len(q) \in Nat
  OBVIOUS
<1>2. \A i \in 1 .. Len(q) : Append(q, e)[i] = q[i]
  OBVIOUS
<1>3. /\ SubSeq(Append(q, e), 1, Len(q)) \in Seq(S)
      /\ Len(SubSeq(Append(q, e), 1, Len(q))) = Len(q)
      /\ \A i \in 1 .. Len(q) : SubSeq(Append(q, e), 1, Len(q))[i] = q[i]
  BY <1>1, <1>2, SubSeqProperties
<1> QED BY <1>1, <1>3, SeqEqual

LEMMA WholeSubSeq ==
  ASSUME NEW S, NEW q \in Seq(S)
  PROVE  Len(q) <= Len(q) /\ SubSeq(q, 1, Len(q)) = q
<1>1. Len(q) \in Nat
  OBVIOUS
<1>2. /\ SubSeq(q, 1, Len(q)) \in Seq(S)
      /\ Len(SubSeq(q, 1, Len(q))) = Len(q)
      /\ \A i \in 1 .. Len(q) : SubSeq(q, 1, Len(q))[i] = q[i]
  BY <1>1, SubSeqProperties
<1> QED BY <1>1, <1>2, SeqEqual

(* Nothing written to the ledger is ever taken back: an attempt count, a   *)
(* solve and the price it carries, a bonus, an announcement.               *)
THEOREM LedgerAppendOnlyHolds == Spec => LedgerAppendOnly
<1> DEFINE Grows == /\ \A c \in Challenges :
                         /\ Len(solves[c]) <= Len(solves'[c])
                         /\ SubSeq(solves'[c], 1, Len(solves[c])) = solves[c]
                         /\ bonus[c] \subseteq bonus'[c]
                         /\ \A a \in Accounts : wrong[c][a] <= wrong'[c][a]
                    /\ outbox \subseteq outbox'
<1>1. TypeOK /\ [Next]_vars => [Grows]_vars
  <2> SUFFICES ASSUME TypeOK, Next PROVE Grows
    OBVIOUS
  <2>0. \A c \in Challenges : /\ solves[c] \in Seq([sub : Submissions, value : Nat])
                              /\ Len(solves[c]) <= Len(solves[c])
                              /\ SubSeq(solves[c], 1, Len(solves[c])) = solves[c]
                              /\ \A a \in Accounts : wrong[c][a] \in Nat
    BY WholeSubSeq DEF TypeOK
  <2>1. ASSUME UNCHANGED <<wrong, solves, bonus>>, outbox \subseteq outbox' PROVE Grows
    BY <2>0, <2>1
  <2>2. ASSUME NEW s \in Submissions, Begin(s) \/ Step(s) \/ Abort(s) PROVE Grows
    <3>0. /\ chal(s) \in Challenges /\ acct(s) \in Accounts
          /\ [sub |-> s, value |-> stamp[s]] \in [sub : Submissions, value : Nat]
      BY DEF TypeOK, chal, acct
    <3>1. outbox \subseteq outbox'
      BY <2>2, StepOutbox
    <3>2. CASE wrong' = wrong /\ solves' = solves /\ bonus' = bonus
      BY <2>1, <3>1, <3>2
    <3>3. CASE /\ wrong' = [wrong EXCEPT ![chal(s)][acct(s)] = @ + 1]
               /\ solves' = solves /\ bonus' = bonus
      <4>1. \A c \in Challenges, a \in Accounts : wrong[c][a] <= wrong'[c][a]
        BY <2>0, <3>0, <3>3 DEF TypeOK
      <4> QED BY <2>0, <3>1, <3>3, <4>1
    <3>4. CASE /\ wrong' = wrong
               /\ solves' = [solves EXCEPT ![chal(s)] =
                               Append(@, [sub |-> s, value |-> stamp[s]])]
               /\ bonus' = IF HoldsBonus(s)
                           THEN [bonus EXCEPT ![chal(s)] = @ \cup {acct(s)}] ELSE bonus
      <4>1. \A c \in Challenges : bonus[c] \subseteq bonus'[c]
        BY <3>0, <3>4 DEF TypeOK
      <4>2. /\ \A c \in Challenges \ {chal(s)} : solves'[c] = solves[c]
            /\ solves'[chal(s)] = Append(solves[chal(s)], [sub |-> s, value |-> stamp[s]])
        BY <3>0, <3>4 DEF TypeOK
      <4>3. /\ Len(solves[chal(s)]) <= Len(solves'[chal(s)])
            /\ SubSeq(solves'[chal(s)], 1, Len(solves[chal(s)])) = solves[chal(s)]
        BY <2>0, <3>0, <4>2, AppendKeeps
      <4>4. \A c \in Challenges, a \in Accounts : wrong[c][a] <= wrong'[c][a]
        BY <2>0, <3>4
      <4> QED BY <2>0, <3>1, <4>1, <4>2, <4>3, <4>4
    <3> QED BY <2>2, <3>2, <3>3, <3>4, StepLedger
  <2> QED BY <2>1, <2>2, AdminLeavesLedger DEF Next
<1> QED BY <1>1, TypeCorrect, PTL DEF Spec, LedgerAppendOnly

-----------------------------------------------------------------------------
(* What a transaction has read stays true until it commits *)

(* The prerequisites it was let in by are never lost; under the attempt    *)
(* lock the attempt is there to be spent; under the row lock the price it  *)
(* was stamped with is the price; and as long as no account is moderated,  *)
(* so are first blood and the recalculated price.                          *)
Kept(s) ==
  /\ pc[s] \in Running \ {"gate"} => PrereqsMet(s)
  /\ pc[s] \in {"check", "logged"} \cup RowPhase /\ Cap[chal(s)] > 0
       => wrong[chal(s)][acct(s)] < Cap[chal(s)]
  /\ pc[s] \in RowPhase => stamp[s] = price[chal(s)]
  /\ accountEdits = 0 =>
       /\ pc[s] \in {"counted", "paid", "priced"} => blood[s] = TakesFirstBlood(s)
       /\ pc[s] = "priced" => ask[s] = Recalculated(s)

AllKept == \A s \in Submissions : Kept(s)

(* Only the two commits publish anything, and a statement writes its own    *)
(* locals only.                                                            *)
LEMMA StepPublishes ==
  ASSUME TypeOK, NEW s \in Submissions, Begin(s) \/ Step(s) \/ Abort(s)
  PROVE  /\ \/ UNCHANGED <<wrong, solves, bonus, outbox, price>>
            \/ CommitIncorrect(s) \/ CommitCorrect(s)
         /\ UNCHANGED <<req, state, eligible, accountEdits>>
         /\ \A t \in Submissions \ {s} :
              stamp'[t] = stamp[t] /\ blood'[t] = blood[t] /\ ask'[t] = ask[t]
<1> DEFINE Goal == /\ \/ UNCHANGED <<wrong, solves, bonus, outbox, price>>
                      \/ CommitIncorrect(s) \/ CommitCorrect(s)
                   /\ UNCHANGED <<req, state, eligible, accountEdits>>
                   /\ \A t \in Submissions \ {s} :
                        stamp'[t] = stamp[t] /\ blood'[t] = blood[t] /\ ask'[t] = ask[t]
<1>1. ASSUME NEW o, Rollback(s, o) PROVE Goal
  BY <1>1 DEF Rollback, ledger, edits
<1>2. ASSUME NEW l, Proceed(s, l) PROVE Goal
  BY <1>2 DEF Proceed, ledger, edits
<1>3. CASE Begin(s) \/ LockAttempts(s) \/ CountPrior(s) \/ Recalc(s)
  BY <1>2, <1>3 DEF TypeOK, Begin, LockAttempts, CountPrior, Recalc, ledger, edits
<1>4. CASE Gate(s) \/ CountWrong(s) \/ InsertIncorrect(s) \/ InsertSolve(s)
           \/ PayFirstBlood(s) \/ CommitDuplicate(s) \/ Abort(s)
  BY <1>1, <1>2, <1>4 DEF Gate, CountWrong, InsertIncorrect, InsertSolve, PayFirstBlood,
     CommitDuplicate, Abort
<1>5. CASE LockChallenge(s)
  BY <1>1, <1>5 DEF TypeOK, LockChallenge, ledger, edits
<1>6. CASE CommitIncorrect(s)
  BY <1>6 DEF CommitIncorrect, edits
<1>7. CASE CommitCorrect(s)
  BY <1>7 DEF CommitCorrect, edits
<1> QED BY <1>3, <1>4, <1>5, <1>6, <1>7 DEF Step

LEMMA SolveRow ==
  ASSUME TypeOK, NEW c \in Challenges, NEW i \in DOMAIN solves[c]
  PROVE  /\ i \in Nat \ {0}
         /\ solves[c][i].sub \in Submissions /\ solves[c][i].value \in Nat
         /\ acct(solves[c][i].sub) \in Accounts
<1>1. solves[c] \in Seq([sub : Submissions, value : Nat])
  BY DEF TypeOK
<1>2. i \in 1 .. Len(solves[c]) /\ Len(solves[c]) \in Nat
  BY <1>1
<1>3. solves[c][i] \in [sub : Submissions, value : Nat]
  BY <1>1, <1>2, ElementOfSeq
<1>4. \A t \in Submissions : acct(t) \in Accounts
  BY DEF TypeOK, acct
<1> QED BY <1>2, <1>3, <1>4

(* What a submission found of its challenge is still so when nothing of it *)
(* has been written.                                                       *)
LEMMA SameReads ==
  ASSUME TypeOK, NEW t \in Submissions, req' = req, eligible' = eligible,
         solves'[chal(t)] = solves[chal(t)], price'[chal(t)] = price[chal(t)]
  PROVE  /\ TakesFirstBlood(t)' = TakesFirstBlood(t)
         /\ Recalculated(t)' = Recalculated(t)
<1>1. chal(t)' = chal(t) /\ \A u \in Submissions : acct(u)' = acct(u)
  BY DEF chal, acct
<1>2. EligibleIn(chal(t))' = EligibleIn(chal(t))
  <2>1. \A i \in DOMAIN solves[chal(t)] : solves[chal(t)][i].sub \in Submissions
    BY SolveRow DEF TypeOK, chal
  <2> QED BY <1>1, <2>1 DEF EligibleIn
<1> QED BY <1>1, <1>2 DEF TakesFirstBlood, Recalculated

(* A solver stays one.                                                     *)
LEMMA SolversGrow ==
  ASSUME TypeOK, NEW s \in Submissions, Begin(s) \/ Step(s) \/ Abort(s), NEW c \in Challenges
  PROVE  Solvers(c) \subseteq Solvers(c)'
<1>1. \A u : acct(u)' = acct(u)
  BY StepPublishes DEF acct
<1>2. CASE solves' = solves
  BY <1>1, <1>2 DEF Solvers
<1>3. CASE solves' = [solves EXCEPT ![chal(s)] = Append(@, [sub |-> s, value |-> stamp[s]])]
  <2>1. solves[c] \in Seq([sub : Submissions, value : Nat])
    BY DEF TypeOK
  <2>2. CASE c # chal(s)
    BY <1>1, <1>3, <2>2 DEF Solvers, TypeOK
  <2>3. CASE c = chal(s)
    <3>1. solves'[c] = Append(solves[c], [sub |-> s, value |-> stamp[s]])
      BY <1>3, <2>3 DEF TypeOK
    <3>2. /\ DOMAIN solves[c] \subseteq DOMAIN solves'[c]
          /\ \A i \in DOMAIN solves[c] : solves'[c][i] = solves[c][i]
      BY <2>1, <3>1
    <3> QED BY <1>1, <3>2 DEF Solvers
  <2> QED BY <2>2, <2>3
<1> QED BY <1>2, <1>3, StepLedger

(* A step of one submission breaks nothing another relies on: a commit of  *)
(* a wrong answer would need the other's attempt lock, one of a right      *)
(* answer the other's row lock.                                            *)
LEMMA KeptByOthers ==
  ASSUME TypeOK, Inv, NEW s \in Submissions, NEW t \in Submissions \ {s}, Kept(t),
         Begin(s) \/ Step(s) \/ Abort(s)
  PROVE  Kept(t)'
<1> USE SubmitConstants
<1>0. /\ chal(t)' = chal(t) /\ acct(t)' = acct(t) /\ pc'[t] = pc[t] /\ accountEdits' = accountEdits
      /\ stamp'[t] = stamp[t] /\ blood'[t] = blood[t] /\ ask'[t] = ask[t]
      /\ req' = req /\ eligible' = eligible
      /\ chal(t) \in Challenges /\ acct(t) \in Accounts
      /\ chal(s) \in Challenges /\ acct(s) \in Accounts
  BY StepFrame, StepPublishes DEF TypeOK, chal, acct
<1>1. pc[t] \in Running \ {"gate"} => PrereqsMet(t)'
  <2>1. Requires[chal(t)] \subseteq Challenges
    BY <1>0
  <2> QED BY <1>0, <2>1, SolversGrow DEF Kept, PrereqsMet
<1>2. pc[t] \in {"check", "logged"} \cup RowPhase /\ Cap[chal(t)] > 0
        => wrong'[chal(t)][acct(t)] < Cap[chal(t)]
  <2> SUFFICES ASSUME pc[t] \in {"check", "logged"} \cup RowPhase, Cap[chal(t)] > 0
               PROVE  wrong'[chal(t)][acct(t)] = wrong[chal(t)][acct(t)]
    BY DEF Kept
  <2>1. attemptLock[chal(t)][acct(t)] = t
    BY DEF Inv, LocksHeld, AttemptPhase
  <2>2. pc[s] = "logged" => chal(s) # chal(t) \/ acct(s) # acct(t)
    BY <2>1 DEF Inv, LocksHeld, AttemptPhase
  <2>3. CASE /\ pc[s] = "logged"
             /\ wrong' = [wrong EXCEPT ![chal(s)][acct(s)] = @ + 1]
    <3>1. wrong[chal(t)] \in [Accounts -> Nat] /\ wrong[chal(s)] \in [Accounts -> Nat]
      BY <1>0 DEF TypeOK
    <3> QED BY <1>0, <2>2, <2>3, <3>1 DEF TypeOK
  <2> QED BY <2>3, StepLedger
<1>3. pc[t] \in RowPhase => solves'[chal(t)] = solves[chal(t)] /\ price'[chal(t)] = price[chal(t)]
  <2> SUFFICES ASSUME pc[t] \in RowPhase
               PROVE  solves'[chal(t)] = solves[chal(t)] /\ price'[chal(t)] = price[chal(t)]
    OBVIOUS
  <2>1. CASE CommitCorrect(s)
    <3>1. chal(s) # chal(t)
      BY <2>1 DEF CommitCorrect, Inv, LocksHeld, RowPhase
    <3> QED BY <1>0, <2>1, <3>1 DEF CommitCorrect, TypeOK
  <2>2. CASE CommitIncorrect(s)
    BY <2>2 DEF CommitIncorrect
  <2> QED BY <2>1, <2>2, StepPublishes
<1>4. pc[t] \in RowPhase => TakesFirstBlood(t)' = TakesFirstBlood(t) /\ Recalculated(t)' = Recalculated(t)
  BY <1>0, <1>3, SameReads
<1> QED BY <1>0, <1>1, <1>2, <1>3, <1>4 DEF Kept, RowPhase
(* A statement establishes what it reads and keeps what was read before.   *)
LEMMA KeptBySelf ==
  ASSUME TypeOK, Inv, NEW s \in Submissions, Kept(s), Begin(s) \/ Step(s) \/ Abort(s)
  PROVE  Kept(s)'
<1> USE SubmitConstants, Labels DEF RowPhase
<1>0. /\ chal(s) \in Challenges /\ acct(s) \in Accounts
      /\ chal(s)' = chal(s) /\ acct(s)' = acct(s)
      /\ req' = req /\ eligible' = eligible /\ accountEdits' = accountEdits
      /\ wrong[chal(s)][acct(s)] \in Nat /\ Cap[chal(s)] \in Nat
  <2>1. chal(s) \in Challenges /\ acct(s) \in Accounts
    BY DEF TypeOK, chal, acct
  <2>2. req' = req /\ eligible' = eligible /\ accountEdits' = accountEdits
    BY StepPublishes
  <2>3. wrong[chal(s)][acct(s)] \in Nat
    BY <2>1 DEF TypeOK
  <2> QED BY <2>1, <2>2, <2>3 DEF chal, acct
<1>1. ASSUME NEW o \in Outcomes, Finish(s, o) PROVE Kept(s)'
  BY <1>1, FinishFrame DEF Kept
<1>2. ASSUME NEW o \in Outcomes, Rollback(s, o) PROVE Kept(s)'
  BY <1>1, <1>2 DEF Rollback
<1>3. PrereqsMet(s) => PrereqsMet(s)'
  <2>1. Requires[chal(s)] \subseteq Challenges
    BY <1>0
  <2> QED BY <1>0, <2>1, SolversGrow DEF PrereqsMet
<1>4. ASSUME solves' = solves, price' = price
      PROVE  /\ TakesFirstBlood(s)' = TakesFirstBlood(s)
             /\ Recalculated(s)' = Recalculated(s)
  BY <1>0, <1>4, SameReads
<1>5. ASSUME NEW l, Proceed(s, l)
      PROVE  /\ pc'[s] = l
             /\ UNCHANGED <<stamp, blood, ask, wrong, price, solves>>
  BY <1>5 DEF TypeOK, Proceed, Goto, ledger
<1>6. CASE Begin(s)
  BY <1>5, <1>6 DEF Begin, Kept
<1>7. CASE Gate(s)
  <2>1. CASE PrereqsMet(s)
    <3>1. /\ Proceed(s, IF Cap[chal(s)] > 0 THEN "lock" ELSE "check")
          /\ PrereqsMet(s)'
      BY <1>3, <1>7, <2>1 DEF Gate
    <3> QED BY <1>0, <1>5, <3>1 DEF Kept
  <2>2. CASE ~PrereqsMet(s)
    BY <1>2, <1>7, <2>2 DEF Gate
  <2> QED BY <2>1, <2>2
<1>8. CASE LockAttempts(s)
  <2>1. pc[s] = "lock" /\ pc'[s] = "count"
    BY <1>8 DEF TypeOK, LockAttempts, Goto
  <2> QED BY <1>3, <2>1 DEF Kept
<1>9. CASE CountWrong(s)
  <2>1. CASE wrong[chal(s)][acct(s)] >= Cap[chal(s)]
    BY <1>2, <1>9, <2>1 DEF CountWrong
  <2>2. CASE ~(wrong[chal(s)][acct(s)] >= Cap[chal(s)])
    <3>1. pc[s] = "count" /\ Proceed(s, "check") /\ wrong[chal(s)][acct(s)] < Cap[chal(s)]
      BY <1>0, <1>9, <2>2 DEF CountWrong
    <3> QED BY <1>0, <1>3, <1>5, <3>1 DEF Kept
  <2> QED BY <2>1, <2>2
<1>10. CASE InsertIncorrect(s)
  <2>1. CASE state[chal(s)] = "deleted"
    BY <1>2, <1>10, <2>1 DEF InsertIncorrect
  <2>2. CASE state[chal(s)] # "deleted"
    <3>1. pc[s] = "check" /\ Proceed(s, "logged")
      BY <1>10, <2>2 DEF InsertIncorrect
    <3> QED BY <1>0, <1>3, <1>5, <3>1 DEF Kept
  <2> QED BY <2>1, <2>2
<1>11. CASE CommitIncorrect(s)
  BY <1>1, <1>11 DEF CommitIncorrect
<1>12. CASE LockChallenge(s)
  <2>1. CASE state[chal(s)] = "visible"
    <3>1. /\ pc[s] = "check" /\ pc'[s] = "locked" /\ stamp'[s] = price[chal(s)]
          /\ UNCHANGED <<price, wrong>>
      BY <1>12, <2>1 DEF TypeOK, LockChallenge, Goto, ledger
    <3> QED BY <1>0, <1>3, <3>1 DEF Kept
  <2>2. CASE state[chal(s)] # "visible"
    BY <1>2, <1>12, <2>2 DEF LockChallenge
  <2> QED BY <2>1, <2>2
<1>13. CASE InsertSolve(s)
  BY <1>0, <1>3, <1>5, <1>13 DEF InsertSolve, Kept
<1>14. CASE CommitDuplicate(s)
  BY <1>2, <1>14 DEF CommitDuplicate
<1>15. CASE CountPrior(s)
  <2>1. /\ pc[s] = "solved" /\ pc'[s] = "counted" /\ blood'[s] = TakesFirstBlood(s)
        /\ UNCHANGED <<price, wrong, solves, stamp>>
    BY <1>15 DEF TypeOK, CountPrior, Goto, ledger
  <2> QED BY <1>0, <1>3, <1>4, <2>1 DEF Kept
<1>16. CASE PayFirstBlood(s)
  <2>1. CASE Proceed(s, "paid")
    <3>1. pc[s] = "counted"
      BY <1>16 DEF PayFirstBlood
    <3> QED BY <1>0, <1>3, <1>4, <1>5, <2>1, <3>1 DEF Kept
  <2>2. CASE Rollback(s, "failed")
    BY <1>2, <2>2
  <2> QED BY <1>16, <2>1, <2>2 DEF PayFirstBlood
<1>17. CASE Recalc(s)
  <2>1. /\ pc[s] = "paid" /\ pc'[s] = "priced" /\ ask'[s] = Recalculated(s)
        /\ UNCHANGED <<price, wrong, solves, stamp, blood>>
    BY <1>17 DEF TypeOK, Recalc, Goto, ledger
  <2> QED BY <1>0, <1>3, <1>4, <2>1 DEF Kept
<1>18. CASE CommitCorrect(s)
  BY <1>1, <1>18 DEF CommitCorrect
<1>19. CASE Abort(s)
  BY <1>2, <1>19 DEF Abort
<1> QED
  BY <1>6, <1>7, <1>8, <1>9, <1>10, <1>11, <1>12, <1>13, <1>14, <1>15, <1>16, <1>17, <1>18,
     <1>19 DEF Step

(* Hiding or deleting a challenge touches nothing a submission has read;   *)
(* moderating an account may change who counts, and counts as an edit.     *)
LEMMA KeptByAdmins ==
  ASSUME TypeOK, NEW t \in Submissions, Kept(t),
         \/ \E c \in Challenges : SetChallengeState(c) \/ DeleteChallenge(c)
         \/ \E a \in Accounts : Moderate(a)
  PROVE  Kept(t)'
<1>1. UNCHANGED <<req, pc, stamp, blood, ask, wrong, solves, price>>
  BY DEF SetChallengeState, DeleteChallenge, Moderate, txVars, ledger
<1>2. /\ chal(t)' = chal(t) /\ acct(t)' = acct(t) /\ PrereqsMet(t)' = PrereqsMet(t)
  BY <1>1 DEF chal, acct, PrereqsMet, Solvers
<1>3. CASE \E c \in Challenges : SetChallengeState(c) \/ DeleteChallenge(c)
  <2>1. eligible' = eligible /\ accountEdits' = accountEdits
    BY <1>3 DEF SetChallengeState, DeleteChallenge
  <2>2. TakesFirstBlood(t)' = TakesFirstBlood(t) /\ Recalculated(t)' = Recalculated(t)
    BY <1>1, <2>1, SameReads
  <2> QED BY <1>1, <1>2, <2>1, <2>2 DEF Kept
<1>4. CASE \E a \in Accounts : Moderate(a)
  <2>1. accountEdits' # 0
    BY <1>4 DEF TypeOK, Moderate
  <2> QED BY <1>1, <1>2, <2>1 DEF Kept
<1> QED BY <1>3, <1>4

(* Everything a transaction decided on is still so when it commits.        *)
THEOREM KeptHolds == Spec => []AllKept
<1>1. Init => AllKept
  BY Labels, SubmitConstants DEF Init, AllKept, Kept, RowPhase
<1>2. TypeOK /\ Inv /\ AllKept /\ [Next]_vars => AllKept'
  <2> SUFFICES ASSUME TypeOK, Inv, AllKept, [Next]_vars, NEW t \in Submissions PROVE Kept(t)'
    BY DEF AllKept
  <2>0. Kept(t)
    BY DEF AllKept
  <2>1. ASSUME NEW s \in Submissions, Begin(s) \/ Step(s) \/ Abort(s) PROVE Kept(t)'
    BY <2>0, <2>1, KeptBySelf, KeptByOthers
  <2>2. CASE UNCHANGED vars
    <3>1. /\ UNCHANGED <<req, pc, stamp, blood, ask, wrong, solves, price, eligible, accountEdits>>
          /\ chal(t)' = chal(t) /\ acct(t)' = acct(t) /\ PrereqsMet(t)' = PrereqsMet(t)
      BY <2>2 DEF vars, txVars, ledger, edits, chal, acct, PrereqsMet, Solvers
    <3>2. TakesFirstBlood(t)' = TakesFirstBlood(t) /\ Recalculated(t)' = Recalculated(t)
      BY <3>1, SameReads
    <3> QED BY <2>0, <3>1, <3>2 DEF Kept
  <2> QED BY <2>0, <2>1, <2>2, KeptByAdmins DEF Next
<1> QED BY <1>1, <1>2, TypeCorrect, InvHolds, PTL DEF Spec
-----------------------------------------------------------------------------
(* What a correct commit publishes *)

LEMMA CommitSpares ==
  ASSUME TypeOK, NEW s \in Submissions, CommitCorrect(s),
         NEW d \in Challenges, d # chal(s)
  PROVE  solves'[d] = solves[d] /\ bonus'[d] = bonus[d] /\ price'[d] = price[d]
  BY DEF CommitCorrect, TypeOK

LEMMA CommitAppends ==
  ASSUME TypeOK, NEW s \in Submissions, CommitCorrect(s)
  PROVE  /\ Len(solves[chal(s)]) \in Nat
         /\ DOMAIN solves[chal(s)] = 1 .. Len(solves[chal(s)])
         /\ DOMAIN solves'[chal(s)] = 1 .. Len(solves[chal(s)]) + 1
         /\ \A i \in 1 .. Len(solves[chal(s)]) : solves'[chal(s)][i] = solves[chal(s)][i]
         /\ solves'[chal(s)][Len(solves[chal(s)]) + 1] = [sub |-> s, value |-> stamp[s]]
         /\ solves'[chal(s)][Len(solves[chal(s)]) + 1].sub = s
         /\ bonus'[chal(s)] = IF blood[s] /\ FirstBlood[chal(s)] = "bonus"
                              THEN bonus[chal(s)] \cup {acct(s)} ELSE bonus[chal(s)]
         /\ price'[chal(s)] = ask[s]
<1> DEFINE c == chal(s)
           e == [sub |-> s, value |-> stamp[s]]
<1>1. c \in Challenges /\ e \in [sub : Submissions, value : Nat]
  BY DEF TypeOK, chal
<1>2. solves[c] \in Seq([sub : Submissions, value : Nat])
  BY <1>1 DEF TypeOK
<1>3. /\ solves' = [solves EXCEPT ![c] = Append(@, e)]
      /\ bonus' = IF HoldsBonus(s) THEN [bonus EXCEPT ![c] = @ \cup {acct(s)}] ELSE bonus
      /\ price' = [price EXCEPT ![c] = ask[s]]
      /\ HoldsBonus(s) <=> blood[s] /\ FirstBlood[c] = "bonus"
  BY DEF CommitCorrect, HoldsBonus
<1>4. solves'[c] = Append(solves[c], e)
  BY <1>1, <1>3 DEF TypeOK
<1>6. /\ bonus'[c] = IF blood[s] /\ FirstBlood[c] = "bonus"
                     THEN bonus[c] \cup {acct(s)} ELSE bonus[c]
      /\ price'[c] = ask[s]
  BY <1>1, <1>3 DEF TypeOK
<1> HIDE DEF e
<1>7. /\ Len(solves[c]) \in Nat
      /\ DOMAIN solves[c] = 1 .. Len(solves[c])
      /\ DOMAIN Append(solves[c], e) = 1 .. Len(solves[c]) + 1
      /\ \A i \in 1 .. Len(solves[c]) : Append(solves[c], e)[i] = solves[c][i]
      /\ Append(solves[c], e)[Len(solves[c]) + 1] = e
  BY <1>1, <1>2
<1>8. e = [sub |-> s, value |-> stamp[s]] /\ e.sub = s
  BY DEF e
<1> HIDE DEF c
<1>9. /\ DOMAIN solves'[c] = 1 .. Len(solves[c]) + 1
      /\ \A i \in 1 .. Len(solves[c]) : solves'[c][i] = solves[c][i]
      /\ solves'[c][Len(solves[c]) + 1] = e
  BY <1>4, <1>7
<1> QED BY <1>6, <1>7, <1>8, <1>9 DEF c

(* The commit sends its pulse and, with first blood, its announcement.     *)
Pulse(s) == [kind |-> "pulse", sub |-> s, blood |-> blood[s]]
News(s)  == [kind |-> "announce", sub |-> s, blood |-> TRUE]

LEMMA CommitSends ==
  ASSUME NEW s \in Submissions, CommitCorrect(s)
  PROVE  /\ outbox' = IF blood[s] THEN outbox \cup {Pulse(s), News(s)} ELSE outbox \cup {Pulse(s)}
         /\ Pulse(s).kind = "pulse" /\ Pulse(s).sub = s /\ Pulse(s).blood = blood[s]
         /\ News(s).kind = "announce" /\ News(s).sub = s
<1>1. outbox' = outbox \cup {Pulse(s)} \cup (IF blood[s] THEN {News(s)} ELSE {})
  BY DEF CommitCorrect, Pulse, News
<1>2. outbox' = IF blood[s] THEN outbox \cup {Pulse(s), News(s)} ELSE outbox \cup {Pulse(s)}
  BY <1>1
<1> QED BY <1>2 DEF Pulse, News

LEMMA CommitAnnounces ==
  ASSUME TypeOK, NEW s \in Submissions, CommitCorrect(s)
  PROVE  \A d \in Challenges :
           Announced(d)' = IF d = chal(s) /\ blood[s]
                           THEN Announced(d) \cup {s} ELSE Announced(d)
<1>1. \A u : chal(u)' = chal(u)
  BY DEF CommitCorrect, chal
<1>2. ASSUME NEW d \in Challenges, NEW u
      PROVE  u \in Announced(d)' <=> u \in Announced(d) \/ (d = chal(s) /\ blood[s] /\ u = s)
  <2>1. u \in Announced(d)' <=> \E n \in outbox' : n.kind = "announce" /\ chal(n.sub) = d /\ n.sub = u
    BY <1>1 DEF Announced
  <2>2. u \in Announced(d) <=> \E n \in outbox : n.kind = "announce" /\ chal(n.sub) = d /\ n.sub = u
    BY DEF Announced
  <2>3. CASE blood[s]
    BY <2>1, <2>2, <2>3, CommitSends
  <2>4. CASE ~blood[s]
    BY <2>1, <2>2, <2>4, CommitSends
  <2> QED BY <2>3, <2>4
<1> QED BY <1>2

(* The outbox and the ledger are published together. *)
LEMMA CommitMatches ==
  ASSUME TypeOK, OutboxMatchesLedger, NEW s \in Submissions, CommitCorrect(s)
  PROVE  OutboxMatchesLedger'
<1> DEFINE c == chal(s)
           Pulsed == {m.sub : m \in {n \in outbox : n.kind = "pulse"}}
           Solved == UNION {{solves[d][i].sub : i \in DOMAIN solves[d]} : d \in Challenges}
           Told   == {m.sub : m \in {n \in outbox : n.kind = "announce"}}
           Bloody == {m.sub : m \in {n \in outbox : n.kind = "pulse" /\ n.blood}}
<1>0. c \in Challenges /\ req' = req
  BY DEF TypeOK, chal, CommitCorrect
<1>1. ASSUME blood[s]
      PROVE  /\ Pulsed' = Pulsed \cup {s}
             /\ Told' = Told \cup {s}
             /\ Bloody' = Bloody \cup {s}
  <2>1. /\ Pulsed' = Pulsed \cup {s}
        /\ Told' = Told \cup {s}
        /\ Bloody' = Bloody \cup {s}
    BY <1>1, CommitSends
  <2> QED BY <2>1
<1>2. ASSUME ~blood[s]
      PROVE  Pulsed' = Pulsed \cup {s} /\ Told' = Told /\ Bloody' = Bloody
  BY <1>2, CommitSends
<1>5. Solved' = Solved \cup {s}
  <2>1. ASSUME NEW u PROVE u \in Solved' <=> u \in Solved \/ u = s
    <3>1. u \in Solved' <=> \E d \in Challenges : \E i \in DOMAIN solves'[d] : solves'[d][i].sub = u
      OBVIOUS
    <3>2. u \in Solved <=> \E d \in Challenges : \E i \in DOMAIN solves[d] : solves[d][i].sub = u
      OBVIOUS
    <3>3. (\E i \in DOMAIN solves'[c] : solves'[c][i].sub = u)
            <=> (\E i \in DOMAIN solves[c] : solves[c][i].sub = u) \/ u = s
      <4> DEFINE m == Len(solves[c]) + 1
      <4>1. /\ Len(solves[c]) \in Nat
            /\ DOMAIN solves'[c] = 1 .. m /\ DOMAIN solves[c] = 1 .. Len(solves[c])
            /\ \A i \in DOMAIN solves[c] : solves'[c][i] = solves[c][i]
            /\ solves'[c][m] = [sub |-> s, value |-> stamp[s]]
        BY CommitAppends
      <4>2. DOMAIN solves'[c] = DOMAIN solves[c] \cup {m} /\ solves'[c][m].sub = s
        BY <4>1
      <4> HIDE DEF m, c
      <4> QED BY <4>1, <4>2
    <3>4. \A d \in Challenges \ {c} : solves'[d] = solves[d]
      BY CommitSpares
    <3> HIDE DEF Solved, c
    <3> QED BY <1>0, <3>1, <3>2, <3>3, <3>4
  <2> QED BY <2>1
<1>6. \A d \in Challenges :
        bonus'[d] = IF FirstBlood[d] = "bonus" THEN {acct(u) : u \in Announced(d)'} ELSE {}
  <2> SUFFICES ASSUME NEW d \in Challenges
               PROVE  bonus'[d] = IF FirstBlood[d] = "bonus"
                                  THEN {acct(u) : u \in Announced(d)'} ELSE {}
    OBVIOUS
  <2>1. bonus[d] = IF FirstBlood[d] = "bonus" THEN {acct(u) : u \in Announced(d)} ELSE {}
    BY DEF OutboxMatchesLedger
  <2>2. CASE d # c
    BY <2>1, <2>2, CommitSpares, CommitAnnounces
  <2>3. CASE d = c
    <3>1. /\ bonus'[d] = IF blood[s] /\ FirstBlood[d] = "bonus"
                         THEN bonus[d] \cup {acct(s)} ELSE bonus[d]
          /\ Announced(d)' = IF blood[s] THEN Announced(d) \cup {s} ELSE Announced(d)
      BY <2>3, CommitAppends, CommitAnnounces
    <3> HIDE DEF c
    <3>2. CASE blood[s]
      BY <2>1, <2>3, <3>1, <3>2
    <3>3. CASE ~blood[s]
      BY <2>1, <2>3, <3>1, <3>3
    <3> QED BY <3>2, <3>3
  <2> QED BY <2>2, <2>3
<1>7. Pulsed = Solved /\ Told = Bloody
  BY DEF OutboxMatchesLedger
<1>8. Pulsed' = Solved' /\ Told' = Bloody'
  <2>1. /\ Pulsed' = Pulsed \cup {s}
        /\ Told' = IF blood[s] THEN Told \cup {s} ELSE Told
        /\ Bloody' = IF blood[s] THEN Bloody \cup {s} ELSE Bloody
    <3> HIDE DEF Pulsed, Told, Bloody
    <3> QED BY <1>1, <1>2
  <2> HIDE DEF Pulsed, Solved, Told, Bloody
  <2> QED BY <1>5, <1>7, <2>1
<1>9. \A d \in Challenges : bonus'[d] = IF FirstBlood[d] = "bonus"
                                        THEN {acct(u)' : u \in Announced(d)'} ELSE {}
  BY <1>0, <1>6 DEF acct
<1> HIDE DEF c
<1> QED BY <1>8, <1>9 DEF OutboxMatchesLedger

(* One pulse for each solve, an announcement and a bonus exactly for the   *)
(* first bloods: no interleaving, abort or admin write tears them apart.   *)
THEOREM OutboxHolds == Spec => []OutboxMatchesLedger
<1>1. Init => OutboxMatchesLedger
  BY DEF Init, OutboxMatchesLedger, Announced
<1>2. TypeOK /\ OutboxMatchesLedger /\ [Next]_vars => OutboxMatchesLedger'
  <2> SUFFICES ASSUME TypeOK, OutboxMatchesLedger, [Next]_vars PROVE OutboxMatchesLedger'
    OBVIOUS
  <2>1. ASSUME UNCHANGED <<req, solves, bonus, outbox>> PROVE OutboxMatchesLedger'
    <3>1. req' = req /\ solves' = solves /\ bonus' = bonus /\ outbox' = outbox
      BY <2>1
    <3>2. \A c \in Challenges : Announced(c)' = Announced(c)
      BY <3>1 DEF Announced, chal
    <3>3. \A c \in Challenges : bonus'[c] = IF FirstBlood[c] = "bonus"
                                           THEN {acct(s)' : s \in Announced(c)'} ELSE {}
      <4> SUFFICES ASSUME NEW c \in Challenges
                   PROVE  bonus'[c] = IF FirstBlood[c] = "bonus"
                                      THEN {acct(s)' : s \in Announced(c)'} ELSE {}
        OBVIOUS
      <4>1. bonus[c] = IF FirstBlood[c] = "bonus" THEN {acct(s) : s \in Announced(c)} ELSE {}
        BY DEF OutboxMatchesLedger
      <4>2. Announced(c)' = Announced(c) /\ \A s : acct(s)' = acct(s)
        BY <3>1, <3>2 DEF acct
      <4> QED BY <3>1, <4>1, <4>2
    <3>4. {m.sub : m \in {n \in outbox' : n.kind = "pulse"}}
            = UNION {{solves'[c][i].sub : i \in DOMAIN solves'[c]} : c \in Challenges}
      <4> DEFINE Pulsed(o) == {m.sub : m \in {n \in o : n.kind = "pulse"}}
                 Solved(v) == UNION {{v[c][i].sub : i \in DOMAIN v[c]} : c \in Challenges}
      <4>1. Pulsed(outbox) = Solved(solves)
        BY DEF OutboxMatchesLedger
      <4>2. Pulsed(outbox') = Solved(solves')
        <5> HIDE DEF Pulsed, Solved
        <5> QED BY <3>1, <4>1
      <4> QED BY <4>2
    <3>5. {m.sub : m \in {n \in outbox' : n.kind = "announce"}}
            = {m.sub : m \in {n \in outbox' : n.kind = "pulse" /\ n.blood}}
      <4>1. {m.sub : m \in {n \in outbox : n.kind = "announce"}}
              = {m.sub : m \in {n \in outbox : n.kind = "pulse" /\ n.blood}}
        BY DEF OutboxMatchesLedger
      <4>2. outbox' = outbox
        BY <3>1
      <4> QED BY <4>1, <4>2, Zenon
    <3> QED BY <3>3, <3>4, <3>5 DEF OutboxMatchesLedger
  <2>2. ASSUME NEW s \in Submissions, Begin(s) \/ Step(s) \/ Abort(s)
        PROVE  OutboxMatchesLedger'
    <3>1. CASE CommitCorrect(s)
      BY <3>1, CommitMatches
    <3>2. CASE CommitIncorrect(s)
      BY <2>1, <3>2 DEF CommitIncorrect
    <3> QED BY <2>1, <2>2, <3>1, <3>2, StepPublishes
  <2>3. CASE \/ \E c \in Challenges : SetChallengeState(c) \/ DeleteChallenge(c)
             \/ \E a \in Accounts : Moderate(a)
    BY <2>1, <2>3 DEF SetChallengeState, DeleteChallenge, Moderate, ledger
  <2>4. CASE UNCHANGED vars
    BY <2>1, <2>4 DEF vars, ledger
  <2> QED BY <2>2, <2>3, <2>4 DEF Next
<1> QED BY <1>1, <1>2, TypeCorrect, PTL DEF Spec
-----------------------------------------------------------------------------
(* First blood *)

(* The first eligible solve of a challenge in commit order: no index, or one. *)
First(c) == {j \in EligibleIn(c) : \A k \in EligibleIn(c) : j <= k}

(* The commit that finds no eligible solve before it and comes from an     *)
(* eligible account becomes the first; any other leaves the first alone.   *)
LEMMA CommitFirst ==
  ASSUME TypeOK, NEW s \in Submissions, CommitCorrect(s), NEW c \in Challenges, c = chal(s)
  PROVE  IF EligibleIn(c) = {} /\ eligible[acct(s)]
         THEN First(c)' = {Len(solves[c]) + 1} /\ First(c) = {}
         ELSE First(c)' = First(c)
<1> DEFINE n == Len(solves[c])
           E == EligibleIn(c)
           own == eligible[acct(s)]
<1>1. /\ req' = req /\ eligible' = eligible
      /\ n \in Nat /\ DOMAIN solves[c] = 1 .. n /\ DOMAIN solves'[c] = 1 .. n + 1
      /\ \A i \in 1 .. n : solves'[c][i] = solves[c][i]
      /\ solves'[c][n + 1].sub = s
  <2>1. req' = req /\ eligible' = eligible
    BY DEF CommitCorrect
  <2> QED BY <2>1, CommitAppends
<1>2. E \subseteq 1 .. n /\ E' \subseteq 1 .. n + 1
  BY <1>1 DEF EligibleIn
<1>3. \A i \in 1 .. n : i \in E' <=> i \in E
  BY <1>1 DEF EligibleIn, acct
<1>4. n + 1 \in E' <=> own
  BY <1>1 DEF EligibleIn, acct
<1>5. /\ First(c) = {j \in E : \A k \in E : j <= k}
      /\ First(c)' = {j \in E' : \A k \in E' : j <= k}
  BY DEF First
<1> HIDE DEF E, n, own
<1>6. E' = IF own THEN E \cup {n + 1} ELSE E
  <2>1. 1 .. n + 1 = (1 .. n) \cup {n + 1} /\ n + 1 \notin 1 .. n
    BY <1>1
  <2>2. \A x : x \in E' <=> x \in E \/ (x = n + 1 /\ own)
    BY <1>2, <1>3, <1>4, <2>1
  <2> QED BY <2>2
<1>7. CASE E = {} /\ own
  <2>1. E' = {n + 1}
    BY <1>6, <1>7
  <2> QED BY <1>1, <1>5, <1>7, <2>1 DEF E, n, own
<1>8. CASE ~own
  BY <1>5, <1>6, <1>8 DEF E, own
<1>9. CASE E # {} /\ own
  <2>1. PICK e \in E : TRUE
    BY <1>9
  <2>2. /\ E' = E \cup {n + 1}
        /\ \A k \in E : k <= n + 1 /\ ~(n + 1 <= k)
    BY <1>1, <1>2, <1>6, <1>9
  <2>3. First(c)' = First(c)
    <3>1. ASSUME NEW j PROVE j \in First(c)' <=> j \in First(c)
      BY <1>5, <2>1, <2>2
    <3> QED BY <3>1
  <2> QED BY <1>9, <2>3 DEF E, own
<1> QED BY <1>7, <1>8, <1>9

(* Of a challenge the commit is not about, nothing changes. *)
LEMMA CommitElsewhere ==
  ASSUME TypeOK, NEW s \in Submissions, CommitCorrect(s),
         NEW c \in Challenges, c # chal(s)
  PROVE  First(c)' = First(c) /\ Announced(c)' = Announced(c) /\ solves'[c] = solves[c]
<1>1. /\ solves'[c] = solves[c] /\ Announced(c)' = Announced(c)
      /\ req' = req /\ eligible' = eligible
  BY CommitSpares, CommitAnnounces DEF CommitCorrect
<1>2. EligibleIn(c)' = EligibleIn(c)
  BY <1>1 DEF EligibleIn, acct
<1> QED BY <1>1, <1>2 DEF First

LEMMA FirstBloodForm ==
  FirstBloodIsFirst <=>
    (accountEdits = 0 =>
       \A c \in Challenges :
         Announced(c) = IF FirstBlood[c] = "none" THEN {} ELSE {solves[c][i].sub : i \in First(c)})
BY DEF FirstBloodIsFirst, First

LEMMA CommitFirstBlood ==
  ASSUME TypeOK, Inv, AllKept, FirstBloodIsFirst, NEW s \in Submissions, CommitCorrect(s)
  PROVE  FirstBloodIsFirst'
<1> SUFFICES ASSUME accountEdits = 0, NEW c \in Challenges
             PROVE  Announced(c)' = IF FirstBlood[c] = "none" THEN {}
                                    ELSE {solves'[c][i].sub : i \in First(c)'}
  BY DEF FirstBloodIsFirst, First, CommitCorrect, edits
<1>1. Announced(c) = IF FirstBlood[c] = "none" THEN {} ELSE {solves[c][i].sub : i \in First(c)}
  BY FirstBloodForm
<1>2. CASE c # chal(s)
  BY <1>1, <1>2, CommitElsewhere
<1>3. CASE c = chal(s)
  <2> DEFINE n == Len(solves[c])
  <2>1. blood[s] <=> /\ FirstBlood[c] # "none"
                     /\ EligibleIn(c) = {} /\ eligible[acct(s)]
    BY <1>3 DEF AllKept, Kept, TakesFirstBlood, CommitCorrect, TypeOK
  <2>2. Announced(c)' = IF blood[s] THEN Announced(c) \cup {s} ELSE Announced(c)
    BY <1>3, CommitAnnounces
  <2>3. /\ \A i \in DOMAIN solves[c] : solves'[c][i] = solves[c][i]
        /\ solves'[c][n + 1].sub = s
    <3>1. DOMAIN solves[c] = 1 .. n
      BY <1>3, CommitAppends
    <3>2. /\ \A i \in 1 .. Len(solves[chal(s)]) : solves'[chal(s)][i] = solves[chal(s)][i]
          /\ solves'[chal(s)][Len(solves[chal(s)]) + 1].sub = s
      BY CommitAppends
    <3> QED BY <1>3, <3>1, <3>2
  <2>4. First(c) \subseteq DOMAIN solves[c]
    BY DEF First, EligibleIn
  <2>5. CASE FirstBlood[c] = "none"
    BY <1>1, <2>1, <2>2, <2>5
  <2>6. CASE FirstBlood[c] # "none" /\ EligibleIn(c) = {} /\ eligible[acct(s)]
    <3>1. First(c)' = {n + 1} /\ First(c) = {}
      BY <1>3, <2>6, CommitFirst
    <3> HIDE DEF n
    <3> QED BY <1>1, <2>1, <2>2, <2>3, <2>6, <3>1
  <2>7. CASE FirstBlood[c] # "none" /\ ~(EligibleIn(c) = {} /\ eligible[acct(s)])
    <3>1. First(c)' = First(c)
      BY <1>3, <2>7, CommitFirst
    <3>2. {solves'[c][i].sub : i \in First(c)} = {solves[c][i].sub : i \in First(c)}
      BY <2>3, <2>4
    <3> QED BY <1>1, <2>1, <2>2, <2>7, <3>1, <3>2
  <2> QED BY <2>5, <2>6, <2>7
<1> QED BY <1>2, <1>3

(* With accounts left alone, first blood goes to the first eligible solver *)
(* in commit order and to nobody else, however the submissions interleave. *)
THEOREM FirstBloodHolds == Spec => []FirstBloodIsFirst
<1>1. Init => FirstBloodIsFirst
  <2> SUFFICES ASSUME Init, NEW c \in Challenges
               PROVE  /\ Announced(c) = {}
                      /\ First(c) = {}
    BY FirstBloodForm
  <2> QED BY DEF Init, Announced, First, EligibleIn
<1>2. TypeOK /\ Inv /\ AllKept /\ FirstBloodIsFirst /\ [Next]_vars => FirstBloodIsFirst'
  <2> SUFFICES ASSUME TypeOK, Inv, AllKept, FirstBloodIsFirst, [Next]_vars
               PROVE  FirstBloodIsFirst'
    OBVIOUS
  <2>1. ASSUME UNCHANGED <<req, solves, outbox, eligible, accountEdits>>
        PROVE  FirstBloodIsFirst'
    <3>1. req' = req /\ solves' = solves /\ outbox' = outbox /\ eligible' = eligible
          /\ accountEdits' = accountEdits
      BY <2>1
    <3>2. \A c \in Challenges : Announced(c)' = Announced(c)
      BY <3>1 DEF Announced, chal
    <3>3. \A c \in Challenges : EligibleIn(c)' = EligibleIn(c)
      BY <3>1 DEF EligibleIn, acct
    <3>4. \A c \in Challenges : First(c)' = First(c)
      BY <3>3 DEF First
    <3>5. accountEdits = 0 =>
            \A c \in Challenges :
              Announced(c) = IF FirstBlood[c] = "none" THEN {}
                             ELSE {solves[c][i].sub : i \in First(c)}
      BY FirstBloodForm
    <3>6. accountEdits' = 0 =>
            \A c \in Challenges :
              Announced(c)' = IF FirstBlood[c] = "none" THEN {}
                              ELSE {solves'[c][i].sub : i \in First(c)'}
      BY <3>1, <3>2, <3>4, <3>5
    <3> QED BY <3>6 DEF FirstBloodIsFirst, First
  <2>2. ASSUME NEW s \in Submissions, Begin(s) \/ Step(s) \/ Abort(s)
        PROVE  FirstBloodIsFirst'
    <3>1. CASE CommitCorrect(s)
      BY <3>1, CommitFirstBlood
    <3>2. CASE CommitIncorrect(s)
      BY <2>1, <3>2 DEF CommitIncorrect, edits
    <3> QED BY <2>1, <2>2, <3>1, <3>2, StepPublishes
  <2>3. CASE \E c \in Challenges : SetChallengeState(c) \/ DeleteChallenge(c)
    BY <2>1, <2>3 DEF SetChallengeState, DeleteChallenge, ledger
  <2>4. CASE \E a \in Accounts : Moderate(a)
    <3>1. accountEdits' # 0
      BY <2>4 DEF TypeOK, Moderate
    <3> QED BY <3>1 DEF FirstBloodIsFirst
  <2>5. CASE UNCHANGED vars
    BY <2>1, <2>5 DEF vars, ledger, edits
  <2> QED BY <2>2, <2>3, <2>4, <2>5 DEF Next
<1> QED BY <1>1, <1>2, TypeCorrect, InvHolds, KeptHolds, PTL DEF Spec
-----------------------------------------------------------------------------
(* The submission path implements the serial ledger *)

Entries == [acct : Accounts, value : Nat, blood : BOOLEAN]

LEMMA BoardRow ==
  ASSUME TypeOK, NEW c \in Challenges
  PROVE  /\ DOMAIN Board[c] = 1 .. Len(solves[c]) /\ Len(solves[c]) \in Nat
         /\ DOMAIN solves[c] = 1 .. Len(solves[c])
         /\ \A i \in 1 .. Len(solves[c]) :
              Board[c][i] = [acct  |-> acct(solves[c][i].sub),
                             value |-> solves[c][i].value,
                             blood |-> solves[c][i].sub \in Announced(c)]
         /\ Board[c] \in Seq(Entries) /\ Len(Board[c]) = Len(solves[c])
<1> DEFINE Row(i) == [acct  |-> acct(solves[c][i].sub),
                      value |-> solves[c][i].value,
                      blood |-> solves[c][i].sub \in Announced(c)]
<1>1. Len(solves[c]) \in Nat /\ DOMAIN solves[c] = 1 .. Len(solves[c])
  <2>1. solves[c] \in Seq([sub : Submissions, value : Nat])
    BY DEF TypeOK
  <2> QED BY <2>1
<1>2. Board[c] = [i \in 1 .. Len(solves[c]) |-> Row(i)]
  BY <1>1 DEF Board
<1>3. \A i \in 1 .. Len(solves[c]) : Row(i) \in Entries
  BY <1>1, SolveRow DEF Entries
<1> HIDE DEF Row
<1>4. Board[c] \in [1 .. Len(solves[c]) -> Entries]
  BY <1>2, <1>3
<1>5. Board[c] \in Seq(Entries) /\ Len(Board[c]) = Len(solves[c])
  BY <1>1, <1>4
<1> QED BY <1>1, <1>2, <1>5 DEF Row

(* Who is on the serial board, and which of its entries count. *)
LEMMA BoardReads ==
  ASSUME TypeOK, NEW c \in Challenges
  PROVE  /\ \A a : Serial!On(a, c) <=> a \in Solvers(c)
         /\ Serial!Counted(c) = EligibleIn(c)
<1>1. DOMAIN Board[c] = DOMAIN solves[c]
  BY BoardRow
<1>2. ASSUME NEW i \in DOMAIN solves[c] PROVE Board[c][i].acct = acct(solves[c][i].sub)
  <2>1. Board[c][i] = [acct  |-> acct(solves[c][i].sub),
                       value |-> solves[c][i].value,
                       blood |-> solves[c][i].sub \in Announced(c)]
    BY BoardRow
  <2> QED BY <2>1
<1> QED BY <1>1, <1>2 DEF Serial!On, Serial!Counted, Solvers, EligibleIn

LEMMA SameCount == \A S : Serial!Cardinality(S) = Cardinality(S)
  BY Zenon DEF Serial!Cardinality, Cardinality

LEMMA SamePrice ==
  ASSUME NEW curve, NEW n
  PROVE  Serial!RecalcValue(curve, n) = RecalcValue(curve, n)
         /\ (Serial!Decays(curve.function) <=> Decays(curve.function))
BY DEF Serial!RecalcValue, RecalcValue, Serial!BeyondFirst, BeyondFirst, Serial!AtMost, AtMost,
   Serial!AtLeast, AtLeast, Serial!Decays, Decays

(* What is not a commit does not show on the serial board. *)
LEMMA BoardSame ==
  ASSUME req' = req, solves' = solves, outbox' = outbox
  PROVE  Board' = Board
<1>1. \A c \in Challenges : Announced(c)' = Announced(c)
  BY DEF Announced, chal
<1>2. Board' = [c \in Challenges |-> [i \in DOMAIN solves[c] |->
                 [acct  |-> acct(solves[c][i].sub),
                  value |-> solves[c][i].value,
                  blood |-> solves[c][i].sub \in Announced(c)]]]
  BY <1>1 DEF Board, acct
<1> QED BY <1>2 DEF Board
(* The commit adds the entry the serial program would, at the end.         *)
LEMMA CommitOnBoard ==
  ASSUME TypeOK, Inv, AllKept, FirstBloodIsFirst, accountEdits = 0,
         NEW s \in Submissions, CommitCorrect(s)
  PROVE  Board' = [Board EXCEPT ![chal(s)] = Append(@,
           [acct |-> acct(s), value |-> price[chal(s)], blood |-> TakesFirstBlood(s)])]
<1> DEFINE Row(d, i) == [acct  |-> acct(solves'[d][i].sub),
                         value |-> solves'[d][i].value,
                         blood |-> solves'[d][i].sub \in Announced(d)']
           e == [acct |-> acct(s), value |-> price[chal(s)], blood |-> TakesFirstBlood(s)]
<1>0. /\ chal(s) \in Challenges /\ acct(s) \in Accounts /\ pc[s] = "priced"
      /\ req' = req
  BY DEF TypeOK, chal, acct, CommitCorrect
<1>1. Board' = [d \in Challenges |-> [i \in DOMAIN solves'[d] |-> Row(d, i)]]
  BY <1>0 DEF Board, acct
<1>2. stamp[s] = price[chal(s)] /\ blood[s] = TakesFirstBlood(s)
  BY <1>0 DEF AllKept, Kept, RowPhase
<1>3. ASSUME NEW d \in Challenges, d # chal(s) PROVE Board'[d] = Board[d]
  <2>1. solves'[d] = solves[d] /\ Announced(d)' = Announced(d)
    BY <1>3, CommitSpares, CommitAnnounces
  <2> QED BY <1>1, <2>1 DEF Board
<1>4. ASSUME NEW c \in Challenges, c = chal(s) PROVE Board'[c] = Append(Board[c], e)
  <2> DEFINE n == Len(solves[c])
  <2>1. /\ n \in Nat /\ DOMAIN solves'[c] = 1 .. n + 1 /\ DOMAIN solves[c] = 1 .. n
        /\ \A i \in 1 .. n : solves'[c][i] = solves[c][i]
        /\ solves'[c][n + 1] = [sub |-> s, value |-> stamp[s]]
    BY <1>4, CommitAppends
  <2>2. Announced(c)' = IF blood[s] THEN Announced(c) \cup {s} ELSE Announced(c)
    BY <1>4, CommitAnnounces
  <2>3. \A i \in 1 .. n : solves[c][i].sub # s
    BY <1>0, <1>4, <2>1 DEF Inv, SolveReserved, HoldsSolve, Solvers
  <2>4. s \notin Announced(c)
    <3>1. Announced(c) \subseteq {solves[c][i].sub : i \in First(c)}
      BY FirstBloodForm
    <3>2. First(c) \subseteq 1 .. n
      BY <2>1 DEF First, EligibleIn
    <3> QED BY <2>3, <3>1, <3>2
  <2>5. /\ Board[c] \in Seq(Entries) /\ Len(Board[c]) = n
        /\ \A i \in 1 .. n : Board[c][i] = [acct  |-> acct(solves[c][i].sub),
                                            value |-> solves[c][i].value,
                                            blood |-> solves[c][i].sub \in Announced(c)]
    BY BoardRow
  <2>6. e \in Entries
    BY <1>0 DEF Entries, TakesFirstBlood, TypeOK
  <2>7. Board'[c] = [i \in 1 .. n + 1 |-> Row(c, i)]
    BY <1>1, <2>1
  <2>8. \A i \in 1 .. n : Row(c, i) = Board[c][i]
    BY <2>1, <2>2, <2>3, <2>5
  <2>9. Row(c, n + 1) = e
    <3>1. solves'[c][n + 1].sub = s /\ solves'[c][n + 1].value = stamp[s]
      BY <2>1
    <3>2. s \in Announced(c)' <=> blood[s]
      BY <2>2, <2>4
    <3>3. blood[s] \in BOOLEAN /\ (s \in Announced(c)') \in BOOLEAN
      BY DEF TypeOK
    <3> QED BY <1>2, <1>4, <3>1, <3>2, <3>3
  <2> HIDE DEF n, e, Row
  <2>10. Board'[c] \in Seq(Entries) /\ Len(Board'[c]) = n + 1
    <3>1. \A i \in 1 .. n : Board[c][i] \in Entries
      BY <2>5, ElementOfSeq
    <3>2. \A i \in 1 .. n + 1 : i \in 1 .. n \/ i = n + 1
      BY <2>1
    <3>3. Board'[c] \in [1 .. n + 1 -> Entries]
      BY <2>6, <2>7, <2>8, <2>9, <3>1, <3>2
    <3> QED BY <2>1, <3>3
  <2>11. /\ Append(Board[c], e) \in Seq(Entries) /\ Len(Append(Board[c], e)) = n + 1
         /\ \A i \in 1 .. n : Append(Board[c], e)[i] = Board[c][i]
         /\ Append(Board[c], e)[n + 1] = e
    BY <2>5, <2>6
  <2>12. \A i \in 1 .. n + 1 : Board'[c][i] = Append(Board[c], e)[i]
    BY <2>1, <2>7, <2>8, <2>9, <2>11
  <2> QED BY <2>10, <2>11, <2>12, SeqEqual
<1> HIDE DEF e, Row
<1>5. Board'[chal(s)] = Append(Board[chal(s)], e)
  BY <1>0, <1>4
<1>6. Board' = [Board EXCEPT ![chal(s)] = Append(@, e)]
  <2>1. Board \in [Challenges -> {Board[d] : d \in Challenges}] /\ DOMAIN Board' = Challenges
    BY <1>1 DEF Board
  <2> QED BY <1>0, <1>1, <1>3, <1>5, <2>1
<1> QED BY <1>6 DEF e

(* A correct commit is one serial hit. *)
LEMMA CommitHits ==
  ASSUME TypeOK, Inv, AllKept, FirstBloodIsFirst, accountEdits = 0,
         NEW s \in Submissions, CommitCorrect(s)
  PROVE  Serial!Hit(acct(s), chal(s))
<1> DEFINE c == chal(s)
           a == acct(s)
<1>0. c \in Challenges /\ a \in Accounts /\ pc[s] = "priced" /\ Requires[c] \subseteq Challenges
  BY SubmitConstants DEF TypeOK, chal, acct, CommitCorrect
<1>1. state[c] = "visible"
  BY <1>0, SubmitConstants DEF Inv, LocksHeld, LockedIsVisible, RowPhase
<1>2. /\ PrereqsMet(s) /\ (Cap[c] > 0 => wrong[c][a] < Cap[c])
      /\ ask[s] = Recalculated(s)
  BY <1>0 DEF AllKept, Kept, Running, RowPhase
<1>3. Serial!Playable(a, c)
  BY <1>0, <1>2, BoardReads DEF Serial!Playable, PrereqsMet
<1>4. ~Serial!On(a, c)
  BY <1>0, BoardReads DEF Inv, SolveReserved, HoldsSolve
<1>5. TakesFirstBlood(s) = (FirstBlood[c] # "none" /\ eligible[a] /\ Serial!Counted(c) = {})
  BY <1>0, BoardReads DEF TakesFirstBlood
<1>6. Board' = [Board EXCEPT ![c] = Append(@,
        [acct |-> a, value |-> price[c],
         blood |-> FirstBlood[c] # "none" /\ eligible[a] /\ Serial!Counted(c) = {}])]
  BY <1>5, CommitOnBoard
<1>7. price' = [price EXCEPT ![c] =
        IF Serial!Decays(Curve[c].function)
        THEN Serial!RecalcValue(Curve[c], Serial!Cardinality(Serial!Counted(c))
                                            + (IF eligible[a] THEN 1 ELSE 0))
        ELSE @]
  <2>1. price' = [price EXCEPT ![c] = Recalculated(s)]
    BY <1>2 DEF CommitCorrect
  <2>2. Serial!Cardinality(Serial!Counted(c)) = Cardinality(EligibleIn(c))
    BY <1>0, BoardReads, SameCount
  <2> QED BY <1>0, <2>1, <2>2, SamePrice DEF Recalculated
<1>8. UNCHANGED <<wrong, state, eligible>>
  BY DEF CommitCorrect
<1>9. Serial!Hit(a, c)
  <2> HIDE DEF a, c
  <2> QED BY <1>1, <1>2, <1>3, <1>4, <1>6, <1>7, <1>8, Zenon DEF Serial!Hit
<1> QED BY <1>9

(* An incorrect commit is one serial miss. *)
LEMMA CommitMisses ==
  ASSUME TypeOK, Inv, AllKept, NEW s \in Submissions, CommitIncorrect(s)
  PROVE  Serial!Miss(acct(s), chal(s))
<1> DEFINE c == chal(s)
           a == acct(s)
<1>0. c \in Challenges /\ a \in Accounts /\ pc[s] = "logged" /\ Requires[c] \subseteq Challenges
  BY SubmitConstants DEF TypeOK, chal, acct, CommitIncorrect
<1>1. state[c] # "deleted"
  BY <1>0 DEF Inv, LockedIsVisible, HoldsRow
<1>2. PrereqsMet(s) /\ (Cap[c] > 0 => wrong[c][a] < Cap[c])
  BY <1>0 DEF AllKept, Kept, Running
<1>3. Serial!Playable(a, c)
  BY <1>0, <1>2, BoardReads DEF Serial!Playable, PrereqsMet
<1>4. UNCHANGED <<Board, price, state, eligible>>
  BY BoardSame DEF CommitIncorrect
<1>5. wrong' = [wrong EXCEPT ![c][a] = @ + 1]
  BY DEF CommitIncorrect
<1> QED BY <1>1, <1>2, <1>3, <1>4, <1>5 DEF Serial!Miss

(* Hiding, showing and deleting a challenge is the serial operator's step. *)
LEMMA AdminCurates ==
  ASSUME TypeOK, NEW c \in Challenges, SetChallengeState(c) \/ DeleteChallenge(c)
  PROVE  Serial!Curate(c)
<1>1. UNCHANGED <<wrong, Board, price, eligible>>
  <2>1. req' = req /\ solves' = solves /\ outbox' = outbox
        /\ wrong' = wrong /\ price' = price /\ eligible' = eligible
    BY DEF SetChallengeState, DeleteChallenge, ledger
  <2> QED BY <2>1, BoardSame
<1>2. CASE SetChallengeState(c)
  BY <1>1, <1>2 DEF SetChallengeState, Serial!Curate
<1>3. CASE DeleteChallenge(c)
  <2>1. state[c] # "deleted" /\ ~Referenced(c) /\ state' = [state EXCEPT ![c] = "deleted"]
    BY <1>3 DEF DeleteChallenge
  <2>2. solves[c] = << >> /\ \A a \in Accounts : ~(wrong[c][a] > 0) /\ wrong[c][a] \in Nat
    BY <2>1 DEF Referenced, TypeOK
  <2>3. Board[c] = << >>
    <3>1. Board[c] \in Seq(Entries) /\ Len(Board[c]) = 0
      BY <2>2, BoardRow
    <3> QED BY <3>1, EmptySeq
  <2>4. Serial!Untouched(c)
    BY <2>2, <2>3 DEF Serial!Untouched
  <2> QED BY <1>1, <2>1, <2>4 DEF Serial!Curate
<1> QED BY <1>2, <1>3

(* The interleaved transactions, with their aborts and the admin writes    *)
(* beside them, implement the serial ledger until an account is moderated: *)
(* every commit is one serial submission, nothing else shows.              *)
THEOREM Refinement == Spec => ImplementsLedger
<1>1. Init => Serial!Init
  <2> SUFFICES ASSUME Init PROVE Serial!Init
    OBVIOUS
  <2>1. Board = [c \in Challenges |-> << >>]
    <3>1. \A c \in Challenges : solves[c] = << >>
      BY DEF Init
    <3>2. \A c \in Challenges : [i \in DOMAIN solves[c] |->
             [acct  |-> acct(solves[c][i].sub),
              value |-> solves[c][i].value,
              blood |-> solves[c][i].sub \in Announced(c)]] = << >>
      BY <3>1
    <3> QED BY <3>2 DEF Board
  <2> QED BY <2>1 DEF Init, Serial!Init
<1>2. TypeOK /\ Inv /\ AllKept /\ FirstBloodIsFirst /\ [Next]_vars
        => [accountEdits' = 0 => Serial!Next]_(Serial!vars)
  <2> SUFFICES ASSUME TypeOK, Inv, AllKept, FirstBloodIsFirst, [Next]_vars
               PROVE  (accountEdits' = 0 => Serial!Next) \/ UNCHANGED Serial!vars
    OBVIOUS
  <2>1. ASSUME UNCHANGED <<req, wrong, solves, outbox, price, state, eligible>>
        PROVE  UNCHANGED Serial!vars
    BY <2>1, BoardSame DEF Serial!vars
  <2>2. ASSUME NEW s \in Submissions, Begin(s) \/ Step(s) \/ Abort(s), accountEdits' = 0
        PROVE  Serial!Next \/ UNCHANGED Serial!vars
    <3>0. chal(s) \in Challenges /\ acct(s) \in Accounts
      BY DEF TypeOK, chal, acct
    <3>1. CASE CommitCorrect(s)
      <4>1. accountEdits = 0
        BY <2>2, <3>1 DEF CommitCorrect, edits
      <4> QED BY <3>0, <3>1, <4>1, CommitHits DEF Serial!Next
    <3>2. CASE CommitIncorrect(s)
      BY <3>0, <3>2, CommitMisses DEF Serial!Next
    <3> QED BY <2>1, <2>2, <3>1, <3>2, StepPublishes
  <2>3. CASE \E c \in Challenges : SetChallengeState(c) \/ DeleteChallenge(c)
    BY <2>3, AdminCurates DEF Serial!Next
  <2>4. CASE \E a \in Accounts : Moderate(a)
    BY <2>4 DEF Moderate, TypeOK
  <2>5. CASE UNCHANGED vars
    BY <2>1, <2>5 DEF vars, ledger
  <2> QED BY <2>2, <2>3, <2>4, <2>5 DEF Next
<1> QED
  BY <1>1, <1>2, TypeCorrect, InvHolds, KeptHolds, FirstBloodHolds, PTL
     DEF Spec, ImplementsLedger
=============================================================================
