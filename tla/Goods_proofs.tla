----------------------------- MODULE Goods_proofs -----------------------------
(* Theorems about buying hints, for any number of requests, accounts,      *)
(* hints and manual awards.                                                *)
EXTENDS MCGoods, FiniteSetTheorems, TLAPS

-----------------------------------------------------------------------------
(* Types *)

LEMMA Labels ==
  /\ Running = {"gate", "lock", "owned", "score", "charge", "unlock", "commit"}
  /\ Outcomes = {"unlocked", "not_found", "hint_locked", "already_unlocked", "insufficient",
                 "failed"}
  /\ Locked = {"owned", "score", "charge", "unlock", "commit"}
  /\ Paying = {"charge", "unlock", "commit"}
  BY DEF Running, Outcomes, Locked, Paying

LEMMA FinishType ==
  ASSUME TypeOK, NEW r \in Requests, NEW o \in Outcomes, Finish(r, o)
  PROVE  /\ pc' \in [Requests -> {"idle"} \cup Running \cup Outcomes]
         /\ spendLock' \in [Accounts -> Requests \cup {None}]
         /\ UNCHANGED <<req, charged, open, shown, price, exists, edited>>
  BY DEF TypeOK, Finish, Goto, board

LEMMA RollbackType ==
  ASSUME TypeOK, NEW r \in Requests, NEW o \in Outcomes, Rollback(r, o)
  PROVE  TypeOK'
  BY FinishType DEF TypeOK, Rollback, purse

LEMMA ProceedType ==
  ASSUME TypeOK, NEW r \in Requests, NEW l \in Running \cup Outcomes, Proceed(r, l)
  PROVE  TypeOK'
  BY DEF TypeOK, Proceed, Goto, board, purse

LEMMA StepType ==
  ASSUME TypeOK, NEW r \in Requests, GetHint(r) \/ Step(r) \/ Abort(r)
  PROVE  TypeOK'
<1> USE HintConstants, Labels
<1>0. acct(r) \in Accounts /\ hint(r) \in Hints
  BY DEF TypeOK, acct, hint
<1>1. CASE GetHint(r)
  <2>1. CASE shown /\ hint(r) \in exists
    <3>1. /\ charged' = [charged EXCEPT ![r] = price[hint(r)]]
          /\ pc' = [pc EXCEPT ![r] = "gate"]
          /\ UNCHANGED <<req, spendLock, board, purse>>
      BY <1>1, <2>1 DEF GetHint, Goto
    <3>2. charged' \in [Requests -> Nat]
      BY <1>0, <3>1 DEF TypeOK
    <3> QED BY <3>1, <3>2 DEF TypeOK, board, purse
  <2>2. CASE ~(shown /\ hint(r) \in exists)
    BY <1>1, <2>2, ProceedType DEF GetHint
  <2> QED BY <2>1, <2>2
<1>2. CASE Gate(r)
  BY <1>2, RollbackType, ProceedType DEF Gate
<1>3. CASE LockAccount(r)
  BY <1>0, <1>3 DEF TypeOK, LockAccount, Goto, board, purse
<1>4. CASE CheckOwned(r)
  BY <1>4, RollbackType, ProceedType DEF CheckOwned
<1>5. CASE CheckScore(r)
  BY <1>5, RollbackType, ProceedType DEF CheckScore
<1>6. CASE InsertCharge(r)
  BY <1>6, ProceedType DEF InsertCharge
<1>7. CASE InsertUnlock(r)
  BY <1>7, RollbackType, ProceedType DEF InsertUnlock
<1>8. CASE Commit(r)
  <2>1. total' \in [Accounts -> Int]
    BY <1>0, <1>8 DEF TypeOK, Commit
  <2>2. charges' \subseteq [by : Requests, acct : Accounts, value : Int]
    BY <1>0, <1>8 DEF TypeOK, Commit
  <2>3. unlocks' \subseteq [by : Requests, acct : Accounts, hint : Hints]
    BY <1>0, <1>8 DEF TypeOK, Commit
  <2>4. Finish(r, "unlocked") /\ UNCHANGED <<holder, granted, docked, solved>>
    BY <1>8 DEF Commit
  <2> QED BY <2>1, <2>2, <2>3, <2>4, FinishType DEF TypeOK
<1>9. CASE Abort(r)
  BY <1>9, RollbackType DEF Abort
<1> QED BY <1>1, <1>2, <1>3, <1>4, <1>5, <1>6, <1>7, <1>8, <1>9 DEF Step

Elsewhere ==
  \/ \E a \in Accounts : EarnSolve(a)
  \/ \E w \in Awards : RevokeAward(w) \/ \E a \in Accounts : GrantAward(w, a)
  \/ \E h \in Hints : UpdateHint(h) \/ DeleteHint(h)
  \/ SetChallengeState

LEMMA ElsewhereType ==
  ASSUME TypeOK, Elsewhere
  PROVE  TypeOK'
<1> USE HintConstants
<1>1. ASSUME NEW a \in Accounts, EarnSolve(a) PROVE TypeOK'
  <2>1. total' \in [Accounts -> Int] /\ open' \subseteq Accounts /\ solved' \in Nat
    BY <1>1 DEF TypeOK, EarnSolve
  <2> QED BY <1>1, <2>1 DEF TypeOK, EarnSolve
<1>2. ASSUME NEW w \in Awards, RevokeAward(w) PROVE TypeOK'
  <2>1. holder[w] \in Accounts
    BY <1>2 DEF TypeOK, RevokeAward
  <2>2. total' \in [Accounts -> Int] /\ holder' \in [Awards -> Accounts \cup {None}]
    BY <1>2, <2>1 DEF TypeOK, RevokeAward
  <2>3. docked' \in Nat
    BY <1>2 DEF TypeOK, RevokeAward
  <2> QED BY <1>2, <2>2, <2>3 DEF TypeOK, RevokeAward, board
<1>3. ASSUME NEW w \in Awards, NEW a \in Accounts, GrantAward(w, a) PROVE TypeOK'
  <2>1. total' \in [Accounts -> Int] /\ holder' \in [Awards -> Accounts \cup {None}]
    BY <1>3 DEF TypeOK, GrantAward
  <2>2. docked' \in Nat /\ granted' \subseteq Awards
    BY <1>3 DEF TypeOK, GrantAward
  <2> QED BY <1>3, <2>1, <2>2 DEF TypeOK, GrantAward, board
<1>4. ASSUME NEW h \in Hints, UpdateHint(h) PROVE TypeOK'
  BY <1>4 DEF TypeOK, UpdateHint, purse
<1>5. ASSUME NEW h \in Hints, DeleteHint(h) PROVE TypeOK'
  BY <1>5 DEF TypeOK, DeleteHint, purse
<1>6. CASE SetChallengeState
  BY <1>6 DEF TypeOK, SetChallengeState, purse
<1> QED BY <1>1, <1>2, <1>3, <1>4, <1>5, <1>6 DEF Elsewhere

(* Type correctness: the balances stay integers, every row names a request, *)
(* an account and a hint that are there.                                   *)
THEOREM HintTypeCorrect == Spec => []TypeOK
<1>1. Init => TypeOK
  BY HintConstants DEF Init, TypeOK
<1>2. TypeOK /\ [Next]_vars => TypeOK'
  <2> SUFFICES ASSUME TypeOK, [Next]_vars PROVE TypeOK'
    OBVIOUS
  <2>1. CASE Next
    BY <2>1, StepType, ElsewhereType DEF Next, Elsewhere
  <2>2. CASE UNCHANGED vars
    BY <2>2 DEF TypeOK, vars, board, purse
  <2> QED BY <2>1, <2>2
<1> QED BY <1>1, <1>2, PTL DEF Spec

-----------------------------------------------------------------------------
(* What a statement of one request does *)

(* It moves no other request, takes no lock from one, and leaves the board *)
(* alone; the price it pays is the one it read first.                      *)
LEMMA StepFrame ==
  ASSUME TypeOK, NEW r \in Requests, GetHint(r) \/ Step(r) \/ Abort(r)
  PROVE  /\ UNCHANGED <<req, open, shown, price, exists, edited, docked>>
         /\ \A t \in Requests \ {r} : pc'[t] = pc[t] /\ charged'[t] = charged[t]
         /\ \A a \in Accounts, t \in Requests \ {r} : spendLock[a] = t => spendLock'[a] = t
         /\ pc[r] \notin Outcomes
<1> USE HintConstants, Labels DEF TypeOK
<1> DEFINE Frame == /\ UNCHANGED <<req, open, shown, price, exists, edited, docked>>
                    /\ \A t \in Requests \ {r} : pc'[t] = pc[t] /\ charged'[t] = charged[t]
                    /\ \A a \in Accounts, t \in Requests \ {r} :
                         spendLock[a] = t => spendLock'[a] = t
<1>1. ASSUME NEW o, Finish(r, o), docked' = docked PROVE Frame
  BY <1>1 DEF Finish, Goto, board
<1>2. ASSUME NEW o, Rollback(r, o) PROVE Frame
  BY <1>1, <1>2 DEF Rollback, purse
<1>3. ASSUME NEW l, Proceed(r, l) PROVE Frame
  BY <1>3 DEF Proceed, Goto, board, purse
<1>4. CASE GetHint(r)
  <2>1. CASE shown /\ hint(r) \in exists
    BY <1>4, <2>1 DEF GetHint, Goto, board, purse
  <2>2. CASE ~(shown /\ hint(r) \in exists)
    BY <1>3, <1>4, <2>2 DEF GetHint
  <2> QED BY <2>1, <2>2
<1>5. CASE LockAccount(r)
  <2>1. /\ pc' = [pc EXCEPT ![r] = "owned"]
        /\ spendLock' = [spendLock EXCEPT ![acct(r)] = r] /\ spendLock[acct(r)] = None
        /\ UNCHANGED <<req, charged, board, purse>> /\ pc[r] = "lock"
    BY <1>5 DEF LockAccount, Goto
  <2> QED BY <2>1 DEF board, purse
<1>6. CASE Gate(r) \/ CheckOwned(r) \/ CheckScore(r) \/ InsertCharge(r) \/ InsertUnlock(r)
           \/ Abort(r)
  BY <1>2, <1>3, <1>6 DEF Gate, CheckOwned, CheckScore, InsertCharge, InsertUnlock, Abort
<1>7. CASE Commit(r)
  BY <1>1, <1>7 DEF Commit
<1> QED BY <1>4, <1>5, <1>6, <1>7
        DEF Step, GetHint, LockAccount, Gate, CheckOwned, CheckScore, InsertCharge,
            InsertUnlock, Commit, Abort

(* What the request has established in the phase it enters.                *)
LEMMA StepWhere ==
  ASSUME TypeOK, Inv, NEW r \in Requests, GetHint(r) \/ Step(r) \/ Abort(r)
  PROVE  /\ pc'[r] \in Locked => spendLock'[acct(r)] = r
         /\ pc'[r] \in Paying /\ docked = 0 => charged'[r] <= total'[acct(r)]
         /\ pc'[r] \in Paying \cup {"score"} =>
              unlocks' = unlocks /\ ~Owns(acct(r), hint(r))
         /\ pc'[r] \in {"lock"} \cup Locked =>
              unlocks' = unlocks /\ \A n \in Needs[hint(r)] : Owns(acct(r), n)
         /\ pc'[r] = "commit" => hint(r) \in exists
<1> USE HintConstants, Labels
<1> DEFINE Goal ==
       /\ pc'[r] \in Locked => spendLock'[acct(r)] = r
       /\ pc'[r] \in Paying /\ docked = 0 => charged'[r] <= total'[acct(r)]
       /\ pc'[r] \in Paying \cup {"score"} => unlocks' = unlocks /\ ~Owns(acct(r), hint(r))
       /\ pc'[r] \in {"lock"} \cup Locked =>
            unlocks' = unlocks /\ \A n \in Needs[hint(r)] : Owns(acct(r), n)
       /\ pc'[r] = "commit" => hint(r) \in exists
<1>0. /\ acct(r) \in Accounts /\ hint(r) \in Hints
      /\ total[acct(r)] \in Int /\ charged[r] \in Nat
  BY DEF TypeOK, acct, hint
<1>1. ASSUME NEW o \in Outcomes, Finish(r, o) PROVE Goal
  BY <1>1 DEF Finish, Goto, TypeOK
<1>2. ASSUME NEW o \in Outcomes, Rollback(r, o) PROVE Goal
  BY <1>1, <1>2 DEF Rollback
<1>3. ASSUME NEW l, Proceed(r, l)
      PROVE  /\ pc'[r] = l
             /\ UNCHANGED <<spendLock, charged, total, unlocks>>
  BY <1>3 DEF Proceed, Goto, TypeOK, purse
<1>4. CASE GetHint(r)
  <2>1. pc'[r] \in {"gate", "not_found"}
    BY <1>4 DEF GetHint, Proceed, Goto, TypeOK
  <2> QED BY <2>1
<1>5. CASE Gate(r)
  BY <1>2, <1>3, <1>5 DEF Gate
<1>6. CASE LockAccount(r)
  <2>1. /\ pc'[r] = "owned" /\ spendLock'[acct(r)] = r /\ unlocks' = unlocks
        /\ pc[r] = "lock"
    BY <1>0, <1>6 DEF LockAccount, Goto, TypeOK, purse
  <2> QED BY <2>1 DEF Inv, GateKept
<1>7. CASE CheckOwned(r)
  BY <1>2, <1>3, <1>7 DEF CheckOwned, Inv, SpendLocked, GateKept
<1>8. CASE CheckScore(r)
  <2>1. CASE total[acct(r)] < charged[r]
    BY <1>2, <1>8, <2>1 DEF CheckScore
  <2>2. CASE ~(total[acct(r)] < charged[r])
    <3>1. charged[r] <= total[acct(r)]
      BY <1>0, <2>2
    <3>2. pc[r] = "score" /\ Proceed(r, "charge")
      BY <1>8, <2>2 DEF CheckScore
    <3> QED BY <1>3, <3>1, <3>2 DEF Inv, SpendLocked, GateKept, NotOwnedYet
  <2> QED BY <2>1, <2>2
<1>9. CASE InsertCharge(r)
  BY <1>3, <1>9 DEF InsertCharge, Inv, SpendLocked, GateKept, NotOwnedYet, Affordable
<1>10. CASE InsertUnlock(r)
  <2>1. CASE \E o \in Outcomes : Rollback(r, o)
    BY <1>2, <2>1
  <2>2. CASE Proceed(r, "commit") /\ hint(r) \in exists /\ pc[r] = "unlock"
    BY <1>3, <2>2 DEF Inv, SpendLocked, GateKept, NotOwnedYet, Affordable
  <2> QED BY <1>10, <2>1, <2>2 DEF InsertUnlock
<1>11. CASE Commit(r)
  BY <1>1, <1>11 DEF Commit
<1>12. CASE Abort(r)
  BY <1>2, <1>12 DEF Abort
<1> QED
  BY <1>4, <1>5, <1>6, <1>7, <1>8, <1>9, <1>10, <1>11, <1>12 DEF Step

-----------------------------------------------------------------------------
(* The invariant *)

(* Two requests past the lock spend for two accounts.                      *)
LEMMA OneSpender ==
  ASSUME Inv, NEW r \in Requests, NEW t \in Requests \ {r},
         pc[r] \in Locked, pc[t] \in Locked
  PROVE  acct(r) # acct(t)
  BY DEF Inv, SpendLocked

(* A statement that commits nothing.                                       *)
LEMMA QuietStepInv ==
  ASSUME TypeOK, Inv, NEW r \in Requests, GetHint(r) \/ Step(r) \/ Abort(r),
         UNCHANGED <<total, charges, unlocks>>
  PROVE  Inv'
<1> USE HintConstants, Labels
<1>1. /\ UNCHANGED <<req, exists, docked, total, charges, unlocks>>
      /\ \A t \in Requests \ {r} : pc'[t] = pc[t] /\ charged'[t] = charged[t]
      /\ \A a \in Accounts, t \in Requests \ {r} : spendLock[a] = t => spendLock'[a] = t
      /\ pc[r] \notin Outcomes
  BY StepFrame
<1>2. \A t \in Requests : acct(t) \in Accounts
  BY DEF TypeOK, acct
<1>3. SpendLocked'
  BY <1>1, <1>2, StepWhere DEF Inv, SpendLocked, acct
<1>4. Affordable'
  BY <1>1, StepWhere DEF Inv, Affordable, acct
<1>5. NotOwnedYet'
  BY <1>1, StepWhere DEF Inv, NotOwnedYet, acct, hint, Owns
<1>6. ByCommitted'
  BY <1>1 DEF Inv, ByCommitted, TypeOK
<1>7. GateKept'
  <2> SUFFICES ASSUME NEW t \in Requests, pc'[t] \in {"lock"} \cup Locked,
                      NEW n \in Needs[hint(t)]
               PROVE  Owns(acct(t), n)
    BY <1>1 DEF GateKept, acct, hint, Owns
  <2>1. CASE t = r
    BY <1>1, <2>1, StepWhere DEF acct, hint, Owns
  <2>2. CASE t # r
    BY <1>1, <2>2 DEF Inv, GateKept
  <2> QED BY <2>1, <2>2
<1>8. InFlightExists'
  BY <1>1, StepWhere DEF Inv, InFlightExists, hint
<1>9. NeverOverdrawn' /\ OneChargePerUnlock' /\ BoughtOnce' /\ UnlocksExist' /\ NeedsFirst'
  BY <1>1 DEF Inv, NeverOverdrawn, OneChargePerUnlock, BoughtOnce, UnlocksExist, NeedsFirst, Owns
<1> QED BY <1>3, <1>4, <1>5, <1>6, <1>7, <1>8, <1>9 DEF Inv

(* The commit: the charge and the unlock appear together.                  *)
LEMMA CommitInv ==
  ASSUME TypeOK, Inv, NEW r \in Requests, Commit(r)
  PROVE  Inv'
<1> USE HintConstants, Labels
<1> DEFINE paid == [by |-> r, acct |-> acct(r), value |-> -charged[r]]
           bought  == [by |-> r, acct |-> acct(r), hint |-> hint(r)]
<1>1. /\ UNCHANGED <<req, exists, docked>>
      /\ \A t \in Requests \ {r} : pc'[t] = pc[t] /\ charged'[t] = charged[t]
      /\ \A a \in Accounts, t \in Requests \ {r} : spendLock[a] = t => spendLock'[a] = t
  BY StepFrame DEF Step
<1>2. /\ pc[r] = "commit" /\ pc'[r] = "unlocked"
      /\ total' = [total EXCEPT ![acct(r)] = @ - charged[r]]
      /\ charges' = charges \cup {paid} /\ unlocks' = unlocks \cup {bought}
  BY DEF Commit, Finish, Goto, TypeOK
<1>3. /\ \A t \in Requests : acct(t) \in Accounts /\ hint(t) \in Hints
      /\ total[acct(r)] \in Int /\ charged[r] \in Nat
      /\ \A u \in unlocks : u = [by |-> u.by, acct |-> u.acct, hint |-> u.hint]
      /\ \A x \in charges : x.by \in Requests
  BY DEF TypeOK, acct, hint
<1>4. \A t \in Requests \ {r} : pc[t] \in Locked => acct(t) # acct(r)
  BY <1>2, OneSpender
<1>5. /\ ~Owns(acct(r), hint(r)) /\ hint(r) \in exists
      /\ \A n \in Needs[hint(r)] : Owns(acct(r), n)
      /\ docked = 0 => charged[r] <= total[acct(r)]
  BY <1>2 DEF Inv, NotOwnedYet, GateKept, InFlightExists, Affordable
<1>6. SpendLocked'
  BY <1>1, <1>2, <1>3 DEF Inv, SpendLocked, acct
<1>7. Affordable'
  <2> SUFFICES ASSUME docked = 0, NEW t \in Requests \ {r}, pc[t] \in Paying
               PROVE  charged'[t] <= total'[acct(t)]
    BY <1>1, <1>2 DEF Affordable, acct
  <2>1. total'[acct(t)] = total[acct(t)]
    BY <1>2, <1>3, <1>4 DEF TypeOK
  <2> QED BY <1>1, <2>1 DEF Inv, Affordable
<1>8. NotOwnedYet'
  <2> SUFFICES ASSUME NEW t \in Requests \ {r}, pc[t] \in Paying \cup {"score"},
                      NEW u \in unlocks', u.acct = acct(t), u.hint = hint(t)
               PROVE  FALSE
    BY <1>1, <1>2 DEF NotOwnedYet, Owns, acct, hint
  <2>1. u # bought
    BY <1>4
  <2> QED BY <1>2, <2>1 DEF Inv, NotOwnedYet, Owns
<1>9. ByCommitted'
  BY <1>1, <1>2, <1>3 DEF Inv, ByCommitted, TypeOK
<1>10. \A a \in Accounts, n \in Hints : Owns(a, n) => Owns(a, n)'
  BY <1>2 DEF Owns
<1>11. GateKept'
  <2> SUFFICES ASSUME NEW t \in Requests \ {r}, pc[t] \in {"lock"} \cup Locked,
                      NEW n \in Needs[hint(t)]
               PROVE  Owns(acct(t), n)'
    BY <1>1, <1>2 DEF GateKept, acct, hint, Owns
  <2>1. Owns(acct(t), n) /\ n \in Hints
    BY <1>3 DEF Inv, GateKept
  <2> QED BY <1>1, <1>2, <2>1 DEF Owns, acct
<1>12. InFlightExists'
  BY <1>1, <1>2 DEF Inv, InFlightExists, hint
<1>13. NeverOverdrawn'
  <2> SUFFICES ASSUME docked = 0, NEW a \in Accounts PROVE total'[a] >= 0
    BY <1>1 DEF NeverOverdrawn
  <2>1. total[a] >= 0 /\ total[a] \in Int
    BY DEF Inv, NeverOverdrawn, TypeOK
  <2>2. CASE a = acct(r)
    BY <1>2, <1>3, <1>5, <2>1, <2>2 DEF TypeOK
  <2>3. CASE a # acct(r)
    BY <1>2, <2>1, <2>3 DEF TypeOK
  <2> QED BY <2>2, <2>3
<1>14. (\A x \in charges : x.by # r) /\ (\A u \in unlocks : u.by # r)
  BY <1>2 DEF Inv, ByCommitted
<1>15. OneChargePerUnlock'
  <2>0. paid.by = r /\ paid.acct = acct(r) /\ bought.by = r /\ bought.acct = acct(r)
    OBVIOUS
  <2> HIDE DEF paid, bought
  <2>1. {[by |-> x.by, acct |-> x.acct] : x \in charges'}
          = {[by |-> x.by, acct |-> x.acct] : x \in charges} \cup {[by |-> r, acct |-> acct(r)]}
    BY <1>2, <2>0, Zenon
  <2>2. {[by |-> u.by, acct |-> u.acct] : u \in unlocks'}
          = {[by |-> u.by, acct |-> u.acct] : u \in unlocks} \cup {[by |-> r, acct |-> acct(r)]}
    BY <1>2, <2>0, Zenon
  <2>3. \A x, y \in charges' : x.by = y.by => x = y
    <3>1. \A x, y \in charges : x.by = y.by => x = y
      BY DEF Inv, OneChargePerUnlock
    <3> QED BY <1>2, <1>14, <2>0, <3>1
  <2> QED BY <2>1, <2>2, <2>3 DEF Inv, OneChargePerUnlock
<1>16. BoughtOnce'
  BY <1>2, <1>5 DEF Inv, BoughtOnce, Owns
<1>17. UnlocksExist'
  BY <1>1, <1>2, <1>5 DEF Inv, UnlocksExist
<1>18. NeedsFirst'
  <2> SUFFICES ASSUME NEW u \in unlocks', NEW n \in Needs[u.hint] PROVE Owns(u.acct, n)'
    BY DEF NeedsFirst, Owns
  <2>1. Owns(u.acct, n)
    BY <1>2, <1>5 DEF Inv, NeedsFirst
  <2> QED BY <1>2, <2>1 DEF Owns
<1> QED BY <1>6, <1>7, <1>8, <1>9, <1>11, <1>12, <1>13, <1>15, <1>16, <1>17, <1>18 DEF Inv

(* Only the commit touches the purse. *)
LEMMA StepQuiet ==
  ASSUME NEW r \in Requests, GetHint(r) \/ Step(r) \/ Abort(r), ~Commit(r)
  PROVE  UNCHANGED <<total, charges, unlocks, docked>>
<1>1. ASSUME NEW o, Rollback(r, o) PROVE UNCHANGED <<total, charges, unlocks, docked>>
  BY <1>1 DEF Rollback, purse
<1>2. ASSUME NEW l, Proceed(r, l) PROVE UNCHANGED <<total, charges, unlocks, docked>>
  BY <1>2 DEF Proceed, purse
<1>3. CASE GetHint(r) \/ LockAccount(r)
  BY <1>2, <1>3 DEF GetHint, LockAccount, purse
<1>4. CASE Gate(r) \/ CheckOwned(r) \/ CheckScore(r) \/ InsertCharge(r) \/ InsertUnlock(r)
           \/ Abort(r)
  BY <1>1, <1>2, <1>4 DEF Gate, CheckOwned, CheckScore, InsertCharge, InsertUnlock, Abort
<1> QED BY <1>3, <1>4 DEF Step

LEMMA StepInv ==
  ASSUME TypeOK, Inv, NEW r \in Requests, GetHint(r) \/ Step(r) \/ Abort(r)
  PROVE  Inv'
<1>1. CASE Commit(r)
  BY <1>1, CommitInv
<1>2. CASE ~Commit(r)
  BY <1>2, StepQuiet, QuietStepInv
<1> QED BY <1>1, <1>2

(* Points move and hints change while requests are under way.              *)
LEMMA ElsewhereInv ==
  ASSUME TypeOK, Inv, Elsewhere
  PROVE  Inv'
<1> USE HintConstants, Labels
<1>1. UNCHANGED <<req, pc, charged, spendLock, charges, unlocks>>
  BY DEF Elsewhere, EarnSolve, GrantAward, RevokeAward, UpdateHint, DeleteHint,
         SetChallengeState, purse
<1>2. SpendLocked' /\ NotOwnedYet' /\ ByCommitted' /\ GateKept' /\ OneChargePerUnlock'
        /\ BoughtOnce' /\ NeedsFirst'
  BY <1>1 DEF Inv, SpendLocked, NotOwnedYet, ByCommitted, GateKept, OneChargePerUnlock,
              BoughtOnce, NeedsFirst, Owns, acct, hint
<1>3. InFlightExists' /\ UnlocksExist'
  <2>1. CASE exists' = exists
    BY <1>1, <2>1 DEF Inv, InFlightExists, UnlocksExist, hint
  <2>2. CASE \E h \in Hints : DeleteHint(h)
    BY <1>1, <2>2 DEF DeleteHint, Inv, InFlightExists, UnlocksExist, hint
  <2> QED BY <2>1, <2>2
          DEF Elsewhere, EarnSolve, GrantAward, RevokeAward, UpdateHint, SetChallengeState, board
<1>4. docked' = 0 => docked = 0 /\ \A a \in Accounts : total'[a] >= total[a]
  <2>1. ASSUME NEW a \in Accounts, EarnSolve(a) PROVE <1>4!1 => <1>4!2
    <3>1. total' = [total EXCEPT ![a] = total[a] + SolveValue] /\ docked' = docked
      BY <2>1 DEF EarnSolve
    <3> QED BY <3>1 DEF TypeOK
  <2>2. ASSUME NEW w \in Awards, RevokeAward(w) PROVE <1>4!1 => <1>4!2
    <3>1. holder[w] \in Accounts /\ Worth[w] \in Int /\ total[holder[w]] \in Int
      BY <2>2 DEF TypeOK, RevokeAward
    <3>2. /\ total' = [total EXCEPT ![holder[w]] = total[holder[w]] - Worth[w]]
          /\ docked' = IF Worth[w] > 0 THEN docked + 1 ELSE docked
      BY <2>2 DEF RevokeAward
    <3>3. docked' = 0 => Worth[w] <= 0 /\ docked = 0
      BY <3>1, <3>2 DEF TypeOK
    <3> QED BY <3>1, <3>2, <3>3 DEF TypeOK
  <2>3. ASSUME NEW w \in Awards, NEW a \in Accounts, GrantAward(w, a) PROVE <1>4!1 => <1>4!2
    <3>1. /\ total' = [total EXCEPT ![a] = total[a] + Worth[w]]
          /\ docked' = IF Worth[w] < 0 THEN docked + 1 ELSE docked
          /\ Worth[w] \in Int
      BY <2>3 DEF GrantAward
    <3>2. docked' = 0 => Worth[w] >= 0 /\ docked = 0
      BY <3>1 DEF TypeOK
    <3> QED BY <3>1, <3>2 DEF TypeOK
  <2>4. CASE (\E h \in Hints : UpdateHint(h) \/ DeleteHint(h)) \/ SetChallengeState
    BY <2>4 DEF UpdateHint, DeleteHint, SetChallengeState, purse, TypeOK
  <2> QED BY <2>1, <2>2, <2>3, <2>4 DEF Elsewhere
<1>5. NeverOverdrawn'
  <2> SUFFICES ASSUME docked' = 0, NEW a \in Accounts PROVE total'[a] >= 0
    BY DEF NeverOverdrawn
  <2>1. total[a] >= 0 /\ total'[a] >= total[a]
    BY <1>4 DEF Inv, NeverOverdrawn
  <2>2. total[a] \in Int /\ total'[a] \in Int
    BY ElsewhereType DEF TypeOK
  <2> QED BY <2>1, <2>2
<1>6. Affordable'
  <2> SUFFICES ASSUME docked' = 0, NEW t \in Requests, pc[t] \in Paying
               PROVE  charged[t] <= total'[acct(t)]
    BY <1>1 DEF Affordable, acct
  <2>1. acct(t) \in Accounts /\ charged[t] \in Int
    BY DEF TypeOK, acct
  <2>2. charged[t] <= total[acct(t)] /\ total'[acct(t)] >= total[acct(t)]
    BY <1>4, <2>1 DEF Inv, Affordable
  <2>3. total[acct(t)] \in Int /\ total'[acct(t)] \in Int
    BY <2>1, ElsewhereType DEF TypeOK
  <2> QED BY <2>1, <2>2, <2>3
<1> QED BY <1>2, <1>3, <1>5, <1>6 DEF Inv

(* What a purchase has checked stays true while it holds its account's row. *)
THEOREM HintInvHolds == Spec => []Inv
<1>1. Init => Inv
  <2> SUFFICES ASSUME Init PROVE Inv
    OBVIOUS
  <2>1. /\ \A t \in Requests : pc[t] = "idle"
        /\ charges = {} /\ unlocks = {} /\ \A a \in Accounts : total[a] = 0
    BY DEF Init
  <2>2. OneChargePerUnlock
    BY <2>1 DEF OneChargePerUnlock
  <2> QED BY <2>1, <2>2, Labels
          DEF Inv, SpendLocked, Affordable, NotOwnedYet, ByCommitted, GateKept, InFlightExists,
              NeverOverdrawn, BoughtOnce, UnlocksExist, NeedsFirst
<1>2. TypeOK /\ Inv /\ [Next]_vars => Inv'
  <2> SUFFICES ASSUME TypeOK, Inv, [Next]_vars PROVE Inv'
    OBVIOUS
  <2>1. CASE Next
    BY <2>1, StepInv, ElsewhereInv DEF Next, Elsewhere
  <2>2. CASE UNCHANGED vars
    BY <2>2 DEF vars, board, purse, Inv, SpendLocked, Affordable, NotOwnedYet, ByCommitted,
                GateKept, InFlightExists, NeverOverdrawn, OneChargePerUnlock, BoughtOnce,
                UnlocksExist, NeedsFirst, Owns, acct, hint
  <2> QED BY <2>1, <2>2
<1> QED BY <1>1, <1>2, HintTypeCorrect, PTL DEF Spec

-----------------------------------------------------------------------------
(* What it gives *)

(* However many requests spend one account's points at once, the balance   *)
(* never goes below zero unless an admin takes points away.                *)
THEOREM NeverOverdrawnHolds == Spec => []NeverOverdrawn
<1>1. Inv => NeverOverdrawn
  BY DEF Inv
<1> QED BY <1>1, HintInvHolds, PTL

(* Charges and unlocks are written together, one for one.                  *)
THEOREM OneChargeHolds == Spec => []OneChargePerUnlock
<1>1. Inv => OneChargePerUnlock
  BY DEF Inv
<1> QED BY <1>1, HintInvHolds, PTL

(* An account buys a hint once.                                            *)
THEOREM BoughtOnceHolds == Spec => []BoughtOnce
<1>1. Inv => BoughtOnce
  BY DEF Inv
<1> QED BY <1>1, HintInvHolds, PTL

(* The hint's gate, read before the lock, still holds at the commit.       *)
THEOREM NeedsFirstHolds == Spec => []NeedsFirst
<1>1. Inv => NeedsFirst
  BY DEF Inv
<1> QED BY <1>1, HintInvHolds, PTL

(* No hint is held that is gone: a deletion and an unlock in flight never   *)
(* both go through.                                                        *)
THEOREM UnlocksExistHolds == Spec => []UnlocksExist
<1>1. Inv => UnlocksExist
  BY DEF Inv
<1> QED BY <1>1, HintInvHolds, PTL
-----------------------------------------------------------------------------
(* The purchases implement the purse *)

(* A price is the one the hint was created with or the edited one, and a   *)
(* request charges one of them, whichever it read.                         *)
Quoted ==
  /\ \A h \in Hints : price[h] \in {FirstPrice[h], NextPrice[h]}
  /\ \A r \in Requests : pc[r] \in Running
                           => charged[r] \in {FirstPrice[hint(r)], NextPrice[hint(r)]}

LEMMA StepQuoted ==
  ASSUME TypeOK, Quoted, NEW r \in Requests, GetHint(r) \/ Step(r) \/ Abort(r)
  PROVE  Quoted'
<1> USE HintConstants, Labels
<1>0. /\ UNCHANGED <<req, price>> /\ hint(r) \in Hints
      /\ \A t \in Requests : hint(t)' = hint(t)
      /\ \A t \in Requests \ {r} : pc'[t] = pc[t] /\ charged'[t] = charged[t]
  BY StepFrame DEF hint, TypeOK
<1>1. SUFFICES ASSUME pc'[r] \in Running
               PROVE  charged'[r] \in {FirstPrice[hint(r)], NextPrice[hint(r)]}
  BY <1>0 DEF Quoted
<1>2. CASE GetHint(r)
  <2>1. CASE shown /\ hint(r) \in exists
    <3>1. charged'[r] = price[hint(r)]
      BY <1>2, <2>1 DEF GetHint, TypeOK
    <3> QED BY <1>0, <3>1 DEF Quoted
  <2>2. CASE ~(shown /\ hint(r) \in exists)
    BY <1>1, <1>2, <2>2 DEF GetHint, Proceed, Goto, TypeOK
  <2> QED BY <2>1, <2>2
<1>3. CASE Step(r) \/ Abort(r)
  <2>1. pc[r] \in Running /\ charged' = charged
    BY <1>3 DEF Step, Abort, Gate, LockAccount, CheckOwned, CheckScore, InsertCharge,
                InsertUnlock, Commit, Rollback, Finish, Proceed
  <2> QED BY <2>1 DEF Quoted
<1> QED BY <1>2, <1>3

(* Whatever a price is edited to meanwhile, a purchase charges one it had. *)
THEOREM QuotedHolds == Spec => []Quoted
<1>1. Init => Quoted
  BY Labels DEF Init, Quoted
<1>2. TypeOK /\ Quoted /\ [Next]_vars => Quoted'
  <2> SUFFICES ASSUME TypeOK, Quoted, [Next]_vars PROVE Quoted'
    OBVIOUS
  <2>1. CASE \E r \in Requests : GetHint(r) \/ Step(r) \/ Abort(r)
    BY <2>1, StepQuoted
  <2>2. ASSUME UNCHANGED <<req, pc, charged>>,
               \A h \in Hints : price'[h] \in {price[h], NextPrice[h]}
        PROVE  Quoted'
    BY <2>2 DEF Quoted, hint
  <2>3. CASE Elsewhere
    <3>1. UNCHANGED <<req, pc, charged>>
      BY <2>3 DEF Elsewhere, EarnSolve, GrantAward, RevokeAward, UpdateHint, DeleteHint,
                  SetChallengeState
    <3>2. \A h \in Hints : price'[h] \in {price[h], NextPrice[h]}
      BY <2>3 DEF Elsewhere, EarnSolve, GrantAward, RevokeAward, UpdateHint, DeleteHint,
                  SetChallengeState, board, TypeOK
    <3> QED BY <2>2, <3>1, <3>2
  <2>4. CASE UNCHANGED vars
    BY <2>2, <2>4 DEF vars, board
  <2> QED BY <2>1, <2>3, <2>4 DEF Next, Elsewhere
<1> QED BY <1>1, <1>2, HintTypeCorrect, PTL DEF Spec

(* The commit is the purchase. *)
LEMMA CommitBuys ==
  ASSUME TypeOK, Inv, Quoted, NEW r \in Requests, Commit(r)
  PROVE  Purse!Buy(acct(r), hint(r))
<1> USE HintConstants, Labels
<1> DEFINE a == acct(r)
           h == hint(r)
<1>0. /\ a \in Accounts /\ h \in Hints /\ pc[r] = "commit" /\ Needs[h] \subseteq Hints
      /\ charged[r] \in Nat /\ total[a] \in Int
  BY DEF TypeOK, acct, hint, Commit
<1>1. h \notin Owned[a] /\ Needs[h] \subseteq Owned[a]
  BY <1>0 DEF Owned, Inv, NotOwnedYet, GateKept
<1>2. /\ charged[r] \in {FirstPrice[h], NextPrice[h]}
      /\ docked = 0 => charged[r] <= total[a]
      /\ total' = [total EXCEPT ![a] = @ - charged[r]]
      /\ docked' = docked
  BY <1>0 DEF Quoted, Inv, Affordable, Commit
<1>3. Owned' = [Owned EXCEPT ![a] = @ \cup {h}]
  <2> DEFINE bought == [by |-> r, acct |-> a, hint |-> h]
  <2>1. unlocks' = unlocks \cup {bought} /\ bought.acct = a /\ bought.hint = h
    BY DEF Commit
  <2>2. \A b \in Accounts, g \in Hints : Owns(b, g)' <=> Owns(b, g) \/ (b = a /\ g = h)
    <3> HIDE DEF bought, a, h
    <3> QED BY <2>1 DEF Owns
  <2>3. ASSUME NEW b \in Accounts
        PROVE  {g \in Hints : Owns(b, g)'} = IF b = a THEN Owned[b] \cup {h} ELSE Owned[b]
    <3>1. Owned[b] = {g \in Hints : Owns(b, g)}
      BY DEF Owned
    <3> HIDE DEF a, h
    <3>2. CASE b = a
      BY <1>0, <2>2, <3>1, <3>2
    <3>3. CASE b # a
      BY <2>2, <3>1, <3>3
    <3> QED BY <3>2, <3>3
  <2>4. /\ Owned' = [b \in Accounts |-> {g \in Hints : Owns(b, g)'}]
        /\ Owned = [b \in Accounts |-> Owned[b]]
    BY DEF Owned
  <2> HIDE DEF a, h
  <2> QED BY <1>0, <2>3, <2>4
<1>4. \E p \in {FirstPrice[h], NextPrice[h]} :
        /\ docked = 0 => p <= total[a]
        /\ total' = [total EXCEPT ![a] = @ - p]
  BY <1>2
<1>5. Purse!Buy(a, h)
  BY <1>1, <1>2, <1>3, <1>4 DEF Purse!Buy
<1> QED BY <1>5

(* Solves, awards and their revocation are the purse's other steps. *)
LEMMA ElsewherePurse ==
  ASSUME TypeOK, Elsewhere
  PROVE  Purse!Next \/ UNCHANGED Purse!vars
<1> USE HintConstants
<1>1. Owned' = Owned
  <2>1. unlocks' = unlocks
    BY DEF Elsewhere, EarnSolve, GrantAward, RevokeAward, UpdateHint, DeleteHint,
           SetChallengeState, purse
  <2> QED BY <2>1 DEF Owned, Owns
<1>2. ASSUME NEW a \in Accounts, EarnSolve(a) PROVE Purse!Earn(a)
  BY <1>1, <1>2 DEF EarnSolve, Purse!Earn
<1>3. ASSUME NEW w \in Awards, NEW a \in Accounts, GrantAward(w, a)
      PROVE  Purse!Adjust(a, Worth[w])
  BY <1>1, <1>3 DEF GrantAward, Purse!Adjust
<1>4. ASSUME NEW w \in Awards, RevokeAward(w)
      PROVE  holder[w] \in Accounts /\ Purse!Adjust(holder[w], -Worth[w])
  <2>1. holder[w] \in Accounts /\ Worth[w] \in Int
    BY <1>4 DEF TypeOK, RevokeAward
  <2>2. total[holder[w]] \in Int
    BY <2>1 DEF TypeOK
  <2>3. /\ total' = [total EXCEPT ![holder[w]] = total[holder[w]] - Worth[w]]
        /\ docked' = IF Worth[w] > 0 THEN docked + 1 ELSE docked
    BY <1>4 DEF RevokeAward
  <2>4. total[holder[w]] - Worth[w] = total[holder[w]] + -Worth[w]
    BY <2>1, <2>2
  <2>5. Worth[w] > 0 <=> -Worth[w] < 0
    BY <2>1
  <2> QED BY <1>1, <2>1, <2>3, <2>4, <2>5 DEF Purse!Adjust
<1>5. ASSUME (\E h \in Hints : UpdateHint(h) \/ DeleteHint(h)) \/ SetChallengeState
      PROVE  UNCHANGED Purse!vars
  BY <1>1, <1>5 DEF UpdateHint, DeleteHint, SetChallengeState, purse, Purse!vars
<1> QED BY <1>2, <1>3, <1>4, <1>5 DEF Elsewhere, Purse!Next

(* However the statements of the purchases interleave, with solves, awards *)
(* and edits between them, they are purchases made one at a time: each     *)
(* takes effect at its commit.                                             *)
THEOREM PurseRefinement == Spec => ImplementsPurse
<1>1. Init => Purse!Init
  BY DEF Init, Purse!Init, Owned, Owns
<1>2. TypeOK /\ Inv /\ Quoted /\ [Next]_vars => [Purse!Next]_(Purse!vars)
  <2> SUFFICES ASSUME TypeOK, Inv, Quoted, [Next]_vars
               PROVE  Purse!Next \/ UNCHANGED Purse!vars
    OBVIOUS
  <2>1. ASSUME UNCHANGED <<total, unlocks, docked>> PROVE UNCHANGED Purse!vars
    BY <2>1 DEF Purse!vars, Owned, Owns
  <2>2. ASSUME NEW r \in Requests, GetHint(r) \/ Step(r) \/ Abort(r)
        PROVE  Purse!Next \/ UNCHANGED Purse!vars
    <3>1. CASE Commit(r)
      <4>1. acct(r) \in Accounts /\ hint(r) \in Hints
        BY DEF TypeOK, acct, hint
      <4> QED BY <3>1, <4>1, CommitBuys DEF Purse!Next
    <3>2. CASE ~Commit(r)
      BY <2>1, <2>2, <3>2, StepQuiet
    <3> QED BY <3>1, <3>2
  <2>3. CASE UNCHANGED vars
    BY <2>1, <2>3 DEF vars, purse
  <2> QED BY <2>2, <2>3, ElsewherePurse DEF Next, Elsewhere
<1> QED
  BY <1>1, <1>2, HintTypeCorrect, HintInvHolds, QuotedHolds, PTL
     DEF Spec, ImplementsPurse, Purse!Spec

-----------------------------------------------------------------------------
(* Challenge files *)

FilesFit == F!TypeOK /\ F!Inv

(* Finiteness and size, as Files names them, are those of the library.     *)
LEMMA SameMeasures == \A S : /\ F!IsFiniteSet(S) <=> IsFiniteSet(S)
                             /\ F!Cardinality(S) = Cardinality(S)
<1> TAKE S
<1>1. F!IsFiniteSet(S) <=> IsFiniteSet(S)
  BY DEF F!IsFiniteSet, IsFiniteSet
<1>2. F!Cardinality(S) = Cardinality(S)
  BY DEF F!Cardinality, Cardinality
<1> QED BY <1>1, <1>2

(* What the invariant says of one request.                                 *)
ReqFits(r) ==
  /\ step[r] = "idle" => got[r] = {}
  /\ step[r] \in {"stat", "put", "insert", "dedupe", "counted", "sweep", "content"} =>
       \E row \in F!Rows : mine[r] = {row}
  /\ step[r] \in {"insert", "dedupe", "load"} => F!ShasOf(mine[r]) \subseteq F!Kept
  /\ step[r] = "blobs" => got[r] \subseteq F!Kept /\ \E b \in backups : b.rows = mine[r]
  /\ step[r] = "sweep" => F!Held(r).sha \notin got[r]
  /\ IsFiniteSet(mine[r])

(* And of the tables.                                                      *)
TablesFit ==
  /\ F!Whole /\ F!OnlyOverlapLosesBytes
  /\ IsFiniteSet(rows) /\ \A b \in backups : IsFiniteSet(b.rows)

LEMMA RequestByRequest ==
  /\ F!Inv <=> TablesFit /\ \A r \in Transfers : ReqFits(r)
  /\ F!Inv' <=> TablesFit' /\ \A r \in Transfers : ReqFits(r)'
<1> USE SameMeasures
    DEF F!Inv, F!OneRow, F!Backed, F!Unnamed, F!Finite, F!Idle, TablesFit, ReqFits
<1>1. F!Inv => TablesFit /\ \A r \in Transfers : ReqFits(r)
  OBVIOUS
<1>2. TablesFit /\ (\A r \in Transfers : ReqFits(r)) => F!Inv
  OBVIOUS
<1>3. F!Inv' => TablesFit' /\ \A r \in Transfers : ReqFits(r)'
  OBVIOUS
<1>4. TablesFit' /\ (\A r \in Transfers : ReqFits(r)') => F!Inv'
  OBVIOUS
<1> HIDE DEF F!Inv, F!OneRow, F!Backed, F!Unnamed, F!Finite, F!Idle, TablesFit, ReqFits
<1> QED BY <1>1, <1>2, <1>3, <1>4

(* Where a request is and what it holds.                                   *)
MemoryType ==
  /\ step \in [Transfers -> F!Labels]
  /\ mine \in [Transfers -> SUBSET F!Rows] /\ got \in [Transfers -> SUBSET Shas]

LEMMA HeldIsMine ==
  ASSUME NEW r \in Transfers, NEW row \in F!Rows, mine[r] = {row}
  PROVE  F!Held(r) = row /\ F!Held(r) \in mine[r]
  BY DEF F!Held

LEMMA OthersStand ==
  ASSUME FilesFit, NEW r \in Transfers,
         \A q \in Transfers \ {r} : step'[q] = step[q] /\ mine'[q] = mine[q] /\ got'[q] = got[q],
         F!Kept \subseteq F!Kept', backups \subseteq backups',
         TablesFit', ReqFits(r)'
  PROVE  F!Inv'
<1>1. ASSUME NEW q \in Transfers \ {r} PROVE ReqFits(q)'
  <2>1. ReqFits(q)
    BY RequestByRequest DEF FilesFit
  <2>2. F!ShasOf(mine[q])' = F!ShasOf(mine[q]) /\ F!Held(q)' = F!Held(q)
    BY DEF F!ShasOf, F!Held
  <2> QED BY <2>1, <2>2 DEF ReqFits
<1> QED BY <1>1, RequestByRequest

(* A request that moves and leaves the tables and the store alone.         *)
LEMMA QuietStep ==
  ASSUME FilesFit, NEW r \in Transfers,
         UNCHANGED <<rows, objects, existing, hidden, unsolved, backups, excused>>,
         \A q \in Transfers \ {r} : step'[q] = step[q] /\ mine'[q] = mine[q] /\ got'[q] = got[q],
         MemoryType', ReqFits(r)'
  PROVE  FilesFit'
<1>1. F!Kept' = F!Kept /\ TablesFit'
  BY RequestByRequest DEF FilesFit, F!Kept, TablesFit, F!Whole, F!OnlyOverlapLosesBytes, F!ShasOf
<1>2. F!Inv'
  BY <1>1, OthersStand
<1> QED BY <1>2 DEF FilesFit, F!TypeOK, MemoryType

(* A request that is over holds nothing.                                   *)
LEMMA Over ==
  ASSUME FilesFit, NEW r \in Transfers, NEW a, F!Answered(r, a)
  PROVE  /\ step' = [step EXCEPT ![r] = "idle"]
         /\ \A q \in Transfers \ {r} : step'[q] = step[q] /\ mine'[q] = mine[q] /\ got'[q] = got[q]
         /\ MemoryType' /\ ReqFits(r)'
<1>1. /\ step' = [step EXCEPT ![r] = "idle"] /\ mine' = [mine EXCEPT ![r] = {}]
      /\ got' = [got EXCEPT ![r] = {}]
  BY DEF F!Answered
<1>2. MemoryType'
  BY <1>1 DEF MemoryType, FilesFit, F!TypeOK, F!Labels
<1> QED BY <1>1, <1>2, FS_EmptySet DEF FilesFit, F!TypeOK, ReqFits

LEMMA OverQuietly ==
  ASSUME FilesFit, NEW r \in Transfers, NEW a, F!Answered(r, a),
         UNCHANGED <<rows, objects, existing, hidden, unsolved, backups, excused>>
  PROVE  FilesFit'
  BY Over, QuietStep

(* A request that goes on with what it holds, or with one row.             *)
LEMMA Onward ==
  ASSUME FilesFit, NEW r \in Transfers, NEW l \in F!Labels, F!At(r, l), got' = got,
         \/ mine' = mine
         \/ \E row \in F!Rows : mine' = [mine EXCEPT ![r] = {row}]
         \/ \E m \in SUBSET F!Rows : mine' = [mine EXCEPT ![r] = m] /\ IsFiniteSet(m)
  PROVE  /\ step'[r] = l /\ got'[r] = got[r] /\ IsFiniteSet(mine'[r])
         /\ \A q \in Transfers \ {r} : step'[q] = step[q] /\ mine'[q] = mine[q] /\ got'[q] = got[q]
         /\ MemoryType'
<1> USE DEF FilesFit, F!TypeOK, F!At, MemoryType
<1>1. IsFiniteSet(mine[r])
  BY RequestByRequest DEF ReqFits
<1>2. CASE mine' = mine
  BY <1>1, <1>2
<1>3. ASSUME NEW m \in SUBSET F!Rows, mine' = [mine EXCEPT ![r] = m], IsFiniteSet(m)
      PROVE  mine'[r] = m /\ mine' \in [Transfers -> SUBSET F!Rows]
             /\ \A q \in Transfers \ {r} : mine'[q] = mine[q]
  BY <1>3
<1>4. \A row \in F!Rows : {row} \in SUBSET F!Rows /\ IsFiniteSet({row})
  BY FS_Singleton
<1> QED BY <1>2, <1>3, <1>4

(* The one row a request holds until it is answered.                       *)
LEMMA HoldsOne ==
  ASSUME FilesFit, NEW r \in Transfers,
         step[r] \in {"stat", "put", "insert", "dedupe", "counted", "sweep", "content"}
  PROVE  \E row \in F!Rows : /\ mine[r] = {row} /\ F!Held(r) = row
                             /\ F!ShasOf(mine[r]) = {row.sha} /\ row.sha \in Shas
<1>1. PICK row \in F!Rows : mine[r] = {row}
  BY RequestByRequest DEF FilesFit, ReqFits
<1>2. F!Held(r) = row
  BY <1>1, HeldIsMine
<1> QED BY <1>1, <1>2 DEF F!ShasOf, F!Rows

LEMMA UploadFits ==
  ASSUME FilesFit, NEW r \in Transfers, F!Upload(r)
  PROVE  FilesFit'
<1>1. PICK row \in F!Rows : IF row.ch \in existing
        THEN F!At(r, "stat") /\ mine' = [mine EXCEPT ![r] = {row}] /\ UNCHANGED <<got, answer>>
        ELSE F!Answered(r, "404")
  BY DEF F!Upload
<1>2. UNCHANGED <<rows, objects, existing, hidden, unsolved, backups, excused>>
  BY DEF F!Upload, F!data
<1>3. CASE row.ch \in existing
  <2>1. F!At(r, "stat") /\ mine' = [mine EXCEPT ![r] = {row}] /\ got' = got
    BY <1>1, <1>3
  <2>2. /\ step'[r] = "stat" /\ IsFiniteSet(mine'[r]) /\ MemoryType'
        /\ \A q \in Transfers \ {r} : step'[q] = step[q] /\ mine'[q] = mine[q] /\ got'[q] = got[q]
    BY <2>1, Onward DEF F!Labels
  <2>3. mine'[r] = {row}
    BY <2>1 DEF FilesFit, F!TypeOK
  <2>4. ReqFits(r)'
    BY <2>2, <2>3 DEF ReqFits, F!Rows
  <2> QED BY <1>2, <2>2, <2>4, QuietStep
<1> QED BY <1>1, <1>2, <1>3, OverQuietly

LEMMA PutStatFits ==
  ASSUME FilesFit, NEW r \in Transfers, F!PutStat(r)
  PROVE  FilesFit'
<1>1. PICK l \in {"insert", "put"} : F!At(r, l) /\ (l = "insert" => F!Held(r).sha \in objects)
  BY DEF F!PutStat, F!Stat
<1>2. step[r] = "stat" /\ UNCHANGED <<rows, objects, existing, hidden, unsolved, backups, excused, mine, got>>
  BY DEF F!PutStat, F!data
<1>3. PICK row \in F!Rows : mine[r] = {row} /\ F!Held(r) = row /\ F!ShasOf(mine[r]) = {row.sha}
  BY <1>2, HoldsOne
<1>4. /\ step'[r] = l /\ IsFiniteSet(mine'[r]) /\ MemoryType'
      /\ \A q \in Transfers \ {r} : step'[q] = step[q] /\ mine'[q] = mine[q] /\ got'[q] = got[q]
  BY <1>1, <1>2, Onward DEF F!Labels
<1>5. F!ShasOf(mine'[r]) = {row.sha} /\ F!Kept' = F!Kept /\ mine'[r] = {row}
  BY <1>2, <1>3 DEF F!Kept
<1>6. ReqFits(r)'
  BY <1>1, <1>3, <1>4, <1>5 DEF ReqFits, F!Kept, F!ShasOf
<1> QED BY <1>2, <1>4, <1>6, QuietStep

(* Putting an object loses nobody's bytes.                                 *)
LEMMA PutFits ==
  ASSUME FilesFit, NEW r \in Transfers, NEW sha \in Shas, F!Put(sha),
         UNCHANGED <<rows, existing, hidden, unsolved, backups, excused>>,
         \A q \in Transfers \ {r} : step'[q] = step[q] /\ mine'[q] = mine[q] /\ got'[q] = got[q],
         MemoryType', ReqFits(r)'
  PROVE  FilesFit'
<1>1. F!Kept \subseteq F!Kept'
  BY DEF F!Kept, F!Put
<1>2. TablesFit'
  BY RequestByRequest
     DEF FilesFit, TablesFit, F!Whole, F!OnlyOverlapLosesBytes, F!ShasOf, F!Put
<1>3. F!Inv'
  BY <1>1, <1>2, OthersStand
<1>4. F!TypeOK'
  BY DEF FilesFit, F!TypeOK, MemoryType, F!Put
<1> QED BY <1>3, <1>4 DEF FilesFit

LEMMA PutObjectFits ==
  ASSUME FilesFit, NEW r \in Transfers, F!PutObject(r)
  PROVE  FilesFit'
<1>1. step[r] = "put" /\ UNCHANGED <<rows, existing, hidden, unsolved, backups, excused>>
  BY DEF F!PutObject
<1>2. PICK row \in F!Rows : /\ mine[r] = {row} /\ F!Held(r) = row
                            /\ F!ShasOf(mine[r]) = {row.sha} /\ row.sha \in Shas
  BY <1>1, HoldsOne
<1>3. CASE F!Put(F!Held(r).sha) /\ F!At(r, "insert") /\ UNCHANGED <<mine, got>>
  <2>1. /\ step'[r] = "insert" /\ IsFiniteSet(mine'[r]) /\ MemoryType'
        /\ \A q \in Transfers \ {r} : step'[q] = step[q] /\ mine'[q] = mine[q] /\ got'[q] = got[q]
    BY <1>3, Onward DEF F!Labels
  <2>2. F!ShasOf(mine'[r]) = {row.sha} /\ row.sha \in F!Kept' /\ mine'[r] = {row}
    BY <1>2, <1>3 DEF F!Kept, F!Put
  <2>3. ReqFits(r)'
    BY <2>1, <2>2 DEF ReqFits, F!ShasOf
  <2> QED BY <1>1, <1>2, <1>3, <2>1, <2>3, PutFits
<1> QED BY <1>1, <1>3, OverQuietly DEF F!PutObject

LEMMA InsertFits ==
  ASSUME FilesFit, NEW r \in Transfers, F!AdminInsertFile(r)
  PROVE  FilesFit'
<1>1. step[r] = "insert" /\ UNCHANGED <<objects, existing, hidden, unsolved, backups, excused>>
  BY DEF F!AdminInsertFile
<1>2. PICK row \in F!Rows : /\ mine[r] = {row} /\ F!Held(r) = row
                            /\ F!ShasOf(mine[r]) = {row.sha} /\ row.sha \in Shas
  BY <1>1, HoldsOne
<1>3. row.sha \in F!Kept
  BY <1>1, <1>2, RequestByRequest DEF FilesFit, ReqFits
<1>4. CASE F!Answered(r, "404") /\ UNCHANGED rows
  BY <1>1, <1>4, OverQuietly
<1>5. CASE F!Answered(r, "201") /\ rows' = rows \cup {row}
  <2>1. /\ MemoryType' /\ ReqFits(r)'
        /\ \A q \in Transfers \ {r} : step'[q] = step[q] /\ mine'[q] = mine[q] /\ got'[q] = got[q]
    BY <1>5, Over
  <2>2. IsFiniteSet(rows')
    BY <1>5, RequestByRequest, FS_AddElement DEF FilesFit, TablesFit
  <2>3. F!OnlyOverlapLosesBytes'
    BY <1>1, <1>3, <1>5, RequestByRequest
       DEF FilesFit, TablesFit, F!OnlyOverlapLosesBytes, F!ShasOf, F!Kept
  <2>4. TablesFit'
    BY <1>1, <2>2, <2>3, RequestByRequest DEF FilesFit, TablesFit, F!Whole, F!ShasOf
  <2>5. F!Inv'
    BY <1>1, <2>1, <2>4, OthersStand DEF F!Kept
  <2>6. F!TypeOK'
    BY <1>1, <1>2, <1>5, <2>1 DEF FilesFit, F!TypeOK, MemoryType
  <2> QED BY <2>5, <2>6 DEF FilesFit
<1>6. CASE F!At(r, "dedupe") /\ UNCHANGED <<rows, mine, got>>
  <2>1. /\ step'[r] = "dedupe" /\ IsFiniteSet(mine'[r]) /\ MemoryType'
        /\ \A q \in Transfers \ {r} : step'[q] = step[q] /\ mine'[q] = mine[q] /\ got'[q] = got[q]
    BY <1>6, Onward DEF F!Labels
  <2>2. F!ShasOf(mine'[r]) = {row.sha} /\ row.sha \in F!Kept' /\ mine'[r] = {row}
    BY <1>1, <1>2, <1>3, <1>6 DEF F!Kept
  <2>3. ReqFits(r)'
    BY <2>1, <2>2 DEF ReqFits, F!ShasOf
  <2> QED BY <1>1, <1>6, <2>1, <2>3, QuietStep
<1>7. \/ F!Answered(r, "404") /\ UNCHANGED rows
      \/ F!Answered(r, "201") /\ rows' = rows \cup {F!Held(r)}
      \/ F!At(r, "dedupe") /\ UNCHANGED <<rows, mine, got>>
  BY DEF F!AdminInsertFile
<1> QED BY <1>2, <1>4, <1>5, <1>6, <1>7

LEMMA QuietlyAnswered ==
  ASSUME FilesFit, NEW r \in Transfers,
         F!GetFileByLocation(r) \/ F!Content(r) \/ F!Crash(r)
  PROVE  FilesFit'
<1>1. UNCHANGED <<rows, objects, existing, hidden, unsolved, backups, excused>>
  BY DEF F!GetFileByLocation, F!Content, F!Crash, F!data
<1>2. \E a : F!Answered(r, a)
  BY DEF F!GetFileByLocation, F!Content, F!Crash
<1> QED BY <1>1, <1>2, OverQuietly

(* A request that took a row up, to delete it or to read it.               *)
LEMMA TakesRow ==
  ASSUME FilesFit, NEW r \in Transfers, F!Delete(r) \/ F!GetChallengeFileForDownload(r)
  PROVE  FilesFit'
<1>1. /\ UNCHANGED <<rows, objects, existing, hidden, unsolved, backups, excused>>
      /\ step[r] = "idle"
  BY DEF F!Delete, F!GetChallengeFileForDownload, F!data, F!Arrives, F!Idle
<1>2. \E row \in F!Rows :
        \/ \E l \in {"counted", "content"} :
             F!At(r, l) /\ mine' = [mine EXCEPT ![r] = {row}] /\ got' = got
        \/ F!Answered(r, "404")
  BY DEF F!Delete, F!GetChallengeFileForDownload
<1>3. ASSUME NEW row \in F!Rows, NEW l \in {"counted", "content"},
             F!At(r, l), mine' = [mine EXCEPT ![r] = {row}], got' = got
      PROVE  FilesFit'
  <2>1. /\ step'[r] = l /\ IsFiniteSet(mine'[r]) /\ MemoryType'
        /\ \A q \in Transfers \ {r} : step'[q] = step[q] /\ mine'[q] = mine[q] /\ got'[q] = got[q]
    BY <1>3, Onward DEF F!Labels
  <2>2. mine'[r] = {row}
    BY <1>3 DEF FilesFit, F!TypeOK
  <2>3. ReqFits(r)'
    BY <2>1, <2>2 DEF ReqFits, F!Rows
  <2> QED BY <1>1, <2>1, <2>3, QuietStep
<1> QED BY <1>1, <1>2, <1>3, OverQuietly

(* Fewer rows need no more bytes.                                          *)
LEMMA FewerRows ==
  ASSUME FilesFit, rows' \subseteq rows, UNCHANGED <<objects, backups, excused>>
  PROVE  TablesFit' /\ rows' \in SUBSET F!Rows /\ F!Kept' = F!Kept
<1>1. IsFiniteSet(rows')
  BY FS_Subset, RequestByRequest DEF FilesFit, TablesFit
<1>2. F!OnlyOverlapLosesBytes'
  BY RequestByRequest DEF FilesFit, TablesFit, F!OnlyOverlapLosesBytes, F!ShasOf
<1>3. TablesFit'
  BY <1>1, <1>2, RequestByRequest DEF FilesFit, TablesFit, F!Whole, F!ShasOf
<1> QED BY <1>3 DEF FilesFit, F!TypeOK, F!Kept

(* The sweep is decided on what the deleting transaction counts, and that  *)
(* is every row left at its commit.                                        *)
LEMMA NobodyNames ==
  ASSUME FilesFit, NEW r \in Transfers, step[r] = "counted", F!CountFilesBySha(r) = 0
  PROVE  F!Held(r).sha \notin F!ShasOf(rows \ mine[r])
<1> DEFINE others == {row \in rows \ mine[r] : row.sha = F!Held(r).sha}
<1>1. IsFiniteSet(others)
  BY FS_Subset, RequestByRequest DEF FilesFit, TablesFit
<1>2. Cardinality(others) = 0
  BY SameMeasures DEF F!CountFilesBySha
<1>3. others = {}
  BY <1>1, <1>2, FS_EmptySet
<1> QED BY <1>3 DEF F!ShasOf

LEMMA CommitDeleteFits ==
  ASSUME FilesFit, NEW r \in Transfers, F!CommitDelete(r)
  PROVE  FilesFit'
<1>1. /\ step[r] = "counted" /\ rows' = rows \ mine[r]
      /\ UNCHANGED <<objects, existing, hidden, unsolved, backups, excused>>
  BY DEF F!CommitDelete
<1>2. PICK row \in F!Rows : /\ mine[r] = {row} /\ F!Held(r) = row
                            /\ F!ShasOf(mine[r]) = {row.sha} /\ row.sha \in Shas
  BY <1>1, HoldsOne
<1>3. TablesFit' /\ rows' \in SUBSET F!Rows /\ F!Kept' = F!Kept
  BY <1>1, FewerRows
<1>4. ASSUME MemoryType', ReqFits(r)',
             \A q \in Transfers \ {r} : step'[q] = step[q] /\ mine'[q] = mine[q] /\ got'[q] = got[q]
      PROVE  FilesFit'
  <2>1. F!Inv'
    BY <1>1, <1>3, <1>4, OthersStand
  <2> QED BY <1>1, <1>3, <1>4, <2>1 DEF FilesFit, F!TypeOK, MemoryType
<1>5. CASE F!CountFilesBySha(r) = 0
  <2>1. F!At(r, "sweep") /\ got' = [got EXCEPT ![r] = F!ShasOf(rows')] /\ mine' = mine
    BY <1>5 DEF F!CommitDelete, F!ShasOf
  <2>2. PICK named \in SUBSET Shas : named = F!ShasOf(rows')
    BY <1>3 DEF F!ShasOf, F!Rows
  <2>3. row.sha \notin named
    BY <1>1, <1>2, <1>5, <2>2, NobodyNames
  <2>4. /\ step'[r] = "sweep" /\ mine'[r] = {row} /\ got'[r] = named
        /\ \A q \in Transfers \ {r} : step'[q] = step[q] /\ mine'[q] = mine[q] /\ got'[q] = got[q]
    BY <1>2, <2>1, <2>2 DEF FilesFit, F!TypeOK, F!At
  <2>5. MemoryType'
    BY <2>1, <2>2 DEF FilesFit, F!TypeOK, F!At, F!Labels, MemoryType
  <2>6. F!Held(r)' = row
    BY <1>2, <2>1 DEF F!Held
  <2>7. IsFiniteSet(mine'[r])
    BY <2>4, FS_Singleton
  <2>8. ReqFits(r)'
    BY <2>3, <2>4, <2>6, <2>7 DEF ReqFits, F!Rows
  <2> QED BY <1>4, <2>4, <2>5, <2>8
<1>6. CASE F!CountFilesBySha(r) # 0
  <2>1. F!Answered(r, "204")
    BY <1>6 DEF F!CommitDelete
  <2> QED BY <1>4, <2>1, Over
<1> QED BY <1>5, <1>6

(* A sweep loses no bytes a row needs that it is not excused for: the      *)
(* address was unnamed when the deletion committed, and whoever named it   *)
(* since is caught by Relied.                                              *)
LEMMA StoreDeleteFits ==
  ASSUME FilesFit, NEW r \in Transfers, F!StoreDelete(r)
  PROVE  FilesFit'
<1>1. /\ step[r] = "sweep" /\ F!Answered(r, "204")
      /\ UNCHANGED <<rows, existing, hidden, unsolved, backups>>
  BY DEF F!StoreDelete
<1>2. PICK row \in F!Rows : /\ mine[r] = {row} /\ F!Held(r) = row
                            /\ F!ShasOf(mine[r]) = {row.sha} /\ row.sha \in Shas
  BY <1>1, HoldsOne
<1>3. CASE UNCHANGED <<objects, excused>>
  BY <1>1, <1>3, OverQuietly
<1>4. CASE /\ F!RemoveObject(F!Held(r).sha)
           /\ excused' = IF F!Relied(F!Held(r).sha, got[r]) THEN excused \cup {F!Held(r).sha}
                                                            ELSE excused
  <2>1. objects' = objects \ {row.sha}
    BY <1>2, <1>4 DEF F!RemoveObject
  <2>2. /\ MemoryType' /\ ReqFits(r)' /\ step'[r] = "idle"
        /\ \A q \in Transfers \ {r} : step'[q] = step[q] /\ mine'[q] = mine[q] /\ got'[q] = got[q]
    BY <1>1, Over DEF FilesFit, F!TypeOK
  <2>3. row.sha \notin got[r]
    BY <1>1, <1>2, RequestByRequest DEF FilesFit, ReqFits
  <2>4. excused' \in SUBSET Shas /\ excused \subseteq excused'
    BY <1>2, <1>4 DEF FilesFit, F!TypeOK
  <2>5. CASE F!Relied(row.sha, got[r])
    <3>1. F!Kept \subseteq F!Kept'
      BY <1>2, <1>4, <2>1, <2>5 DEF F!Kept
    <3>2. TablesFit'
      BY <1>1, <1>2, <1>4, <2>1, <2>5, RequestByRequest
         DEF FilesFit, TablesFit, F!Whole, F!OnlyOverlapLosesBytes, F!ShasOf
    <3> QED BY <1>1, <2>1, <2>2, <2>4, <3>1, <3>2, OthersStand
            DEF FilesFit, F!TypeOK, MemoryType
  <2>6. CASE ~F!Relied(row.sha, got[r])
    <3>1. excused' = excused /\ F!Kept \ {row.sha} \subseteq F!Kept'
      BY <1>2, <1>4, <2>1, <2>6 DEF F!Kept
    <3>2. row.sha \notin F!ShasOf(rows)
      BY <2>3, <2>6 DEF F!Relied
    <3>3. TablesFit'
      BY <1>1, <2>1, <3>1, <3>2, RequestByRequest
         DEF FilesFit, TablesFit, F!Whole, F!OnlyOverlapLosesBytes, F!ShasOf
    <3>4. ASSUME NEW q \in Transfers \ {r} PROVE ReqFits(q)'
      <4>1. ReqFits(q)
        BY RequestByRequest DEF FilesFit
      <4>2. F!ShasOf(mine[q])' = F!ShasOf(mine[q]) /\ F!Held(q)' = F!Held(q)
        BY <2>2 DEF F!ShasOf, F!Held
      <4>3. /\ step[q] \in {"insert", "dedupe", "load"} => row.sha \notin F!ShasOf(mine[q])
            /\ step[q] = "blobs" => row.sha \notin got[q]
        BY <2>6 DEF F!Relied
      <4> QED BY <1>1, <2>2, <3>1, <4>1, <4>2, <4>3 DEF ReqFits
    <3>5. F!Inv'
      BY <2>2, <3>3, <3>4, RequestByRequest
    <3> QED BY <1>1, <2>1, <2>2, <2>4, <3>5 DEF FilesFit, F!TypeOK, MemoryType
  <2> QED BY <2>5, <2>6
<1> QED BY <1>3, <1>4 DEF F!StoreDelete

-----------------------------------------------------------------------------
(* Backup, restore and import *)

LEMMA ExportFits ==
  ASSUME FilesFit, NEW r \in Transfers, F!Export(r)
  PROVE  FilesFit'
<1>1. /\ UNCHANGED <<rows, objects, existing, hidden, unsolved, backups, excused>>
      /\ step[r] = "idle" /\ F!At(r, "export") /\ mine' = [mine EXCEPT ![r] = rows] /\ got' = got
  BY DEF F!Export, F!data, F!Arrives, F!Idle
<1>2. rows \in SUBSET F!Rows /\ IsFiniteSet(rows)
  BY RequestByRequest DEF FilesFit, F!TypeOK, TablesFit
<1>3. /\ step'[r] = "export" /\ IsFiniteSet(mine'[r]) /\ MemoryType'
      /\ \A q \in Transfers \ {r} : step'[q] = step[q] /\ mine'[q] = mine[q] /\ got'[q] = got[q]
  BY <1>1, <1>2, Onward DEF F!Labels
<1>4. ReqFits(r)'
  BY <1>3 DEF ReqFits
<1> QED BY <1>1, <1>3, <1>4, QuietStep

(* An archive holds the object of every row it lists, or is not written.   *)
LEMMA WriteUploadsFits ==
  ASSUME FilesFit, NEW r \in Transfers, F!WriteUploads(r)
  PROVE  FilesFit'
<1>1. /\ step[r] = "export"
      /\ UNCHANGED <<rows, objects, existing, hidden, unsolved, excused>>
  BY DEF F!WriteUploads
<1>2. IsFiniteSet(mine[r]) /\ mine[r] \in SUBSET F!Rows /\ got[r] \in SUBSET Shas
  BY RequestByRequest DEF FilesFit, F!TypeOK, ReqFits
<1>3. CASE F!ShasOf(mine[r]) = got[r]
  <2> DEFINE archive == [rows |-> mine[r], objects |-> got[r]]
  <2>1. F!Answered(r, "archived") /\ backups' = backups \cup {archive}
    BY <1>3 DEF F!WriteUploads
  <2>2. /\ archive.rows = mine[r] /\ archive.objects = got[r]
        /\ archive \in [rows : SUBSET F!Rows, objects : SUBSET Shas]
    BY <1>2
  <2>3. F!ShasOf(archive.rows) = archive.objects
    BY <1>3, <2>2
  <2> HIDE DEF archive
  <2>4. /\ MemoryType' /\ ReqFits(r)'
        /\ \A q \in Transfers \ {r} : step'[q] = step[q] /\ mine'[q] = mine[q] /\ got'[q] = got[q]
    BY <2>1, Over
  <2>5. \A b \in backups' : IsFiniteSet(b.rows) /\ b.objects = F!ShasOf(b.rows)
    <3>1. \A b \in backups : IsFiniteSet(b.rows) /\ b.objects = F!ShasOf(b.rows)
      BY RequestByRequest DEF FilesFit, TablesFit, F!Whole
    <3> QED BY <1>2, <2>1, <2>2, <2>3, <3>1
  <2>6. TablesFit'
    BY <1>1, <2>5, RequestByRequest
       DEF FilesFit, TablesFit, F!Whole, F!OnlyOverlapLosesBytes, F!ShasOf
  <2>7. F!Inv'
    BY <1>1, <2>1, <2>4, <2>6, OthersStand DEF F!Kept
  <2> QED BY <1>1, <2>1, <2>2, <2>4, <2>7 DEF FilesFit, F!TypeOK, MemoryType
<1>4. ASSUME NEW sha \in Shas, got' = [got EXCEPT ![r] = @ \cup {sha}],
             UNCHANGED <<step, mine, backups>>
      PROVE  FilesFit'
  <2>1. /\ MemoryType' /\ step'[r] = "export" /\ mine'[r] = mine[r]
        /\ \A q \in Transfers \ {r} : step'[q] = step[q] /\ mine'[q] = mine[q] /\ got'[q] = got[q]
    BY <1>1, <1>4 DEF FilesFit, F!TypeOK, MemoryType
  <2>2. ReqFits(r)'
    BY <1>2, <2>1 DEF ReqFits
  <2> QED BY <1>1, <1>4, <2>1, <2>2, QuietStep
<1>5. CASE F!Answered(r, "no archive") /\ UNCHANGED backups
  BY <1>1, <1>5, OverQuietly
<1>6. F!ShasOf(mine[r]) \subseteq Shas
  BY <1>2 DEF F!ShasOf, F!Rows
<1> QED BY <1>3, <1>4, <1>5, <1>6 DEF F!WriteUploads

LEMMA RestoreFits ==
  ASSUME FilesFit, NEW r \in Transfers, F!Restore(r)
  PROVE  FilesFit'
<1>1. PICK b \in backups : mine' = [mine EXCEPT ![r] = b.rows] /\ F!At(r, "blobs")
  BY DEF F!Restore
<1>2. /\ UNCHANGED <<rows, objects, existing, hidden, unsolved, backups, excused, got>>
      /\ step[r] = "idle"
  BY DEF F!Restore, F!data, F!Arrives, F!Idle
<1>3. b.rows \in SUBSET F!Rows /\ IsFiniteSet(b.rows) /\ got[r] = {}
  BY <1>2, RequestByRequest DEF FilesFit, F!TypeOK, TablesFit, ReqFits
<1>4. /\ step'[r] = "blobs" /\ got'[r] = {} /\ IsFiniteSet(mine'[r]) /\ MemoryType'
      /\ \A q \in Transfers \ {r} : step'[q] = step[q] /\ mine'[q] = mine[q] /\ got'[q] = got[q]
  BY <1>1, <1>2, <1>3, Onward DEF F!Labels
<1>5. mine'[r] = b.rows
  BY <1>1 DEF FilesFit, F!TypeOK
<1>6. ReqFits(r)'
  BY <1>2, <1>4, <1>5 DEF ReqFits
<1> QED BY <1>2, <1>4, <1>6, QuietStep

(* When the archive's last object has been put, every row of it has its    *)
(* bytes.                                                                  *)
LEMMA RestoreUploadsFits ==
  ASSUME FilesFit, NEW r \in Transfers, F!RestoreUploads(r)
  PROVE  FilesFit'
<1>1. /\ step[r] = "blobs"
      /\ UNCHANGED <<rows, existing, hidden, unsolved, backups, mine, excused>>
  BY DEF F!RestoreUploads
<1>2. /\ got[r] \subseteq F!Kept /\ IsFiniteSet(mine[r])
      /\ \E b \in backups : b.rows = mine[r]
  BY <1>1, RequestByRequest DEF FilesFit, ReqFits
<1>3. CASE F!Carried(r) = got[r] /\ F!At(r, "load") /\ UNCHANGED <<objects, got>>
  <2>1. F!ShasOf(mine[r]) \subseteq F!Carried(r)
    BY <1>2, RequestByRequest DEF FilesFit, TablesFit, F!Whole, F!Carried
  <2>2. /\ step'[r] = "load" /\ IsFiniteSet(mine'[r]) /\ MemoryType'
        /\ \A q \in Transfers \ {r} : step'[q] = step[q] /\ mine'[q] = mine[q] /\ got'[q] = got[q]
    BY <1>1, <1>3, Onward DEF F!Labels
  <2>3. F!Kept' = F!Kept /\ mine' = mine
    BY <1>1, <1>3 DEF F!Kept
  <2>4. F!ShasOf(mine'[r]) \subseteq F!Kept'
    BY <1>2, <1>3, <2>1, <2>3
  <2>5. ReqFits(r)'
    BY <2>2, <2>4 DEF ReqFits, F!ShasOf
  <2> QED BY <1>1, <1>3, <2>2, <2>5, QuietStep
<1>4. ASSUME NEW sha \in F!Carried(r), F!Put(sha), got' = [got EXCEPT ![r] = @ \cup {sha}],
             UNCHANGED step
      PROVE  FilesFit'
  <2>1. sha \in Shas
    BY <1>4 DEF F!Carried, FilesFit, F!TypeOK
  <2>2. /\ MemoryType' /\ step'[r] = "blobs" /\ mine' = mine /\ got'[r] = got[r] \cup {sha}
        /\ \A q \in Transfers \ {r} : step'[q] = step[q] /\ mine'[q] = mine[q] /\ got'[q] = got[q]
    BY <1>1, <1>4, <2>1 DEF FilesFit, F!TypeOK, MemoryType
  <2>3. got'[r] \subseteq F!Kept'
    BY <1>1, <1>2, <1>4, <2>2 DEF F!Kept, F!Put
  <2>4. ReqFits(r)'
    BY <1>1, <1>2, <2>2, <2>3 DEF ReqFits
  <2> QED BY <1>1, <1>4, <2>1, <2>2, <2>4, PutFits
<1> QED BY <1>3, <1>4 DEF F!RestoreUploads

LEMMA RestoreTablesFits ==
  ASSUME FilesFit, NEW r \in Transfers, F!RestoreTables(r)
  PROVE  FilesFit'
<1>1. /\ step[r] = "load" /\ F!Answered(r, "restored") /\ rows' = mine[r]
      /\ existing' = existing \cup {row.ch : row \in mine[r]}
      /\ UNCHANGED <<objects, hidden, unsolved, backups, excused>>
  BY DEF F!RestoreTables
<1>2. /\ F!ShasOf(mine[r]) \subseteq F!Kept /\ IsFiniteSet(mine[r]) /\ mine[r] \in SUBSET F!Rows
  BY <1>1, RequestByRequest DEF FilesFit, F!TypeOK, ReqFits
<1>3. /\ MemoryType' /\ ReqFits(r)'
      /\ \A q \in Transfers \ {r} : step'[q] = step[q] /\ mine'[q] = mine[q] /\ got'[q] = got[q]
  BY <1>1, Over
<1>4. F!OnlyOverlapLosesBytes'
  BY <1>1, <1>2 DEF F!OnlyOverlapLosesBytes, F!ShasOf, F!Kept
<1>5. TablesFit'
  BY <1>1, <1>2, <1>4, RequestByRequest DEF FilesFit, TablesFit, F!Whole, F!ShasOf
<1>6. F!Inv'
  BY <1>1, <1>3, <1>5, OthersStand DEF F!Kept
<1>7. existing' \in SUBSET Challenges
  BY <1>1, <1>2 DEF FilesFit, F!TypeOK, F!Rows
<1> QED BY <1>1, <1>2, <1>3, <1>6, <1>7 DEF FilesFit, F!TypeOK, MemoryType

LEMMA ImportFits ==
  ASSUME FilesFit, NEW r \in Transfers, F!Import(r)
  PROVE  FilesFit'
<1>1. PICK i \in Imports : rows' = i /\ existing' = {row.ch : row \in i}
  BY DEF F!Import
<1>2. /\ excused' = excused \cup F!ShasOf(rows') /\ F!Answered(r, "imported")
      /\ UNCHANGED <<objects, hidden, unsolved, backups>>
  BY DEF F!Import, F!ShasOf
<1>3. i \subseteq F!Rows /\ IsFiniteSet(i)
  BY StoreConstants, SameMeasures DEF F!FileConstants
<1>4. /\ MemoryType' /\ ReqFits(r)'
      /\ \A q \in Transfers \ {r} : step'[q] = step[q] /\ mine'[q] = mine[q] /\ got'[q] = got[q]
  BY <1>2, Over
<1>5. F!OnlyOverlapLosesBytes'
  BY <1>2 DEF F!OnlyOverlapLosesBytes, F!ShasOf
<1>6. TablesFit'
  BY <1>1, <1>2, <1>3, <1>5, RequestByRequest DEF FilesFit, TablesFit, F!Whole, F!ShasOf
<1>7. F!Inv'
  BY <1>2, <1>4, <1>6, OthersStand DEF F!Kept
<1>8. existing' \in SUBSET Challenges /\ excused' \in SUBSET Shas
  BY <1>1, <1>2, <1>3 DEF FilesFit, F!TypeOK, F!Rows, F!ShasOf
<1> QED BY <1>1, <1>2, <1>3, <1>4, <1>7, <1>8 DEF FilesFit, F!TypeOK, MemoryType

LEMMA DeleteChallengeFits ==
  ASSUME FilesFit, NEW c \in Challenges, F!DeleteChallenge(c)
  PROVE  FilesFit'
<1>1. /\ existing' = existing \ {c} /\ rows' \subseteq rows
      /\ UNCHANGED <<objects, hidden, unsolved, backups, excused, step, mine, got>>
  BY DEF F!DeleteChallenge, F!mem
<1>2. TablesFit' /\ rows' \in SUBSET F!Rows /\ F!Kept' = F!Kept
  BY <1>1, FewerRows
<1>3. ASSUME NEW q \in Transfers PROVE ReqFits(q)'
  <2>1. ReqFits(q)
    BY RequestByRequest DEF FilesFit
  <2>2. F!ShasOf(mine[q])' = F!ShasOf(mine[q]) /\ F!Held(q)' = F!Held(q)
    BY <1>1 DEF F!ShasOf, F!Held
  <2> QED BY <1>1, <1>2, <2>1, <2>2 DEF ReqFits
<1>4. F!Inv'
  BY <1>2, <1>3, RequestByRequest
<1> QED BY <1>1, <1>2, <1>4 DEF FilesFit, F!TypeOK

-----------------------------------------------------------------------------
LEMMA FilesStart == F!Init => FilesFit
<1> SUFFICES ASSUME F!Init PROVE FilesFit
  OBVIOUS
<1> USE DEF F!Init
<1>1. F!TypeOK
  BY DEF F!TypeOK, F!Labels
<1>2. TablesFit
  BY FS_EmptySet DEF TablesFit, F!Whole, F!OnlyOverlapLosesBytes, F!ShasOf
<1>3. \A r \in Transfers : ReqFits(r)
  BY FS_EmptySet DEF ReqFits
<1> QED BY <1>1, <1>2, <1>3, RequestByRequest DEF FilesFit

LEMMA FilesStand ==
  ASSUME FilesFit, UNCHANGED files PROVE FilesFit'
<1>1. UNCHANGED <<step, rows, objects, existing, hidden, unsolved, backups, mine, got, excused>>
  BY DEF files
<1> QED BY <1>1 DEF FilesFit, F!TypeOK, F!Inv, F!OneRow, F!Backed, F!Unnamed, F!Whole,
                    F!Finite, F!OnlyOverlapLosesBytes, F!Idle, F!Held, F!ShasOf, F!Kept

LEMMA FilesStep == FilesFit /\ F!Next => FilesFit'
<1> SUFFICES ASSUME FilesFit, F!Next PROVE FilesFit'
  OBVIOUS
<1>1. CASE \E c \in Challenges : F!DeleteChallenge(c)
  BY <1>1, DeleteChallengeFits
<1>2. ASSUME NEW r \in Transfers,
             \/ F!Upload(r) \/ F!PutStat(r) \/ F!PutObject(r) \/ F!AdminInsertFile(r)
             \/ F!GetFileByLocation(r) \/ F!Delete(r) \/ F!CommitDelete(r) \/ F!StoreDelete(r)
             \/ F!GetChallengeFileForDownload(r) \/ F!Content(r) \/ F!Export(r) \/ F!WriteUploads(r)
             \/ F!Restore(r) \/ F!RestoreUploads(r) \/ F!RestoreTables(r) \/ F!Import(r) \/ F!Crash(r)
      PROVE  FilesFit'
  BY <1>2, UploadFits, PutStatFits, PutObjectFits, InsertFits, QuietlyAnswered, TakesRow,
     CommitDeleteFits, StoreDeleteFits, ExportFits, WriteUploadsFits, RestoreFits,
     RestoreUploadsFits, RestoreTablesFits, ImportFits
<1> QED BY <1>1, <1>2 DEF F!Next

(* At the files: types, the row a request holds, that whoever will name an *)
(* address has seen its object there or it is excused, that no sweep is    *)
(* under way of an address that was named at the commit, that archives are *)
(* whole, and OnlyOverlapLosesBytes.                                       *)
THEOREM FilesInvariant == GoodsSpec => [](focus = "files" => FilesFit)
<1>1. GoodsInit => (focus = "files" => FilesFit)
  BY FilesStart DEF GoodsInit
<1>2. (focus = "files" => FilesFit) /\ [Purchase \/ FileStore]_<<focus, vars, files>>
        => (focus = "files" => FilesFit)'
  <2>1. CASE FileStore
    BY <2>1, FilesStep DEF FileStore
  <2>2. CASE Purchase \/ UNCHANGED <<focus, vars, files>>
    BY <2>2, FilesStand DEF Purchase
  <2> QED BY <2>1, <2>2
<1> QED BY <1>1, <1>2, PTL DEF GoodsSpec

(* No crash, failed store call, duplicate upload, deletion of another row  *)
(* with the same bytes, or restore of a backup leaves a committed row      *)
(* without its bytes, unless an import brought the row or a sweep ran      *)
(* under an upload that had already relied on the object.                  *)
THEOREM OnlyOverlapLosesBytesHolds == GoodsSpec => []OnlyOverlapLosesBytes
<1>1. (focus = "files" => FilesFit) => OnlyOverlapLosesBytes
  BY DEF FilesFit, F!Inv, OnlyOverlapLosesBytes
<1> QED BY <1>1, FilesInvariant, PTL
=============================================================================
