----------------------------- MODULE HintUnlock -----------------------------
(***************************************************************************)
(* Buying hints (gameplay.Service.UnlockHint): one READ COMMITTED          *)
(* transaction per request, one action per SQL statement, against          *)
(* everything else that moves an account's points: solves, manual awards   *)
(* and their revocation.  The hints belong to one challenge.  An account   *)
(* is a user or a team.                                                    *)
(***************************************************************************)
EXTENDS Integers, FiniteSets

CONSTANTS
  Requests, Accounts, Hints, None,
  FirstPrice,    \* FirstPrice[h]: hints.cost as created
  NextPrice,     \* NextPrice[h]: what an edit makes of it
  Needs,         \* Needs[h]: hints to be unlocked before h
  SolveValue,    \* points a solve brings
  Awards,        \* manual awards an admin may grant
  Worth,         \* Worth[w]: the value of a manual award, negative for a penalty
  MaxSolves,     \* bound on solves
  MaxEdits       \* bound on hint and challenge edits

ASSUME HintConstants ==
  /\ None \notin Requests \cup Accounts
  /\ FirstPrice \in [Hints -> Nat] /\ NextPrice \in [Hints -> Nat]
  /\ Needs \in [Hints -> SUBSET Hints]
  /\ SolveValue \in Nat
  /\ Worth \in [Awards -> Int]
  /\ MaxSolves \in Nat /\ MaxEdits \in Nat

VARIABLES
  req,        \* req[r]: the account and the hint
  pc,         \* pc[r]: the next statement, or the outcome
  charged,    \* charged[r]: hints.cost as read with the hint
  spendLock,  \* spendLock[a]: holder of FOR NO KEY UPDATE on the account row
  open,       \* accounts that have solved the challenge's prerequisites
  shown,      \* the challenge is visible
  price,      \* price[h]: hints.cost
  exists,     \* the hints not deleted
  total,      \* total[a]: SUM(solves.value) + SUM(awards.value), committed
  charges,    \* committed hint_unlock awards
  unlocks,    \* committed hint_unlocks rows
  holder,     \* holder[w]: whose manual award w is, None before and after
  granted,    \* manual awards ever granted
  docked,     \* penalties granted and rewards revoked so far
  solved,     \* solves so far
  edited      \* edits so far

board == <<open, shown, price, exists, edited>>
purse == <<total, charges, unlocks, holder, granted, docked, solved>>
vars  == <<req, pc, charged, spendLock, board, purse>>

acct(r) == req[r].acct
hint(r) == req[r].hint

Running  == {"gate", "lock", "owned", "score", "charge", "unlock", "commit"}
Outcomes == {"unlocked", "not_found", "hint_locked", "already_unlocked", "insufficient",
             "failed"}

Owns(a, h) == \E u \in unlocks : u.acct = a /\ u.hint = h
Locked     == {"owned", "score", "charge", "unlock", "commit"}
Paying     == {"charge", "unlock", "commit"}

TypeOK ==
  /\ req \in [Requests -> [acct : Accounts, hint : Hints]]
  /\ pc \in [Requests -> {"idle"} \cup Running \cup Outcomes]
  /\ charged \in [Requests -> Nat]
  /\ spendLock \in [Accounts -> Requests \cup {None}]
  /\ open \subseteq Accounts /\ shown \in BOOLEAN
  /\ price \in [Hints -> Nat] /\ exists \subseteq Hints
  /\ total \in [Accounts -> Int]
  /\ charges \subseteq [by : Requests, acct : Accounts, value : Int]
  /\ unlocks \subseteq [by : Requests, acct : Accounts, hint : Hints]
  /\ holder \in [Awards -> Accounts \cup {None}] /\ granted \subseteq Awards
  /\ docked \in Nat /\ solved \in Nat /\ edited \in Nat

Init ==
  /\ req \in [Requests -> [acct : Accounts, hint : Hints]]
  /\ pc = [r \in Requests |-> "idle"]
  /\ charged = [r \in Requests |-> 0]
  /\ spendLock = [a \in Accounts |-> None]
  /\ open \in SUBSET Accounts
  /\ shown = TRUE
  /\ price = FirstPrice
  /\ exists = Hints
  /\ total = [a \in Accounts |-> 0]
  /\ charges = {} /\ unlocks = {}
  /\ holder = [w \in Awards |-> None] /\ granted = {}
  /\ docked = 0 /\ solved = 0 /\ edited = 0

Goto(r, label) == pc' = [pc EXCEPT ![r] = label]

Proceed(r, label) ==
  /\ Goto(r, label)
  /\ UNCHANGED <<req, charged, spendLock, board, purse>>

(* The transaction ends: its outcome, and the account's row released.      *)
Finish(r, outcome) ==
  /\ Goto(r, outcome)
  /\ spendLock' = [a \in Accounts |-> IF spendLock[a] = r THEN None ELSE spendLock[a]]
  /\ UNCHANGED <<req, charged, board>>

Rollback(r, outcome) == Finish(r, outcome) /\ UNCHANGED purse

(* GetHint: through its own challenge, and only a visible one.             *)
GetHint(r) ==
  /\ pc[r] = "idle"
  /\ IF shown /\ hint(r) \in exists
     THEN /\ charged' = [charged EXCEPT ![r] = price[hint(r)]]
          /\ Goto(r, "gate")
          /\ UNCHANGED <<req, spendLock, board, purse>>
     ELSE Proceed(r, "not_found")

(* The challenge's gate answers like a missing hint, the hint's own gate   *)
(* before anything is locked or charged.                                   *)
Gate(r) ==
  /\ pc[r] = "gate"
  /\ \/ acct(r) \notin open /\ Rollback(r, "not_found")
     \/ /\ acct(r) \in open
        /\ \E n \in Needs[hint(r)] : ~Owns(acct(r), n)
        /\ Rollback(r, "hint_locked")
     \/ /\ acct(r) \in open
        /\ \A n \in Needs[hint(r)] : Owns(acct(r), n)
        /\ Proceed(r, "lock")

(* Slip: the account row is read, not locked.                              *)
ReadAccount(r) == pc[r] = "lock" /\ Proceed(r, "owned")

(* LockUserForSpend or LockTeamForSpend.                                   *)
LockAccount(r) ==
  /\ pc[r] = "lock"
  /\ spendLock[acct(r)] = None
  /\ spendLock' = [spendLock EXCEPT ![acct(r)] = r]
  /\ Goto(r, "owned")
  /\ UNCHANGED <<req, charged, board, purse>>

(* GetHintUnlock, under the lock and before the balance.                   *)
CheckOwned(r) ==
  /\ pc[r] = "owned"
  /\ IF Owns(acct(r), hint(r))
     THEN Rollback(r, "already_unlocked")
     ELSE Proceed(r, "score")

(* Slip: the cost is compared negated, as the award carries it.            *)
CheckScoreNegated(r) ==
  /\ pc[r] = "score"
  /\ IF total[acct(r)] < -charged[r]
     THEN Rollback(r, "insufficient")
     ELSE Proceed(r, "charge")

(* GetAccountScore against the price read with the hint.                   *)
CheckScore(r) ==
  /\ pc[r] = "score"
  /\ IF total[acct(r)] < charged[r]
     THEN Rollback(r, "insufficient")
     ELSE Proceed(r, "charge")

InsertCharge(r) == pc[r] = "charge" /\ Proceed(r, "unlock")

(* InsertHintUnlock, ON CONFLICT DO NOTHING: waits for the same key in     *)
(* flight; a committed one means rolling back, the charge included.        *)
InsertUnlock(r) ==
  /\ pc[r] = "unlock"
  /\ ~\E t \in Requests \ {r} : pc[t] = "commit" /\ req[t] = req[r]
  /\ \/ Owns(acct(r), hint(r)) /\ Rollback(r, "already_unlocked")
     \/ ~Owns(acct(r), hint(r)) /\ hint(r) \notin exists /\ Rollback(r, "failed")
     \/ ~Owns(acct(r), hint(r)) /\ hint(r) \in exists /\ Proceed(r, "commit")

(* Slip: the charge is written on a connection of its own.                 *)
CommitUnlockOnly(r) ==
  /\ pc[r] = "commit"
  /\ total' = [total EXCEPT ![acct(r)] = @ - charged[r]]
  /\ unlocks' = unlocks \cup {[by |-> r, acct |-> acct(r), hint |-> hint(r)]}
  /\ Finish(r, "unlocked")
  /\ UNCHANGED <<charges, holder, granted, docked, solved>>

Commit(r) ==
  /\ pc[r] = "commit"
  /\ total' = [total EXCEPT ![acct(r)] = @ - charged[r]]
  /\ charges' = charges \cup {[by |-> r, acct |-> acct(r), value |-> -charged[r]]}
  /\ unlocks' = unlocks \cup {[by |-> r, acct |-> acct(r), hint |-> hint(r)]}
  /\ Finish(r, "unlocked")
  /\ UNCHANGED <<holder, granted, docked, solved>>

(* An error return, a cancelled request or a crash at any statement.       *)
Abort(r) == pc[r] \in Running /\ Rollback(r, "failed")

(* A submission commits a solve: its foreign keys only share the account   *)
(* row, so it never waits for a spend.  It may open the challenge.         *)
EarnSolve(a) ==
  /\ solved < MaxSolves /\ solved' = solved + 1
  /\ total' = [total EXCEPT ![a] = @ + SolveValue]
  /\ open' \in {open, open \cup {a}}
  /\ UNCHANGED <<req, pc, charged, spendLock, shown, price, exists, edited, charges, unlocks,
                 holder, granted, docked>>

(* GrantAward inserts a row that shares the account, so no spend delays it. *)
GrantAward(w, a) ==
  /\ w \notin granted
  /\ granted' = granted \cup {w}
  /\ holder' = [holder EXCEPT ![w] = a]
  /\ total' = [total EXCEPT ![a] = @ + Worth[w]]
  /\ docked' = IF Worth[w] < 0 THEN docked + 1 ELSE docked
  /\ UNCHANGED <<req, pc, charged, spendLock, board, charges, unlocks, solved>>

(* RevokeAward: only a manual award can be deleted.                        *)
RevokeAward(w) ==
  /\ holder[w] # None
  /\ holder' = [holder EXCEPT ![w] = None]
  /\ total' = [total EXCEPT ![holder[w]] = @ - Worth[w]]
  /\ docked' = IF Worth[w] > 0 THEN docked + 1 ELSE docked
  /\ UNCHANGED <<req, pc, charged, spendLock, board, charges, unlocks, granted, solved>>

(* Hints are repriced and, while nobody holds or is writing one, deleted;  *)
(* the challenge is hidden and shown.                                      *)
UpdateHint(h) ==
  /\ edited < MaxEdits /\ edited' = edited + 1
  /\ h \in exists /\ price[h] # NextPrice[h]
  /\ price' = [price EXCEPT ![h] = NextPrice[h]]
  /\ UNCHANGED <<req, pc, charged, spendLock, open, shown, exists, purse>>

DeleteHint(h) ==
  /\ edited < MaxEdits /\ edited' = edited + 1
  /\ h \in exists
  /\ ~\E u \in unlocks : u.hint = h
  /\ ~\E r \in Requests : pc[r] = "commit" /\ hint(r) = h
  /\ exists' = exists \ {h}
  /\ UNCHANGED <<req, pc, charged, spendLock, open, shown, price, purse>>

SetChallengeState ==
  /\ edited < MaxEdits /\ edited' = edited + 1
  /\ shown' = ~shown
  /\ UNCHANGED <<req, pc, charged, spendLock, open, price, exists, purse>>

Step(r) ==
  \/ Gate(r) \/ LockAccount(r) \/ CheckOwned(r) \/ CheckScore(r)
  \/ InsertCharge(r) \/ InsertUnlock(r) \/ Commit(r)

Next ==
  \/ \E r \in Requests : GetHint(r) \/ Step(r) \/ Abort(r)
  \/ \E a \in Accounts : EarnSolve(a)
  \/ \E w \in Awards : RevokeAward(w) \/ \E a \in Accounts : GrantAward(w, a)
  \/ \E h \in Hints : UpdateHint(h) \/ DeleteHint(h)
  \/ SetChallengeState

Spec == Init /\ [][Next]_vars
-----------------------------------------------------------------------------
(* Spending never overdraws: as long as no admin takes points away, the    *)
(* balance stays at or above zero, whatever hints are bought at once with  *)
(* points for one (the account lock before GetAccountScore).               *)
NeverOverdrawn == docked = 0 => \A a \in Accounts : total[a] >= 0

(* Exactly one charge for each unlock, of the same account, and none       *)
(* without one: a lost race leaves no orphan charge.                       *)
OneChargePerUnlock ==
  /\ {[by |-> x.by, acct |-> x.acct] : x \in charges}
       = {[by |-> u.by, acct |-> u.acct] : u \in unlocks}
  /\ \A x, y \in charges : x.by = y.by => x = y

(* No account pays twice for a hint, nor for one that is gone.             *)
BoughtOnce ==
  \A u, v \in unlocks : u.acct = v.acct /\ u.hint = v.hint => u = v

UnlocksExist == \A u \in unlocks : u.hint \in exists

(* A hint is never held without the hints it needs, although they are read *)
(* before the account is locked.                                           *)
NeedsFirst == \A u \in unlocks : \A n \in Needs[u.hint] : Owns(u.acct, n)

-----------------------------------------------------------------------------
(* Why: the account row is held from the ownership check to the commit, and *)
(* what was checked stays true while it is.                                *)
SpendLocked == \A r \in Requests : pc[r] \in Locked => spendLock[acct(r)] = r

Affordable ==
  docked = 0 => \A r \in Requests : pc[r] \in Paying => charged[r] <= total[acct(r)]

NotOwnedYet ==
  \A r \in Requests : pc[r] \in Paying \cup {"score"} => ~Owns(acct(r), hint(r))

ByCommitted ==
  /\ \A u \in unlocks : pc[u.by] = "unlocked"
  /\ \A x \in charges : pc[x.by] = "unlocked"

GateKept ==
  \A r \in Requests : pc[r] \in {"lock"} \cup Locked =>
    \A n \in Needs[hint(r)] : Owns(acct(r), n)

InFlightExists == \A r \in Requests : pc[r] = "commit" => hint(r) \in exists

Inv == SpendLocked /\ Affordable /\ NotOwnedYet /\ ByCommitted /\ GateKept /\ InFlightExists
         /\ NeverOverdrawn /\ OneChargePerUnlock /\ BoughtOnce /\ UnlocksExist /\ NeedsFirst
-----------------------------------------------------------------------------
(* The purse each account seems to have. *)
Owned == [a \in Accounts |-> {h \in Hints : Owns(a, h)}]

Purse == INSTANCE Purse WITH balance <- total, owned <- Owned

(* The interleaved transactions are purchases made one at a time.          *)
ImplementsPurse == Purse!Spec
=============================================================================
