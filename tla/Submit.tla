------------------------------- MODULE Submit -------------------------------
(***************************************************************************)
(* The flag submission path (gameplay.Service.Submit): one READ COMMITTED  *)
(* transaction per request, modelled one SQL statement per action.  What a *)
(* transaction has written and not committed is in its own locals (stamp,  *)
(* blood, ask) and its program counter, so nobody else sees it; a commit   *)
(* publishes all of it, an abort none of it.  Beside the submissions run   *)
(* the admin writes that touch the same rows: hiding, showing and deleting *)
(* a challenge, hiding and banning an account.                             *)
(*                                                                         *)
(* An account is a user or a team, whichever user_mode the instance has.   *)
(***************************************************************************)
EXTENDS Decay, Sequences, FiniteSets

CONSTANTS
  Submissions,      \* the requests; each runs one transaction
  Accounts,
  Challenges,
  None,             \* no lock holder
  Cap,              \* Cap[c]: max_attempts, 0 for no cap
  FirstBlood,       \* FirstBlood[c]: "none", "announce" or "bonus"
  Curve,            \* Curve[c]: function, initial, minimum, decay
  AskingPrice,      \* AskingPrice[c]: the value column as the author created it
  Requires,         \* Requires[c]: the prerequisite challenges
  MaxAccountEdits,  \* bound on ban/hide toggles
  MaxChallengeEdits \* bound on hide/show/delete of challenges

ASSUME SubmitConstants ==
  /\ None \notin Submissions
  /\ Cap \in [Challenges -> Nat]
  /\ FirstBlood \in [Challenges -> {"none", "announce", "bonus"}]
  /\ Curve \in [Challenges -> Curves]
  /\ AskingPrice \in [Challenges -> Nat]
  /\ Requires \in [Challenges -> SUBSET Challenges]
  /\ MaxAccountEdits \in Nat
  /\ MaxChallengeEdits \in Nat

VARIABLES
  req,          \* req[s]: the account, the challenge, and whether the flag is right
  pc,           \* pc[s]: the next statement of the transaction, or its outcome
  stamp,        \* stamp[s]: the value read from the locked challenge row
  blood,        \* blood[s]: first blood, decided under the lock
  ask,          \* ask[s]: the recalculated value, not yet committed
  rowLock,      \* rowLock[c]: holder of FOR NO KEY UPDATE on the challenge
  attemptLock,  \* attemptLock[c][a]: holder of the advisory attempt lock
  state,        \* challenges.state, or "deleted"
  price,        \* challenges.value
  eligible,     \* eligible[a]: neither hidden nor banned
  wrong,        \* wrong[c][a]: committed incorrect submissions
  solves,       \* solves[c]: committed solves in id order
  bonus,        \* bonus[c]: accounts holding a first_blood award
  outbox,       \* committed announcement jobs and live-feed pulses
  accountEdits, \* ban and hide toggles so far
  challengeEdits \* hides, shows and deletes of challenges so far

txVars  == <<pc, stamp, blood, ask>>
locks   == <<rowLock, attemptLock>>
ledger  == <<wrong, solves, bonus, outbox>>
edits   == <<accountEdits, challengeEdits>>
vars    == <<req, txVars, locks, state, price, eligible, ledger, edits>>

Running  == {"gate", "lock", "count", "check", "logged", "locked", "duplicate",
             "solved", "counted", "paid", "priced"}
Outcomes == {"incorrect", "correct", "already_solved", "not_found", "prereqs_unmet",
             "no_attempts", "failed"}

acct(s) == req[s].acct
chal(s) == req[s].chal
Done(s) == pc[s] \in Outcomes

Solvers(c)     == {acct(solves[c][i].sub) : i \in DOMAIN solves[c]}
EligibleIn(c)  == {i \in DOMAIN solves[c] : eligible[acct(solves[c][i].sub)]}
HoldsSolve(s)  == pc[s] \in {"solved", "counted", "paid", "priced"}
HoldsRow(s)    == pc[s] = "logged" \/ pc[s] = "duplicate" \/ HoldsSolve(s)
HoldsBonus(s)  == pc[s] \in {"paid", "priced"} /\ blood[s] /\ FirstBlood[chal(s)] = "bonus"

TypeOK ==
  /\ req \in [Submissions -> [acct : Accounts, chal : Challenges, right : BOOLEAN]]
  /\ pc \in [Submissions -> {"idle"} \cup Running \cup Outcomes]
  /\ stamp \in [Submissions -> Nat]
  /\ blood \in [Submissions -> BOOLEAN]
  /\ ask \in [Submissions -> Nat]
  /\ rowLock \in [Challenges -> Submissions \cup {None}]
  /\ attemptLock \in [Challenges -> [Accounts -> Submissions \cup {None}]]
  /\ state \in [Challenges -> {"visible", "hidden", "deleted"}]
  /\ price \in [Challenges -> Nat]
  /\ eligible \in [Accounts -> BOOLEAN]
  /\ wrong \in [Challenges -> [Accounts -> Nat]]
  /\ solves \in [Challenges -> Seq([sub : Submissions, value : Nat])]
  /\ bonus \in [Challenges -> SUBSET Accounts]
  /\ outbox \subseteq [kind : {"announce", "pulse"}, sub : Submissions, blood : BOOLEAN]
  /\ accountEdits \in Nat
  /\ challengeEdits \in Nat

Init ==
  /\ req \in [Submissions -> [acct : Accounts, chal : Challenges, right : BOOLEAN]]
  /\ pc = [s \in Submissions |-> "idle"]
  /\ stamp = [s \in Submissions |-> 0]
  /\ blood = [s \in Submissions |-> FALSE]
  /\ ask = [s \in Submissions |-> 0]
  /\ rowLock = [c \in Challenges |-> None]
  /\ attemptLock = [c \in Challenges |-> [a \in Accounts |-> None]]
  /\ state = [c \in Challenges |-> "visible"]
  /\ price = AskingPrice
  /\ eligible \in [Accounts -> BOOLEAN]
  /\ wrong = [c \in Challenges |-> [a \in Accounts |-> 0]]
  /\ solves = [c \in Challenges |-> << >>]
  /\ bonus = [c \in Challenges |-> {}]
  /\ outbox = {}
  /\ accountEdits = 0
  /\ challengeEdits = 0

Goto(s, label) == pc' = [pc EXCEPT ![s] = label]

(* A statement that changes nothing anybody else can see.                  *)
Proceed(s, label) ==
  /\ Goto(s, label)
  /\ UNCHANGED <<req, stamp, blood, ask, locks, state, price, eligible, ledger, edits>>

(* Slip: the attempt lock belongs to the session and outlives the commit.  *)
FinishKeepsAttemptLock(s, outcome) ==
  /\ Goto(s, outcome)
  /\ rowLock' = [c \in Challenges |-> IF rowLock[c] = s THEN None ELSE rowLock[c]]
  /\ UNCHANGED attemptLock

(* The end of a transaction: the outcome the caller gets, and every lock    *)
(* it holds released.                                                      *)
Finish(s, outcome) ==
  /\ Goto(s, outcome)
  /\ rowLock' = [c \in Challenges |-> IF rowLock[c] = s THEN None ELSE rowLock[c]]
  /\ attemptLock' = [c \in Challenges |-> [a \in Accounts |->
       IF attemptLock[c][a] = s THEN None ELSE attemptLock[c][a]]]

(* A transaction that ends without a trace: an error return, or a lost     *)
(* connection, a cancelled request or a crashed server at any statement.   *)
Rollback(s, outcome) ==
  /\ Finish(s, outcome)
  /\ UNCHANGED <<req, stamp, blood, ask, state, price, eligible, ledger, edits>>

(* BEGIN and GetChallenge: only a visible challenge is playable.           *)
Begin(s) ==
  /\ pc[s] = "idle"
  /\ Proceed(s, IF state[chal(s)] = "visible" THEN "gate" ELSE "not_found")

(* challengePrereqsMet: a read without a lock.                             *)
PrereqsMet(s) == \A r \in Requires[chal(s)] : acct(s) \in Solvers(r)

Gate(s) ==
  /\ pc[s] = "gate"
  /\ IF PrereqsMet(s)
     THEN Proceed(s, IF Cap[chal(s)] > 0 THEN "lock" ELSE "check")
     ELSE Rollback(s, "prereqs_unmet")

(* Slip: the count is taken without the lock.                              *)
LockAttemptsNot(s) ==
  /\ pc[s] = "lock"
  /\ Proceed(s, "count")

(* LockAttemptCounter: waits for the account's other submissions to it.    *)
LockAttempts(s) ==
  /\ pc[s] = "lock"
  /\ attemptLock[chal(s)][acct(s)] = None
  /\ attemptLock' = [attemptLock EXCEPT ![chal(s)][acct(s)] = s]
  /\ Goto(s, "count")
  /\ UNCHANGED <<req, stamp, blood, ask, rowLock, state, price, eligible, ledger, edits>>

(* CountIncorrectSubmissions against the cap, before the flag is compared. *)
CountWrong(s) ==
  /\ pc[s] = "count"
  /\ IF wrong[chal(s)][acct(s)] >= Cap[chal(s)]
     THEN Rollback(s, "no_attempts")
     ELSE Proceed(s, "check")

(* Slip: every answer waits for the challenge row, a wrong one too.        *)
InsertIncorrectLocked(s) ==
  /\ pc[s] = "check" /\ ~req[s].right
  /\ rowLock[chal(s)] = None
  /\ IF state[chal(s)] = "deleted"
     THEN Rollback(s, "failed")
     ELSE Proceed(s, "logged")

(* A wrong flag: the attempt is logged and no challenge lock is taken.  The *)
(* insert of a row for a deleted challenge fails on its foreign key.       *)
InsertIncorrect(s) ==
  /\ pc[s] = "check" /\ ~req[s].right
  /\ IF state[chal(s)] = "deleted"
     THEN Rollback(s, "failed")
     ELSE Proceed(s, "logged")

CommitIncorrect(s) ==
  /\ pc[s] = "logged"
  /\ wrong' = [wrong EXCEPT ![chal(s)][acct(s)] = @ + 1]
  /\ Finish(s, "incorrect")
  /\ UNCHANGED <<req, stamp, blood, ask, state, price, eligible, solves, bonus,
                 outbox, edits>>

(* A right flag: LockChallengeForSubmit waits for the row, then reads it   *)
(* again as last committed, its state included.                            *)
LockChallenge(s) ==
  /\ pc[s] = "check" /\ req[s].right
  /\ rowLock[chal(s)] = None
  /\ IF state[chal(s)] = "visible"
     THEN /\ rowLock' = [rowLock EXCEPT ![chal(s)] = s]
          /\ stamp' = [stamp EXCEPT ![s] = price[chal(s)]]
          /\ Goto(s, "locked")
          /\ UNCHANGED <<req, blood, ask, attemptLock, state, price, eligible,
                         ledger, edits>>
     ELSE Rollback(s, "not_found")

(* The correct submission and the solve, ON CONFLICT DO NOTHING: an insert *)
(* in flight on the same key is waited for, a committed one conflicts.     *)
InsertSolve(s) ==
  /\ pc[s] = "locked"
  /\ ~\E t \in Submissions \ {s} :
        HoldsSolve(t) /\ chal(t) = chal(s) /\ acct(t) = acct(s)
  /\ Proceed(s, IF acct(s) \in Solvers(chal(s)) THEN "duplicate" ELSE "solved")

(* The commit keeps the correct submission row, which the model does not   *)
(* carry: it refers to a challenge whose solve pins the ledger already.    *)
CommitDuplicate(s) == pc[s] = "duplicate" /\ Rollback(s, "already_solved")

(* Slips: a hidden solver takes the blood, a hidden solver burns it.       *)
TakesBloodUnseen(s) ==
  /\ FirstBlood[chal(s)] # "none"
  /\ EligibleIn(chal(s)) = {}

TakesBloodIfEmpty(s) ==
  /\ FirstBlood[chal(s)] # "none"
  /\ solves[chal(s)] = << >>
  /\ eligible[acct(s)]

(* CountSolvesExcluding: no eligible solver before, and one's self eligible. *)
TakesFirstBlood(s) ==
  /\ FirstBlood[chal(s)] # "none"
  /\ EligibleIn(chal(s)) = {}
  /\ eligible[acct(s)]

CountPrior(s) ==
  /\ pc[s] = "solved"
  /\ blood' = [blood EXCEPT ![s] = TakesFirstBlood(s)]
  /\ Goto(s, "counted")
  /\ UNCHANGED <<req, stamp, ask, locks, state, price, eligible, ledger, edits>>

(* Slip: the pulse and the announcement do not wait for the commit.        *)
PayAndTell(s) ==
  /\ pc[s] = "counted"
  /\ outbox' = outbox
       \cup {[kind |-> "pulse", sub |-> s, blood |-> blood[s]]}
       \cup (IF blood[s] THEN {[kind |-> "announce", sub |-> s, blood |-> TRUE]} ELSE {})
  /\ Goto(s, "paid")
  /\ UNCHANGED <<req, stamp, blood, ask, locks, state, price, eligible, wrong,
                 solves, bonus, edits>>

(* The first_blood award, the announcement job and the feed pulse.  The    *)
(* partial unique index admits one first_blood award a challenge; there is *)
(* no ON CONFLICT here, so a second one fails the whole transaction.       *)
PayFirstBlood(s) ==
  /\ pc[s] = "counted"
  /\ IF blood[s] /\ FirstBlood[chal(s)] = "bonus"
     THEN /\ ~\E t \in Submissions \ {s} : HoldsBonus(t) /\ chal(t) = chal(s)
          /\ IF bonus[chal(s)] # {}
             THEN Rollback(s, "failed")
             ELSE Proceed(s, "paid")
     ELSE Proceed(s, "paid")

(* RecalcChallengeValue over the committed solves and the transaction's own. *)
Recalculated(s) ==
  IF Decays(Curve[chal(s)].function)
  THEN RecalcValue(Curve[chal(s)],
         Cardinality(EligibleIn(chal(s))) + (IF eligible[acct(s)] THEN 1 ELSE 0))
  ELSE price[chal(s)]

Recalc(s) ==
  /\ pc[s] = "paid"
  /\ ask' = [ask EXCEPT ![s] = Recalculated(s)]
  /\ Goto(s, "priced")
  /\ UNCHANGED <<req, stamp, blood, locks, state, price, eligible, ledger, edits>>

CommitCorrect(s) ==
  /\ pc[s] = "priced"
  /\ solves' = [solves EXCEPT ![chal(s)] = Append(@, [sub |-> s, value |-> stamp[s]])]
  /\ bonus' = IF HoldsBonus(s) THEN [bonus EXCEPT ![chal(s)] = @ \cup {acct(s)}] ELSE bonus
  /\ outbox' = outbox
       \cup {[kind |-> "pulse", sub |-> s, blood |-> blood[s]]}
       \cup (IF blood[s] THEN {[kind |-> "announce", sub |-> s, blood |-> TRUE]} ELSE {})
  /\ price' = [price EXCEPT ![chal(s)] = ask[s]]
  /\ Finish(s, "correct")
  /\ UNCHANGED <<req, stamp, blood, ask, state, eligible, wrong, edits>>

Abort(s) == pc[s] \in Running /\ Rollback(s, "failed")

(* SetChallengeState: the UPDATE waits for the row lock a submission holds. *)
SetChallengeState(c) ==
  /\ challengeEdits < MaxChallengeEdits /\ challengeEdits' = challengeEdits + 1
  /\ state[c] # "deleted" /\ rowLock[c] = None
  /\ \E new \in {"visible", "hidden"} \ {state[c]} : state' = [state EXCEPT ![c] = new]
  /\ UNCHANGED <<req, txVars, locks, price, eligible, ledger, accountEdits>>

(* DeleteChallenge: waits for the row lock and for every in-flight row that *)
(* references the challenge; RESTRICT refuses while the ledger names it.   *)
Referenced(c) == solves[c] # << >> \/ bonus[c] # {} \/ \E a \in Accounts : wrong[c][a] > 0

(* Slip: the delete does not wait for rows that are still being written.   *)
DeleteUnguarded(c) ==
  /\ challengeEdits < MaxChallengeEdits /\ challengeEdits' = challengeEdits + 1
  /\ state[c] # "deleted" /\ ~Referenced(c)
  /\ state' = [state EXCEPT ![c] = "deleted"]
  /\ UNCHANGED <<req, txVars, locks, price, eligible, ledger, accountEdits>>

DeleteChallenge(c) ==
  /\ challengeEdits < MaxChallengeEdits /\ challengeEdits' = challengeEdits + 1
  /\ state[c] # "deleted" /\ rowLock[c] = None
  /\ ~\E s \in Submissions : HoldsRow(s) /\ chal(s) = c
  /\ ~Referenced(c)
  /\ state' = [state EXCEPT ![c] = "deleted"]
  /\ UNCHANGED <<req, txVars, locks, price, eligible, ledger, accountEdits>>

(* Ban, unban, hide or show an account: no lock a submission waits for.    *)
Moderate(a) ==
  /\ accountEdits < MaxAccountEdits /\ accountEdits' = accountEdits + 1
  /\ eligible' = [eligible EXCEPT ![a] = ~@]
  /\ UNCHANGED <<req, txVars, locks, state, price, ledger, challengeEdits>>

Step(s) ==
  \/ Gate(s) \/ LockAttempts(s) \/ CountWrong(s)
  \/ InsertIncorrect(s) \/ CommitIncorrect(s)
  \/ LockChallenge(s) \/ InsertSolve(s) \/ CommitDuplicate(s)
  \/ CountPrior(s) \/ PayFirstBlood(s) \/ Recalc(s) \/ CommitCorrect(s)

Next ==
  \/ \E s \in Submissions : Begin(s) \/ Step(s) \/ Abort(s)
  \/ \E c \in Challenges : SetChallengeState(c) \/ DeleteChallenge(c)
  \/ \E a \in Accounts : Moderate(a)

Spec == Init /\ [][Next]_vars

(* Postgres grants a waiting lock request and the server runs every        *)
(* goroutine, so a begun transaction goes on; no request has to arrive, no *)
(* admin has to act and nothing has to fail.  FairSpec schedules the wrong *)
(* answers only: a right one may stall for ever, the challenge row in hand. *)
FairSpec  == Spec /\ \A s \in Submissions : WF_vars(~req[s].right /\ Step(s))
-----------------------------------------------------------------------------
(* The attempt cap is exact: however an account's submissions interleave,  *)
(* at most max_attempts wrong answers are ever recorded (LockAttemptCounter *)
(* makes count-then-insert one step).                                      *)
AttemptCap ==
  \A c \in Challenges, a \in Accounts : Cap[c] > 0 => wrong[c][a] <= Cap[c]

(* With accounts left alone, first blood goes to the first eligible solver *)
(* in commit order and to nobody else: announced once, and paid once when  *)
(* the challenge pays (CountSolvesExcluding, InsertAward).                 *)
Announced(c) == {m.sub : m \in {n \in outbox : n.kind = "announce" /\ chal(n.sub) = c}}

FirstBloodIsFirst ==
  accountEdits = 0 =>
    \A c \in Challenges :
      Announced(c) = IF FirstBlood[c] = "none" THEN {}
                     ELSE {solves[c][i].sub : i \in
                             {j \in EligibleIn(c) : \A k \in EligibleIn(c) : j <= k}}

(* An account holds at most one solve of a challenge, whoever of it submits *)
(* and how often (InsertSolve, ON CONFLICT DO NOTHING).                    *)
OneSolvePerAccount ==
  \A c \in Challenges : \A i, j \in DOMAIN solves[c] :
    acct(solves[c][i].sub) = acct(solves[c][j].sub) => i = j

(* The outbox tells what the ledger holds and nothing else: one pulse for  *)
(* each solve, an announcement exactly where the pulse says first blood,   *)
(* and a bonus award exactly for the announced solvers of a paying         *)
(* challenge.  An aborted submission announces nothing.                    *)
OutboxMatchesLedger ==
  /\ {m.sub : m \in {n \in outbox : n.kind = "pulse"}}
       = UNION {{solves[c][i].sub : i \in DOMAIN solves[c]} : c \in Challenges}
  /\ {m.sub : m \in {n \in outbox : n.kind = "announce"}}
       = {m.sub : m \in {n \in outbox : n.kind = "pulse" /\ n.blood}}
  /\ \A c \in Challenges :
       bonus[c] = IF FirstBlood[c] = "bonus" THEN {acct(s) : s \in Announced(c)} ELSE {}

(* A deleted challenge leaves no ledger row behind, although a delete and  *)
(* an insert may be in flight together (foreign keys with RESTRICT).       *)
DeletedHasNoHistory ==
  \A c \in Challenges : state[c] = "deleted" => ~Referenced(c)

(* A solve becomes part of the ledger only while its challenge is visible: *)
(* hiding one stops the submissions that are past their first read too.    *)
SolvesLandOnVisible ==
  [][\A c \in Challenges : solves'[c] # solves[c] => state[c] = "visible"]_vars

(* Nothing written to the ledger is ever taken back or changed; a solve    *)
(* keeps the price it was stamped with whatever the challenge decays to.   *)
LedgerAppendOnly ==
  [][/\ \A c \in Challenges :
         /\ Len(solves[c]) <= Len(solves'[c])
         /\ SubSeq(solves'[c], 1, Len(solves[c])) = solves[c]
         /\ bonus[c] \subseteq bonus'[c]
         /\ \A a \in Accounts : wrong[c][a] <= wrong'[c][a]
     /\ outbox \subseteq outbox']_vars

-----------------------------------------------------------------------------
(* Why those hold: what each lock protects, as an inductive invariant.     *)
RowPhase     == {"locked", "duplicate", "solved", "counted", "paid", "priced"}
AttemptPhase == {"count", "check", "logged"} \cup RowPhase

LocksHeld ==
  \A s \in Submissions :
    /\ pc[s] \in RowPhase => rowLock[chal(s)] = s
    /\ pc[s] \in AttemptPhase /\ Cap[chal(s)] > 0 => attemptLock[chal(s)][acct(s)] = s

(* A locked challenge stays visible, one with a row in flight stays.       *)
LockedIsVisible ==
  /\ \A c \in Challenges : rowLock[c] # None => state[c] = "visible"
  /\ \A s \in Submissions : HoldsRow(s) => state[chal(s)] # "deleted"

(* Past the count, the attempt is still there to be spent.                 *)
AttemptReserved ==
  \A s \in Submissions :
    pc[s] \in {"check", "logged"} /\ Cap[chal(s)] > 0
      => wrong[chal(s)][acct(s)] < Cap[chal(s)]

(* A solve in flight is the account's first on the challenge.              *)
SolveReserved ==
  \A s \in Submissions : HoldsSolve(s) => acct(s) \notin Solvers(chal(s))

Inv == LocksHeld /\ LockedIsVisible /\ AttemptReserved /\ SolveReserved
         /\ AttemptCap /\ OneSolvePerAccount /\ DeletedHasNoHistory
-----------------------------------------------------------------------------
(* The board a serial execution would show. *)
Board ==
  [c \in Challenges |-> [i \in DOMAIN solves[c] |->
     [acct  |-> acct(solves[c][i].sub),
      value |-> solves[c][i].value,
      blood |-> solves[c][i].sub \in Announced(c)]]]

Serial == INSTANCE Ledger WITH board <- Board

(* The interleaved transactions implement the serial ledger: every commit  *)
(* is one serial submission, everything else changes nothing in it. A ban  *)
(* in mid-flight is seen by some of a submission's statements and not by   *)
(* others, so the promise ends with the first one.                         *)
ImplementsLedger == Serial!Init /\ [][accountEdits' = 0 => Serial!Next]_(Serial!vars)
-----------------------------------------------------------------------------
(* What the design says of the path and the code does not keep.            *)

(* "the correct-path challenge lock already serializes this": under the    *)
(* lock the one-bonus index has nothing left to refuse, so no right answer *)
(* ever fails on it.                                                       *)
BonusIndexNeverRefuses ==
  \A s \in Submissions :
    pc[s] = "counted" /\ blood[s] /\ FirstBlood[chal(s)] = "bonus" => bonus[chal(s)] = {}
=============================================================================
