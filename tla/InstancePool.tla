---------------------------- MODULE InstancePool ----------------------------
(***************************************************************************)
(* The pool of a unique-flag challenge: IssueInstance hands an account an  *)
(* instance on its first view, one action per statement; ReplacePool adds  *)
(* a generation, without a lock; LookupInstanceByHash attributes a flag.   *)
(* An account is a user, or a team whose members look at once.  Within a   *)
(* generation the order of ids is left open.                               *)
(***************************************************************************)
EXTENDS Integers, FiniteSets, FiniteSetsExt

CONSTANTS
  Views,    \* requests that look at the challenge
  Uploads,  \* requests that upload a pool
  Accounts, Hashes, None,
  MaxGen    \* bound on the generations

(* What is taken of the constants: who instantiates this assumes it.         *)
PoolConstants ==
  /\ MaxGen \in Nat \ {0}
  /\ None \notin Views \cup Uploads \cup Accounts

VARIABLES
  instances, \* challenge_instances, committed
  issued,    \* issued[a]: the flag_issues row of account a
  poolLock,  \* holder of pg_advisory_xact_lock('flag_issue:<id>')
  viewer,      \* viewer[v]: whose view it is
  pick,      \* pick[v]: the instance picked, then the row inserted
  pc,        \* pc[v]: the next statement, idle between requests
  served,    \* what accounts were shown
  batch,     \* batch[w]: the hashes uploaded and the generation they go to
  upc        \* upc[w]: the next statement, idle between requests

pool    == <<instances, issued>>
viewing == <<poolLock, viewer, pick, pc, served>>
pushing == <<batch, upc>>
vars    == <<pool, viewing, pushing>>

Instances == [hash : Hashes, gen : 1..MaxGen]
Locked    == {"pick", "insert", "reread"}
Running   == {"lock"} \cup Locked
Batches   == [hashes : SUBSET Hashes \ {{}}, gen : 1..MaxGen]

TypeOK ==
  /\ instances \subseteq Instances
  /\ issued \in [Accounts -> instances \cup {None}]
  /\ poolLock \in {v \in Views : pc[v] \in Locked} \cup {None}
  /\ viewer \in [Views -> Accounts \cup {None}]
  /\ pick \in [Views -> Instances \cup {None}]
  /\ pc \in [Views -> {"idle", "error"} \cup Running]
  /\ served \subseteq [acct : Accounts, inst : instances]
  /\ batch \in [Uploads -> Batches \cup {None}]
  /\ upc \in [Uploads -> {"idle", "number", "insert", "commit"}]

Init ==
  /\ instances = {}
  /\ issued = [a \in Accounts |-> None]
  /\ poolLock = None
  /\ viewer = [v \in Views |-> None]
  /\ pick = [v \in Views |-> None]
  /\ pc = [v \in Views |-> "idle"]
  /\ served = {}
  /\ batch = [w \in Uploads |-> None]
  /\ upc = [w \in Uploads |-> "idle"]

Holder(i) == {a \in Accounts : issued[a] = i}
Free      == {i \in instances : Holder(i) = {}}
Newest(S) == {i \in S : \A j \in S : j.gen <= i.gen}
MaxGenOf  == IF instances = {} THEN 0 ELSE Max({i.gen : i \in instances})

Goto(v, label) == pc' = [pc EXCEPT ![v] = label]

Finish(v) ==
  /\ Goto(v, "idle")
  /\ viewer' = [viewer EXCEPT ![v] = None] /\ pick' = [pick EXCEPT ![v] = None]
  /\ poolLock' = IF poolLock = v THEN None ELSE poolLock

(* GetIssuedInstance first; an account that has its instance is shown it.  *)
View(v, a) ==
  /\ pc[v] = "idle"
  /\ IF issued[a] # None
     THEN /\ served' = served \cup {[acct |-> a, inst |-> issued[a]]}
          /\ UNCHANGED <<pool, poolLock, viewer, pick, pc, pushing>>
     ELSE /\ viewer' = [viewer EXCEPT ![v] = a]
          /\ Goto(v, "lock")
          /\ UNCHANGED <<pool, poolLock, pick, served, pushing>>

LockChallengePool(v) ==
  /\ pc[v] = "lock"
  /\ poolLock = None
  /\ poolLock' = v
  /\ Goto(v, "pick")
  /\ UNCHANGED <<pool, viewer, pick, served, pushing>>

(* AssignInstance picks on its snapshot, the newest generation first...    *)
PickInstance(v) ==
  /\ pc[v] = "pick"
  /\ IF Free = {}
     THEN Goto(v, "reread") /\ UNCHANGED pick
     ELSE /\ \E i \in Newest(Free) : pick' = [pick EXCEPT ![v] = i]
          /\ Goto(v, "insert")
  /\ UNCHANGED <<pool, poolLock, viewer, served, pushing>>

Inserted(v) == pc[v] = "reread" /\ pick[v] # None

(* ... and inserts: it waits for a row in flight with its account or its   *)
(* instance; ON CONFLICT covers the account alone, and an instance issued  *)
(* meanwhile is a unique violation.                                        *)
InsertIssue(v) ==
  /\ pc[v] = "insert"
  /\ ~\E w \in Views \ {v} : Inserted(w) /\ (viewer[w] = viewer[v] \/ pick[w] = pick[v])
  /\ \/ /\ issued[viewer[v]] # None
        /\ pick' = [pick EXCEPT ![v] = None] /\ Goto(v, "reread")
     \/ /\ issued[viewer[v]] = None /\ Holder(pick[v]) = {}
        /\ Goto(v, "reread") /\ UNCHANGED pick
     \/ /\ issued[viewer[v]] = None /\ Holder(pick[v]) # {}
        /\ Goto(v, "error") /\ UNCHANGED pick
  /\ UNCHANGED <<pool, poolLock, viewer, served, pushing>>

(* Slip: the first read's answer stands: nothing issued, nothing to show.  *)
CommitUnread(v) ==
  /\ pc[v] = "reread"
  /\ \/ /\ pick[v] # None
        /\ issued' = [issued EXCEPT ![viewer[v]] = pick[v]]
        /\ served' = served \cup {[acct |-> viewer[v], inst |-> pick[v]]}
     \/ /\ pick[v] = None
        /\ served' = served \cup {[acct |-> viewer[v], inst |-> i] : i \in Newest(instances)}
        /\ UNCHANGED issued
  /\ Finish(v)
  /\ UNCHANGED <<instances, pushing>>

(* The re-read tells a race lost from a dry pool, and the transaction      *)
(* commits with what it found, or rolls back: pool exhausted.              *)
RereadCommit(v) ==
  /\ pc[v] = "reread"
  /\ \/ /\ pick[v] # None
        /\ issued' = [issued EXCEPT ![viewer[v]] = pick[v]]
        /\ served' = served \cup {[acct |-> viewer[v], inst |-> pick[v]]}
     \/ /\ pick[v] = None /\ issued[viewer[v]] # None
        /\ served' = served \cup {[acct |-> viewer[v], inst |-> issued[viewer[v]]]}
        /\ UNCHANGED issued
     \/ /\ pick[v] = None /\ issued[viewer[v]] = None
        /\ UNCHANGED <<issued, served>>
  /\ Finish(v)
  /\ UNCHANGED <<instances, pushing>>

(* An error return, a cancelled request or a crash.                        *)
Abort(v) == pc[v] \in Running /\ Finish(v) /\ UNCHANGED <<pool, served, pushing>>

(* ReplacePool reads the newest generation: the same set again is a no-op. *)
ReadPool(w, hs) ==
  /\ upc[w] = "idle"
  /\ hs # {i.hash : i \in Newest(instances)}
  /\ batch' = [batch EXCEPT ![w] = [hashes |-> hs, gen |-> 1]]
  /\ upc' = [upc EXCEPT ![w] = "number"]
  /\ UNCHANGED <<pool, viewing>>

(* Another one goes to the generation after the highest of that moment.    *)
NumberPool(w) ==
  /\ upc[w] = "number" /\ MaxGenOf < MaxGen
  /\ batch' = [batch EXCEPT ![w].gen = MaxGenOf + 1]
  /\ upc' = [upc EXCEPT ![w] = "insert"]
  /\ UNCHANGED <<pool, viewing>>

Rows(w) == {[hash |-> h, gen |-> batch[w].gen] : h \in batch[w].hashes}

(* UNIQUE (challenge_id, value_hash, generation) makes an upload wait for  *)
(* another in flight that shares a row, and refuses a row already there.   *)
InsertPool(w) ==
  /\ upc[w] = "insert"
  /\ ~\E x \in Uploads \ {w} : upc[x] = "commit" /\ Rows(x) \cap Rows(w) # {}
  /\ IF Rows(w) \cap instances = {}
     THEN upc' = [upc EXCEPT ![w] = "commit"] /\ UNCHANGED batch
     ELSE upc' = [upc EXCEPT ![w] = "idle"] /\ batch' = [batch EXCEPT ![w] = None]
  /\ UNCHANGED <<pool, viewing>>

CommitPool(w) ==
  /\ upc[w] = "commit"
  /\ instances' = instances \cup Rows(w)
  /\ upc' = [upc EXCEPT ![w] = "idle"]
  /\ batch' = [batch EXCEPT ![w] = None]
  /\ UNCHANGED <<issued, viewing>>

Step(v) == PickInstance(v) \/ InsertIssue(v) \/ RereadCommit(v)

Next ==
  \/ \E v \in Views :
       (\E a \in Accounts : View(v, a)) \/ LockChallengePool(v) \/ Step(v) \/ Abort(v)
  \/ \E w \in Uploads :
       (\E hs \in SUBSET Hashes \ {{}} : ReadPool(w, hs)) \/ NumberPool(w) \/ InsertPool(w) \/ CommitPool(w)

Spec == Init /\ [][Next]_vars

-----------------------------------------------------------------------------

(* An account is always shown the one instance issued to it, the first     *)
(* time and ever after, whoever of its members looked first.               *)
ShownOwn == \A x \in served : x.inst = issued[x.acct]

(* No instance is issued to two accounts, and the unique index that says so *)
(* is never run into.                                                      *)
IssuedOnce ==
  /\ \A a, b \in Accounts : issued[a] # None /\ issued[a] = issued[b] => a = b
  /\ \A v \in Views : pc[v] # "error"

-----------------------------------------------------------------------------
(* Why: whoever picks holds the lock of the pool until it has committed,   *)
(* so what it picked stays free and its account stays without.             *)
LockHeld == \A v \in Views :
  /\ pc[v] \in Running => viewer[v] \in Accounts
  /\ pc[v] \in Locked => poolLock = v

PickStands == \A v \in Views :
  /\ pc[v] \in {"idle", "lock", "pick"} => pick[v] = None
  /\ pc[v] = "insert" => pick[v] \in instances /\ Holder(pick[v]) = {}
  /\ Inserted(v) => pick[v] \in instances /\ Holder(pick[v]) = {} /\ issued[viewer[v]] = None

ShownIsIssued == \A x \in served : issued[x.acct] # None /\ x.inst = issued[x.acct]

BatchHeld == \A w \in Uploads : upc[w] # "idle" => batch[w] \in Batches

Inv == LockHeld /\ PickStands /\ ShownIsIssued /\ IssuedOnce /\ BatchHeld
=============================================================================
