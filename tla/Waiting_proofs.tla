---------------------------- MODULE Waiting_proofs ----------------------------
(* Theorems about what somebody waits for: an instance of a unique-flag     *)
(* challenge, an operator's task, and the settings of the day, for any      *)
(* number of views, accounts, uploads, operations, failures and processes.  *)
EXTENDS MCWaiting, WellFoundedInduction, TLAPS

-----------------------------------------------------------------------------
(* Numbers *)

(* A set of numbers that are bounded has a greatest one.                   *)
LEMMA HasGreatest ==
  ASSUME NEW n \in Nat, NEW S \in SUBSET (1..n), S # {}
  PROVE  \E m \in S : \A x \in S : x <= m
<1> DEFINE R == {ss \in Nat \X Nat : ss[1] < ss[2]}
           T == {n - m : m \in S}
<1>1. IsWellFoundedOn(R, Nat)
  BY NatLessThanWellFounded, SMT DEF OpToRel
<1>2. T \subseteq Nat /\ T # {}
  <2>1. \A m \in S : n - m \in Nat
    OBVIOUS
  <2> QED BY <2>1
<1>3. PICK k \in T : \A y \in T : ~(<<y, k>> \in R)
  <2> HIDE DEF R, T
  <2> QED BY <1>1, <1>2, WFMin
<1>4. PICK m \in S : k = n - m
  BY <1>3
<1>5. ASSUME NEW x \in S PROVE x <= m
  <2>1. n - x \in T /\ n - x \in Nat /\ n - m \in Nat
    BY <1>2
  <2>2. ~(<<n - x, n - m>> \in R)
    BY <1>3, <1>4, <2>1
  <2>3. ~(n - x < n - m)
    BY <2>1, <2>2
  <2> QED BY <2>3
<1> QED BY <1>5

-----------------------------------------------------------------------------
(* The pool of instances *)

(* The next generation has a number, for the ones there are have one.      *)
LEMMA GenerationType ==
  ASSUME instances \subseteq PO!Instances, MaxGen \in Nat
  PROVE  PO!MaxGenOf \in 0..MaxGen
<1> DEFINE S == {i.gen : i \in instances}
<1>1. CASE instances = {}
  BY <1>1 DEF PO!MaxGenOf
<1>2. CASE instances # {}
  <2>1. S \in SUBSET (1..MaxGen) /\ S # {}
    BY <1>2 DEF PO!Instances
  <2>2. PICK m \in S : \A x \in S : x <= m
    BY <2>1, HasGreatest
  <2>3. \A x \in S : m >= x
    BY <2>1, <2>2
  <2>4. PO!MaxGenOf = CHOOSE g \in S : \A x \in S : g >= x
    BY <1>2 DEF PO!MaxGenOf, PO!Max
  <2>5. PO!MaxGenOf \in S
    BY <2>2, <2>3, <2>4
  <2> QED BY <2>1, <2>5
<1> QED BY <1>1, <1>2

PoolFits == PO!TypeOK /\ PO!Inv

(* Whoever moves a view but its own request leaves where it is, whose it   *)
(* is and what it picked.                                                  *)
LEMMA FinishFrame ==
  ASSUME PoolFits, NEW v \in Views, PO!Finish(v)
  PROVE  /\ place' = [place EXCEPT ![v] = "idle"]
         /\ viewer' = [viewer EXCEPT ![v] = None]
         /\ pick' = [pick EXCEPT ![v] = None]
         /\ poolLock' = IF poolLock = v THEN None ELSE poolLock
  BY DEF PO!Finish, PO!Goto

(* The first look, or a later one.                                         *)
LEMMA ViewStep ==
  ASSUME PoolFits, NEW v \in Views, NEW a \in Viewers, PO!View(v, a)
  PROVE  PoolFits'
<1> USE WaitingConstants DEF PO!PoolConstants, PoolFits, PO!TypeOK, PO!Inv, PO!BatchHeld, PO!pool,
                      PO!pushing
<1>1. CASE issued[a] # None
  <2>1. shown' = shown \cup {[acct |-> a, inst |-> issued[a]]} /\ issued[a] \in instances
    BY <1>1 DEF PO!View
  <2>2. UNCHANGED <<instances, issued, poolLock, viewer, pick, place, batch, upc>>
    BY <1>1 DEF PO!View
  <2>3. PO!ShownIsIssued'
    BY <1>1, <2>1, <2>2 DEF PO!ShownIsIssued
  <2> QED BY <2>1, <2>2, <2>3
         DEF PO!LockHeld, PO!PickStands, PO!IssuedOnce, PO!Holder, PO!Inserted, PO!Locked
<1>2. CASE issued[a] = None
  <2>1. /\ viewer' = [viewer EXCEPT ![v] = a] /\ place' = [place EXCEPT ![v] = "lock"]
        /\ place[v] = "idle" /\ UNCHANGED <<instances, issued, poolLock, pick, shown, batch, upc>>
    BY <1>2 DEF PO!View, PO!Goto
  <2>2. PO!LockHeld'
    BY <2>1 DEF PO!LockHeld, PO!Running, PO!Locked
  <2>3. PO!PickStands'
    BY <2>1 DEF PO!PickStands, PO!Holder, PO!Inserted
  <2>4. poolLock' \in {x \in Views : place'[x] \in PO!Locked} \cup {None}
    BY <2>1 DEF PO!Locked
  <2> QED BY <2>1, <2>2, <2>3, <2>4 DEF PO!ShownIsIssued, PO!IssuedOnce, PO!Running
<1> QED BY <1>1, <1>2

LEMMA LockStep ==
  ASSUME PoolFits, NEW v \in Views, PO!LockChallengePool(v)
  PROVE  PoolFits'
<1> USE WaitingConstants DEF PO!PoolConstants, PoolFits, PO!TypeOK, PO!Inv, PO!BatchHeld, PO!pool,
                      PO!pushing
<1>1. /\ poolLock = None /\ poolLock' = v /\ place[v] = "lock"
      /\ place' = [place EXCEPT ![v] = "pick"]
      /\ UNCHANGED <<instances, issued, viewer, pick, shown, batch, upc>>
  BY DEF PO!LockChallengePool, PO!Goto
<1>2. \A u \in Views : place[u] \notin PO!Locked
  BY <1>1 DEF PO!LockHeld
<1>3. PO!LockHeld' /\ poolLock' \in {x \in Views : place'[x] \in PO!Locked} \cup {None}
  BY <1>1, <1>2 DEF PO!LockHeld, PO!Running, PO!Locked
<1>4. PO!PickStands'
  BY <1>1 DEF PO!PickStands, PO!Holder, PO!Inserted
<1> QED BY <1>1, <1>3, <1>4 DEF PO!ShownIsIssued, PO!IssuedOnce, PO!Running, PO!Locked

(* What every statement under the lock has in common.                      *)
LEMMA UnderLock ==
  ASSUME PoolFits, NEW v \in Views, place[v] \in PO!Locked
  PROVE  /\ poolLock = v /\ viewer[v] \in Viewers
         /\ \A u \in Views \ {v} : place[u] \notin PO!Locked
  BY DEF PoolFits, PO!Inv, PO!LockHeld, PO!Running

LEMMA PickStep ==
  ASSUME PoolFits, NEW v \in Views, PO!PickInstance(v)
  PROVE  PoolFits'
<1> USE WaitingConstants DEF PO!PoolConstants, PoolFits, PO!TypeOK, PO!Inv, PO!BatchHeld, PO!pool,
                      PO!pushing
<1>0. /\ place[v] = "pick" /\ poolLock = v
      /\ UNCHANGED <<instances, issued, poolLock, viewer, shown, batch, upc>>
  BY UnderLock DEF PO!PickInstance, PO!Locked
<1>1. CASE PO!Free = {}
  <2>1. place' = [place EXCEPT ![v] = "reread"] /\ pick' = pick
    BY <1>1 DEF PO!PickInstance, PO!Goto
  <2>2. PO!LockHeld' /\ poolLock' \in {x \in Views : place'[x] \in PO!Locked} \cup {None}
    BY <1>0, <2>1 DEF PO!LockHeld, PO!Running, PO!Locked
  <2>3. PO!PickStands'
    BY <1>0, <2>1 DEF PO!PickStands, PO!Holder, PO!Inserted
  <2> QED BY <1>0, <2>1, <2>2, <2>3 DEF PO!ShownIsIssued, PO!IssuedOnce, PO!Running, PO!Locked
<1>2. CASE PO!Free # {}
  <2>1. PICK i \in PO!Newest(PO!Free) : pick' = [pick EXCEPT ![v] = i]
    BY <1>2 DEF PO!PickInstance
  <2>2. place' = [place EXCEPT ![v] = "insert"]
    BY <1>2 DEF PO!PickInstance, PO!Goto
  <2>3. i \in instances /\ PO!Holder(i) = {}
    BY <2>1 DEF PO!Newest, PO!Free
  <2>4. PO!LockHeld' /\ poolLock' \in {x \in Views : place'[x] \in PO!Locked} \cup {None}
    BY <1>0, <2>2 DEF PO!LockHeld, PO!Running, PO!Locked
  <2>5. PO!PickStands'
    BY <1>0, <2>1, <2>2, <2>3 DEF PO!PickStands, PO!Holder, PO!Inserted
  <2> QED BY <1>0, <2>1, <2>2, <2>3, <2>4, <2>5
         DEF PO!ShownIsIssued, PO!IssuedOnce, PO!Running, PO!Locked
<1> QED BY <1>1, <1>2

(* Nobody else takes the instance that was picked: the insertion never runs *)
(* into the unique index.                                                  *)
LEMMA InsertStep ==
  ASSUME PoolFits, NEW v \in Views, PO!InsertIssue(v)
  PROVE  PoolFits'
<1> USE WaitingConstants DEF PO!PoolConstants, PoolFits, PO!TypeOK, PO!Inv, PO!BatchHeld, PO!pool,
                      PO!pushing
<1>1. /\ place[v] = "insert" /\ poolLock = v /\ pick[v] \in instances /\ PO!Holder(pick[v]) = {}
      /\ UNCHANGED <<instances, issued, poolLock, viewer, shown, batch, upc>>
  BY UnderLock DEF PO!InsertIssue, PO!Locked, PO!PickStands
<1>2. place' = [place EXCEPT ![v] = "reread"]
  BY <1>1 DEF PO!InsertIssue, PO!Goto
<1>3. \/ pick' = [pick EXCEPT ![v] = None]
      \/ pick' = pick /\ issued[viewer[v]] = None
  BY <1>1 DEF PO!InsertIssue
<1>4. PO!LockHeld' /\ poolLock' \in {x \in Views : place'[x] \in PO!Locked} \cup {None}
  BY <1>1, <1>2 DEF PO!LockHeld, PO!Running, PO!Locked
<1>5. PO!PickStands'
  BY <1>1, <1>2, <1>3 DEF PO!PickStands, PO!Holder, PO!Inserted
<1> QED BY <1>1, <1>2, <1>3, <1>4, <1>5 DEF PO!ShownIsIssued, PO!IssuedOnce, PO!Running, PO!Locked

(* A transaction that ends, however it ends, if what it issues was nobody's *)
(* and goes to somebody who had nothing.                                   *)
LEMMA EndStep ==
  ASSUME PoolFits, NEW v \in Views, PO!Finish(v), place[v] \in PO!Running,
         UNCHANGED <<instances, batch, upc>>,
         \/ UNCHANGED <<issued, shown>>
         \/ /\ UNCHANGED issued /\ issued[viewer[v]] # None
            /\ shown' = shown \cup {[acct |-> viewer[v], inst |-> issued[viewer[v]]]}
         \/ /\ PO!Inserted(v) /\ issued' = [issued EXCEPT ![viewer[v]] = pick[v]]
            /\ shown' = shown \cup {[acct |-> viewer[v], inst |-> pick[v]]}
  PROVE  PoolFits'
<1> USE WaitingConstants DEF PO!PoolConstants, PoolFits, PO!TypeOK, PO!Inv, PO!BatchHeld
<1>1. /\ place' = [place EXCEPT ![v] = "idle"] /\ viewer' = [viewer EXCEPT ![v] = None]
      /\ pick' = [pick EXCEPT ![v] = None] /\ poolLock' = IF poolLock = v THEN None ELSE poolLock
  BY FinishFrame
<1>2. viewer[v] \in Viewers
  BY DEF PO!LockHeld
<1>3. PO!LockHeld' /\ poolLock' \in {x \in Views : place'[x] \in PO!Locked} \cup {None}
  BY <1>1 DEF PO!LockHeld, PO!Running, PO!Locked
<1>4. CASE UNCHANGED issued
  <2>1. PO!PickStands'
    BY <1>1, <1>4 DEF PO!PickStands, PO!Holder, PO!Inserted
  <2>2. PO!ShownIsIssued' /\ shown' \subseteq [acct : Viewers, inst : instances]
    <3>1. CASE shown' = shown
      BY <1>4, <3>1 DEF PO!ShownIsIssued
    <3>2. CASE shown' # shown
      <4>1. issued[viewer[v]] \in instances /\ issued[viewer[v]] # None
        BY <1>2, <1>4, <3>2 DEF PO!Inserted, PO!PickStands
      <4>2. shown' = shown \cup {[acct |-> viewer[v], inst |-> issued[viewer[v]]]}
        BY <1>2, <1>4, <3>2 DEF PO!Inserted, PO!PickStands
      <4> QED BY <1>2, <1>4, <4>1, <4>2 DEF PO!ShownIsIssued
    <3> QED BY <3>1, <3>2
  <2> QED BY <1>1, <1>3, <1>4, <2>1, <2>2 DEF PO!IssuedOnce, PO!Running
<1>5. CASE ~UNCHANGED issued
  <2>1. /\ PO!Inserted(v) /\ issued' = [issued EXCEPT ![viewer[v]] = pick[v]]
        /\ shown' = shown \cup {[acct |-> viewer[v], inst |-> pick[v]]}
    BY <1>5
  <2>2. /\ pick[v] \in instances /\ pick[v] # None /\ issued[viewer[v]] = None
        /\ \A a \in Viewers : issued[a] # pick[v]
    BY <2>1 DEF PO!Inserted, PO!PickStands, PO!Holder
  <2>3. \A u \in Views \ {v} : place[u] \notin PO!Locked
    BY <2>1, UnderLock DEF PO!Inserted, PO!Locked
  <2>4. PO!PickStands'
    BY <1>1, <2>3 DEF PO!PickStands, PO!Holder, PO!Inserted, PO!Locked
  <2>5. \A x \in shown : x.acct # viewer[v]
    BY <2>2 DEF PO!ShownIsIssued
  <2>6. PO!ShownIsIssued' /\ shown' \subseteq [acct : Viewers, inst : instances]
    BY <1>2, <2>1, <2>2, <2>5 DEF PO!ShownIsIssued
  <2>7. PO!IssuedOnce'
    BY <1>1, <1>2, <2>1, <2>2 DEF PO!IssuedOnce
  <2> QED BY <1>1, <1>2, <1>3, <2>1, <2>2, <2>4, <2>6, <2>7 DEF PO!Running
<1> QED BY <1>4, <1>5

LEMMA RereadStep ==
  ASSUME PoolFits, NEW v \in Views, PO!RereadCommit(v)
  PROVE  PoolFits'
<1>1. PO!Finish(v) /\ place[v] \in PO!Running /\ UNCHANGED <<instances, batch, upc>>
  BY DEF PO!RereadCommit, PO!Running, PO!Locked, PO!pushing
<1> QED BY <1>1, EndStep DEF PO!RereadCommit, PO!Inserted

LEMMA AbortStep ==
  ASSUME PoolFits, NEW v \in Views, PO!Abort(v)
  PROVE  PoolFits'
  BY EndStep DEF PO!Abort, PO!pool, PO!pushing

(* An upload adds instances, and touches nothing that is issued or picked. *)
LEMMA UploadFrame ==
  ASSUME PoolFits, UNCHANGED <<issued, poolLock, viewer, pick, place, shown>>,
         instances \subseteq instances', instances' \subseteq PO!Instances,
         batch' \in [Pushes -> PO!Batches \cup {None}],
         upc' \in [Pushes -> {"idle", "number", "insert", "commit"}],
         PO!BatchHeld'
  PROVE  PoolFits'
<1> USE WaitingConstants DEF PO!PoolConstants, PoolFits, PO!TypeOK, PO!Inv
<1>1. PO!LockHeld' /\ PO!PickStands' /\ PO!ShownIsIssued' /\ PO!IssuedOnce'
  BY DEF PO!LockHeld, PO!PickStands, PO!ShownIsIssued, PO!IssuedOnce, PO!Holder, PO!Inserted
<1> QED BY <1>1 DEF PO!Locked, PO!Running

LEMMA UploadStep ==
  ASSUME PoolFits, NEW w \in Pushes,
         \/ \E hs \in SUBSET Hashes \ {{}} : PO!ReadPool(w, hs)
         \/ PO!NumberPool(w) \/ PO!InsertPool(w) \/ PO!CommitPool(w)
  PROVE  PoolFits'
<1> USE WaitingConstants DEF PO!PoolConstants, PoolFits, PO!TypeOK, PO!Inv, PO!BatchHeld
<1>1. ASSUME NEW hs \in SUBSET Hashes \ {{}}, PO!ReadPool(w, hs) PROVE PoolFits'
  <2>1. [hashes |-> hs, gen |-> 1] \in PO!Batches
    BY DEF PO!Batches
  <2> QED BY <1>1, <2>1, UploadFrame DEF PO!ReadPool, PO!pool, PO!viewing
<1>2. CASE PO!NumberPool(w)
  <2>1. batch[w] \in PO!Batches /\ PO!MaxGenOf + 1 \in 1..MaxGen
    BY <1>2, GenerationType DEF PO!NumberPool
  <2>2. [batch[w] EXCEPT !.gen = PO!MaxGenOf + 1] \in PO!Batches
    BY <2>1 DEF PO!Batches
  <2>3. batch' = [batch EXCEPT ![w] = [batch[w] EXCEPT !.gen = PO!MaxGenOf + 1]]
    BY <1>2 DEF PO!NumberPool
  <2> QED BY <1>2, <2>2, <2>3, UploadFrame DEF PO!NumberPool, PO!pool, PO!viewing
<1>3. CASE PO!InsertPool(w)
  BY <1>3, UploadFrame DEF PO!InsertPool, PO!pool, PO!viewing
<1>4. CASE PO!CommitPool(w)
  <2>1. batch[w] \in PO!Batches
    BY <1>4 DEF PO!CommitPool
  <2>2. PO!Rows(w) \subseteq PO!Instances
    BY <2>1 DEF PO!Rows, PO!Batches, PO!Instances
  <2> QED BY <1>4, <2>2, UploadFrame DEF PO!CommitPool, PO!viewing
<1> QED BY <1>1, <1>2, <1>3, <1>4

LEMMA PoolInit == PO!Init => PoolFits
  BY DEF PO!Init, PoolFits, PO!TypeOK, PO!Inv, PO!LockHeld, PO!PickStands, PO!ShownIsIssued,
         PO!IssuedOnce, PO!BatchHeld, PO!Inserted, PO!Locked, PO!Running

LEMMA PoolNext ==
  ASSUME PoolFits, PO!Next
  PROVE  PoolFits'
<1>1. ASSUME NEW v \in Views,
             (\E a \in Viewers : PO!View(v, a)) \/ PO!LockChallengePool(v) \/ PO!Step(v) \/ PO!Abort(v)
      PROVE  PoolFits'
  BY <1>1, ViewStep, LockStep, PickStep, InsertStep, RereadStep, AbortStep DEF PO!Step
<1>2. ASSUME NEW w \in Pushes,
             \/ \E hs \in SUBSET Hashes \ {{}} : PO!ReadPool(w, hs)
             \/ PO!NumberPool(w) \/ PO!InsertPool(w) \/ PO!CommitPool(w)
      PROVE  PoolFits'
  BY <1>2, UploadStep
<1> QED BY <1>1, <1>2 DEF PO!Next

LEMMA PoolFrame ==
  ASSUME PoolFits, UNCHANGED <<place, pool>>
  PROVE  PoolFits'
  BY DEF PoolFits, pool, PO!TypeOK, PO!Inv, PO!LockHeld, PO!PickStands, PO!ShownIsIssued,
         PO!IssuedOnce, PO!BatchHeld, PO!Inserted, PO!Holder, PO!Locked, PO!Running

(* The types, the lock and what it protects, of whoever looks at a pool.   *)
THEOREM PoolInvariant == WaitingSpec => [](focus = "pool" => PoolFits)
<1>1. WaitingInit => (focus = "pool" => PoolFits)
  BY PoolInit DEF WaitingInit
<1>2. (focus = "pool" => PoolFits) /\ [WaitingNext]_all => (focus = "pool" => PoolFits)'
  <2> SUFFICES ASSUME focus = "pool" => PoolFits, [WaitingNext]_all, focus' = "pool"
               PROVE  PoolFits'
    OBVIOUS
  <2>1. CASE Pool
    BY <2>1, PoolNext DEF Pool, OfPool
  <2>2. CASE UNCHANGED all
    BY <2>2, PoolFrame DEF all, shared
  <2> QED BY <2>1, <2>2 DEF WaitingNext, Settings, OfSettings, Tasks, OfTasks, Attempts, OfLedger
<1> QED BY <1>1, <1>2, PTL DEF WaitingSpec

(* An account is always shown the one instance issued to it, the first time *)
(* and ever after, whoever of its members looked first (IssueInstance).    *)
THEOREM ShownOwnHolds == WaitingSpec => []ShownOwn
<1>1. (focus = "pool" => PoolFits) => ShownOwn
  BY DEF PoolFits, PO!Inv, PO!ShownIsIssued, PO!ShownOwn, ShownOwn
<1> QED BY <1>1, PoolInvariant, PTL

(* No instance is issued to two accounts, and the unique index that keeps  *)
(* it so never refuses an insertion: the lock of the pool is enough, though *)
(* ON CONFLICT does not cover the instance (AssignInstance).               *)
THEOREM InstanceIssuedOnce == WaitingSpec => [](focus = "pool" => PO!IssuedOnce)
<1>1. (focus = "pool" => PoolFits) => (focus = "pool" => PO!IssuedOnce)
  BY DEF PoolFits, PO!Inv
<1> QED BY <1>1, PoolInvariant, PTL

-----------------------------------------------------------------------------
(* Operators' tasks *)

TasksFit == OT!TypeOK /\ OT!Inv

(* What the invariant says of one operation, with what it says it of.      *)
OpFits(wanted, status, work, stage, uploaded, backedUp, snapshot, written, kind, leak) ==
  /\ stage # "none" => work = "working"
  /\ work # "none" <=> wanted = "accepted"
  /\ work \in {"none", "available"} => status # "succeeded"
  /\ stage \notin {"none", "discard"} => status # "succeeded"
  /\ stage \in {"snapshot", "users", "solves", "put"} => kind = "export"
  /\ stage \in {"fetch", "load", "discard"} => kind # "export"
  /\ stage \in {"users", "solves"} => OT!Dangling(snapshot) = {}
  /\ stage = "solves" => written.users = snapshot.users
  /\ kind = "export" /\ stage \in {"put", "finish"} => OT!Dangling(written) = {}
  /\ kind = "export" /\ stage = "finish" => backedUp
  /\ wanted \in {"stashed", "discarding"} => kind # "export"
  /\ uploaded => kind # "export"
  /\ kind # "export" /\ work = "working" /\ stage = "none" => leak
  /\ uploaded => \/ leak \/ wanted \in {"stashed", "discarding"}
                 \/ wanted = "accepted" /\ work # "settled"
  /\ status = "succeeded" /\ kind = "export" => backedUp /\ OT!Dangling(written) = {}

Fits(o) == OpFits(petition[o], task[o], job[o], place[o], <<"upload", o>> \in store,
                  <<"backup", o>> \in store, taken[o], archive[o], Does[o], o \in leaked)

LEMMA OneByOne ==
  /\ OT!Inv <=> OT!Dangling(game) = {} /\ \A o \in Ops : Fits(o)
  /\ OT!Inv' <=> OT!Dangling(game)' = {} /\ \A o \in Ops : Fits(o)'
  BY DEF OT!Inv, OT!OneAttempt, OT!SoundSoFar, OT!UploadHasOwner, OT!NoUploadLeftBehind,
         OT!DownloadRestores, Fits, OpFits

(* An operation whose row, job, worker and objects are left alone stands.  *)
LEMMA OthersStand ==
  ASSUME TasksFit, NEW o \in Ops,
         \A p \in Ops \ {o} :
           /\ petition'[p] = petition[p] /\ task'[p] = task[p] /\ job'[p] = job[p]
           /\ place'[p] = place[p] /\ taken'[p] = taken[p] /\ archive'[p] = archive[p]
           /\ <<"upload", p>> \in store' <=> <<"upload", p>> \in store
           /\ <<"backup", p>> \in store' <=> <<"backup", p>> \in store
           /\ p \in leaked' <=> p \in leaked,
         Fits(o)', OT!Dangling(game)' = {}
  PROVE  OT!Inv'
<1>1. ASSUME NEW p \in Ops \ {o} PROVE Fits(p)'
  <2>1. Fits(p)
    BY OneByOne DEF TasksFit
  <2> QED BY <2>1 DEF Fits, OpFits
<1> QED BY <1>1, OneByOne

LEMMA StashStep ==
  ASSUME TasksFit, NEW o \in Ops, OT!Stash(o)
  PROVE  TasksFit'
<1> USE WaitingConstants DEF OT!OpsConstants, TasksFit, OT!TypeOK, OT!rest, OT!ghosts, OT!bounds
<1>0. Fits(o) /\ OT!Dangling(game) = {}
  BY OneByOne
<1>1. OT!TypeOK'
  BY <1>0 DEF OT!Stash, OT!Uploads, Fits, OpFits
<1>2. Fits(o)'
  BY <1>0 DEF OT!Stash, OT!Uploads, Fits, OpFits
<1>3. OT!Dangling(game)' = {}
  BY <1>0 DEF OT!Stash, OT!Uploads
<1> QED BY <1>1, <1>2, <1>3, OthersStand DEF OT!Stash, OT!Uploads

LEMMA EnqueueStep ==
  ASSUME TasksFit, NEW o \in Ops, OT!Enqueue(o)
  PROVE  TasksFit'
<1> USE WaitingConstants DEF OT!OpsConstants, TasksFit, OT!TypeOK, OT!rest, OT!ghosts, OT!bounds
<1>0. Fits(o) /\ OT!Dangling(game) = {}
  BY OneByOne
<1>1. OT!TypeOK'
  <2>1. /\ petition' \in [Ops -> {"none", "stashed", "discarding", "declined", "accepted"}]
        /\ task' \in [Ops -> OT!InFlight \cup {"none", "succeeded", "failed"}]
        /\ job' \in [Ops -> {"none", "available", "working", "settled"}]
    BY DEF OT!Enqueue, OT!Declined, OT!InFlight
  <2> QED BY <2>1 DEF OT!Enqueue
<1>2. Fits(o)'
  BY <1>0 DEF OT!Enqueue, OT!OneInFlight, OT!Declined, OT!Fails, Fits, OpFits
<1>3. OT!Dangling(game)' = {}
  BY <1>0 DEF OT!Enqueue, OT!OneInFlight, OT!Declined, OT!Fails
<1> QED BY <1>1, <1>2, <1>3, OthersStand DEF OT!Enqueue, OT!OneInFlight, OT!Declined, OT!Fails

LEMMA DiscardStep ==
  ASSUME TasksFit, NEW o \in Ops, OT!Discard(o)
  PROVE  TasksFit'
<1> USE WaitingConstants DEF OT!OpsConstants, TasksFit, OT!TypeOK, OT!rest, OT!ghosts, OT!bounds
<1>0. Fits(o) /\ OT!Dangling(game) = {}
  BY OneByOne
<1>1. OT!TypeOK'
  BY <1>0 DEF OT!Discard, OT!Unstored, OT!Fails, Fits, OpFits
<1>2. Fits(o)'
  BY <1>0 DEF OT!Discard, OT!Unstored, OT!Fails, Fits, OpFits
<1>3. OT!Dangling(game)' = {}
  BY <1>0 DEF OT!Discard, OT!Unstored, OT!Fails
<1> QED BY <1>1, <1>2, <1>3, OthersStand DEF OT!Discard, OT!Unstored, OT!Fails

LEMMA FetchStep ==
  ASSUME TasksFit, NEW o \in Ops, OT!Fetch(o)
  PROVE  TasksFit'
<1> USE WaitingConstants DEF OT!OpsConstants, TasksFit, OT!TypeOK, OT!rest, OT!ghosts, OT!bounds
<1>0. Fits(o) /\ OT!Dangling(game) = {}
  BY OneByOne
<1>1. OT!TypeOK'
  BY <1>0 DEF OT!Fetch, OT!Go, Fits, OpFits
<1>2. Fits(o)'
  BY <1>0 DEF OT!Fetch, OT!Go, Fits, OpFits
<1>3. OT!Dangling(game)' = {}
  BY <1>0 DEF OT!Fetch, OT!Go
<1> QED BY <1>1, <1>2, <1>3, OthersStand DEF OT!Fetch, OT!Go

LEMMA StartTaskStep ==
  ASSUME TasksFit, NEW o \in Ops, OT!StartTask(o)
  PROVE  TasksFit'
<1> USE WaitingConstants DEF OT!OpsConstants, TasksFit, OT!TypeOK, OT!rest, OT!ghosts, OT!bounds
<1>0. Fits(o) /\ OT!Dangling(game) = {}
  BY OneByOne
<1>1. OT!TypeOK'
  <2>1. task' \in [Ops -> OT!InFlight \cup {"none", "succeeded", "failed"}]
    BY DEF OT!StartTask, OT!InFlight
  <2>2. job' \in [Ops -> {"none", "available", "working", "settled"}] /\ lost' \subseteq Ops
    BY DEF OT!StartTask, OT!Settles
  <2>3. place' \in [Ops -> {"none", "start", "fetch", "snapshot", "users", "solves", "put", "load",
                            "finish", "fail", "discard"}]
    BY DEF OT!StartTask, OT!Go, OT!Ends
  <2> QED BY <2>1, <2>2, <2>3 DEF OT!StartTask
<1>2. Fits(o)'
  BY <1>0 DEF OT!StartTask, OT!Go, OT!Fails, OT!Ends, OT!Settles, Fits, OpFits
<1>3. OT!Dangling(game)' = {}
  BY <1>0 DEF OT!StartTask, OT!Go, OT!Fails, OT!Ends, OT!Settles
<1> QED BY <1>1, <1>2, <1>3, OthersStand DEF OT!StartTask, OT!Go, OT!Fails, OT!Ends, OT!Settles

LEMMA FetchUploadStep ==
  ASSUME TasksFit, NEW o \in Ops, OT!FetchUpload(o)
  PROVE  TasksFit'
<1> USE WaitingConstants DEF OT!OpsConstants, TasksFit, OT!TypeOK, OT!rest, OT!ghosts, OT!bounds
<1>0. Fits(o) /\ OT!Dangling(game) = {}
  BY OneByOne
<1>1. OT!TypeOK'
  BY <1>0 DEF OT!FetchUpload, OT!Go, OT!Fails, Fits, OpFits
<1>2. Fits(o)'
  BY <1>0 DEF OT!FetchUpload, OT!Go, OT!Fails, Fits, OpFits
<1>3. OT!Dangling(game)' = {}
  BY <1>0 DEF OT!FetchUpload, OT!Go, OT!Fails
<1> QED BY <1>1, <1>2, <1>3, OthersStand DEF OT!FetchUpload, OT!Go, OT!Fails

LEMMA SnapshotStep ==
  ASSUME TasksFit, NEW o \in Ops, OT!Snapshot(o)
  PROVE  TasksFit'
<1> USE WaitingConstants DEF OT!OpsConstants, TasksFit, OT!TypeOK, OT!rest, OT!ghosts, OT!bounds
<1>0. Fits(o) /\ OT!Dangling(game) = {}
  BY OneByOne
<1>1. OT!TypeOK'
  BY <1>0 DEF OT!Snapshot, OT!Go, Fits, OpFits
<1>2. Fits(o)'
  BY <1>0 DEF OT!Snapshot, OT!Go, Fits, OpFits
<1>3. OT!Dangling(game)' = {}
  BY <1>0 DEF OT!Snapshot, OT!Go
<1> QED BY <1>1, <1>2, <1>3, OthersStand DEF OT!Snapshot, OT!Go

LEMMA ReadTableStep ==
  ASSUME TasksFit, NEW o \in Ops, OT!ReadTable(o)
  PROVE  TasksFit'
<1> USE WaitingConstants DEF OT!OpsConstants, TasksFit, OT!TypeOK, OT!rest, OT!ghosts, OT!bounds
<1>0. Fits(o) /\ OT!Dangling(game) = {}
  BY OneByOne
<1>1. CASE place[o] = "users"
  <2>1. /\ place' = [place EXCEPT ![o] = "solves"]
        /\ archive' = [archive EXCEPT ![o] = [users |-> taken[o].users, solves |-> {}]]
    BY <1>1 DEF OT!ReadTable, OT!Go, OT!Seen
  <2>2. [users |-> taken[o].users, solves |-> {}] \in OT!Instances
    BY DEF OT!Instances
  <2>3. OT!TypeOK'
    BY <2>1, <2>2 DEF OT!ReadTable
  <2>4. Fits(o)'
    BY <1>0, <1>1, <2>1 DEF OT!ReadTable, Fits, OpFits
  <2> QED BY <1>0, <2>1, <2>3, <2>4, OthersStand DEF OT!ReadTable
<1>2. CASE place[o] = "solves"
  <2>1. place' = [place EXCEPT ![o] = "put"] /\ archive' = [archive EXCEPT ![o].solves = taken[o].solves]
    BY <1>2 DEF OT!ReadTable, OT!Go, OT!Seen
  <2>2. archive'[o] = [users |-> archive[o].users, solves |-> taken[o].solves]
    BY <2>1 DEF OT!Instances
  <2>3. archive'[o] \in OT!Instances /\ OT!Dangling(archive'[o]) = {}
    BY <1>0, <1>2, <2>2 DEF OT!Instances, OT!Dangling, Fits, OpFits
  <2>4. OT!TypeOK'
    BY <2>1, <2>3 DEF OT!ReadTable
  <2>5. Fits(o)'
    BY <1>0, <1>2, <2>1, <2>3 DEF OT!ReadTable, Fits, OpFits
  <2> QED BY <1>0, <2>1, <2>4, <2>5, OthersStand DEF OT!ReadTable
<1> QED BY <1>1, <1>2 DEF OT!ReadTable

LEMMA PutArchiveStep ==
  ASSUME TasksFit, NEW o \in Ops, OT!PutArchive(o)
  PROVE  TasksFit'
<1> USE WaitingConstants DEF OT!OpsConstants, TasksFit, OT!TypeOK, OT!rest, OT!ghosts, OT!bounds
<1>0. Fits(o) /\ OT!Dangling(game) = {}
  BY OneByOne
<1>1. OT!TypeOK'
  BY <1>0 DEF OT!PutArchive, OT!Go, OT!Fails, Fits, OpFits
<1>2. Fits(o)'
  BY <1>0 DEF OT!PutArchive, OT!Go, OT!Fails, Fits, OpFits
<1>3. OT!Dangling(game)' = {}
  BY <1>0 DEF OT!PutArchive, OT!Go, OT!Fails
<1> QED BY <1>1, <1>2, <1>3, OthersStand DEF OT!PutArchive, OT!Go, OT!Fails

(* The sequence is resynchronised behind the greatest id that was loaded.  *)
LEMMA FreshType ==
  ASSUME NEW g \in OT!Instances
  PROVE  OT!Fresh(g) \in 1..MaxUser + 1
<1> USE WaitingConstants DEF OT!OpsConstants
<1>1. CASE g.users = {}
  BY <1>1 DEF OT!Fresh
<1>2. CASE g.users # {}
  <2>1. g.users \in SUBSET (1..MaxUser)
    BY DEF OT!Instances, OT!Users
  <2>2. \E m \in g.users : \A u \in g.users : u <= m
    BY <1>2, <2>1, HasGreatest
  <2>3. (CHOOSE m \in g.users : \A u \in g.users : u <= m) \in 1..MaxUser
    BY <2>1, <2>2
  <2> QED BY <1>2, <2>3 DEF OT!Fresh
<1> QED BY <1>1, <1>2

LEMMA LoadStep ==
  ASSUME TasksFit, NEW o \in Ops, OT!Load(o)
  PROVE  TasksFit'
<1> USE WaitingConstants DEF OT!OpsConstants, TasksFit, OT!TypeOK, OT!rest, OT!ghosts, OT!bounds
<1>0. Fits(o) /\ OT!Dangling(game) = {}
  BY OneByOne
<1>1. OT!TypeOK'
  <2>1. upload[o] \in OT!Instances
    OBVIOUS
  <2>2. game' \in OT!Instances /\ nextUser' \in 1..MaxUser + 1
    BY <2>1, FreshType DEF OT!Load, OT!ResyncSequences
  <2> QED BY <2>2 DEF OT!Load, OT!Go
<1>2. Fits(o)'
  BY <1>0 DEF OT!Load, OT!Go, OT!Fails, Fits, OpFits
<1>3. OT!Dangling(game)' = {}
  BY <1>0 DEF OT!Load, OT!Go, OT!Fails
<1> QED BY <1>1, <1>2, <1>3, OthersStand DEF OT!Load, OT!Go, OT!Fails

LEMMA FinishTaskStep ==
  ASSUME TasksFit, NEW o \in Ops, OT!FinishTask(o)
  PROVE  TasksFit'
<1> USE WaitingConstants DEF OT!OpsConstants, TasksFit, OT!TypeOK, OT!rest, OT!ghosts, OT!bounds
<1>0. Fits(o) /\ OT!Dangling(game) = {}
  BY OneByOne
<1>1. OT!TypeOK'
  BY <1>0 DEF OT!FinishTask, OT!Stamp, OT!Go, OT!Fails, OT!Ends, OT!Settles, Fits, OpFits
<1>2. Fits(o)'
  BY <1>0 DEF OT!FinishTask, OT!Stamp, OT!Go, OT!Fails, OT!Ends, OT!Settles, Fits, OpFits
<1>3. OT!Dangling(game)' = {}
  BY <1>0 DEF OT!FinishTask, OT!Stamp, OT!Go, OT!Fails, OT!Ends, OT!Settles
<1> QED BY <1>1, <1>2, <1>3, OthersStand DEF OT!FinishTask, OT!Stamp, OT!Go, OT!Fails, OT!Ends, OT!Settles

LEMMA FailTaskStep ==
  ASSUME TasksFit, NEW o \in Ops, OT!FailTask(o)
  PROVE  TasksFit'
<1> USE WaitingConstants DEF OT!OpsConstants, TasksFit, OT!TypeOK, OT!rest, OT!ghosts, OT!bounds
<1>0. Fits(o) /\ OT!Dangling(game) = {}
  BY OneByOne
<1>1. OT!TypeOK'
  BY <1>0 DEF OT!FailTask, OT!Stamp, OT!Go, OT!Fails, OT!Ends, OT!Settles, Fits, OpFits
<1>2. Fits(o)'
  BY <1>0 DEF OT!FailTask, OT!Stamp, OT!Go, OT!Fails, OT!Ends, OT!Settles, Fits, OpFits
<1>3. OT!Dangling(game)' = {}
  BY <1>0 DEF OT!FailTask, OT!Stamp, OT!Go, OT!Fails, OT!Ends, OT!Settles
<1> QED BY <1>1, <1>2, <1>3, OthersStand DEF OT!FailTask, OT!Stamp, OT!Go, OT!Fails, OT!Ends, OT!Settles

LEMMA DiscardUploadStep ==
  ASSUME TasksFit, NEW o \in Ops, OT!DiscardUpload(o)
  PROVE  TasksFit'
<1> USE WaitingConstants DEF OT!OpsConstants, TasksFit, OT!TypeOK, OT!rest, OT!ghosts, OT!bounds
<1>0. Fits(o) /\ OT!Dangling(game) = {}
  BY OneByOne
<1>1. OT!TypeOK'
  BY <1>0 DEF OT!DiscardUpload, OT!Go, OT!Unstored, OT!Fails, Fits, OpFits
<1>2. Fits(o)'
  BY <1>0 DEF OT!DiscardUpload, OT!Go, OT!Unstored, OT!Fails, Fits, OpFits
<1>3. OT!Dangling(game)' = {}
  BY <1>0 DEF OT!DiscardUpload, OT!Go, OT!Unstored, OT!Fails
<1> QED BY <1>1, <1>2, <1>3, OthersStand DEF OT!DiscardUpload, OT!Go, OT!Unstored, OT!Fails

LEMMA CrashStep ==
  ASSUME TasksFit, NEW o \in Ops, OT!Crash(o)
  PROVE  TasksFit'
<1> USE WaitingConstants DEF OT!OpsConstants, TasksFit, OT!TypeOK, OT!rest, OT!ghosts, OT!bounds
<1>0. Fits(o) /\ OT!Dangling(game) = {}
  BY OneByOne
<1>1. OT!TypeOK'
  BY <1>0 DEF OT!Crash, OT!Go, Fits, OpFits
<1>2. Fits(o)'
  BY <1>0 DEF OT!Crash, OT!Go, Fits, OpFits
<1>3. OT!Dangling(game)' = {}
  BY <1>0 DEF OT!Crash, OT!Go
<1> QED BY <1>1, <1>2, <1>3, OthersStand DEF OT!Crash, OT!Go

LEMMA RescueStep ==
  ASSUME TasksFit, NEW o \in Ops, OT!Rescue(o)
  PROVE  TasksFit'
<1> USE WaitingConstants DEF OT!OpsConstants, TasksFit, OT!TypeOK, OT!rest, OT!ghosts, OT!bounds
<1>0. Fits(o) /\ OT!Dangling(game) = {}
  BY OneByOne
<1>1. OT!TypeOK'
  BY <1>0 DEF OT!Rescue, OT!Go, Fits, OpFits
<1>2. Fits(o)'
  BY <1>0 DEF OT!Rescue, OT!Go, Fits, OpFits
<1>3. OT!Dangling(game)' = {}
  BY <1>0 DEF OT!Rescue, OT!Go
<1> QED BY <1>1, <1>2, <1>3, OthersStand DEF OT!Rescue, OT!Go

(* The game goes on, and refers to nobody who is not in it.                *)
LEMMA GameStep ==
  ASSUME TasksFit, OT!Register \/ \E u \in OT!Users : OT!Solve(u)
  PROVE  TasksFit'
<1> USE WaitingConstants DEF OT!OpsConstants, TasksFit, OT!TypeOK, OT!rest, OT!ghosts, OT!bounds
<1>0. OT!Dangling(game) = {} /\ \A o \in Ops : Fits(o)
  BY OneByOne
<1>1. game.users \subseteq OT!Users /\ game.solves \subseteq OT!Users /\ game.solves \subseteq game.users
  BY <1>0 DEF OT!Instances, OT!Dangling
<1>2. CASE OT!Register
  <2>1. game' = [game EXCEPT !.users = @ \cup {nextUser}] /\ nextUser \in OT!Users
    BY <1>2 DEF OT!Register, OT!Users
  <2>2. game' = [users |-> game.users \cup {nextUser}, solves |-> game.solves]
    BY <2>1 DEF OT!Instances
  <2>3. game' \in OT!Instances /\ OT!Dangling(game') = {}
    BY <1>1, <2>1, <2>2 DEF OT!Instances, OT!Dangling
  <2>4. nextUser' \in 1..MaxUser + 1
    BY <1>2 DEF OT!Register
  <2>5. OT!Dangling(game)' = {}
    BY <2>3 DEF OT!Dangling
  <2>6. OT!Inv'
    BY <1>0, <1>2, <2>5, OneByOne DEF OT!Register, Fits, OpFits
  <2> QED BY <1>2, <2>3, <2>4, <2>6 DEF OT!Register
<1>3. ASSUME NEW u \in OT!Users, OT!Solve(u) PROVE TasksFit'
  <2>1. game' = [game EXCEPT !.solves = @ \cup {u}] /\ u \in game.users
    BY <1>3 DEF OT!Solve
  <2>2. game' = [users |-> game.users, solves |-> game.solves \cup {u}]
    BY <2>1 DEF OT!Instances
  <2>3. game' \in OT!Instances /\ OT!Dangling(game') = {}
    BY <1>1, <2>1, <2>2 DEF OT!Instances, OT!Dangling
  <2>4. OT!Dangling(game)' = {}
    BY <2>3 DEF OT!Dangling
  <2>5. OT!Inv'
    BY <1>0, <1>3, <2>4, OneByOne DEF OT!Solve, Fits, OpFits
  <2> QED BY <1>3, <2>3, <2>5 DEF OT!Solve
<1> QED BY <1>2, <1>3

LEMMA TasksInit == OT!Init => TasksFit
<1> SUFFICES ASSUME OT!Init PROVE TasksFit
  OBVIOUS
<1> USE WaitingConstants DEF OT!OpsConstants, OT!Init
<1>1. OT!TypeOK
  BY DEF OT!TypeOK, OT!Empty, OT!Instances
<1>2. OT!Inv
  BY OneByOne DEF Fits, OpFits, OT!Empty, OT!Dangling
<1> QED BY <1>1, <1>2 DEF TasksFit

LEMMA TasksNext ==
  ASSUME TasksFit, OT!Next
  PROVE  TasksFit'
<1>1. ASSUME NEW o \in Ops,
             OT!Stash(o) \/ OT!Enqueue(o) \/ OT!Discard(o) \/ OT!Work(o) \/ OT!Crash(o) \/ OT!Rescue(o)
      PROVE  TasksFit'
  BY <1>1, StashStep, EnqueueStep, DiscardStep, FetchStep, StartTaskStep, FetchUploadStep, SnapshotStep,
     ReadTableStep, PutArchiveStep, LoadStep, FinishTaskStep, FailTaskStep, DiscardUploadStep, CrashStep,
     RescueStep DEF OT!Work
<1> QED BY <1>1, GameStep DEF OT!Next

LEMMA TasksFrame ==
  ASSUME TasksFit, UNCHANGED <<place, tasks>>
  PROVE  TasksFit'
<1>1. OT!TypeOK'
  BY DEF TasksFit, tasks, OT!TypeOK
<1>2. OT!Inv'
  BY OneByOne DEF TasksFit, tasks, Fits, OpFits, OT!Dangling
<1> QED BY <1>1, <1>2 DEF TasksFit

(* The types, the one attempt of a job and what it has read so far, of      *)
(* every operation, whatever fails or dies.                                *)
THEOREM TasksInvariant == WaitingSpec => [](focus = "tasks" => TasksFit)
<1>1. WaitingInit => (focus = "tasks" => TasksFit)
  BY TasksInit DEF WaitingInit
<1>2. (focus = "tasks" => TasksFit) /\ [WaitingNext]_all => (focus = "tasks" => TasksFit)'
  <2> SUFFICES ASSUME focus = "tasks" => TasksFit, [WaitingNext]_all, focus' = "tasks"
               PROVE  TasksFit'
    OBVIOUS
  <2>1. CASE Tasks
    BY <2>1, TasksNext DEF Tasks, OfTasks
  <2>2. CASE UNCHANGED all
    BY <2>2, TasksFrame DEF all, shared
  <2> QED BY <2>1, <2>2 DEF WaitingNext, Settings, OfSettings, Pool, OfPool, Attempts, OfLedger
<1> QED BY <1>1, <1>2, PTL DEF WaitingSpec

(* A backup offered for download is in the store and a restore accepts it, *)
(* and a stashed upload does not outlive its request or its task           *)
(* (Downloadable, ExportWithProgress, discard, discardUpload).             *)
THEOREM StoreKeptHolds == WaitingSpec => []StoreKept
<1>1. (focus = "tasks" => TasksFit) => StoreKept
  BY DEF TasksFit, OT!Inv, StoreKept
<1> QED BY <1>1, TasksInvariant, PTL

-----------------------------------------------------------------------------
(* Settings: what a process that only listens serves, and what a write     *)
(* that nothing overlapped may do, for any fleet, any rules and any bounds.*)

USE ConfigConstants

Versions == 1..Len(log)

LEMMA PatchedIsTable ==
  ASSUME NEW t \in Tables, NEW kv \in Patches
  PROVE  Patched(t, kv) \in Tables
BY DEF Patched, Tables

LEMMA NoAskIsPatch == NoAsk \in Patches
BY DEF NoAsk

LEMMA Places ==
  ASSUME NEW x \in Workers
  PROVE  at(x) \in Processes /\ Rest(x) \in {"idle", "wait"} /\ (x \in Requests <=> Rest(x) = "idle")
BY DEF Workers, at, Rest

(* The locals a worker forgets keep their types.                           *)
LEMMA ForgetTypes ==
  ASSUME TypeOK, NEW x \in Workers, Forget(x), UNCHANGED log
  PROVE  /\ seen' \in [Workers -> 1..Len(log')]
         /\ ask' \in [Requests -> Patches]
         /\ base' \in [Requests -> 1..Len(log')]
BY NoAskIsPatch DEF TypeOK, Forget

LEMMA TypeInit == Init => TypeOK
<1> SUFFICES ASSUME Init PROVE TypeOK
  OBVIOUS
<1>1. PICK t \in Tables : log = <<t>>
  BY DEF Init
<1>2. log \in Seq(Tables) /\ log # << >> /\ Len(log) = 1
  BY <1>1
<1> QED BY <1>2, NoAskIsPatch DEF Init, TypeOK

LEMMA TypeStep == TypeOK /\ [Next]_vars => TypeOK'
<1> SUFFICES ASSUME TypeOK, [Next]_vars PROVE TypeOK'
  OBVIOUS
<1> USE DEF feed, served, request, bounds
<1>0. 1 \in Versions /\ Len(log) \in Versions /\ Len(log) \in Nat
  BY DEF TypeOK, Versions
<1>1. ASSUME NEW p \in Watching, Listen(p) PROVE TypeOK'
  BY <1>1, <1>0 DEF Listen, TypeOK, Workers
<1>2. ASSUME NEW p \in Watching, Wake(p) PROVE TypeOK'
  BY <1>2, <1>0 DEF Wake, TypeOK, Workers
<1>3. ASSUME NEW p \in Watching, Notice(p) PROVE TypeOK'
  BY <1>3, <1>0 DEF Notice, TypeOK, Workers
<1>4. ASSUME NEW x \in Workers, Load(x) PROVE TypeOK'
  BY <1>4, <1>0 DEF Load, TypeOK, Versions
<1>5. ASSUME NEW x \in Workers, Swap(x) PROVE TypeOK'
  BY <1>5, <1>0, Places DEF Swap, TypeOK
<1>6. ASSUME NEW x \in Workers, Report(x) PROVE TypeOK'
  <2>1. Violated(log[seen[x]]) \subseteq Rules
    BY DEF Violated
  <2>2. problems' \in [Processes -> SUBSET Rules]
    BY <1>6, <2>1, Places DEF Report, TypeOK
  <2> QED BY <1>6, <2>2, Places, ForgetTypes DEF Report, TypeOK
<1>7. ASSUME NEW x \in Workers, FailLoad(x) PROVE TypeOK'
  BY <1>7, Places, ForgetTypes DEF FailLoad, TypeOK
<1>8. ASSUME NEW q \in Requests, NEW kv \in Patches, Set(q, kv) PROVE TypeOK'
  BY <1>8, <1>0 DEF Set, TypeOK, Versions, Workers
<1>9. ASSUME NEW q \in Requests, Replace(q) PROVE TypeOK'
  <2>1. Patched(table, ask[q]) \in Tables
    BY PatchedIsTable, <1>0 DEF TypeOK, table, Versions
  <2>2. log' \in Seq(Tables) /\ log' # << >> /\ Len(log') = Len(log) + 1
    BY <1>9, <2>1 DEF Replace, TypeOK
  <2>3. 1..Len(log) \subseteq 1..Len(log')
    BY <2>2, <1>0
  <2>4. inbox' \in [Processes -> Nat]
    BY <1>9 DEF Replace, TypeOK
  <2>5. pc' \in [Workers -> {"idle", "replace", "down", "wait", "load", "swap", "report"}]
    BY <1>9 DEF Replace, TypeOK
  <2> QED BY <1>9, <2>2, <2>3, <2>4, <2>5 DEF Replace, TypeOK
<1>10. ASSUME NEW q \in Requests, FailReplace(q) PROVE TypeOK'
  <2>1. q \in Workers
    BY DEF Workers
  <2> QED BY <1>10, <2>1, ForgetTypes DEF FailReplace, TypeOK
<1>11. ASSUME NEW p \in Processes, Drop(p) PROVE TypeOK'
  BY <1>11 DEF Drop, TypeOK
<1>12. ASSUME NEW p \in Processes, Restart(p) PROVE TypeOK'
  BY <1>12, <1>0, NoAskIsPatch DEF Restart, TypeOK, Versions
<1>13. CASE UNCHANGED vars
  BY <1>13 DEF vars, TypeOK
<1>14. ASSUME NEW p \in Watching, Watch(p) PROVE TypeOK'
  <2>1. p \in Workers
    BY DEF Workers
  <2> QED BY <1>14, <2>1, <1>1, <1>2, <1>3, <1>4, <1>5, <1>6 DEF Watch, Refresh
<1>15. ASSUME NEW q \in Requests, Refresh(q) PROVE TypeOK'
  <2>1. q \in Workers
    BY DEF Workers
  <2> QED BY <1>15, <2>1, <1>4, <1>5, <1>6 DEF Refresh
<1> QED
  BY <1>7, <1>8, <1>9, <1>10, <1>11, <1>12, <1>13, <1>14, <1>15 DEF Next

(* Every reachable state has the types of TypeOK.                          *)
THEOREM TypeCorrect == Spec => []TypeOK
BY TypeInit, TypeStep, PTL DEF Spec
------------------------------------------------------------------------------
(* A listener's rounds: it listens while it is not down, a version it has  *)
(* read and not answered a later signal for is the last, and it reports on *)
(* the version it swapped in.                                              *)
Rounds(p) ==
  /\ pc[p] \in {"down", "wait", "load", "swap", "report"}
  /\ pc[p] = "down" => ~live[p]
  /\ pc[p] = "report" => snap[p] = seen[p]
  /\ failures = 0 /\ live[p] /\ inbox[p] = 0 =>
       /\ pc[p] = "wait" => snap[p] = Len(log)
       /\ pc[p] \in {"swap", "report"} => seen[p] = Len(log)

Told(p) == pc[p] # "report" => problems[p] = Violated(log[snap[p]])

ListenInv == \A p \in Listeners : Rounds(p) /\ Told(p)

(* A request about to write was not refused on the version it read.        *)
JudgedInv == \A q \in Requests : pc[q] = "replace" => ~Refuses(log[base[q]], ask[q])

LEMMA ListenersAre ==
  ASSUME NEW p \in Listeners
  PROVE  /\ p \in Watching /\ p \in Processes /\ p \in Workers /\ p \notin Requests
         /\ at(p) = p /\ Rest(p) = "wait"
         /\ \A x \in Workers : at(x) = p => x = p
BY DEF Listeners, Workers, at, Rest

LEMMA ListenInit == Init => ListenInv
<1> SUFFICES ASSUME Init, NEW p \in Listeners PROVE Rounds(p) /\ Told(p)
  BY DEF ListenInv
<1>1. PICK t \in Tables : log = <<t>> /\ Violated(t) = {}
  BY DEF Init
<1>2. Len(log) = 1 /\ log[1] = t
  BY <1>1
<1> QED BY <1>1, <1>2, ListenersAre DEF Init, Rounds, Told

(* What a listener serves is in the log, and stays what it was.            *)
LEMMA Replaced ==
  ASSUME TypeOK, NEW q \in Requests, Replace(q)
  PROVE  /\ log' \in Seq(Tables) /\ Len(log') = Len(log) + 1
         /\ \A v \in Versions : log'[v] = log[v]
         /\ table' = Patched(table, ask[q])
<1>1. log \in Seq(Tables) /\ Len(log) \in Nat \ {0} /\ table \in Tables
  BY DEF TypeOK, table
<1>2. Patched(table, ask[q]) \in Tables
  BY <1>1, PatchedIsTable DEF TypeOK
<1>3. log' = Append(log, Patched(table, ask[q]))
  BY DEF Replace
<1> QED BY <1>1, <1>2, <1>3 DEF Versions, table

LEMMA ListenStep == TypeOK /\ ListenInv /\ [Next]_vars => ListenInv'
<1> SUFFICES ASSUME TypeOK, ListenInv, [Next]_vars, NEW p \in Listeners
             PROVE  Rounds(p)' /\ Told(p)'
  BY DEF ListenInv, Listeners
<1> USE DEF feed, served, request, bounds
<1>0. /\ Rounds(p) /\ Told(p)
      /\ p \in Processes /\ p \in Workers /\ p \notin Requests
      /\ at(p) = p /\ Rest(p) = "wait"
      /\ \A x \in Workers : at(x) = p => x = p
  BY ListenersAre DEF ListenInv
<1>1. ASSUME NEW r \in Watching, Listen(r) PROVE Rounds(p)' /\ Told(p)'
  BY <1>1, <1>0 DEF Listen, TypeOK, Rounds, Told, Violated
<1>2. ASSUME NEW r \in Watching, Wake(r) PROVE Rounds(p)' /\ Told(p)'
  BY <1>2, <1>0 DEF Wake, TypeOK, Rounds, Told, Violated
<1>3. ASSUME NEW r \in Watching, Notice(r) PROVE Rounds(p)' /\ Told(p)'
  BY <1>3, <1>0 DEF Notice, TypeOK, Rounds, Told, Violated
<1>4. ASSUME NEW x \in Workers, Load(x) PROVE Rounds(p)' /\ Told(p)'
  BY <1>4, <1>0 DEF Load, TypeOK, Rounds, Told, Violated
<1>5. ASSUME NEW x \in Workers, Swap(x) PROVE Rounds(p)' /\ Told(p)'
  <2>1. CASE x = p
    BY <1>5, <2>1, <1>0 DEF Swap, TypeOK, Rounds, Told
  <2>2. CASE x # p
    BY <1>5, <2>2, <1>0 DEF Swap, TypeOK, Rounds, Told, Violated
  <2> QED BY <2>1, <2>2
<1>6. ASSUME NEW x \in Workers, Report(x) PROVE Rounds(p)' /\ Told(p)'
  <2>1. CASE x = p
    BY <1>6, <2>1, <1>0 DEF Report, TypeOK, Rounds, Told, Violated
  <2>2. CASE x # p
    BY <1>6, <2>2, <1>0 DEF Report, Forget, TypeOK, Rounds, Told, Violated
  <2> QED BY <2>1, <2>2
<1>7. ASSUME NEW x \in Workers, FailLoad(x) PROVE Rounds(p)' /\ Told(p)'
  BY <1>7, <1>0 DEF FailLoad, Forget, TypeOK, Rounds, Told, Violated
<1>8. ASSUME NEW q \in Requests, NEW kv \in Patches, Set(q, kv) PROVE Rounds(p)' /\ Told(p)'
  BY <1>8, <1>0 DEF Set, TypeOK, Rounds, Told, Violated
<1>9. ASSUME NEW q \in Requests, Replace(q) PROVE Rounds(p)' /\ Told(p)'
  <2>1. log'[snap[p]] = log[snap[p]]
    BY <1>9, <1>0, Replaced DEF TypeOK, Versions
  <2>2. pc'[p] = pc[p] /\ inbox[p] \in Nat /\ inbox'[p] = IF live[p] THEN inbox[p] + 1 ELSE inbox[p]
    BY <1>9, <1>0 DEF Replace, TypeOK
  <2> QED BY <1>9, <2>1, <2>2, <1>0 DEF Replace, Rounds, Told, Violated
<1>10. ASSUME NEW q \in Requests, FailReplace(q) PROVE Rounds(p)' /\ Told(p)'
  BY <1>10, <1>0 DEF FailReplace, Forget, TypeOK, Rounds, Told, Violated
<1>11. ASSUME NEW r \in Processes, Drop(r) PROVE Rounds(p)' /\ Told(p)'
  BY <1>11, <1>0 DEF Drop, TypeOK, Rounds, Told, Violated
<1>12. ASSUME NEW r \in Processes, Restart(r) PROVE Rounds(p)' /\ Told(p)'
  <2>1. CASE r = p
    BY <1>12, <2>1, <1>0 DEF Restart, TypeOK, Rounds, Told, Violated, table
  <2>2. CASE r # p
    BY <1>12, <2>2, <1>0 DEF Restart, TypeOK, Rounds, Told, Violated
  <2> QED BY <2>1, <2>2
<1>13. CASE UNCHANGED vars
  BY <1>13, <1>0 DEF vars, Rounds, Told, Violated
<1>14. ASSUME NEW r \in Watching, Watch(r) PROVE Rounds(p)' /\ Told(p)'
  <2>1. r \in Workers
    BY DEF Workers
  <2> QED BY <1>14, <2>1, <1>1, <1>2, <1>3, <1>4, <1>5, <1>6 DEF Watch, Refresh
<1>15. ASSUME NEW q \in Requests, Refresh(q) PROVE Rounds(p)' /\ Told(p)'
  <2>1. q \in Workers
    BY DEF Workers
  <2> QED BY <1>15, <2>1, <1>4, <1>5, <1>6 DEF Refresh
<1> QED
  BY <1>7, <1>8, <1>9, <1>10, <1>11, <1>12, <1>13, <1>14, <1>15 DEF Next

(* A process that only listens never rests, subscribed and with nothing    *)
(* left to answer, on any snapshot but the last.                           *)
THEOREM ListenerCurrentHolds == Spec => []ListenerCurrent
<1>1. ListenInv => ListenerCurrent
  BY DEF ListenInv, Rounds, ListenerCurrent
<1> QED BY <1>1, TypeInit, TypeStep, ListenInit, ListenStep, PTL DEF Spec

(* Between refreshes it reports the violations of what it serves.          *)
THEOREM ProblemsDescribeHolds == Spec => []ProblemsDescribeSnapshot
<1>1. ListenInv => ProblemsDescribeSnapshot
  BY DEF ListenInv, Told, ProblemsDescribeSnapshot
<1> QED BY <1>1, TypeInit, TypeStep, ListenInit, ListenStep, PTL DEF Spec
------------------------------------------------------------------------------
LEMMA JudgedInit == Init => JudgedInv
BY DEF Init, JudgedInv, Workers

(* The step of the worker that is not at its verdict leaves the requests   *)
(* that are; a write of another leaves them what they were judged on.      *)
LEMMA JudgedStep == TypeOK /\ JudgedInv /\ [Next]_vars => JudgedInv'
<1> SUFFICES ASSUME TypeOK, JudgedInv, [Next]_vars, NEW q \in Requests, pc'[q] = "replace"
             PROVE  ~Refuses(log'[base'[q]], ask'[q])
  BY DEF JudgedInv, Refuses, Violated, Patched
<1> DEFINE Kept == /\ pc[q] = "replace" /\ log'[base[q]] = log[base[q]]
                   /\ base'[q] = base[q] /\ ask'[q] = ask[q]
<1> USE DEF feed, served, request, bounds
<1>0. q \in Workers /\ q \notin Processes /\ base[q] \in Versions /\ at(q) = Home[q]
  BY DEF Workers, TypeOK, Versions, at
<1>k. Kept => ~Refuses(log'[base'[q]], ask'[q])
  BY DEF JudgedInv
<1> HIDE DEF Kept
<1>1. ASSUME NEW x \in Workers, Load(x) \/ Swap(x) \/ Report(x) \/ FailLoad(x) PROVE Kept
  BY <1>1, <1>0, Places DEF Load, Swap, Report, FailLoad, Forget, TypeOK, Kept
<1>2. ASSUME NEW r \in Watching, Watch(r) PROVE Kept
  <2>1. r \in Workers /\ r # q
    BY <1>0 DEF Workers
  <2>2. CASE Listen(r) \/ Wake(r) \/ Notice(r)
    BY <2>2, <2>1, <1>0 DEF Listen, Wake, Notice, TypeOK, Kept
  <2> QED BY <1>2, <2>1, <2>2, <1>1 DEF Watch, Refresh
<1>3. ASSUME NEW r \in Processes, Drop(r) \/ Restart(r) PROVE Kept
  BY <1>3, <1>0 DEF Drop, Restart, TypeOK, Kept
<1>4. ASSUME NEW r \in Requests, Replace(r) PROVE Kept
  <2>1. r \in Workers
    BY DEF Workers
  <2> QED BY <1>4, <2>1, <1>0, Replaced DEF Replace, TypeOK, Kept
<1>5. ASSUME NEW r \in Requests, FailReplace(r) PROVE Kept
  <2>1. r \in Workers
    BY DEF Workers
  <2> QED BY <1>5, <2>1, <1>0 DEF FailReplace, Forget, TypeOK, Kept
<1>6. ASSUME NEW r \in Requests, NEW kv \in Patches, Set(r, kv)
      PROVE  Kept \/ ~Refuses(log'[base'[q]], ask'[q])
  <2>1. CASE r = q
    BY <1>6, <2>1, <1>0 DEF Set, TypeOK, JudgedAgainst, table
  <2>2. CASE r # q
    BY <1>6, <2>2, <1>0 DEF Set, TypeOK, Kept
  <2> QED BY <2>1, <2>2
<1>7. ASSUME UNCHANGED vars PROVE Kept
  <2>1. log' = log /\ pc' = pc /\ base' = base /\ ask' = ask
    BY <1>7 DEF vars
  <2> QED BY <2>1 DEF Kept
<1>8. ASSUME NEW r \in Requests, Refresh(r) PROVE Kept
  <2>1. r \in Workers
    BY DEF Workers
  <2> QED BY <1>8, <2>1, <1>1 DEF Refresh
<1> QED
  BY <1>k, <1>1, <1>2, <1>3, <1>4, <1>5, <1>6, <1>7, <1>8 DEF Next

(* A write judged against the table it is applied to breaks no rule that   *)
(* was not broken: an incoherent table takes two overlapping writes.       *)
THEOREM OnlyOverlapBreaksHolds == Spec => OnlyOverlapBreaks
<1> DEFINE Judged(q) == pc[q] = "replace" /\ pc'[q] = "load" /\ base[q] = Len(log)
                          => Violated(log'[Len(log')]) \subseteq Violated(table)
<1>1. TypeOK /\ JudgedInv /\ [Next]_vars => [\A q \in Requests : Judged(q)]_vars
  <2> SUFFICES ASSUME TypeOK, JudgedInv, Next, NEW q \in Requests,
                      pc[q] = "replace", pc'[q] = "load", base[q] = Len(log)
               PROVE  Violated(log'[Len(log')]) \subseteq Violated(table)
    BY DEF vars
  <2> USE DEF feed, served, request, bounds
  <2>1. q \in Workers /\ q \notin Processes
    BY DEF Workers
  <2>2. Replace(q)
    <3>1. ASSUME NEW x \in Workers PROVE (~Load(x) /\ ~Swap(x) /\ ~Report(x) /\ ~FailLoad(x)) \/ x = q
      BY <2>1 DEF Load, Swap, Report, FailLoad, TypeOK
    <3>2. ~Load(q) /\ ~Swap(q) /\ ~Report(q) /\ ~FailLoad(q)
      BY DEF Load, Swap, Report, FailLoad
    <3>3. ASSUME NEW r \in Processes
          PROVE  ~Listen(r) /\ ~Wake(r) /\ ~Notice(r) /\ ~Drop(r) /\ ~Restart(r)
      BY <2>1 DEF Listen, Wake, Notice, Drop, Restart, TypeOK
    <3>4. ASSUME NEW r \in Requests, NEW kv \in Patches
          PROVE  ~Set(r, kv) /\ ~FailReplace(r) /\ (Replace(r) => r = q)
      BY <2>1 DEF Set, FailReplace, Replace, TypeOK, Workers
    <3> QED BY <3>1, <3>2, <3>3, <3>4 DEF Next, Watch, Refresh, Workers
  <2>3. log'[Len(log')] = Patched(table, ask[q])
    BY <2>2, Replaced DEF table
  <2>4. ~Refuses(table, ask[q])
    BY DEF JudgedInv, table
  <2> QED BY <2>3, <2>4 DEF Refuses
<1> QED
  BY <1>1, TypeInit, TypeStep, JudgedInit, JudgedStep, PTL DEF Spec, OnlyOverlapBreaks
=============================================================================
