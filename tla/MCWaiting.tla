----------------------------- MODULE MCWaiting -----------------------------
(* Whatever somebody waits for, for TLC: settings to reach every process,  *)
(* an operator's task to end, a submission or a view to be granted the     *)
(* locks it needs. They share no table, so a behaviour is about one of     *)
(* them: the settings keep their own variables, the others take turns in   *)
(* the ones below.                                                         *)
EXTENDS Config

-----------------------------------------------------------------------------
(* Config: a rule of the shape of most of coherenceRules (a feed that is on *)
(* needs an endpoint), an operator who sets the feed up and one who takes   *)
(* the endpoint away, a process that serves the console and one that does   *)
(* not.                                                                     *)
CONSTANTS front, console

MCHome  == [q \in Requests |-> console]
MCKeys  == {"webhook_enabled", "webhook_url"}
MCPatches == {[k \in {"webhook_url"} |-> FALSE], [k \in MCKeys |-> TRUE]}
MCRules == {[keys |-> {"webhook_enabled", "webhook_url"},
             accepts |-> {t \in [MCKeys -> BOOLEAN] : t["webhook_enabled"] => t["webhook_url"]}]}

CONSTANTS
  None,
  Ops, Does, Foreign, MaxUser, MaxTrouble, MaxCrashes,   \* of OpsTasks
  Submissions, Players, Challenges, Uncapped,    \* of Submit
  Views, Pushes, Viewers, Hashes, MaxGen        \* of InstancePool

VARIABLES
  focus,   \* which of the four a behaviour is about
  place, errors,
  petition, task, job, store, upload, taken, archive, game, nextUser, lost, leaked, crashes,
  req, stamp, blood, worth, rowLock, attemptLock, state, price, eligible, wrong, solves, bonus, outbox,
  accountEdits, challengeEdits,
  instances, issued, poolLock, viewer, pick, shown, batch, upc

shared == <<place, errors>>
tasks  == <<petition, task, job, store, upload, taken, archive, game, nextUser, lost, leaked, crashes>>
ledger == <<req, stamp, blood, worth, rowLock, attemptLock, state, price, eligible, wrong, solves, bonus,
            outbox, accountEdits, challengeEdits>>
pool   == <<instances, issued, poolLock, viewer, pick, shown, batch, upc>>
all == <<focus, vars, shared, tasks, ledger, pool>>

OT == INSTANCE OpsTasks WITH request <- petition, where <- place, failures <- errors,
        MaxFailures <- MaxTrouble

(* A sound archive and one that refers to a user it does not hold.         *)
MCDoes    == [o \in Ops |-> IF o = "backup" THEN "export" ELSE o]
MCForeign == {[users |-> {2}, solves |-> {2}], [users |-> {1}, solves |-> {2}]}

(* One challenge caps wrong answers and pays a bonus, the other does not.  *)
SU == INSTANCE Submit WITH Accounts <- Players, pc <- place, ask <- worth,
        Cap <- [c \in Challenges |-> IF c = Uncapped THEN 0 ELSE 1],
        FirstBlood <- [c \in Challenges |-> "bonus"],
        Curve <- [c \in Challenges |-> [function |-> "linear", initial |-> 9, minimum |-> 3, decay |-> 5]],
        AskingPrice <- [c \in Challenges |-> 9], Requires <- [c \in Challenges |-> {}],
        MaxAccountEdits <- 0, MaxChallengeEdits <- 0
PO == INSTANCE InstancePool WITH Uploads <- Pushes, Accounts <- Viewers, pc <- place, served <- shown

ASSUME WaitingConstants == OT!OpsConstants /\ SU!SubmitConstants /\ PO!PoolConstants

-----------------------------------------------------------------------------
NoShared == place = None /\ errors = None
NoTasks == /\ petition = None /\ task = None /\ job = None /\ store = None /\ upload = None
           /\ taken = None /\ archive = None /\ game = None /\ nextUser = None /\ lost = None
           /\ leaked = None /\ crashes = None
NoLedger == /\ req = None /\ stamp = None /\ blood = None /\ worth = None /\ rowLock = None
            /\ attemptLock = None /\ state = None /\ price = None /\ eligible = None /\ wrong = None
            /\ solves = None /\ bonus = None /\ outbox = None
            /\ accountEdits = None /\ challengeEdits = None
NoPool == /\ instances = None /\ issued = None /\ poolLock = None /\ viewer = None /\ pick = None
          /\ shown = None /\ batch = None /\ upc = None
Settled == log = <<[k \in Keys |-> FALSE]>>

WaitingInit ==
  /\ Init
  /\ \/ focus = "settings" /\ NoShared /\ NoTasks /\ NoLedger /\ NoPool
     \/ focus = "tasks" /\ Settled /\ OT!Init /\ NoLedger /\ NoPool
     \/ focus = "ledger" /\ Settled /\ SU!Init /\ errors = None /\ NoTasks /\ NoPool
     \/ focus = "pool" /\ Settled /\ PO!Init /\ errors = None /\ NoTasks /\ NoLedger

OfSettings == focus = "settings" /\ UNCHANGED <<focus, shared, tasks, ledger, pool>>
OfTasks  == focus = "tasks"  /\ UNCHANGED <<focus, vars, ledger, pool>>
OfLedger == focus = "ledger" /\ UNCHANGED <<focus, vars, errors, tasks, pool>>
OfPool   == focus = "pool"   /\ UNCHANGED <<focus, vars, errors, tasks, ledger>>

Settings == OfSettings /\ Next
Tasks == OfTasks /\ OT!Next
Attempts == OfLedger /\ SU!Next
Pool == OfPool /\ PO!Next

WaitingNext == Settings \/ Tasks \/ Attempts \/ Pool

(* The fairness of those that somebody waits for to end, as their own       *)
(* modules state and explain it; views of a pool are asked for safety only.  *)
Fairness ==
  /\ \A p \in Watching : WF_all(OfSettings /\ Watch(p))
  /\ \A o \in Ops : WF_all(OfTasks /\ OT!Work(o))
  /\ \A s \in Submissions : WF_all(OfLedger /\ ~req[s].right /\ SU!Step(s))

WaitingSpec == WaitingInit /\ [][WaitingNext]_all /\ Fairness

-----------------------------------------------------------------------------
(* A backup offered for download is in the store and a restore accepts it,  *)
(* and a stashed upload is gone once its request or its task is done.      *)
StoreKept == focus = "tasks" => OT!DownloadRestores /\ OT!NoUploadLeftBehind

(* Each waits once, so that it gets what it waits for is that in the end    *)
(* nobody is left waiting.                                                 *)

(* An accepted task ends, if its worker lives and can write its row.       *)
AcceptedTaskEnds ==
  <>[](focus = "tasks" => \A o \in Ops : petition[o] = "accepted" => task[o] \notin OT!InFlight \/ o \in lost)

(* Every submission that starts is answered: no two of them, on one or two *)
(* challenges, wait for each other (the attempt lock comes before the row). *)
RightFair == \A s \in Submissions : WF_all(OfLedger /\ req[s].right /\ SU!Step(s))
EveryRequestAnswered ==
  RightFair => <>[](focus = "ledger" => \A s \in Submissions : place[s] = "idle" \/ SU!Done(s))

(* The lazy lock: a wrong answer to an uncapped challenge is answered even *)
(* if the transaction that holds the challenge row never moves again.      *)
WrongNeverWaits ==
  <>[](focus = "ledger" => \A s \in Submissions :
         ~req[s].right /\ SU!chal(s) = Uncapped => place[s] = "idle" \/ SU!Done(s))

(* An account is always shown the one instance issued to it, whoever of its *)
(* members looked first.                                                   *)
ShownOwn == focus = "pool" => PO!ShownOwn
=============================================================================
