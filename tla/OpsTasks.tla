------------------------------ MODULE OpsTasks ------------------------------
(***************************************************************************)
(* Backups, restores and imports as background operations: opsjob turns a  *)
(* request into a tasks row and a River job in one transaction, jobs/ops   *)
(* runs it, exporter and importer move the instance.                       *)
(*                                                                         *)
(* A tasks row is queued, running, succeeded or failed; an index admits    *)
(* one queued or running row of a kind, and restore and import share one.  *)
(* The instance is two tables that refer to one another and an identity    *)
(* sequence.  A job has one attempt: River never runs it twice.            *)
(***************************************************************************)
EXTENDS Naturals, FiniteSets

CONSTANTS
  Ops,          \* operator requests, each with its task and its job
  Does,         \* Does[o]: "export", "restore" or "import"
  MaxUser,      \* bound on user ids
  Foreign,      \* what a foreign archive may translate to: instances
  MaxFailures,  \* bound on statements and store calls that fail
  MaxCrashes    \* bound on workers that die

Users == 1..MaxUser
Instances == [users : SUBSET Users, solves : SUBSET Users]

(* What is taken of the constants: who instantiates this assumes it.         *)
OpsConstants ==
  /\ Does \in [Ops -> {"export", "restore", "import"}]
  /\ MaxUser \in Nat /\ MaxFailures \in Nat /\ MaxCrashes \in Nat
  /\ Foreign \subseteq Instances

VARIABLES
  request,   \* of the operator: "none", "stashed", "declined", "discarding" or "accepted"
  task,      \* state of the tasks row, "none" before there is one
  job,       \* "none", "available", "working" or "settled"
  where,        \* where the worker is, "none" when there is none
  store,     \* objects: <<"upload", o>> and <<"backup", o>>
  upload,    \* upload[o]: the instance in an uploaded archive
  taken,     \* taken[o]: the snapshot of an export
  archive,   \* archive[o]: what it has written
  game,      \* the instance
  nextUser,  \* the users sequence
  lost,      \* ghost: operations whose worker died or could not write its row
  leaked,    \* ghost: uploads whose delete failed or whose worker died
  failures, crashes

rest   == <<store, upload, taken, archive>>
ghosts == <<lost, leaked>>
bounds == <<failures, crashes>>
vars   == <<request, task, job, where, rest, game, nextUser, ghosts, bounds>>

Kind(o) == IF Does[o] = "export" THEN "export" ELSE "import"
InFlight == {"queued", "running"}
Empty == [users |-> {}, solves |-> {}]
Dangling(g) == g.solves \ g.users
Fresh(g) == 1 + (IF g.users = {} THEN 0 ELSE CHOOSE m \in g.users : \A u \in g.users : u <= m)

TypeOK ==
  /\ request \in [Ops -> {"none", "stashed", "discarding", "declined", "accepted"}]
  /\ task \in [Ops -> InFlight \cup {"none", "succeeded", "failed"}]
  /\ job \in [Ops -> {"none", "available", "working", "settled"}]
  /\ where \in [Ops -> {"none", "start", "fetch", "snapshot", "users", "solves", "put", "load",
                     "finish", "fail", "discard"}]
  /\ store \subseteq {"upload", "backup"} \X Ops
  /\ upload \in [Ops -> Instances] /\ taken \in [Ops -> Instances] /\ archive \in [Ops -> Instances]
  /\ game \in Instances /\ nextUser \in 1..MaxUser + 1
  /\ lost \subseteq Ops /\ leaked \subseteq Ops

Init ==
  /\ request = [o \in Ops |-> "none"] /\ task = [o \in Ops |-> "none"]
  /\ job = [o \in Ops |-> "none"] /\ where = [o \in Ops |-> "none"]
  /\ store = {} /\ upload = [o \in Ops |-> Empty]
  /\ taken = [o \in Ops |-> Empty] /\ archive = [o \in Ops |-> Empty]
  /\ game = Empty /\ nextUser = 1
  /\ lost = {} /\ leaked = {} /\ failures = 0 /\ crashes = 0

Fails == failures < MaxFailures /\ failures' = failures + 1

-----------------------------------------------------------------------------
(* The operator's side: stash the upload, then task and job together.      *)

\* An uploaded archive is one this instance made, or a foreign one.
Uploads(o) ==
  IF Does[o] = "restore" THEN {archive[b] : b \in {x \in Ops : task[x] = "succeeded" /\ Does[x] = "export"}}
                         ELSE Foreign

Stash(o) ==
  /\ request[o] = "none" /\ Does[o] # "export"
  /\ \E g \in Uploads(o) : upload' = [upload EXCEPT ![o] = g]
  /\ store' = store \cup {<<"upload", o>>}
  /\ request' = [request EXCEPT ![o] = "stashed"]
  /\ UNCHANGED <<task, job, where, taken, archive, game, nextUser, ghosts, bounds>>

OneInFlight(o) == \E p \in Ops : Kind(p) = Kind(o) /\ task[p] \in InFlight

Declined(o) == IF Does[o] = "export" THEN "declined" ELSE "discarding"

\* EnqueueTask and InsertTx in one transaction.
Enqueue(o) ==
  /\ request[o] = IF Does[o] = "export" THEN "none" ELSE "stashed"
  /\ \/ /\ ~OneInFlight(o)
        /\ task' = [task EXCEPT ![o] = "queued"] /\ job' = [job EXCEPT ![o] = "available"]
        /\ request' = [request EXCEPT ![o] = "accepted"] /\ UNCHANGED failures
     \/ /\ OneInFlight(o) /\ UNCHANGED failures
        /\ request' = [request EXCEPT ![o] = Declined(o)] /\ UNCHANGED <<task, job>>
     \/ /\ Fails /\ request' = [request EXCEPT ![o] = Declined(o)] /\ UNCHANGED <<task, job>>
  /\ UNCHANGED <<where, rest, game, nextUser, ghosts, crashes>>

Unstored(o) ==
  \/ store' = store \ {<<"upload", o>>} /\ UNCHANGED <<leaked, failures>>
  \/ Fails /\ leaked' = leaked \cup {o} /\ UNCHANGED store

Discard(o) ==
  /\ request[o] = "discarding" /\ request' = [request EXCEPT ![o] = "declined"]
  /\ Unstored(o)
  /\ UNCHANGED <<task, job, where, upload, taken, archive, game, nextUser, lost, crashes>>

-----------------------------------------------------------------------------
(* The worker.                                                             *)

Go(o, label) == where' = [where EXCEPT ![o] = label]
\* Every path of a restore or an import ends by deleting the upload.
Ends(o) == IF Does[o] = "export" THEN "none" ELSE "discard"
Settles(o) == job' = IF Does[o] = "export" THEN [job EXCEPT ![o] = "settled"] ELSE job

Fetch(o) ==
  /\ job[o] = "available" /\ where[o] = "none"
  /\ job' = [job EXCEPT ![o] = "working"] /\ Go(o, "start")
  /\ UNCHANGED <<request, task, rest, game, nextUser, ghosts, bounds>>

StartTask(o) ==
  /\ where[o] = "start"
  /\ \/ /\ task' = [task EXCEPT ![o] = IF @ = "queued" THEN "running" ELSE @]
        /\ Go(o, IF Does[o] = "export" THEN "snapshot" ELSE "fetch") /\ UNCHANGED <<job, lost, failures>>
     \/ Fails /\ lost' = lost \cup {o} /\ Go(o, Ends(o)) /\ Settles(o) /\ UNCHANGED task
  /\ UNCHANGED <<request, rest, game, nextUser, leaked, crashes>>

FetchUpload(o) ==
  /\ where[o] = "fetch"
  /\ \/ <<"upload", o>> \in store /\ Go(o, "load") /\ UNCHANGED failures
     \/ Fails /\ Go(o, "fail")
  /\ UNCHANGED <<request, task, job, rest, game, nextUser, ghosts, crashes>>

\* REPEATABLE READ: every table is read as of the first statement.
Snapshot(o) ==
  /\ where[o] = "snapshot"
  /\ taken' = [taken EXCEPT ![o] = game] /\ Go(o, "users")
  /\ UNCHANGED <<request, task, job, store, upload, archive, game, nextUser, ghosts, bounds>>

\* Slip: READ COMMITTED.
SeenAsOfNow(o) == game

Seen(o) == taken[o]

ReadTable(o) ==
  /\ \/ /\ where[o] = "users" /\ Go(o, "solves")
        /\ archive' = [archive EXCEPT ![o] = [users |-> Seen(o).users, solves |-> {}]]
     \/ /\ where[o] = "solves" /\ Go(o, "put")
        /\ archive' = [archive EXCEPT ![o].solves = Seen(o).solves]
  /\ UNCHANGED <<request, task, job, store, upload, taken, game, nextUser, ghosts, bounds>>

PutArchive(o) ==
  /\ where[o] = "put"
  /\ \/ store' = store \cup {<<"backup", o>>} /\ Go(o, "finish") /\ UNCHANGED failures
     \/ Fails /\ Go(o, "fail") /\ UNCHANGED store
  /\ UNCHANGED <<request, task, job, upload, taken, archive, game, nextUser, ghosts, crashes>>

ResyncSequences(g) == Fresh(g)

\* Truncate, copy, resync, count dangling references, commit: one transaction.
Load(o) ==
  /\ where[o] = "load"
  /\ \/ /\ Dangling(upload[o]) = {} /\ game' = upload[o] /\ nextUser' = ResyncSequences(upload[o])
        /\ Go(o, "finish") /\ UNCHANGED failures
     \/ /\ Dangling(upload[o]) # {} /\ Go(o, "fail") /\ UNCHANGED <<game, nextUser, failures>>
     \/ /\ Fails /\ Go(o, "fail") /\ UNCHANGED <<game, nextUser>>
  /\ UNCHANGED <<request, task, job, rest, ghosts, crashes>>

Stamp(o, state) ==
  /\ Go(o, Ends(o)) /\ Settles(o)
  /\ \/ task' = [task EXCEPT ![o] = state] /\ UNCHANGED <<lost, failures>>
     \/ Fails /\ lost' = lost \cup {o} /\ UNCHANGED task
  /\ UNCHANGED <<request, rest, game, nextUser, leaked, crashes>>

FinishTask(o) == where[o] = "finish" /\ Stamp(o, "succeeded")

\* Slip: the error is returned without being stamped on the task.
FailTaskUnstamped(o) ==
  /\ where[o] = "fail" /\ Go(o, Ends(o)) /\ Settles(o)
  /\ UNCHANGED <<request, task, rest, game, nextUser, ghosts, bounds>>

FailTask(o) == where[o] = "fail" /\ Stamp(o, "failed")

DiscardUpload(o) ==
  /\ where[o] = "discard" /\ Go(o, "none") /\ job' = [job EXCEPT ![o] = "settled"]
  /\ Unstored(o)
  /\ UNCHANGED <<request, task, upload, taken, archive, game, nextUser, lost, crashes>>

Crash(o) ==
  /\ where[o] # "none" /\ crashes < MaxCrashes /\ crashes' = crashes + 1
  /\ Go(o, "none") /\ lost' = lost \cup {o} /\ leaked' = leaked \cup {o}
  /\ UNCHANGED <<request, task, job, rest, game, nextUser, failures>>

\* River's rescuer: a job whose only attempt is gone is discarded.
Rescue(o) ==
  /\ job[o] = "working" /\ where[o] = "none" /\ job' = [job EXCEPT ![o] = "settled"]
  /\ UNCHANGED <<request, task, where, rest, game, nextUser, ghosts, bounds>>

-----------------------------------------------------------------------------
(* The game goes on meanwhile.                                             *)

Register ==
  /\ nextUser <= MaxUser /\ nextUser' = nextUser + 1
  /\ game' = [game EXCEPT !.users = @ \cup {nextUser}]
  /\ UNCHANGED <<request, task, job, where, rest, ghosts, bounds>>

Solve(u) ==
  /\ u \in game.users \ game.solves /\ game' = [game EXCEPT !.solves = @ \cup {u}]
  /\ UNCHANGED <<request, task, job, where, rest, nextUser, ghosts, bounds>>

Work(o) ==
  \/ Fetch(o) \/ StartTask(o) \/ FetchUpload(o) \/ Snapshot(o) \/ ReadTable(o) \/ PutArchive(o)
  \/ Load(o) \/ FinishTask(o) \/ FailTask(o) \/ DiscardUpload(o)

Next ==
  \/ \E o \in Ops : Stash(o) \/ Enqueue(o) \/ Discard(o) \/ Work(o) \/ Crash(o) \/ Rescue(o)
  \/ Register
  \/ \E u \in Users : Solve(u)

Spec == Init /\ [][Next]_vars
\* A worker that lives runs its job to the end.
FairSpec == Spec /\ \A o \in Ops : WF_vars(Work(o))

-----------------------------------------------------------------------------

(* A stashed upload is deleted whatever becomes of its request, unless the *)
(* delete failed or the worker died (discard, discardUpload).              *)
NoUploadLeftBehind ==
  \A o \in Ops : <<"upload", o>> \in store =>
    \/ o \in leaked \/ request[o] \in {"stashed", "discarding"}
    \/ request[o] = "accepted" /\ job[o] # "settled"

(* A backup offered for download is in the store, and its archive is one a *)
(* restore accepts: no row without the row it refers to (Downloadable,     *)
(* ExportWithProgress).                                                    *)
DownloadRestores ==
  \A o \in Ops : task[o] = "succeeded" /\ Does[o] = "export" =>
    <<"backup", o>> \in store /\ Dangling(archive[o]) = {}

(* Why: a job is fetched once, what it has taken refers to nothing outside, *)
(* and only the discard or a death takes an upload's request to its end.   *)
OneAttempt == \A o \in Ops :
  /\ where[o] # "none" => job[o] = "working"
  /\ job[o] # "none" <=> request[o] = "accepted"
  /\ job[o] \in {"none", "available"} => task[o] # "succeeded"
  /\ where[o] \notin {"none", "discard"} => task[o] # "succeeded"
  /\ where[o] \in {"snapshot", "users", "solves", "put"} => Does[o] = "export"
  /\ where[o] \in {"fetch", "load", "discard"} => Does[o] # "export"

SoundSoFar ==
  /\ Dangling(game) = {}
  /\ \A o \in Ops :
       /\ where[o] \in {"users", "solves"} => Dangling(taken[o]) = {}
       /\ where[o] = "solves" => archive[o].users = taken[o].users
       /\ Does[o] = "export" /\ where[o] \in {"put", "finish"} => Dangling(archive[o]) = {}
       /\ Does[o] = "export" /\ where[o] = "finish" => <<"backup", o>> \in store

UploadHasOwner == \A o \in Ops :
  /\ request[o] \in {"stashed", "discarding"} => Does[o] # "export"
  /\ <<"upload", o>> \in store => Does[o] # "export"
  /\ Does[o] # "export" /\ job[o] = "working" /\ where[o] = "none" => o \in leaked

Inv == OneAttempt /\ SoundSoFar /\ UploadHasOwner /\ NoUploadLeftBehind /\ DownloadRestores

(* opsInsertOpts' comment: a failure is stamped on the task and the kind   *)
(* is freed.                                                               *)
SettledJobFreesItsKind == \A o \in Ops : job[o] = "settled" => task[o] \notin InFlight
=============================================================================
