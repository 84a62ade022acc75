------------------------------- MODULE Config -------------------------------
(***************************************************************************)
(* The settings table and the snapshots the processes serve it from        *)
(* (config.Manager, PGStore, PGWatcher over a pglisten.Pump).  A process   *)
(* has a watcher, one goroutine that LISTENs, re-reads the table on every  *)
(* signal and swaps the snapshot; the console requests it serves (Set)     *)
(* write the table and refresh the same snapshot themselves.               *)
(*                                                                         *)
(* The table is kept as the sequence of its committed versions, a snapshot *)
(* as the version it was built from.  Every value parses; what can be      *)
(* wrong is a combination, which is what the rules judge.                  *)
(***************************************************************************)
EXTENDS Naturals, Sequences

CONSTANTS
  Processes,
  Watching,   \* those whose watcher runs (all of them, for the code)
  Requests,   \* console requests, each with the process that serves it
  Home,
  Keys,
  Values,
  Patches,    \* what a request may write: some keys and their values
  Rules,      \* coherenceRules: the keys one reads, the tables it accepts
  MaxCommits, \* bound on the versions of the table
  MaxFaults   \* bound on lost connections, restarts and failed statements

Tables == [Keys -> Values]

ASSUME ConfigConstants ==
  /\ Watching \subseteq Processes
  /\ Processes \cap Requests = {}
  /\ Patches # {}
  /\ \A kv \in Patches : DOMAIN kv # {} /\ DOMAIN kv \subseteq Keys /\ \A k \in DOMAIN kv : kv[k] \in Values
  /\ Home \in [Requests -> Processes]
  /\ \A ru \in Rules : ru.keys \subseteq Keys /\ ru.accepts \subseteq Tables
  /\ \E t \in Tables : \A ru \in Rules : t \in ru.accepts
  /\ MaxCommits \in Nat /\ MaxFaults \in Nat

VARIABLES
  log,      \* the committed versions of the table
  live,     \* live[p]: the server delivers signals to p's connection
  inbox,    \* inbox[p]: signals delivered and not yet awaited
  up,       \* up[p]: the subscription as /readyz reports it
  snap,     \* snap[p]: the version behind the snapshot served
  problems, \* problems[p]: the violations reported with it
  pc,       \* of each watcher and each request
  seen,     \* seen[x]: the version a refresh has read
  ask,      \* ask[q]: the keys and values a request writes
  base,     \* base[q]: the version it was judged against
  drops, failures

Workers == Processes \cup Requests
at(x)   == IF x \in Requests THEN Home[x] ELSE x
Rest(x) == IF x \in Requests THEN "idle" ELSE "wait"

table     == log[Len(log)]
feed      == <<live, inbox, up>>
served    == <<snap, problems>>
request   == <<ask, base>>
bounds    == <<drops, failures>>
vars      == <<log, feed, served, pc, seen, request, bounds>>
Listeners == Watching \ {Home[q] : q \in Requests}

Violated(t) == {ru \in Rules : t \notin ru.accepts}
Patched(t, kv) == [k \in Keys |-> IF k \in DOMAIN kv THEN kv[k] ELSE t[k]]

(* A worker's locals are gone when it is done: they are put back to these.  *)
NoAsk == CHOOSE kv \in Patches : TRUE
Forget(x) ==
  /\ seen' = [seen EXCEPT ![x] = 1]
  /\ ask' = IF x \in Requests THEN [ask EXCEPT ![x] = NoAsk] ELSE ask
  /\ base' = IF x \in Requests THEN [base EXCEPT ![x] = 1] ELSE base

TypeOK ==
  /\ log \in Seq(Tables) /\ log # << >>
  /\ live \in [Processes -> BOOLEAN]
  /\ inbox \in [Processes -> Nat]
  /\ up \in [Processes -> BOOLEAN]
  /\ snap \in [Processes -> 1..Len(log)]
  /\ problems \in [Processes -> SUBSET Rules]
  /\ pc \in [Workers -> {"idle", "replace", "down", "wait", "load", "swap", "report"}]
  /\ seen \in [Workers -> 1..Len(log)]
  /\ ask \in [Requests -> Patches]
  /\ base \in [Requests -> 1..Len(log)]
  /\ drops \in Nat /\ failures \in Nat

(* New: a process boots on a coherent table only.                          *)
Init ==
  /\ log \in {<<t>> : t \in {u \in Tables : Violated(u) = {}}}
  /\ live = [p \in Processes |-> FALSE]
  /\ inbox = [p \in Processes |-> 0]
  /\ up = [p \in Processes |-> FALSE]
  /\ snap = [p \in Processes |-> 1]
  /\ problems = [p \in Processes |-> {}]
  /\ pc = [x \in Workers |-> IF x \in Requests THEN "idle" ELSE "down"]
  /\ seen = [x \in Workers |-> 1]
  /\ ask = [q \in Requests |-> NoAsk]
  /\ base = [q \in Requests |-> 1]
  /\ drops = 0 /\ failures = 0
------------------------------------------------------------------------------
(* Slip: the pump resubscribes, and re-reads at the next signal.           *)
ListenOnly(p) ==
  /\ pc[p] = "down"
  /\ pc' = [pc EXCEPT ![p] = "wait"]
  /\ live' = [live EXCEPT ![p] = TRUE]
  /\ inbox' = [inbox EXCEPT ![p] = 0]
  /\ up' = [up EXCEPT ![p] = TRUE]
  /\ UNCHANGED <<log, served, seen, request, bounds>>

(* Pump.session: LISTEN first, OnSubscribe's re-read second.               *)
Listen(p) ==
  /\ pc[p] = "down"
  /\ pc' = [pc EXCEPT ![p] = "load"]
  /\ live' = [live EXCEPT ![p] = TRUE]
  /\ inbox' = [inbox EXCEPT ![p] = 0]
  /\ UNCHANGED <<log, up, served, seen, request, bounds>>

(* WaitForNotification returns a signal.                                   *)
Wake(p) ==
  /\ pc[p] = "wait" /\ inbox[p] > 0
  /\ inbox' = [inbox EXCEPT ![p] = @ - 1]
  /\ pc' = [pc EXCEPT ![p] = "load"]
  /\ UNCHANGED <<log, live, up, served, seen, request, bounds>>

(* ... or an error: the session is over, and another one is begun.         *)
Notice(p) ==
  /\ pc[p] = "wait" /\ ~live[p]
  /\ up' = [up EXCEPT ![p] = FALSE]
  /\ pc' = [pc EXCEPT ![p] = "down"]
  /\ UNCHANGED <<log, live, inbox, served, seen, request, bounds>>

(* Manager.Refresh, a watcher's or a request's: the table is read ...      *)
Load(x) ==
  /\ pc[x] = "load"
  /\ seen' = [seen EXCEPT ![x] = Len(log)]
  /\ pc' = [pc EXCEPT ![x] = "swap"]
  /\ UNCHANGED <<log, feed, served, request, bounds>>

(* ... or not: the last good snapshot is kept, and the watcher, which logs *)
(* the error and goes on, counts as subscribed all the same.               *)
FailLoad(x) ==
  /\ pc[x] = "load" /\ drops + failures < MaxFaults
  /\ failures' = failures + 1
  /\ pc' = [pc EXCEPT ![x] = Rest(x)]
  /\ up' = IF x \in Processes THEN [up EXCEPT ![x] = TRUE] ELSE up
  /\ Forget(x)
  /\ UNCHANGED <<log, live, inbox, served, drops>>

(* Slip: the swap answers every signal received so far.                    *)
SwapAndDrain(x) ==
  /\ pc[x] = "swap"
  /\ snap' = [snap EXCEPT ![at(x)] = seen[x]]
  /\ inbox' = [inbox EXCEPT ![at(x)] = 0]
  /\ pc' = [pc EXCEPT ![x] = "report"]
  /\ UNCHANGED <<log, live, up, problems, seen, request, bounds>>

(* The snapshot and its problems are two stores, without a lock.           *)
Swap(x) ==
  /\ pc[x] = "swap"
  /\ snap' = [snap EXCEPT ![at(x)] = seen[x]]
  /\ pc' = [pc EXCEPT ![x] = "report"]
  /\ UNCHANGED <<log, feed, problems, seen, request, bounds>>

Report(x) ==
  /\ pc[x] = "report"
  /\ problems' = [problems EXCEPT ![at(x)] = Violated(log[seen[x]])]
  /\ pc' = [pc EXCEPT ![x] = Rest(x)]
  /\ up' = IF x \in Processes THEN [up EXCEPT ![x] = TRUE] ELSE up
  /\ Forget(x)
  /\ UNCHANGED <<log, live, inbox, snap, bounds>>
------------------------------------------------------------------------------
(* Slip: a write is judged against the snapshot at hand.                   *)
JudgedSnapshot(q) == log[snap[Home[q]]]

(* What Set reads and merges the written keys into.                        *)
JudgedAgainst(q) == table

(* checkCoherence: a violated rule refuses a write to a key it reads, and  *)
(* one that was not violated before refuses any write.                     *)
Refuses(t, kv) ==
  \E ru \in Violated(Patched(t, kv)) : ru.keys \cap DOMAIN kv # {} \/ ru \notin Violated(t)

(* Set up to its verdict; a refused one changes nothing and is left out.   *)
Set(q, kv) ==
  /\ pc[q] = "idle"
  /\ ~Refuses(JudgedAgainst(q), kv)
  /\ ask' = [ask EXCEPT ![q] = kv]
  /\ base' = [base EXCEPT ![q] = Len(log)]
  /\ pc' = [pc EXCEPT ![q] = "replace"]
  /\ UNCHANGED <<log, feed, served, seen, bounds>>

(* PGStore.Replace: the upserts and one signal, in one transaction.        *)
Replace(q) ==
  /\ pc[q] = "replace" /\ Len(log) < MaxCommits
  /\ log' = Append(log, Patched(table, ask[q]))
  /\ inbox' = [p \in Processes |-> IF live[p] THEN inbox[p] + 1 ELSE inbox[p]]
  /\ pc' = [pc EXCEPT ![q] = "load"]
  /\ UNCHANGED <<live, up, served, seen, request, bounds>>

FailReplace(q) ==
  /\ pc[q] = "replace" /\ drops + failures < MaxFaults
  /\ failures' = failures + 1
  /\ pc' = [pc EXCEPT ![q] = "idle"]
  /\ Forget(q)
  /\ UNCHANGED <<log, feed, served, drops>>

(* A connection dies, and with it the signals nobody has read.             *)
Drop(p) ==
  /\ live[p] /\ drops + failures < MaxFaults
  /\ drops' = drops + 1
  /\ live' = [live EXCEPT ![p] = FALSE]
  /\ inbox' = [inbox EXCEPT ![p] = 0]
  /\ UNCHANGED <<log, up, served, pc, seen, request, failures>>

(* A process dies and boots again: what its requests had begun is gone.    *)
Restart(p) ==
  /\ drops + failures < MaxFaults /\ Violated(table) = {}
  /\ drops' = drops + 1
  /\ live' = [live EXCEPT ![p] = FALSE]
  /\ inbox' = [inbox EXCEPT ![p] = 0]
  /\ up' = [up EXCEPT ![p] = FALSE]
  /\ snap' = [snap EXCEPT ![p] = Len(log)]
  /\ problems' = [problems EXCEPT ![p] = {}]
  /\ pc' = [x \in Workers |-> IF at(x) # p THEN pc[x]
                              ELSE IF x \in Requests THEN "idle" ELSE "down"]
  /\ seen' = [x \in Workers |-> IF at(x) # p THEN seen[x] ELSE 1]
  /\ ask' = [q \in Requests |-> IF Home[q] # p THEN ask[q] ELSE NoAsk]
  /\ base' = [q \in Requests |-> IF Home[q] # p THEN base[q] ELSE 1]
  /\ UNCHANGED <<log, failures>>

Refresh(x) == Load(x) \/ Swap(x) \/ Report(x)
Watch(p)   == Listen(p) \/ Wake(p) \/ Notice(p) \/ Refresh(p)

Next ==
  \/ \E p \in Watching : Watch(p)
  \/ \E p \in Processes : Drop(p) \/ Restart(p)
  \/ \E x \in Workers : FailLoad(x)
  \/ \E q \in Requests : Replace(q) \/ FailReplace(q) \/ Refresh(q) \/ \E kv \in Patches : Set(q, kv)

Spec == Init /\ [][Next]_vars

(* Run reconnects for as long as that takes, the scheduler runs it.        *)
FairSpec == Spec /\ \A p \in Watching : WF_vars(Watch(p))
------------------------------------------------------------------------------
(* A process that serves no console misses nothing, however connections    *)
(* die and writes fall between its LISTEN and its read: with nothing left  *)
(* to answer on a live subscription, it serves the last commit             *)
(* (pglisten: "Subscribe first, catch up second").                         *)
ListenerCurrent ==
  failures = 0 => \A p \in Listeners :
    pc[p] = "wait" /\ live[p] /\ inbox[p] = 0 => snap[p] = Len(log)

(* The problems such a process reports are those of the snapshot it serves *)
(* (Manager.problems), whenever no refresh is halfway, failed ones or not. *)
ProblemsDescribeSnapshot ==
  \A p \in Listeners : pc[p] \in {"wait", "down", "load", "swap"} =>
    problems[p] = Violated(log[snap[p]])

(* Set never stores "a value that would not survive a boot" unless another *)
(* write is committed between its verdict and its own commit.              *)
OnlyOverlapBreaks ==
  [][\A q \in Requests :
       pc[q] = "replace" /\ pc'[q] = "load" /\ base[q] = Len(log)
         => Violated(log'[Len(log')]) \subseteq Violated(table)]_vars

(* When the writes stop, every such process comes to serve the last one,   *)
(* if none of its statements fails: the pause switch reaches them all.     *)
ListenersConverge ==
  [](failures = 0) => \A p \in Listeners : <>[](snap[p] = Len(log))
=============================================================================
