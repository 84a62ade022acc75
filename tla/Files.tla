------------------------------- MODULE Files -------------------------------
(***************************************************************************)
(* Challenge files (files.Service over storage.Store): rows in the         *)
(* database, bytes in a content-addressed object store, no transaction     *)
(* over both.  With the rows go the operations that move them wholesale:   *)
(* the backup (exporter), its restore, and the foreign import.             *)
(*                                                                         *)
(* An object is its content address; a row is its location, the address    *)
(* and the name, with the challenge that owns it.  A request may die       *)
(* between any two of its steps.                                           *)
(***************************************************************************)
EXTENDS Naturals, FiniteSets, Functions

CONSTANTS
  Requests,
  Shas, Names, Challenges,
  Player,       \* a request that downloads is the player's or an admin's
  Imports,      \* what a foreign archive may carry: sets of rows
  MaxOps,       \* bound on the requests served
  MaxFailures   \* bound on store calls that fail

Rows == [sha : Shas, name : Names, ch : Challenges]

(* What is taken of the constants: who instantiates this assumes it.         *)
FileConstants ==
  /\ MaxOps \in Nat /\ MaxFailures \in Nat
  /\ \A i \in Imports : i \subseteq Rows /\ IsFiniteSet(i)

VARIABLES
  rows,      \* committed rows of files
  objects,   \* addresses the store holds
  existing,  \* the challenges there are
  hidden,    \* those in state hidden
  unsolved,  \* those whose prerequisites the player has not solved
  backups,   \* finished backup archives: rows and objects
  pc, mine,  \* mine[r]: what the request holds (a row, or the rows of a snapshot)
  got,       \* got[r]: objects a backup has read or a restore put; the addresses still named when a delete committed
  answer,    \* answer[r]: of its last request
  excused,   \* ghost: addresses swept while something relied on them, or imported
  ops, failures

data == <<rows, objects, existing, hidden, unsolved, backups>>
mem  == <<pc, mine, got, answer>>
vars == <<data, mem, excused, ops, failures>>

ShasOf(rs) == {row.sha : row \in rs}
Located(rs, row) == {x \in rs : x.sha = row.sha /\ x.name = row.name}
Deleting(q) == pc[q] = "counted"
Idle(r) == pc[r] = "idle"

Labels == {"idle", "stat", "put", "insert", "dedupe", "counted", "sweep", "content", "export", "blobs",
           "load"}

TypeOK ==
  /\ rows \subseteq Rows /\ objects \subseteq Shas
  /\ existing \subseteq Challenges /\ hidden \subseteq Challenges /\ unsolved \subseteq Challenges
  /\ backups \subseteq [rows : SUBSET Rows, objects : SUBSET Shas]
  /\ pc \in [Requests -> Labels]
  /\ mine \in [Requests -> SUBSET Rows] /\ got \in [Requests -> SUBSET Shas]
  /\ excused \subseteq Shas

Init ==
  /\ rows = {} /\ objects = {} /\ existing = Challenges /\ backups = {}
  /\ hidden \in SUBSET Challenges /\ unsolved \in SUBSET Challenges
  /\ pc = [r \in Requests |-> "idle"] /\ mine = [r \in Requests |-> {}]
  /\ got = [r \in Requests |-> {}] /\ answer = [r \in Requests |-> "none"]
  /\ excused = {} /\ ops = 0 /\ failures = 0

At(r, label) == pc' = [pc EXCEPT ![r] = label]
Answered(r, a) ==
  /\ pc' = [pc EXCEPT ![r] = "idle"] /\ mine' = [mine EXCEPT ![r] = {}]
  /\ got' = [got EXCEPT ![r] = {}] /\ answer' = [answer EXCEPT ![r] = a]
Arrives(r) == Idle(r) /\ ops < MaxOps /\ ops' = ops + 1
Fails == failures < MaxFailures /\ failures' = failures + 1

-----------------------------------------------------------------------------
(* The object store.                                                       *)

Stat(sha) == sha \in objects
Put(sha) == objects' = objects \cup {sha}
RemoveObject(sha) == objects' = objects \ {sha}

-----------------------------------------------------------------------------
(* Upload: the challenge is checked, the object stored, the row inserted.  *)

Upload(r) ==
  /\ Arrives(r)
  /\ \E row \in Rows :
       IF row.ch \in existing
         THEN At(r, "stat") /\ mine' = [mine EXCEPT ![r] = {row}] /\ UNCHANGED <<got, answer>>
         ELSE Answered(r, "404")
  /\ UNCHANGED <<data, excused, failures>>

Held(r) == CHOOSE row \in mine[r] : TRUE

\* Put skips the upload of an address the store already has.
PutStat(r) ==
  /\ pc[r] = "stat"
  /\ At(r, IF Stat(Held(r).sha) THEN "insert" ELSE "put")
  /\ UNCHANGED <<data, mine, got, answer, excused, ops, failures>>

PutObject(r) ==
  /\ pc[r] = "put"
  /\ \/ Put(Held(r).sha) /\ At(r, "insert") /\ UNCHANGED <<mine, got, answer, failures>>
     \/ Fails /\ Answered(r, "500") /\ UNCHANGED objects
  /\ UNCHANGED <<rows, existing, hidden, unsolved, backups, excused, ops>>

\* ON CONFLICT (location) DO NOTHING: it waits for a delete of that row to commit.
AdminInsertFile(r) ==
  LET row == Held(r) IN
  /\ pc[r] = "insert"
  /\ \A q \in Requests : Deleting(q) => Located(mine[q], row) = {}
  /\ CASE row.ch \notin existing -> Answered(r, "404") /\ UNCHANGED rows
       [] row.ch \in existing /\ Located(rows, row) = {} -> Answered(r, "201") /\ rows' = rows \cup {row}
       [] OTHER -> At(r, "dedupe") /\ UNCHANGED <<rows, mine, got, answer>>
  /\ UNCHANGED <<objects, existing, hidden, unsolved, backups, excused, ops, failures>>

GetFileByLocation(r) ==
  /\ pc[r] = "dedupe"
  /\ LET there == Located(rows, Held(r)) IN
       Answered(r, IF there = {} THEN "500" ELSE IF there = mine[r] THEN "201" ELSE "another's")
  /\ UNCHANGED <<data, excused, ops, failures>>

-----------------------------------------------------------------------------
(* Delete: the row, then the object if no other row points at it.          *)

Delete(r) ==
  /\ Arrives(r)
  /\ \E row \in Rows :
       /\ \A q \in Requests : Deleting(q) => row \notin mine[q]
       /\ IF row \in rows
            THEN At(r, "counted") /\ mine' = [mine EXCEPT ![r] = {row}] /\ UNCHANGED <<got, answer>>
            ELSE Answered(r, "404")
  /\ UNCHANGED <<data, excused, failures>>

\* Slip: the object goes with any row that points at it.
CountFilesByNobody(r) == 0

\* What the deleting transaction counts: the deletes of others are not its to see.
CountFilesBySha(r) == Cardinality({row \in rows \ mine[r] : row.sha = Held(r).sha})

CommitDelete(r) ==
  /\ pc[r] = "counted"
  /\ rows' = rows \ mine[r]
  /\ IF CountFilesBySha(r) = 0
       THEN At(r, "sweep") /\ got' = [got EXCEPT ![r] = ShasOf(rows')] /\ UNCHANGED <<mine, answer>>
       ELSE Answered(r, "204")
  /\ UNCHANGED <<objects, existing, hidden, unsolved, backups, excused, ops, failures>>

Relied(sha, then) ==
  \/ sha \in ShasOf(rows) \ then
  \/ \E q \in Requests : pc[q] \in {"insert", "dedupe", "load"} /\ sha \in ShasOf(mine[q])
  \/ \E q \in Requests : pc[q] = "blobs" /\ sha \in got[q]

StoreDelete(r) ==
  /\ pc[r] = "sweep"
  /\ \/ /\ RemoveObject(Held(r).sha) /\ UNCHANGED failures
        /\ excused' = IF Relied(Held(r).sha, got[r]) THEN excused \cup {Held(r).sha} ELSE excused
     \/ Fails /\ UNCHANGED <<objects, excused>>
  /\ Answered(r, "204")
  /\ UNCHANGED <<rows, existing, hidden, unsolved, backups, ops>>

-----------------------------------------------------------------------------
(* Download: what the row says is judged once, then the object is opened.  *)

GetChallengeFileForDownload(r) ==
  /\ Arrives(r)
  /\ \E row \in Rows :
       IF row \in rows /\ (r = Player => row.ch \notin hidden \cup unsolved)
         THEN At(r, "content") /\ mine' = [mine EXCEPT ![r] = {row}] /\ UNCHANGED <<got, answer>>
         ELSE Answered(r, "404")
  /\ UNCHANGED <<data, excused, failures>>

Content(r) ==
  /\ pc[r] = "content"
  /\ Answered(r, IF Stat(Held(r).sha) THEN "bytes" ELSE "missing")
  /\ UNCHANGED <<data, excused, ops, failures>>

-----------------------------------------------------------------------------
(* Backup: the rows in one snapshot, then the objects they name, outside   *)
(* it.  Restore: the objects first, then the rows in one transaction.      *)

Export(r) ==
  /\ Arrives(r) /\ At(r, "export") /\ mine' = [mine EXCEPT ![r] = rows]
  /\ UNCHANGED <<data, got, answer, excused, failures>>

WriteUploads(r) ==
  /\ pc[r] = "export"
  /\ IF ShasOf(mine[r]) = got[r]
       THEN /\ Answered(r, "archived")
            /\ backups' = backups \cup {[rows |-> mine[r], objects |-> got[r]]}
       ELSE \E sha \in ShasOf(mine[r]) \ got[r] :
              /\ IF Stat(sha) THEN got' = [got EXCEPT ![r] = @ \cup {sha}] /\ UNCHANGED <<pc, mine, answer>>
                              ELSE Answered(r, "no archive")
              /\ UNCHANGED backups
  /\ UNCHANGED <<rows, objects, existing, hidden, unsolved, excused, ops, failures>>

\* The archive in hand is its rows; got counts the objects already put.
Restore(r) ==
  /\ Arrives(r)
  /\ \E b \in backups : mine' = [mine EXCEPT ![r] = b.rows] /\ At(r, "blobs")
  /\ UNCHANGED <<data, got, answer, excused, failures>>

Carried(r) == UNION {b.objects : b \in {x \in backups : x.rows = mine[r]}}

RestoreUploads(r) ==
  /\ pc[r] = "blobs"
  /\ IF Carried(r) = got[r] THEN At(r, "load") /\ UNCHANGED <<objects, got>>
       ELSE \E sha \in Carried(r) \ got[r] : Put(sha) /\ got' = [got EXCEPT ![r] = @ \cup {sha}] /\ UNCHANGED pc
  /\ UNCHANGED <<rows, existing, hidden, unsolved, backups, mine, answer, excused, ops, failures>>

\* TRUNCATE waits for every open transaction.
RestoreTables(r) ==
  /\ pc[r] = "load" /\ \A q \in Requests : ~Deleting(q)
  /\ rows' = mine[r] /\ existing' = existing \cup {row.ch : row \in mine[r]}
  /\ Answered(r, "restored")
  /\ UNCHANGED <<objects, hidden, unsolved, backups, excused, ops, failures>>

\* A foreign archive's file rows are loaded; its uploads are read and hashed and go nowhere.
Import(r) ==
  /\ Arrives(r) /\ \A q \in Requests : ~Deleting(q)
  /\ \E i \in Imports : rows' = i /\ existing' = {row.ch : row \in i}
  /\ excused' = excused \cup ShasOf(rows')
  /\ Answered(r, "imported")
  /\ UNCHANGED <<objects, hidden, unsolved, backups, failures>>

-----------------------------------------------------------------------------
\* ON DELETE CASCADE takes the rows, and nobody sweeps their objects.
DeleteChallenge(c) ==
  /\ c \in existing /\ ops < MaxOps /\ ops' = ops + 1
  /\ \A q \in Requests : Deleting(q) => Held(q).ch # c
  /\ existing' = existing \ {c} /\ rows' = {row \in rows : row.ch # c}
  /\ UNCHANGED <<objects, hidden, unsolved, backups, mem, excused, failures>>

Crash(r) ==
  /\ ~Idle(r) /\ Answered(r, "none")
  /\ UNCHANGED <<data, excused, ops, failures>>

Next ==
  \/ \E r \in Requests :
       \/ Upload(r) \/ PutStat(r) \/ PutObject(r) \/ AdminInsertFile(r) \/ GetFileByLocation(r)
       \/ Delete(r) \/ CommitDelete(r) \/ StoreDelete(r)
       \/ GetChallengeFileForDownload(r) \/ Content(r)
       \/ Export(r) \/ WriteUploads(r)
       \/ Restore(r) \/ RestoreUploads(r) \/ RestoreTables(r) \/ Import(r)
       \/ Crash(r)
  \/ \E c \in Challenges : DeleteChallenge(c)
Spec == Init /\ [][Next]_vars

-----------------------------------------------------------------------------
(* A committed row has its bytes unless an import brought it or a delete   *)
(* swept the object under an upload that had already relied on it: no      *)
(* crash, failure, duplicate or restore of a backup loses them (Upload,    *)
(* Delete, writeUploads).                                                  *)
OnlyOverlapLosesBytes == ShasOf(rows) \ objects \subseteq excused

-----------------------------------------------------------------------------
(* Why: whoever will name an address has seen its object there, and nobody *)
(* sweeps an address that was still named when its row went.               *)
Kept == objects \cup excused

OneRow == \A r \in Requests :
  /\ Idle(r) => got[r] = {}
  /\ pc[r] \in {"stat", "put", "insert", "dedupe", "counted", "sweep", "content"} =>
       \E row \in Rows : mine[r] = {row}

Backed == \A r \in Requests :
  /\ pc[r] \in {"insert", "dedupe", "load"} => ShasOf(mine[r]) \subseteq Kept
  /\ pc[r] = "blobs" => got[r] \subseteq Kept /\ \E b \in backups : b.rows = mine[r]

Unnamed == \A r \in Requests : pc[r] = "sweep" => Held(r).sha \notin got[r]

Whole == \A b \in backups : b.objects = ShasOf(b.rows)

Finite ==
  /\ IsFiniteSet(rows)
  /\ \A b \in backups : IsFiniteSet(b.rows)
  /\ \A r \in Requests : IsFiniteSet(mine[r])

Inv == OneRow /\ Backed /\ Unnamed /\ Whole /\ Finite /\ OnlyOverlapLosesBytes
=============================================================================
