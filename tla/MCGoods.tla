------------------------------ MODULE MCGoods ------------------------------
(* What an account is handed, for TLC: hints for points, and files. The two *)
(* share no table, so a behaviour is about one of them, and the variables   *)
(* of the other keep a value nothing is said about.                         *)
(* Of the hints h1 and h2 stand alone, h3 is behind h1.                     *)
EXTENDS HintUnlock

LOCAL INSTANCE TLC

CONSTANTS h1, h2, h3

Prices   == [h \in Hints |-> IF h = h2 THEN 2 ELSE 1]
Edited   == [h \in Hints |-> IF h = h2 THEN 1 ELSE 2]
Chain    == [h \in Hints |-> IF h = h3 THEN {h1} ELSE {}]
Values   == [w \in Awards |-> 2]
Symmetry == Permutations(Requests)

CONSTANTS Transfers, Player, Shas, Names, Challenges, Imports, MaxOps, MaxFailures   \* of Files

VARIABLES
  focus,   \* which of the two a behaviour is about
  step, rows, objects, existing, hidden, unsolved, backups, mine, got, answer, excused, ops, failures

files == <<step, rows, objects, existing, hidden, unsolved, backups, mine, got, answer, excused, ops, failures>>

F == INSTANCE Files WITH Requests <- Transfers, pc <- step

OneRowEach == {{row} : row \in [sha : Shas, name : Names, ch : Challenges]}

ASSUME StoreConstants == F!FileConstants

NoFiles == /\ step = None /\ rows = None /\ objects = None /\ existing = None /\ hidden = None
           /\ unsolved = None /\ backups = None /\ mine = None /\ got = None /\ answer = None
           /\ excused = None /\ ops = None /\ failures = None
NoRequest == open = {} /\ \A r \in Requests : req[r].hint = h1

GoodsInit == Init /\ \/ focus = "hints" /\ NoFiles
                     \/ focus = "files" /\ F!Init /\ NoRequest
Purchase == focus = "hints" /\ Next /\ UNCHANGED <<focus, files>>
FileStore == focus = "files" /\ F!Next /\ UNCHANGED <<focus, vars>>
GoodsSpec == GoodsInit /\ [][Purchase \/ FileStore]_<<focus, vars, files>>

(* A committed file has its bytes, unless its upload or its import         *)
(* overlapped a deletion of the same bytes.                                *)
OnlyOverlapLosesBytes == focus = "files" => F!OnlyOverlapLosesBytes
=============================================================================
