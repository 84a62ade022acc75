------------------------------- MODULE Console -------------------------------
(***************************************************************************)
(* The authoring console: operators' transactions on challenges, flags and *)
(* prerequisites, statement by statement (internal/adminops/challenges.go, *)
(* requirements.go), beside the players they are about: who is issued a    *)
(* flag, who submits one, and whom the unissued-solve detector names       *)
(* (internal/anticheat).  Postgres runs them READ COMMITTED: a statement   *)
(* sees what others have committed, and a guard that was read is not held. *)
(*                                                                         *)
(* A transaction is one read after another and then one write, committed   *)
(* with it; only a change of prerequisites reads again after its write.    *)
(***************************************************************************)
EXTENDS Naturals, FiniteSets

CONSTANTS
  Operators,   \* requests of operators in flight
  Accounts,    \* accounts that play, one submission of each in flight
  Challenges,
  Flags,       \* ids of flags, each used once
  None

ChallengeRows == [mode : {"static", "unique"}, logic : {"any", "all"}, needs : SUBSET Challenges]

(* What is taken of the constants: who instantiates this assumes it.         *)
ActorsAreApart ==
  /\ None \notin Operators \cup Accounts /\ Operators \cap Accounts = {}
  /\ None \notin ChallengeRows

VARIABLES
  rows,     \* rows[c]: the challenge's mode, logic and prerequisites, or None
  flags,    \* flags[f]: its challenge, type, and whether it compiles; None, or Gone
  issues,   \* who was issued an instance of what
  solves,   \* who solved what, and how they came by the flag
  draft,    \* draft[c]: who holds c's row with a write not committed, or None
  op,       \* op[r]: what an operator's request asks for, or None
  saw,      \* saw[r]: what its transaction has read
  pc,       \* pc[r]: the statement it is at
  flag,     \* flag[a]: the right flag a submission has brought, or None
  overtaken \* transactions in flight that another has committed beside

console == <<rows, flags, draft>>
play    == <<issues, solves, flag>>
vars    == <<rows, flags, issues, solves, draft, op, saw, pc, flag, overtaken>>

-----------------------------------------------------------------------------
Exists(c)      == rows[c] # None
Gone           == [ch |-> None, type |-> "static", compiles |-> TRUE]
Live(f)        == flags[f] \notin {None, Gone}
FlagsOf(c)     == {f \in Flags : Live(f) /\ flags[f].ch = c}
Solvers(c)     == {s.acct : s \in {t \in solves : t.ch = c}}

(* A challenge nothing of which is refused to an author working alone.     *)
Fit(c) ==
  /\ \A f \in FlagsOf(c) : flags[f].type = "regex" => flags[f].compiles /\ rows[c].mode = "static"
  /\ ~(rows[c].mode = "unique" /\ rows[c].logic = "all")

(* The graph prerequisites make: whether following them from c returns     *)
(* there. A prerequisite that is gone leads nowhere.                       *)
OnCycle(edges, c) ==
  LET beyond[i \in 0..Cardinality(Challenges)] ==
        IF i = 0 THEN edges[c]
        ELSE beyond[i - 1] \cup UNION {edges[d] : d \in beyond[i - 1]}
  IN c \in beyond[Cardinality(Challenges)]
Edges == [c \in Challenges |-> IF Exists(c) THEN rows[c].needs ELSE {}]

(* FindUnissuedSolves: solves of unique challenges by accounts that were   *)
(* never issued an instance.                                               *)
UnissuedSolves == {s \in solves : rows[s.ch].mode = "unique" /\ <<s.acct, s.ch>> \notin issues}
Innocent(s)    == s.how # "another's"
Accused        == {s \in UnissuedSolves : Innocent(s)}

-----------------------------------------------------------------------------
(* What operators ask for. A patch that leaves a column alone carries None.*)
Ops ==
  [kind : {"logic"}, ch : Challenges, to : {"any", "all"}]
  \cup [kind : {"mode"}, ch : Challenges, to : {"static", "unique"}]
  \cup [kind : {"add"}, ch : Challenges, type : {"static", "regex"}, compiles : BOOLEAN]
  \cup [kind : {"update"}, ch : Challenges, flag : Flags, type : {None, "static", "regex"},
        compiles : {None, TRUE, FALSE}]
  \cup [kind : {"needs"}, ch : Challenges, ids : SUBSET Challenges]

Init ==
  /\ rows = [c \in Challenges |-> [mode |-> "static", logic |-> "any", needs |-> {}]]
  /\ flags \in [Flags -> {None} \cup [ch : Challenges, type : {"static"}, compiles : {TRUE}]]
  /\ issues = {} /\ solves = {}
  /\ draft = [c \in Challenges |-> None]
  /\ op = [r \in Operators |-> None] /\ saw = [r \in Operators |-> None]
  /\ pc = [r \in Operators |-> "idle"]
  /\ flag = [a \in Accounts |-> None]
  /\ overtaken = {}

InFlight == {r \in Operators : pc[r] # "idle"} \cup {a \in Accounts : flag[a] # None}
Overtake(x) == overtaken' = (overtaken \cup InFlight) \ {x}

(* The end of a transaction, committed (Done) or refused (Refuse).          *)
Close(r) ==
  /\ pc' = [pc EXCEPT ![r] = "idle"] /\ op' = [op EXCEPT ![r] = None]
  /\ saw' = [saw EXCEPT ![r] = None]
Done(r)   == Close(r) /\ Overtake(r)
Refuse(r) == Close(r) /\ overtaken' = overtaken \ {r} /\ UNCHANGED console
Goto(r, at, seen) ==
  /\ pc' = [pc EXCEPT ![r] = at] /\ saw' = [saw EXCEPT ![r] = seen]
  /\ UNCHANGED <<op, overtaken, console>>

Begin(r, o) ==
  /\ pc[r] = "idle"
  /\ o.kind = "needs" => o.ch \notin o.ids
  /\ op' = [op EXCEPT ![r] = o]
  /\ pc' = [pc EXCEPT ![r] = CASE o.kind = "needs" -> "filter"
                               [] o.kind = "logic" /\ o.to = "any" -> "write"
                               [] OTHER -> "get"]
  /\ UNCHANGED <<saw, overtaken, console, play>>

(* validateFlag                                                             *)
ValidFlag(mode, type, compiles) == type = "regex" => mode # "unique" /\ compiles

(* AdminGetChallenge, with the guard that follows where it is the only one.*)
Get(r) ==
  /\ pc[r] = "get"
  /\ LET o == op[r]
         row == rows[o.ch]
     IN IF \/ ~Exists(o.ch)
           \/ o.kind = "logic" /\ row.mode = "unique"
           \/ o.kind = "mode" /\ row.mode = o.to
           \/ o.kind = "add" /\ ~ValidFlag(row.mode, o.type, o.compiles)
          THEN Refuse(r)
          ELSE Goto(r, CASE o.kind = "mode" -> "count" [] o.kind = "update" -> "getFlag"
                         [] OTHER -> "write", row)
  /\ UNCHANGED play

(* Slip: a patch is judged by itself, not with the columns it keeps.       *)
PatchAlone(cur, o) == [ch |-> cur.ch, type |-> IF o.type = None THEN "static" ELSE o.type,
                       compiles |-> IF o.compiles = None THEN TRUE ELSE o.compiles]

(* UpdateFlag: the row as it will be after the patch.                       *)
Patched(cur, o) == [ch |-> cur.ch, type |-> IF o.type = None THEN cur.type ELSE o.type,
                    compiles |-> IF o.compiles = None THEN cur.compiles ELSE o.compiles]
Judged(cur, o) == Patched(cur, o)

GetFlag(r) ==
  /\ pc[r] = "getFlag"
  /\ LET o == op[r]
         after == Judged(flags[o.flag], o)
     IN IF o.flag \notin FlagsOf(o.ch) \/ ~ValidFlag(saw[r].mode, after.type, after.compiles)
          THEN Refuse(r) ELSE Goto(r, "write", saw[r])
  /\ UNCHANGED play

(* Slip: solves are not counted before the mode is switched.               *)
CountNobody(r) == pc[r] = "count" /\ Goto(r, "stats", saw[r]) /\ UNCHANGED play

(* AdminCountChallengeSolves                                                *)
CountSolves(r) ==
  /\ pc[r] = "count"
  /\ IF Solvers(op[r].ch) # {} THEN Refuse(r) ELSE Goto(r, "stats", saw[r])
  /\ UNCHANGED play

(* AdminChallengeFlagStats, and the guards of SetChallengeFlagMode on them.*)
FlagStats(r) ==
  /\ pc[r] = "stats"
  /\ LET those == FlagsOf(op[r].ch) IN
     IF IF op[r].to = "unique" THEN saw[r].logic = "all" \/ \E f \in those : flags[f].type = "regex"
                               ELSE those = {}
       THEN Refuse(r) ELSE Goto(r, "write", saw[r])
  /\ UNCHANGED play

(* The writes. One of the row waits while another holds it, and whatever   *)
(* is gone by then is "not found". An insert of a flag refers to the row   *)
(* and does not wait for one that changes it. Unset columns keep what is   *)
(* stored, not what was read.                                              *)
Missing(r) == ~Exists(op[r].ch) \/ (op[r].kind = "update" /\ op[r].flag \notin FlagsOf(op[r].ch))
NotFound(r) == pc[r] = "write" /\ Missing(r) /\ Refuse(r) /\ UNCHANGED play

Writes(r, kind) ==
  pc[r] = "write" /\ op[r].kind = kind /\ ~Missing(r) /\ Done(r) /\ UNCHANGED <<draft, play>>

WriteLogic(r) ==
  /\ Writes(r, "logic") /\ draft[op[r].ch] = None
  /\ rows' = [rows EXCEPT ![op[r].ch].logic = op[r].to] /\ UNCHANGED flags

WriteMode(r) ==
  /\ Writes(r, "mode") /\ draft[op[r].ch] = None
  /\ rows' = [rows EXCEPT ![op[r].ch].mode = op[r].to] /\ UNCHANGED flags

InsertFlag(r) ==
  /\ Writes(r, "add")
  /\ \E f \in Flags :
       /\ flags[f] = None
       /\ flags' = [flags EXCEPT ![f] = [ch |-> op[r].ch, type |-> op[r].type, compiles |-> op[r].compiles]]
  /\ UNCHANGED rows

WriteFlag(r) ==
  /\ Writes(r, "update")
  /\ flags' = [flags EXCEPT ![op[r].flag] = Patched(@, op[r])] /\ UNCHANGED rows

-----------------------------------------------------------------------------
(* SetChallengeRequirements: the ids exist (one statement), the row is     *)
(* written and held, the graph is read with that write in it, and then the *)
(* transaction commits with what the graph told it.                        *)
FilterIds(r) ==
  /\ pc[r] = "filter"
  /\ IF \E d \in op[r].ids : ~Exists(d) THEN Refuse(r) ELSE Goto(r, "hold", None)
  /\ UNCHANGED play

WriteNeeds(r) ==
  LET c == op[r].ch IN
  /\ pc[r] = "hold" /\ draft[c] = None
  /\ \/ ~Exists(c) /\ Refuse(r)
     \/ /\ Exists(c) /\ draft' = [draft EXCEPT ![c] = r]
        /\ pc' = [pc EXCEPT ![r] = "graph"]
        /\ UNCHANGED <<rows, flags, op, saw, overtaken>>
  /\ UNCHANGED play

(* Slip: the cycle is looked for in the graph as it was before the write.  *)
GraphBefore(r) == Edges

GraphSeen(r) == [Edges EXCEPT ![op[r].ch] = op[r].ids]

(* cycleWarnings: whether the challenge just written is on a cycle.         *)
ReadGraph(r) ==
  /\ pc[r] = "graph"
  /\ Goto(r, "commit", OnCycle(GraphSeen(r), op[r].ch))
  /\ UNCHANGED play

CommitNeeds(r) ==
  LET c == op[r].ch IN
  /\ pc[r] = "commit"
  /\ rows' = [rows EXCEPT ![c].needs = op[r].ids]
  /\ draft' = [draft EXCEPT ![c] = None]
  /\ Done(r) /\ UNCHANGED <<flags, play>>

Step(r) == \/ Get(r) \/ GetFlag(r) \/ CountSolves(r) \/ FlagStats(r)
           \/ NotFound(r) \/ WriteLogic(r) \/ WriteMode(r) \/ InsertFlag(r) \/ WriteFlag(r)
           \/ FilterIds(r) \/ WriteNeeds(r) \/ ReadGraph(r) \/ CommitNeeds(r)

-----------------------------------------------------------------------------
(* Operations of one statement. A challenge nobody has touched is deleted, *)
(* flags and all; a prerequisite others name goes without a word.           *)
DeleteChallenge(c) ==
  /\ Exists(c) /\ draft[c] = None
  /\ Solvers(c) = {} /\ \A a \in Accounts : <<a, c>> \notin issues
  /\ rows' = [rows EXCEPT ![c] = None]
  /\ flags' = [f \in Flags |-> IF f \in FlagsOf(c) THEN Gone ELSE flags[f]]
  /\ Overtake(None) /\ UNCHANGED <<draft, op, saw, pc, play>>

DeleteFlag(f) ==
  /\ Live(f) /\ flags' = [flags EXCEPT ![f] = Gone]
  /\ Overtake(None) /\ UNCHANGED <<rows, draft, op, saw, pc, play>>

-----------------------------------------------------------------------------
(* A view of a unique challenge issues the viewer an instance, once.        *)
View(a, c) ==
  /\ Exists(c) /\ rows[c].mode = "unique"
  /\ issues' = issues \cup {<<a, c>>}
  /\ UNCHANGED <<console, solves, flag, op, saw, pc, overtaken>>

(* The flags of a challenge all compile and there is one (checkStatic), or *)
(* there are instances issued, one's own and others' (checkUnique).        *)
Brings(a, c) ==
  IF rows[c].mode = "static"
    THEN IF FlagsOf(c) # {} /\ \A f \in FlagsOf(c) : flags[f].type = "regex" => flags[f].compiles
           THEN {"everybody's"} ELSE {}
    ELSE {IF i[1] = a THEN "own" ELSE "another's" : i \in {j \in issues : j[2] = c}}

(* Submit: the challenge and its flags are read and compared...            *)
Check(a, c) ==
  /\ flag[a] = None /\ Exists(c)
  /\ \E how \in Brings(a, c) : flag' = [flag EXCEPT ![a] = [acct |-> a, ch |-> c, how |-> how]]
  /\ UNCHANGED <<console, issues, solves, op, saw, pc, overtaken>>

(* ...and the solve is written with the row locked, if it is still there.  *)
Land(a) ==
  /\ flag[a] # None
  /\ \/ ~Exists(flag[a].ch) /\ UNCHANGED solves /\ overtaken' = overtaken \ {a}
     \/ /\ Exists(flag[a].ch) /\ draft[flag[a].ch] = None
        /\ solves' = IF a \in Solvers(flag[a].ch) THEN solves ELSE solves \cup {flag[a]}
        /\ Overtake(a)
  /\ flag' = [flag EXCEPT ![a] = None]
  /\ UNCHANGED <<console, issues, op, saw, pc>>

Play(a, c) == View(a, c) \/ Check(a, c)

Next ==
  \/ \E r \in Operators : Step(r) \/ \E o \in Ops : Begin(r, o)
  \/ \E c \in Challenges : DeleteChallenge(c)
  \/ \E f \in Flags : DeleteFlag(f)
  \/ \E a \in Accounts : Land(a) \/ \E c \in Challenges : Play(a, c)

Spec == Init /\ [][Next]_vars

-----------------------------------------------------------------------------
Labels == {"idle", "get", "getFlag", "count", "stats", "write", "filter", "hold", "graph", "commit"}
Right == [acct : Accounts, ch : Challenges, how : {"everybody's", "own", "another's"}]

TypeOK ==
  /\ rows \in [Challenges -> {None} \cup ChallengeRows]
  /\ flags \in [Flags -> {None, Gone} \cup [ch : Challenges, type : {"static", "regex"},
                                                 compiles : BOOLEAN]]
  /\ issues \subseteq Accounts \X Challenges /\ solves \subseteq Right
  /\ draft \in [Challenges -> Operators \cup {None}]
  /\ op \in [Operators -> Ops \cup {None}] /\ pc \in [Operators -> Labels]
  /\ saw = [r \in Operators |-> saw[r]]
  /\ flag \in [Accounts -> Right \cup {None}]
  /\ overtaken \subseteq InFlight

(* The guards of the console hold for every author working alone: it takes *)
(* two transactions beside each other to leave a challenge with a pattern  *)
(* nobody can be issued, one that does not compile, or a logic no          *)
(* submission consults (validateFlag, UpdateChallenge, SetChallengeFlagMode).*)
MisfitStep ==
  \A c \in Challenges :
    Exists(c) /\ Fit(c) /\ (Exists(c) /\ ~Fit(c))' =>
      \E r \in overtaken \cap Operators : pc[r] = "write" /\ pc'[r] = "idle"

(* "no false positive by construction": the detector names somebody who    *)
(* used a flag of their own only if a switch of the mode and a submission  *)
(* met (SetChallengeFlagMode counts solves and then writes, Submit reads   *)
(* the mode and then writes).                                              *)
AccuseStep ==
  \A s \in Accused' \ Accused :
    IF s \in solves THEN \E r \in overtaken \cap Operators : pc[r] = "write" /\ pc'[r] = "idle"
                    ELSE s.acct \in overtaken

(* Whoever closes a cycle of prerequisites is told, unless another change  *)
(* was committed beside theirs (cycleWarnings).                            *)
CycleStep ==
  \A r \in Operators :
    pc[r] = "commit" /\ pc'[r] = "idle" /\ r \notin overtaken =>
      (OnCycle(Edges', op[r].ch) => saw[r])

-----------------------------------------------------------------------------
(* Why: a transaction that nothing was committed beside writes in the      *)
(* state it judged, and so does a submission.                              *)
Tasked == \A r \in Operators : pc[r] # "idle" =>
  /\ op[r] \in Ops
  /\ pc[r] \in {"count", "stats"} => op[r].kind = "mode"
  /\ pc[r] = "getFlag" => op[r].kind = "update"
  /\ pc[r] \in {"filter", "hold", "graph", "commit"} => op[r].kind = "needs"
  /\ pc[r] \in {"get", "write"} => op[r].kind # "needs"

Stands(r) ==
  LET o == op[r]
      row == rows[o.ch]
      Writing(kind) == pc[r] = "write" /\ o.kind = kind
  IN /\ pc[r] \in {"getFlag", "count", "stats"} => Exists(o.ch) /\ saw[r] = row
     /\ pc[r] = "stats" \/ Writing("mode") => Solvers(o.ch) = {}
     /\ Writing("logic") /\ o.to = "all" => row.mode # "unique"
     /\ Writing("mode") /\ o.to = "unique" =>
          row.logic # "all" /\ \A f \in FlagsOf(o.ch) : flags[f].type # "regex"
     /\ Writing("add") => ValidFlag(row.mode, o.type, o.compiles)
     /\ Writing("update") => LET after == Patched(flags[o.flag], o)
                             IN ValidFlag(row.mode, after.type, after.compiles)
     /\ pc[r] = "commit" => saw[r] = OnCycle(GraphSeen(r), o.ch)

Undisturbed == \A r \in Operators : pc[r] # "idle" /\ r \notin overtaken => Stands(r)

Held == \A r \in Operators :
  pc[r] \in {"graph", "commit"} => draft[op[r].ch] = r /\ Exists(op[r].ch)

SolvesExist == \A s \in solves : Exists(s.ch)

Brought == \A a \in Accounts : flag[a] # None =>
  /\ flag[a].acct = a
  /\ a \notin overtaken /\ Exists(flag[a].ch) =>
       \/ rows[flag[a].ch].mode = "static" \/ flag[a].how = "another's"
       \/ <<a, flag[a].ch>> \in issues

Inv == Tasked /\ Undisturbed /\ Held /\ SolvesExist /\ Brought
=============================================================================
