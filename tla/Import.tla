------------------------------- MODULE Import -------------------------------
(* The archive importer: importer.Translate, which maps a CTFd archive onto *)
(* the schema or refuses it, and Load, which copies the plan with foreign   *)
(* keys off, counts what dangles and commits all of it or nothing.          *)
(* An archive is a record of sets of rows; a row's nullable column is None. *)
EXTENDS Integers, FiniteSets, FiniteSetsExt

CONSTANT None

CD == INSTANCE Decay

Row(rows, id) == CHOOSE x \in rows : x.id = id
Ids(rows) == {x.id : x \in rows}
FirstNonNil(a, b) == IF a # None THEN a ELSE b

Refused(why) == [ok |-> FALSE, why |-> why, rows |-> {}]
Mapped(rows) == [ok |-> TRUE, why |-> "", rows |-> rows]
RefuseIf(cond, why, rows) == IF cond THEN Refused(why) ELSE Mapped(rows)

(* The rows as the archive's tables type them, as far as they are looked   *)
(* up, added or compared.                                                  *)
Nullable(S) == S \cup {None}
IsArchive(a) ==
  /\ \A c \in a.challenges \cup a.dynamics :
       \A f \in {"value", "initial", "minimum", "decay"} : c[f] \in Nullable(Int)
  /\ a.solves \subseteq [id : Int, user : Nullable(Int), team : Nullable(Int), ch : Int]
  /\ a.awards \subseteq [id : Int, user : Nullable(Int), team : Nullable(Int), value : Int]
  /\ IsFiniteSet(a.solves) /\ IsFiniteSet(a.awards) /\ IsFiniteSet(a.submissions)

-----------------------------------------------------------------------------
(* One operator per stage of Translate *)

(* The last writer of a key wins, by id; a key without a value is carried, *)
(* not validated. Modes stands for account.ParseMode; what config.Build    *)
(* says of the other keys is the archive's `boots`.                        *)
Modes == {"users", "teams"}
Winners(rows) == {x \in rows : \A y \in rows : y.key = x.key => y.id <= x.id}
ModeKeys(a) == {x \in Winners(a.config) : x.key = "user_mode" /\ x.val \notin {None, ""}}
UserMode(a) == IF ModeKeys(a) = {} THEN "users" ELSE (CHOOSE x \in ModeKeys(a) : TRUE).val

TranslateConfig(a) ==
  RefuseIf(UserMode(a) \notin Modes \/ ~a.boots, "config",
           {[key |-> x.key, val |-> x.val] : x \in Winners(a.config)})

TranslateBrackets(a) ==
  RefuseIf(\E b \in a.brackets : b.type \notin Modes, "bracket", a.brackets)

(* A team without a join secret comes locked: a hash nothing verifies with.*)
JoinSecretHash(t) == IF t.password = None THEN "locked" ELSE t.password
TranslateTeams(a) == Mapped({[t EXCEPT !.password = JoinSecretHash(t)] : t \in a.teams})

TranslateUsers(a) ==
  RefuseIf(\E u \in a.users : u.email = None, "user",
           {[u EXCEPT !.role = IF u.role = "admin" THEN "admin" ELSE "user"] : u \in a.users})

(* Scoring parameters: the dynamic_challenge table's row first, then the   *)
(* columns of the challenge itself, per parameter.                         *)
NoDynamic == [value |-> None, initial |-> None, minimum |-> None, decay |-> None, function |-> None]
DynamicRow(a, c) == IF c.id \in Ids(a.dynamics) THEN Row(a.dynamics, c.id) ELSE NoDynamic
Param(a, c, field) == FirstNonNil(DynamicRow(a, c)[field], c[field])

CurrentValue(a, c) ==
  IF c.type = "dynamic" THEN FirstNonNil(Param(a, c, "value"), Param(a, c, "initial"))
                        ELSE FirstNonNil(c.value, 0)
FunctionOf(a, c) == IF Param(a, c, "function") = None THEN "logarithmic" ELSE Param(a, c, "function")

MisScored(a, c) ==
  \/ \E f \in {"initial", "minimum", "decay"} : Param(a, c, f) = None
  \/ Param(a, c, "decay") <= 0 \/ Param(a, c, "minimum") < 0
  \/ Param(a, c, "initial") < Param(a, c, "minimum")
  \/ FunctionOf(a, c) \notin {"linear", "logarithmic"}

(* Prerequisites that are not there, or not understood, are none.          *)
PeelRequirements(needs) == IF needs = None THEN {} ELSE needs

ImportedChallenge(a, c) ==
  [id |-> c.id, type |-> c.type, value |-> CurrentValue(a, c),
   state |-> IF c.state = "hidden" THEN "hidden" ELSE "visible",
   next |-> IF c.next = c.id THEN None ELSE c.next,
   needs |-> PeelRequirements(c.needs),
   curve |-> IF c.type = "dynamic"
               THEN [function |-> FunctionOf(a, c), initial |-> Param(a, c, "initial"),
                     minimum |-> Param(a, c, "minimum"), decay |-> Param(a, c, "decay")]
               ELSE [function |-> "static", initial |-> 0, minimum |-> 0, decay |-> 0]]

TranslateChallenges(a) ==
  IF \/ \E c \in a.challenges : c.type \notin {"standard", "dynamic"}
     \/ \E c \in a.challenges : c.type = "dynamic" /\ MisScored(a, c)
    THEN Refused("challenge")
    ELSE Mapped({ImportedChallenge(a, c) : c \in a.challenges})

(* A flag that cannot be checked refuses the archive: dropping it would    *)
(* leave a challenge nobody can solve.                                     *)
TranslateFlags(a) ==
  RefuseIf(\E f \in a.flags : f.type \notin {"static", "regex"} \/ ~f.compiles, "flag", a.flags)

(* Of tags that repeat, the first row read stays.                          *)
TranslateTags(a) ==
  Mapped({t \in a.tags : \A s \in a.tags : s.ch = t.ch /\ s.value = t.value => t.id <= s.id})

TranslateHints(a) ==
  RefuseIf(\E h \in a.hints : h.cost < 0, "hint",
           {[h EXCEPT !.needs = PeelRequirements(h.needs)] : h \in a.hints})

TranslateFiles(a) ==
  Mapped({[f EXCEPT !.ch = IF f.type = "challenge" THEN f.ch ELSE None] :
            f \in {g \in a.files : g.type \in {"challenge", "standard"} /\ g.location \in a.uploads}})

(* A correct submission is attributed to the account of the mode in force. *)
AccountID(mode, x) == IF mode = "teams" THEN x.team ELSE x.user
TranslateSubmissions(a) ==
  RefuseIf(\E s \in a.submissions :
             s.user = None \/ s.type \notin {"correct", "incorrect", "partial", "discard", "ratelimited"},
           "submission",
           {[id |-> s.id, user |-> s.user, team |-> s.team, ch |-> s.ch, type |-> s.type, date |-> s.date,
             account |-> IF s.type = "correct" THEN AccountID(UserMode(a), s) ELSE None]
              : s \in a.submissions})

(* Solves carry the id of their submission, and no date of their own.      *)
Correct(a) == {s \in a.submissions : s.type = "correct"}
ValueOf(a, ch) == IF ch \in Ids(a.challenges) THEN CurrentValue(a, Row(a.challenges, ch)) ELSE 0

\* Slip: a correct submission nobody scored is let through.
TranslateSolvesHalf(a) ==
  IF (\E s \in a.solves : s.user = None) \/ ~(Ids(a.solves) \subseteq Ids(Correct(a)))
    THEN Refused("solve")
    ELSE Mapped({[id |-> s.id, submission |-> s.id, ch |-> s.ch, user |-> s.user, team |-> s.team,
                  value |-> ValueOf(a, s.ch), date |-> Row(Correct(a), s.id).date] : s \in a.solves})

TranslateSolves(a) ==
  IF (\E s \in a.solves : s.user = None) \/ Ids(a.solves) # Ids(Correct(a))
    THEN Refused("solve")
    ELSE Mapped({[id |-> s.id, submission |-> s.id, ch |-> s.ch, user |-> s.user, team |-> s.team,
                  value |-> ValueOf(a, s.ch), date |-> Row(Correct(a), s.id).date] : s \in a.solves})

TranslateAwards(a) == RefuseIf(\E w \in a.awards : w.user = None, "award", a.awards)

(* Translate runs the stages in order and stops at the first refusal.      *)
Stages(a) ==
  [config |-> TranslateConfig(a), brackets |-> TranslateBrackets(a), teams |-> TranslateTeams(a),
   users |-> TranslateUsers(a), challenges |-> TranslateChallenges(a), flags |-> TranslateFlags(a),
   tags |-> TranslateTags(a), hints |-> TranslateHints(a), files |-> TranslateFiles(a),
   submissions |-> TranslateSubmissions(a), solves |-> TranslateSolves(a), awards |-> TranslateAwards(a)]

Translate(a) ==
  LET s == Stages(a) IN
  [ok |-> \A t \in DOMAIN s : s[t].ok, mode |-> UserMode(a), tables |-> [t \in DOMAIN s |-> s[t].rows]]

-----------------------------------------------------------------------------
(* Load *)

(* Keys and unique constraints stay live through the COPY: one row per id, *)
(* one solve of a challenge per user and, where there is one, per team.    *)
Pairwise(rows, Same(_, _)) == \A x, y \in rows : x.id # y.id => ~Same(x, y)
Keyed(rows) == \A x, y \in rows : x.id = y.id => x = y
CopyAll(t) ==
  /\ \A table \in DOMAIN t \ {"config"} : Keyed(t[table])
  /\ \A x, y \in t.config : x.key = y.key => x = y
  /\ Pairwise(t.solves, LAMBDA x, y : x.ch = y.ch /\ x.user = y.user)
  /\ Pairwise(t.solves, LAMBDA x, y : x.ch = y.ch /\ x.team # None /\ x.team = y.team)
  /\ Pairwise(t.files, LAMBDA x, y : x.location = y.location)

(* The probes, one per relation they count.                                *)
FlagsWithoutChallenge(t) == {f \in t.flags : f.ch \notin Ids(t.challenges)}
TagsWithoutChallenge(t) == {g \in t.tags : g.ch \notin Ids(t.challenges)}
HintsWithoutChallenge(t) == {h \in t.hints : h.ch \notin Ids(t.challenges)}
FilesWithoutChallenge(t) == {f \in t.files : f.ch # None /\ f.ch \notin Ids(t.challenges)}
UsersWithoutTeam(t) == {u \in t.users : u.team # None /\ u.team \notin Ids(t.teams)}
TeamsWithoutCaptain(t) == {m \in t.teams : m.captain # None /\ m.captain \notin Ids(t.users)}
SubmissionsWithoutParent(t) ==
  {s \in t.submissions : s.ch \notin Ids(t.challenges) \/ s.user \notin Ids(t.users)}
SolvesWithoutParent(t) ==
  {s \in t.solves : \/ s.ch \notin Ids(t.challenges) \/ s.user \notin Ids(t.users)
                    \/ s.submission \notin Ids(t.submissions)}
AwardsWithoutParent(t) == {w \in t.awards : w.user \notin Ids(t.users)}

ValidateFKs(t) ==
  /\ FlagsWithoutChallenge(t) = {} /\ TagsWithoutChallenge(t) = {} /\ HintsWithoutChallenge(t) = {}
  /\ FilesWithoutChallenge(t) = {} /\ UsersWithoutTeam(t) = {} /\ TeamsWithoutCaptain(t) = {}
  /\ SubmissionsWithoutParent(t) = {} /\ SolvesWithoutParent(t) = {} /\ AwardsWithoutParent(t) = {}

Load(plan) == CopyAll(plan.tables) /\ ValidateFKs(plan.tables)
Succeeds(a) == Translate(a).ok /\ Load(Translate(a))

-----------------------------------------------------------------------------
(* What the source shows: a score is the current value of every challenge  *)
(* solved, and the awards.                                                 *)
Sum(rows, Of(_)) == MapThenSumSet(Of, rows)
ScoreAt(solves, awards, mode, account, Worth(_)) ==
  Sum({s \in solves : AccountID(mode, s) = account}, Worth)
    + Sum({w \in awards : AccountID(mode, w) = account}, LAMBDA w : w.value)
Accounts(a) == IF UserMode(a) = "teams" THEN Ids(a.teams) ELSE Ids(a.users)

SourceValue(a, s) ==
  LET c == Row(a.challenges, s.ch)
      d == DynamicRow(a, c)
  IN  IF c.type = "dynamic" /\ d.value # None THEN d.value
      ELSE IF c.value # None THEN c.value
      ELSE IF c.type = "dynamic" THEN Param(a, c, "initial") ELSE 0

(* "the sum matches the source scoreboard" (translateSolves): every        *)
(* account of an archive that is imported keeps its score, and every right *)
(* answer its solve.                                                       *)
ScoreboardKept(a) ==
  Succeeds(a) =>
    LET t == Translate(a).tables
        mode == UserMode(a)
    IN  /\ \A x \in Accounts(a) :
             ScoreAt(t.solves, t.awards, mode, x, LAMBDA s : s.value)
               = ScoreAt(a.solves, a.awards, mode, x, LAMBDA s : SourceValue(a, s))
        /\ Cardinality(t.solves) = Cardinality({s \in t.submissions : s.type = "correct"})

(* An imported challenge decays on a curve the recalculation accepts, one  *)
(* Curve.Validate would have let an operator save (translateChallenges).   *)
CurvesAreSound(a) ==
  Succeeds(a) => \A c \in Translate(a).tables.challenges :
    c.type = "dynamic" => CD!Validate(c.curve)

(* Nothing imported refers to a row the archive left out, in the relations *)
(* that are probed (validateFKs).                                          *)
ProbedReferencesHold(a) ==
  Succeeds(a) =>
    LET t == Translate(a).tables IN
    /\ \A s \in t.solves : s.ch \in Ids(t.challenges) /\ s.user \in Ids(t.users)
    /\ \A s \in t.submissions : s.ch \in Ids(t.challenges) /\ s.user \in Ids(t.users)
    /\ \A u \in t.users : u.team # None => u.team \in Ids(t.teams)
=============================================================================
