------------------------------ MODULE MCFront ------------------------------
(* The front of the house, for TLC. Pure parts over bounded inputs: policy  *)
(* decisions for every event and viewer, archives offered for import. What  *)
(* lets somebody in: credentials and request budgets. And what they are     *)
(* shown: the board, and the stream of what is new. They share no table, so *)
(* a behaviour is about one of the six, and the variables of the others     *)
(* keep a value nothing is said about.                                      *)
EXTENDS Sessions, FiniteSetsExt, Integers

LOCAL INSTANCE TLC

CONSTANTS
  MaxChanges,   \* settings, and facts of a viewer, away from the ordinary
  Callers, Sources, Targets, LastWindow,   \* of Limiter
  GeneralLimit, TargetLimit, FailureLimit, FloodLimit,
  Players, TeamOf, Challenges, Curve, Requires, Anonymize, FreezeAt, MaxTime,   \* of Board
  Charges, Grants, Moderated, PageLimit, MaxOpen, MaxRows,
  Publishers, Clients, Buffer, CatchUpLimit, ReplayLimit, FeedHorizons,   \* of Feeds
  MaxId, MaxConnects, MaxDrops, MaxFailures

VARIABLES
  focus,     \* which of the six a behaviour is about
  page,      \* an event and the viewer it decides about
  archive,   \* an archive offered for import
  step,      \* where a request of Limiter or a client of Feeds is
  n, now, back,
  mode, open, solves, awards, price, shut, unseen, walk,
  kind, rows, held, nextId, conn, wire, latest, missed, lastID, stopped, subscribed, chan, written,
  withheld, horizon, connects, since, tie, unloaded, cuts, errors

inputs == <<focus, page, archive>>
shared == <<step, spent, call>>
credentials == <<pc, read, holder, codes, hash, forced, banned, sessions, tokens, doomed>>
budgets == <<n, now, back>>
game == <<mode, open, solves, awards, price, shut, unseen, walk>>
stream == <<kind, rows, held, nextId, conn, wire, latest, missed, lastID, stopped, subscribed, chan, written,
            withheld, horizon, connects, since, tie, unloaded, cuts, errors>>
all == <<inputs, shared, credentials, budgets, game, stream>>

P == INSTANCE Policy
I == INSTANCE Import
L == INSTANCE Limiter WITH Requests <- Callers, pc <- step

F == INSTANCE Feeds WITH where <- step, open <- subscribed, drops <- cuts, failures <- errors,
        Horizons <- FeedHorizons
B == INSTANCE Board WITH Users <- Players

(* Three players in two teams, whose ids cross those of users; a challenge *)
(* of each curve that decays, the second behind the first and hidden.      *)
MCTeamOf == [u \in Players |-> IF u = 1 THEN 2 ELSE 1]
MCCurve == [c \in Challenges |->
              IF c = 1 THEN [function |-> "linear", initial |-> 5, minimum |-> 0, decay |-> 5]
              ELSE [function |-> "logarithmic", initial |-> 5, minimum |-> 1, decay |-> 2]]
MCRequires  == [c \in Challenges |-> IF c = 1 THEN {} ELSE {1}]
MCAnonymize == [c \in Challenges |-> "hidden"]
MCCharges   == {<<1, -1>>}
MCGrants    == {<<2, 2>>}
MCModerated == {<<"users", 1>>, <<"teams", 1>>, <<"challenges", 2>>}

ASSUME FrontConstants ==
  /\ L!LimiterConstants /\ B!BoardAssumption /\ F!FeedConstants

Symmetry == Permutations(Requests)

-----------------------------------------------------------------------------
(* Events and viewers, up to MaxChanges away from a running event of teams, *)
(* everything public, and a complete player in it. The freeze is in force:  *)
(* without one nothing is withheld.                                         *)
Event == [mode |-> "teams", setup |-> TRUE, challenge |-> "public", score |-> "public",
          account |-> "public", registration |-> "public", verifyEmails |-> TRUE,
          viewAfter |-> TRUE, phase |-> "running", paused |-> FALSE, freeze |-> TRUE,
          teamCreation |-> TRUE]
Departures == [mode |-> {"users"}, setup |-> {FALSE}, challenge |-> {"private", "admins"},
            score |-> {"private", "admins", "hidden"}, account |-> {"private", "admins"},
            registration |-> {"private", "mlc"}, verifyEmails |-> {FALSE}, viewAfter |-> {FALSE},
            phase |-> {P!PhaseAt(t, 1, 2) : t \in 0..3} \ {"running"}, paused |-> {TRUE}, teamCreation |-> {FALSE}]
Away(from, changes) ==
  from \cup UNION {UNION {{[x EXCEPT ![f] = v] : v \in changes[f]} : f \in DOMAIN changes} : x \in from}
UpTo(many, base, changes) == FoldSet(LAMBDA i, near : Away(near, changes), {base}, 1..many)
SmallEvents == UpTo(MaxChanges, Event, Departures)

Player == [authed |-> TRUE, admin |-> FALSE, verified |-> TRUE, banned |-> FALSE,
           teamBanned |-> FALSE, teamless |-> FALSE, profile |-> TRUE, teamProfile |-> TRUE,
           forced |-> FALSE]
SmallPrincipals ==
  {P!Nobody} \cup
  {p \in UpTo(MaxChanges + 1, Player, [f \in DOMAIN Player |-> {~Player[f]}]) :
     p.authed /\ (p.teamless => ~p.teamBanned /\ p.teamProfile)}

ASSUME InputsAreReal == /\ SmallEvents \subseteq {e \in P!Events : e.freeze}
                         /\ SmallPrincipals \subseteq P!Viewers

(* What can be asked of a class: the two query parameters it may carry.    *)
Asked(c) == [class : {c}, preview : BOOLEAN, adminView : BOOLEAN, safe : {TRUE}, csrf : {FALSE},
             surface : {IF c \in P!AdminOnly THEN "admin" ELSE "public"}]
Plain(c) == [class |-> c, preview |-> FALSE, adminView |-> FALSE, surface |-> "public",
             safe |-> TRUE, csrf |-> FALSE]

(* What a viewer's requests carry.                                         *)
Carries(p) == IF p.authed THEN {"cookie", "token"} ELSE P!Credentials \ {"cookie", "token"}

-----------------------------------------------------------------------------
(* Archives: a sound one of every table, and what is changed in it.        *)
Sound ==
  [boots |-> TRUE,
   config |-> {[id |-> 1, key |-> "user_mode", val |-> "users"]},
   brackets |-> {[id |-> 1, type |-> "users"]},
   teams |-> {[id |-> 1, password |-> None, bracket |-> None, captain |-> 1],
              [id |-> 2, password |-> "p", bracket |-> None, captain |-> None]},
   users |-> {[id |-> 1, email |-> "a", role |-> "admin", team |-> 1, bracket |-> 1],
              [id |-> 2, email |-> "b", role |-> "user", team |-> None, bracket |-> None]},
   challenges |-> {[id |-> 1, type |-> "standard", state |-> "visible", value |-> 4, initial |-> None,
                    minimum |-> None, decay |-> None, function |-> None, next |-> 2, needs |-> {}],
                   [id |-> 2, type |-> "dynamic", state |-> "locked", value |-> 3, initial |-> 5,
                    minimum |-> 1, decay |-> 2, function |-> None, next |-> 2, needs |-> {1}]},
   dynamics |-> {[id |-> 2, value |-> None, initial |-> 9, minimum |-> None, decay |-> None,
                  function |-> "linear"]},
   flags |-> {[id |-> 1, ch |-> 1, type |-> "static", compiles |-> TRUE]},
   tags |-> {[id |-> 1, ch |-> 1, value |-> "web"], [id |-> 2, ch |-> 1, value |-> "web"]},
   hints |-> {[id |-> 1, ch |-> 2, cost |-> 1, needs |-> None]},
   files |-> {[id |-> 1, type |-> "challenge", location |-> "l", ch |-> 1],
              [id |-> 2, type |-> "page", location |-> "m", ch |-> None]},
   uploads |-> {"l", "m"},
   submissions |-> {[id |-> 1, user |-> 1, team |-> 1, ch |-> 1, type |-> "correct", date |-> 1],
                    [id |-> 2, user |-> 2, team |-> None, ch |-> 2, type |-> "correct", date |-> 2],
                    [id |-> 3, user |-> 2, team |-> None, ch |-> 1, type |-> "incorrect", date |-> 3]},
   solves |-> {[id |-> 1, user |-> 1, team |-> 1, ch |-> 1], [id |-> 2, user |-> 2, team |-> None, ch |-> 2]},
   awards |-> {[id |-> 1, user |-> 2, team |-> None, value |-> -2]}]

(* Every way to leave scoring parameters out, in both tables that hold them.*)
Parameters == [value : {None, 2}, initial : {None, 0, 9}, minimum : {None, 3}, decay : {None, 0, 2}]
WithScoring(a, inRow, inColumns, function) ==
  LET With(x, q) == [x EXCEPT !.value = q.value, !.initial = q.initial, !.minimum = q.minimum,
                              !.decay = q.decay]
  IN [a EXCEPT !.dynamics = {With([I!Row(@, 2) EXCEPT !.function = function], inRow)},
               !.challenges = {I!Row(@, 1), With(I!Row(@, 2), inColumns)}]
Scored == {WithScoring(Sound, r, c, f) : r \in Parameters, c \in Parameters, f \in {None, "linear", "cubic"}}

(* Every way to disagree about who solved what, under either mode.         *)
Solved ==
  {[Sound EXCEPT
      !.config = k,
      !.submissions = {[s EXCEPT !.type = IF s.id \in right THEN "correct" ELSE "incorrect"] : s \in @},
      !.solves = {[id |-> i, user |-> u, team |-> t, ch |-> 1 + (i % 2)] : i \in scored}] :
     k \in {{}, {[id |-> 1, key |-> "user_mode", val |-> "users"], [id |-> 2, key |-> "user_mode", val |-> "teams"]},
            {[id |-> 1, key |-> "user_mode", val |-> "teams"], [id |-> 2, key |-> "user_mode", val |-> None]}},
     right \in SUBSET (1..3), scored \in SUBSET (1..3), u \in {1, 2, None}, t \in {1, None}}

(* Every way to leave the parents of some rows out.                        *)
Dangling ==
  {[Sound EXCEPT
      !.challenges = {c \in @ : c.id \notin lost.challenges}, !.users = {u \in @ : u.id \notin lost.users},
      !.teams = {t \in @ : t.id \notin lost.teams}, !.submissions = {s \in @ : s.id \notin lost.submissions},
      !.solves = {s \in @ : s.id \notin lost.submissions},
      !.flags = IF bare THEN {} ELSE @, !.tags = IF bare THEN {} ELSE @, !.hints = IF bare THEN {} ELSE @,
      !.files = IF bare THEN {} ELSE @] :
     lost \in [challenges : SUBSET {1, 2}, users : SUBSET {1, 2}, teams : SUBSET {1, 2},
               submissions : SUBSET {1, 2, 3}], bare \in BOOLEAN}

Archives == Scored \cup Solved \cup Dangling

ASSUME ArchivesAreReal == \A a \in Archives : I!IsArchive(a)

-----------------------------------------------------------------------------
NoShared == step = None /\ spent = None /\ call = None
NoCredentials == /\ pc = None /\ read = None /\ holder = None /\ codes = None /\ hash = None /\ forced = None
                 /\ banned = None /\ sessions = {} /\ tokens = {} /\ doomed = None
NoBudgets == n = None /\ now = None /\ back = None
NoGame == /\ mode = None /\ open = None /\ solves = None /\ awards = None
          /\ price = None /\ shut = None /\ unseen = None /\ walk = None

NoStream == /\ kind = None /\ rows = None /\ held = None /\ nextId = None /\ conn = None /\ wire = None
            /\ latest = None /\ missed = None /\ lastID = None /\ stopped = None /\ subscribed = None
            /\ chan = None /\ written = None /\ withheld = None /\ horizon = None /\ connects = None
            /\ since = None /\ tie = None /\ unloaded = None /\ cuts = None /\ errors = None

FrontInit ==
  \/ /\ NoShared /\ NoCredentials /\ NoBudgets /\ NoGame /\ NoStream
     /\ \/ focus = "decisions" /\ page \in SmallEvents \X SmallPrincipals /\ archive = None
        \/ focus = "imports" /\ page = None /\ archive \in Archives
  \/ /\ page = None /\ archive = None
     /\ \/ focus = "credentials" /\ Init /\ step = None /\ NoBudgets /\ NoGame /\ NoStream
        \/ focus = "budgets" /\ L!Init /\ NoCredentials /\ NoGame /\ NoStream
        \/ focus = "board" /\ B!Init /\ NoShared /\ NoCredentials /\ n = None /\ back = None /\ NoStream
        \/ /\ focus = "stream" /\ F!Init /\ spent = None /\ call = None
           /\ NoCredentials /\ NoBudgets /\ NoGame

Credentials == focus = "credentials" /\ Next /\ UNCHANGED <<inputs, step, budgets, game, stream>>
Budgets == focus = "budgets" /\ L!Next /\ UNCHANGED <<inputs, credentials, game, stream>>
Play == focus = "board" /\ B!Next /\ UNCHANGED <<inputs, shared, credentials, n, back, stream>>
Streaming == focus = "stream" /\ F!Next /\ UNCHANGED <<inputs, spent, call, credentials, budgets, game>>

FrontNext == Credentials \/ Budgets \/ Play \/ Streaming
FrontSpec == FrontInit /\ [][FrontNext]_all

-----------------------------------------------------------------------------
(* Where a redirect of Decide leads (router.go: Location).                 *)
Landing == [l \in {"/login", "/challenges", "/confirm", "/settings", "/team", "/change-password", "/setup"} |->
              CASE l = "/login" -> "login" [] l = "/challenges" -> "challengeList"
                [] l = "/confirm" -> "confirm" [] l = "/settings" -> "accountSelf"
                [] l = "/team" -> "teamSelf" [] l = "/change-password" -> "passwordChange"
                [] l = "/setup" -> "setup"]

(* A refusal that sends its caller somewhere sends them where they are let *)
(* in, whatever they authenticate with: no two gates of Decide hand a      *)
(* caller back and forth, and no wall stands in front of the form that     *)
(* takes it down. Only the challenge page, where register sends those who  *)
(* are somebody already, may itself refuse, and then names a place that    *)
(* does not.                                                               *)
RedirectsLand ==
  focus = "decisions" =>
    LET e == page[1]
        p == page[2]
    IN \A cred \in Carries(p), c \in P!Classes :
         LET Answer(d) == P!Serve(e, cred, p, Plain(d))
             Lands(l) == Answer(Landing[l]).allow
             to == Answer(c).redirect
             next == Answer("challengeList").redirect
         IN to # "" => \/ Lands(to)
                       \/ to = "/challenges" /\ (next # "" => Lands(next))

(* What is withheld on one surface is not read off another. While the      *)
(* board is frozen only an admin is served live figures, whatever the      *)
(* query asks for (FreezeExempt against the gates); a list of solves is    *)
(* served only beside the count it adds up to; and a profile, which its    *)
(* redactor opens without asking about accounts again, shows a score, its  *)
(* curve and its contributions only where solve counts are shown.          *)
WithheldStaysWithheld ==
  focus = "decisions" =>
    LET e == page[1]
        p == page[2]
        red == P!NewRedactor(e, p)
        Served(r) == \E cred \in Carries(p) : P!Serve(e, cred, p, r).allow
    IN /\ \A c \in P!Classes : \A r \in Asked(c) :
            ~P!Frozen(e, p, r) /\ Served(r) => p.admin
       /\ P!ShowsSolveList(red) => P!ShowsSolveCount(red)
       /\ P!ShowsOwnPlace(red) => P!ShowsAccount(red)
       /\ \A c \in {"accountDetail", "teamDetail"} :
            Served(Plain(c)) => \A shown \in {P!ShowsAccount(red), P!ShowsProfileHistory(red),
                                             P!ShowsContribution(red)} :
                                  shown => P!ShowsSolveCount(red)

(* An archive that is imported is the game it was: every account keeps its *)
(* score ("the sum matches the source scoreboard", translateSolves) and    *)
(* every right answer its solve, every curve is one an operator could have *)
(* saved, and no row refers to one that is not there.                      *)
ImportIsSound ==
  focus = "imports" =>
    I!ScoreboardKept(archive) /\ I!CurvesAreSound(archive) /\ I!ProbedReferencesHold(archive)

(* No more wrong answers get past the limiter in a window than the budget  *)
(* allows, but for refunds that landed in another window; and a success     *)
(* that was answered costs nothing.                                        *)
BudgetsHold ==
  focus = "budgets" => L!FailuresBounded /\ L!SuccessIsFree

(* A client reading changes nothing: a ledger is judged where nobody reads. *)
Quiet == focus = "board" /\ walk.at = "nowhere"

(* What is served as of a past instant stays, whatever is played since.    *)
PastStands == [][Quiet => B!PastStandsStep]_all

(* Standings, curves, pages and counts agree at every horizon.             *)
ReadsAgree == Quiet => B!ReadsAgree

(* Paging through solvers misses nobody and names nobody twice.            *)
WalkMissesNothing == focus = "board" => B!WalkMissesNothing

(* A solve leaves one price, however and by whomever it is computed.       *)
OnePrice == [][focus = "board" => B!OnePriceStep]_all

(* A client that connected to a working pump and has seen no outage is owed *)
(* everything committed since.                                             *)
SteadyMissesNothing == focus = "stream" => F!SteadyMissesNothing
=============================================================================
