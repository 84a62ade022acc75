----------------------------- MODULE MCOperators -----------------------------
(* What operators decide, for TLC: who is an admin (two of them, one on a   *)
(* team, and a player), what a challenge accepts and waits for, what a      *)
(* profile must answer, and what the reports make of the submissions. They  *)
(* are modelled apart and meet in no property, so a behaviour is about one  *)
(* of the four and the variables of the others keep a value nothing is said *)
(* about.                                                                   *)
EXTENDS AdminRoster

LOCAL INSTANCE TLC
LOCAL INSTANCE Integers
LOCAL INSTANCE Sequences

CONSTANTS
  Contestants, Challenges, Flags,     \* of Console
  Registrants, Clubs, Fields,         \* of Profiles
  MaxLog                              \* submissions reported on

VARIABLES
  focus,   \* which of the four a behaviour is about
  topic,   \* what is asked of the console, or of the reports
  asked, at, step,
  on, teams,
  rows, flags, issues, solves, draft, flag,
  fields, entries,
  overtaken,
  event    \* the mode and the log of Evidence

requests  == <<asked, at, step>>
enrolment == <<on, teams>>
authoring == <<rows, flags, issues, solves, draft, flag>>
asking    == <<fields, entries>>
all == <<focus, topic, vars, requests, enrolment, authoring, asking, overtaken, event>>

C == INSTANCE Console WITH Operators <- Requests, Accounts <- Contestants,
                           op <- asked, saw <- at, pc <- step
F == INSTANCE Profiles WITH Users <- Registrants, Teams <- Clubs, team <- on, req <- asked, saw <- at
E == INSTANCE Evidence

ASSUME OperatorConstants == C!ActorsAreApart /\ F!OwnersAreApart /\ Challenges # {}

Symmetry == Permutations(Requests) \cup Permutations(Teams)

NoRequests  == asked = None /\ at = None /\ step = None
NoEnrolment == on = None /\ teams = None
NoAuthoring == /\ rows = None /\ flags = None /\ issues = None /\ solves = None /\ draft = None
               /\ flag = None
NoAsking    == fields = None /\ entries = None
Quiet == Init /\ admins = Staff /\ \A u \in Users : team[u] = None

(* The console's requests come in three kinds that no property relates: on *)
(* the flags of a challenge, on its mode while it is played, and on what   *)
(* challenges wait for.                                                    *)
First == CHOOSE c \in Challenges : TRUE
Wanted ==
  CASE topic = "flags" -> {o \in C!Ops : o.kind # "needs" /\ o.ch = First}
    [] topic = "mode"  -> {o \in C!Ops : o.kind = "mode" /\ o.ch = First}
    [] topic = "needs" -> {o \in C!Ops : o.kind = "needs"}

OperatorsInit ==
  \/ /\ focus = "admins" /\ topic = None /\ Init
     /\ NoRequests /\ NoEnrolment /\ NoAuthoring /\ NoAsking /\ overtaken = None /\ event = None
  \/ /\ focus = "console" /\ topic \in {"flags", "mode", "needs"} /\ Quiet
     /\ C!Init /\ NoEnrolment /\ NoAsking /\ event = None
     /\ \A f \in Flags : IF topic = "mode" THEN C!FlagsOf(First) = Flags ELSE flags[f] = None
  \/ /\ focus = "profiles" /\ topic = None /\ Quiet
     /\ F!Init /\ NoAuthoring /\ step = None /\ event = None
  \/ /\ focus = "evidence" /\ topic \in {"sharing", "addresses"} /\ Quiet
     /\ event \in [mode : {"users", "teams"}, log : {<< >>}]
     /\ NoRequests /\ NoEnrolment /\ NoAuthoring /\ NoAsking /\ overtaken = None

Administer ==
  /\ focus = "admins" /\ Next
  /\ UNCHANGED <<focus, topic, requests, enrolment, authoring, asking, overtaken, event>>
Author ==
  /\ focus = "console"
  /\ \/ \E r \in Requests : C!Step(r) \/ \E o \in Wanted : C!Begin(r, o)
     \/ \E c \in Challenges : (topic # "needs" => c = First) /\ C!DeleteChallenge(c)
     \/ \E f \in Flags : C!DeleteFlag(f)
     \/ topic = "mode" /\ \E a \in Contestants : C!Land(a) \/ C!Play(a, First)
  /\ UNCHANGED <<focus, topic, vars, enrolment, asking, event>>
Ask ==
  /\ focus = "profiles" /\ F!Next
  /\ UNCHANGED <<focus, topic, vars, step, authoring, event>>

(* The log grows by what Submit writes of three users in two teams: right  *)
(* answers, again and again, with the account their flag was issued to;    *)
(* and, apart from them, answers with an address.                          *)
Submission ==
  [user : 1..3, team : 1..2, ch : IF topic = "sharing" THEN 1..2 ELSE {1},
   type : {IF topic = "sharing" THEN "correct" ELSE "incorrect"},
   attributed : IF topic = "sharing" THEN {None} \cup 1..(IF event.mode = "teams" THEN 2 ELSE 3) ELSE {None},
   ip : IF topic = "sharing" THEN {None} ELSE {None, 1, 2}]
Log ==
  /\ focus = "evidence" /\ Len(event.log) < MaxLog
  /\ \E s \in Submission : /\ s.team = (s.user + 1) \div 2
                           /\ event' = [event EXCEPT !.log = Append(@, s)]
  /\ UNCHANGED <<focus, topic, vars, requests, enrolment, authoring, asking, overtaken>>

OperatorsSpec == OperatorsInit /\ [][Administer \/ Author \/ Ask \/ Log]_all

(* Guards an author alone always meets are missed only by two at once.     *)
OnlyOverlapMisfits == [][focus = "console" => C!MisfitStep]_all

(* Nobody is accused of a flag of their own but by a switch beside a       *)
(* submission.                                                             *)
OnlyOverlapAccuses == [][focus = "console" => C!AccuseStep]_all

(* Whoever alone closes a cycle of prerequisites is told.                  *)
CycleIsAnnounced == [][focus = "console" => C!CycleStep]_all

(* Whoever a required question holds can answer their way out.             *)
UserGateHasRemedy == focus = "profiles" => F!UserGateHasRemedy

(* A user's own request never undoes what the gate asks, or what is closed *)
(* to them, but beside another.                                            *)
OnlyOverlapUndoes == [][focus = "profiles" => F!UndoStep]_all

(* What one report says of an account, every other says too.               *)
ReportsAgree == focus = "evidence" => E!ReportsAgree(event)
=============================================================================
