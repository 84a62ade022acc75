----------------------------- MODULE AdminRoster -----------------------------
(***************************************************************************)
(* Who can still administer the instance (adminops SetRole, SetBanned,     *)
(* SetTeamBanned, MoveTeamMember).  Every mutation that may cost an admin  *)
(* counts who would be left under the advisory lock 'admin_role'           *)
(* (lockAdminRoster), one action per statement; promotions, unbans,        *)
(* departures and self-serve joins take no such lock.                      *)
(***************************************************************************)
EXTENDS FiniteSets

CONSTANTS
  Requests, Users, Teams, None,
  Staff,    \* users who may be given the admin role
  Players   \* users who join teams by themselves

ASSUME RosterConstants ==
  /\ None \notin Requests \cup Users \cup Teams
  /\ Staff \subseteq Users /\ Players \subseteq Users

(* Nothing in the code keeps an admin from joining a team; it is a habit of *)
(* the organizers that the properties below rest on.                       *)
StaffDoNotJoin == Staff \cap Players = {}

VARIABLES
  admins,      \* users.role = 'admin'
  banned,      \* users.banned
  team,        \* team[u]: users.team_id
  bannedTeams, \* teams.banned
  rosterLock,  \* holder of pg_advisory_xact_lock('admin_role')
  req,         \* req[r]: what the request in hand asks for, None between requests
  pc           \* pc[r]: the next statement, or the outcome

people == <<admins, banned, team, bannedTeams>>
vars   == <<people, rosterLock, req, pc>>

Asks ==
  [op : {"demote", "ban"}, by : Users, user : Users]
    \cup [op : {"ban_team"}, by : Users, team : Teams]
    \cup [op : {"move"}, by : Users, user : Users, from : Teams, team : Teams]
    \cup [op : {"join"}, user : Players, team : Teams]

Locked   == {"target", "dest", "count", "actor", "outside", "write"}
Running  == {"lock", "read", "enroll"} \cup Locked
Outcomes == {"done", "refused", "last_admin", "denied", "failed"}

(* Who could still log in and administer.                                  *)
Usable == {u \in admins \ banned : team[u] \notin bannedTeams}

TypeOK ==
  /\ admins \subseteq Staff /\ banned \subseteq Users
  /\ team \in [Users -> Teams \cup {None}]
  /\ bannedTeams \subseteq Teams
  /\ rosterLock \in {r \in Requests : pc[r] \in Locked} \cup {None}
  /\ req \in [Requests -> Asks \cup {None}]
  /\ pc \in [Requests -> {"idle"} \cup Running \cup Outcomes]
  /\ \A r \in Requests : pc[r] \in Running => req[r] \in Asks

Init ==
  /\ admins \in SUBSET Staff /\ admins # {}
  /\ banned = {} /\ bannedTeams = {}
  /\ team \in [Users -> Teams \cup {None}]
  /\ rosterLock = None
  /\ req = [r \in Requests |-> None]
  /\ pc = [r \in Requests |-> "idle"]

Goto(r, label) == pc' = [pc EXCEPT ![r] = label]

Proceed(r, label) == Goto(r, label) /\ UNCHANGED <<people, rosterLock, req>>

(* The transaction ends: its outcome, and the advisory lock released.      *)
Finish(r, outcome) ==
  /\ Goto(r, outcome)
  /\ rosterLock' = IF rosterLock = r THEN None ELSE rosterLock
  /\ req' = [req EXCEPT ![r] = None]

Rollback(r, outcome) == Finish(r, outcome) /\ UNCHANGED people

(* Banning oneself and moving to the same team are refused outright.       *)
Refused(ask) ==
  \/ ask.op = "ban" /\ ask.by = ask.user
  \/ ask.op = "move" /\ ask.from = ask.team

(* A request arrives, authenticated: an admin's from one who is usable.    *)
Begin(r, ask) ==
  /\ pc[r] \notin Running
  /\ ask.op # "join" => ask.by \in Usable
  /\ IF Refused(ask)
     THEN Rollback(r, "refused")
     ELSE /\ req' = [req EXCEPT ![r] = ask]
          /\ Goto(r, IF ask.op = "join" THEN "read" ELSE "lock")
          /\ UNCHANGED <<people, rosterLock>>

AfterLock(op) ==
  CASE op = "demote" -> "count" [] op = "ban_team" -> "actor" [] OTHER -> "target"

(* lockAdminRoster: one advisory lock for every such change.              *)
LockRoster(r) ==
  /\ pc[r] = "lock"
  /\ rosterLock = None
  /\ rosterLock' = r
  /\ Goto(r, AfterLock(req[r].op))
  /\ UNCHANGED <<people, req>>

(* AdminGetUser: only a usable account's loss needs counting.              *)
ReadTarget(r) ==
  /\ pc[r] = "target"
  /\ IF req[r].user \in admins \ banned
     THEN Proceed(r, IF req[r].op = "move" THEN "dest" ELSE "count")
     ELSE Proceed(r, "write")

(* Slip: the destination is taken for harmless.                            *)
DestAlwaysOpen(r) == pc[r] = "dest" /\ Proceed(r, "write")

(* AdminTeamIsBanned.                                                      *)
ReadDest(r) ==
  /\ pc[r] = "dest"
  /\ Proceed(r, IF req[r].team \in bannedTeams THEN "count" ELSE "write")

(* AdminCountOtherAdmins.                                                  *)
CountOthers(r) ==
  /\ pc[r] = "count"
  /\ IF Usable \ {req[r].user} = {}
     THEN Rollback(r, "last_admin")
     ELSE Proceed(r, "write")

(* GetUserByID of the actor.                                               *)
ReadActor(r) ==
  /\ pc[r] = "actor"
  /\ IF team[req[r].by] = req[r].team
     THEN Rollback(r, "refused")
     ELSE Proceed(r, "outside")

(* AdminCountAdminsOutsideTeam.                                            *)
CountOutside(r) ==
  /\ pc[r] = "outside"
  /\ IF {u \in Usable : team[u] # req[r].team} = {}
     THEN Rollback(r, "last_admin")
     ELSE Proceed(r, "write")

(* The write of each mutation and its commit.                              *)
Demote(r) ==
  /\ pc[r] = "write" /\ req[r].op = "demote"
  /\ admins' = admins \ {req[r].user}
  /\ Finish(r, "done")
  /\ UNCHANGED <<banned, team, bannedTeams>>

BanUser(r) ==
  /\ pc[r] = "write" /\ req[r].op = "ban"
  /\ banned' = banned \cup {req[r].user}
  /\ Finish(r, "done")
  /\ UNCHANGED <<admins, team, bannedTeams>>

BanTeam(r) ==
  /\ pc[r] = "write" /\ req[r].op = "ban_team"
  /\ bannedTeams' = bannedTeams \cup {req[r].team}
  /\ Finish(r, "done")
  /\ UNCHANGED <<admins, banned, team>>

(* AdminDetachMember matches the member on the team it names, EnrollUser   *)
(* follows on the row it locked.                                           *)
Move(r) ==
  /\ pc[r] = "write" /\ req[r].op = "move"
  /\ IF team[req[r].user] = req[r].from
     THEN /\ team' = [team EXCEPT ![req[r].user] = req[r].team]
          /\ Finish(r, "done")
          /\ UNCHANGED <<admins, banned, bannedTeams>>
     ELSE Rollback(r, "failed")

(* A cap refused the move, or an error or a crash at any statement.        *)
Abort(r) == pc[r] \in Running /\ Rollback(r, "failed")

(* JoinTeam: the team's ban is read before its transaction begins.         *)
ReadTeam(r) ==
  /\ pc[r] = "read"
  /\ IF req[r].team \in bannedTeams THEN Rollback(r, "denied") ELSE Proceed(r, "enroll")

Enroll(r) ==
  /\ pc[r] = "enroll"
  /\ IF team[req[r].user] = None
     THEN /\ team' = [team EXCEPT ![req[r].user] = req[r].team]
          /\ Finish(r, "done")
          /\ UNCHANGED <<admins, banned, bannedTeams>>
     ELSE Rollback(r, "denied")

(* The mutations that only add usable admins take no lock.                 *)
Promote(u) ==
  /\ u \in Staff \ admins
  /\ admins' = admins \cup {u}
  /\ UNCHANGED <<banned, team, bannedTeams, rosterLock, req, pc>>

Unban(u) ==
  /\ u \in banned
  /\ banned' = banned \ {u}
  /\ UNCHANGED <<admins, team, bannedTeams, rosterLock, req, pc>>

UnbanTeam(t) ==
  /\ t \in bannedTeams
  /\ bannedTeams' = bannedTeams \ {t}
  /\ UNCHANGED <<admins, banned, team, rosterLock, req, pc>>

(* LeaveTeam, KickMember, RemoveTeamMember, DisbandTeam.                   *)
Detach(u) ==
  /\ team[u] # None
  /\ team' = [team EXCEPT ![u] = None]
  /\ UNCHANGED <<admins, banned, bannedTeams, rosterLock, req, pc>>

Next ==
  \/ \E r \in Requests :
       \/ \E ask \in Asks : Begin(r, ask)
       \/ LockRoster(r) \/ ReadTarget(r) \/ ReadDest(r) \/ CountOthers(r)
       \/ ReadActor(r) \/ CountOutside(r)
       \/ Demote(r) \/ BanUser(r) \/ BanTeam(r) \/ Move(r) \/ Abort(r)
       \/ ReadTeam(r) \/ Enroll(r)
  \/ \E u \in Users : Promote(u) \/ Unban(u) \/ Detach(u)
  \/ \E t \in Teams : UnbanTeam(t)

Spec == Init /\ [][Next]_vars
-----------------------------------------------------------------------------
(* The instance never loses its last usable admin, whichever demotions,    *)
(* bans, team bans and moves are decided at once.                          *)
SomeAdminRemains == Usable # {}

-----------------------------------------------------------------------------
(* Why: one request decides at a time, and what it counted cannot shrink   *)
(* before it writes.                                                       *)
OneDecides == \A r \in Requests : pc[r] \in Locked => rosterLock = r

Survivors(ask) ==
  CASE ask.op = "ban_team" -> {u \in Usable : team[u] # ask.team} # {}
    [] ask.op = "move"     -> ask.team \notin bannedTeams \/ Usable \ {ask.user} # {}
    [] OTHER               -> Usable \ {ask.user} # {}

DecisionHolds == \A r \in Requests : pc[r] = "write" => Survivors(req[r])

LockedAsks ==
  \A r \in Requests :
    /\ pc[r] \in Locked \cup {"lock"} => req[r].op # "join"
    /\ pc[r] \in {"target", "dest", "count"} => req[r].op \in {"demote", "ban", "move"}
    /\ pc[r] = "dest" => req[r].op = "move"
    /\ pc[r] \in {"actor", "outside"} => req[r].op = "ban_team"
    /\ pc[r] \in {"read", "enroll"} => req[r].op = "join"

Inv == TypeOK /\ OneDecides /\ LockedAsks /\ DecisionHolds /\ SomeAdminRemains
=============================================================================
