----------------------------- MODULE TeamRoster -----------------------------
(***************************************************************************)
(* Team enrolment (accounts.Service CreateTeam, JoinTeam, LeaveTeam,       *)
(* KickMember, TransferCaptaincy, DisbandTeam; adminops CreateTeam,        *)
(* RemoveTeamMember, MoveTeamMember) and the solves that stamp a team.     *)
(*                                                                         *)
(* An UPDATE evaluates its WHERE clause on the snapshot of its start       *)
(* (Check...), then waits: for the row, which it checks again, and for the  *)
(* advisory lock 'registration' that the users_caps and teams_caps         *)
(* triggers take and keep to the commit.  Nothing is seen before the       *)
(* commit, and only one transaction at a time changes membership, so its   *)
(* writes are applied there.                                               *)
(***************************************************************************)
EXTENDS Integers, FiniteSets

CONSTANTS
  Requests, Teams, None,
  Users,     \* user ids: the seat goes to the smallest
  TeamSize   \* the team_size cap

ASSUME TeamConstants ==
  /\ Users \subseteq Nat /\ IsFiniteSet(Users) /\ TeamSize \in Nat \ {0}
  /\ None \notin Requests \cup Teams \cup Nat

VARIABLES
  team,      \* team[u]: users.team_id
  teams,     \* the teams that exist
  unused,    \* ids no team has had yet
  captain,   \* captain[t]: teams.captain_id
  scored,    \* teams stamped on a committed solve
  regLock,   \* holder of pg_advisory_xact_lock('registration')
  teamLock,  \* teamLock[t]: holder of the row lock on the team
  req,       \* req[r]: what the request in hand asks for, None between requests
  at,        \* at[r]: the team the request read
  pc         \* pc[r]: the next statement, idle between requests

roster == <<team, teams, unused, captain, scored>>
locks  == <<regLock, teamLock>>
vars   == <<roster, locks, req, at, pc>>

Asks ==
  [op : {"create", "leave", "disband", "solve", "remove"}, user : Users]
    \cup [op : {"join", "move"}, user : Users, to : Teams]
    \cup [op : {"kick", "transfer"}, by : Users, user : Users]

Holding  == {"reassign", "adopt", "commit"}
Running  == {"leave", "detach", "enroll", "create", "seat", "delete", "solve"} \cup Holding

op(r)      == req[r].op
user(r)    == req[r].user
members(t) == {u \in Users : team[u] = t}
Least(S)   == IF S = {} THEN None ELSE CHOOSE u \in S : \A v \in S : u <= v

TypeOK ==
  /\ team \in [Users -> Teams \cup {None}]
  /\ teams \subseteq Teams /\ unused \subseteq Teams \ teams
  /\ captain \in [Teams -> Users \cup {None}]
  /\ scored \subseteq Teams
  /\ regLock \in {r \in Requests : pc[r] \in Holding \cup {"enroll"}} \cup {None}
  /\ teamLock \in [Teams -> {r \in Requests : pc[r] \in Holding \cup {"enroll"}} \cup {None}]
  /\ req \in [Requests -> Asks \cup {None}]
  /\ at \in [Requests -> Teams \cup {None}]
  /\ pc \in [Requests -> {"idle"} \cup Running]

Init ==
  /\ team = [u \in Users |-> None]
  /\ teams = {} /\ unused = Teams
  /\ captain = [t \in Teams |-> None]
  /\ scored = {}
  /\ regLock = None /\ teamLock = [t \in Teams |-> None]
  /\ req = [r \in Requests |-> None]
  /\ at = [r \in Requests |-> None]
  /\ pc = [r \in Requests |-> "idle"]

Goto(r, label) == pc' = [pc EXCEPT ![r] = label]

Proceed(r, label) == Goto(r, label) /\ UNCHANGED <<roster, locks, req, at>>

(* The transaction ends, and its locks with it.                            *)
Finish(r) ==
  /\ Goto(r, "idle")
  /\ req' = [req EXCEPT ![r] = None] /\ at' = [at EXCEPT ![r] = None]
  /\ regLock' = IF regLock = r THEN None ELSE regLock
  /\ teamLock' = [t \in Teams |-> IF teamLock[t] = r THEN None ELSE teamLock[t]]

(* A refusal, an error, a deadlock the database breaks, or a crash.        *)
Rollback(r) == Finish(r) /\ UNCHANGED roster

Abort(r) == pc[r] \in Running /\ Rollback(r)

(* A request arrives with its first read; one that read refuses changes    *)
(* nothing and is left out.                                                *)
Start(r, ask, t, label) ==
  /\ pc[r] = "idle"
  /\ req' = [req EXCEPT ![r] = ask]
  /\ at' = [at EXCEPT ![r] = t]
  /\ Goto(r, label)
  /\ UNCHANGED <<roster, locks>>

(* JoinTeam, LeaveTeam and the authentication of a submission read before  *)
(* their transaction begins.                                               *)
StartJoin(r, u, t) ==
  t \in teams /\ Start(r, [op |-> "join", user |-> u, to |-> t], None, "enroll")

StartLeave(r, u) == team[u] # None /\ Start(r, [op |-> "leave", user |-> u], team[u], "leave")
StartSolve(r, u) == team[u] # None /\ Start(r, [op |-> "solve", user |-> u], team[u], "solve")
StartCreate(r, u) == Start(r, [op |-> "create", user |-> u], None, "create")

(* The WHERE clause of each other statement on its first snapshot.         *)
CheckLeave(r) ==
  /\ pc[r] = "leave"
  /\ IF team[user(r)] = at[r] /\ at[r] \notin scored THEN Proceed(r, "detach") ELSE Rollback(r)

CheckKick(r, c, u) ==
  /\ u # c
  /\ team[u] \in teams \ scored
  /\ captain[team[u]] = c
  /\ Start(r, [op |-> "kick", by |-> c, user |-> u], team[u], "detach")

CheckRemove(r, u) ==
  /\ team[u] # None
  /\ Start(r, [op |-> "remove", user |-> u], team[u], "detach")

CheckMove(r, u, t) ==
  /\ team[u] \notin {None, t}
  /\ Start(r, [op |-> "move", user |-> u, to |-> t], team[u], "detach")

CheckTransfer(r, c, u) ==
  /\ team[u] \in teams
  /\ captain[team[u]] = c
  /\ Start(r, [op |-> "transfer", by |-> c, user |-> u], team[u], "seat")

CheckDisband(r, c) ==
  /\ team[c] \in teams
  /\ captain[team[c]] = c
  /\ Start(r, [op |-> "disband", user |-> c], team[c], "delete")

(* The member's row, checked again, and the trigger's lock.                *)
Detach(r) ==
  /\ pc[r] = "detach"
  /\ regLock = None
  /\ IF team[user(r)] = at[r]
     THEN /\ regLock' = r
          /\ Goto(r, IF op(r) = "kick" THEN "commit" ELSE "reassign")
          /\ UNCHANGED <<roster, teamLock, req, at>>
     ELSE Rollback(r)

TakeTeam(r, t, label) ==
  /\ teamLock[t] = None
  /\ teamLock' = [teamLock EXCEPT ![t] = r]
  /\ Goto(r, label)
  /\ UNCHANGED <<roster, regLock, req, at>>

(* ReassignCaptainAfterLeave.                                              *)
Reassign(r) ==
  LET next == IF op(r) = "move" THEN "enroll" ELSE "commit" IN
  /\ pc[r] = "reassign"
  /\ IF captain[at[r]] = user(r) THEN TakeTeam(r, at[r], next) ELSE Proceed(r, next)

(* Slip: team_size is counted, but nobody waits to count.                  *)
EnrollUnlocked(r) ==
  /\ pc[r] = "enroll"
  /\ IF /\ op(r) = "move" \/ team[user(r)] = None
        /\ Cardinality(members(req[r].to)) < TeamSize
        /\ req[r].to \in teams
     THEN Proceed(r, "adopt")
     ELSE Rollback(r)

(* EnrollUser: teamless (a move has just seen to that), under the cap, and *)
(* the foreign key.                                                        *)
Enroll(r) ==
  /\ pc[r] = "enroll"
  /\ regLock \in {None, r}
  /\ IF /\ op(r) = "move" \/ team[user(r)] = None
        /\ Cardinality(members(req[r].to)) < TeamSize
        /\ req[r].to \in teams
     THEN /\ regLock' = r /\ Goto(r, "adopt")
          /\ UNCHANGED <<roster, teamLock, req, at>>
     ELSE Rollback(r)

(* Slip: only the founder is ever given the seat.                          *)
AdoptNever(r) == pc[r] = "adopt" /\ Proceed(r, "commit")

(* AdoptCaptainlessTeam, for a sole member.                                *)
Adopt(r) ==
  /\ pc[r] = "adopt"
  /\ IF captain[req[r].to] = None /\ members(req[r].to) = {}
     THEN TakeTeam(r, req[r].to, "commit")
     ELSE Proceed(r, "commit")

(* CreateTeam, then EnrollUser for the founder.                            *)
InsertTeam(r) ==
  /\ pc[r] = "create"
  /\ regLock = None
  /\ \/ team[user(r)] # None /\ Rollback(r)
     \/ /\ team[user(r)] = None
        /\ \E t \in unused : at' = [at EXCEPT ![r] = t]
        /\ regLock' = r
        /\ Goto(r, "commit")
        /\ UNCHANGED <<roster, teamLock, req>>

(* TransferCaptaincy: the team's row, checked again.                       *)
MoveSeat(r) ==
  /\ pc[r] = "seat"
  /\ teamLock[at[r]] = None
  /\ IF captain[at[r]] = req[r].by THEN TakeTeam(r, at[r], "commit") ELSE Rollback(r)

Stamping(t) == {r \in Requests : pc[r] = "commit" /\ op(r) = "solve" /\ at[r] = t}

(* Slip: the history is looked up, and no solve in flight waited for.      *)
DeleteUnguarded(r) ==
  /\ pc[r] = "delete"
  /\ regLock = None /\ teamLock[at[r]] = None
  /\ IF captain[at[r]] = user(r) /\ at[r] \notin scored
     THEN /\ regLock' = r
          /\ teamLock' = [teamLock EXCEPT ![at[r]] = r]
          /\ Goto(r, "commit")
          /\ UNCHANGED <<roster, req, at>>
     ELSE Rollback(r)

(* DisbandTeam: the row, checked again, against the solves that share it;  *)
(* the RESTRICT keys of the ledger; the members set free, under the lock.  *)
Delete(r) ==
  /\ pc[r] = "delete"
  /\ regLock = None /\ teamLock[at[r]] = None
  /\ Stamping(at[r]) = {}
  /\ IF captain[at[r]] = user(r) /\ at[r] \notin scored
     THEN /\ regLock' = r
          /\ teamLock' = [teamLock EXCEPT ![at[r]] = r]
          /\ Goto(r, "commit")
          /\ UNCHANGED <<roster, req, at>>
     ELSE Rollback(r)

(* A solve stamps the team read at authentication, and shares its row.     *)
InsertSolve(r) ==
  /\ pc[r] = "solve"
  /\ ~\E d \in Requests : pc[d] = "commit" /\ op(d) = "disband" /\ at[d] = at[r]
  /\ IF at[r] \in teams THEN Proceed(r, "commit") ELSE Rollback(r)

(* The seat of a team one leaves and of a team one joins, where the        *)
(* transaction has it.                                                     *)
SeatLeft(r, t)   == IF teamLock[t] = r THEN Least(members(t) \ {user(r)}) ELSE captain[t]
SeatJoined(r, t) == IF teamLock[t] = r THEN user(r) ELSE captain[t]

CommitDetach(r) ==
  /\ pc[r] = "commit" /\ op(r) \in {"leave", "kick", "remove"}
  /\ team' = [team EXCEPT ![user(r)] = None]
  /\ captain' = [captain EXCEPT ![at[r]] = SeatLeft(r, at[r])]
  /\ Finish(r)
  /\ UNCHANGED <<teams, unused, scored>>

CommitJoin(r) ==
  /\ pc[r] = "commit" /\ op(r) = "join"
  /\ team' = [team EXCEPT ![user(r)] = req[r].to]
  /\ captain' = [captain EXCEPT ![req[r].to] = SeatJoined(r, req[r].to)]
  /\ Finish(r)
  /\ UNCHANGED <<teams, unused, scored>>

CommitMove(r) ==
  /\ pc[r] = "commit" /\ op(r) = "move"
  /\ team' = [team EXCEPT ![user(r)] = req[r].to]
  /\ captain' = [captain EXCEPT ![at[r]] = SeatLeft(r, at[r]),
                                ![req[r].to] = SeatJoined(r, req[r].to)]
  /\ Finish(r)
  /\ UNCHANGED <<teams, unused, scored>>

CommitCreate(r) ==
  /\ pc[r] = "commit" /\ op(r) = "create"
  /\ teams' = teams \cup {at[r]} /\ unused' = unused \ {at[r]}
  /\ team' = [team EXCEPT ![user(r)] = at[r]]
  /\ captain' = [captain EXCEPT ![at[r]] = user(r)]
  /\ Finish(r)
  /\ UNCHANGED scored

CommitTransfer(r) ==
  /\ pc[r] = "commit" /\ op(r) = "transfer"
  /\ captain' = [captain EXCEPT ![at[r]] = user(r)]
  /\ Finish(r)
  /\ UNCHANGED <<team, teams, unused, scored>>

CommitDisband(r) ==
  /\ pc[r] = "commit" /\ op(r) = "disband"
  /\ teams' = teams \ {at[r]}
  /\ captain' = [captain EXCEPT ![at[r]] = None]
  /\ team' = [u \in Users |-> IF team[u] = at[r] THEN None ELSE team[u]]
  /\ Finish(r)
  /\ UNCHANGED <<unused, scored>>

CommitSolve(r) ==
  /\ pc[r] = "commit" /\ op(r) = "solve"
  /\ scored' = scored \cup {at[r]}
  /\ Finish(r)
  /\ UNCHANGED <<team, teams, unused, captain>>

(* adminops CreateTeam: a team without a captain.                          *)
Provision(t) ==
  /\ t \in unused /\ regLock = None
  /\ teams' = teams \cup {t} /\ unused' = unused \ {t}
  /\ UNCHANGED <<team, captain, scored, locks, req, at, pc>>

Next ==
  \/ \E r \in Requests :
       \/ \E u \in Users :
            \/ StartLeave(r, u) \/ StartSolve(r, u) \/ StartCreate(r, u)
            \/ CheckRemove(r, u) \/ CheckDisband(r, u)
            \/ \E c \in Users : CheckKick(r, c, u) \/ CheckTransfer(r, c, u)
            \/ \E t \in Teams : StartJoin(r, u, t) \/ CheckMove(r, u, t)
       \/ CheckLeave(r) \/ Detach(r) \/ Reassign(r) \/ Enroll(r) \/ Adopt(r)
       \/ InsertTeam(r) \/ MoveSeat(r) \/ Delete(r) \/ InsertSolve(r)
       \/ CommitDetach(r) \/ CommitJoin(r) \/ CommitMove(r) \/ CommitCreate(r)
       \/ CommitTransfer(r) \/ CommitDisband(r) \/ CommitSolve(r) \/ Abort(r)
  \/ \E t \in Teams : Provision(t)

Spec == Init /\ [][Next]_vars
-----------------------------------------------------------------------------
(* Two racing for the last slot: the team_size cap is never exceeded.      *)
TeamSizeCap == \A t \in Teams : Cardinality(members(t)) <= TeamSize

(* "A move can never leave a populated team captainless"                   *)
(* (team_roster.go:107), nor can a departure or a join.                    *)
SeatFilled == \A t \in teams : members(t) # {} => captain[t] # None

(* No member and no solve of a team that is gone: disbanding races joins   *)
(* and the submissions in flight.                                          *)
NoGhostTeam == scored \subseteq teams /\ \A u \in Users : team[u] \in teams \cup {None}

(* TransferCaptaincy: "nothing moves unless both hold at commit time": the *)
(* seat goes to somebody who is then on the team.                          *)
SeatMovesToMember ==
  [][\A t \in Teams : captain'[t] \notin {captain[t], None} => team'[captain'[t]] = t]_vars
=============================================================================
