----------------------------- MODULE Enrol_proofs -----------------------------
(***************************************************************************)
(* No team exceeds its size, no populated team is without a captain, and   *)
(* nothing of a deleted team remains, for any number of requests, users    *)
(* and teams.                                                              *)
(***************************************************************************)
EXTENDS MCEnrol, Sequences, FiniteSetTheorems, WellFoundedInduction, TLAPS

USE TeamConstants

Waits == Holding \cup {"enroll"}
Labels == {"idle"} \cup Running
Detachers == {"leave", "kick", "remove", "move"}

(* At each label are the requests that reach it, with the team they read.  *)
Labelled(r) ==
  /\ pc[r] # "idle" => req[r] \in Asks
  /\ pc[r] = "leave" => op(r) = "leave"
  /\ pc[r] = "detach" => op(r) \in Detachers
  /\ pc[r] = "reassign" => op(r) \in Detachers \ {"kick"}
  /\ pc[r] \in {"enroll", "adopt"} => op(r) \in {"join", "move"}
  /\ pc[r] = "create" => op(r) = "create"
  /\ pc[r] = "seat" => op(r) = "transfer"
  /\ pc[r] = "delete" => op(r) = "disband"
  /\ pc[r] = "solve" => op(r) = "solve"
  /\ pc[r] # "idle" /\ op(r) \notin {"join", "create"} => at[r] \in Teams
  /\ pc[r] # "idle" /\ op(r) = "move" => at[r] # req[r].to

(* Whoever is about to change who is on which team holds the lock.         *)
Serial(r) ==
  \/ pc[r] \in {"reassign", "adopt"}
  \/ pc[r] = "enroll" /\ op(r) = "move"
  \/ pc[r] = "commit" /\ op(r) \notin {"solve", "transfer"}
Locked(r) == Serial(r) => regLock = r

(* What was judged under the lock still holds at the commit: there is room *)
(* in the team one joins, ...                                              *)
Joining(r) == pc[r] = "adopt" \/ (pc[r] = "commit" /\ op(r) \in {"join", "move"})
Admitted(r) == Joining(r) => req[r].to \in teams /\ Cardinality(members(req[r].to)) < TeamSize

(* ... and a captain, unless one is about to be the captain, ...           *)
Seated(r) == pc[r] = "commit" /\ op(r) \in {"join", "move"} /\ teamLock[req[r].to] # r =>
               captain[req[r].to] # None

(* ... a team one founds is new, and one that is disbanded has no solve,   *)
(* committed or in flight.                                                 *)
Founding(r) == pc[r] = "commit" /\ op(r) = "create" => at[r] \in unused
Stamps(s, t) == pc[s] = "commit" /\ op(s) = "solve" /\ at[s] = t
Stamped(s) == pc[s] = "commit" /\ op(s) = "solve" => at[s] \in teams
Unstamped(r) == pc[r] = "commit" /\ op(r) = "disband" =>
                  at[r] \notin scored /\ \A s \in Requests : ~Stamps(s, at[r])

Sound(r) == /\ Labelled(r) /\ Locked(r) /\ Admitted(r) /\ Seated(r)
            /\ Founding(r) /\ Stamped(r) /\ Unstamped(r)

Inv == /\ TypeOK /\ TeamSizeCap /\ SeatFilled /\ NoGhostTeam
       /\ \A r \in Requests : Sound(r)

-----------------------------------------------------------------------------
(* Facts about data *)

(* The fields a request has, by its kind.                                  *)
LEMMA AskFields ==
  ASSUME NEW ask \in Asks
  PROVE  /\ ask.op \in {"create", "leave", "disband", "solve", "remove", "join", "move", "kick", "transfer"}
         /\ ask.user \in Users
         /\ ask.op \in {"join", "move"} => ask.to \in Teams
         /\ ask.op \in {"kick", "transfer"} => ask.by \in Users
BY DEF Asks

(* None is no request, team or user.                                       *)
LEMMA NoneIsApart == None \notin Requests /\ None \notin Teams /\ None \notin Users
OBVIOUS

(* Users are ordered: the least of some is one of them.                    *)
Below == {ss \in Nat \X Nat : ss[1] < ss[2]}

(* The library's fact about <, for a relation written out.                 *)
LEMMA BelowIsWellFounded == IsWellFoundedOn(Below, Nat)
<1>1. OpToRel(<, Nat) = Below
  BY Zenon DEF OpToRel, Below
<1> QED BY <1>1, NatLessThanWellFounded, Zenon

LEMMA LeastIsOne ==
  ASSUME NEW S \in SUBSET Users
  PROVE  (S = {} => Least(S) = None) /\ (S # {} => Least(S) \in S)
<1>1. CASE S = {}
  BY <1>1 DEF Least
<1>2. CASE S # {}
  <2>1. S \subseteq Nat
    OBVIOUS
  <2>2. PICK u \in S : \A v \in S : <<v, u>> \notin Below
    BY <1>2, <2>1, BelowIsWellFounded, WFMin
  <2>3. ASSUME NEW v \in S PROVE u <= v
    <3>1. u \in Nat /\ v \in Nat /\ <<v, u>> \notin Below
      BY <2>1, <2>2
    <3> QED BY <3>1 DEF Below
  <2> QED BY <1>2, <2>3 DEF Least
<1> QED BY <1>1, <1>2

(* A set with one element more is one larger at most, and one with fewer   *)
(* elements is no larger.                                                  *)
LEMMA OneMore ==
  ASSUME NEW S, IsFiniteSet(S), NEW x, NEW T \in SUBSET (S \cup {x})
  PROVE  Cardinality(T) <= Cardinality(S) + 1
<1>1. /\ IsFiniteSet(S \cup {x})
      /\ Cardinality(S \cup {x}) \in {Cardinality(S), Cardinality(S) + 1}
  BY FS_AddElement
<1>2. Cardinality(S) \in Nat
  BY FS_CardinalityType
<1>3. Cardinality(T) \in Nat /\ Cardinality(T) <= Cardinality(S \cup {x})
  BY <1>1, FS_Subset, FS_CardinalityType
<1> QED BY <1>1, <1>2, <1>3

(* A team is a finite set.                                                 *)
LEMMA MembersFinite ==
  ASSUME NEW t
  PROVE  IsFiniteSet(members(t)) /\ Cardinality(members(t)) \in Nat
BY FS_Subset, FS_CardinalityType DEF members

(* Members only leave: no team grows.                                      *)
LEMMA FewerMembers ==
  ASSUME TeamSizeCap, NEW t \in Teams, members(t)' \subseteq members(t)
  PROVE  Cardinality(members(t)') <= TeamSize
<1>1. Cardinality(members(t)') \in Nat /\ Cardinality(members(t)') <= Cardinality(members(t))
  BY MembersFinite, FS_Subset, FS_CardinalityType
<1>2. Cardinality(members(t)) \in Nat /\ Cardinality(members(t)) <= TeamSize
  BY MembersFinite DEF TeamSizeCap
<1> QED BY <1>1, <1>2

-----------------------------------------------------------------------------
(* The steps of a request as the others see them *)

Safe == TeamSizeCap /\ SeatFilled /\ NoGhostTeam

Disbanding(q) == pc[q] = "commit" /\ op(q) = "disband"

(* A step of one request takes nothing from another.                       *)
Apart(r) ==
  \A q \in Requests \ {r} :
    /\ pc'[q] = pc[q] /\ req'[q] = req[q] /\ at'[q] = at[q]
    /\ regLock = q <=> regLock' = q
    /\ \A t \in Teams : teamLock[t] = q <=> teamLock'[t] = q

(* What another request has judged stays true when whoever holds the lock  *)
(* sees the same teams and the seats stay taken, and no stamp lands on a   *)
(* team it is about to disband.                                            *)
LEMMA Others ==
  ASSUME Inv, NEW r, NEW q \in Requests \ {r}, Apart(r),
         Serial(q) => /\ team' = team /\ teams' = teams /\ unused' = unused
                      /\ \A t \in Teams : captain[t] # None => captain'[t] # None,
         \A t \in Teams : Stamps(q, t) => t \in teams',
         Disbanding(q) => at[q] \notin scored' /\ \A s \in Requests : ~Stamps(s, at[q])'
  PROVE  Sound(q)'
<1>1. /\ Sound(q)
      /\ pc'[q] = pc[q] /\ req'[q] = req[q] /\ at'[q] = at[q]
      /\ regLock = q <=> regLock' = q
      /\ \A t \in Teams : teamLock[t] = q <=> teamLock'[t] = q
  BY DEF Inv, Apart
<1>2. Labelled(q)'
  BY <1>1 DEF Sound, Labelled, op
<1>3. Serial(q)' <=> Serial(q)
  BY <1>1 DEF Serial, op
<1>4. Locked(q)'
  BY <1>1, <1>3 DEF Sound, Locked
<1>5. Admitted(q)'
  <2> SUFFICES ASSUME Joining(q)'
               PROVE  (req[q].to \in teams /\ Cardinality(members(req[q].to)) < TeamSize)'
    BY DEF Admitted
  <2>1. Joining(q) /\ Serial(q)
    BY <1>1 DEF Joining, Serial, op
  <2>2. team' = team /\ teams' = teams
    BY <2>1
  <2>3. members(req[q].to)' = members(req[q].to)
    BY <1>1, <2>2 DEF members
  <2> QED BY <1>1, <2>1, <2>2, <2>3 DEF Sound, Admitted
<1>6. Seated(q)'
  <2> SUFFICES ASSUME pc'[q] = "commit", op(q)' \in {"join", "move"}, teamLock'[req'[q].to] # q
               PROVE  captain'[req'[q].to] # None
    BY DEF Seated
  <2>1. pc[q] = "commit" /\ op(q) \in {"join", "move"} /\ req[q].to \in Teams
    BY <1>1, AskFields DEF op, Sound, Labelled
  <2>2. captain[req[q].to] # None
    BY <1>1, <2>1 DEF Sound, Seated, op
  <2> QED BY <1>1, <2>1, <2>2 DEF Serial
<1>7. Founding(q)'
  BY <1>1 DEF Sound, Founding, Serial, op
<1>8. Stamped(q)'
  BY <1>1 DEF Sound, Stamped, Stamps, op, Labelled
<1>9. Unstamped(q)'
  BY <1>1 DEF Unstamped, Disbanding, op, Stamps
<1> QED BY <1>2, <1>4, <1>5, <1>6, <1>7, <1>8, <1>9 DEF Sound

(* A step that leaves the roster alone.                                    *)
LEMMA CalmStep ==
  ASSUME Inv, NEW r \in Requests, Apart(r), UNCHANGED roster, TypeOK', Sound(r)',
         \A q \in Requests : Disbanding(q) => (Stamps(r, at[q])' => Stamps(r, at[q]))
  PROVE  Inv'
<1>1. Safe'
  BY DEF Inv, Safe, TeamSizeCap, SeatFilled, NoGhostTeam, roster, members
<1>2. ASSUME NEW q \in Requests \ {r} PROVE Sound(q)'
  <2>1. Disbanding(q) => at[q] \notin scored' /\ \A s \in Requests : ~Stamps(s, at[q])'
    <3> SUFFICES ASSUME Disbanding(q), NEW s \in Requests
                 PROVE  at[q] \notin scored' /\ ~Stamps(s, at[q])'
      OBVIOUS
    <3>1. at[q] \notin scored /\ ~Stamps(s, at[q]) /\ ~Stamps(r, at[q])
      BY DEF Inv, Sound, Unstamped, Disbanding
    <3>2. CASE s = r
      BY <3>1, <3>2 DEF roster
    <3>3. CASE s # r
      BY <3>1, <3>3 DEF roster, Apart, Stamps, op
    <3> QED BY <3>2, <3>3
  <2>2. \A t \in Teams : Stamps(q, t) => t \in teams'
    BY DEF Inv, Sound, Stamped, Stamps, roster
  <2> QED BY <2>1, <2>2, Others DEF roster
<1> QED BY <1>1, <1>2 DEF Inv, Safe

(* A request that has ended promises nothing.                              *)
LEMMA IdleIsSound ==
  ASSUME NEW r \in Requests, pc'[r] = "idle"
  PROVE  Sound(r)'
BY DEF Sound, Labelled, Locked, Serial, Admitted, Joining, Seated, Founding, Stamped, Unstamped

(* A request that ends gives back its own locks and no others.             *)
LEMMA FinishIsApart ==
  ASSUME TypeOK, NEW r \in Requests, Finish(r)
  PROVE  /\ Apart(r) /\ pc'[r] = "idle"
         /\ pc' \in [Requests -> Labels] /\ req' \in [Requests -> Asks \cup {None}]
         /\ at' \in [Requests -> Teams \cup {None}]
         /\ regLock' \in {q \in Requests : pc'[q] \in Waits} \cup {None}
         /\ teamLock' \in [Teams -> {q \in Requests : pc'[q] \in Waits} \cup {None}]
BY DEF TypeOK, Finish, Goto, Apart, Labels, Waits, Running, Holding

(* An end that publishes nothing.                                          *)
LEMMA RollbackStep ==
  ASSUME Inv, NEW r \in Requests, Rollback(r)
  PROVE  Inv'
<1>1. Apart(r) /\ UNCHANGED roster /\ Sound(r)'
  BY FinishIsApart, IdleIsSound DEF Inv, Rollback
<1>2. TypeOK'
  BY FinishIsApart DEF Inv, Rollback, roster, TypeOK, Labels, Waits
<1>3. \A t : ~Stamps(r, t)'
  BY FinishIsApart DEF Inv, Rollback, Stamps
<1> QED BY <1>1, <1>2, <1>3, CalmStep

(* A request that arrives holds no lock.                                   *)
LEMMA StartStep ==
  ASSUME Inv, NEW r \in Requests, NEW ask \in Asks, NEW t \in Teams \cup {None},
         NEW label \in Running \ Holding, Start(r, ask, t, label),
         label = "enroll" => ask.op = "join", Labelled(r)'
  PROVE  Inv'
<1>1. Apart(r) /\ UNCHANGED roster
  BY DEF Inv, TypeOK, Start, Goto, Apart, locks
<1>2. TypeOK'
  BY DEF Inv, TypeOK, Start, Goto, locks, roster, Running, Holding
<1>3. pc'[r] = label /\ req'[r] = ask
  BY DEF Inv, TypeOK, Start, Goto
<1>4. Sound(r)' /\ \A u : ~Stamps(r, u)'
  BY <1>3 DEF Sound, Locked, Serial, Admitted, Joining, Seated, Founding, Stamped,
              Unstamped, Stamps, op, Running, Holding
<1> QED BY <1>1, <1>2, <1>4, CalmStep

(* A statement that locks nothing.                                         *)
LEMMA ProceedStep ==
  ASSUME Inv, NEW r \in Requests, NEW label \in Running, Proceed(r, label),
         pc[r] \in Waits => label \in Waits, Sound(r)',
         \A q \in Requests : Disbanding(q) => (Stamps(r, at[q])' => Stamps(r, at[q]))
  PROVE  Inv'
<1>1. Apart(r) /\ UNCHANGED roster
  BY DEF Inv, TypeOK, Proceed, Goto, Apart, locks
<1>2. TypeOK'
  BY DEF Inv, TypeOK, Proceed, Goto, locks, roster, Running, Waits
<1> QED BY <1>1, <1>2, CalmStep

(* A statement that takes a lock, or finds it is held already.             *)
LEMMA LockStep ==
  ASSUME Inv, NEW r \in Requests, NEW label \in Waits, Goto(r, label),
         UNCHANGED <<roster, req>>, at' \in [Requests -> Teams \cup {None}],
         \A q \in Requests \ {r} : at'[q] = at[q],
         regLock' \in {r, regLock}, regLock' # regLock => regLock = None,
         teamLock' \in [Teams -> Requests \cup {None}],
         \A t \in Teams : teamLock'[t] # teamLock[t] => teamLock[t] = None /\ teamLock'[t] = r,
         Sound(r)', op(r) # "solve"
  PROVE  Inv'
<1>1. Apart(r) /\ \A t : ~Stamps(r, t)'
  BY DEF Inv, TypeOK, Goto, Apart, Stamps, op
<1>2. TypeOK'
  <2>1. pc' = [pc EXCEPT ![r] = label] /\ label \in Waits /\ TypeOK
    BY DEF Goto, Inv
  <2>2. regLock' \in {q \in Requests : pc'[q] \in Holding \cup {"enroll"}} \cup {None}
    BY <2>1 DEF TypeOK, Waits
  <2>3. teamLock' \in [Teams -> {q \in Requests : pc'[q] \in Holding \cup {"enroll"}} \cup {None}]
    <3> SUFFICES ASSUME NEW t \in Teams
                 PROVE  teamLock'[t] \in {q \in Requests : pc'[q] \in Holding \cup {"enroll"}} \cup {None}
      OBVIOUS
    <3>1. CASE teamLock'[t] = teamLock[t]
      BY <2>1, <3>1 DEF TypeOK, Waits
    <3>2. CASE teamLock'[t] = r
      BY <2>1, <3>2 DEF TypeOK, Waits
    <3> QED BY <3>1, <3>2
  <2> QED BY <2>1, <2>2, <2>3 DEF TypeOK, roster, Running, Waits
<1> QED BY <1>1, <1>2, CalmStep

(* A commit: of the one that holds the lock, or one that only moves a seat *)
(* or stamps a team.                                                       *)
LEMMA CommitStep ==
  ASSUME Inv, NEW r \in Requests, pc[r] = "commit", Finish(r), Safe',
         team' \in [Users -> Teams \cup {None}], teams' \subseteq Teams,
         unused' \subseteq Teams \ teams', captain' \in [Teams -> Users \cup {None}],
         scored' \subseteq Teams,
         \/ Serial(r)
         \/ /\ team' = team /\ teams' = teams /\ unused' = unused
            /\ \A t \in Teams : captain[t] # None => captain'[t] # None
            /\ \A q \in Requests : Disbanding(q) => at[q] \notin scored',
         \A q \in Requests \ {r}, t \in Teams : Stamps(q, t) => t \in teams'
  PROVE  Inv'
<1>1. Apart(r) /\ Sound(r)' /\ pc'[r] = "idle"
  BY FinishIsApart, IdleIsSound DEF Inv
<1>2. TypeOK'
  BY FinishIsApart DEF Inv, TypeOK, Labels, Waits
<1>3. ASSUME NEW q \in Requests \ {r} PROVE Sound(q)'
  <2>1. Serial(r) => ~Serial(q)
    BY DEF Inv, Sound, Locked
  <2>2. Disbanding(q) => Serial(q)
    BY DEF Disbanding, Serial
  <2>3. Disbanding(q) => at[q] \notin scored' /\ \A s \in Requests : ~Stamps(s, at[q])'
    <3> SUFFICES ASSUME Disbanding(q), NEW s \in Requests
                 PROVE  at[q] \notin scored' /\ ~Stamps(s, at[q])'
      OBVIOUS
    <3>1. at[q] \notin scored'
      BY <2>1, <2>2
    <3>2. ~Stamps(s, at[q])
      BY DEF Inv, Sound, Unstamped, Disbanding
    <3>3. ~Stamps(s, at[q])'
      BY <1>1, <3>2 DEF Apart, Stamps, op
    <3> QED BY <3>1, <3>3
  <2> QED BY <1>1, <2>1, <2>3, Others
<1> QED BY <1>1, <1>2, <1>3 DEF Inv, Safe

-----------------------------------------------------------------------------
(* The statements, one by one *)

(* What a request read when it arrived is a team.                          *)
LEMMA ArrivalSteps ==
  ASSUME Inv, NEW r \in Requests, NEW u \in Users,
         \/ StartLeave(r, u) \/ StartSolve(r, u) \/ StartCreate(r, u)
         \/ CheckRemove(r, u) \/ CheckDisband(r, u)
         \/ \E c \in Users : CheckKick(r, c, u) \/ CheckTransfer(r, c, u)
         \/ \E t \in Teams : StartJoin(r, u, t) \/ CheckMove(r, u, t)
  PROVE  Inv'
<1>1. /\ team[u] \in Teams \cup {None} /\ (team[u] \in teams => team[u] \in Teams)
      /\ None \notin Teams
  BY DEF Inv, TypeOK
<1>2. ASSUME NEW ask \in Asks, NEW h \in Teams \cup {None}, NEW label \in Running \ Holding,
             Start(r, ask, h, label)
      PROVE  pc'[r] = label /\ req'[r] = ask /\ at'[r] = h
  BY <1>2 DEF Inv, TypeOK, Start, Goto
<1>3. ASSUME NEW t \in Teams, StartJoin(r, u, t) PROVE Inv'
  <2> DEFINE ask == [op |-> "join", user |-> u, to |-> t]
  <2>1. ask \in Asks /\ Start(r, ask, None, "enroll") /\ "enroll" \in Running \ Holding
    BY <1>3 DEF StartJoin, Asks, Running, Holding
  <2>2. Labelled(r)'
    BY <1>2, <2>1 DEF Labelled, op
  <2> QED BY <2>1, <2>2, StartStep
<1>4. CASE StartLeave(r, u)
  <2> DEFINE ask == [op |-> "leave", user |-> u]
  <2>1. ask \in Asks /\ Start(r, ask, team[u], "leave") /\ "leave" \in Running \ Holding
    BY <1>4 DEF StartLeave, Asks, Running, Holding
  <2>2. Labelled(r)'
    BY <1>1, <1>2, <1>4, <2>1 DEF Labelled, op, StartLeave
  <2> QED BY <1>1, <2>1, <2>2, StartStep
<1>5. CASE StartSolve(r, u)
  <2> DEFINE ask == [op |-> "solve", user |-> u]
  <2>1. ask \in Asks /\ Start(r, ask, team[u], "solve") /\ "solve" \in Running \ Holding
    BY <1>5 DEF StartSolve, Asks, Running, Holding
  <2>2. Labelled(r)'
    BY <1>1, <1>2, <1>5, <2>1 DEF Labelled, op, StartSolve
  <2> QED BY <1>1, <2>1, <2>2, StartStep
<1>6. CASE StartCreate(r, u)
  <2> DEFINE ask == [op |-> "create", user |-> u]
  <2>1. ask \in Asks /\ Start(r, ask, None, "create") /\ "create" \in Running \ Holding
    BY <1>6 DEF StartCreate, Asks, Running, Holding
  <2>2. Labelled(r)'
    BY <1>2, <2>1 DEF Labelled, op
  <2> QED BY <2>1, <2>2, StartStep
<1>7. CASE CheckRemove(r, u)
  <2> DEFINE ask == [op |-> "remove", user |-> u]
  <2>1. ask \in Asks /\ Start(r, ask, team[u], "detach") /\ "detach" \in Running \ Holding
    BY <1>7 DEF CheckRemove, Asks, Running, Holding
  <2>2. Labelled(r)'
    BY <1>1, <1>2, <1>7, <2>1 DEF Labelled, op, CheckRemove, Detachers
  <2> QED BY <1>1, <2>1, <2>2, StartStep
<1>8. CASE CheckDisband(r, u)
  <2> DEFINE ask == [op |-> "disband", user |-> u]
  <2>1. ask \in Asks /\ Start(r, ask, team[u], "delete") /\ "delete" \in Running \ Holding
    BY <1>8 DEF CheckDisband, Asks, Running, Holding
  <2>2. Labelled(r)'
    BY <1>1, <1>2, <1>8, <2>1 DEF Labelled, op, CheckDisband
  <2> QED BY <1>1, <2>1, <2>2, StartStep
<1>9. ASSUME NEW c \in Users, CheckKick(r, c, u) PROVE Inv'
  <2> DEFINE ask == [op |-> "kick", by |-> c, user |-> u]
  <2>1. ask \in Asks /\ Start(r, ask, team[u], "detach") /\ "detach" \in Running \ Holding
    BY <1>9 DEF CheckKick, Asks, Running, Holding
  <2>2. Labelled(r)'
    BY <1>1, <1>2, <1>9, <2>1 DEF Labelled, op, CheckKick, Detachers
  <2> QED BY <1>1, <2>1, <2>2, StartStep
<1>10. ASSUME NEW c \in Users, CheckTransfer(r, c, u) PROVE Inv'
  <2> DEFINE ask == [op |-> "transfer", by |-> c, user |-> u]
  <2>1. ask \in Asks /\ Start(r, ask, team[u], "seat") /\ "seat" \in Running \ Holding
    BY <1>10 DEF CheckTransfer, Asks, Running, Holding
  <2>2. Labelled(r)'
    BY <1>1, <1>2, <1>10, <2>1 DEF Labelled, op, CheckTransfer
  <2> QED BY <1>1, <2>1, <2>2, StartStep
<1>11. ASSUME NEW t \in Teams, CheckMove(r, u, t) PROVE Inv'
  <2> DEFINE ask == [op |-> "move", user |-> u, to |-> t]
  <2>1. ask \in Asks /\ Start(r, ask, team[u], "detach") /\ "detach" \in Running \ Holding
    BY <1>11 DEF CheckMove, Asks, Running, Holding
  <2>2. Labelled(r)'
    BY <1>1, <1>2, <1>11, <2>1 DEF Labelled, op, CheckMove, Detachers
  <2> QED BY <1>1, <2>1, <2>2, StartStep
<1> QED BY <1>3, <1>4, <1>5, <1>6, <1>7, <1>8, <1>9, <1>10, <1>11

(* Statements that lock nothing: nobody is judged by them, but a solve     *)
(* stamps a team, which then exists and is not about to be disbanded.      *)
LEMMA QuietSteps ==
  ASSUME Inv, NEW r \in Requests, CheckLeave(r) \/ InsertSolve(r) \/ Abort(r)
  PROVE  Inv'
<1>1. ASSUME NEW label \in Running, Proceed(r, label)
      PROVE  /\ pc'[r] = label /\ req' = req /\ at' = at /\ UNCHANGED <<roster, locks>>
             /\ \A q \in Requests : op(q)' = op(q)
  BY <1>1 DEF Inv, TypeOK, Proceed, Goto, op
<1>2. CASE CheckLeave(r)
  <2>1. CASE Rollback(r)
    BY <2>1, RollbackStep
  <2>2. CASE Proceed(r, "detach")
    <3>1. Labelled(r) /\ pc[r] = "leave" /\ "detach" \in Running
      BY <1>2 DEF CheckLeave, Inv, Sound, Running
    <3>2. Labelled(r)'
      BY <1>1, <2>2, <3>1 DEF Labelled, op, Detachers
    <3>3. Sound(r)' /\ \A t : ~Stamps(r, t)'
      BY <1>1, <2>2, <3>1, <3>2 DEF Sound, Locked, Serial, Admitted, Joining, Seated, Founding,
                                    Stamped, Unstamped, Stamps
    <3> QED BY <2>2, <3>1, <3>3, ProceedStep DEF Waits, Holding
  <2> QED BY <1>2, <2>1, <2>2 DEF CheckLeave
<1>3. CASE InsertSolve(r)
  <2>1. CASE Rollback(r)
    BY <2>1, RollbackStep
  <2>2. CASE at[r] \in teams /\ Proceed(r, "commit")
    <3>1. Labelled(r) /\ pc[r] = "solve" /\ "commit" \in Running \cap Waits
      BY <1>3 DEF InsertSolve, Inv, Sound, Running, Holding, Waits
    <3>2. op(r) = "solve" /\ pc'[r] = "commit" /\ op(r)' = "solve" /\ at'[r] \in teams'
      BY <1>1, <2>2, <3>1 DEF Labelled, roster
    <3>3. Labelled(r)'
      BY <1>1, <2>2, <3>1, <3>2 DEF Labelled, op
    <3>4. Sound(r)'
      BY <3>2, <3>3 DEF Sound, Locked, Serial, Admitted, Joining, Seated, Founding, Stamped, Unstamped
    <3>5. ASSUME NEW q \in Requests, Disbanding(q) PROVE ~Stamps(r, at[q])'
      BY <1>1, <1>3, <2>2, <3>1, <3>5 DEF InsertSolve, Disbanding, Stamps
    <3> QED BY <2>2, <3>1, <3>4, <3>5, ProceedStep DEF Waits, Holding
  <2> QED BY <1>3, <2>1, <2>2 DEF InsertSolve
<1>4. CASE Abort(r)
  BY <1>4, RollbackStep DEF Abort
<1> QED BY <1>2, <1>3, <1>4

(* Statements that wait for the lock of the roster, and judge under it.    *)
LEMMA WaitingSteps ==
  ASSUME Inv, NEW r \in Requests, Detach(r) \/ Enroll(r) \/ InsertTeam(r) \/ Delete(r)
  PROVE  Inv'
<1> USE DEF roster
<1>1. CASE Rollback(r)
  BY <1>1, RollbackStep
<1>2. TypeOK /\ Labelled(r) /\ NoGhostTeam /\ Locked(r)
  BY DEF Inv, Sound
<1>3. CASE Detach(r) /\ ~Rollback(r)
  <2> DEFINE label == IF op(r) = "kick" THEN "commit" ELSE "reassign"
  <2>1. /\ pc[r] = "detach" /\ op(r) \in Detachers /\ at[r] \in Teams /\ label \in Waits
        /\ Goto(r, label) /\ regLock = None /\ regLock' = r
        /\ UNCHANGED <<roster, teamLock, req, at>>
    BY <1>2, <1>3 DEF Detach, Labelled, Detachers, Waits, Holding
  <2>2. pc'[r] = label /\ op(r)' = op(r)
    BY <1>2, <2>1 DEF TypeOK, Goto, op
  <2>3. Sound(r)'
    BY <1>2, <2>1, <2>2 DEF Sound, Labelled, Locked, Admitted, Joining, Seated, Founding,
                            Stamped, Unstamped, Detachers, op
  <2> HIDE DEF label
  <2>4. at' \in [Requests -> Teams \cup {None}] /\ teamLock' \in [Teams -> Requests \cup {None}]
    BY <1>2, <2>1 DEF TypeOK
  <2>5. op(r) # "solve"
    BY <2>1 DEF Detachers
  <2> QED BY <2>1, <2>3, <2>4, <2>5, LockStep
<1>4. CASE Enroll(r) /\ ~Rollback(r)
  <2>1. /\ pc[r] = "enroll" /\ op(r) \in {"join", "move"} /\ "adopt" \in Waits
        /\ Goto(r, "adopt") /\ regLock \in {None, r} /\ regLock' = r
        /\ UNCHANGED <<roster, teamLock, req, at>>
        /\ req[r].to \in teams /\ Cardinality(members(req[r].to)) < TeamSize
    BY <1>2, <1>4 DEF Enroll, Labelled, Waits, Holding
  <2>2. pc'[r] = "adopt" /\ op(r)' = op(r) /\ members(req[r].to)' = members(req[r].to)
    BY <1>2, <2>1 DEF TypeOK, Goto, op, members
  <2>3. Labelled(r)'
    BY <1>2, <2>1, <2>2 DEF Labelled, op
  <2>4. Admitted(r)'
    BY <2>1, <2>2 DEF Admitted
  <2>5. Sound(r)'
    BY <2>1, <2>2, <2>3, <2>4 DEF Sound, Locked, Seated, Founding, Stamped, Unstamped
  <2>6. at' \in [Requests -> Teams \cup {None}] /\ teamLock' \in [Teams -> Requests \cup {None}]
    BY <1>2, <2>1 DEF TypeOK
  <2> QED BY <2>1, <2>5, <2>6, LockStep
<1>5. CASE InsertTeam(r) /\ ~Rollback(r)
  <2>1. PICK t \in unused :
          /\ pc[r] = "create" /\ op(r) = "create" /\ "commit" \in Waits
          /\ Goto(r, "commit") /\ regLock = None /\ regLock' = r
          /\ at' = [at EXCEPT ![r] = t] /\ UNCHANGED <<roster, teamLock, req>>
    BY <1>2, <1>5 DEF InsertTeam, Labelled, Waits, Holding
  <2>2. pc'[r] = "commit" /\ op(r)' = "create" /\ at'[r] = t /\ t \in Teams
    BY <1>2, <2>1 DEF TypeOK, Goto, op
  <2>3. Labelled(r)'
    BY <1>2, <2>1, <2>2 DEF Labelled, op
  <2>4. Sound(r)'
    BY <2>1, <2>2, <2>3 DEF Sound, Locked, Admitted, Joining, Seated, Founding, Stamped, Unstamped
  <2>5. at' \in [Requests -> Teams \cup {None}] /\ teamLock' \in [Teams -> Requests \cup {None}]
    BY <1>2, <2>1, <2>2 DEF TypeOK
  <2> QED BY <2>1, <2>4, <2>5, LockStep DEF TypeOK, Inv
<1>6. CASE Delete(r) /\ ~Rollback(r)
  <2>1. /\ pc[r] = "delete" /\ op(r) = "disband" /\ "commit" \in Waits /\ at[r] \in Teams
        /\ Goto(r, "commit") /\ regLock = None /\ regLock' = r
        /\ teamLock[at[r]] = None /\ teamLock' = [teamLock EXCEPT ![at[r]] = r]
        /\ UNCHANGED <<roster, req, at>>
        /\ Stamping(at[r]) = {} /\ at[r] \notin scored
    BY <1>2, <1>6 DEF Delete, Labelled, Waits, Holding
  <2>2. pc'[r] = "commit" /\ op(r)' = "disband" /\ at'[r] = at[r]
    BY <1>2, <2>1 DEF TypeOK, Goto, op
  <2>3. Labelled(r)'
    BY <1>2, <2>1, <2>2 DEF Labelled, op
  <2>4. ASSUME NEW s \in Requests PROVE ~Stamps(s, at[r])'
    <3>1. CASE s = r
      BY <2>2, <3>1 DEF Stamps
    <3>2. CASE s # r
      <4>1. s \notin Stamping(at[r])
        BY <2>1
      <4> QED BY <1>2, <2>1, <3>2, <4>1 DEF Stamps, Stamping, op, Goto, TypeOK
    <3> QED BY <3>1, <3>2
  <2>5. Sound(r)'
    BY <2>1, <2>2, <2>3, <2>4 DEF Sound, Locked, Admitted, Joining, Seated, Founding, Stamped, Unstamped
  <2>6. /\ at' \in [Requests -> Teams \cup {None}] /\ teamLock' \in [Teams -> Requests \cup {None}]
        /\ \A t \in Teams : teamLock'[t] # teamLock[t] => teamLock[t] = None /\ teamLock'[t] = r
    BY <1>2, <2>1 DEF TypeOK
  <2> QED BY <2>1, <2>5, <2>6, LockStep
<1> QED BY <1>1, <1>3, <1>4, <1>5, <1>6

(* Statements that write a team's row.                                     *)
LEMMA SeatSteps ==
  ASSUME Inv, NEW r \in Requests, Reassign(r) \/ Adopt(r) \/ MoveSeat(r)
  PROVE  Inv'
<1> USE DEF roster
<1>1. CASE Rollback(r)
  BY <1>1, RollbackStep
<1>2. TypeOK /\ Labelled(r) /\ Locked(r) /\ SeatFilled /\ Admitted(r)
  BY DEF Inv, Sound
<1>3. ASSUME NEW label \in Waits, NEW t \in Teams, op(r) # "solve",
             Proceed(r, label) \/ TakeTeam(r, t, label), Sound(r)'
      PROVE  Inv'
  <2>1. Goto(r, label) /\ UNCHANGED <<roster, req, at, regLock>>
    BY <1>3 DEF Proceed, TakeTeam, locks
  <2>2. /\ teamLock' \in [Teams -> Requests \cup {None}]
        /\ \A h \in Teams : teamLock'[h] # teamLock[h] => teamLock[h] = None /\ teamLock'[h] = r
    BY <1>2, <1>3 DEF Proceed, TakeTeam, locks, TypeOK
  <2>3. at' \in [Requests -> Teams \cup {None}]
    BY <1>2, <2>1 DEF TypeOK
  <2> QED BY <1>3, <2>1, <2>2, <2>3, LockStep
<1>4. CASE Reassign(r)
  <2> DEFINE next == IF op(r) = "move" THEN "enroll" ELSE "commit"
  <2>1. /\ pc[r] = "reassign" /\ op(r) \in {"leave", "remove", "move"} /\ at[r] \in Teams
        /\ Proceed(r, next) \/ TakeTeam(r, at[r], next)
    BY <1>2, <1>4 DEF Reassign, Labelled, Detachers
  <2>2. /\ pc'[r] = next /\ op(r)' = op(r) /\ at' = at /\ req' = req /\ regLock' = r
    BY <1>2, <2>1 DEF Proceed, TakeTeam, Goto, TypeOK, locks, op, Locked, Serial
  <2>3. next \in Waits
    BY DEF Waits, Holding
  <2>4. Labelled(r)'
    BY <1>2, <2>1, <2>2 DEF Labelled, Detachers, op
  <2>5. Sound(r)'
    BY <2>1, <2>2, <2>4 DEF Sound, Locked, Admitted, Joining, Seated, Founding, Stamped, Unstamped
  <2> QED BY <1>3, <2>1, <2>3, <2>5
<1>5. CASE Adopt(r)
  <2> DEFINE to == req[r].to
  <2>1. /\ pc[r] = "adopt" /\ op(r) \in {"join", "move"} /\ "commit" \in Waits
        /\ to \in teams /\ to \in Teams /\ Cardinality(members(to)) < TeamSize /\ regLock = r
    BY <1>2, <1>5 DEF Adopt, Labelled, Admitted, Joining, TypeOK, Waits, Holding, Locked, Serial
  <2>2. \/ TakeTeam(r, to, "commit")
        \/ Proceed(r, "commit") /\ captain[to] # None
    BY <1>2, <1>5, <2>1 DEF Adopt, SeatFilled
  <2>3. /\ pc'[r] = "commit" /\ op(r)' = op(r) /\ at' = at /\ req' = req /\ regLock' = r
        /\ UNCHANGED roster
    BY <1>2, <2>1, <2>2 DEF Proceed, TakeTeam, Goto, TypeOK, locks, op
  <2>4. Labelled(r)'
    BY <1>2, <2>1, <2>3 DEF Labelled, op
  <2>5. Admitted(r)'
    BY <2>1, <2>3 DEF Admitted, members
  <2>6. Seated(r)'
    BY <1>2, <2>1, <2>2, <2>3 DEF Seated, TakeTeam, TypeOK
  <2>7. Sound(r)'
    BY <2>1, <2>3, <2>4, <2>5, <2>6 DEF Sound, Locked, Founding, Stamped, Unstamped
  <2> QED BY <1>3, <2>1, <2>2, <2>7
<1>6. CASE MoveSeat(r) /\ ~Rollback(r)
  <2>1. /\ pc[r] = "seat" /\ op(r) = "transfer" /\ "commit" \in Waits /\ at[r] \in Teams
        /\ TakeTeam(r, at[r], "commit")
    BY <1>2, <1>6 DEF MoveSeat, Labelled, Waits, Holding
  <2>2. pc'[r] = "commit" /\ op(r)' = "transfer" /\ at' = at /\ req' = req
    BY <1>2, <2>1 DEF TakeTeam, Goto, TypeOK, op
  <2>3. Labelled(r)'
    BY <1>2, <2>1, <2>2 DEF Labelled, op
  <2>4. Sound(r)'
    BY <2>2, <2>3 DEF Sound, Locked, Serial, Admitted, Joining, Seated, Founding, Stamped, Unstamped
  <2> QED BY <1>3, <2>1, <2>4
<1> QED BY <1>1, <1>4, <1>5, <1>6

(* An administrator's new team has nobody in it.                           *)
LEMMA ProvisionStep ==
  ASSUME Inv, NEW t \in Teams, Provision(t)
  PROVE  Inv'
<1>1. /\ t \in unused /\ regLock = None
      /\ teams' = teams \cup {t} /\ unused' = unused \ {t}
      /\ UNCHANGED <<team, captain, scored, regLock, teamLock, req, at, pc>>
  BY DEF Provision, locks
<1>2. TypeOK'
  BY <1>1 DEF Inv, TypeOK
<1>3. Safe'
  <2>1. \A h : members(h)' = members(h)
    BY <1>1 DEF members
  <2>2. members(t) = {}
    BY <1>1 DEF Inv, NoGhostTeam, TypeOK, members
  <2>3. SeatFilled'
    <3> SUFFICES ASSUME NEW h \in teams', members(h)' # {}
                 PROVE  captain'[h] # None
      BY DEF SeatFilled
    <3>1. h \in teams
      BY <1>1, <2>1, <2>2
    <3> QED BY <1>1, <2>1, <3>1 DEF Inv, SeatFilled
  <2> QED BY <1>1, <2>1, <2>3 DEF Safe, Inv, TeamSizeCap, NoGhostTeam
<1>4. ASSUME NEW q \in Requests PROVE Sound(q)'
  <2>1. ~Serial(q)
    BY <1>1 DEF Inv, Sound, Locked
  <2>2. Labelled(q)' /\ Locked(q)'
    BY <1>1, <2>1 DEF Inv, Sound, Labelled, Locked, Serial, op
  <2>3. Admitted(q)' /\ Seated(q)' /\ Founding(q)' /\ Unstamped(q)'
    BY <1>1, <2>1 DEF Admitted, Joining, Seated, Founding, Unstamped, Serial, op
  <2>4. Stamped(q)'
    BY <1>1 DEF Inv, Sound, Stamped, op
  <2> QED BY <2>2, <2>3, <2>4 DEF Sound
<1> QED BY <1>2, <1>3, <1>4 DEF Inv, Safe

-----------------------------------------------------------------------------
(* The commits, one by one *)

(* One user goes from where they are to a team with room, or to none.      *)
LEMMA OneMoves ==
  ASSUME TypeOK, TeamSizeCap, NEW u \in Users, NEW h \in Teams \cup {None},
         team' = [team EXCEPT ![u] = h],
         h \in Teams => Cardinality(members(h)) < TeamSize
  PROVE  /\ TeamSizeCap' /\ team' \in [Users -> Teams \cup {None}]
         /\ \A t \in Teams : members(t)' = IF t = h THEN members(t) \cup {u} ELSE members(t) \ {u}
<1>1. team' \in [Users -> Teams \cup {None}]
  BY DEF TypeOK
<1>2. \A t \in Teams : members(t)' = IF t = h THEN members(t) \cup {u} ELSE members(t) \ {u}
  BY DEF TypeOK, members
<1>3. ASSUME NEW t \in Teams PROVE Cardinality(members(t)') <= TeamSize
  <2>1. CASE t = h
    <3>1. Cardinality(members(t)') <= Cardinality(members(t)) + 1
      <4>1. members(t)' \in SUBSET (members(t) \cup {u})
        BY <1>2, <2>1
      <4> QED BY <4>1, MembersFinite, OneMore
    <3>2. Cardinality(members(t)) \in Nat /\ Cardinality(members(t)) < TeamSize /\ TeamSize \in Nat
      BY <2>1, MembersFinite
    <3>3. Cardinality(members(t)') \in Nat
      <4>1. IsFiniteSet(members(t) \cup {u})
        BY MembersFinite, FS_AddElement
      <4>2. IsFiniteSet(members(t)')
        BY <1>2, <2>1, <4>1
      <4> QED BY <4>2, FS_CardinalityType
    <3> QED BY <3>1, <3>2, <3>3
  <2>2. CASE t # h
    <3>1. members(t)' \subseteq members(t)
      BY <1>2, <2>2
    <3> QED BY <3>1, FewerMembers
  <2> QED BY <2>1, <2>2
<1> QED BY <1>1, <1>2, <1>3 DEF TeamSizeCap

(* The seat of a team somebody leaves: whoever is left, the captain or     *)
(* another, has it.                                                        *)
LEMMA SeatLeftHolds ==
  ASSUME Inv, NEW r \in Requests, NEW t \in teams, user(r) \in Users
  PROVE  /\ SeatLeft(r, t) \in Users \cup {None}
         /\ members(t) \ {user(r)} # {} => SeatLeft(r, t) # None
<1>1. members(t) \ {user(r)} \in SUBSET Users /\ t \in Teams
  BY DEF Inv, TypeOK, members
<1>2. captain[t] \in Users \cup {None} /\ (members(t) \ {user(r)} # {} => captain[t] # None)
  BY <1>1 DEF Inv, TypeOK, SeatFilled
<1>3. /\ Least(members(t) \ {user(r)}) \in Users \cup {None}
      /\ members(t) \ {user(r)} # {} => Least(members(t) \ {user(r)}) # None
  BY <1>1, LeastIsOne
<1> QED BY <1>2, <1>3 DEF SeatLeft

(* Somebody leaves, is kicked or removed.                                  *)
LEMMA CommitDetachStep ==
  ASSUME Inv, NEW r \in Requests, CommitDetach(r)
  PROVE  Inv'
<1>1. /\ pc[r] = "commit" /\ op(r) \in {"leave", "kick", "remove"} /\ user(r) \in Users
      /\ at[r] \in Teams /\ Serial(r)
  BY AskFields DEF CommitDetach, Inv, Sound, Labelled, op, user, Serial
<1>2. /\ Finish(r) /\ team' = [team EXCEPT ![user(r)] = None]
      /\ captain' = [captain EXCEPT ![at[r]] = SeatLeft(r, at[r])]
      /\ UNCHANGED <<teams, unused, scored>>
  BY DEF CommitDetach
<1>3. /\ TeamSizeCap' /\ team' \in [Users -> Teams \cup {None}]
      /\ \A t \in Teams : members(t)' = members(t) \ {user(r)}
  BY <1>1, <1>2, OneMoves DEF Inv
<1>4. captain' \in [Teams -> Users \cup {None}]
  <2>1. SeatLeft(r, at[r]) \in Users \cup {None}
    <3>1. captain[at[r]] \in Users \cup {None}
      BY <1>1 DEF Inv, TypeOK
    <3>2. Least(members(at[r]) \ {user(r)}) \in Users \cup {None}
      BY LeastIsOne DEF members
    <3> QED BY <3>1, <3>2 DEF SeatLeft
  <2> QED BY <1>2, <2>1 DEF Inv, TypeOK
<1>5. SeatFilled'
  <2> SUFFICES ASSUME NEW t \in teams, t \in Teams, members(t)' # {}
               PROVE  captain'[t] # None
    BY <1>2 DEF SeatFilled, Inv, TypeOK
  <2>1. members(t) \ {user(r)} # {}
    BY <1>3
  <2>2. CASE t = at[r]
    BY <1>1, <1>2, <2>1, <2>2, SeatLeftHolds DEF Inv, TypeOK
  <2>3. CASE t # at[r]
    BY <1>2, <2>1, <2>3 DEF Inv, TypeOK, SeatFilled
  <2> QED BY <2>2, <2>3
<1>6. NoGhostTeam'
  BY <1>2 DEF Inv, TypeOK, NoGhostTeam
<1>7. /\ teams' \subseteq Teams /\ unused' \subseteq Teams \ teams' /\ scored' \subseteq Teams
      /\ \A q \in Requests, t \in Teams : Stamps(q, t) => t \in teams'
  BY <1>2 DEF Inv, TypeOK, Sound, Stamped, Stamps
<1> QED BY <1>1, <1>2, <1>3, <1>4, <1>5, <1>6, <1>7, CommitStep DEF Safe

(* A member joins a team that has room, and takes the seat if it was theirs*)
(* to take.                                                                *)
LEMMA CommitJoinStep ==
  ASSUME Inv, NEW r \in Requests, CommitJoin(r)
  PROVE  Inv'
<1> DEFINE to == req[r].to
<1>1. /\ pc[r] = "commit" /\ op(r) = "join" /\ user(r) \in Users /\ to \in Teams /\ Serial(r)
      /\ to \in teams /\ Cardinality(members(to)) < TeamSize
      /\ teamLock[to] # r => captain[to] # None
  BY AskFields DEF CommitJoin, Inv, Sound, Labelled, op, user, Serial, Admitted, Joining, Seated
<1>2. /\ Finish(r) /\ team' = [team EXCEPT ![user(r)] = to]
      /\ captain' = [captain EXCEPT ![to] = SeatJoined(r, to)]
      /\ UNCHANGED <<teams, unused, scored>>
  BY DEF CommitJoin
<1> HIDE DEF to
<1>3. /\ TeamSizeCap' /\ team' \in [Users -> Teams \cup {None}]
      /\ \A t \in Teams : members(t)' = IF t = to THEN members(t) \cup {user(r)}
                                                  ELSE members(t) \ {user(r)}
  BY <1>1, <1>2, OneMoves DEF Inv
<1>4. SeatJoined(r, to) \in Users \cup {None} /\ SeatJoined(r, to) # None
  BY <1>1 DEF SeatJoined, Inv, TypeOK
<1>5. captain' \in [Teams -> Users \cup {None}]
  BY <1>2, <1>4 DEF Inv, TypeOK
<1>6. SeatFilled'
  <2> SUFFICES ASSUME NEW t \in teams, t \in Teams, members(t)' # {}
               PROVE  captain'[t] # None
    BY <1>2 DEF SeatFilled, Inv, TypeOK
  <2>1. CASE t = to
    BY <1>2, <1>4, <2>1 DEF Inv, TypeOK
  <2>2. CASE t # to
    BY <1>2, <1>3, <2>2 DEF Inv, TypeOK, SeatFilled
  <2> QED BY <2>1, <2>2
<1>7. NoGhostTeam'
  BY <1>1, <1>2 DEF Inv, TypeOK, NoGhostTeam
<1>8. /\ teams' \subseteq Teams /\ unused' \subseteq Teams \ teams' /\ scored' \subseteq Teams
      /\ \A q \in Requests, t \in Teams : Stamps(q, t) => t \in teams'
  BY <1>2 DEF Inv, TypeOK, Sound, Stamped, Stamps
<1> QED BY <1>1, <1>2, <1>3, <1>5, <1>6, <1>7, <1>8, CommitStep DEF Safe

(* Both at once, of two teams.                                             *)
LEMMA CommitMoveStep ==
  ASSUME Inv, NEW r \in Requests, CommitMove(r)
  PROVE  Inv'
<1> DEFINE to == req[r].to
           from == at[r]
<1>1. /\ pc[r] = "commit" /\ op(r) = "move" /\ user(r) \in Users /\ to \in Teams /\ Serial(r)
      /\ to \in teams /\ Cardinality(members(to)) < TeamSize /\ from \in Teams /\ from # to
      /\ teamLock[to] # r => captain[to] # None
  BY AskFields DEF CommitMove, Inv, Sound, Labelled, op, user, Serial, Admitted, Joining, Seated
<1>2. /\ Finish(r) /\ team' = [team EXCEPT ![user(r)] = to]
      /\ captain' = [captain EXCEPT ![from] = SeatLeft(r, from), ![to] = SeatJoined(r, to)]
      /\ UNCHANGED <<teams, unused, scored>>
  BY DEF CommitMove
<1> HIDE DEF to, from
<1>3. /\ TeamSizeCap' /\ team' \in [Users -> Teams \cup {None}]
      /\ \A t \in Teams : members(t)' = IF t = to THEN members(t) \cup {user(r)}
                                                  ELSE members(t) \ {user(r)}
  BY <1>1, <1>2, OneMoves DEF Inv
<1>4. SeatJoined(r, to) \in Users \cup {None} /\ SeatJoined(r, to) # None
  BY <1>1 DEF SeatJoined, Inv, TypeOK
<1>5. captain' \in [Teams -> Users \cup {None}]
  <2>1. SeatLeft(r, from) \in Users \cup {None}
    <3>1. captain[from] \in Users \cup {None}
      BY <1>1 DEF Inv, TypeOK
    <3>2. Least(members(from) \ {user(r)}) \in Users \cup {None}
      BY LeastIsOne DEF members
    <3> QED BY <3>1, <3>2 DEF SeatLeft
  <2> QED BY <1>2, <1>4, <2>1 DEF Inv, TypeOK
<1>6. SeatFilled'
  <2> SUFFICES ASSUME NEW t \in teams, t \in Teams, members(t)' # {}
               PROVE  captain'[t] # None
    BY <1>2 DEF SeatFilled, Inv, TypeOK
  <2>1. CASE t = to
    BY <1>1, <1>2, <1>4, <2>1 DEF Inv, TypeOK
  <2>2. CASE t = from
    <3>1. members(t) \ {user(r)} # {}
      BY <1>1, <1>3, <2>2
    <3>2. captain'[t] = SeatLeft(r, t)
      BY <1>1, <1>2, <2>2 DEF Inv, TypeOK
    <3> QED BY <1>1, <3>1, <3>2, SeatLeftHolds
  <2>3. CASE t \notin {from, to}
    BY <1>2, <1>3, <2>3 DEF Inv, TypeOK, SeatFilled
  <2> QED BY <2>1, <2>2, <2>3
<1>7. NoGhostTeam'
  BY <1>1, <1>2 DEF Inv, TypeOK, NoGhostTeam
<1>8. /\ teams' \subseteq Teams /\ unused' \subseteq Teams \ teams' /\ scored' \subseteq Teams
      /\ \A q \in Requests, t \in Teams : Stamps(q, t) => t \in teams'
  BY <1>2 DEF Inv, TypeOK, Sound, Stamped, Stamps
<1> QED BY <1>1, <1>2, <1>3, <1>5, <1>6, <1>7, <1>8, CommitStep DEF Safe

(* A founder is the first member and the captain.                          *)
LEMMA CommitCreateStep ==
  ASSUME Inv, NEW r \in Requests, CommitCreate(r)
  PROVE  Inv'
<1> DEFINE new == at[r]
<1>1. /\ pc[r] = "commit" /\ op(r) = "create" /\ user(r) \in Users /\ Serial(r)
      /\ new \in unused /\ new \in Teams /\ new \notin teams
  BY AskFields DEF CommitCreate, Inv, TypeOK, Sound, Labelled, op, user, Serial, Founding
<1>2. /\ Finish(r) /\ team' = [team EXCEPT ![user(r)] = new]
      /\ captain' = [captain EXCEPT ![new] = user(r)]
      /\ teams' = teams \cup {new} /\ unused' = unused \ {new} /\ scored' = scored
  BY DEF CommitCreate
<1> HIDE DEF new
<1>3. members(new) = {}
  BY <1>1 DEF Inv, NoGhostTeam, members
<1>4. Cardinality(members(new)) < TeamSize
  BY <1>3, FS_EmptySet
<1>5. /\ TeamSizeCap' /\ team' \in [Users -> Teams \cup {None}]
      /\ \A t \in Teams : members(t)' = IF t = new THEN members(t) \cup {user(r)}
                                                   ELSE members(t) \ {user(r)}
  BY <1>1, <1>2, <1>4, OneMoves DEF Inv
<1>6. captain' \in [Teams -> Users \cup {None}]
  BY <1>1, <1>2 DEF Inv, TypeOK
<1>7. SeatFilled'
  <2> SUFFICES ASSUME NEW t \in teams', t \in Teams, members(t)' # {}
               PROVE  captain'[t] # None
    BY <1>1, <1>2 DEF SeatFilled, Inv, TypeOK
  <2>1. CASE t = new
    BY <1>1, <1>2, <2>1 DEF Inv, TypeOK
  <2>2. CASE t # new
    BY <1>2, <1>5, <2>2 DEF Inv, TypeOK, SeatFilled
  <2> QED BY <2>1, <2>2
<1>8. NoGhostTeam'
  BY <1>1, <1>2 DEF Inv, TypeOK, NoGhostTeam
<1>9. /\ teams' \subseteq Teams /\ unused' \subseteq Teams \ teams' /\ scored' \subseteq Teams
      /\ \A q \in Requests, t \in Teams : Stamps(q, t) => t \in teams'
  BY <1>1, <1>2 DEF Inv, TypeOK, Sound, Stamped, Stamps
<1> QED BY <1>1, <1>2, <1>5, <1>6, <1>7, <1>8, <1>9, CommitStep DEF Safe

(* The seat goes to somebody, on the team or not.                          *)
LEMMA CommitTransferStep ==
  ASSUME Inv, NEW r \in Requests, CommitTransfer(r)
  PROVE  Inv'
<1>1. /\ pc[r] = "commit" /\ op(r) = "transfer" /\ user(r) \in Users /\ at[r] \in Teams
  BY AskFields DEF CommitTransfer, Inv, Sound, Labelled, op, user
<1>2. /\ Finish(r) /\ captain' = [captain EXCEPT ![at[r]] = user(r)]
      /\ UNCHANGED <<team, teams, unused, scored>>
  BY DEF CommitTransfer
<1>3. /\ captain' \in [Teams -> Users \cup {None}]
      /\ \A t \in Teams : captain[t] # None => captain'[t] # None
  BY <1>1, <1>2 DEF Inv, TypeOK
<1>4. Safe'
  <2>1. \A t : members(t)' = members(t)
    BY <1>2 DEF members
  <2> QED BY <1>2, <1>3, <2>1 DEF Safe, Inv, TypeOK, TeamSizeCap, SeatFilled, NoGhostTeam
<1>5. /\ team' \in [Users -> Teams \cup {None}] /\ teams' \subseteq Teams
      /\ unused' \subseteq Teams \ teams' /\ scored' \subseteq Teams
      /\ \A q \in Requests, t \in Teams : Stamps(q, t) => t \in teams'
      /\ \A q \in Requests : Disbanding(q) => at[q] \notin scored'
  BY <1>2 DEF Inv, TypeOK, Sound, Stamped, Stamps, Unstamped, Disbanding
<1> QED BY <1>1, <1>2, <1>3, <1>4, <1>5, CommitStep

(* A team without a solve goes, and its members with it.                   *)
LEMMA CommitDisbandStep ==
  ASSUME Inv, NEW r \in Requests, CommitDisband(r)
  PROVE  Inv'
<1>1. /\ pc[r] = "commit" /\ op(r) = "disband" /\ at[r] \in Teams /\ Serial(r)
      /\ at[r] \notin scored /\ \A s \in Requests : ~Stamps(s, at[r])
  BY DEF CommitDisband, Inv, Sound, Labelled, Serial, Unstamped
<1>2. /\ Finish(r) /\ team' = [u \in Users |-> IF team[u] = at[r] THEN None ELSE team[u]]
      /\ captain' = [captain EXCEPT ![at[r]] = None]
      /\ teams' = teams \ {at[r]} /\ UNCHANGED <<unused, scored>>
  BY DEF CommitDisband
<1>3. /\ team' \in [Users -> Teams \cup {None}] /\ captain' \in [Teams -> Users \cup {None}]
      /\ teams' \subseteq Teams /\ unused' \subseteq Teams \ teams' /\ scored' \subseteq Teams
  BY <1>2 DEF Inv, TypeOK
<1>4. \A t \in Teams : members(t)' \subseteq members(t) /\ (t \in teams' => captain'[t] = captain[t])
  BY <1>2 DEF members, Inv, TypeOK
<1>5. TeamSizeCap'
  BY <1>4, FewerMembers DEF TeamSizeCap, Inv
<1>6. SeatFilled'
  BY <1>2, <1>3, <1>4 DEF SeatFilled, Inv
<1>7. NoGhostTeam'
  BY <1>1, <1>2 DEF NoGhostTeam, Inv, TypeOK
<1>8. \A q \in Requests, t \in Teams : Stamps(q, t) => t \in teams'
  BY <1>1, <1>2 DEF Inv, Sound, Stamped, Stamps
<1> QED BY <1>1, <1>2, <1>3, <1>5, <1>6, <1>7, <1>8, CommitStep DEF Safe

(* A solve lands on a team that exists.                                    *)
LEMMA CommitSolveStep ==
  ASSUME Inv, NEW r \in Requests, CommitSolve(r)
  PROVE  Inv'
<1>1. pc[r] = "commit" /\ op(r) = "solve" /\ at[r] \in teams /\ Stamps(r, at[r])
  BY DEF CommitSolve, Inv, Sound, Stamped, Stamps
<1>2. /\ Finish(r) /\ scored' = scored \cup {at[r]}
      /\ UNCHANGED <<team, teams, unused, captain>>
  BY DEF CommitSolve
<1>3. Safe'
  <2>1. \A t : members(t)' = members(t)
    BY <1>2 DEF members
  <2> QED BY <1>1, <1>2, <2>1 DEF Safe, Inv, TeamSizeCap, SeatFilled, NoGhostTeam
<1>4. /\ team' \in [Users -> Teams \cup {None}] /\ captain' \in [Teams -> Users \cup {None}]
      /\ teams' \subseteq Teams /\ unused' \subseteq Teams \ teams' /\ scored' \subseteq Teams
  BY <1>1, <1>2 DEF Inv, TypeOK
<1>5. \A q \in Requests, t \in Teams : Stamps(q, t) => t \in teams'
  BY <1>2 DEF Inv, Sound, Stamped, Stamps
<1>6. \A q \in Requests : Disbanding(q) => at[q] \notin scored'
  BY <1>1, <1>2 DEF Inv, Sound, Unstamped, Disbanding
<1> QED BY <1>1, <1>2, <1>3, <1>4, <1>5, <1>6, CommitStep

-----------------------------------------------------------------------------
(* The specification *)

(* The invariant holds of an empty roster, ...                             *)
LEMMA InitInv == Init => Inv
<1> SUFFICES ASSUME Init PROVE Inv
  OBVIOUS
<1>1. TypeOK
  BY DEF Init, TypeOK
<1>2. Safe
  <2>1. \A t \in Teams : members(t) = {}
    BY DEF Init, members
  <2> QED BY <2>1, FS_EmptySet DEF Init, Safe, TeamSizeCap, SeatFilled, NoGhostTeam
<1>3. \A r \in Requests : Sound(r)
  BY DEF Init, Sound, Labelled, Locked, Serial, Admitted, Joining, Seated, Founding, Stamped, Unstamped
<1> QED BY <1>1, <1>2, <1>3 DEF Inv, Safe

(* ... and every step keeps it.                                            *)
LEMMA NextInv == Inv /\ [Next]_vars => Inv'
<1> SUFFICES ASSUME Inv, [Next]_vars PROVE Inv'
  OBVIOUS
<1>1. ASSUME NEW r \in Requests, CommitDetach(r) \/ CommitJoin(r) \/ CommitMove(r) \/ CommitCreate(r)
                                   \/ CommitTransfer(r) \/ CommitDisband(r) \/ CommitSolve(r)
      PROVE  Inv'
  BY <1>1, CommitDetachStep, CommitJoinStep, CommitMoveStep, CommitCreateStep,
     CommitTransferStep, CommitDisbandStep, CommitSolveStep
<1>2. CASE UNCHANGED vars
  <2>1. \A t : members(t)' = members(t)
    BY <1>2 DEF vars, roster, members
  <2>2. TypeOK' /\ TeamSizeCap' /\ SeatFilled' /\ NoGhostTeam'
    BY <1>2, <2>1 DEF vars, roster, locks, Inv, TypeOK, TeamSizeCap, SeatFilled, NoGhostTeam
  <2>3. ASSUME NEW r \in Requests PROVE Sound(r)'
    <3>1. Labelled(r)' /\ Locked(r)' /\ Admitted(r)' /\ Seated(r)' /\ Founding(r)' /\ Stamped(r)'
      BY <1>2 DEF vars, roster, locks, Inv, Sound, Labelled, Locked, Serial, Admitted, Joining,
                  Seated, Founding, Stamped, op, members
    <3>2. Unstamped(r)'
      BY <1>2 DEF vars, roster, locks, Inv, Sound, Unstamped, Stamps, op
    <3> QED BY <3>1, <3>2 DEF Sound
  <2> QED BY <2>2, <2>3 DEF Inv
<1> QED BY <1>1, <1>2, ArrivalSteps, QuietSteps, WaitingSteps, SeatSteps, ProvisionStep DEF Next

(* Every behaviour keeps the invariant.                                    *)
THEOREM Invariant == Spec => []Inv
BY InitInv, NextInv, PTL DEF Spec

(* Whatever requests do to each other, the state keeps its types, and the  *)
(* locks are held by requests that are in their transaction.               *)
THEOREM TypeCorrect == Spec => []TypeOK
<1>1. Inv => TypeOK
  BY DEF Inv
<1> QED BY <1>1, Invariant, PTL

(* EnrollUser counts under the lock of the roster, so any number racing    *)
(* for the last slot fill it once.                                         *)
THEOREM TeamsStayInSize == Spec => []TeamSizeCap
<1>1. Inv => TeamSizeCap
  BY DEF Inv
<1> QED BY <1>1, Invariant, PTL

(* ReassignCaptainAfterLeave and AdoptCaptainlessTeam judge under the same *)
(* lock, so no departure, move or join leaves a populated team without a   *)
(* captain.                                                                *)
THEOREM SeatsStayFilled == Spec => []SeatFilled
<1>1. Inv => SeatFilled
  BY DEF Inv
<1> QED BY <1>1, Invariant, PTL

(* A solve shares the team's row and DisbandTeam takes it, so neither a    *)
(* member nor a solve outlives a team.                                     *)
THEOREM GhostsNever == Spec => []NoGhostTeam
<1>1. Inv => NoGhostTeam
  BY DEF Inv
<1> QED BY <1>1, Invariant, PTL

-----------------------------------------------------------------------------
(* Addresses and codes *)

CodesFit == M!TypeOK /\ M!Inv

(* What the invariant says of one request.                                 *)
CallFits(r) ==
  /\ call[r] \in M!Calls
  /\ step[r] = "insert" => call[r].op = "register"
  /\ step[r] \in {"read", "send"} => call[r].op = "resend"
  /\ step[r] \in {"look", "queue"} => call[r].op = "change"
  /\ step[r] \in {"consume", "apply"} => call[r].op \in M!Purposes
  /\ step[r] = "commit" => call[r].op # "resend"
  /\ call[r].op # "register" => email[call[r].user] # None
  /\ call[r].op \in M!Purposes => /\ call[r].code \in DOMAIN codes
                                  /\ codes[call[r].code].user = call[r].user

RowFits(r) ==
  /\ holder[call[r].user] = r
  /\ call[r].op = "register" => email[call[r].user] = None
  /\ call[r].op = "email_change" => read[r] # None

CodeFits(r) ==
  /\ call[r].code \notin spent /\ codes[call[r].code].purpose = call[r].op
  /\ \A q \in Requests : M!Spending(q) /\ call[q].code = call[r].code => q = r

ReqFits(r) ==
  /\ step[r] # "idle" => CallFits(r)
  /\ step[r] = "commit" => RowFits(r)
  /\ step[r] = "send" => read[r] # None
  /\ M!Spending(r) => CodeFits(r)

LEMMA RequestByRequest ==
  /\ M!Inv <=> M!NobodyStranded /\ \A r \in Requests : ReqFits(r)
  /\ M!Inv' <=> M!NobodyStranded' /\ \A r \in Requests : ReqFits(r)'
<1> USE DEF M!Inv, M!Asked, M!RowHeld, M!Known, M!Unspent, M!Registered, M!User,
            ReqFits, CallFits, RowFits, CodeFits
<1>1. M!Inv => M!NobodyStranded /\ \A r \in Requests : ReqFits(r)
  OBVIOUS
<1>2. M!NobodyStranded /\ (\A r \in Requests : ReqFits(r)) => M!Inv
  OBVIOUS
<1>3. M!Inv' => M!NobodyStranded' /\ \A r \in Requests : ReqFits(r)'
  OBVIOUS
<1>4. M!NobodyStranded' /\ (\A r \in Requests : ReqFits(r)') => M!Inv'
  OBVIOUS
<1> HIDE DEF M!Inv, M!Asked, M!RowHeld, M!Known, M!Unspent, ReqFits
<1> QED BY <1>1, <1>2, <1>3, <1>4

LEMMA CallShape ==
  ASSUME NEW c \in M!Calls
  PROVE  /\ c.user \in Registrants
         /\ c.op \in {"register", "resend", "change", "verify", "email_change"}
         /\ c.op \in {"register", "change"} => c.to \in Addresses
         /\ c.op = "register" => c.verified \in BOOLEAN
         /\ c.op \in M!Purposes => c.code \in 1..MaxCodes
  BY DEF M!Calls, M!Purposes

(* Where a request is, what it was asked and what it holds.                *)
CodeMemory ==
  /\ holder \in [Registrants -> Requests \cup {None}]
  /\ step \in [Requests -> M!Labels] /\ call \in [Requests -> M!Calls \cup {None}]
  /\ read \in [Requests -> Addresses \cup {None}]

(* A step of one request leaves the others fitting: accounts and codes     *)
(* stay, a row in another's hands is not registered or unlocked, and only  *)
(* the code in hand is spent.                                              *)
LEMMA OthersKeep ==
  ASSUME CodesFit, NEW r \in Requests, ReqFits(r)',
         \A q \in Requests \ {r} : step'[q] = step[q] /\ call'[q] = call[q] /\ read'[q] = read[q],
         \A q \in Requests \ {r}, u \in Registrants : holder[u] = q => holder'[u] = q,
         \A u \in Registrants : email[u] # None => email'[u] # None,
         \A u \in Registrants : email'[u] # None => email[u] # None \/ holder[u] = r,
         \A c \in DOMAIN codes : c \in DOMAIN codes' /\ codes'[c] = codes[c],
         \A c \in spent' \ spent : M!Spending(r) /\ call[r].code = c
  PROVE  \A q \in Requests : ReqFits(q)'
<1> SUFFICES ASSUME NEW q \in Requests \ {r} PROVE ReqFits(q)'
  OBVIOUS
<1>1. ReqFits(q)
  BY RequestByRequest DEF CodesFit
<1>2. step'[q] = step[q] /\ call'[q] = call[q] /\ read'[q] = read[q]
  OBVIOUS
<1>3. ASSUME step[q] # "idle" PROVE CallFits(q)' /\ call[q].user \in Registrants
  <2>1. CallFits(q)
    BY <1>1, <1>3 DEF ReqFits
  <2>2. call[q].user \in Registrants
    BY <2>1, CallShape DEF CallFits
  <2> QED BY <1>2, <2>1, <2>2 DEF CallFits
<1>4. ASSUME step[q] = "commit" PROVE RowFits(q)'
  <2>1. RowFits(q) /\ q # r
    BY <1>1, <1>4 DEF ReqFits
  <2>2. call[q].user \in Registrants
    BY <1>3, <1>4
  <2> QED BY <1>2, <2>1, <2>2 DEF RowFits
<1>5. ASSUME M!Spending(q) PROVE CodeFits(q)'
  <2>1. CodeFits(q)
    BY <1>1, <1>5 DEF ReqFits
  <2>2. call[q].code \in DOMAIN codes
    BY <1>1, <1>5 DEF ReqFits, CallFits, M!Spending
  <2>3. call'[q].code = call[q].code /\ codes'[call[q].code] = codes[call[q].code]
    BY <1>2, <2>2
  <2>4. call[q].code \notin spent'
    BY <1>5, <2>1 DEF CodeFits
  <2>5. ASSUME NEW p \in Requests, M!Spending(p)', call'[p].code = call'[q].code
        PROVE  p = q
    <3>1. CASE p = r
      BY <1>2, <1>5, <2>5, <3>1 DEF ReqFits, CodeFits, M!Spending
    <3>2. CASE p # r
      BY <1>2, <2>1, <2>5, <3>2 DEF CodeFits, M!Spending
    <3> QED BY <3>1, <3>2
  <2> QED BY <1>2, <2>1, <2>3, <2>4, <2>5 DEF CodeFits
<1>6. M!Spending(q)' <=> M!Spending(q)
  BY <1>2 DEF M!Spending
<1> QED BY <1>1, <1>2, <1>3, <1>4, <1>5, <1>6 DEF ReqFits

(* Of a step that writes no table, it is enough to look at the request.    *)
LEMMA CodeQuiet ==
  ASSUME CodesFit, NEW r \in Requests, UNCHANGED M!Tables, ReqFits(r)', CodeMemory',
         \A q \in Requests \ {r} : step'[q] = step[q] /\ call'[q] = call[q] /\ read'[q] = read[q],
         \A q \in Requests \ {r}, u \in Registrants : holder[u] = q => holder'[u] = q
  PROVE  CodesFit'
<1>1. UNCHANGED <<email, pending, verified, codes, spent, first>>
  BY DEF M!Tables
<1>2. \A q \in Requests : ReqFits(q)'
  BY <1>1, OthersKeep
<1>3. M!NobodyStranded'
  BY <1>1, RequestByRequest DEF CodesFit, M!NobodyStranded, M!Registered
<1>4. M!Inv'
  BY <1>2, <1>3, RequestByRequest
<1> QED BY <1>1, <1>4 DEF CodesFit, CodeMemory, M!TypeOK

(* A request that is over.                                                 *)
LEMMA FinishFits ==
  ASSUME CodesFit, NEW r \in Requests, M!Finish(r)
  PROVE  /\ CodeMemory' /\ ReqFits(r)'
         /\ \A q \in Requests \ {r} : step'[q] = step[q] /\ call'[q] = call[q] /\ read'[q] = read[q]
         /\ \A q \in Requests \ {r}, u \in Registrants : holder[u] = q => holder'[u] = q
<1> USE EnrolConstants DEF M!Finish, M!Go, CodesFit, M!TypeOK
<1>1. step' = [step EXCEPT ![r] = "idle"] /\ call' = [call EXCEPT ![r] = None]
      /\ read' = [read EXCEPT ![r] = None]
      /\ holder' = [u \in Registrants |-> IF holder[u] = r THEN None ELSE holder[u]]
  OBVIOUS
<1>2. CodeMemory'
  BY <1>1 DEF CodeMemory, M!Labels
<1>3. step'[r] = "idle"
  BY <1>1
<1>4. ReqFits(r)'
  BY <1>3 DEF ReqFits, M!Spending
<1> QED BY <1>1, <1>2, <1>4

LEMMA LeaveFits ==
  ASSUME CodesFit, NEW r \in Requests, M!Leave(r)
  PROVE  CodesFit'
  BY FinishFits, CodeQuiet DEF M!Leave

(* A request that goes on with what it was asked.                          *)
LEMMA GoesOn ==
  ASSUME CodesFit, NEW r \in Requests, NEW l \in M!Labels, M!Go(r, l), call' = call,
         UNCHANGED holder \/ M!LockRow(r), step[r] # "idle",
         read' = read \/ \E a \in Addresses : read' = [read EXCEPT ![r] = a]
  PROVE  /\ CodeMemory' /\ step'[r] = l
         /\ \A q \in Requests \ {r} : step'[q] = step[q] /\ call'[q] = call[q] /\ read'[q] = read[q]
         /\ \A q \in Requests \ {r}, u \in Registrants : holder[u] = q => holder'[u] = q
         /\ M!LockRow(r) => holder'[call[r].user] = r
<1>1. call[r] \in M!Calls
  BY RequestByRequest DEF CodesFit, ReqFits, CallFits
<1>2. call[r].user \in Registrants
  BY <1>1, CallShape
<1> USE EnrolConstants DEF M!Go, M!LockRow, M!User, CodesFit, M!TypeOK, CodeMemory
<1>3. /\ step' \in [Requests -> M!Labels] /\ step'[r] = l
      /\ \A q \in Requests \ {r} : step'[q] = step[q]
  OBVIOUS
<1>4. read' \in [Requests -> Addresses \cup {None}] /\ \A q \in Requests \ {r} : read'[q] = read[q]
  OBVIOUS
<1>5. /\ holder' \in [Registrants -> Requests \cup {None}]
      /\ \A q \in Requests \ {r}, u \in Registrants : holder[u] = q => holder'[u] = q
      /\ M!LockRow(r) => holder'[call[r].user] = r
  BY <1>2
<1>6. call' \in [Requests -> M!Calls \cup {None}] /\ \A q \in Requests : call'[q] = call[q]
  OBVIOUS
<1>7. CodeMemory'
  BY <1>3, <1>4, <1>5, <1>6
<1> HIDE DEF M!Go, M!LockRow, M!User, CodesFit, M!TypeOK, CodeMemory
<1> QED BY <1>3, <1>4, <1>5, <1>6, <1>7

LEMMA ArriveFits ==
  ASSUME CodesFit, NEW r \in Requests, M!Arrive(r)
  PROVE  CodesFit'
<1> USE DEF M!Go, CodesFit, M!TypeOK
<1>1. step[r] = "idle" /\ UNCHANGED M!Tables /\ UNCHANGED <<email, codes, holder, read>>
  BY DEF M!Arrive, M!At, M!Tables
<1>2. PICK c \in M!Calls :
        /\ email[c.user] # None <=> c.op # "register"
        /\ c.op \in M!Purposes => c.code \in DOMAIN codes /\ codes[c.code].user = c.user
        /\ call' = [call EXCEPT ![r] = c] /\ step' = [step EXCEPT ![r] = M!FirstLabel[c.op]]
  BY DEF M!Arrive, M!Registered
<1>3. PICK l : l = M!FirstLabel[c.op]
  OBVIOUS
<1>4. /\ c.op = "register" => l = "insert"
      /\ c.op = "resend" => l = "read"
      /\ c.op = "change" => l = "look"
      /\ c.op \in M!Purposes => l = "consume"
  BY <1>3 DEF M!FirstLabel, M!Purposes
<1>5. c.op \in {"register", "resend", "change"} \cup M!Purposes
  BY CallShape DEF M!Purposes
<1>6. l \in {"insert", "read", "look", "consume"}
  BY <1>4, <1>5
<1>7. /\ step'[r] = l /\ call'[r] = c /\ step' \in [Requests -> M!Labels]
      /\ call' \in [Requests -> M!Calls \cup {None}]
      /\ \A q \in Requests \ {r} : step'[q] = step[q] /\ call'[q] = call[q] /\ read'[q] = read[q]
  BY <1>1, <1>2, <1>3, <1>6 DEF M!Labels
<1>8. CodeMemory'
  BY <1>1, <1>7 DEF CodeMemory
<1>9. CallFits(r)'
  BY <1>1, <1>2, <1>4, <1>5, <1>6, <1>7 DEF CallFits, M!Purposes
<1>10. ReqFits(r)'
  BY <1>6, <1>7, <1>9 DEF ReqFits, M!Spending
<1> HIDE DEF M!Go, CodesFit, M!TypeOK
<1> QED BY <1>1, <1>7, <1>8, <1>10, CodeQuiet

(* CreateUser: the insertion holds the row it makes, so nobody else's of   *)
(* the same user is under way.                                             *)
LEMMA InsertUserFits ==
  ASSUME CodesFit, NEW r \in Requests, M!InsertUser(r)
  PROVE  CodesFit'
<1>1. /\ step[r] = "insert" /\ email[call[r].user] = None /\ M!LockRow(r) /\ M!Go(r, "commit")
      /\ UNCHANGED M!Tables /\ UNCHANGED <<email, codes, call, read>>
  BY DEF M!InsertUser, M!At, M!Registered, M!User, M!Tables
<1>2. CallFits(r)
  BY <1>1, RequestByRequest DEF CodesFit, ReqFits
<1>3. /\ CodeMemory' /\ step'[r] = "commit" /\ holder'[call[r].user] = r
      /\ \A q \in Requests \ {r} : step'[q] = step[q] /\ call'[q] = call[q] /\ read'[q] = read[q]
      /\ \A q \in Requests \ {r}, u \in Registrants : holder[u] = q => holder'[u] = q
  BY <1>1, GoesOn DEF M!Labels
<1>4. call[r].op = "register"
  BY <1>1, <1>2 DEF CallFits
<1>5. CallFits(r)' /\ RowFits(r)'
  BY <1>1, <1>2, <1>3, <1>4 DEF CallFits, RowFits
<1>6. ReqFits(r)'
  BY <1>1, <1>3, <1>4, <1>5 DEF ReqFits, M!Spending, M!Purposes
<1> QED BY <1>1, <1>3, <1>6, CodeQuiet

LEMMA ReadForResendFits ==
  ASSUME CodesFit, NEW r \in Requests, M!ReadForResend(r)
  PROVE  CodesFit'
<1>1. /\ step[r] = "read" /\ M!Go(r, "send") /\ read' = [read EXCEPT ![r] = email[call[r].user]]
      /\ UNCHANGED M!Tables /\ UNCHANGED <<email, codes, holder, call>>
  BY DEF M!ReadForResend, M!At, M!User, M!Tables
<1>2. CallFits(r) /\ call[r].op = "resend"
  BY <1>1, RequestByRequest DEF CodesFit, ReqFits, CallFits
<1>3. call[r].user \in Registrants /\ email[call[r].user] # None
  BY <1>2, CallShape DEF CallFits
<1>4. PICK a \in Addresses : a = email[call[r].user]
  BY <1>3 DEF CodesFit, M!TypeOK
<1>5. /\ CodeMemory' /\ step'[r] = "send"
      /\ \A q \in Requests \ {r} : step'[q] = step[q] /\ call'[q] = call[q] /\ read'[q] = read[q]
      /\ \A q \in Requests \ {r}, u \in Registrants : holder[u] = q => holder'[u] = q
  BY <1>1, <1>4, GoesOn DEF M!Labels
<1>6. read'[r] # None
  BY <1>1, <1>3, <1>4 DEF CodesFit, M!TypeOK
<1>7. CallFits(r)'
  BY <1>1, <1>2, <1>5 DEF CallFits
<1>8. ReqFits(r)'
  BY <1>5, <1>6, <1>7 DEF ReqFits, M!Spending
<1> QED BY <1>1, <1>5, <1>8, CodeQuiet

LEMMA ChangeFits ==
  ASSUME CodesFit, NEW r \in Requests, M!LookForOwner(r) \/ M!SetPendingEmail(r)
  PROVE  CodesFit'
<1>1. PICK l \in {"queue", "commit"} :
        /\ step[r] \in {"look", "queue"} /\ M!Go(r, l) /\ UNCHANGED M!Tables
        /\ UNCHANGED <<email, codes, call, read>>
        /\ UNCHANGED holder \/ M!LockRow(r)
        /\ l = "commit" => M!LockRow(r)
  BY DEF M!LookForOwner, M!SetPendingEmail, M!At, M!Tables
<1>2. CallFits(r) /\ call[r].op = "change"
  BY <1>1, RequestByRequest DEF CodesFit, ReqFits, CallFits
<1>3. /\ CodeMemory' /\ step'[r] = l
      /\ M!LockRow(r) => holder'[call[r].user] = r
      /\ \A q \in Requests \ {r} : step'[q] = step[q] /\ call'[q] = call[q] /\ read'[q] = read[q]
      /\ \A q \in Requests \ {r}, u \in Registrants : holder[u] = q => holder'[u] = q
  BY <1>1, GoesOn DEF M!Labels
<1>4. CallFits(r)' /\ (l = "commit" => RowFits(r)')
  BY <1>1, <1>2, <1>3 DEF CallFits, RowFits
<1>5. ReqFits(r)'
  BY <1>1, <1>2, <1>3, <1>4 DEF ReqFits, M!Spending, M!Purposes
<1> QED BY <1>1, <1>3, <1>5, CodeQuiet

(* ConsumeEmailToken waits for whoever is spending the code, so it is      *)
(* spent once.                                                             *)
LEMMA ConsumeFits ==
  ASSUME CodesFit, NEW r \in Requests, M!ConsumeEmailToken(r)
  PROVE  CodesFit'
<1>1. /\ step[r] = "consume" /\ M!Go(r, "apply")
      /\ UNCHANGED M!Tables /\ UNCHANGED <<email, codes, spent, holder, call, read>>
      /\ ~M!InFlight(call[r].code) /\ call[r].code \notin spent
      /\ codes[call[r].code].purpose = call[r].op
  BY DEF M!ConsumeEmailToken, M!At, M!Tables
<1>2. CallFits(r) /\ call[r].op \in M!Purposes
  BY <1>1, RequestByRequest DEF CodesFit, ReqFits, CallFits
<1>3. /\ CodeMemory' /\ step'[r] = "apply"
      /\ \A q \in Requests \ {r} : step'[q] = step[q] /\ call'[q] = call[q] /\ read'[q] = read[q]
      /\ \A q \in Requests \ {r}, u \in Registrants : holder[u] = q => holder'[u] = q
  BY <1>1, GoesOn DEF M!Labels
<1>4. CallFits(r)'
  BY <1>1, <1>2, <1>3 DEF CallFits
<1>5. \A q \in Requests \ {r} : ~(M!Spending(q)' /\ call'[q].code = call'[r].code)
  BY <1>1, <1>3 DEF M!InFlight, M!Spending
<1>6. CodeFits(r)'
  BY <1>1, <1>5 DEF CodeFits
<1>7. ReqFits(r)'
  BY <1>3, <1>4, <1>6 DEF ReqFits
<1> QED BY <1>1, <1>3, <1>7, CodeQuiet

LEMMA ApplyFits ==
  ASSUME CodesFit, NEW r \in Requests, M!MarkUserVerified(r) \/ M!Promote(r)
  PROVE  CodesFit'
<1>1. /\ step[r] = "apply" /\ M!Go(r, "commit") /\ M!LockRow(r)
      /\ UNCHANGED M!Tables /\ UNCHANGED <<email, pending, codes, spent, call>>
      /\ call[r].op \in {"verify", "email_change"}
      /\ IF call[r].op = "verify" THEN read' = read
           ELSE /\ pending[call[r].user] # None
                /\ read' = [read EXCEPT ![r] = pending[call[r].user]]
  BY DEF M!MarkUserVerified, M!Promote, M!At, M!User, M!Tables
<1>2. CallFits(r) /\ CodeFits(r)
  BY <1>1, RequestByRequest DEF CodesFit, ReqFits, M!Spending, M!Purposes
<1>3. call[r].user \in Registrants
  BY <1>2, CallShape DEF CallFits
<1>4. /\ read' = read \/ \E a \in Addresses : read' = [read EXCEPT ![r] = a]
      /\ call[r].op = "email_change" => read'[r] # None
  <2>1. CASE call[r].op = "verify"
    BY <1>1, <2>1
  <2>2. CASE call[r].op = "email_change"
    <3>1. PICK a \in Addresses : a = pending[call[r].user]
      BY <1>1, <1>3, <2>2 DEF CodesFit, M!TypeOK
    <3>2. read' = [read EXCEPT ![r] = a] /\ a # None
      BY <1>1, <2>2, <3>1, EnrolConstants DEF M!CodeConstants
    <3> QED BY <3>2 DEF CodesFit, M!TypeOK
  <2> QED BY <1>1, <2>1, <2>2
<1>5. /\ CodeMemory' /\ step'[r] = "commit" /\ holder'[call[r].user] = r
      /\ \A q \in Requests \ {r} : step'[q] = step[q] /\ call'[q] = call[q] /\ read'[q] = read[q]
      /\ \A q \in Requests \ {r}, u \in Registrants : holder[u] = q => holder'[u] = q
  BY <1>1, <1>4, GoesOn DEF M!Labels
<1>6. CallFits(r)' /\ RowFits(r)'
  BY <1>1, <1>2, <1>4, <1>5 DEF CallFits, RowFits
<1>7. \A q \in Requests : M!Spending(q)' => M!Spending(q)
  BY <1>1, <1>5 DEF M!Spending, M!Purposes
<1>8. CodeFits(r)'
  BY <1>1, <1>2, <1>7 DEF CodeFits
<1>9. ReqFits(r)'
  BY <1>5, <1>6, <1>8 DEF ReqFits
<1> QED BY <1>1, <1>5, <1>9, CodeQuiet

-----------------------------------------------------------------------------
(* Commits *)

(* A code is added after the others.                                       *)
LEMMA MailAdds ==
  ASSUME CodesFit, NEW u \in Registrants, NEW p \in M!Purposes, NEW a \in Addresses, M!Mail(u, p, a)
  PROVE  LET code == [user |-> u, purpose |-> p, to |-> a] IN
         /\ codes' \in Seq(M!Codes) /\ Len(codes') <= MaxCodes
         /\ DOMAIN codes \subseteq DOMAIN codes'
         /\ \A c \in DOMAIN codes : codes'[c] = codes[c]
         /\ \E c \in DOMAIN codes' : codes'[c] = code
<1> DEFINE code == [user |-> u, purpose |-> p, to |-> a]
<1>1. code \in M!Codes
  BY DEF M!Codes
<1> HIDE DEF code
<1>2. codes' = Append(codes, code) /\ Len(codes) < MaxCodes
  BY DEF M!Mail, code
<1>3. codes \in Seq(M!Codes) /\ MaxCodes \in Nat
  BY EnrolConstants DEF CodesFit, M!TypeOK, M!CodeConstants
<1>4. /\ codes' \in Seq(M!Codes) /\ Len(codes') = Len(codes) + 1
      /\ \A c \in 1..Len(codes) : codes'[c] = codes[c]
      /\ codes'[Len(codes) + 1] = code
  BY <1>1, <1>2, <1>3
<1>5. DOMAIN codes = 1..Len(codes) /\ DOMAIN codes' = 1..Len(codes')
  BY <1>3, <1>4
<1>6. Len(codes) \in Nat
  BY <1>3
<1>7. Len(codes') <= MaxCodes
  BY <1>2, <1>3, <1>4, <1>6
<1>8. DOMAIN codes \subseteq DOMAIN codes' /\ Len(codes) + 1 \in DOMAIN codes'
  BY <1>4, <1>5, <1>6
<1> QED BY <1>4, <1>5, <1>7, <1>8 DEF code

LEMMA CodesStillDrawn ==
  ASSUME CodesFit, UNCHANGED <<email, first>>,
         \A c \in DOMAIN codes : c \in DOMAIN codes' /\ codes'[c] = codes[c]
  PROVE  M!NobodyStranded'
  BY RequestByRequest DEF CodesFit, M!NobodyStranded, M!Registered

(* Register: the account and the code that verifies it, or neither.        *)
LEMMA CommitRegisterFits ==
  ASSUME CodesFit, NEW r \in Requests, M!CommitRegister(r)
  PROVE  CodesFit'
<1> DEFINE u == call[r].user
           given == [to |-> call[r].to, verified |-> call[r].verified]
<1>1. /\ step[r] = "commit" /\ call[r].op = "register" /\ M!Finish(r)
      /\ email' = [email EXCEPT ![u] = call[r].to] /\ first' = [first EXCEPT ![u] = given]
      /\ verified' = [verified EXCEPT ![u] = call[r].verified]
      /\ UNCHANGED <<pending, spent>>
  BY DEF M!CommitRegister, M!At, M!User
<1>2. CallFits(r) /\ RowFits(r)
  BY <1>1, RequestByRequest DEF CodesFit, ReqFits
<1>3. u \in Registrants /\ call[r].to \in Addresses /\ call[r].verified \in BOOLEAN
  BY <1>1, <1>2, CallShape DEF CallFits
<1>4. \/ call[r].verified /\ codes' = codes
      \/ ~call[r].verified /\ M!Mail(u, "verify", call[r].to)
  BY DEF M!CommitRegister, M!User
<1>5. /\ codes' \in Seq(M!Codes) /\ Len(codes') <= MaxCodes
      /\ DOMAIN codes \subseteq DOMAIN codes'
      /\ \A c \in DOMAIN codes : codes'[c] = codes[c]
  <2>1. CASE codes' = codes
    BY <2>1 DEF CodesFit, M!TypeOK
  <2>2. CASE M!Mail(u, "verify", call[r].to)
    BY <1>3, <2>2, MailAdds DEF M!Purposes
  <2> QED BY <1>4, <2>1, <2>2
<1>6. ~call[r].verified => \E c \in DOMAIN codes' :
        codes'[c] = [user |-> u, purpose |-> "verify", to |-> call[r].to]
  BY <1>3, <1>4, MailAdds DEF M!Purposes
<1>7. /\ email'[u] = call[r].to /\ first'[u] = given
      /\ \A v \in Registrants \ {u} : email'[v] = email[v] /\ first'[v] = first[v]
  BY <1>1, <1>3 DEF CodesFit, M!TypeOK
<1>8. M!NobodyStranded'
  <2> SUFFICES ASSUME NEW v \in Registrants, email'[v] # None, ~first'[v].verified
               PROVE  \E c \in DOMAIN codes' :
                        [user |-> v, purpose |-> "verify", to |-> first'[v].to] = codes'[c]
    BY DEF M!NobodyStranded, M!Registered
  <2>1. CASE v = u
    BY <1>6, <1>7, <2>1
  <2>2. CASE v # u
    <3>1. [user |-> v, purpose |-> "verify", to |-> first[v].to] \in {codes[c] : c \in DOMAIN codes}
      BY <1>7, <2>2, RequestByRequest DEF CodesFit, M!NobodyStranded, M!Registered
    <3> QED BY <1>5, <1>7, <2>2, <3>1
  <2> QED BY <2>1, <2>2
<1>9. \A v \in Registrants : /\ email[v] # None => email'[v] # None
                             /\ email'[v] # None => email[v] # None \/ holder[v] = r
  BY <1>1, <1>2, <1>3, <1>7, EnrolConstants DEF M!CodeConstants, RowFits
<1>10. \A q \in Requests : ReqFits(q)'
  BY <1>1, <1>5, <1>9, FinishFits, OthersKeep
<1>11. M!Inv'
  BY <1>8, <1>10, RequestByRequest
<1>12. given \in [to : Addresses, verified : BOOLEAN]
  BY <1>3
<1> HIDE DEF given, u
<1>13. /\ email' \in [Registrants -> Addresses \cup {None}]
       /\ verified' \in [Registrants -> BOOLEAN]
       /\ first' \in [Registrants -> [to : Addresses, verified : BOOLEAN] \cup {None}]
       /\ pending' \in [Registrants -> Addresses \cup {None}] /\ spent' \subseteq DOMAIN codes'
  BY <1>1, <1>3, <1>5, <1>12 DEF CodesFit, M!TypeOK
<1> QED BY <1>1, <1>5, <1>11, <1>13, FinishFits DEF CodesFit, M!TypeOK, CodeMemory

LEMMA CommitMailFits ==
  ASSUME CodesFit, NEW r \in Requests, M!CommitResend(r) \/ M!CommitChange(r)
  PROVE  CodesFit'
<1> DEFINE Mailed(p, a) ==
      /\ M!Mail(call[r].user, p, a) /\ M!Finish(r) /\ UNCHANGED <<email, verified, spent, first>>
      /\ \/ step[r] = "send" /\ a = read[r] /\ pending' = pending
         \/ /\ step[r] = "commit" /\ call[r].op = "change" /\ a = call[r].to
            /\ pending' = [pending EXCEPT ![call[r].user] = a]
<1>1. M!CommitResend(r) => Mailed("verify", read[r])
  BY DEF M!CommitResend, M!At, M!User
<1>2. M!CommitChange(r) => Mailed("email_change", call[r].to)
  BY DEF M!CommitChange, M!At, M!User
<1> HIDE DEF Mailed
<1>3. PICK p \in M!Purposes : \E a : Mailed(p, a)
  BY <1>1, <1>2 DEF M!Purposes
<1>4. PICK a : Mailed(p, a)
  BY <1>3
<1> USE DEF Mailed
<1>5. Mailed(p, a)
  BY <1>4
<1>6. CallFits(r)
  BY <1>5, RequestByRequest DEF CodesFit, ReqFits
<1>7. call[r].user \in Registrants /\ a \in Addresses
  <2>1. call[r] \in M!Calls
    BY <1>6 DEF CallFits
  <2>2. step[r] = "send" => read[r] \in Addresses
    BY RequestByRequest DEF CodesFit, M!TypeOK, ReqFits
  <2> QED BY <1>5, <2>1, <2>2, CallShape
<1>8. /\ codes' \in Seq(M!Codes) /\ Len(codes') <= MaxCodes
      /\ DOMAIN codes \subseteq DOMAIN codes'
      /\ \A c \in DOMAIN codes : codes'[c] = codes[c]
  BY <1>5, <1>7, MailAdds
<1>9. \A q \in Requests : ReqFits(q)'
  BY <1>5, <1>8, FinishFits, OthersKeep
<1>10. M!NobodyStranded'
  BY <1>5, <1>8, CodesStillDrawn
<1>11. M!Inv'
  BY <1>9, <1>10, RequestByRequest
<1>12. /\ pending' \in [Registrants -> Addresses \cup {None}] /\ spent' \subseteq DOMAIN codes'
      /\ email' \in [Registrants -> Addresses \cup {None}] /\ verified' \in [Registrants -> BOOLEAN]
      /\ first' \in [Registrants -> [to : Addresses, verified : BOOLEAN] \cup {None}]
  BY <1>5, <1>7, <1>8 DEF CodesFit, M!TypeOK
<1> QED BY <1>5, <1>8, <1>11, <1>12, FinishFits DEF CodesFit, M!TypeOK, CodeMemory

(* ConfirmEmail and ConfirmEmailChange, which spend their code.            *)
LEMMA CommitConfirmFits ==
  ASSUME CodesFit, NEW r \in Requests, M!CommitConfirm(r)
  PROVE  CodesFit'
<1> DEFINE u == call[r].user
<1>1. /\ step[r] = "commit" /\ call[r].op \in M!Purposes /\ M!Finish(r)
      /\ verified' = [verified EXCEPT ![u] = TRUE] /\ spent' = spent \cup {call[r].code}
      /\ UNCHANGED <<codes, first>>
      /\ IF call[r].op = "email_change"
           THEN email' = [email EXCEPT ![u] = read[r]] /\ pending' = [pending EXCEPT ![u] = None]
           ELSE UNCHANGED <<email, pending>>
  BY DEF M!CommitConfirm, M!At, M!User
<1>2. CallFits(r) /\ RowFits(r)
  BY <1>1, RequestByRequest DEF CodesFit, ReqFits
<1>3. /\ u \in Registrants /\ email[u] # None /\ call[r].code \in DOMAIN codes
      /\ call[r].op = "email_change" => read[r] \in Addresses
  <2>1. u \in Registrants
    BY <1>2, CallShape DEF CallFits
  <2>2. email[u] # None /\ call[r].code \in DOMAIN codes
    BY <1>1, <1>2 DEF CallFits, M!Purposes
  <2>3. call[r].op = "email_change" => read[r] \in Addresses
    BY <1>2 DEF RowFits, CodesFit, M!TypeOK
  <2> QED BY <2>1, <2>2, <2>3
<1> HIDE DEF u
<1>4. /\ email' \in [Registrants -> Addresses \cup {None}] /\ verified' \in [Registrants -> BOOLEAN]
      /\ pending' \in [Registrants -> Addresses \cup {None}]
  BY <1>1, <1>3 DEF CodesFit, M!TypeOK
<1>5. \A v \in Registrants : email'[v] # None <=> email[v] # None
  BY <1>1, <1>3, EnrolConstants DEF CodesFit, M!TypeOK, M!CodeConstants
<1>6. \A c \in spent' \ spent : M!Spending(r) /\ call[r].code = c
  BY <1>1 DEF M!Spending
<1>7. \A q \in Requests : ReqFits(q)'
  BY <1>1, <1>5, <1>6, FinishFits, OthersKeep
<1>8. M!NobodyStranded'
  BY <1>1, <1>5, RequestByRequest DEF CodesFit, M!NobodyStranded, M!Registered
<1>9. M!Inv'
  BY <1>7, <1>8, RequestByRequest
<1>10. codes \in Seq(M!Codes) /\ Len(codes) <= MaxCodes /\ spent' \subseteq DOMAIN codes
  BY <1>1, <1>3 DEF CodesFit, M!TypeOK
<1> QED BY <1>1, <1>4, <1>9, <1>10, FinishFits DEF CodesFit, M!TypeOK, CodeMemory

(* The console's repair touches nothing but the mark.                      *)
LEMMA MarkFits ==
  ASSUME CodesFit, verified' \in [Registrants -> BOOLEAN],
         UNCHANGED <<email, pending, codes, spent, holder, step, call, read, first>>
  PROVE  CodesFit'
<1>1. M!Inv'
  <2>1. \A q \in Requests : ReqFits(q)' = ReqFits(q)
    BY DEF ReqFits, CallFits, RowFits, CodeFits, M!Spending
  <2>2. M!NobodyStranded'
    BY RequestByRequest DEF CodesFit, M!NobodyStranded, M!Registered
  <2> QED BY <2>1, <2>2, RequestByRequest DEF CodesFit
<1> QED BY <1>1 DEF CodesFit, M!TypeOK

-----------------------------------------------------------------------------
LEMMA CodesStart == M!Init => CodesFit
<1> SUFFICES ASSUME M!Init PROVE CodesFit
  OBVIOUS
<1>1. M!TypeOK
  BY EnrolConstants DEF M!Init, M!TypeOK, M!Labels, M!CodeConstants
<1>2. \A r \in Requests : ReqFits(r)
  BY DEF M!Init, ReqFits, M!Spending
<1>3. M!NobodyStranded
  BY DEF M!Init, M!NobodyStranded, M!Registered
<1> QED BY <1>1, <1>2, <1>3, RequestByRequest DEF CodesFit

LEMMA CodesStep == CodesFit /\ M!Next => CodesFit'
<1> SUFFICES ASSUME CodesFit, M!Next PROVE CodesFit'
  OBVIOUS
<1>1. ASSUME NEW r \in Requests,
             \/ M!Arrive(r) \/ M!Leave(r) \/ M!InsertUser(r) \/ M!CommitRegister(r)
             \/ M!ReadForResend(r) \/ M!CommitResend(r)
             \/ M!LookForOwner(r) \/ M!SetPendingEmail(r) \/ M!CommitChange(r)
             \/ M!ConsumeEmailToken(r) \/ M!MarkUserVerified(r) \/ M!Promote(r) \/ M!CommitConfirm(r)
      PROVE  CodesFit'
  BY <1>1, ArriveFits, LeaveFits, InsertUserFits, CommitRegisterFits, ReadForResendFits,
     CommitMailFits, ChangeFits, ConsumeFits, ApplyFits, CommitConfirmFits
<1>2. ASSUME NEW u \in Registrants, NEW v \in BOOLEAN, M!SetVerified(u, v)
      PROVE  CodesFit'
  BY <1>2, MarkFits DEF M!SetVerified, CodesFit, M!TypeOK
<1>3. CASE M!VerifyAll
  <2>1. verified' \in [Registrants -> BOOLEAN]
    BY <1>3 DEF M!VerifyAll, M!Registered, CodesFit, M!TypeOK
  <2> QED BY <1>3, <2>1, MarkFits DEF M!VerifyAll
<1> QED BY <1>1, <1>2, <1>3 DEF M!Next

(* At the codes: types, that whoever is about to commit holds the row, that *)
(* a code being spent is unspent and in one request's hands, and            *)
(* NobodyStranded.                                                         *)
THEOREM CodesInvariant == EnrolSpec => [](focus = "codes" => CodesFit)
<1>1. EnrolInit => (focus = "codes" => CodesFit)
  BY CodesStart DEF EnrolInit
<1>2. (focus = "codes" => CodesFit) /\ [Enrol \/ Verify]_all => (focus = "codes" => CodesFit)'
  <2>1. CASE Verify
    BY <2>1, CodesStep DEF Verify
  <2>2. CASE Enrol
    BY <2>2 DEF Enrol
  <2>3. CASE UNCHANGED all
    BY <2>3, MarkFits DEF all, mailing, CodesFit, M!TypeOK
  <2> QED BY <2>1, <2>2, <2>3
<1> QED BY <1>1, <1>2, PTL DEF EnrolSpec

(* Register commits the account and the code together, so nobody who       *)
(* registers unverified is without the code to verify with.                *)
THEOREM NobodyStrandedHolds == EnrolSpec => []NobodyStranded
<1>1. (focus = "codes" => CodesFit) => NobodyStranded
  BY DEF CodesFit, M!Inv, NobodyStranded
<1> QED BY <1>1, CodesInvariant, PTL

(* A live address is written by a registration, whose user had none, and   *)
(* by the confirmation of a change, which spends a code mailed for it.     *)
LEMMA FlipsSpend ==
  ASSUME CodesFit, M!Next
  PROVE  M!FlipSpends
<1> SUFFICES ASSUME NEW u \in Registrants, email[u] # None, email'[u] # email[u]
             PROVE  \E c \in spent' \ spent :
                      codes[c].user = u /\ codes[c].purpose = "email_change"
  BY DEF M!FlipSpends, M!Registered
<1>1. PICK r \in Requests : M!CommitRegister(r) \/ M!CommitConfirm(r)
  <2>1. ASSUME NEW r \in Requests,
               \/ M!Arrive(r) \/ M!Leave(r) \/ M!InsertUser(r) \/ M!ReadForResend(r)
               \/ M!CommitResend(r) \/ M!LookForOwner(r) \/ M!SetPendingEmail(r)
               \/ M!CommitChange(r) \/ M!ConsumeEmailToken(r) \/ M!MarkUserVerified(r) \/ M!Promote(r)
        PROVE  email' = email
    BY <2>1 DEF M!Arrive, M!Leave, M!InsertUser, M!ReadForResend, M!CommitResend, M!LookForOwner,
                M!SetPendingEmail, M!CommitChange, M!ConsumeEmailToken, M!MarkUserVerified,
                M!Promote, M!Tables
  <2>2. ASSUME M!VerifyAll \/ \E w \in Registrants, v \in BOOLEAN : M!SetVerified(w, v)
        PROVE  email' = email
    BY <2>2 DEF M!VerifyAll, M!SetVerified
  <2> QED BY <2>1, <2>2 DEF M!Next
<1>2. step[r] = "commit"
  BY <1>1 DEF M!CommitRegister, M!CommitConfirm, M!At
<1>3. CallFits(r) /\ RowFits(r)
  BY <1>2, RequestByRequest DEF CodesFit, ReqFits
<1>4. CASE M!CommitRegister(r)
  <2>1. email' = [email EXCEPT ![call[r].user] = call[r].to] /\ call[r].op = "register"
    BY <1>4 DEF M!CommitRegister, M!User
  <2>2. call[r].user = u
    BY <2>1 DEF CodesFit, M!TypeOK
  <2> QED BY <1>3, <2>1, <2>2 DEF RowFits
<1>5. CASE M!CommitConfirm(r)
  <2>1. call[r].op = "email_change" /\ email' = [email EXCEPT ![call[r].user] = read[r]]
    BY <1>5 DEF M!CommitConfirm, M!User, M!Purposes
  <2>2. call[r].user = u
    BY <2>1 DEF CodesFit, M!TypeOK
  <2>3. CodeFits(r)
    BY <1>2, <2>1, RequestByRequest DEF CodesFit, ReqFits, M!Spending, M!Purposes
  <2>4. codes[call[r].code].user = u /\ codes[call[r].code].purpose = "email_change"
    BY <1>3, <2>1, <2>2, <2>3 DEF CallFits, CodeFits, M!Purposes
  <2>5. call[r].code \in spent' \ spent
    BY <1>5, <2>3 DEF M!CommitConfirm, CodeFits
  <2> QED BY <2>4, <2>5
<1> QED BY <1>1, <1>4, <1>5

(* Whatever requests run beside each other, no live address changes but by *)
(* a code of that user's mailed for the purpose and not spent before.      *)
THEOREM FlipSpendsItsCodeHolds == EnrolSpec => FlipSpendsItsCode
<1>1. (focus = "codes" => CodesFit) /\ [Enrol \/ Verify]_all
        => [focus = "codes" => M!FlipSpends]_all
  BY FlipsSpend DEF Enrol, Verify
<1> QED BY <1>1, CodesInvariant, PTL DEF EnrolSpec, FlipSpendsItsCode
=============================================================================
