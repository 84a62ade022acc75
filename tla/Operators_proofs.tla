--------------------------- MODULE Operators_proofs ---------------------------
(***************************************************************************)
(* Theorems about what operators and users write over each other. An admin *)
(* who can log in always remains, for any number of requests, accounts and *)
(* teams, provided the staff do not join teams by themselves. A profile's  *)
(* gate can always be answered, and only an overlap undoes an answer. Only *)
(* edits that overlap misfit, accuse or close a cycle in silence. And the  *)
(* reports agree with one another, whatever log they are made of.          *)
(***************************************************************************)
EXTENDS MCOperators, Data_proofs, SequenceTheorems, TLAPS

USE RosterConstants

Labels == {"idle"} \cup Running \cup Outcomes

LEMMA AskFields ==
  ASSUME NEW ask \in Asks
  PROVE  /\ ask.op \in {"demote", "ban", "ban_team", "move", "join"}
         /\ ask.op # "ban_team" => ask.user \in Users
         /\ ask.op \in {"ban_team", "move", "join"} => ask.team \in Teams
         /\ ask.op = "join" => ask.user \in Players
BY DEF Asks

(* What a request may write, it may still write after people only come     *)
(* back: nobody usable is lost, no team is banned, nobody usable joins one. *)
LEMMA SurvivorsStay ==
  ASSUME NEW q \in Requests, req'[q] = req[q], req[q] \in Asks, Survivors(req[q]),
         Usable \subseteq Usable', bannedTeams' \subseteq bannedTeams,
         \A u \in Usable : team'[u] \in {team[u], None}
  PROVE  Survivors(req[q])'
<1>1. CASE req[q].op = "ban_team"
  <2>1. PICK u \in Usable : team[u] # req[q].team
    BY <1>1 DEF Survivors
  <2>2. u \in Usable' /\ team'[u] # req'[q].team
    BY <2>1, <1>1, AskFields
  <2>3. {v \in Usable' : team'[v] # req'[q].team} # {}
    BY <2>2
  <2> QED BY <2>3, <1>1 DEF Survivors
<1>2. CASE req[q].op = "move"
  BY <1>2 DEF Survivors
<1>3. CASE req[q].op \notin {"ban_team", "move"}
  BY <1>3 DEF Survivors
<1> QED BY <1>1, <1>2, <1>3

(* A step that leaves people alone leaves the usable admins and what a     *)
(* request may write.                                                      *)
LEMMA PeopleUnchanged ==
  ASSUME UNCHANGED people
  PROVE  /\ Usable' = Usable
         /\ \A q \in Requests :
              req'[q] = req[q] /\ Survivors(req[q]) => Survivors(req[q])'
BY DEF people, Usable, Survivors

(* The lock and the requests, in whichever way a request ends.             *)
LEMMA EndStep ==
  ASSUME Inv, NEW r \in Requests, NEW outcome \in Outcomes, Finish(r, outcome),
         admins' \subseteq Staff, banned' \subseteq Users,
         team' \in [Users -> Teams \cup {None}], bannedTeams' \subseteq Teams
  PROVE  /\ TypeOK' /\ OneDecides' /\ LockedAsks'
         /\ \A q \in Requests : pc'[q] = "write" => q # r /\ pc[q] = "write"
         /\ \A q \in Requests : q # r => req'[q] = req[q]
<1> USE DEF Inv
<1>1. pc' = [pc EXCEPT ![r] = outcome] /\ req' = [req EXCEPT ![r] = None]
      /\ rosterLock' = IF rosterLock = r THEN None ELSE rosterLock
  BY DEF Finish, Goto
<1>2. outcome \notin Running /\ outcome # "write" /\ outcome \in Labels
  BY DEF Outcomes, Running, Locked, Labels
<1>3. pc \in [Requests -> Labels] /\ req \in [Requests -> Asks \cup {None}]
  BY DEF TypeOK, Labels
<1>4. \A q \in Requests : q # r => pc'[q] = pc[q] /\ req'[q] = req[q]
  BY <1>1, <1>3
<1>5. pc'[r] = outcome
  BY <1>1, <1>3
<1>6. rosterLock' \in {q \in Requests : pc'[q] \in Locked} \cup {None}
  BY <1>1, <1>4 DEF TypeOK
<1>7. TypeOK'
  <2>1. pc' \in [Requests -> Labels] /\ req' \in [Requests -> Asks \cup {None}]
    BY <1>1, <1>2, <1>3
  <2>2. \A q \in Requests : pc'[q] \in Running => req'[q] \in Asks
    BY <1>2, <1>4, <1>5 DEF TypeOK
  <2> QED BY <2>1, <2>2, <1>6 DEF TypeOK, Labels
<1>8. OneDecides'
  BY <1>1, <1>2, <1>4, <1>5 DEF OneDecides, Running
<1>9. LockedAsks'
  BY <1>2, <1>4, <1>5 DEF LockedAsks, Running, Locked
<1>10. \A q \in Requests : pc'[q] = "write" => q # r /\ pc[q] = "write"
  BY <1>2, <1>4, <1>5
<1> QED BY <1>4, <1>7, <1>8, <1>9, <1>10

LEMMA RollbackKeeps ==
  ASSUME Inv, NEW r \in Requests, NEW outcome \in Outcomes, Rollback(r, outcome)
  PROVE  Inv'
<1> USE DEF Inv
<1>1. Finish(r, outcome) /\ UNCHANGED people
  BY DEF Rollback
<1>2. admins' \subseteq Staff /\ banned' \subseteq Users
      /\ team' \in [Users -> Teams \cup {None}] /\ bannedTeams' \subseteq Teams
  BY <1>1 DEF people, TypeOK
<1>3. /\ TypeOK' /\ OneDecides' /\ LockedAsks'
      /\ \A q \in Requests : pc'[q] = "write" => q # r /\ pc[q] = "write"
      /\ \A q \in Requests : q # r => req'[q] = req[q]
  BY <1>1, <1>2, EndStep
<1>4. SomeAdminRemains'
  BY <1>1, PeopleUnchanged DEF SomeAdminRemains
<1>5. DecisionHolds'
  <2> SUFFICES ASSUME NEW q \in Requests, pc'[q] = "write" PROVE Survivors(req[q])'
    BY DEF DecisionHolds
  <2>1. pc[q] = "write" /\ req'[q] = req[q] /\ req[q] \in Asks
    BY <1>3 DEF TypeOK, Running, Locked
  <2>2. Survivors(req[q])
    BY <2>1 DEF DecisionHolds
  <2> QED BY <1>1, <2>1, <2>2, PeopleUnchanged
<1> QED BY <1>3, <1>4, <1>5

(* A statement that only reads moves its request on, and keeps everything  *)
(* if what it read allows the next one.                                    *)
LEMMA ProceedKeeps ==
  ASSUME Inv, NEW r \in Requests, NEW label \in Running, Proceed(r, label),
         pc[r] \in Running,
         label = "lock" => pc[r] = "lock",
         label \in Locked <=> pc[r] \in Locked,
         label \in {"target", "dest", "count"} => req[r].op \in {"demote", "ban", "move"},
         label = "dest" => req[r].op = "move",
         label \in {"actor", "outside"} => req[r].op = "ban_team",
         label \in {"read", "enroll"} => req[r].op = "join",
         label = "write" => Survivors(req[r])
  PROVE  Inv'
<1> USE DEF Inv
<1>1. pc' = [pc EXCEPT ![r] = label] /\ UNCHANGED <<people, rosterLock, req>>
  BY DEF Proceed, Goto
<1>2. pc \in [Requests -> Labels] /\ label \in Labels
  BY DEF TypeOK, Labels
<1>3. pc'[r] = label /\ \A q \in Requests : q # r => pc'[q] = pc[q]
  BY <1>1, <1>2
<1>4. TypeOK'
  <2>1. pc' \in [Requests -> Labels]
    BY <1>1, <1>2
  <2>2. rosterLock' \in {q \in Requests : pc'[q] \in Locked} \cup {None}
    BY <1>1, <1>3 DEF TypeOK
  <2>3. \A q \in Requests : pc'[q] \in Running => req'[q] \in Asks
    BY <1>1, <1>3 DEF TypeOK
  <2> QED BY <1>1, <2>1, <2>2, <2>3 DEF TypeOK, people, Labels
<1>5. OneDecides'
  BY <1>1, <1>3 DEF OneDecides
<1>6. LockedAsks'
  <2> SUFFICES ASSUME NEW q \in Requests
               PROVE /\ pc'[q] \in Locked \cup {"lock"} => req[q].op # "join"
                     /\ pc'[q] \in {"target", "dest", "count"}
                          => req[q].op \in {"demote", "ban", "move"}
                     /\ pc'[q] = "dest" => req[q].op = "move"
                     /\ pc'[q] \in {"actor", "outside"} => req[q].op = "ban_team"
                     /\ pc'[q] \in {"read", "enroll"} => req[q].op = "join"
    BY <1>1 DEF LockedAsks
  <2> QED BY <1>3 DEF LockedAsks
<1>7. SomeAdminRemains'
  BY <1>1, PeopleUnchanged DEF SomeAdminRemains
<1>8. DecisionHolds'
  <2> SUFFICES ASSUME NEW q \in Requests, pc'[q] = "write" PROVE Survivors(req[q])'
    BY <1>1 DEF DecisionHolds
  <2>1. Survivors(req[q])
    BY <1>3 DEF DecisionHolds
  <2>2. req[q] \in Asks
    BY <1>3 DEF TypeOK, Running, Locked
  <2> QED BY <1>1, <2>1, <2>2, PeopleUnchanged
<1> QED BY <1>4, <1>5, <1>6, <1>7, <1>8

(* The holder of the lock writes: nobody else was about to.                *)
LEMMA WriteKeeps ==
  ASSUME Inv, NEW r \in Requests, pc[r] = "write", Finish(r, "done"),
         admins' \subseteq Staff, banned' \subseteq Users,
         team' \in [Users -> Teams \cup {None}], bannedTeams' \subseteq Teams,
         Usable' # {}
  PROVE  Inv'
<1> USE DEF Inv
<1>1. /\ TypeOK' /\ OneDecides' /\ LockedAsks'
      /\ \A q \in Requests : pc'[q] = "write" => q # r /\ pc[q] = "write"
  BY EndStep DEF Outcomes
<1>2. DecisionHolds'
  BY <1>1 DEF DecisionHolds, OneDecides, Locked
<1> QED BY <1>1, <1>2 DEF SomeAdminRemains

(* A step outside the lock: people only come back.                         *)
LEMMA GainKeeps ==
  ASSUME Inv, UNCHANGED <<rosterLock, req, pc>>,
         admins' \subseteq Staff, banned' \subseteq Users,
         team' \in [Users -> Teams \cup {None}],
         Usable \subseteq Usable', bannedTeams' \subseteq bannedTeams,
         \A u \in Usable : team'[u] \in {team[u], None}
  PROVE  Inv'
<1> USE DEF Inv
<1>1. TypeOK' /\ OneDecides' /\ LockedAsks'
  BY DEF TypeOK, OneDecides, LockedAsks
<1>2. SomeAdminRemains'
  BY DEF SomeAdminRemains
<1>3. DecisionHolds'
  <2> SUFFICES ASSUME NEW q \in Requests, pc[q] = "write" PROVE Survivors(req[q])'
    BY DEF DecisionHolds
  <2>1. req[q] \in Asks /\ Survivors(req[q])
    BY DEF TypeOK, Running, Locked, DecisionHolds
  <2> QED BY <2>1, SurvivorsStay
<1> QED BY <1>1, <1>2, <1>3

LEMMA InitInv == Init => Inv
<1> SUFFICES ASSUME Init PROVE Inv
  OBVIOUS
<1>1. TypeOK
  BY DEF Init, TypeOK, Running, Locked, Outcomes
<1>2. \A r \in Requests : pc[r] = "idle"
  BY DEF Init
<1>3. OneDecides /\ LockedAsks /\ DecisionHolds
  BY <1>2 DEF OneDecides, LockedAsks, DecisionHolds, Locked
<1>4. SomeAdminRemains
  BY DEF Init, SomeAdminRemains, Usable
<1> QED BY <1>1, <1>3, <1>4 DEF Inv

(* The steps of one request.                                               *)
LEMMA RequestStep ==
  ASSUME Inv, StaffDoNotJoin, NEW r \in Requests,
         \/ \E ask \in Asks : Begin(r, ask)
         \/ LockRoster(r) \/ ReadTarget(r) \/ ReadDest(r) \/ CountOthers(r)
         \/ ReadActor(r) \/ CountOutside(r)
         \/ Demote(r) \/ BanUser(r) \/ BanTeam(r) \/ Move(r) \/ Abort(r)
         \/ ReadTeam(r) \/ Enroll(r)
  PROVE  Inv'
<1> USE DEF Inv
<1>0. /\ pc \in [Requests -> Labels] /\ req \in [Requests -> Asks \cup {None}]
      /\ pc[r] \in Running => req[r] \in Asks
      /\ admins \subseteq Staff /\ banned \subseteq Users
      /\ team \in [Users -> Teams \cup {None}] /\ bannedTeams \subseteq Teams
  BY DEF TypeOK, Labels
<1>1. ASSUME NEW ask \in Asks, Begin(r, ask) PROVE Inv'
  <2>1. CASE Refused(ask)
    <3>1. Rollback(r, "refused")
      BY <1>1, <2>1 DEF Begin
    <3> QED BY <3>1, RollbackKeeps DEF Outcomes
  <2>2. CASE ~Refused(ask)
    <3> DEFINE label == IF ask.op = "join" THEN "read" ELSE "lock"
    <3>1. /\ pc[r] \notin Running /\ UNCHANGED <<people, rosterLock>>
          /\ req' = [req EXCEPT ![r] = ask] /\ pc' = [pc EXCEPT ![r] = label]
      BY <1>1, <2>2 DEF Begin, Goto
    <3>2. label \in {"read", "lock"} /\ label \in Running /\ label \in Labels
      BY DEF Running, Locked, Labels
    <3>3. /\ pc'[r] = label /\ req'[r] = ask
          /\ \A q \in Requests : q # r => pc'[q] = pc[q] /\ req'[q] = req[q]
      BY <1>0, <3>1
    <3>4. label = "read" <=> ask.op = "join"
      OBVIOUS
    <3> HIDE DEF label
    <3>5. TypeOK'
      <4>1. pc' \in [Requests -> Labels] /\ req' \in [Requests -> Asks \cup {None}]
        BY <1>0, <3>1, <3>2
      <4>2. rosterLock' \in {q \in Requests : pc'[q] \in Locked} \cup {None}
        BY <3>1, <3>3 DEF TypeOK, Running
      <4>3. \A q \in Requests : pc'[q] \in Running => req'[q] \in Asks
        BY <3>3 DEF TypeOK
      <4> QED BY <3>1, <4>1, <4>2, <4>3 DEF TypeOK, people, Labels
    <3>6. OneDecides'
      BY <3>1, <3>2, <3>3 DEF OneDecides, Locked
    <3>7. LockedAsks'
      BY <3>2, <3>3, <3>4 DEF LockedAsks, Locked
    <3>8. SomeAdminRemains'
      BY <3>1, PeopleUnchanged DEF SomeAdminRemains
    <3>9. DecisionHolds'
      <4> SUFFICES ASSUME NEW q \in Requests, pc'[q] = "write" PROVE Survivors(req[q])'
        BY DEF DecisionHolds
      <4>1. q # r /\ pc[q] = "write" /\ req'[q] = req[q]
        BY <3>2, <3>3
      <4>2. req[q] \in Asks /\ Survivors(req[q])
        BY <4>1 DEF TypeOK, Running, Locked, DecisionHolds
      <4> QED BY <3>1, <4>1, <4>2, PeopleUnchanged
    <3> QED BY <3>5, <3>6, <3>7, <3>8, <3>9
  <2> QED BY <2>1, <2>2
<1>2. CASE LockRoster(r)
  <2> DEFINE label == AfterLock(req[r].op)
  <2>1. /\ pc[r] = "lock" /\ rosterLock = None /\ rosterLock' = r
        /\ pc' = [pc EXCEPT ![r] = label] /\ UNCHANGED <<people, req>>
    BY <1>2 DEF LockRoster, Goto
  <2>2. req[r] \in Asks /\ req[r].op \in {"demote", "ban", "ban_team", "move"}
    <3>1. req[r] \in Asks /\ req[r].op # "join"
      BY <2>1, <1>0 DEF LockedAsks, Running
    <3> QED BY <3>1, AskFields
  <2>3. /\ label \in {"count", "actor", "target"}
        /\ label = "actor" <=> req[r].op = "ban_team"
    BY <2>2 DEF AfterLock
  <2> HIDE DEF label
  <2>4. label \in Locked /\ label \in Labels
    BY <2>3 DEF Locked, Running, Labels
  <2>5. pc'[r] = label /\ \A q \in Requests : q # r => pc'[q] = pc[q]
    BY <1>0, <2>1
  <2>6. \A q \in Requests : pc[q] \notin Locked
    BY <2>1 DEF OneDecides
  <2>7. TypeOK'
    <3>1. pc' \in [Requests -> Labels]
      BY <1>0, <2>1, <2>4
    <3>2. rosterLock' \in {q \in Requests : pc'[q] \in Locked} \cup {None}
      BY <2>1, <2>4, <2>5
    <3>3. \A q \in Requests : pc'[q] \in Running => req'[q] \in Asks
      BY <2>1, <2>2, <2>5 DEF TypeOK
    <3> QED BY <2>1, <3>1, <3>2, <3>3 DEF TypeOK, people, Labels
  <2>8. OneDecides'
    BY <2>1, <2>5, <2>6 DEF OneDecides
  <2>9. LockedAsks'
    <3> SUFFICES ASSUME NEW q \in Requests
                 PROVE /\ pc'[q] \in Locked \cup {"lock"} => req[q].op # "join"
                       /\ pc'[q] \in {"target", "dest", "count"}
                            => req[q].op \in {"demote", "ban", "move"}
                       /\ pc'[q] = "dest" => req[q].op = "move"
                       /\ pc'[q] \in {"actor", "outside"} => req[q].op = "ban_team"
                       /\ pc'[q] \in {"read", "enroll"} => req[q].op = "join"
      BY <2>1 DEF LockedAsks
    <3>1. CASE q = r
      BY <3>1, <2>2, <2>3, <2>5
    <3>2. CASE q # r
      BY <3>2, <2>5 DEF LockedAsks
    <3> QED BY <3>1, <3>2
  <2>10. SomeAdminRemains'
    BY <2>1, PeopleUnchanged DEF SomeAdminRemains
  <2>11. DecisionHolds'
    BY <2>3, <2>5, <2>6 DEF DecisionHolds, Locked
  <2> QED BY <2>7, <2>8, <2>9, <2>10, <2>11
<1>3. CASE ReadTarget(r)
  <2>1. pc[r] = "target" /\ req[r] \in Asks /\ req[r].op \in {"demote", "ban", "move"}
    BY <1>3, <1>0 DEF ReadTarget, LockedAsks, Running, Locked
  <2>2. CASE req[r].user \in admins \ banned
    <3> DEFINE label == IF req[r].op = "move" THEN "dest" ELSE "count"
    <3>1. Proceed(r, label)
      BY <1>3, <2>2 DEF ReadTarget
    <3>2. label \in {"dest", "count"} /\ (label = "dest" => req[r].op = "move")
      OBVIOUS
    <3> HIDE DEF label
    <3>3. label \in Running /\ label \in Locked /\ pc[r] \in Running /\ pc[r] \in Locked
      BY <2>1, <3>2 DEF Running, Locked
    <3> QED BY <2>1, <3>1, <3>2, <3>3, ProceedKeeps
  <2>3. CASE req[r].user \notin admins \ banned
    <3>1. Proceed(r, "write")
      BY <1>3, <2>3 DEF ReadTarget
    <3>2. Survivors(req[r])
      <4>1. Usable \ {req[r].user} = Usable
        BY <2>3 DEF Usable
      <4> QED BY <2>1, <4>1 DEF Survivors, SomeAdminRemains
    <3>3. "write" \in Running /\ "write" \in Locked /\ pc[r] \in Running /\ pc[r] \in Locked
      BY <2>1 DEF Running, Locked
    <3> QED BY <3>1, <3>2, <3>3, ProceedKeeps
  <2> QED BY <2>2, <2>3
<1>4. CASE ReadDest(r)
  <2>1. /\ pc[r] = "dest" /\ req[r] \in Asks /\ req[r].op = "move"
        /\ "write" \in Running /\ "write" \in Locked
        /\ "count" \in Running /\ "count" \in Locked
        /\ pc[r] \in Running /\ pc[r] \in Locked
    BY <1>4, <1>0 DEF ReadDest, LockedAsks, Running, Locked
  <2>2. CASE req[r].team \in bannedTeams
    <3>1. Proceed(r, "count")
      BY <1>4, <2>2 DEF ReadDest
    <3> QED BY <2>1, <3>1, ProceedKeeps
  <2>3. CASE req[r].team \notin bannedTeams
    <3>1. Proceed(r, "write")
      BY <1>4, <2>3 DEF ReadDest
    <3>2. Survivors(req[r])
      BY <2>1, <2>3 DEF Survivors
    <3> QED BY <2>1, <3>1, <3>2, ProceedKeeps
  <2> QED BY <2>2, <2>3
<1>5. CASE CountOthers(r)
  <2>1. /\ pc[r] = "count" /\ req[r].op \in {"demote", "ban", "move"}
        /\ "write" \in Running /\ "write" \in Locked
        /\ pc[r] \in Running /\ pc[r] \in Locked
    BY <1>5, <1>0 DEF CountOthers, LockedAsks, Running, Locked
  <2>2. CASE Usable \ {req[r].user} = {}
    <3>1. Rollback(r, "last_admin")
      BY <1>5, <2>2 DEF CountOthers
    <3> QED BY <3>1, RollbackKeeps DEF Outcomes
  <2>3. CASE Usable \ {req[r].user} # {}
    <3>1. Proceed(r, "write")
      BY <1>5, <2>3 DEF CountOthers
    <3>2. Survivors(req[r])
      BY <2>1, <2>3 DEF Survivors
    <3> QED BY <2>1, <3>1, <3>2, ProceedKeeps
  <2> QED BY <2>2, <2>3
<1>6. CASE ReadActor(r)
  <2>1. /\ pc[r] = "actor" /\ req[r].op = "ban_team"
        /\ "outside" \in Running /\ "outside" \in Locked
        /\ pc[r] \in Running /\ pc[r] \in Locked
    BY <1>6, <1>0 DEF ReadActor, LockedAsks, Running, Locked
  <2>2. Rollback(r, "refused") \/ Proceed(r, "outside")
    BY <1>6 DEF ReadActor
  <2> QED BY <2>1, <2>2, RollbackKeeps, ProceedKeeps DEF Outcomes
<1>7. CASE CountOutside(r)
  <2>1. /\ pc[r] = "outside" /\ req[r].op = "ban_team"
        /\ "write" \in Running /\ "write" \in Locked
        /\ pc[r] \in Running /\ pc[r] \in Locked
    BY <1>7, <1>0 DEF CountOutside, LockedAsks, Running, Locked
  <2>2. CASE {u \in Usable : team[u] # req[r].team} = {}
    <3>1. Rollback(r, "last_admin")
      BY <1>7, <2>2 DEF CountOutside
    <3> QED BY <3>1, RollbackKeeps DEF Outcomes
  <2>3. CASE {u \in Usable : team[u] # req[r].team} # {}
    <3>1. Proceed(r, "write")
      BY <1>7, <2>3 DEF CountOutside
    <3>2. Survivors(req[r])
      BY <2>1, <2>3 DEF Survivors
    <3> QED BY <2>1, <3>1, <3>2, ProceedKeeps
  <2> QED BY <2>2, <2>3
<1>8. CASE Demote(r)
  <2>1. /\ pc[r] = "write" /\ req[r].op = "demote" /\ Finish(r, "done")
        /\ admins' = admins \ {req[r].user} /\ UNCHANGED <<banned, team, bannedTeams>>
    BY <1>8 DEF Demote
  <2>2. PICK u \in Usable : u # req[r].user
    BY <2>1 DEF DecisionHolds, Survivors
  <2>3. u \in Usable'
    BY <2>1, <2>2 DEF Usable
  <2> QED BY <1>0, <2>1, <2>3, WriteKeeps
<1>9. CASE BanUser(r)
  <2>1. /\ pc[r] = "write" /\ req[r].op = "ban" /\ Finish(r, "done")
        /\ banned' = banned \cup {req[r].user} /\ UNCHANGED <<admins, team, bannedTeams>>
    BY <1>9 DEF BanUser
  <2>2. PICK u \in Usable : u # req[r].user
    BY <2>1 DEF DecisionHolds, Survivors
  <2>3. u \in Usable'
    BY <2>1, <2>2 DEF Usable
  <2>4. req[r].user \in Users
    BY <1>0, <2>1, AskFields DEF Running, Locked
  <2> QED BY <1>0, <2>1, <2>3, <2>4, WriteKeeps
<1>10. CASE BanTeam(r)
  <2>1. /\ pc[r] = "write" /\ req[r].op = "ban_team" /\ Finish(r, "done")
        /\ bannedTeams' = bannedTeams \cup {req[r].team} /\ UNCHANGED <<admins, banned, team>>
    BY <1>10 DEF BanTeam
  <2>2. PICK u \in Usable : team[u] # req[r].team
    BY <2>1 DEF DecisionHolds, Survivors
  <2>3. u \in Usable'
    BY <2>1, <2>2 DEF Usable
  <2>4. req[r].team \in Teams
    BY <1>0, <2>1, AskFields DEF Running, Locked
  <2> QED BY <1>0, <2>1, <2>3, <2>4, WriteKeeps
<1>11. CASE Move(r)
  <2>1. pc[r] = "write" /\ req[r].op = "move"
    BY <1>11 DEF Move
  <2>2. req[r].user \in Users /\ req[r].team \in Teams
    BY <1>0, <2>1, AskFields DEF Running, Locked
  <2>3. CASE team[req[r].user] = req[r].from
    <3>1. /\ team' = [team EXCEPT ![req[r].user] = req[r].team] /\ Finish(r, "done")
          /\ UNCHANGED <<admins, banned, bannedTeams>>
      BY <1>11, <2>3 DEF Move
    <3>2. team' \in [Users -> Teams \cup {None}]
      BY <1>0, <2>2, <3>1
    <3>3. req[r].team \notin bannedTeams \/ Usable \ {req[r].user} # {}
      BY <2>1 DEF DecisionHolds, Survivors
    <3>4. \A u \in Usable : u # req[r].user => u \in Usable'
      BY <1>0, <3>1 DEF Usable
    <3>5. CASE Usable \ {req[r].user} # {}
      BY <1>0, <2>1, <3>1, <3>2, <3>4, <3>5, WriteKeeps
    <3>6. CASE req[r].team \notin bannedTeams
      <4>1. req[r].user \in Usable => req[r].user \in Usable'
        BY <1>0, <2>2, <3>1, <3>6 DEF Usable
      <4>2. Usable' # {}
        BY <3>4, <4>1 DEF SomeAdminRemains
      <4> QED BY <1>0, <2>1, <3>1, <3>2, <4>2, WriteKeeps
    <3> QED BY <3>3, <3>5, <3>6
  <2>4. CASE team[req[r].user] # req[r].from
    <3>1. Rollback(r, "failed")
      BY <1>11, <2>4 DEF Move
    <3> QED BY <3>1, RollbackKeeps DEF Outcomes
  <2> QED BY <2>3, <2>4
<1>12. CASE Abort(r)
  BY <1>12, RollbackKeeps DEF Abort, Outcomes
<1>13. CASE ReadTeam(r)
  <2>1. /\ pc[r] = "read" /\ req[r].op = "join"
        /\ "enroll" \in Running /\ "enroll" \notin Locked
        /\ pc[r] \in Running /\ pc[r] \notin Locked
    BY <1>13, <1>0 DEF ReadTeam, LockedAsks, Running, Locked
  <2>2. Rollback(r, "denied") \/ Proceed(r, "enroll")
    BY <1>13 DEF ReadTeam
  <2> QED BY <2>1, <2>2, RollbackKeeps, ProceedKeeps DEF Outcomes
<1>14. CASE Enroll(r)
  <2>1. pc[r] = "enroll" /\ req[r] \in Asks /\ req[r].op = "join" /\ rosterLock # r
    BY <1>14, <1>0 DEF Enroll, LockedAsks, TypeOK, Running, Locked
  <2>2. req[r].user \in Users /\ req[r].user \notin admins /\ req[r].team \in Teams
    BY <1>0, <2>1, AskFields DEF StaffDoNotJoin
  <2>3. CASE team[req[r].user] = None
    <3>1. /\ team' = [team EXCEPT ![req[r].user] = req[r].team] /\ Finish(r, "done")
          /\ UNCHANGED <<admins, banned, bannedTeams>>
      BY <1>14, <2>3 DEF Enroll
    <3>2. team' \in [Users -> Teams \cup {None}]
      BY <1>0, <2>2, <3>1
    <3>3. Usable \subseteq Users /\ req[r].user \notin Usable
      BY <1>0, <2>2 DEF Usable
    <3>4. \A u \in Usable : team'[u] = team[u]
      BY <1>0, <3>1, <3>3
    <3>5. Usable \subseteq Usable'
      BY <3>1, <3>4 DEF Usable
    <3>6. /\ TypeOK' /\ OneDecides' /\ LockedAsks'
          /\ \A q \in Requests : pc'[q] = "write" => q # r /\ pc[q] = "write"
          /\ \A q \in Requests : q # r => req'[q] = req[q]
      BY <1>0, <3>1, <3>2, EndStep DEF Outcomes
    <3>7. DecisionHolds'
      <4> SUFFICES ASSUME NEW q \in Requests, pc'[q] = "write" PROVE Survivors(req[q])'
        BY DEF DecisionHolds
      <4>1. pc[q] = "write" /\ req'[q] = req[q]
        BY <3>6
      <4>2. req[q] \in Asks /\ Survivors(req[q])
        BY <4>1 DEF TypeOK, Running, Locked, DecisionHolds
      <4> QED BY <3>1, <3>4, <3>5, <4>1, <4>2, SurvivorsStay
    <3> QED BY <3>5, <3>6, <3>7 DEF SomeAdminRemains
  <2>4. CASE team[req[r].user] # None
    <3>1. Rollback(r, "denied")
      BY <1>14, <2>4 DEF Enroll
    <3> QED BY <3>1, RollbackKeeps DEF Outcomes
  <2> QED BY <2>3, <2>4
<1> QED BY <1>1, <1>2, <1>3, <1>4, <1>5, <1>6, <1>7, <1>8, <1>9, <1>10, <1>11, <1>12,
           <1>13, <1>14

(* Promotions, unbans and departures.                                      *)
LEMMA GainStep ==
  ASSUME Inv,
         \/ \E u \in Users : Promote(u) \/ Unban(u) \/ Detach(u)
         \/ \E t \in Teams : UnbanTeam(t)
  PROVE  Inv'
<1> USE DEF Inv
<1>0. /\ admins \subseteq Staff /\ banned \subseteq Users
      /\ team \in [Users -> Teams \cup {None}] /\ bannedTeams \subseteq Teams
  BY DEF TypeOK
<1>1. ASSUME NEW u \in Users, Promote(u) PROVE Inv'
  <2>1. Usable \subseteq Usable'
    BY <1>1 DEF Promote, Usable
  <2> QED BY <1>0, <1>1, <2>1, GainKeeps DEF Promote
<1>2. ASSUME NEW u \in Users, Unban(u) PROVE Inv'
  <2>1. Usable \subseteq Usable'
    BY <1>2 DEF Unban, Usable
  <2> QED BY <1>0, <1>2, <2>1, GainKeeps DEF Unban
<1>3. ASSUME NEW u \in Users, Detach(u) PROVE Inv'
  <2>1. /\ team' = [team EXCEPT ![u] = None]
        /\ UNCHANGED <<admins, banned, bannedTeams, rosterLock, req, pc>>
    BY <1>3 DEF Detach
  <2>2. \A v \in Users : team'[v] \in {team[v], None}
    BY <1>0, <2>1
  <2>3. Usable \subseteq Users
    BY <1>0 DEF Usable
  <2>4. Usable \subseteq Usable'
    <3> SUFFICES ASSUME NEW v \in Usable PROVE v \in Usable'
      OBVIOUS
    <3>1. v \in admins \ banned /\ team[v] \notin bannedTeams
      BY DEF Usable
    <3>2. team'[v] \notin bannedTeams
      BY <1>0, <2>2, <2>3, <3>1
    <3> QED BY <2>1, <3>1, <3>2 DEF Usable
  <2>5. team' \in [Users -> Teams \cup {None}]
    BY <1>0, <2>1
  <2> QED BY <1>0, <2>1, <2>2, <2>3, <2>4, <2>5, GainKeeps
<1>4. ASSUME NEW t \in Teams, UnbanTeam(t) PROVE Inv'
  <2>1. Usable \subseteq Usable'
    BY <1>4 DEF UnbanTeam, Usable
  <2> QED BY <1>0, <1>4, <2>1, GainKeeps DEF UnbanTeam
<1> QED BY <1>1, <1>2, <1>3, <1>4

LEMMA NextInv == ASSUME Inv, StaffDoNotJoin, [Next]_vars PROVE Inv'
<1>1. CASE UNCHANGED vars
  <2>1. UNCHANGED <<rosterLock, req, pc>> /\ UNCHANGED people
    BY <1>1 DEF vars, people
  <2> QED BY <2>1, PeopleUnchanged
          DEF Inv, TypeOK, OneDecides, LockedAsks, DecisionHolds, SomeAdminRemains, people,
              Usable, Survivors
<1>2. CASE Next
  BY <1>2, RequestStep, GainStep DEF Next
<1> QED BY <1>1, <1>2

(* The inductive invariant holds.                                          *)
THEOREM RosterInvHolds == ASSUME StaffDoNotJoin PROVE Spec => []Inv
<1>1. Inv /\ [Next]_vars => Inv'
  BY NextInv
<1> QED BY <1>1, InitInv, PTL DEF Spec

(* Type correctness, and the lock held only by a request that decides.     *)
THEOREM RosterTypeCorrect == ASSUME StaffDoNotJoin PROVE Spec => []TypeOK
<1>1. Inv => TypeOK
  BY DEF Inv
<1> QED BY <1>1, RosterInvHolds, PTL

(* Whatever is demoted, banned and moved at once, an admin is left who can *)
(* log in.                                                                 *)
THEOREM SomeAdminRemainsHolds == ASSUME StaffDoNotJoin PROVE Spec => []SomeAdminRemains
<1>1. Inv => SomeAdminRemains
  BY DEF Inv
<1> QED BY <1>1, RosterInvHolds, PTL

-----------------------------------------------------------------------------
(* Custom fields *)

ProfilesFit == F!TypeOK /\ F!Inv

(* A required question is writable by whoever owes it, whatever else is    *)
(* said of it, so the gate always has a way out.                           *)
LEMMA OwedIsWritable ==
  ASSUME NEW u \in Registrants
  PROVE  F!Accepted([f \in F!Owed(u, "user") |-> "yes"], F!Loaded(u))
<1> DEFINE given == [f \in F!Owed(u, "user") |-> "yes"]
           those == {f \in Fields : F!Live(f) /\ fields[f].owner = "user"}
<1>1. DOMAIN given = F!Owed(u, "user") /\ DOMAIN F!Loaded(u) = those
  BY DEF F!Loaded
<1>2. F!Owed(u, "user") \subseteq those
  BY DEF F!Owed
<1>3. ASSUME NEW f \in F!Owed(u, "user")
      PROVE  F!Writable(F!Loaded(u)[f]) /\ F!Present(given[f])
  <2>1. F!Loaded(u)[f] = [def |-> fields[f], answer |-> entries[f][u]]
    BY <1>2 DEF F!Loaded
  <2>2. fields[f].required /\ entries[f][u] = None
    BY DEF F!Owed, F!Answered
  <2> QED BY <2>1, <2>2 DEF F!Writable, F!Present
<1> QED BY <1>1, <1>2, <1>3 DEF F!Accepted

(* One request's share of the invariant, and its type.                     *)
Asking(r) ==
  asked[r] # None =>
    /\ \E u \in Registrants, fs \in SUBSET Fields : \E given \in [fs -> F!Raw] :
         asked[r] = [user |-> u, given |-> given]
    /\ r \notin overtaken => at[r] = F!Loaded(asked[r].user)

Tables ==
  /\ fields \in [Fields -> {None, F!Gone} \cup F!Definitions]
  /\ entries \in [Fields -> [F!Owners -> {"yes", "no", None}]]
  /\ on \in [Registrants -> Clubs \cup {None, "nobody"}]
  /\ asked = [r \in Requests |-> asked[r]] /\ at = [r \in Requests |-> at[r]]
  /\ F!Unasked

LEMMA ProfilesApart ==
  /\ ProfilesFit <=> Tables /\ overtaken \subseteq F!InFlight /\ \A r \in Requests : Asking(r)
  /\ ProfilesFit' <=> Tables' /\ (overtaken \subseteq F!InFlight)' /\ \A r \in Requests : Asking(r)'
<1> USE DEF ProfilesFit, F!TypeOK, F!Inv, F!Current, Tables, Asking
<1>1. ProfilesFit => Tables /\ overtaken \subseteq F!InFlight /\ \A r \in Requests : Asking(r)
  OBVIOUS
<1>2. Tables /\ overtaken \subseteq F!InFlight /\ (\A r \in Requests : Asking(r)) => ProfilesFit
  OBVIOUS
<1>3. ProfilesFit' => Tables' /\ (overtaken \subseteq F!InFlight)' /\ \A r \in Requests : Asking(r)'
  OBVIOUS
<1>4. Tables' /\ (overtaken \subseteq F!InFlight)' /\ (\A r \in Requests : Asking(r)') => ProfilesFit'
  OBVIOUS
<1> HIDE DEF ProfilesFit, F!TypeOK, F!Inv, F!Current, Tables, Asking
<1> QED BY <1>1, <1>2, <1>3, <1>4

(* A commit overtakes every request but the one, if any, that made it.     *)
LEMMA Overtaken ==
  ASSUME ProfilesFit, NEW x, F!Overtake(x),
         \A q \in Requests \ {x} : asked'[q] = asked[q] /\ at'[q] = at[q],
         x \in Requests => asked'[x] = None,
         Tables'
  PROVE  ProfilesFit'
<1>1. overtaken' = (overtaken \cup F!InFlight) \ {x} /\ overtaken \subseteq F!InFlight
  BY ProfilesApart DEF F!Overtake
<1>2. (overtaken \subseteq F!InFlight)'
  BY <1>1 DEF F!InFlight
<1>3. ASSUME NEW q \in Requests PROVE Asking(q)'
  <2>1. CASE q = x
    BY <2>1 DEF Asking
  <2>2. CASE q # x
    <3>1. asked'[q] = asked[q] /\ Asking(q)
      BY <2>2, ProfilesApart
    <3>2. asked[q] # None => q \in overtaken'
      BY <1>1, <2>2 DEF F!InFlight
    <3> QED BY <3>1, <3>2 DEF Asking
  <2> QED BY <2>1, <2>2
<1> QED BY <1>2, <1>3, ProfilesApart

(* An operator edits the questions.                                        *)
LEMMA FieldFits ==
  ASSUME ProfilesFit, NEW f \in Fields, F!CreateField(f) \/ F!UpdateField(f) \/ F!DeleteField(f)
  PROVE  ProfilesFit'
<1>1. UNCHANGED <<on, teams, asked, at>> /\ F!Overtake(None)
  BY DEF F!CreateField, F!UpdateField, F!DeleteField
<1>2. /\ fields \in [Fields -> {None, F!Gone} \cup F!Definitions]
      /\ entries \in [Fields -> [F!Owners -> {"yes", "no", None}]] /\ F!Unasked
  BY ProfilesApart DEF Tables
<1>3. fields' \in [Fields -> {None, F!Gone} \cup F!Definitions]
  <2>1. CASE F!CreateField(f)
    BY <1>2, <2>1 DEF F!CreateField, F!Definitions
  <2>2. CASE F!UpdateField(f)
    <3>1. fields[f] \in F!Definitions
      BY <1>2, <2>2 DEF F!UpdateField, F!Live
    <3>2. PICK required \in BOOLEAN, editable \in BOOLEAN :
            fields' = [fields EXCEPT ![f].required = required, ![f].editable = editable]
      BY <2>2 DEF F!UpdateField
    <3>3. [[fields[f] EXCEPT !.required = required] EXCEPT !.editable = editable] \in F!Definitions
      BY <3>1 DEF F!Definitions
    <3> QED BY <1>2, <3>2, <3>3
  <2>3. CASE F!DeleteField(f)
    BY <1>2, <2>3 DEF F!DeleteField
  <2> QED BY <2>1, <2>2, <2>3
<1>4. \/ entries' = entries
      \/ entries' = [entries EXCEPT ![f] = [o \in F!Owners |-> None]]
  BY DEF F!CreateField, F!UpdateField, F!DeleteField
<1>5. /\ entries' \in [Fields -> [F!Owners -> {"yes", "no", None}]]
      /\ \A g \in Fields, o \in F!Owners : entries'[g][o] \in {entries[g][o], None}
  BY <1>2, <1>4
<1>6. F!Unasked'
  BY <1>1, <1>2, <1>5 DEF F!Unasked, F!Answered, F!Registered, F!Owners
<1>7. Tables'
  BY <1>1, <1>3, <1>5, <1>6, ProfilesApart DEF Tables
<1> QED BY <1>1, <1>7, Overtaken, OperatorConstants DEF F!OwnersAreApart

(* A team is joined, unasked.                                              *)
LEMMA ClubFits ==
  ASSUME ProfilesFit, NEW u \in Registrants, NEW t \in Clubs, F!CreateTeam(u, t) \/ F!JoinTeam(u, t)
  PROVE  ProfilesFit'
<1>1. /\ on[u] = None /\ on' = [on EXCEPT ![u] = t]
      /\ UNCHANGED <<fields, entries, asked, at, overtaken>>
  BY DEF F!CreateTeam, F!JoinTeam, F!profile
<1>2. /\ on' \in [Registrants -> Clubs \cup {None, "nobody"}]
      /\ \A v \in Registrants : F!Registered(v) => F!Registered(v)'
  BY <1>1, ProfilesApart, OperatorConstants DEF Tables, F!Registered, F!OwnersAreApart
<1>3. Tables'
  BY <1>1, <1>2, ProfilesApart DEF Tables, F!Unasked, F!Answered
<1>4. F!InFlight' = F!InFlight
  BY <1>1 DEF F!InFlight
<1>5. \A r \in Requests : Asking(r)'
  <2>1. \A v : F!Loaded(v)' = F!Loaded(v)
    BY <1>1 DEF F!Loaded, F!Live
  <2> QED BY <1>1, <2>1, ProfilesApart DEF Asking
<1> QED BY <1>1, <1>3, <1>4, <1>5, ProfilesApart

LEMMA LoadFits ==
  ASSUME ProfilesFit, NEW r \in Requests, F!Load(r)
  PROVE  ProfilesFit'
<1>1. PICK u \in Registrants, fs \in SUBSET Fields : \E given \in [fs -> F!Raw] :
        /\ asked' = [asked EXCEPT ![r] = [user |-> u, given |-> given]]
        /\ at' = [at EXCEPT ![r] = F!Loaded(u)]
  BY DEF F!Load
<1>2. PICK given \in [fs -> F!Raw] :
        /\ asked' = [asked EXCEPT ![r] = [user |-> u, given |-> given]]
        /\ at' = [at EXCEPT ![r] = F!Loaded(u)]
  BY <1>1
<1>3. asked[r] = None /\ UNCHANGED <<fields, entries, on, overtaken>>
  BY DEF F!Load, F!profile
<1>4. Tables'
  <2>1. asked' = [q \in Requests |-> asked'[q]] /\ at' = [q \in Requests |-> at'[q]]
    <3>1. asked = [p \in Requests |-> asked[p]] /\ at = [p \in Requests |-> at[p]]
      BY ProfilesApart DEF Tables
    <3> QED BY <1>2, <3>1
  <2>2. F!Unasked'
    BY <1>3, ProfilesApart DEF Tables, F!Unasked, F!Answered, F!Registered
  <2> QED BY <1>3, <2>1, <2>2, ProfilesApart DEF Tables
<1>5. overtaken \subseteq F!InFlight /\ r \notin overtaken
  BY <1>3, ProfilesApart DEF F!InFlight
<1> DEFINE order == [user |-> u, given |-> given]
<1>6. order.user = u
  OBVIOUS
<1> HIDE DEF order
<1>7. (overtaken \subseteq F!InFlight)'
  BY <1>2, <1>3, <1>5 DEF F!InFlight
<1>8. ASSUME NEW q \in Requests PROVE Asking(q)'
  <2>1. asked = [p \in Requests |-> asked[p]] /\ at = [p \in Requests |-> at[p]]
    BY ProfilesApart DEF Tables
  <2>2. \A v : F!Loaded(v)' = F!Loaded(v)
    BY <1>3 DEF F!Loaded, F!Live
  <2>3. CASE q = r
    <3>1. asked'[q] = order /\ at'[q] = F!Loaded(u)
      BY <1>2, <2>1, <2>3 DEF order
    <3>2. \E v \in Registrants, gs \in SUBSET Fields : \E what \in [gs -> F!Raw] :
            asked'[q] = [user |-> v, given |-> what]
      BY <3>1, <1>2 DEF order
    <3> QED BY <3>1, <3>2, <1>6, <2>2 DEF Asking
  <2>4. CASE q # r
    <3>1. asked'[q] = asked[q] /\ at'[q] = at[q]
      BY <1>2, <2>1, <2>4
    <3> QED BY <3>1, <1>3, <2>2, ProfilesApart DEF Asking
  <2> QED BY <2>3, <2>4
<1> QED BY <1>4, <1>7, <1>8, ProfilesApart

LEMMA CloseKeeps ==
  ASSUME ProfilesFit, NEW r \in Requests, F!Close(r)
  PROVE  /\ asked' = [q \in Requests |-> asked'[q]] /\ at' = [q \in Requests |-> at'[q]]
         /\ asked'[r] = None
         /\ \A q \in Requests \ {r} : asked'[q] = asked[q] /\ at'[q] = at[q]
<1>1. asked = [p \in Requests |-> asked[p]] /\ at = [p \in Requests |-> at[p]]
  BY ProfilesApart DEF Tables
<1> QED BY <1>1 DEF F!Close

(* A refusal leaves only the request itself behind.                        *)
LEMMA RefuseFits ==
  ASSUME ProfilesFit, NEW r \in Requests, F!Refuse(r)
  PROVE  ProfilesFit'
<1>1. UNCHANGED <<fields, entries, on>> /\ overtaken' = overtaken \ {r} /\ F!Close(r)
  BY DEF F!Refuse, F!profile
<1>2. Tables'
  <2>1. F!Unasked'
    BY <1>1, ProfilesApart DEF Tables, F!Unasked, F!Answered, F!Registered
  <2> QED BY <1>1, <2>1, CloseKeeps, ProfilesApart DEF Tables
<1>3. (overtaken \subseteq F!InFlight)'
  BY <1>1, CloseKeeps, ProfilesApart DEF F!InFlight
<1>4. \A v : F!Loaded(v)' = F!Loaded(v)
  BY <1>1 DEF F!Loaded, F!Live
<1>5. ASSUME NEW q \in Requests PROVE Asking(q)'
  <2>1. CASE q = r
    BY <1>1, <2>1, CloseKeeps DEF Asking
  <2>2. CASE q # r
    <3>1. asked'[q] = asked[q] /\ at'[q] = at[q] /\ (q \in overtaken' <=> q \in overtaken)
      BY <1>1, <2>2, CloseKeeps
    <3>2. Asking(q)
      BY ProfilesApart
    <3> QED BY <1>4, <3>1, <3>2 DEF Asking
  <2> QED BY <2>1, <2>2
<1> QED BY <1>2, <1>3, <1>5, ProfilesApart

(* What is written: answers of the one who asked, and of nobody else.      *)
WroteFor(u, fs, given) ==
  /\ entries' \in [Fields -> [F!Owners -> {"yes", "no", None}]]
  /\ \A f \in Fields, o \in F!Owners :
       entries'[f][o] = IF f \in fs /\ o = u
                          THEN IF F!Present(given[f]) THEN given[f] ELSE None
                          ELSE entries[f][o]

LEMMA WrittenFits ==
  ASSUME ProfilesFit, NEW u \in Registrants, NEW fs \in SUBSET Fields, NEW given \in [fs -> F!Raw],
         entries' = F!Written(u, given)
  PROVE  WroteFor(u, fs, given)
<1>1. entries \in [Fields -> [F!Owners -> {"yes", "no", None}]] /\ DOMAIN given = fs
  BY ProfilesApart DEF Tables
<1>2. ASSUME NEW f \in Fields
      PROVE  /\ entries'[f] \in [F!Owners -> {"yes", "no", None}]
             /\ \A o \in F!Owners :
                  entries'[f][o] = IF f \in fs /\ o = u
                                     THEN IF F!Present(given[f]) THEN given[f] ELSE None
                                     ELSE entries[f][o]
  <2>1. CASE f \in fs
    <3>1. given[f] \in F!Raw /\ (F!Present(given[f]) => given[f] \in {"yes", "no"})
      BY <2>1 DEF F!Raw, F!Present
    <3>2. entries'[f] = [entries[f] EXCEPT ![u] = IF F!Present(given[f]) THEN given[f] ELSE None]
      BY <1>1, <2>1 DEF F!Written
    <3>3. u \in F!Owners
      BY DEF F!Owners
    <3>4. entries[f] \in [F!Owners -> {"yes", "no", None}]
      BY <1>1
    <3> QED BY <3>1, <3>2, <3>3, <3>4, <2>1
  <2>2. CASE f \notin fs
    BY <1>1, <2>2 DEF F!Written
  <2> QED BY <2>1, <2>2
<1>3. entries' = [f \in Fields |-> entries'[f]]
  BY DEF F!Written
<1> QED BY <1>2, <1>3 DEF WroteFor

(* A request that writes: the answers of a user who is registered then.    *)
LEMMA WriteFits ==
  ASSUME ProfilesFit, NEW r \in Requests, asked[r] # None, F!Done(r), UNCHANGED fields,
         entries' = F!Written(asked[r].user, asked[r].given),
         on' \in [Registrants -> Clubs \cup {None, "nobody"}],
         \A v \in Registrants : F!Registered(v) => F!Registered(v)',
         on'[asked[r].user] # "nobody"
  PROVE  ProfilesFit'
<1>1. PICK u \in Registrants, fs \in SUBSET Fields : \E given \in [fs -> F!Raw] :
        asked[r] = [user |-> u, given |-> given]
  BY ProfilesApart DEF Asking
<1>2. PICK given \in [fs -> F!Raw] : asked[r] = [user |-> u, given |-> given]
  BY <1>1
<1>3. asked[r].user = u /\ asked[r].given = given
  BY <1>2
<1>4. /\ entries' \in [Fields -> [F!Owners -> {"yes", "no", None}]]
      /\ \A f \in Fields, v \in Registrants : v # u => entries'[f][v] = entries[f][v]
  <2>1. entries' = F!Written(u, given)
    BY <1>3
  <2>2. WroteFor(u, fs, given)
    BY <2>1, WrittenFits
  <2>3. Registrants \subseteq F!Owners
    BY DEF F!Owners
  <2> QED BY <2>2, <2>3 DEF WroteFor
<1>5. F!Unasked'
  <2> SUFFICES ASSUME NEW f \in Fields, NEW v \in Registrants, F!Answered(f, v)'
               PROVE  F!Registered(v)'
    BY DEF F!Unasked
  <2>1. CASE v = u
    BY <1>3, <2>1 DEF F!Registered
  <2>2. CASE v # u
    <3>1. F!Answered(f, v)
      BY <1>4, <2>2 DEF F!Answered
    <3> QED BY <3>1, ProfilesApart DEF Tables, F!Unasked
  <2> QED BY <2>1, <2>2
<1>6. Tables'
  <2>1. fields \in [Fields -> {None, F!Gone} \cup F!Definitions]
    BY ProfilesApart DEF Tables
  <2> QED BY <1>4, <1>5, <2>1, CloseKeeps DEF Tables, F!Done, F!Gone, F!Definitions
<1> QED BY <1>6, CloseKeeps, Overtaken DEF F!Done

LEMMA RegisterFits ==
  ASSUME ProfilesFit, NEW r \in Requests, F!Register(r)
  PROVE  ProfilesFit'
<1>1. CASE F!Refuse(r)
  BY <1>1, RefuseFits
<1>2. CASE ~F!Refuse(r)
  <2>1. /\ asked[r] # None /\ F!Done(r) /\ UNCHANGED fields
        /\ entries' = F!Written(asked[r].user, asked[r].given)
        /\ on' = [on EXCEPT ![asked[r].user] = None]
    BY <1>2 DEF F!Register
  <2>2. on \in [Registrants -> Clubs \cup {None, "nobody"}] /\ asked[r].user \in Registrants
    BY <2>1, ProfilesApart DEF Tables, Asking
  <2>3. None # "nobody"
    BY OperatorConstants DEF F!OwnersAreApart
  <2>4. /\ on' \in [Registrants -> Clubs \cup {None, "nobody"}]
        /\ \A v \in Registrants : F!Registered(v) => F!Registered(v)'
    BY <2>1, <2>2, <2>3 DEF F!Registered
  <2>5. on'[asked[r].user] # "nobody"
    BY <2>1, <2>2, <2>3
  <2> QED BY <2>1, <2>4, <2>5, WriteFits
<1> QED BY <1>1, <1>2

LEMMA AnswerFits ==
  ASSUME ProfilesFit, NEW r \in Requests, F!AnswerUserFields(r)
  PROVE  ProfilesFit'
<1>1. CASE F!Refuse(r)
  BY <1>1, RefuseFits
<1>2. CASE ~F!Refuse(r)
  <2>1. /\ asked[r] # None /\ F!Done(r) /\ UNCHANGED <<fields, on>>
        /\ entries' = F!Written(asked[r].user, asked[r].given)
        /\ F!Registered(asked[r].user)
    BY <1>2 DEF F!AnswerUserFields
  <2>2. on \in [Registrants -> Clubs \cup {None, "nobody"}]
    BY ProfilesApart DEF Tables
  <2> QED BY <2>1, <2>2, WriteFits DEF F!Registered
<1> QED BY <1>1, <1>2

LEMMA ProfilesInit ==
  ASSUME F!Init
  PROVE  ProfilesFit
<1>1. /\ fields = [f \in Fields |-> None] /\ entries = [f \in Fields |-> [o \in F!Owners |-> None]]
      /\ on = [u \in Registrants |-> "nobody"] /\ overtaken = {}
      /\ asked = [r \in Requests |-> None] /\ at = [r \in Requests |-> None]
  BY DEF F!Init
<1>2. F!Unasked
  BY <1>1 DEF F!Unasked, F!Answered, F!Owners
<1>3. Tables
  BY <1>1, <1>2 DEF Tables
<1>4. \A r \in Requests : Asking(r)
  BY <1>1 DEF Asking
<1> QED BY <1>1, <1>3, <1>4, ProfilesApart

LEMMA ProfilesNext ==
  ASSUME ProfilesFit, F!Next
  PROVE  ProfilesFit'
BY FieldFits, ClubFits, LoadFits, RegisterFits, AnswerFits DEF F!Next

LEMMA ProfilesFrame ==
  ASSUME ProfilesFit, UNCHANGED <<fields, entries, on, asked, at, overtaken>>
  PROVE  ProfilesFit'
<1>1. F!Unasked'
  BY ProfilesApart DEF Tables, F!Unasked, F!Answered, F!Registered
<1>2. Tables'
  BY <1>1, ProfilesApart DEF Tables
<1>3. \A v : F!Loaded(v)' = F!Loaded(v)
  BY DEF F!Loaded, F!Live
<1>4. \A r \in Requests : Asking(r)'
  BY <1>3, ProfilesApart DEF Asking
<1>5. (overtaken \subseteq F!InFlight)'
  BY ProfilesApart DEF F!InFlight
<1> QED BY <1>2, <1>4, <1>5, ProfilesApart

(* Custom fields keep their shape; whoever is not registered has answered  *)
(* nothing, and beside whom nothing was committed, what they loaded is     *)
(* what there is.                                                          *)
THEOREM ProfilesInvariant == OperatorsSpec => [](focus = "profiles" => ProfilesFit)
<1> DEFINE IInv == focus = "profiles" => ProfilesFit
<1>1. OperatorsInit => IInv
  BY ProfilesInit DEF OperatorsInit
<1>2. IInv /\ [Administer \/ Author \/ Ask \/ Log]_all => IInv'
  <2> SUFFICES ASSUME IInv, [Administer \/ Author \/ Ask \/ Log]_all, focus' = "profiles"
               PROVE  ProfilesFit'
    OBVIOUS
  <2>1. CASE Ask
    BY <2>1, ProfilesNext DEF Ask
  <2>2. CASE UNCHANGED all
    <3>1. UNCHANGED <<focus, fields, entries, on, asked, at, overtaken>>
      BY <2>2 DEF all, requests, enrolment, asking
    <3> QED BY <3>1, ProfilesFrame
  <2>3. CASE Administer \/ Author \/ Log
    BY <2>3 DEF Administer, Author, Log
  <2> QED BY <2>1, <2>2, <2>3
<1> QED BY <1>1, <1>2, PTL DEF OperatorsSpec

(* Whoever a required question holds is let through by answering it.       *)
THEOREM UserGateHasRemedyHolds == OperatorsSpec => []UserGateHasRemedy
<1>1. UserGateHasRemedy
  BY OwedIsWritable DEF UserGateHasRemedy, F!UserGateHasRemedy
<1> QED BY <1>1, PTL

(* A request that is answered while nothing was committed beside it: what  *)
(* it judged is what there is, so it takes nothing away that is asked for  *)
(* and changes nothing that is closed.                                     *)
LEMMA NothingUndone ==
  ASSUME ProfilesFit, NEW r \in Requests, asked[r] # None, r \notin overtaken,
         F!Register(r) \/ F!AnswerUserFields(r)
  PROVE  LET u == asked[r].user IN
         /\ F!Registered(u) /\ F!ProfileComplete(u) => \A f \in Fields :
              (F!Live(f) /\ fields[f].required /\ fields[f].owner = "user") => entries'[f][u] # None
         /\ \A f \in Fields :
              F!Answered(f, u) /\ ~fields[f].editable => entries'[f][u] = entries[f][u]
<1>1. PICK u \in Registrants, fs \in SUBSET Fields : \E given \in [fs -> F!Raw] :
        asked[r] = [user |-> u, given |-> given]
  BY ProfilesApart DEF Asking
<1>2. PICK given \in [fs -> F!Raw] : asked[r] = [user |-> u, given |-> given]
  BY <1>1
<1>3. asked[r].user = u /\ asked[r].given = given /\ at[r] = F!Loaded(u) /\ DOMAIN given = fs
  BY <1>2, ProfilesApart DEF Asking
<1>4. u \in F!Owners
  BY DEF F!Owners
<1> DEFINE Kept ==
      /\ F!Registered(u) /\ F!ProfileComplete(u) => \A f \in Fields :
           (F!Live(f) /\ fields[f].required /\ fields[f].owner = "user") => entries'[f][u] # None
      /\ \A f \in Fields :
           F!Answered(f, u) /\ ~fields[f].editable => entries'[f][u] = entries[f][u]
<1>5. ASSUME F!Registered(u), F!ProfileComplete(u), NEW f \in Fields, F!Live(f), fields[f].required,
             fields[f].owner = "user"
      PROVE  entries[f][u] # None
  BY <1>5 DEF F!ProfileComplete, F!Owed, F!Answered
<1>6. CASE F!Refuse(r)
  <2>1. entries' = entries
    BY <1>6 DEF F!Refuse, F!profile
  <2>2. Kept
    BY <2>1, <1>5
  <2> QED BY <2>2, <1>3
<1>7. CASE F!Register(r) /\ ~F!Refuse(r)
  <2>1. ~F!Registered(u)
    BY <1>3, <1>7 DEF F!Register
  <2>2. \A f \in Fields : ~F!Answered(f, u)
    BY <2>1, ProfilesApart DEF Tables, F!Unasked
  <2>3. Kept
    BY <2>1, <2>2
  <2> QED BY <2>3, <1>3
<1>8. CASE F!AnswerUserFields(r) /\ ~F!Refuse(r)
  <2>1. F!Accepted(given, F!Loaded(u)) /\ entries' = F!Written(u, given)
    BY <1>3, <1>8 DEF F!AnswerUserFields
  <2>2. WroteFor(u, fs, given)
    BY <2>1, WrittenFits
  <2>3. ASSUME NEW f \in fs
        PROVE  /\ fields[f].editable \/ (fields[f].required /\ entries[f][u] = None)
               /\ fields[f].required => F!Present(given[f])
    <3>1. f \in DOMAIN given /\ DOMAIN given \subseteq DOMAIN F!Loaded(u)
      BY <1>3, <2>1 DEF F!Accepted
    <3>2. F!Loaded(u)[f] = [def |-> fields[f], answer |-> entries[f][u]]
      BY <3>1 DEF F!Loaded
    <3>3. F!Loaded(u)[f].def = fields[f] /\ F!Loaded(u)[f].answer = entries[f][u]
      BY <3>2
    <3> QED BY <3>1, <3>3, <2>1 DEF F!Accepted, F!Writable
  <2>4. ASSUME NEW f \in fs, fields[f].required
        PROVE  entries'[f][u] # None
    <3>1. F!Present(given[f])
      BY <2>3, <2>4
    <3>2. entries'[f][u] = given[f]
      BY <2>2, <3>1, <1>4 DEF WroteFor
    <3>3. given[f] \in {"yes", "no"}
      BY <3>1 DEF F!Raw, F!Present
    <3> QED BY <3>2, <3>3, OperatorConstants DEF F!OwnersAreApart
  <2>5. ASSUME NEW f \in fs, F!Answered(f, u)
        PROVE  fields[f].editable
    BY <2>3, <2>5 DEF F!Answered
  <2>6. \A f \in Fields \ fs : entries'[f][u] = entries[f][u]
    BY <2>2, <1>4 DEF WroteFor
  <2>7. Kept
    BY <1>5, <2>4, <2>5, <2>6
  <2> QED BY <2>7, <1>3
<1> QED BY <1>6, <1>7, <1>8 DEF F!Register, F!AnswerUserFields

(* A user's own request undoes nothing that the gate asks for, and nothing *)
(* that is closed to them, unless something was committed beside it.       *)
THEOREM OnlyOverlapUndoesHolds == OperatorsSpec => OnlyOverlapUndoes
<1>1. ASSUME focus = "profiles" => ProfilesFit, [Administer \/ Author \/ Ask \/ Log]_all,
             focus = "profiles"
      PROVE  F!UndoStep
  <2> SUFFICES ASSUME NEW r \in Requests, asked[r] # None, asked'[r] = None, r \notin overtaken
               PROVE  F!Register(r) \/ F!AnswerUserFields(r)
    BY <1>1, NothingUndone DEF F!UndoStep
  <2>1. ProfilesFit
    BY <1>1
  <2>2. asked = [q \in Requests |-> asked[q]]
    BY <2>1, ProfilesApart DEF Tables
  <2>3. asked' # asked
    OBVIOUS
  <2>4. F!Next
    BY <1>1, <2>3 DEF Administer, Author, Ask, Log, all, requests
  <2>5. PICK q \in Requests : F!Load(q) \/ F!Register(q) \/ F!AnswerUserFields(q)
    BY <2>3, <2>4 DEF F!Next, F!CreateField, F!UpdateField, F!DeleteField, F!CreateTeam, F!JoinTeam
  <2>6. ~F!Load(q)
    <3> SUFFICES ASSUME F!Load(q) PROVE FALSE
      OBVIOUS
    <3>1. asked[q] = None /\ \E order : asked' = [asked EXCEPT ![q] = order]
      BY DEF F!Load
    <3> QED BY <3>1, <2>2
  <2>7. F!Close(q)
    BY <2>5, <2>6 DEF F!Register, F!AnswerUserFields, F!Refuse, F!Done
  <2>8. q = r
    BY <2>1, <2>7, CloseKeeps
  <2> QED BY <2>5, <2>6, <2>8
<1> QED BY <1>1, ProfilesInvariant, PTL DEF OperatorsSpec, OnlyOverlapUndoes

-----------------------------------------------------------------------------
(* The authoring console *)

ConsoleFit == C!TypeOK /\ C!Inv

ConsoleTables ==
  /\ rows \in [Challenges -> {None} \cup C!ChallengeRows]
  /\ flags \in [Flags -> {None, C!Gone} \cup [ch : Challenges, type : {"static", "regex"},
                                                  compiles : BOOLEAN]]
  /\ issues \subseteq Contestants \X Challenges /\ solves \subseteq C!Right
  /\ draft \in [Challenges -> Requests \cup {None}]
  /\ flag \in [Contestants -> C!Right \cup {None}]
  /\ asked = [r \in Requests |-> asked[r]] /\ at = [r \in Requests |-> at[r]]
  /\ step = [r \in Requests |-> step[r]]
  /\ C!SolvesExist

(* An author's share of the invariant, and a player's.                     *)
Working(r) ==
  /\ asked[r] \in C!Ops \cup {None} /\ step[r] \in C!Labels
  /\ step[r] # "idle" =>
       /\ asked[r] \in C!Ops
       /\ step[r] \in {"count", "stats"} => asked[r].kind = "mode"
       /\ step[r] = "getFlag" => asked[r].kind = "update"
       /\ step[r] \in {"filter", "hold", "graph", "commit"} => asked[r].kind = "needs"
       /\ step[r] \in {"get", "write"} => asked[r].kind # "needs"
  /\ step[r] # "idle" /\ r \notin overtaken => C!Stands(r)
  /\ step[r] \in {"graph", "commit"} => draft[asked[r].ch] = r /\ C!Exists(asked[r].ch)

Bringing(a) ==
  flag[a] # None =>
    /\ flag[a].acct = a
    /\ a \notin overtaken /\ C!Exists(flag[a].ch) =>
         \/ rows[flag[a].ch].mode = "static" \/ flag[a].how = "another's"
         \/ <<a, flag[a].ch>> \in issues

LEMMA ConsoleApart ==
  /\ ConsoleFit <=> /\ ConsoleTables /\ overtaken \subseteq C!InFlight
                    /\ \A r \in Requests : Working(r)
                    /\ \A a \in Contestants : Bringing(a)
  /\ ConsoleFit' <=> /\ ConsoleTables' /\ (overtaken \subseteq C!InFlight)'
                     /\ \A r \in Requests : Working(r)'
                     /\ \A a \in Contestants : Bringing(a)'
<1> USE DEF ConsoleFit, C!TypeOK, C!Inv, C!Tasked, C!Undisturbed, C!Held, C!Brought,
            ConsoleTables, Working, Bringing
<1>1. ConsoleFit => /\ ConsoleTables /\ overtaken \subseteq C!InFlight
                    /\ \A r \in Requests : Working(r)
                    /\ \A a \in Contestants : Bringing(a)
  OBVIOUS
<1>2. /\ ConsoleTables /\ overtaken \subseteq C!InFlight
      /\ \A r \in Requests : Working(r)
      /\ \A a \in Contestants : Bringing(a)
      => ConsoleFit
  OBVIOUS
<1>3. ConsoleFit' => /\ ConsoleTables' /\ (overtaken \subseteq C!InFlight)'
                     /\ \A r \in Requests : Working(r)'
                     /\ \A a \in Contestants : Bringing(a)'
  OBVIOUS
<1>4. /\ ConsoleTables' /\ (overtaken \subseteq C!InFlight)'
      /\ \A r \in Requests : Working(r)'
      /\ \A a \in Contestants : Bringing(a)'
      => ConsoleFit'
  OBVIOUS
<1> HIDE DEF ConsoleFit, C!TypeOK, C!Inv, C!Tasked, C!Undisturbed, C!Held, C!Brought,
             ConsoleTables, Working, Bringing
<1> QED BY <1>1, <1>2, <1>3, <1>4

(* What a transaction has established, it has until something is committed. *)
LEMMA StandsStill ==
  ASSUME UNCHANGED <<rows, flags, solves>>, NEW r,
         asked'[r] = asked[r], at'[r] = at[r], step'[r] = step[r], C!Stands(r)
  PROVE  C!Stands(r)'
BY DEF C!Stands, C!Exists, C!Solvers, C!FlagsOf, C!Live, C!GraphSeen, C!Edges

(* A step of an author that commits nothing: what the others established,  *)
(* hold and brought stays.                                                 *)
LEMMA AuthorQuiet ==
  ASSUME ConsoleFit, NEW r \in Requests, UNCHANGED <<rows, flags, issues, solves, flag>>,
         asked' = [q \in Requests |-> asked'[q]], at' = [q \in Requests |-> at'[q]],
         step' = [q \in Requests |-> step'[q]],
         \A q \in Requests \ {r} : asked'[q] = asked[q] /\ at'[q] = at[q] /\ step'[q] = step[q],
         overtaken' = overtaken \/ overtaken' = overtaken \ {r},
         r \in overtaken' => step'[r] # "idle",
         draft' \in [Challenges -> Requests \cup {None}],
         \A c \in Challenges : draft[c] \in Requests => draft'[c] = draft[c],
         Working(r)'
  PROVE  ConsoleFit'
<1>1. ConsoleTables'
  BY ConsoleApart DEF ConsoleTables, C!SolvesExist, C!Exists, C!Right, C!ChallengeRows, C!Gone
<1>2. (overtaken \subseteq C!InFlight)'
  BY ConsoleApart DEF C!InFlight
<1>3. ASSUME NEW q \in Requests PROVE Working(q)'
  <2>1. CASE q = r
    BY <2>1
  <2>2. CASE q # r
    <3>1. /\ asked'[q] = asked[q] /\ at'[q] = at[q] /\ step'[q] = step[q]
          /\ q \in overtaken' <=> q \in overtaken
      BY <2>2
    <3>2. Working(q)
      BY ConsoleApart
    <3>3. C!Stands(q) => C!Stands(q)'
      BY <3>1, StandsStill
    <3>4. step[q] \in {"graph", "commit"} =>
            draft'[asked[q].ch] = q /\ rows'[asked[q].ch] # None
      <4> SUFFICES ASSUME step[q] \in {"graph", "commit"}
                   PROVE  draft'[asked[q].ch] = q /\ rows'[asked[q].ch] # None
        OBVIOUS
      <4>1. asked[q].ch \in Challenges
        BY <3>2 DEF Working, C!Ops
      <4> QED BY <3>2, <4>1 DEF Working, C!Exists
    <3>5. /\ asked'[q] \in C!Ops \cup {None} /\ step'[q] \in C!Labels
          /\ step'[q] # "idle" =>
               /\ asked'[q] \in C!Ops
               /\ step'[q] \in {"count", "stats"} => asked'[q].kind = "mode"
               /\ step'[q] = "getFlag" => asked'[q].kind = "update"
               /\ step'[q] \in {"filter", "hold", "graph", "commit"} => asked'[q].kind = "needs"
               /\ step'[q] \in {"get", "write"} => asked'[q].kind # "needs"
      BY <3>1, <3>2 DEF Working
    <3>6. step'[q] # "idle" /\ q \notin overtaken' => C!Stands(q)'
      BY <3>1, <3>2, <3>3 DEF Working
    <3> QED BY <3>1, <3>4, <3>5, <3>6 DEF Working, C!Exists, C!Ops, C!Labels
  <2> QED BY <2>1, <2>2
<1>4. ASSUME NEW a \in Contestants PROVE Bringing(a)'
  <2>1. a # r
    BY OperatorConstants DEF C!ActorsAreApart
  <2> QED BY <2>1, ConsoleApart DEF Bringing, C!Exists
<1> QED BY <1>1, <1>2, <1>3, <1>4, ConsoleApart

LEMMA Shapes ==
  ASSUME ConsoleFit
  PROVE  /\ asked = [q \in Requests |-> asked[q]] /\ at = [q \in Requests |-> at[q]]
         /\ step = [q \in Requests |-> step[q]]
BY ConsoleApart DEF ConsoleTables

(* A refusal, and a read that the next statement is decided by.            *)
LEMMA RefuseKeeps ==
  ASSUME ConsoleFit, NEW r \in Requests, C!Refuse(r), UNCHANGED <<issues, solves, flag>>
  PROVE  ConsoleFit'
<1>1. /\ step' = [step EXCEPT ![r] = "idle"] /\ asked' = [asked EXCEPT ![r] = None]
      /\ at' = [at EXCEPT ![r] = None] /\ overtaken' = overtaken \ {r}
      /\ UNCHANGED <<rows, flags, draft>>
  BY DEF C!Refuse, C!Close, C!console
<1>2. step'[r] = "idle" /\ asked'[r] = None
  BY <1>1, Shapes
<1>3. Working(r)'
  BY <1>2 DEF Working, C!Labels
<1>4. /\ asked' = [q \in Requests |-> asked'[q]] /\ at' = [q \in Requests |-> at'[q]]
      /\ step' = [q \in Requests |-> step'[q]]
      /\ \A q \in Requests \ {r} : asked'[q] = asked[q] /\ at'[q] = at[q] /\ step'[q] = step[q]
  BY <1>1, Shapes
<1>5. draft' \in [Challenges -> Requests \cup {None}]
  BY <1>1, ConsoleApart DEF ConsoleTables
<1> QED BY <1>1, <1>3, <1>4, <1>5, AuthorQuiet

LEMMA GotoKeeps ==
  ASSUME ConsoleFit, NEW r \in Requests, NEW label, NEW seen, C!Goto(r, label, seen),
         UNCHANGED <<issues, solves, flag>>,
         step[r] # "idle", label \in C!Labels \ {"idle"},
         label \in {"count", "stats"} => asked[r].kind = "mode",
         label = "getFlag" => asked[r].kind = "update",
         label \in {"filter", "hold", "graph", "commit"} => asked[r].kind = "needs",
         label \in {"get", "write"} => asked[r].kind # "needs",
         label \in {"graph", "commit"} => step[r] \in {"graph", "commit"},
         r \notin overtaken => C!Stands(r)'
  PROVE  ConsoleFit'
<1>1. /\ step' = [step EXCEPT ![r] = label] /\ at' = [at EXCEPT ![r] = seen]
      /\ UNCHANGED <<asked, overtaken, rows, flags, draft>>
  BY DEF C!Goto, C!console
<1>2. step'[r] = label /\ asked'[r] = asked[r]
  BY <1>1, Shapes
<1>3. Working(r)'
  <2>1. asked[r] \in C!Ops
    BY ConsoleApart DEF Working
  <2>2. label \in {"graph", "commit"} => draft'[asked'[r].ch] = r /\ rows'[asked'[r].ch] # None
    BY <1>1, ConsoleApart DEF Working, C!Exists
  <2> QED BY <1>1, <1>2, <2>1, <2>2 DEF Working, C!Exists, C!Labels, C!Ops
<1>4. /\ asked' = [q \in Requests |-> asked'[q]] /\ at' = [q \in Requests |-> at'[q]]
      /\ step' = [q \in Requests |-> step'[q]]
      /\ \A q \in Requests \ {r} : asked'[q] = asked[q] /\ at'[q] = at[q] /\ step'[q] = step[q]
  BY <1>1, Shapes
<1>5. draft' \in [Challenges -> Requests \cup {None}]
  BY <1>1, ConsoleApart DEF ConsoleTables
<1> QED BY <1>1, <1>2, <1>3, <1>4, <1>5, AuthorQuiet

(* What a transaction in flight is asked for.                              *)
LEMMA OpFields ==
  ASSUME ConsoleFit, NEW r \in Requests, step[r] # "idle"
  PROVE  /\ asked[r] \in C!Ops /\ asked[r].ch \in Challenges
         /\ asked[r].kind \in {"logic", "mode", "add", "update", "needs"}
         /\ asked[r].kind = "logic" => asked[r].to \in {"any", "all"}
         /\ asked[r].kind = "mode" => asked[r].to \in {"static", "unique"}
         /\ asked[r].kind = "add" => asked[r].type \in {"static", "regex"} /\ asked[r].compiles \in BOOLEAN
         /\ asked[r].kind = "update" =>
              /\ asked[r].flag \in Flags /\ asked[r].type \in {None, "static", "regex"}
              /\ asked[r].compiles \in {None, TRUE, FALSE}
         /\ asked[r].kind = "needs" => asked[r].ids \in SUBSET Challenges
<1>1. asked[r] \in C!Ops
  BY ConsoleApart DEF Working
<1> QED BY <1>1 DEF C!Ops

LEMMA BeginKeeps ==
  ASSUME ConsoleFit, NEW r \in Requests, NEW o \in C!Ops, C!Begin(r, o)
  PROVE  ConsoleFit'
<1> DEFINE label == CASE o.kind = "needs" -> "filter"
                      [] o.kind = "logic" /\ o.to = "any" -> "write"
                      [] OTHER -> "get"
<1>1. /\ step[r] = "idle"
      /\ step' = [step EXCEPT ![r] = label] /\ asked' = [asked EXCEPT ![r] = o]
      /\ UNCHANGED <<at, overtaken, rows, flags, draft, issues, solves, flag>>
  BY DEF C!Begin, C!console, C!play
<1>2. step'[r] = label /\ asked'[r] = o
  BY <1>1, Shapes
<1>3. /\ label \in {"filter", "write", "get"} /\ (label = "filter" <=> o.kind = "needs")
      /\ label = "write" => o.kind = "logic" /\ o.to = "any"
  OBVIOUS
<1> HIDE DEF label
<1>4. r \notin overtaken
  BY <1>1, ConsoleApart, OperatorConstants DEF C!InFlight, C!ActorsAreApart
<1>5. C!Stands(r)'
  BY <1>2, <1>3 DEF C!Stands
<1>6. Working(r)'
  BY <1>2, <1>3, <1>5 DEF Working, C!Labels
<1>7. /\ asked' = [q \in Requests |-> asked'[q]] /\ at' = [q \in Requests |-> at'[q]]
      /\ step' = [q \in Requests |-> step'[q]]
      /\ \A q \in Requests \ {r} : asked'[q] = asked[q] /\ at'[q] = at[q] /\ step'[q] = step[q]
  BY <1>1, Shapes
<1>8. draft' \in [Challenges -> Requests \cup {None}]
  BY <1>1, ConsoleApart DEF ConsoleTables
<1> QED BY <1>1, <1>4, <1>6, <1>7, <1>8, AuthorQuiet

LEMMA GotoMeans ==
  ASSUME ConsoleFit, NEW r \in Requests, NEW label, NEW seen, C!Goto(r, label, seen)
  PROVE  /\ step'[r] = label /\ at'[r] = seen /\ asked'[r] = asked[r]
         /\ UNCHANGED <<rows, flags, draft, asked, overtaken>>
BY Shapes DEF C!Goto, C!console

LEMMA GetKeeps ==
  ASSUME ConsoleFit, NEW r \in Requests, C!Get(r)
  PROVE  ConsoleFit'
<1>1. step[r] = "get" /\ UNCHANGED <<issues, solves, flag>>
  BY DEF C!Get, C!play
<1>2. CASE C!Refuse(r)
  BY <1>1, <1>2, RefuseKeeps
<1>3. CASE ~C!Refuse(r)
  <2> DEFINE o == asked[r]
             label == CASE o.kind = "mode" -> "count" [] o.kind = "update" -> "getFlag"
                        [] OTHER -> "write"
  <2>1. /\ C!Goto(r, label, rows[o.ch]) /\ C!Exists(o.ch)
        /\ o.kind = "logic" => rows[o.ch].mode # "unique"
        /\ o.kind = "add" => C!ValidFlag(rows[o.ch].mode, o.type, o.compiles)
    BY <1>3 DEF C!Get
  <2>2. o.kind # "needs"
    BY <1>1, ConsoleApart DEF Working
  <2>3. /\ label \in {"count", "getFlag", "write"}
        /\ (label = "count" <=> o.kind = "mode") /\ (label = "getFlag" <=> o.kind = "update")
    OBVIOUS
  <2> HIDE DEF label
  <2>4. /\ step'[r] = label /\ at'[r] = rows[o.ch] /\ asked'[r] = o
        /\ UNCHANGED <<rows, flags, draft, asked, overtaken>>
    BY <2>1, GotoMeans
  <2>5. C!Stands(r)'
    BY <2>1, <2>3, <2>4, OpFields, <1>1 DEF C!Stands, C!Exists, C!ValidFlag
  <2> QED BY <1>1, <2>1, <2>2, <2>3, <2>5, GotoKeeps DEF C!Labels
<1> QED BY <1>2, <1>3

LEMMA GetFlagKeeps ==
  ASSUME ConsoleFit, NEW r \in Requests, C!GetFlag(r)
  PROVE  ConsoleFit'
<1>1. step[r] = "getFlag" /\ UNCHANGED <<issues, solves, flag>>
  BY DEF C!GetFlag, C!play
<1>2. CASE C!Refuse(r)
  BY <1>1, <1>2, RefuseKeeps
<1>3. CASE ~C!Refuse(r)
  <2> DEFINE o == asked[r]
             after == C!Patched(flags[o.flag], o)
  <2>1. C!Goto(r, "write", at[r]) /\ C!ValidFlag(at[r].mode, after.type, after.compiles)
    BY <1>3 DEF C!GetFlag, C!Judged
  <2>2. o.kind = "update"
    BY <1>1, ConsoleApart DEF Working
  <2> HIDE DEF after
  <2>3. /\ step'[r] = "write" /\ asked'[r] = o
        /\ UNCHANGED <<rows, flags, draft, asked, overtaken>>
    BY <2>1, GotoMeans
  <2>4. ASSUME r \notin overtaken PROVE C!Stands(r)'
    <3>1. at[r] = rows[o.ch]
      BY <1>1, <2>4, ConsoleApart DEF Working, C!Stands
    <3>2. C!ValidFlag(rows'[asked'[r].ch].mode, after.type, after.compiles)
      BY <2>1, <2>3, <3>1
    <3> QED BY <2>2, <2>3, <3>2 DEF C!Stands, C!ValidFlag, C!Patched, after
  <2> QED BY <1>1, <2>1, <2>2, <2>4, GotoKeeps DEF C!Labels
<1> QED BY <1>2, <1>3

LEMMA CountKeeps ==
  ASSUME ConsoleFit, NEW r \in Requests, C!CountSolves(r)
  PROVE  ConsoleFit'
<1>1. step[r] = "count" /\ UNCHANGED <<issues, solves, flag>>
  BY DEF C!CountSolves, C!play
<1>2. CASE C!Refuse(r)
  BY <1>1, <1>2, RefuseKeeps
<1>3. CASE ~C!Refuse(r)
  <2>1. C!Goto(r, "stats", at[r]) /\ C!Solvers(asked[r].ch) = {}
    BY <1>3 DEF C!CountSolves
  <2>2. asked[r].kind = "mode"
    BY <1>1, ConsoleApart DEF Working
  <2>3. /\ step'[r] = "stats" /\ at'[r] = at[r] /\ asked'[r] = asked[r]
        /\ UNCHANGED <<rows, flags, draft, asked, overtaken>>
    BY <2>1, GotoMeans
  <2>4. ASSUME r \notin overtaken PROVE C!Stands(r)'
    <3>1. rows[asked[r].ch] # None /\ at[r] = rows[asked[r].ch]
      BY <1>1, <2>4, ConsoleApart DEF Working, C!Stands, C!Exists
    <3>2. C!Solvers(asked[r].ch)' = {}
      BY <1>1, <2>1, <2>3 DEF C!Solvers
    <3> QED BY <2>3, <3>1, <3>2 DEF C!Stands, C!Exists
  <2> QED BY <1>1, <2>1, <2>2, <2>4, GotoKeeps DEF C!Labels
<1> QED BY <1>2, <1>3

LEMMA StatsKeeps ==
  ASSUME ConsoleFit, NEW r \in Requests, C!FlagStats(r)
  PROVE  ConsoleFit'
<1>1. step[r] = "stats" /\ UNCHANGED <<issues, solves, flag>>
  BY DEF C!FlagStats, C!play
<1>2. CASE C!Refuse(r)
  BY <1>1, <1>2, RefuseKeeps
<1>3. CASE ~C!Refuse(r)
  <2> DEFINE o == asked[r]
  <2>1. /\ C!Goto(r, "write", at[r])
        /\ o.to = "unique" => at[r].logic # "all" /\ \A f \in C!FlagsOf(o.ch) : flags[f].type # "regex"
    BY <1>3 DEF C!FlagStats
  <2>2. o.kind = "mode"
    BY <1>1, ConsoleApart DEF Working
  <2>3. /\ step'[r] = "write" /\ asked'[r] = o
        /\ UNCHANGED <<rows, flags, draft, asked, overtaken>>
    BY <2>1, GotoMeans
  <2>4. ASSUME r \notin overtaken PROVE C!Stands(r)'
    <3>1. at[r] = rows[o.ch] /\ C!Solvers(o.ch) = {}
      BY <1>1, <2>4, ConsoleApart DEF Working, C!Stands
    <3>2. C!Solvers(asked[r].ch)' = {}
      BY <1>1, <2>3, <3>1 DEF C!Solvers
    <3>3. C!FlagsOf(asked[r].ch)' = C!FlagsOf(o.ch)
      BY <2>3 DEF C!FlagsOf, C!Live
    <3> QED BY <2>1, <2>2, <2>3, <3>1, <3>2, <3>3 DEF C!Stands
  <2> QED BY <1>1, <2>1, <2>2, <2>4, GotoKeeps DEF C!Labels
<1> QED BY <1>2, <1>3

LEMMA FilterKeeps ==
  ASSUME ConsoleFit, NEW r \in Requests, C!FilterIds(r)
  PROVE  ConsoleFit'
<1>1. step[r] = "filter" /\ UNCHANGED <<issues, solves, flag>>
  BY DEF C!FilterIds, C!play
<1>2. CASE C!Refuse(r)
  BY <1>1, <1>2, RefuseKeeps
<1>3. CASE ~C!Refuse(r)
  <2>1. C!Goto(r, "hold", None)
    BY <1>3 DEF C!FilterIds
  <2>2. asked[r].kind = "needs"
    BY <1>1, ConsoleApart DEF Working
  <2>3. step'[r] = "hold"
    BY <2>1, GotoMeans
  <2>4. C!Stands(r)'
    BY <2>3 DEF C!Stands
  <2> QED BY <1>1, <2>1, <2>2, <2>4, GotoKeeps DEF C!Labels
<1> QED BY <1>2, <1>3

LEMMA GraphKeeps ==
  ASSUME ConsoleFit, NEW r \in Requests, C!ReadGraph(r)
  PROVE  ConsoleFit'
<1>1. step[r] = "graph" /\ UNCHANGED <<issues, solves, flag>>
  BY DEF C!ReadGraph, C!play
<1>2. C!Goto(r, "commit", C!OnCycle(C!GraphSeen(r), asked[r].ch))
  BY DEF C!ReadGraph
<1>3. asked[r].kind = "needs"
  BY <1>1, ConsoleApart DEF Working
<1>4. /\ step'[r] = "commit" /\ at'[r] = C!OnCycle(C!GraphSeen(r), asked[r].ch)
      /\ UNCHANGED <<rows, flags, draft, asked, overtaken>>
  BY <1>2, GotoMeans
<1>5. C!GraphSeen(r)' = C!GraphSeen(r)
  BY <1>4 DEF C!GraphSeen, C!Edges, C!Exists
<1>6. C!Stands(r)'
  BY <1>4, <1>5 DEF C!Stands
<1> QED BY <1>1, <1>2, <1>3, <1>6, GotoKeeps DEF C!Labels

LEMMA HoldKeeps ==
  ASSUME ConsoleFit, NEW r \in Requests, C!WriteNeeds(r)
  PROVE  ConsoleFit'
<1>1. step[r] = "hold" /\ draft[asked[r].ch] = None /\ UNCHANGED <<issues, solves, flag>>
  BY DEF C!WriteNeeds, C!play
<1>2. CASE C!Refuse(r)
  BY <1>1, <1>2, RefuseKeeps
<1>3. CASE ~C!Refuse(r)
  <2>1. /\ C!Exists(asked[r].ch) /\ draft' = [draft EXCEPT ![asked[r].ch] = r]
        /\ step' = [step EXCEPT ![r] = "graph"]
        /\ UNCHANGED <<rows, flags, asked, at, overtaken>>
    BY <1>3 DEF C!WriteNeeds
  <2>2. asked[r] \in C!Ops /\ asked[r].ch \in Challenges /\ asked[r].kind = "needs"
    BY <1>1, OpFields, ConsoleApart DEF Working
  <2>3. draft \in [Challenges -> Requests \cup {None}] /\ None \notin Requests
    BY ConsoleApart, OperatorConstants DEF ConsoleTables, C!ActorsAreApart
  <2>4. /\ draft' \in [Challenges -> Requests \cup {None}] /\ draft'[asked[r].ch] = r
        /\ \A c \in Challenges : draft[c] \in Requests => draft'[c] = draft[c]
    BY <1>1, <2>1, <2>2, <2>3
  <2>5. step'[r] = "graph" /\ asked'[r] = asked[r]
    BY <2>1, Shapes
  <2>6. C!Stands(r)'
    BY <2>5 DEF C!Stands
  <2>7. Working(r)'
    BY <2>1, <2>2, <2>4, <2>5, <2>6 DEF Working, C!Labels, C!Ops, C!Exists
  <2>8. /\ asked' = [q \in Requests |-> asked'[q]] /\ at' = [q \in Requests |-> at'[q]]
        /\ step' = [q \in Requests |-> step'[q]]
        /\ \A q \in Requests \ {r} : asked'[q] = asked[q] /\ at'[q] = at[q] /\ step'[q] = step[q]
    BY <2>1, Shapes
  <2> QED BY <1>1, <2>1, <2>4, <2>5, <2>7, <2>8, AuthorQuiet
<1> QED BY <1>2, <1>3

(* A commit overtakes everybody in flight but whoever made it, so all it   *)
(* must leave is the rows that are held.                                   *)
LEMMA Committed ==
  ASSUME ConsoleFit, NEW x, C!Overtake(x),
         \A q \in Requests \ {x} : asked'[q] = asked[q] /\ at'[q] = at[q] /\ step'[q] = step[q],
         \A a \in Contestants \ {x} : flag'[a] = flag[a],
         x \in Requests => step'[x] = "idle" /\ asked'[x] = None,
         x \in Contestants => flag'[x] = None,
         \A q \in Requests \ {x} : step[q] \in {"graph", "commit"} =>
           draft'[asked[q].ch] = q /\ rows'[asked[q].ch] # None,
         ConsoleTables'
  PROVE  ConsoleFit'
<1>1. overtaken' = (overtaken \cup C!InFlight) \ {x} /\ overtaken \subseteq C!InFlight
  BY ConsoleApart DEF C!Overtake
<1>2. (overtaken \subseteq C!InFlight)'
  BY <1>1 DEF C!InFlight
<1>3. ASSUME NEW q \in Requests PROVE Working(q)'
  <2>1. CASE q = x
    BY <2>1 DEF Working, C!Labels
  <2>2. CASE q # x
    <3>1. asked'[q] = asked[q] /\ at'[q] = at[q] /\ step'[q] = step[q] /\ Working(q)
      BY <2>2, ConsoleApart
    <3>2. step[q] # "idle" => q \in overtaken'
      BY <1>1, <2>2 DEF C!InFlight
    <3>3. step[q] \in {"graph", "commit"} => draft'[asked[q].ch] = q /\ rows'[asked[q].ch] # None
      BY <2>2
    <3> QED BY <3>1, <3>2, <3>3 DEF Working, C!Exists, C!Ops, C!Labels
  <2> QED BY <2>1, <2>2
<1>4. ASSUME NEW a \in Contestants PROVE Bringing(a)'
  <2>1. CASE a = x
    BY <2>1 DEF Bringing
  <2>2. CASE a # x
    <3>1. flag'[a] = flag[a] /\ Bringing(a)
      BY <2>2, ConsoleApart
    <3>2. flag[a] # None => a \in overtaken'
      BY <1>1, <2>2 DEF C!InFlight
    <3> QED BY <3>1, <3>2 DEF Bringing
  <2> QED BY <2>1, <2>2
<1> QED BY <1>2, <1>3, <1>4, ConsoleApart

(* An author's commit.                                                     *)
LEMMA DoneKeeps ==
  ASSUME ConsoleFit, NEW r \in Requests, C!Done(r), UNCHANGED <<issues, solves, flag>>,
         rows' \in [Challenges -> {None} \cup C!ChallengeRows],
         flags' \in [Flags -> {None, C!Gone} \cup [ch : Challenges, type : {"static", "regex"},
                                                       compiles : BOOLEAN]],
         draft' \in [Challenges -> Requests \cup {None}],
         \A c \in Challenges : rows[c] # None => rows'[c] # None,
         \A c \in Challenges : draft[c] \in Requests \ {r} => draft'[c] = draft[c]
  PROVE  ConsoleFit'
<1>1. /\ step' = [step EXCEPT ![r] = "idle"] /\ asked' = [asked EXCEPT ![r] = None]
      /\ at' = [at EXCEPT ![r] = None] /\ C!Overtake(r)
  BY DEF C!Done, C!Close
<1>2. /\ asked' = [q \in Requests |-> asked'[q]] /\ at' = [q \in Requests |-> at'[q]]
      /\ step' = [q \in Requests |-> step'[q]]
      /\ \A q \in Requests \ {r} : asked'[q] = asked[q] /\ at'[q] = at[q] /\ step'[q] = step[q]
      /\ step'[r] = "idle" /\ asked'[r] = None
  BY <1>1, Shapes
<1>3. C!SolvesExist'
  <2>1. \A s \in solves : s.ch \in Challenges /\ rows[s.ch] # None
    BY ConsoleApart DEF ConsoleTables, C!SolvesExist, C!Exists, C!Right
  <2> QED BY <2>1 DEF C!SolvesExist, C!Exists
<1>4. ConsoleTables'
  BY <1>2, <1>3, ConsoleApart DEF ConsoleTables, C!Right, C!ChallengeRows, C!Gone
<1>5. ASSUME NEW q \in Requests \ {r}, step[q] \in {"graph", "commit"}
      PROVE  draft'[asked[q].ch] = q /\ rows'[asked[q].ch] # None
  <2>1. asked[q].ch \in Challenges
    BY <1>5, OpFields
  <2>2. draft[asked[q].ch] = q /\ rows[asked[q].ch] # None
    BY <1>5, ConsoleApart DEF Working, C!Exists
  <2> QED BY <2>1, <2>2
<1>6. r \notin Contestants
  BY OperatorConstants DEF C!ActorsAreApart
<1> QED BY <1>1, <1>2, <1>4, <1>5, <1>6, Committed

(* The rows as authors leave them.                                         *)
LEMMA RowsFit ==
  ASSUME ConsoleFit, NEW c \in Challenges, rows[c] # None,
         \/ \E to \in {"any", "all"} : rows' = [rows EXCEPT ![c].logic = to]
         \/ \E to \in {"static", "unique"} : rows' = [rows EXCEPT ![c].mode = to]
         \/ \E ids \in SUBSET Challenges : rows' = [rows EXCEPT ![c].needs = ids]
  PROVE  /\ rows' \in [Challenges -> {None} \cup C!ChallengeRows]
         /\ \A d \in Challenges : rows[d] # None => rows'[d] # None
<1>1. rows \in [Challenges -> {None} \cup C!ChallengeRows] /\ None \notin C!ChallengeRows
  BY ConsoleApart, OperatorConstants DEF ConsoleTables, C!ActorsAreApart
<1>2. rows[c] \in C!ChallengeRows
  BY <1>1
<1>3. PICK row \in C!ChallengeRows : rows' = [rows EXCEPT ![c] = row]
  <2>1. CASE \E to \in {"any", "all"} : rows' = [rows EXCEPT ![c].logic = to]
    <3>1. PICK to \in {"any", "all"} : rows' = [rows EXCEPT ![c].logic = to]
      BY <2>1
    <3>2. [rows[c] EXCEPT !.logic = to] \in C!ChallengeRows
      BY <1>2 DEF C!ChallengeRows
    <3> QED BY <3>1, <3>2
  <2>2. CASE \E to \in {"static", "unique"} : rows' = [rows EXCEPT ![c].mode = to]
    <3>1. PICK to \in {"static", "unique"} : rows' = [rows EXCEPT ![c].mode = to]
      BY <2>2
    <3>2. [rows[c] EXCEPT !.mode = to] \in C!ChallengeRows
      BY <1>2 DEF C!ChallengeRows
    <3> QED BY <3>1, <3>2
  <2>3. CASE \E ids \in SUBSET Challenges : rows' = [rows EXCEPT ![c].needs = ids]
    <3>1. PICK ids \in SUBSET Challenges : rows' = [rows EXCEPT ![c].needs = ids]
      BY <2>3
    <3>2. [rows[c] EXCEPT !.needs = ids] \in C!ChallengeRows
      BY <1>2 DEF C!ChallengeRows
    <3> QED BY <3>1, <3>2
  <2> QED BY <2>1, <2>2, <2>3
<1> QED BY <1>1, <1>3

LEMMA WriteKeepsConsole ==
  ASSUME ConsoleFit, NEW r \in Requests,
         C!WriteLogic(r) \/ C!WriteMode(r) \/ C!InsertFlag(r) \/ C!WriteFlag(r)
  PROVE  ConsoleFit'
<1>1. /\ step[r] = "write" /\ ~C!Missing(r) /\ C!Done(r) /\ UNCHANGED <<draft, issues, solves, flag>>
  BY DEF C!WriteLogic, C!WriteMode, C!InsertFlag, C!WriteFlag, C!Writes, C!play
<1>2. rows[asked[r].ch] # None /\ asked[r].ch \in Challenges
  BY <1>1, OpFields DEF C!Missing, C!Exists
<1>3. /\ rows \in [Challenges -> {None} \cup C!ChallengeRows]
      /\ flags \in [Flags -> {None, C!Gone} \cup [ch : Challenges, type : {"static", "regex"},
                                                      compiles : BOOLEAN]]
      /\ draft' \in [Challenges -> Requests \cup {None}]
  BY <1>1, ConsoleApart DEF ConsoleTables
<1>4. /\ rows' \in [Challenges -> {None} \cup C!ChallengeRows]
      /\ \A d \in Challenges : rows[d] # None => rows'[d] # None
  <2>1. CASE C!WriteLogic(r)
    <3>1. asked[r].to \in {"any", "all"} /\ rows' = [rows EXCEPT ![asked[r].ch].logic = asked[r].to]
      BY <1>1, <2>1, OpFields DEF C!WriteLogic, C!Writes
    <3> QED BY <3>1, <1>2, RowsFit
  <2>2. CASE C!WriteMode(r)
    <3>1. asked[r].to \in {"static", "unique"} /\ rows' = [rows EXCEPT ![asked[r].ch].mode = asked[r].to]
      BY <1>1, <2>2, OpFields DEF C!WriteMode, C!Writes
    <3> QED BY <3>1, <1>2, RowsFit
  <2>3. CASE C!InsertFlag(r) \/ C!WriteFlag(r)
    BY <1>3, <2>3 DEF C!InsertFlag, C!WriteFlag
  <2> QED BY <2>1, <2>2, <2>3
<1>5. flags' \in [Flags -> {None, C!Gone} \cup [ch : Challenges, type : {"static", "regex"},
                                                    compiles : BOOLEAN]]
  <2>1. CASE C!WriteLogic(r) \/ C!WriteMode(r)
    BY <1>3, <2>1 DEF C!WriteLogic, C!WriteMode
  <2>2. CASE C!InsertFlag(r)
    <3>1. asked[r].type \in {"static", "regex"} /\ asked[r].compiles \in BOOLEAN
      BY <1>1, <2>2, OpFields DEF C!InsertFlag, C!Writes
    <3>2. PICK f \in Flags : flags' = [flags EXCEPT ![f] =
              [ch |-> asked[r].ch, type |-> asked[r].type, compiles |-> asked[r].compiles]]
      BY <2>2 DEF C!InsertFlag
    <3>3. [ch |-> asked[r].ch, type |-> asked[r].type, compiles |-> asked[r].compiles]
            \in [ch : Challenges, type : {"static", "regex"}, compiles : BOOLEAN]
      BY <1>2, <3>1
    <3> QED BY <1>3, <3>2, <3>3
  <2>3. CASE C!WriteFlag(r)
    <3> DEFINE f == asked[r].flag
               after == C!Patched(flags[f], asked[r])
    <3>1. asked[r].kind = "update" /\ flags' = [flags EXCEPT ![f] = after]
      BY <2>3 DEF C!WriteFlag, C!Writes
    <3>2. /\ f \in Flags /\ asked[r].type \in {None, "static", "regex"}
          /\ asked[r].compiles \in {None, TRUE, FALSE}
      BY <1>1, <3>1, OpFields
    <3>3. f \in C!FlagsOf(asked[r].ch)
      BY <1>1, <3>1 DEF C!Missing
    <3>4. flags[f] \in [ch : Challenges, type : {"static", "regex"}, compiles : BOOLEAN]
      BY <1>3, <3>2, <3>3 DEF C!FlagsOf, C!Live
    <3>5. after \in [ch : Challenges, type : {"static", "regex"}, compiles : BOOLEAN]
      BY <3>2, <3>4 DEF C!Patched
    <3> HIDE DEF f, after
    <3> QED BY <1>3, <3>1, <3>2, <3>5
  <2> QED BY <2>1, <2>2, <2>3
<1> QED BY <1>1, <1>3, <1>4, <1>5, DoneKeeps

LEMMA NeedsKeeps ==
  ASSUME ConsoleFit, NEW r \in Requests, C!CommitNeeds(r)
  PROVE  ConsoleFit'
<1>1. /\ step[r] = "commit" /\ C!Done(r) /\ UNCHANGED <<flags, issues, solves, flag>>
      /\ rows' = [rows EXCEPT ![asked[r].ch].needs = asked[r].ids]
      /\ draft' = [draft EXCEPT ![asked[r].ch] = None]
  BY DEF C!CommitNeeds, C!play
<1>2. /\ asked[r].kind = "needs" /\ draft[asked[r].ch] = r /\ rows[asked[r].ch] # None
  BY <1>1, ConsoleApart DEF Working, C!Exists
<1>3. asked[r].ch \in Challenges /\ asked[r].ids \in SUBSET Challenges
  BY <1>1, <1>2, OpFields
<1>4. /\ draft \in [Challenges -> Requests \cup {None}]
      /\ flags' \in [Flags -> {None, C!Gone} \cup [ch : Challenges, type : {"static", "regex"},
                                                      compiles : BOOLEAN]]
  BY <1>1, ConsoleApart DEF ConsoleTables
<1>5. /\ draft' \in [Challenges -> Requests \cup {None}]
      /\ \A c \in Challenges : draft[c] \in Requests \ {r} => draft'[c] = draft[c]
  BY <1>1, <1>2, <1>3, <1>4
<1>6. /\ rows' \in [Challenges -> {None} \cup C!ChallengeRows]
      /\ \A d \in Challenges : rows[d] # None => rows'[d] # None
  BY <1>1, <1>2, <1>3, RowsFit
<1> QED BY <1>1, <1>4, <1>5, <1>6, DoneKeeps

LEMMA MissKeeps ==
  ASSUME ConsoleFit, NEW r \in Requests, C!NotFound(r)
  PROVE  ConsoleFit'
BY RefuseKeeps DEF C!NotFound, C!play

LEMMA StepKeeps ==
  ASSUME ConsoleFit, NEW r \in Requests, C!Step(r)
  PROVE  ConsoleFit'
BY GetKeeps, GetFlagKeeps, CountKeeps, StatsKeeps, FilterKeeps, GraphKeeps, HoldKeeps,
   WriteKeepsConsole, NeedsKeeps, MissKeeps DEF C!Step

(* What goes in one statement: a challenge nobody solved or holds, a flag. *)
LEMMA DeleteKeeps ==
  ASSUME ConsoleFit,
         \/ \E c \in Challenges : C!DeleteChallenge(c)
         \/ \E f \in Flags : C!DeleteFlag(f)
  PROVE  ConsoleFit'
<1>1. C!Overtake(None) /\ UNCHANGED <<draft, asked, at, step, issues, solves, flag>>
  BY DEF C!DeleteChallenge, C!DeleteFlag, C!play
<1>2. None \notin Requests \cup Contestants
  BY OperatorConstants DEF C!ActorsAreApart
<1>3. /\ rows \in [Challenges -> {None} \cup C!ChallengeRows] /\ solves \subseteq C!Right
      /\ flags \in [Flags -> {None, C!Gone} \cup [ch : Challenges, type : {"static", "regex"},
                                                      compiles : BOOLEAN]]
      /\ \A s \in solves : rows[s.ch] # None
  BY ConsoleApart DEF ConsoleTables, C!SolvesExist, C!Exists
<1>4. \/ rows' = rows
      \/ \E c \in Challenges :
           rows' = [rows EXCEPT ![c] = None] /\ draft[c] = None /\ C!Solvers(c) = {}
  BY DEF C!DeleteChallenge, C!DeleteFlag
<1>5. /\ rows' \in [Challenges -> {None} \cup C!ChallengeRows]
      /\ \A d \in Challenges : rows[d] # None =>
           rows'[d] # None \/ (draft[d] = None /\ C!Solvers(d) = {})
  BY <1>3, <1>4
<1>6. flags' \in [Flags -> {None, C!Gone} \cup [ch : Challenges, type : {"static", "regex"},
                                                    compiles : BOOLEAN]]
  <2>1. CASE \E c \in Challenges : C!DeleteChallenge(c)
    <3>1. PICK c \in Challenges : flags' = [f \in Flags |-> IF f \in C!FlagsOf(c) THEN C!Gone ELSE flags[f]]
      BY <2>1 DEF C!DeleteChallenge
    <3> QED BY <3>1, <1>3
  <2>2. CASE \E f \in Flags : C!DeleteFlag(f)
    BY <1>3, <2>2 DEF C!DeleteFlag
  <2> QED BY <2>1, <2>2
<1>7. C!SolvesExist'
  <2> SUFFICES ASSUME NEW s \in solves PROVE rows'[s.ch] # None
    BY <1>1 DEF C!SolvesExist, C!Exists
  <2>1. s.ch \in Challenges /\ rows[s.ch] # None
    BY <1>3 DEF C!Right
  <2>2. s.acct \in C!Solvers(s.ch)
    BY DEF C!Solvers
  <2> QED BY <2>1, <2>2, <1>5
<1>8. ConsoleTables'
  BY <1>1, <1>5, <1>6, <1>7, ConsoleApart DEF ConsoleTables, C!Right, C!ChallengeRows, C!Gone
<1>9. ASSUME NEW q \in Requests, step[q] \in {"graph", "commit"}
      PROVE  draft'[asked[q].ch] = q /\ rows'[asked[q].ch] # None
  <2>1. asked[q].ch \in Challenges
    BY <1>9, OpFields
  <2>2. draft[asked[q].ch] = q /\ rows[asked[q].ch] # None
    BY <1>9, ConsoleApart DEF Working, C!Exists
  <2> QED BY <1>1, <1>2, <1>5, <2>1, <2>2
<1> QED BY <1>1, <1>2, <1>8, <1>9, Committed

(* A step of a player that lands nothing.                                  *)
LEMMA PlayerQuiet ==
  ASSUME ConsoleFit, NEW a \in Contestants,
         UNCHANGED <<rows, flags, draft, solves, asked, at, step>>,
         issues' \subseteq Contestants \X Challenges, issues \subseteq issues',
         flag' \in [Contestants -> C!Right \cup {None}],
         \A b \in Contestants \ {a} : flag'[b] = flag[b],
         overtaken' = overtaken \/ overtaken' = overtaken \ {a},
         a \in overtaken' => flag'[a] # None,
         Bringing(a)'
  PROVE  ConsoleFit'
<1>1. ConsoleTables'
  BY ConsoleApart DEF ConsoleTables, C!SolvesExist, C!Exists, C!Right, C!ChallengeRows, C!Gone
<1>2. (overtaken \subseteq C!InFlight)'
  BY ConsoleApart DEF C!InFlight
<1>3. ASSUME NEW q \in Requests PROVE Working(q)'
  <2>1. q # a
    BY OperatorConstants DEF C!ActorsAreApart
  <2>2. /\ asked'[q] = asked[q] /\ at'[q] = at[q] /\ step'[q] = step[q]
        /\ q \in overtaken' <=> q \in overtaken
    BY <2>1
  <2>3. Working(q)
    BY ConsoleApart
  <2>4. C!Stands(q) => C!Stands(q)'
    BY <2>2, StandsStill
  <2>5. step'[q] # "idle" /\ q \notin overtaken' => C!Stands(q)'
    BY <2>2, <2>3, <2>4 DEF Working
  <2> QED BY <2>2, <2>3, <2>5 DEF Working, C!Exists, C!Ops, C!Labels
<1>4. ASSUME NEW b \in Contestants PROVE Bringing(b)'
  <2>1. CASE b = a
    BY <2>1
  <2>2. CASE b # a
    BY <2>2, ConsoleApart DEF Bringing, C!Exists
  <2> QED BY <2>1, <2>2
<1> QED BY <1>1, <1>2, <1>3, <1>4, ConsoleApart

LEMMA ViewKeeps ==
  ASSUME ConsoleFit, NEW a \in Contestants, NEW c \in Challenges, C!View(a, c)
  PROVE  ConsoleFit'
<1>1. /\ issues' = issues \cup {<<a, c>>}
      /\ UNCHANGED <<rows, flags, draft, solves, flag, asked, at, step, overtaken>>
  BY DEF C!View, C!console
<1>2. Bringing(a)'
  BY <1>1, ConsoleApart DEF Bringing, C!Exists
<1>3. /\ issues' \subseteq Contestants \X Challenges
      /\ flag' \in [Contestants -> C!Right \cup {None}]
  BY <1>1, ConsoleApart DEF ConsoleTables
<1>4. a \in overtaken => flag[a] # None
  BY ConsoleApart, OperatorConstants DEF C!InFlight, C!ActorsAreApart
<1> QED BY <1>1, <1>2, <1>3, <1>4, PlayerQuiet

LEMMA CheckKeeps ==
  ASSUME ConsoleFit, NEW a \in Contestants, NEW c \in Challenges, C!Check(a, c)
  PROVE  ConsoleFit'
<1>1. /\ flag[a] = None /\ rows[c] # None
      /\ UNCHANGED <<rows, flags, draft, issues, solves, asked, at, step, overtaken>>
  BY DEF C!Check, C!console, C!Exists
<1>2. PICK how \in C!Brings(a, c) : flag' = [flag EXCEPT ![a] = [acct |-> a, ch |-> c, how |-> how]]
  BY DEF C!Check
<1>3. /\ rows[c] \in C!ChallengeRows /\ flag \in [Contestants -> C!Right \cup {None}]
      /\ issues \subseteq Contestants \X Challenges
  BY <1>1, ConsoleApart DEF ConsoleTables
<1>4. /\ how \in {"everybody's", "own", "another's"}
      /\ how # "another's" => rows[c].mode = "static" \/ <<a, c>> \in issues
  <2>1. CASE rows[c].mode = "static"
    BY <1>2, <2>1 DEF C!Brings
  <2>2. CASE rows[c].mode # "static"
    <3>1. PICK i \in issues : i[2] = c /\ how = IF i[1] = a THEN "own" ELSE "another's"
      BY <1>2, <2>2 DEF C!Brings
    <3>2. i = <<i[1], i[2]>>
      BY <1>3
    <3> QED BY <3>1, <3>2
  <2> QED BY <2>1, <2>2
<1> DEFINE it == [acct |-> a, ch |-> c, how |-> how]
<1>5. it \in C!Right /\ it.acct = a /\ it.ch = c /\ it.how = how
  BY <1>4 DEF C!Right
<1> HIDE DEF it
<1>6. flag' = [flag EXCEPT ![a] = it]
  BY <1>2 DEF it
<1>7. flag'[a] = it /\ flag' \in [Contestants -> C!Right \cup {None}]
      /\ \A b \in Contestants \ {a} : flag'[b] = flag[b]
  BY <1>3, <1>5, <1>6
<1>8. a \notin overtaken
  BY <1>1, ConsoleApart, OperatorConstants DEF C!InFlight, C!ActorsAreApart
<1>9. Bringing(a)'
  BY <1>1, <1>4, <1>5, <1>7 DEF Bringing, C!Exists
<1> QED BY <1>1, <1>3, <1>7, <1>8, <1>9, PlayerQuiet

LEMMA LandKeeps ==
  ASSUME ConsoleFit, NEW a \in Contestants, C!Land(a)
  PROVE  ConsoleFit'
<1>1. /\ flag[a] # None /\ flag' = [flag EXCEPT ![a] = None]
      /\ UNCHANGED <<rows, flags, draft, issues, asked, at, step>>
  BY DEF C!Land, C!console
<1>2. /\ flag \in [Contestants -> C!Right \cup {None}] /\ None \notin Requests
      /\ issues \subseteq Contestants \X Challenges
  BY ConsoleApart, OperatorConstants DEF ConsoleTables, C!ActorsAreApart
<1>3. /\ flag'[a] = None /\ flag' \in [Contestants -> C!Right \cup {None}]
      /\ \A b \in Contestants \ {a} : flag'[b] = flag[b]
  BY <1>1, <1>2
<1>4. CASE solves' = solves /\ overtaken' = overtaken \ {a}
  <2>1. Bringing(a)'
    BY <1>3 DEF Bringing
  <2> QED BY <1>1, <1>2, <1>3, <1>4, <2>1, PlayerQuiet
<1>5. CASE C!Exists(flag[a].ch) /\ C!Overtake(a) /\ solves' \in {solves, solves \cup {flag[a]}}
  <2>1. flag[a] \in C!Right /\ rows[flag[a].ch] # None
    BY <1>1, <1>2, <1>5 DEF C!Exists
  <2>2. solves' \subseteq C!Right /\ C!SolvesExist'
    BY <1>1, <1>5, <2>1, ConsoleApart DEF ConsoleTables, C!SolvesExist, C!Exists
  <2>3. ConsoleTables'
    BY <1>1, <1>3, <2>2, ConsoleApart DEF ConsoleTables, C!Right, C!ChallengeRows, C!Gone
  <2>4. \A q \in Requests : step[q] \in {"graph", "commit"} =>
          draft'[asked[q].ch] = q /\ rows'[asked[q].ch] # None
    BY <1>1, ConsoleApart DEF Working, C!Exists
  <2>5. a \notin Requests
    BY OperatorConstants DEF C!ActorsAreApart
  <2> QED BY <1>1, <1>3, <1>5, <2>3, <2>4, <2>5, Committed
<1> QED BY <1>4, <1>5 DEF C!Land

LEMMA ConsoleInit ==
  ASSUME C!Init
  PROVE  ConsoleFit
<1>1. /\ rows = [c \in Challenges |-> [mode |-> "static", logic |-> "any", needs |-> {}]]
      /\ flags \in [Flags -> {None} \cup [ch : Challenges, type : {"static"}, compiles : {TRUE}]]
      /\ issues = {} /\ solves = {} /\ draft = [c \in Challenges |-> None]
      /\ asked = [r \in Requests |-> None] /\ at = [r \in Requests |-> None]
      /\ step = [r \in Requests |-> "idle"] /\ flag = [a \in Contestants |-> None] /\ overtaken = {}
  BY DEF C!Init
<1>2. ConsoleTables
  <2>1. [mode |-> "static", logic |-> "any", needs |-> {}] \in C!ChallengeRows
    BY DEF C!ChallengeRows
  <2>2. flags \in [Flags -> {None, C!Gone} \cup [ch : Challenges, type : {"static", "regex"},
                                                     compiles : BOOLEAN]]
    BY <1>1
  <2> QED BY <1>1, <2>1, <2>2 DEF ConsoleTables, C!SolvesExist
<1>3. \A r \in Requests : Working(r)
  BY <1>1 DEF Working, C!Labels
<1>4. \A a \in Contestants : Bringing(a)
  BY <1>1 DEF Bringing
<1> QED BY <1>1, <1>2, <1>3, <1>4, ConsoleApart

LEMMA ConsoleFrame ==
  ASSUME ConsoleFit, UNCHANGED <<rows, flags, issues, solves, draft, flag, asked, at, step, overtaken>>
  PROVE  ConsoleFit'
<1>1. ConsoleTables'
  BY ConsoleApart DEF ConsoleTables, C!SolvesExist, C!Exists, C!Right, C!ChallengeRows, C!Gone
<1>2. (overtaken \subseteq C!InFlight)'
  BY ConsoleApart DEF C!InFlight
<1>3. ASSUME NEW q \in Requests PROVE Working(q)'
  <2>1. Working(q) /\ (C!Stands(q) => C!Stands(q)')
    BY ConsoleApart, StandsStill
  <2> QED BY <2>1 DEF Working, C!Exists, C!Ops, C!Labels
<1>4. \A a \in Contestants : Bringing(a)'
  BY ConsoleApart DEF Bringing, C!Exists
<1> QED BY <1>1, <1>2, <1>3, <1>4, ConsoleApart

Topics == {"flags", "mode", "needs"}

LEMMA WantedAreOps ==
  ASSUME topic \in Topics
  PROVE  Wanted \subseteq C!Ops /\ First \in Challenges
BY OperatorConstants DEF Topics, Wanted, First

(* What an author or a player may do to the console.                       *)
AuthorStep ==
  \/ \E r \in Requests : C!Step(r) \/ \E o \in C!Ops : C!Begin(r, o)
  \/ \E c \in Challenges : C!DeleteChallenge(c)
  \/ \E f \in Flags : C!DeleteFlag(f)
  \/ \E a \in Contestants : C!Land(a) \/ \E c \in Challenges : C!View(a, c) \/ C!Check(a, c)

LEMMA AuthorSteps ==
  ASSUME topic \in Topics, Author
  PROVE  AuthorStep
BY WantedAreOps DEF Author, AuthorStep, C!Play

LEMMA AuthorKeeps ==
  ASSUME ConsoleFit, AuthorStep
  PROVE  ConsoleFit'
BY StepKeeps, BeginKeeps, DeleteKeeps, LandKeeps, ViewKeeps, CheckKeeps DEF AuthorStep

(* A transaction that nothing was committed beside writes in the state it  *)
(* judged; so does a submission; a row that is held is there; and nothing  *)
(* that is gone was ever solved.                                           *)
THEOREM ConsoleInvariant == OperatorsSpec => [](focus = "console" => topic \in Topics /\ ConsoleFit)
<1> DEFINE IInv == focus = "console" => topic \in Topics /\ ConsoleFit
<1>1. OperatorsInit => IInv
  BY ConsoleInit DEF OperatorsInit, Topics
<1>2. IInv /\ [Administer \/ Author \/ Ask \/ Log]_all => IInv'
  <2> SUFFICES ASSUME IInv, [Administer \/ Author \/ Ask \/ Log]_all, focus' = "console"
               PROVE  topic' \in Topics /\ ConsoleFit'
    BY DEF Topics
  <2>1. CASE Author
    BY <2>1, AuthorSteps, AuthorKeeps DEF Author
  <2>2. CASE UNCHANGED all
    <3>1. /\ UNCHANGED <<focus, topic>>
          /\ UNCHANGED <<rows, flags, issues, solves, draft, flag, asked, at, step, overtaken>>
      BY <2>2 DEF all, requests, authoring
    <3> QED BY <3>1, ConsoleFrame
  <2>3. CASE Administer \/ Ask \/ Log
    BY <2>3 DEF Administer, Ask, Log
  <2> QED BY <2>1, <2>2, <2>3
<1> QED BY <1>1, <1>2, PTL DEF OperatorsSpec

(* Which steps write the flags and columns a challenge is judged by: the   *)
(* four writes and the two deletions; and in what state, if nothing was    *)
(* committed beside the write.                                             *)
LEMMA FitKept ==
  ASSUME ConsoleFit, NEW c \in Challenges, C!Exists(c), C!Fit(c), C!Exists(c)',
         \A f \in C!FlagsOf(c)' : f \in C!FlagsOf(c) /\ flags'[f] = flags[f],
         rows'[c].mode = rows[c].mode, rows'[c].logic = rows[c].logic
  PROVE  C!Fit(c)'
BY DEF C!Fit

LEMMA Unwritten ==
  ASSUME ConsoleFit, AuthorStep,
         \A r \in Requests :
           ~(C!WriteLogic(r) \/ C!WriteMode(r) \/ C!InsertFlag(r) \/ C!WriteFlag(r)),
         NEW c \in Challenges, C!Exists(c), C!Exists(c)'
  PROVE  /\ rows'[c].mode = rows[c].mode /\ rows'[c].logic = rows[c].logic
         /\ \A f \in C!FlagsOf(c)' : f \in C!FlagsOf(c) /\ flags'[f] = flags[f]
<1>1. CASE UNCHANGED <<rows, flags>>
  BY <1>1 DEF C!FlagsOf, C!Live
<1>2. CASE \E r \in Requests : C!CommitNeeds(r)
  <2>1. PICK r \in Requests : C!CommitNeeds(r)
    BY <1>2
  <2>2. rows' = [rows EXCEPT ![asked[r].ch].needs = asked[r].ids] /\ flags' = flags
    BY <2>1 DEF C!CommitNeeds
  <2>3. rows \in [Challenges -> {None} \cup C!ChallengeRows] /\ rows[c] # None
    BY ConsoleApart DEF ConsoleTables, C!Exists
  <2>4. rows'[c] = rows[c] \/ rows'[c] = [rows[c] EXCEPT !.needs = asked[r].ids]
    BY <2>2, <2>3
  <2>5. rows'[c].mode = rows[c].mode /\ rows'[c].logic = rows[c].logic
    BY <2>3, <2>4 DEF C!ChallengeRows
  <2> QED BY <2>2, <2>5 DEF C!FlagsOf, C!Live
<1>3. CASE \E d \in Challenges : C!DeleteChallenge(d)
  <2>1. PICK d \in Challenges :
          /\ rows' = [rows EXCEPT ![d] = None]
          /\ flags' = [f \in Flags |-> IF f \in C!FlagsOf(d) THEN C!Gone ELSE flags[f]]
    BY <1>3 DEF C!DeleteChallenge
  <2>2. rows = [e \in Challenges |-> rows[e]]
    BY ConsoleApart DEF ConsoleTables
  <2>3. c # d
    BY <2>1, <2>2 DEF C!Exists
  <2> QED BY <2>1, <2>2, <2>3 DEF C!FlagsOf, C!Live
<1>4. CASE \E f \in Flags : C!DeleteFlag(f)
  <2>1. PICK f \in Flags : flags' = [flags EXCEPT ![f] = C!Gone] /\ rows' = rows
    BY <1>4 DEF C!DeleteFlag
  <2>2. flags = [g \in Flags |-> flags[g]]
    BY ConsoleApart DEF ConsoleTables
  <2> QED BY <2>1, <2>2 DEF C!FlagsOf, C!Live
<1>5. ASSUME NEW r \in Requests, C!Step(r) PROVE UNCHANGED <<rows, flags>> \/ C!CommitNeeds(r)
  BY <1>5 DEF C!Step, C!Get, C!GetFlag, C!CountSolves, C!FlagStats, C!NotFound, C!FilterIds,
              C!WriteNeeds, C!ReadGraph, C!Refuse, C!Goto, C!console
<1>6. ASSUME NEW r \in Requests, NEW o \in C!Ops, C!Begin(r, o) PROVE UNCHANGED <<rows, flags>>
  BY <1>6 DEF C!Begin, C!console
<1>7. ASSUME NEW a \in Contestants, C!Land(a) \/ \E d \in Challenges : C!View(a, d) \/ C!Check(a, d)
      PROVE  UNCHANGED <<rows, flags>>
  BY <1>7 DEF C!Land, C!View, C!Check, C!console
<1> QED BY <1>1, <1>2, <1>3, <1>4, <1>5, <1>6, <1>7 DEF AuthorStep

(* A write beside which nothing was committed leaves what was fit, fit.    *)
LEMMA FitWritten ==
  ASSUME ConsoleFit, NEW r \in Requests, r \notin overtaken,
         C!WriteLogic(r) \/ C!WriteMode(r) \/ C!InsertFlag(r) \/ C!WriteFlag(r),
         NEW c \in Challenges, C!Exists(c), C!Fit(c)
  PROVE  C!Fit(c)'
<1> DEFINE o == asked[r]
<1>1. /\ step[r] = "write" /\ ~C!Missing(r) /\ C!Stands(r)
  <2>1. step[r] = "write" /\ ~C!Missing(r)
    BY DEF C!WriteLogic, C!WriteMode, C!InsertFlag, C!WriteFlag, C!Writes
  <2> QED BY <2>1, ConsoleApart DEF Working
<1>2. /\ rows \in [Challenges -> {None} \cup C!ChallengeRows] /\ rows[c] \in C!ChallengeRows
      /\ flags = [f \in Flags |-> flags[f]]
  BY ConsoleApart DEF ConsoleTables, C!Exists
<1>3. o.ch \in Challenges /\ rows[o.ch] \in C!ChallengeRows
  BY <1>1, <1>2, OpFields DEF C!Missing, C!Exists
<1>4. /\ \A f \in C!FlagsOf(c) : flags[f].type = "regex" => flags[f].compiles /\ rows[c].mode = "static"
      /\ ~(rows[c].mode = "unique" /\ rows[c].logic = "all")
  BY DEF C!Fit
<1>5. CASE C!WriteLogic(r)
  <2>1. o.kind = "logic" /\ o.to \in {"any", "all"} /\ flags' = flags
        /\ rows' = [rows EXCEPT ![o.ch].logic = o.to]
    BY <1>1, <1>5, OpFields DEF C!WriteLogic, C!Writes
  <2>2. o.to = "all" => rows[o.ch].mode # "unique"
    BY <1>1, <2>1 DEF C!Stands
  <2>3. C!FlagsOf(c)' = C!FlagsOf(c)
    BY <2>1 DEF C!FlagsOf, C!Live
  <2>4. CASE c = o.ch
    <3>1. rows'[c] = [rows[c] EXCEPT !.logic = o.to]
      BY <1>2, <2>1, <2>4
    <3>2. rows'[c].mode = rows[c].mode /\ rows'[c].logic = o.to
      BY <1>2, <3>1 DEF C!ChallengeRows
    <3> QED BY <1>4, <2>1, <2>2, <2>3, <2>4, <3>2 DEF C!Fit
  <2>5. CASE c # o.ch
    <3>1. rows'[c] = rows[c]
      BY <1>2, <2>1, <2>5
    <3> QED BY <1>4, <2>1, <2>3, <3>1 DEF C!Fit
  <2> QED BY <2>4, <2>5
<1>6. CASE C!WriteMode(r)
  <2>1. o.kind = "mode" /\ o.to \in {"static", "unique"} /\ flags' = flags
        /\ rows' = [rows EXCEPT ![o.ch].mode = o.to]
    BY <1>1, <1>6, OpFields DEF C!WriteMode, C!Writes
  <2>2. o.to = "unique" =>
          rows[o.ch].logic # "all" /\ \A f \in C!FlagsOf(o.ch) : flags[f].type # "regex"
    BY <1>1, <2>1 DEF C!Stands
  <2>3. C!FlagsOf(c)' = C!FlagsOf(c)
    BY <2>1 DEF C!FlagsOf, C!Live
  <2>4. CASE c = o.ch
    <3>1. rows'[c] = [rows[c] EXCEPT !.mode = o.to]
      BY <1>2, <2>1, <2>4
    <3>2. rows'[c].mode = o.to /\ rows'[c].logic = rows[c].logic
      BY <1>2, <3>1 DEF C!ChallengeRows
    <3> QED BY <1>4, <2>1, <2>2, <2>3, <2>4, <3>2 DEF C!Fit
  <2>5. CASE c # o.ch
    <3>1. rows'[c] = rows[c]
      BY <1>2, <2>1, <2>5
    <3> QED BY <1>4, <2>1, <2>3, <3>1 DEF C!Fit
  <2> QED BY <2>4, <2>5
<1>7. CASE C!InsertFlag(r)
  <2>1. o.kind = "add" /\ rows' = rows
    BY <1>7 DEF C!InsertFlag, C!Writes
  <2>2. PICK g \in Flags : /\ flags[g] = None
                           /\ flags' = [flags EXCEPT ![g] = [ch |-> o.ch, type |-> o.type, compiles |-> o.compiles]]
    BY <1>7 DEF C!InsertFlag
  <2>3. C!ValidFlag(rows[o.ch].mode, o.type, o.compiles)
    BY <1>1, <2>1 DEF C!Stands
  <2>4. ASSUME NEW f \in Flags, f \in C!FlagsOf(c)', flags'[f].type = "regex"
        PROVE  flags'[f].compiles /\ rows[c].mode = "static"
    <3>1. CASE f = g
      <4>1. flags'[f] = [ch |-> o.ch, type |-> o.type, compiles |-> o.compiles]
        BY <1>2, <2>2, <3>1
      <4>2. flags'[f].ch = c /\ flags'[f].ch = o.ch /\ o.type = "regex" /\ flags'[f].compiles = o.compiles
        BY <2>4, <4>1 DEF C!FlagsOf
      <4> QED BY <1>2, <2>3, <4>2 DEF C!ValidFlag, C!ChallengeRows
    <3>2. CASE f # g
      <4>1. flags'[f] = flags[f]
        BY <1>2, <2>2, <3>2
      <4>2. f \in C!FlagsOf(c)
        BY <2>4, <4>1 DEF C!FlagsOf, C!Live
      <4> QED BY <1>4, <2>4, <4>1, <4>2
    <3> QED BY <3>1, <3>2
  <2> QED BY <1>4, <2>1, <2>4 DEF C!Fit, C!FlagsOf
<1>8. CASE C!WriteFlag(r)
  <2> DEFINE g == o.flag
             after == C!Patched(flags[g], o)
  <2>1. o.kind = "update" /\ rows' = rows /\ flags' = [flags EXCEPT ![g] = after]
    BY <1>8 DEF C!WriteFlag, C!Writes
  <2>2. C!ValidFlag(rows[o.ch].mode, after.type, after.compiles)
    BY <1>1, <2>1 DEF C!Stands
  <2>3. g \in Flags /\ flags[g].ch = o.ch
    BY <1>1, <2>1 DEF C!Missing, C!FlagsOf
  <2>4. after.ch = o.ch
    BY <2>3 DEF C!Patched
  <2> HIDE DEF g, after
  <2>5. ASSUME NEW f \in Flags, f \in C!FlagsOf(c)', flags'[f].type = "regex"
        PROVE  flags'[f].compiles /\ rows[c].mode = "static"
    <3>1. CASE f = g
      <4>1. flags'[f] = after
        BY <1>2, <2>1, <2>3, <3>1
      <4>2. after.ch = c /\ after.type = "regex"
        BY <2>5, <4>1 DEF C!FlagsOf
      <4> QED BY <1>2, <2>2, <2>4, <4>1, <4>2 DEF C!ValidFlag, C!ChallengeRows
    <3>2. CASE f # g
      <4>1. flags'[f] = flags[f]
        BY <1>2, <2>1, <3>2
      <4>2. f \in C!FlagsOf(c)
        BY <2>5, <4>1 DEF C!FlagsOf, C!Live
      <4> QED BY <1>4, <2>5, <4>1, <4>2
    <3> QED BY <3>1, <3>2
  <2> QED BY <1>4, <2>1, <2>5 DEF C!Fit, C!FlagsOf
<1> QED BY <1>5, <1>6, <1>7, <1>8

(* A writing transaction goes from its write to its end.                   *)
LEMMA WriteEnds ==
  ASSUME ConsoleFit, NEW r \in Requests,
         C!WriteLogic(r) \/ C!WriteMode(r) \/ C!InsertFlag(r) \/ C!WriteFlag(r)
  PROVE  step[r] = "write" /\ step'[r] = "idle"
<1>1. step[r] = "write" /\ step' = [step EXCEPT ![r] = "idle"]
  BY DEF C!WriteLogic, C!WriteMode, C!InsertFlag, C!WriteFlag, C!Writes, C!Done, C!Close
<1> QED BY <1>1, Shapes

LEMMA MisfitHolds ==
  ASSUME ConsoleFit, AuthorStep
  PROVE  C!MisfitStep
<1> SUFFICES ASSUME NEW c \in Challenges, C!Exists(c), C!Fit(c), C!Exists(c)', ~C!Fit(c)'
             PROVE  \E r \in overtaken \cap Requests : step[r] = "write" /\ step'[r] = "idle"
  BY DEF C!MisfitStep
<1>1. PICK r \in Requests : C!WriteLogic(r) \/ C!WriteMode(r) \/ C!InsertFlag(r) \/ C!WriteFlag(r)
  BY Unwritten, FitKept
<1>2. r \in overtaken
  BY <1>1, FitWritten
<1> QED BY <1>1, <1>2, WriteEnds

(* Authors working alone never leave a challenge with a pattern nobody can *)
(* be issued, one that does not compile, or a logic nothing consults.      *)
THEOREM OnlyOverlapMisfitsHolds == OperatorsSpec => OnlyOverlapMisfits
<1>1. ASSUME focus = "console" => topic \in Topics /\ ConsoleFit,
             [Administer \/ Author \/ Ask \/ Log]_all, focus = "console"
      PROVE  C!MisfitStep
  <2>1. CASE Author
    BY <1>1, <2>1, AuthorSteps, MisfitHolds
  <2>2. CASE UNCHANGED all
    BY <2>2 DEF all, authoring, C!MisfitStep, C!Fit, C!Exists, C!FlagsOf, C!Live
  <2> QED BY <1>1, <2>1, <2>2 DEF Administer, Ask, Log
<1> QED BY <1>1, ConsoleInvariant, PTL DEF OperatorsSpec, OnlyOverlapMisfits

(* Somebody who had solved is newly accused only by a switch of the mode,  *)
(* and never by one that counted nobody when nobody had solved.            *)
LEMMA AccusedOfOld ==
  ASSUME ConsoleFit, AuthorStep, NEW s \in solves, s \in C!Accused', s \notin C!Accused
  PROVE  \E r \in overtaken \cap Requests : step[r] = "write" /\ step'[r] = "idle"
<1>1. /\ s.ch \in Challenges /\ rows[s.ch] # None /\ rows[s.ch] \in C!ChallengeRows
      /\ issues \subseteq issues'
  <2>1. s.ch \in Challenges /\ rows[s.ch] # None
    BY ConsoleApart DEF ConsoleTables, C!SolvesExist, C!Exists, C!Right
  <2>2. rows[s.ch] \in C!ChallengeRows
    BY <2>1, ConsoleApart DEF ConsoleTables
  <2>3. issues \subseteq issues'
    BY DEF AuthorStep, C!Step, C!Get, C!GetFlag, C!CountSolves, C!FlagStats, C!NotFound, C!WriteLogic,
           C!WriteMode, C!InsertFlag, C!WriteFlag, C!Writes, C!FilterIds, C!WriteNeeds, C!ReadGraph,
           C!CommitNeeds, C!Begin, C!DeleteChallenge, C!DeleteFlag, C!Land, C!View, C!Check, C!play
  <2> QED BY <2>1, <2>2, <2>3
<1>2. rows'[s.ch].mode = "unique" /\ rows[s.ch].mode # "unique"
  BY <1>1 DEF C!Accused, C!UnissuedSolves, C!Innocent
<1>3. s.acct \in C!Solvers(s.ch)
  BY DEF C!Solvers
<1>4. C!Exists(s.ch) /\ C!Exists(s.ch)'
  <2>1. CASE \E d \in Challenges : C!DeleteChallenge(d)
    <3>1. PICK d \in Challenges : rows' = [rows EXCEPT ![d] = None] /\ C!Solvers(d) = {}
      BY <2>1 DEF C!DeleteChallenge
    <3>2. d # s.ch
      BY <1>3, <3>1
    <3>3. rows = [c \in Challenges |-> rows[c]]
      BY ConsoleApart DEF ConsoleTables
    <3> QED BY <1>1, <3>1, <3>2, <3>3 DEF C!Exists
  <2>2. CASE ~\E d \in Challenges : C!DeleteChallenge(d)
    <3>1. ConsoleFit'
      BY AuthorKeeps
    <3>2. s \in solves'
      BY DEF C!Accused, C!UnissuedSolves
    <3> QED BY <1>1, <3>1, <3>2, ConsoleApart DEF ConsoleTables, C!SolvesExist, C!Exists
  <2> QED BY <2>1, <2>2
<1>5. PICK r \in Requests : C!WriteLogic(r) \/ C!WriteMode(r) \/ C!InsertFlag(r) \/ C!WriteFlag(r)
  BY <1>1, <1>2, <1>4, Unwritten
<1>6. rows = [c \in Challenges |-> rows[c]]
  BY ConsoleApart DEF ConsoleTables
<1>7. ~C!WriteLogic(r)
  <2> SUFFICES ASSUME C!WriteLogic(r) PROVE FALSE
    OBVIOUS
  <2>1. rows' = [rows EXCEPT ![asked[r].ch].logic = asked[r].to]
    BY DEF C!WriteLogic
  <2>2. rows'[s.ch] = rows[s.ch] \/ rows'[s.ch] = [rows[s.ch] EXCEPT !.logic = asked[r].to]
    BY <1>1, <1>6, <2>1
  <2>3. rows'[s.ch].mode = rows[s.ch].mode
    BY <1>1, <2>2 DEF C!ChallengeRows
  <2> QED BY <1>2, <2>3
<1>8. C!WriteMode(r)
  BY <1>2, <1>5, <1>7 DEF C!InsertFlag, C!WriteFlag
<1>9. asked[r].ch = s.ch
  <2>1. rows' = [rows EXCEPT ![asked[r].ch].mode = asked[r].to]
    BY <1>8 DEF C!WriteMode
  <2> QED BY <1>1, <1>2, <1>6, <2>1
<1>10. r \in overtaken
  <2> SUFFICES ASSUME r \notin overtaken PROVE FALSE
    OBVIOUS
  <2>1. step[r] = "write" /\ asked[r].kind = "mode"
    BY <1>8 DEF C!WriteMode, C!Writes
  <2>2. C!Solvers(asked[r].ch) = {}
    BY <2>1, ConsoleApart DEF Working, C!Stands
  <2> QED BY <1>3, <1>9, <2>2
<1> QED BY <1>5, <1>10, WriteEnds

(* A solve that lands accuses its owner only if somebody committed between *)
(* its check and its landing.                                              *)
LEMMA AccusedOfNew ==
  ASSUME ConsoleFit, AuthorStep, NEW s, s \notin solves, s \in C!Accused'
  PROVE  s.acct \in overtaken
<1>1. s \in solves' /\ rows'[s.ch].mode = "unique" /\ <<s.acct, s.ch>> \notin issues' /\ s.how # "another's"
  BY DEF C!Accused, C!UnissuedSolves, C!Innocent
<1>2. PICK a \in Contestants : C!Land(a)
  <2>1. solves' # solves
    BY <1>1
  <2> QED BY <2>1 DEF AuthorStep, C!Step, C!Get, C!GetFlag, C!CountSolves, C!FlagStats, C!NotFound,
             C!WriteLogic, C!WriteMode, C!InsertFlag, C!WriteFlag, C!Writes, C!FilterIds, C!WriteNeeds,
             C!ReadGraph, C!CommitNeeds, C!Begin, C!DeleteChallenge, C!DeleteFlag, C!View, C!Check,
             C!play
<1>3. flag[a] # None /\ s = flag[a] /\ C!Exists(flag[a].ch) /\ UNCHANGED <<rows, issues>>
  BY <1>1, <1>2 DEF C!Land, C!console
<1>4. Bringing(a)
  BY ConsoleApart
<1>5. s.acct = a
  BY <1>3, <1>4 DEF Bringing
<1> QED BY <1>1, <1>3, <1>4, <1>5 DEF Bringing

LEMMA AccuseHolds ==
  ASSUME ConsoleFit, AuthorStep
  PROVE  C!AccuseStep
BY AccusedOfOld, AccusedOfNew DEF C!AccuseStep

(* Nobody is accused of a flag of their own but by a switch of the mode    *)
(* and a submission that met.                                              *)
THEOREM OnlyOverlapAccusesHolds == OperatorsSpec => OnlyOverlapAccuses
<1>1. ASSUME focus = "console" => topic \in Topics /\ ConsoleFit,
             [Administer \/ Author \/ Ask \/ Log]_all, focus = "console"
      PROVE  C!AccuseStep
  <2>1. CASE Author
    BY <1>1, <2>1, AuthorSteps, AccuseHolds
  <2>2. CASE UNCHANGED all
    BY <2>2 DEF all, authoring, C!AccuseStep, C!Accused, C!UnissuedSolves, C!Innocent
  <2> QED BY <1>1, <2>1, <2>2 DEF Administer, Ask, Log
<1> QED BY <1>1, ConsoleInvariant, PTL DEF OperatorsSpec, OnlyOverlapAccuses

(* The prerequisites a change commits are the ones it read the graph with. *)
LEMMA CycleHolds ==
  ASSUME ConsoleFit, AuthorStep
  PROVE  C!CycleStep
<1> SUFFICES ASSUME NEW r \in Requests, step[r] = "commit", step'[r] = "idle", r \notin overtaken
             PROVE  C!OnCycle(C!Edges', asked[r].ch) => at[r]
  BY DEF C!CycleStep
<1>1. C!CommitNeeds(r)
  <2>1. step = [q \in Requests |-> step[q]]
    BY Shapes
  <2>2. ASSUME NEW q \in Requests \ {r}, C!Step(q) \/ \E o \in C!Ops : C!Begin(q, o)
        PROVE  step'[r] = step[r]
    BY <2>1, <2>2 DEF C!Step, C!Get, C!GetFlag, C!CountSolves, C!FlagStats, C!NotFound, C!WriteLogic,
           C!WriteMode, C!InsertFlag, C!WriteFlag, C!Writes, C!FilterIds, C!WriteNeeds, C!ReadGraph,
           C!CommitNeeds, C!Begin, C!Goto, C!Refuse, C!Done, C!Close
  <2>3. C!Step(r)
    BY <2>2 DEF AuthorStep, C!Begin, C!DeleteChallenge, C!DeleteFlag, C!Land, C!View, C!Check
  <2> QED BY <2>3 DEF C!Step, C!Get, C!GetFlag, C!CountSolves, C!FlagStats, C!NotFound, C!WriteLogic,
             C!WriteMode, C!InsertFlag, C!WriteFlag, C!Writes, C!FilterIds, C!WriteNeeds, C!ReadGraph
<1>2. at[r] = C!OnCycle(C!GraphSeen(r), asked[r].ch) /\ C!Exists(asked[r].ch)
  BY ConsoleApart DEF Working, C!Stands
<1>3. asked[r].ch \in Challenges
  BY OpFields
<1>4. rows' = [rows EXCEPT ![asked[r].ch].needs = asked[r].ids]
  BY <1>1 DEF C!CommitNeeds
<1>5. C!Edges' = C!GraphSeen(r)
  <2>1. rows \in [Challenges -> {None} \cup C!ChallengeRows] /\ None \notin C!ChallengeRows
    BY ConsoleApart, OperatorConstants DEF ConsoleTables, C!ActorsAreApart
  <2>2. rows[asked[r].ch] \in C!ChallengeRows
    BY <1>2, <1>3, <2>1 DEF C!Exists
  <2>3. /\ rows'[asked[r].ch] = [rows[asked[r].ch] EXCEPT !.needs = asked[r].ids]
        /\ \A c \in Challenges \ {asked[r].ch} : rows'[c] = rows[c]
    BY <1>3, <1>4, <2>1
  <2>4. ConsoleFit'
    BY AuthorKeeps
  <2>5. rows'[asked[r].ch] # None /\ rows'[asked[r].ch].needs = asked[r].ids
    <3>1. asked[r].ids \in SUBSET Challenges
      BY OpFields, ConsoleApart DEF Working
    <3>2. rows'[asked[r].ch] \in C!ChallengeRows
      BY <2>2, <2>3, <3>1 DEF C!ChallengeRows
    <3> QED BY <2>1, <2>2, <2>3, <3>2 DEF C!ChallengeRows
  <2>6. \A c \in Challenges :
          (IF rows'[c] # None THEN rows'[c].needs ELSE {})
            = IF c = asked[r].ch THEN asked[r].ids ELSE IF rows[c] # None THEN rows[c].needs ELSE {}
    BY <2>3, <2>5
  <2> QED BY <1>3, <2>6 DEF C!Edges, C!GraphSeen, C!Exists
<1> QED BY <1>2, <1>5

(* Whoever alone closes a cycle of prerequisites is told.                  *)
THEOREM CycleIsAnnouncedHolds == OperatorsSpec => CycleIsAnnounced
<1>1. ASSUME focus = "console" => topic \in Topics /\ ConsoleFit,
             [Administer \/ Author \/ Ask \/ Log]_all, focus = "console"
      PROVE  C!CycleStep
  <2>1. CASE Author
    BY <1>1, <2>1, AuthorSteps, CycleHolds
  <2>2. CASE UNCHANGED all
    BY <2>2 DEF all, requests, C!CycleStep
  <2> QED BY <1>1, <2>1, <2>2 DEF Administer, Ask, Log
<1> QED BY <1>1, ConsoleInvariant, PTL DEF OperatorsSpec, CycleIsAnnounced

-----------------------------------------------------------------------------
(* The reports: any log at all *)

(* What is asked of a log: that it is one, with an address or none.        *)
IsLog(e) == /\ Len(e.log) \in Nat /\ DOMAIN e.log = 1..Len(e.log)
            /\ \A i \in DOMAIN e.log : e.log[i].ip \in Int \cup {None}

LEMMA EvidenceMeasures ==
  ASSUME NEW S
  PROVE  E!Cardinality(S) = Cardinality(S)
BY DEF E!Cardinality, Cardinality

LEMMA EarliestIn ==
  ASSUME NEW S \in SUBSET Nat, S # {}
  PROVE  E!Earliest(S) \in S /\ \A j \in S : E!Earliest(S) <= j
<1>1. \E i \in S : \A j \in S : i <= j
  BY LeastOf
<1> QED BY <1>1 DEF E!Earliest

LEMMA LatestIn ==
  ASSUME NEW S, NEW k \in Nat, S \subseteq 1..k, S # {}
  PROVE  E!Latest(S) \in S /\ E!Latest(S) \in Nat /\ \A j \in S : j <= E!Latest(S)
<1>1. S \in SUBSET (0..k)
  OBVIOUS
<1>2. PICK i \in S : \A j \in S : j <= i
  BY <1>1, GreatestNumber
<1>3. \A j \in S : i >= j
  BY <1>2
<1>4. E!Latest(S) \in S /\ \A j \in S : E!Latest(S) >= j
  BY <1>3 DEF E!Latest
<1> DEFINE m == E!Latest(S)
<1>5. m \in Nat /\ \A j \in S : j \in Nat /\ j <= m
  <2>1. m \in S /\ \A j \in S : m >= j
    BY <1>4
  <2> HIDE DEF m
  <2> QED BY <2>1
<1> QED BY <1>4, <1>5

(* The rows of a grouping: the group of each submission.                   *)
LEMMA SharingRows ==
  ASSUME NEW e
  PROVE  E!FlagSharingPairs(e) =
           {[pair |-> E!PairOf(e, E!Earliest(S)), span |-> E!Span(e, S)] :
              S \in {{j \in E!Shared(e) : E!PairOf(e, j) = E!PairOf(e, i)} : i \in E!Shared(e)}}
BY DEF E!FlagSharingPairs, E!Grouped

LEMMA AccountRows ==
  ASSUME NEW e, NEW a
  PROVE  LET T == {i \in E!Shared(e) : a \in {e.log[i].attributed, E!AccountOf(e, i)}}
         IN  E!FlagSharingForAccount(e, a) =
               {[edge |-> E!EdgeOf(e, a, E!Earliest(S)), span |-> E!Span(e, S)] :
                  S \in {{j \in T : E!EdgeOf(e, a, j) = E!EdgeOf(e, a, i)} : i \in T}}
BY DEF E!FlagSharingForAccount, E!Grouped

LEMMA AddressRows ==
  ASSUME NEW e
  PROVE  E!PerAccount(e) = {{j \in E!Addressed(e) : <<e.log[j].ip, E!AccountOf(e, j)>> = <<e.log[i].ip, E!AccountOf(e, i)>>}
                              : i \in E!Addressed(e)}
BY DEF E!PerAccount, E!Grouped

LEMMA OverlapRows ==
  ASSUME NEW e, NEW a
  PROVE  LET mine == {e.log[i].ip : i \in {j \in E!Addressed(e) : E!AccountOf(e, j) = a}}
             U == {i \in DOMAIN e.log : e.log[i].ip \in mine /\ E!AccountOf(e, i) # a}
         IN  E!IPOverlapForAccount(e, a) =
               {[ip |-> e.log[E!Earliest(S)].ip, other |-> E!AccountOf(e, E!Earliest(S)), count |-> E!Cardinality(S),
                 first |-> E!Earliest(S), last |-> E!Latest(S)] :
                  S \in {{j \in U : <<e.log[j].ip, E!AccountOf(e, j)>> = <<e.log[i].ip, E!AccountOf(e, i)>>} : i \in U}}
BY DEF E!IPOverlapForAccount, E!Grouped

-----------------------------------------------------------------------------
(* One account's pairs *)

LEMMA SharingAgrees ==
  ASSUME NEW e, IsLog(e), NEW a
  PROVE  E!FlagSharingForAccount(e, a) =
            {[edge |-> [direction |-> "submitted", counterparty |-> p.pair.issuedTo], span |-> p.span] :
               p \in {q \in E!FlagSharingPairs(e) : q.pair.submitter = a}}
            \cup
            {[edge |-> [direction |-> "issued_to", counterparty |-> p.pair.submitter], span |-> p.span] :
               p \in {q \in E!FlagSharingPairs(e) : q.pair.issuedTo = a}}
<1> DEFINE H == E!Shared(e)
           T == {i \in H : a \in {e.log[i].attributed, E!AccountOf(e, i)}}
           G(i) == {j \in H : E!PairOf(e, j) = E!PairOf(e, i)}
           D(i) == {j \in T : E!EdgeOf(e, a, j) = E!EdgeOf(e, a, i)}
           PR(i) == [pair |-> E!PairOf(e, i), span |-> E!Span(e, G(i))]
           ER(i) == [edge |-> E!EdgeOf(e, a, i), span |-> E!Span(e, G(i))]
           From == {[edge |-> [direction |-> "submitted", counterparty |-> p.pair.issuedTo], span |-> p.span] :
                      p \in {q \in E!FlagSharingPairs(e) : q.pair.submitter = a}}
           To == {[edge |-> [direction |-> "issued_to", counterparty |-> p.pair.submitter], span |-> p.span] :
                    p \in {q \in E!FlagSharingPairs(e) : q.pair.issuedTo = a}}
<1>1. H \subseteq Nat /\ T \subseteq H
  BY DEF IsLog, E!Shared
<1>2. ASSUME NEW i \in H
      PROVE  i \in G(i) /\ E!PairOf(e, E!Earliest(G(i))) = E!PairOf(e, i)
  <2>1. G(i) \in SUBSET Nat /\ i \in G(i)
    BY <1>1
  <2>2. E!Earliest(G(i)) \in G(i)
    BY <2>1, EarliestIn
  <2> QED BY <2>1, <2>2
<1>3. E!FlagSharingPairs(e) = {PR(i) : i \in H}
  <2>1. E!FlagSharingPairs(e) =
           {[pair |-> E!PairOf(e, E!Earliest(S)), span |-> E!Span(e, S)] : S \in {G(i) : i \in H}}
    BY SharingRows
  <2>2. @ = {[pair |-> E!PairOf(e, E!Earliest(G(i))), span |-> E!Span(e, G(i))] : i \in H}
    <3> HIDE DEF G, H
    <3> QED OBVIOUS
  <2>3. @ = {PR(i) : i \in H}
    <3> HIDE DEF G, H
    <3> QED BY <1>2
  <2> QED BY <2>1, <2>2, <2>3
<1>4. ASSUME NEW i \in H
      PROVE  e.log[i].attributed # E!AccountOf(e, i)
  BY DEF E!Shared
<1>5. ASSUME NEW i \in T
      PROVE  /\ D(i) = G(i)
             /\ IF e.log[i].attributed = a
                  THEN E!EdgeOf(e, a, i) = [direction |-> "issued_to", counterparty |-> E!AccountOf(e, i)]
                  ELSE /\ E!AccountOf(e, i) = a
                       /\ E!EdgeOf(e, a, i) = [direction |-> "submitted", counterparty |-> e.log[i].attributed]
  <2>1. ASSUME NEW j \in T
        PROVE  IF e.log[j].attributed = a
                 THEN E!EdgeOf(e, a, j) = [direction |-> "issued_to", counterparty |-> E!AccountOf(e, j)]
                 ELSE /\ E!AccountOf(e, j) = a
                      /\ E!EdgeOf(e, a, j) = [direction |-> "submitted", counterparty |-> e.log[j].attributed]
    BY DEF E!EdgeOf, E!Direction
  <2>2. ASSUME NEW j \in T
        PROVE  E!EdgeOf(e, a, j) = E!EdgeOf(e, a, i) <=> E!PairOf(e, j) = E!PairOf(e, i)
    <3>1. E!PairOf(e, j) = E!PairOf(e, i) <=> e.log[j].attributed = e.log[i].attributed /\ E!AccountOf(e, j) = E!AccountOf(e, i)
      BY DEF E!PairOf
    <3>2. E!AccountOf(e, i) # e.log[i].attributed /\ E!AccountOf(e, j) # e.log[j].attributed
      BY <1>4
    <3>3. CASE e.log[i].attributed = a /\ e.log[j].attributed = a
      BY <2>1, <3>1, <3>3
    <3>4. CASE e.log[i].attributed # a /\ e.log[j].attributed # a
      BY <2>1, <3>1, <3>4
    <3>5. CASE e.log[i].attributed = a /\ e.log[j].attributed # a
      BY <2>1, <3>1, <3>5
    <3>6. CASE e.log[i].attributed # a /\ e.log[j].attributed = a
      BY <2>1, <3>1, <3>6
    <3> QED BY <3>3, <3>4, <3>5, <3>6
  <2>3. ASSUME NEW j \in H, E!PairOf(e, j) = E!PairOf(e, i)
        PROVE  j \in T
    BY <2>3 DEF E!PairOf
  <2> QED BY <2>1, <2>2, <2>3
<1>6. E!FlagSharingForAccount(e, a) = {ER(i) : i \in T}
  <2>1. E!FlagSharingForAccount(e, a) =
          {[edge |-> E!EdgeOf(e, a, E!Earliest(S)), span |-> E!Span(e, S)] : S \in {D(i) : i \in T}}
    BY AccountRows
  <2>2. @ = {[edge |-> E!EdgeOf(e, a, E!Earliest(D(i))), span |-> E!Span(e, D(i))] : i \in T}
    <3> HIDE DEF D, T
    <3> QED OBVIOUS
  <2>3. ASSUME NEW i \in T PROVE E!EdgeOf(e, a, E!Earliest(D(i))) = E!EdgeOf(e, a, i)
    <3>1. D(i) \in SUBSET Nat /\ i \in D(i)
      BY <1>1
    <3>2. E!Earliest(D(i)) \in D(i)
      BY <3>1, EarliestIn
    <3> QED BY <3>2
  <2>4. \A i \in T : D(i) = G(i)
    BY <1>5
  <2>5. {[edge |-> E!EdgeOf(e, a, E!Earliest(D(i))), span |-> E!Span(e, D(i))] : i \in T} = {ER(i) : i \in T}
    <3> HIDE DEF D, T, G
    <3> QED BY <2>3, <2>4
  <2> QED BY <2>1, <2>2, <2>5
<1>7. ASSUME NEW i \in H
      PROVE  /\ PR(i).pair.submitter = E!AccountOf(e, i) /\ PR(i).pair.issuedTo = e.log[i].attributed
             /\ PR(i).span = E!Span(e, G(i))
  BY DEF E!PairOf
<1>8. ASSUME NEW i \in T PROVE ER(i) \in From \cup To
  <2>1. PR(i) \in E!FlagSharingPairs(e) /\ i \in H
    BY <1>3, <1>1
  <2>2. CASE e.log[i].attributed = a
    <3>1. ER(i) = [edge |-> [direction |-> "issued_to", counterparty |-> PR(i).pair.submitter], span |-> PR(i).span]
      BY <1>5, <1>7, <2>1, <2>2
    <3>2. PR(i).pair.issuedTo = a
      BY <1>7, <2>1, <2>2
    <3> HIDE DEF PR, ER
    <3> QED BY <3>1, <3>2, <2>1
  <2>3. CASE e.log[i].attributed # a
    <3>1. ER(i) = [edge |-> [direction |-> "submitted", counterparty |-> PR(i).pair.issuedTo], span |-> PR(i).span]
      BY <1>5, <1>7, <2>1, <2>3
    <3>2. PR(i).pair.submitter = a
      BY <1>5, <1>7, <2>1, <2>3
    <3> HIDE DEF PR, ER
    <3> QED BY <3>1, <3>2, <2>1
  <2> QED BY <2>2, <2>3
<1>9. ASSUME NEW x \in From PROVE x \in {ER(i) : i \in T}
  <2>1. PICK p \in E!FlagSharingPairs(e) :
          p.pair.submitter = a /\ x = [edge |-> [direction |-> "submitted", counterparty |-> p.pair.issuedTo], span |-> p.span]
    OBVIOUS
  <2>2. PICK i \in H : p = PR(i)
    BY <1>3
  <2>3. E!AccountOf(e, i) = a /\ e.log[i].attributed # a
    BY <2>1, <2>2, <1>7, <1>4
  <2>4. i \in T
    BY <2>3
  <2>5. x = ER(i)
    BY <2>1, <2>2, <2>3, <2>4, <1>5, <1>7
  <2> QED BY <2>4, <2>5
<1>10. ASSUME NEW x \in To PROVE x \in {ER(i) : i \in T}
  <2>1. PICK p \in E!FlagSharingPairs(e) :
          p.pair.issuedTo = a /\ x = [edge |-> [direction |-> "issued_to", counterparty |-> p.pair.submitter], span |-> p.span]
    OBVIOUS
  <2>2. PICK i \in H : p = PR(i)
    BY <1>3
  <2>3. e.log[i].attributed = a
    BY <2>1, <2>2, <1>7
  <2>4. i \in T
    BY <2>3
  <2>5. x = ER(i)
    BY <2>1, <2>2, <2>3, <2>4, <1>5, <1>7
  <2> QED BY <2>4, <2>5
<1> HIDE DEF From, To, ER, T
<1>11. {ER(i) : i \in T} = From \cup To
  BY <1>8, <1>9, <1>10
<1> QED BY <1>6, <1>11 DEF From, To

-----------------------------------------------------------------------------
(* Clusters: the accounts that share an address *)

AddressesOf(e) == {e.log[i].ip : i \in E!Addressed(e)}
GroupsAt(e, ip) == {S \in E!PerAccount(e) : e.log[E!Earliest(S)].ip = ip}
AccountsAt(e, ip) == {E!AccountOf(e, i) : i \in {j \in E!Addressed(e) : e.log[j].ip = ip}}

(* A group is of one address and one account, and at one address there is  *)
(* a group for each account.                                               *)
LEMMA GroupOf ==
  ASSUME NEW e, IsLog(e), NEW S \in E!PerAccount(e)
  PROVE  /\ S # {} /\ E!Earliest(S) \in S /\ S \subseteq E!Addressed(e)
         /\ \A j \in E!Addressed(e) :
              j \in S <=> /\ e.log[j].ip = e.log[E!Earliest(S)].ip
                          /\ E!AccountOf(e, j) = E!AccountOf(e, E!Earliest(S))
<1> DEFINE H == E!Addressed(e)
<1>1. PICK i \in H : S = {j \in H : <<e.log[j].ip, E!AccountOf(e, j)>> = <<e.log[i].ip, E!AccountOf(e, i)>>}
  BY AddressRows
<1>2. S \in SUBSET Nat /\ i \in S
  BY <1>1 DEF IsLog, E!Addressed
<1>3. E!Earliest(S) \in S
  BY <1>2, EarliestIn
<1>4. \A j \in H : j \in S <=> e.log[j].ip = e.log[i].ip /\ E!AccountOf(e, j) = E!AccountOf(e, i)
  BY <1>1
<1>5. E!Earliest(S) \in H
  BY <1>1, <1>3
<1> HIDE DEF H
<1>6. e.log[E!Earliest(S)].ip = e.log[i].ip /\ E!AccountOf(e, E!Earliest(S)) = E!AccountOf(e, i)
  BY <1>3, <1>4, <1>5
<1>7. S \subseteq H
  BY <1>1
<1> QED BY <1>2, <1>3, <1>4, <1>6, <1>7 DEF H

LEMMA GroupHas ==
  ASSUME NEW e, IsLog(e), NEW i \in E!Addressed(e)
  PROVE  \E S \in GroupsAt(e, e.log[i].ip) : i \in S /\ E!AccountOf(e, E!Earliest(S)) = E!AccountOf(e, i)
<1> DEFINE S == {j \in E!Addressed(e) : <<e.log[j].ip, E!AccountOf(e, j)>> = <<e.log[i].ip, E!AccountOf(e, i)>>}
<1>1. S \in E!PerAccount(e) /\ i \in S
  BY AddressRows
<1> HIDE DEF S
<1>2. e.log[i].ip = e.log[E!Earliest(S)].ip /\ E!AccountOf(e, i) = E!AccountOf(e, E!Earliest(S))
  BY <1>1, GroupOf
<1> QED BY <1>1, <1>2 DEF GroupsAt

LEMMA AddressedFinite ==
  ASSUME NEW e, IsLog(e)
  PROVE  /\ IsFiniteSet(DOMAIN e.log) /\ IsFiniteSet(E!Addressed(e)) /\ IsFiniteSet(E!Shared(e))
         /\ IsFiniteSet(AddressesOf(e)) /\ AddressesOf(e) \subseteq Int
         /\ \A ip : IsFiniteSet(AccountsAt(e, ip))
<1>1. IsFiniteSet(1..Len(e.log)) /\ DOMAIN e.log = 1..Len(e.log)
  <2> DEFINE k == Len(e.log)
  <2>1. k \in Nat /\ DOMAIN e.log = 1..k
    BY DEF IsLog
  <2> HIDE DEF k
  <2> QED BY <2>1, FS_Interval DEF k
<1>2. E!Addressed(e) \subseteq DOMAIN e.log /\ E!Shared(e) \subseteq DOMAIN e.log
  BY DEF E!Addressed, E!Shared
<1>3. IsFiniteSet(E!Addressed(e)) /\ IsFiniteSet(E!Shared(e)) /\ IsFiniteSet(DOMAIN e.log)
  BY <1>1, <1>2, FS_Subset
<1>4. IsFiniteSet(AddressesOf(e))
  <2> DEFINE f == [i \in E!Addressed(e) |-> e.log[i].ip]
  <2>1. AddressesOf(e) = {f[i] : i \in E!Addressed(e)}
    BY DEF AddressesOf
  <2> HIDE DEF f
  <2> QED BY <2>1, <1>3, ImageFinite
<1>5. AddressesOf(e) \subseteq Int
  BY DEF AddressesOf, E!Addressed, IsLog
<1>6. ASSUME NEW ip PROVE IsFiniteSet(AccountsAt(e, ip))
  <2> DEFINE H == {j \in E!Addressed(e) : e.log[j].ip = ip}
             f == [i \in H |-> E!AccountOf(e, i)]
  <2>1. AccountsAt(e, ip) = {f[i] : i \in H}
    BY DEF AccountsAt
  <2>2. IsFiniteSet(H)
    BY <1>3, FS_Subset
  <2> HIDE DEF f, H
  <2> QED BY <2>1, <2>2, ImageFinite
<1> QED BY <1>3, <1>4, <1>5, <1>6

(* The list counts groups where the total counts accounts.                 *)
LEMMA GroupsAreAccounts ==
  ASSUME NEW e, IsLog(e), NEW ip
  PROVE  /\ {E!AccountOf(e, E!Earliest(S)) : S \in GroupsAt(e, ip)} = AccountsAt(e, ip)
         /\ IsFiniteSet(GroupsAt(e, ip))
         /\ Cardinality(GroupsAt(e, ip)) = Cardinality(AccountsAt(e, ip))
<1> DEFINE P == GroupsAt(e, ip)
           A == AccountsAt(e, ip)
           f == [S \in P |-> E!AccountOf(e, E!Earliest(S))]
<1>1. ASSUME NEW S \in P
      PROVE  /\ S \in E!PerAccount(e) /\ e.log[E!Earliest(S)].ip = ip
             /\ E!Earliest(S) \in E!Addressed(e) /\ f[S] \in A
  <2>1. S \in E!PerAccount(e) /\ e.log[E!Earliest(S)].ip = ip
    BY DEF GroupsAt
  <2>2. E!Earliest(S) \in E!Addressed(e)
    BY <2>1, GroupOf
  <2> QED BY <2>1, <2>2 DEF AccountsAt
<1>2. ASSUME NEW x \in A PROVE \E S \in P : f[S] = x
  <2>1. PICK i \in E!Addressed(e) : e.log[i].ip = ip /\ x = E!AccountOf(e, i)
    BY DEF AccountsAt
  <2>2. PICK S \in GroupsAt(e, e.log[i].ip) : E!AccountOf(e, E!Earliest(S)) = E!AccountOf(e, i)
    BY GroupHas
  <2> QED BY <2>1, <2>2
<1>3. ASSUME NEW S \in P, NEW T \in P, f[S] = f[T] PROVE S = T
  <2>1. \A j \in E!Addressed(e) : j \in S <=> j \in T
    BY <1>1, <1>3, GroupOf
  <2>2. S \subseteq E!Addressed(e) /\ T \subseteq E!Addressed(e)
    BY <1>1, GroupOf
  <2> QED BY <2>1, <2>2
<1>4. IsFiniteSet(A)
  BY AddressedFinite
<1>5. {f[S] : S \in P} = A
  <2> HIDE DEF f, P, A
  <2> QED BY <1>1, <1>2
<1>6. f \in Bijection(P, A)
  <2>1. f \in [P -> A]
    <3> HIDE DEF P, A
    <3>1. f = [S \in P |-> f[S]]
      OBVIOUS
    <3> HIDE DEF f
    <3> QED BY <1>1, <3>1
  <2> HIDE DEF f, P, A
  <2> QED BY <2>1, <1>2, <1>3 DEF Bijection, Injection, Surjection, IsInjective
<1>7. IsFiniteSet(P) /\ Cardinality(P) = Cardinality(A)
  <2> HIDE DEF f, P, A
  <2>1. f \in Injection(P, A) /\ f \in Surjection(P, A)
    BY <1>6 DEF Bijection
  <2> QED BY <2>1, <1>4, FS_Injection
<1>8. {f[S] : S \in P} = {E!AccountOf(e, E!Earliest(S)) : S \in P}
  OBVIOUS
<1> QED BY <1>5, <1>7, <1>8

(* The clusters, one for each address that enough accounts share.          *)
LEMMA ClusterRows ==
  ASSUME NEW e, IsLog(e), NEW least
  PROVE  E!IPOverlaps(e, least) =
           {[ip |-> ip, accounts |-> AccountsAt(e, ip),
             first |-> E!Earliest({i \in E!Addressed(e) : e.log[i].ip = ip}),
             last |-> E!Latest({i \in E!Addressed(e) : e.log[i].ip = ip})] :
              ip \in {p \in AddressesOf(e) : Cardinality(AccountsAt(e, p)) >= least}}
<1>1. E!IPOverlaps(e, least) =
           {[ip |-> ip, accounts |-> {E!AccountOf(e, E!Earliest(S)) : S \in GroupsAt(e, ip)},
             first |-> E!Earliest({i \in E!Addressed(e) : e.log[i].ip = ip}),
             last |-> E!Latest({i \in E!Addressed(e) : e.log[i].ip = ip})] :
              ip \in {p \in AddressesOf(e) : E!Cardinality(GroupsAt(e, p)) >= least}}
  BY DEF E!IPOverlaps, GroupsAt, AddressesOf
<1>2. ASSUME NEW ip
      PROVE  /\ {E!AccountOf(e, E!Earliest(S)) : S \in GroupsAt(e, ip)} = AccountsAt(e, ip)
             /\ E!Cardinality(GroupsAt(e, ip)) = Cardinality(AccountsAt(e, ip))
  BY GroupsAreAccounts, EvidenceMeasures
<1>3. {p \in AddressesOf(e) : E!Cardinality(GroupsAt(e, p)) >= least} = {p \in AddressesOf(e) : Cardinality(AccountsAt(e, p)) >= least}
  BY <1>2
<1> QED BY <1>1, <1>2, <1>3

LEMMA OverlapAgrees ==
  ASSUME NEW e, IsLog(e), NEW a
  PROVE  {<<o.ip, o.other>> : o \in E!IPOverlapForAccount(e, a)} =
            UNION {{c.ip} \X (c.accounts \ {a}) : c \in {d \in E!IPOverlaps(e, 2) : a \in d.accounts}}
<1> DEFINE H == E!Addressed(e)
           mine == {e.log[i].ip : i \in {j \in H : E!AccountOf(e, j) = a}}
           U == {i \in DOMAIN e.log : e.log[i].ip \in mine /\ E!AccountOf(e, i) # a}
           D(i) == {j \in U : <<e.log[j].ip, E!AccountOf(e, j)>> = <<e.log[i].ip, E!AccountOf(e, i)>>}
           Row(S) == [ip |-> e.log[E!Earliest(S)].ip, other |-> E!AccountOf(e, E!Earliest(S)),
                      count |-> E!Cardinality(S), first |-> E!Earliest(S), last |-> E!Latest(S)]
           CR(p) == [ip |-> p, accounts |-> AccountsAt(e, p),
                     first |-> E!Earliest({i \in E!Addressed(e) : e.log[i].ip = p}),
                     last |-> E!Latest({i \in E!Addressed(e) : e.log[i].ip = p})]
           N == {<<e.log[i].ip, E!AccountOf(e, i)>> : i \in U}
           M == UNION {{c.ip} \X (c.accounts \ {a}) : c \in {d \in E!IPOverlaps(e, 2) : a \in d.accounts}}
<1>1. U \subseteq H
  BY DEF E!Addressed
<1>2. {<<o.ip, o.other>> : o \in E!IPOverlapForAccount(e, a)} = N
  <2>1. E!IPOverlapForAccount(e, a) = {Row(S) : S \in {D(i) : i \in U}}
    BY OverlapRows
  <2>2. @ = {Row(D(i)) : i \in U}
    <3> HIDE DEF Row, D, U
    <3> QED OBVIOUS
  <2>3. ASSUME NEW i \in U PROVE Row(D(i)).ip = e.log[i].ip /\ Row(D(i)).other = E!AccountOf(e, i)
    <3>1. D(i) \in SUBSET Nat /\ i \in D(i)
      BY DEF IsLog
    <3>2. E!Earliest(D(i)) \in D(i)
      BY <3>1, EarliestIn
    <3> QED BY <3>2
  <2> HIDE DEF Row, D, U
  <2> QED BY <2>1, <2>2, <2>3
<1>3. E!IPOverlaps(e, 2) = {CR(p) : p \in {q \in AddressesOf(e) : Cardinality(AccountsAt(e, q)) >= 2}}
  BY ClusterRows
<1>4. ASSUME NEW i \in U
      PROVE  <<e.log[i].ip, E!AccountOf(e, i)>> \in M
  <2> DEFINE p == e.log[i].ip
             b == E!AccountOf(e, i)
  <2>1. PICK j \in H : E!AccountOf(e, j) = a /\ e.log[j].ip = p
    OBVIOUS
  <2>2. p \in AddressesOf(e) /\ a \in AccountsAt(e, p) /\ b \in AccountsAt(e, p) /\ a # b
    BY <1>1, <2>1 DEF AddressesOf, AccountsAt
  <2>3. Cardinality(AccountsAt(e, p)) >= 2
    <3>1. IsFiniteSet(AccountsAt(e, p)) /\ {a, b} \in SUBSET AccountsAt(e, p)
      BY <2>2, AddressedFinite
    <3>2. Cardinality({a, b}) = 2 /\ IsFiniteSet({a, b})
      <4>1. IsFiniteSet({a}) /\ Cardinality({a}) = 1
        BY FS_Singleton
      <4>2. {a, b} = {a} \cup {b} /\ b \notin {a}
        BY <2>2
      <4>3. IsFiniteSet({a} \cup {b}) /\ Cardinality({a} \cup {b}) = Cardinality({a}) + 1
        BY <4>1, <4>2, FS_AddElement
      <4> QED BY <4>1, <4>2, <4>3
    <3>3. Cardinality({a, b}) <= Cardinality(AccountsAt(e, p)) /\ Cardinality(AccountsAt(e, p)) \in Nat
      BY <3>1, FS_Subset, FS_CardinalityType
    <3> QED BY <3>2, <3>3
  <2>4. CR(p) \in E!IPOverlaps(e, 2)
    BY <1>3, <2>2, <2>3
  <2>5. CR(p).ip = p /\ CR(p).accounts = AccountsAt(e, p)
    OBVIOUS
  <2> HIDE DEF CR, p, b
  <2>6. <<p, b>> \in {CR(p).ip} \X (CR(p).accounts \ {a})
    BY <2>2, <2>5
  <2> QED BY <2>2, <2>4, <2>5, <2>6 DEF p, b
<1>5. ASSUME NEW x \in M PROVE x \in N
  <2>1. PICK c \in E!IPOverlaps(e, 2) : a \in c.accounts /\ x \in {c.ip} \X (c.accounts \ {a})
    OBVIOUS
  <2>2. PICK p \in AddressesOf(e) : c = CR(p)
    BY <1>3
  <2>3. PICK b \in AccountsAt(e, p) : x = <<p, b>> /\ b # a
    BY <2>1, <2>2
  <2>4. PICK i \in H : e.log[i].ip = p /\ E!AccountOf(e, i) = b
    BY <2>3 DEF AccountsAt
  <2>5. PICK j \in H : e.log[j].ip = p /\ E!AccountOf(e, j) = a
    BY <2>1, <2>2 DEF AccountsAt
  <2>6. i \in U
    <3>1. i \in DOMAIN e.log /\ p \in mine
      BY <2>5 DEF E!Addressed
    <3> QED BY <3>1, <2>3, <2>4
  <2> QED BY <2>3, <2>4, <2>6
<1> HIDE DEF M, U
<1>6. N = M
  BY <1>4, <1>5
<1> QED BY <1>2, <1>6 DEF M

-----------------------------------------------------------------------------
(* Leafing: the pages of a list, read one after the other, are the list *)

PagesOf(g, o, size, total) ==
  \A k \in 1..total :
    g[k] = SubSeq(o, (k - 1) * size + 1, IF (k - 1) * size + size < total THEN (k - 1) * size + size ELSE total)
Reading(f, g, total) == f = [k \in 0..total |-> IF k = 0 THEN << >> ELSE f[k - 1] \o g[k]]

LEMMA Leafing ==
  ASSUME NEW total \in Nat, NEW size \in Nat \ {0}, NEW S, NEW o \in [1..total -> S],
         NEW g, PagesOf(g, o, size, total)
  PROVE  (\E f : Reading(f, g, total)) /\ \A f : Reading(f, g, total) => f[total] = o
<1> USE DEF PagesOf
<1> DEFINE upto(k) == IF k * size < total THEN k * size ELSE total
           r == [k \in 0..total |-> SubSeq(o, 1, upto(k))]
<1>1. o \in Seq(S) /\ Len(o) = total
  OBVIOUS
<1>2. ASSUME NEW k \in 1..total
      PROVE  SubSeq(o, 1, upto(k - 1)) \o g[k] = SubSeq(o, 1, upto(k))
  <2> DEFINE from == (k - 1) * size
  <2>1. from \in Nat /\ from + size = k * size /\ k \in Nat
    <3>1. k - 1 \in Nat /\ k \in Nat
      OBVIOUS
    <3>2. (k - 1) * size \in Nat /\ k * size = (k - 1) * size + size
      BY <3>1
    <3> QED BY <3>1, <3>2
  <2>2. g[k] = SubSeq(o, from + 1, upto(k))
    BY <2>1
  <2> HIDE DEF from
  <2>3. CASE from < total
    <3>1. upto(k - 1) = from
      BY <2>3 DEF from
    <3>2. upto(k) \in from..total
      <4> DEFINE z == k * size
      <4>1. z = from + size
        BY <2>1
      <4> HIDE DEF z
      <4>2. (IF z < total THEN z ELSE total) \in from..total
        BY <4>1, <2>1, <2>3
      <4> QED BY <4>2 DEF z
    <3> HIDE DEF upto
    <3>3. SubSeq(o, 1, from) \o SubSeq(o, from + 1, upto(k)) = SubSeq(o, 1, upto(k))
      <4>1. 1 \in 1..(Len(o) + 1) /\ from \in 0..Len(o) /\ upto(k) \in from..Len(o)
        BY <1>1, <2>1, <2>3, <3>2
      <4> DEFINE w == upto(k)
      <4>2. w \in from..Len(o)
        BY <4>1
      <4> HIDE DEF w
      <4>3. from \in (1 - 1)..Len(o)
        BY <4>1
      <4>4. o \in Seq(S)
        BY <1>1
      <4>5. SubSeq(o, 1, from) \o SubSeq(o, from + 1, w) = SubSeq(o, 1, w)
        BY <4>1, <4>2, <4>3, <4>4, ConcatAdjacentSubSeq
      <4> QED BY <4>5 DEF w
    <3> QED BY <2>2, <3>1, <3>3
  <2>4. CASE ~(from < total)
    <3>1. upto(k - 1) = total
      BY <2>4 DEF from
    <3>2. upto(k) = total
      <4> DEFINE z == k * size
      <4>1. z = from + size
        BY <2>1
      <4> HIDE DEF z
      <4>2. (IF z < total THEN z ELSE total) = total
        BY <4>1, <2>1, <2>4
      <4> QED BY <4>2 DEF z
    <3> HIDE DEF upto
    <3>3. g[k] = << >>
      BY <2>1, <2>2, <2>4, <3>2, SubSeqEmpty
    <3>4. SubSeq(o, 1, total) = o
      BY <1>1, SubSeqFull
    <3> QED BY <3>1, <3>2, <3>3, <3>4, <1>1, ConcatEmptySeq
  <2> QED BY <2>3, <2>4
<1>3. upto(0) = 0 /\ upto(total) = total
  <2>1. 0 * size = 0
    OBVIOUS
  <2> DEFINE z == total * size
  <2>2. z \in Nat /\ z >= total
    <3>1. CASE total = 0
      BY <3>1
    <3>2. CASE total # 0
      <4>1. total * size = total + total * (size - 1) /\ size - 1 \in Nat
        OBVIOUS
      <4>2. total * (size - 1) \in Nat
        BY <4>1
      <4> QED BY <4>1, <4>2
    <3> QED BY <3>1, <3>2
  <2> HIDE DEF z
  <2>3. (IF z < total THEN z ELSE total) = total
    BY <2>2
  <2>4. (IF 0 < total THEN 0 ELSE total) = 0
    OBVIOUS
  <2> QED BY <2>1, <2>3, <2>4 DEF z
<1>4. SubSeq(o, 1, 0) = << >> /\ SubSeq(o, 1, total) = o
  BY <1>1, SubSeqEmpty, SubSeqFull
<1> HIDE DEF upto
<1>5. ASSUME NEW k \in 0..total
      PROVE  r[k] = IF k = 0 THEN << >> ELSE r[k - 1] \o g[k]
  <2>1. CASE k = 0
    BY <2>1, <1>3, <1>4
  <2>2. CASE k # 0
    <3>1. k \in 1..total /\ k - 1 \in 0..total
      BY <2>2
    <3>2. SubSeq(o, 1, upto(k - 1)) \o g[k] = SubSeq(o, 1, upto(k))
      BY <3>1, <1>2
    <3> QED BY <2>2, <3>1, <3>2
  <2> QED BY <2>1, <2>2
<1>6. Reading(r, g, total)
  <2>1. r = [k \in 0..total |-> r[k]]
    OBVIOUS
  <2> HIDE DEF r
  <2> QED BY <2>1, <1>5 DEF Reading
<1>7. ASSUME NEW f, Reading(f, g, total)
      PROVE  f[total] = o
  <2> DEFINE Bad == {k \in 0..total : f[k] # r[k]}
  <2>1. ASSUME NEW k \in 0..total
        PROVE  f[k] = IF k = 0 THEN << >> ELSE f[k - 1] \o g[k]
    BY <1>7 DEF Reading
  <2>2. ASSUME Bad # {} PROVE FALSE
    <3>1. Bad \in SUBSET Nat
      OBVIOUS
    <3>2. PICK k \in Bad : \A x \in Bad : k <= x
      <4> HIDE DEF Bad
      <4> QED BY <2>2, <3>1, LeastOf
    <3>3. k # 0
      BY <2>1, <1>5, <3>2
    <3>4. k - 1 \in 0..total /\ k - 1 \notin Bad
      <4>1. k \in 0..total /\ k - 1 \in 0..total /\ ~(k <= k - 1)
        BY <3>3
      <4> HIDE DEF Bad
      <4> QED BY <4>1, <3>2
    <3>5. f[k - 1] = r[k - 1] /\ f[k] # r[k] /\ k \in 0..total
      BY <3>2, <3>4
    <3> HIDE DEF r, Bad
    <3> QED BY <2>1, <1>5, <3>3, <3>5
  <2>3. total \in 0..total
    OBVIOUS
  <2>4. f[total] = r[total]
    <3> HIDE DEF r
    <3> QED BY <2>2, <2>3
  <2> QED BY <2>3, <2>4, <1>3, <1>4
<1> HIDE DEF r
<1> QED BY <1>6, <1>7

(* Whatever is listed once and paged is read once.                         *)
LEMMA ListedOnce ==
  ASSUME NEW P, IsFiniteSet(P), NEW R, StrictTotal(R, P), NEW o, Lists(o, R, P)
  PROVE  /\ Cardinality(P) \in Nat /\ o \in [1..Cardinality(P) -> P] /\ Len(o) = Cardinality(P)
         /\ E!Cardinality(E!ToSet(o)) = Cardinality(P)
<1> DEFINE z == Cardinality(P)
<1>1. z \in Nat /\ o \in [1..z -> P]
  BY FS_CardinalityType DEF Lists
<1>2. \A x \in P : \E i \in 1..z : o[i] = x
  BY ListsAll
<1> HIDE DEF z
<1>3. Len(o) = z /\ DOMAIN o = 1..z
  BY <1>1
<1>4. E!ToSet(o) = P
  BY <1>1, <1>2, <1>3 DEF E!ToSet
<1>5. E!Cardinality(E!ToSet(o)) = z
  BY <1>4, EvidenceMeasures DEF z
<1> QED BY <1>1, <1>3, <1>5 DEF z

LEMMA SpanIs ==
  ASSUME NEW e, IsLog(e), NEW i \in E!Shared(e)
  PROVE  LET S == {j \in E!Shared(e) : E!PairOf(e, j) = E!PairOf(e, i)}
         IN  /\ E!Span(e, S).count \in Nat /\ E!Span(e, S).last \in S /\ S \subseteq Nat
             /\ E!PairOf(e, E!Earliest(S)) = E!PairOf(e, i)
<1> DEFINE S == {j \in E!Shared(e) : E!PairOf(e, j) = E!PairOf(e, i)}
           z == Len(e.log)
<1>1. z \in Nat /\ DOMAIN e.log = 1..z
  BY DEF IsLog
<1>2. i \in S /\ S \subseteq E!Shared(e) /\ E!Shared(e) \subseteq DOMAIN e.log
  BY DEF E!Shared
<1>3. \A j \in S : E!PairOf(e, j) = E!PairOf(e, i)
  OBVIOUS
<1>4. IsFiniteSet(S)
  BY <1>2, AddressedFinite, FS_Subset
<1>5. E!Cardinality(S) \in Nat
  BY <1>4, EvidenceMeasures, FS_CardinalityType
<1>6. E!Span(e, S).count = E!Cardinality(S) /\ E!Span(e, S).last = E!Latest(S)
  BY DEF E!Span
<1> HIDE DEF S, z
<1>7. S # {} /\ S \subseteq 1..z
  BY <1>1, <1>2
<1>8. S \in SUBSET Nat
  BY <1>1, <1>7
<1>9. E!Latest(S) \in S
  BY <1>1, <1>7, LatestIn
<1>10. E!Earliest(S) \in S
  BY <1>7, <1>8, EarliestIn
<1> QED BY <1>3, <1>5, <1>6, <1>8, <1>9, <1>10 DEF S

(* The list of pairs has a row for each pair, and an order without ties:   *)
(* two rows' last submissions differ.                                      *)
LEMMA PairsInOrder ==
  ASSUME NEW e, IsLog(e)
  PROVE  LET P == E!FlagSharingPairs(e)
             R == {p \in P \X P : E!MorePairs(p[1], p[2])}
         IN  /\ IsFiniteSet(P) /\ Cardinality(P) = E!CountFlagSharingPairs(e)
             /\ StrictTotal(R, P) /\ Lists(E!InOrder(P, E!MorePairs), R, P)
<1> DEFINE H == E!Shared(e)
           G(i) == {j \in H : E!PairOf(e, j) = E!PairOf(e, i)}
           P == E!FlagSharingPairs(e)
           K == {E!PairOf(e, i) : i \in H}
           R == {p \in P \X P : E!MorePairs(p[1], p[2])}
           o == E!InOrder(P, E!MorePairs)
<1>1. ASSUME NEW p \in P
      PROVE  \E i \in H : /\ p = [pair |-> E!PairOf(e, i), span |-> E!Span(e, G(i))]
                          /\ p.span.count \in Nat /\ p.span.last \in Nat
                          /\ p.span.last \in H /\ p.pair = E!PairOf(e, p.span.last) /\ p.pair \in K
  <2>1. PICK i \in H : p = [pair |-> E!PairOf(e, E!Earliest(G(i))), span |-> E!Span(e, G(i))]
    BY SharingRows
  <2>2. /\ E!Span(e, G(i)).count \in Nat /\ E!Span(e, G(i)).last \in G(i) /\ G(i) \subseteq Nat
        /\ E!PairOf(e, E!Earliest(G(i))) = E!PairOf(e, i)
    BY SpanIs
  <2>3. p = [pair |-> E!PairOf(e, i), span |-> E!Span(e, G(i))]
    BY <2>1, <2>2
  <2>4. p.pair = E!PairOf(e, i) /\ p.span = E!Span(e, G(i))
    BY <2>3
  <2>5. p.span.last \in H /\ E!PairOf(e, p.span.last) = E!PairOf(e, i)
    BY <2>2, <2>4
  <2> QED BY <2>2, <2>3, <2>4, <2>5
<1>2. ASSUME NEW p \in P, NEW q \in P, p.pair = q.pair PROVE p = q
  <2>1. PICK i \in H : p = [pair |-> E!PairOf(e, i), span |-> E!Span(e, G(i))]
    BY <1>1
  <2>2. PICK k \in H : q = [pair |-> E!PairOf(e, k), span |-> E!Span(e, G(k))]
    BY <1>1
  <2>3. E!PairOf(e, i) = E!PairOf(e, k)
    BY <1>2, <2>1, <2>2
  <2> QED BY <2>1, <2>2, <2>3
<1>3. ASSUME NEW x \in K PROVE \E p \in P : p.pair = x
  <2>1. PICK i \in H : x = E!PairOf(e, i)
    OBVIOUS
  <2>2. [pair |-> E!PairOf(e, E!Earliest(G(i))), span |-> E!Span(e, G(i))] \in P
    BY SharingRows
  <2>3. E!PairOf(e, E!Earliest(G(i))) = x
    BY <2>1, SpanIs
  <2> HIDE DEF P
  <2> QED BY <2>2, <2>3
<1>4. IsFiniteSet(K)
  <2> DEFINE f == [i \in H |-> E!PairOf(e, i)]
  <2>1. K = {f[i] : i \in H} /\ IsFiniteSet(H)
    BY AddressedFinite
  <2> HIDE DEF f, H, K
  <2> QED BY <2>1, ImageFinite
<1>5. IsFiniteSet(P) /\ Cardinality(P) = Cardinality(K)
  <2> DEFINE f == [p \in P |-> p.pair]
  <2>1. \A p \in P : f[p] \in K /\ f[p] = p.pair
    BY <1>1
  <2>2. f = [p \in P |-> f[p]]
    OBVIOUS
  <2> HIDE DEF f, P, K
  <2>3. f \in [P -> K]
    BY <2>1, <2>2
  <2>4. f \in Injection(P, K) /\ f \in Surjection(P, K)
    BY <2>1, <2>3, <1>2, <1>3 DEF Injection, Surjection, IsInjective
  <2> QED BY <2>4, <1>4, FS_Injection
<1>6. E!CountFlagSharingPairs(e) = Cardinality(K)
  BY EvidenceMeasures DEF E!CountFlagSharingPairs
<1>7. ASSUME NEW x \in P, NEW y \in P PROVE <<x, y>> \in R <=> E!MorePairs(x, y)
  OBVIOUS
<1>8. ASSUME NEW x \in P PROVE x.span.count \in Nat /\ x.span.last \in Nat
  BY <1>1
<1>9. ASSUME NEW x \in P, NEW y \in P, x # y PROVE x.span.last # y.span.last
  BY <1>1, <1>2, <1>9
<1> HIDE DEF R, P
<1>10. StrictTotal(R, P)
  <2>1. \A x \in P : ~E!MorePairs(x, x)
    BY <1>8 DEF E!MorePairs
  <2>2. \A x, y, z \in P : E!MorePairs(x, y) /\ E!MorePairs(y, z) => E!MorePairs(x, z)
    BY <1>8 DEF E!MorePairs
  <2>3. \A x, y \in P : x = y \/ E!MorePairs(x, y) \/ E!MorePairs(y, x)
    BY <1>8, <1>9 DEF E!MorePairs
  <2> QED BY <1>7, <2>1, <2>2, <2>3 DEF StrictTotal
<1>11. o = CHOOSE s \in [1..E!Cardinality(P) -> P] : \A i, j \in DOMAIN s : i < j => E!MorePairs(s[i], s[j])
  BY DEF E!InOrder
<1>12. PICK v : Lists(v, R, P)
  BY <1>5, <1>10, ListExists
<1>13. ASSUME NEW s
       PROVE  Lists(s, R, P) <=> /\ s \in [1..E!Cardinality(P) -> P]
                                 /\ \A i, j \in DOMAIN s : i < j => E!MorePairs(s[i], s[j])
  BY <1>7, EvidenceMeasures DEF Lists
<1>14. Lists(o, R, P)
  BY <1>11, <1>12, <1>13
<1> QED BY <1>5, <1>6, <1>10, <1>14 DEF R, P

LEMMA PairPages ==
  ASSUME NEW e, IsLog(e), NEW size \in Nat \ {0}
  PROVE  E!EachOnce(LAMBDA k : E!FlagSharing(e, k, size).pairs, E!FlagSharing(e, 1, size).total)
<1> DEFINE P == E!FlagSharingPairs(e)
           R == {p \in P \X P : E!MorePairs(p[1], p[2])}
           o == E!InOrder(P, E!MorePairs)
           total == Cardinality(P)
           Page(k) == E!FlagSharing(e, k, size).pairs
           g == [k \in 1..total |-> Page(k)]
           Reads(f) == f = [k \in 0..total |-> IF k = 0 THEN << >> ELSE f[k - 1] \o Page(k)]
           read == CHOOSE f : Reads(f)
<1>1. IsFiniteSet(P) /\ total = E!CountFlagSharingPairs(e) /\ StrictTotal(R, P) /\ Lists(o, R, P)
  BY PairsInOrder
<1>2. total \in Nat /\ o \in [1..total -> P] /\ Len(o) = total /\ E!Cardinality(E!ToSet(o)) = total
  <2> HIDE DEF P, R, o
  <2> QED BY <1>1, ListedOnce
<1>3. E!FlagSharing(e, 1, size).total = total
  BY <1>1 DEF E!FlagSharing
<1>4. ASSUME NEW k \in 1..total
      PROVE  Page(k) = SubSeq(o, (k - 1) * size + 1, IF (k - 1) * size + size < Len(o) THEN (k - 1) * size + size ELSE Len(o))
  BY DEF E!FlagSharing, E!PageOf
<1>5. E!EachOnce(LAMBDA k : E!FlagSharing(e, k, size).pairs, total)
        <=> Len(read[total]) = total /\ E!Cardinality(E!ToSet(read[total])) = total
  <2> HIDE DEF total
  <2> QED BY DEF E!EachOnce
<1>6. \A f : Reads(f) <=> Reading(f, g, total)
  <2>1. \A k \in 0..total : k # 0 => g[k] = Page(k)
    <3> HIDE DEF Page
    <3> QED BY <1>2
  <2> HIDE DEF g, Page, total
  <2> QED BY <2>1 DEF Reading
<1> HIDE DEF o, total, Page, P
<1>7. PagesOf(g, o, size, total)
  BY <1>2, <1>4 DEF PagesOf
<1> HIDE DEF g
<1>8. (\E f : Reading(f, g, total)) /\ \A f : Reading(f, g, total) => f[total] = o
  BY <1>2, <1>7, Leafing
<1>9. (\E f : Reads(f)) /\ \A f : Reads(f) => f[total] = o
  <2> HIDE DEF Reads
  <2> QED BY <1>6, <1>8
<1> HIDE DEF Reads
<1>10. read[total] = o
  BY <1>9
<1> QED BY <1>2, <1>3, <1>5, <1>10

(* Of clusters there is one for each address.                              *)
LEMMA ClustersInOrder ==
  ASSUME NEW e, IsLog(e), NEW least
  PROVE  LET P == E!IPOverlaps(e, least)
             R == {p \in P \X P : E!MoreAccounts(p[1], p[2])}
         IN  /\ IsFiniteSet(P) /\ Cardinality(P) = E!CountIPOverlaps(e, least)
             /\ StrictTotal(R, P) /\ Lists(E!InOrder(P, E!MoreAccounts), R, P)
<1> DEFINE K == {p \in AddressesOf(e) : Cardinality(AccountsAt(e, p)) >= least}
           CR(ip) == [ip |-> ip, accounts |-> AccountsAt(e, ip),
                      first |-> E!Earliest({i \in E!Addressed(e) : e.log[i].ip = ip}),
                      last |-> E!Latest({i \in E!Addressed(e) : e.log[i].ip = ip})]
           P == E!IPOverlaps(e, least)
           R == {p \in P \X P : E!MoreAccounts(p[1], p[2])}
           o == E!InOrder(P, E!MoreAccounts)
<1>1. P = {CR(ip) : ip \in K}
  BY ClusterRows
<1>2. \A ip : CR(ip).ip = ip /\ CR(ip).accounts = AccountsAt(e, ip)
  OBVIOUS
<1>3. IsFiniteSet(K) /\ K \subseteq Int
  <2>1. K \in SUBSET AddressesOf(e)
    OBVIOUS
  <2> QED BY <2>1, AddressedFinite, FS_Subset
<1>4. E!CountIPOverlaps(e, least) = Cardinality(K)
  <2>1. E!CountIPOverlaps(e, least) = E!Cardinality({ip \in AddressesOf(e) : E!Cardinality(AccountsAt(e, ip)) >= least})
    BY DEF E!CountIPOverlaps, AddressesOf, AccountsAt
  <2>2. {ip \in AddressesOf(e) : E!Cardinality(AccountsAt(e, ip)) >= least} = K
    BY EvidenceMeasures
  <2> QED BY <2>1, <2>2, EvidenceMeasures
<1>5. ASSUME NEW x \in P
      PROVE  x.ip \in K /\ x = CR(x.ip) /\ x.ip \in Int /\ E!Cardinality(x.accounts) \in Nat
  <2>1. PICK ip \in K : x = CR(ip)
    BY <1>1
  <2>2. x.ip = ip /\ x.accounts = AccountsAt(e, ip)
    BY <2>1, <1>2
  <2>3. Cardinality(x.accounts) \in Nat
    BY <2>2, AddressedFinite, FS_CardinalityType
  <2> QED BY <2>1, <2>2, <2>3, <1>3, EvidenceMeasures
<1> HIDE DEF CR, K, P
<1>6. \A x, y \in P : x.ip = y.ip => x = y
  BY <1>5
<1>7. IsFiniteSet(P) /\ Cardinality(P) = Cardinality(K)
  <2> DEFINE f == [x \in P |-> x.ip]
  <2>1. \A x \in P : f[x] \in K /\ f[x] = x.ip
    BY <1>5
  <2>2. f = [x \in P |-> f[x]]
    OBVIOUS
  <2>3. \A ip \in K : \E x \in P : f[x] = ip
    BY <1>1, <1>2
  <2> HIDE DEF f
  <2>4. f \in [P -> K]
    BY <2>1, <2>2
  <2>5. f \in Injection(P, K) /\ f \in Surjection(P, K)
    BY <2>1, <2>3, <2>4, <1>6 DEF Injection, Surjection, IsInjective
  <2> QED BY <2>5, <1>3, FS_Injection
<1>8. ASSUME NEW x \in P, NEW y \in P PROVE <<x, y>> \in R <=> E!MoreAccounts(x, y)
  OBVIOUS
<1> HIDE DEF R
<1>9. StrictTotal(R, P)
  <2>1. \A x \in P : ~E!MoreAccounts(x, x)
    BY <1>5 DEF E!MoreAccounts
  <2>2. \A x, y, z \in P : E!MoreAccounts(x, y) /\ E!MoreAccounts(y, z) => E!MoreAccounts(x, z)
    BY <1>5 DEF E!MoreAccounts
  <2>3. \A x, y \in P : x = y \/ E!MoreAccounts(x, y) \/ E!MoreAccounts(y, x)
    BY <1>5, <1>6 DEF E!MoreAccounts
  <2> QED BY <1>8, <2>1, <2>2, <2>3 DEF StrictTotal
<1>10. o = CHOOSE s \in [1..E!Cardinality(P) -> P] : \A i, j \in DOMAIN s : i < j => E!MoreAccounts(s[i], s[j])
  BY DEF E!InOrder
<1>11. PICK v : Lists(v, R, P)
  BY <1>7, <1>9, ListExists
<1>12. ASSUME NEW s
       PROVE  Lists(s, R, P) <=> /\ s \in [1..E!Cardinality(P) -> P]
                                 /\ \A i, j \in DOMAIN s : i < j => E!MoreAccounts(s[i], s[j])
  BY <1>8, EvidenceMeasures DEF Lists
<1>13. Lists(o, R, P)
  BY <1>10, <1>11, <1>12
<1> QED BY <1>4, <1>7, <1>9, <1>13 DEF R, P

LEMMA ClusterPages ==
  ASSUME NEW e, IsLog(e), NEW least, NEW size \in Nat \ {0}
  PROVE  E!EachOnce(LAMBDA k : E!IPOverlap(e, least, k, size).clusters, E!IPOverlap(e, least, 1, size).total)
<1> DEFINE P == E!IPOverlaps(e, least)
           R == {p \in P \X P : E!MoreAccounts(p[1], p[2])}
           o == E!InOrder(P, E!MoreAccounts)
           total == Cardinality(P)
           Page(k) == E!IPOverlap(e, least, k, size).clusters
           g == [k \in 1..total |-> Page(k)]
           Reads(f) == f = [k \in 0..total |-> IF k = 0 THEN << >> ELSE f[k - 1] \o Page(k)]
           read == CHOOSE f : Reads(f)
<1>1. IsFiniteSet(P) /\ total = E!CountIPOverlaps(e, least) /\ StrictTotal(R, P) /\ Lists(o, R, P)
  BY ClustersInOrder
<1>2. total \in Nat /\ o \in [1..total -> P] /\ Len(o) = total /\ E!Cardinality(E!ToSet(o)) = total
  <2> HIDE DEF P, R, o
  <2> QED BY <1>1, ListedOnce
<1>3. E!IPOverlap(e, least, 1, size).total = total
  BY <1>1 DEF E!IPOverlap
<1>4. ASSUME NEW k \in 1..total
      PROVE  Page(k) = SubSeq(o, (k - 1) * size + 1, IF (k - 1) * size + size < Len(o) THEN (k - 1) * size + size ELSE Len(o))
  BY DEF E!IPOverlap, E!PageOf
<1>5. E!EachOnce(LAMBDA k : E!IPOverlap(e, least, k, size).clusters, total)
        <=> Len(read[total]) = total /\ E!Cardinality(E!ToSet(read[total])) = total
  <2> HIDE DEF total
  <2> QED BY DEF E!EachOnce
<1>6. \A f : Reads(f) <=> Reading(f, g, total)
  <2>1. \A k \in 0..total : k # 0 => g[k] = Page(k)
    <3> HIDE DEF Page
    <3> QED BY <1>2
  <2> HIDE DEF g, Page, total
  <2> QED BY <2>1 DEF Reading
<1> HIDE DEF o, total, Page, P
<1>7. PagesOf(g, o, size, total)
  BY <1>2, <1>4 DEF PagesOf
<1> HIDE DEF g
<1>8. (\E f : Reading(f, g, total)) /\ \A f : Reading(f, g, total) => f[total] = o
  BY <1>2, <1>7, Leafing
<1>9. (\E f : Reads(f)) /\ \A f : Reads(f) => f[total] = o
  <2> HIDE DEF Reads
  <2> QED BY <1>6, <1>8
<1> HIDE DEF Reads
<1>10. read[total] = o
  BY <1>9
<1> QED BY <1>2, <1>3, <1>5, <1>10

-----------------------------------------------------------------------------
(* The reports of any log *)

LEMMA LogsAgree ==
  ASSUME NEW e, IsLog(e)
  PROVE  E!ReportsAgree(e)
<1>1. ASSUME NEW a \in E!Accounts(e) \ {None}
      PROVE  /\ E!AccountReport(e, a).sharing =
                 {[edge |-> [direction |-> "submitted", counterparty |-> p.pair.issuedTo], span |-> p.span] :
                    p \in {q \in E!FlagSharingPairs(e) : q.pair.submitter = a}}
                 \cup
                 {[edge |-> [direction |-> "issued_to", counterparty |-> p.pair.submitter], span |-> p.span] :
                    p \in {q \in E!FlagSharingPairs(e) : q.pair.issuedTo = a}}
             /\ {<<o.ip, o.other>> : o \in E!AccountReport(e, a).overlap} =
                 UNION {{c.ip} \X (c.accounts \ {a}) : c \in {d \in E!IPOverlaps(e, 2) : a \in d.accounts}}
  <2>1. E!AccountReport(e, a).sharing = E!FlagSharingForAccount(e, a)
        /\ E!AccountReport(e, a).overlap = E!IPOverlapForAccount(e, a)
    BY DEF E!AccountReport
  <2> QED BY <2>1, SharingAgrees, OverlapAgrees
<1>2. ASSUME NEW size \in 1..2
      PROVE  /\ E!EachOnce(LAMBDA k : E!FlagSharing(e, k, size).pairs, E!FlagSharing(e, 1, size).total)
             /\ \A least \in 2..3 : E!EachOnce(LAMBDA k : E!IPOverlap(e, least, k, size).clusters,
                                              E!IPOverlap(e, least, 1, size).total)
  <2>1. size \in Nat \ {0}
    OBVIOUS
  <2>2. E!EachOnce(LAMBDA k : E!FlagSharing(e, k, size).pairs, E!FlagSharing(e, 1, size).total)
    BY <2>1, PairPages
  <2>3. ASSUME NEW least \in 2..3
        PROVE  E!EachOnce(LAMBDA k : E!IPOverlap(e, least, k, size).clusters, E!IPOverlap(e, least, 1, size).total)
    BY <2>1, ClusterPages
  <2> QED BY <2>2, <2>3
<1> QED BY <1>1, <1>2 DEF E!ReportsAgree

(* Of whatever length it grows to.                                         *)
LogFits == focus = "evidence" => E!IsEvent(event)

LEMMA EventIsLog ==
  ASSUME NEW e, E!IsEvent(e)
  PROVE  IsLog(e)
<1>1. e.log \in Seq(E!Attempts)
  BY DEF E!IsEvent
<1>2. /\ Len(e.log) \in Nat /\ DOMAIN e.log = 1..Len(e.log)
      /\ \A i \in 1..Len(e.log) : e.log[i] \in E!Attempts
  BY <1>1, LenProperties, ElementOfSeq
<1>3. \A r \in E!Attempts : r.ip \in Int \cup {None}
  BY DEF E!Attempts
<1> QED BY <1>2, <1>3 DEF IsLog

LEMMA LogSteps ==
  ASSUME LogFits, [Administer \/ Author \/ Ask \/ Log]_all
  PROVE  LogFits'
<1>1. ASSUME Log PROVE LogFits'
  <2>1. focus = "evidence" /\ E!IsEvent(event)
    BY <1>1 DEF Log, LogFits
  <2>2. PICK s \in Submission : event' = [event EXCEPT !.log = Append(@, s)]
    BY <1>1 DEF Log
  <2>3. event \in [mode : {"users", "teams"}, log : Seq(E!Attempts)] /\ event.log \in Seq(E!Attempts)
    BY <2>1 DEF E!IsEvent
  <2>4. s \in E!Attempts
    <3>1. s.user \in Nat /\ s.team \in Nat /\ s.ch \in Nat /\ s.type \in E!Statuses
          /\ s.attributed \in Nat \cup {None} /\ s.ip \in Int \cup {None}
      <4> DEFINE k == IF event.mode = "teams" THEN 2 ELSE 3
                 issued == {None} \cup 1..k
      <4>1. 1..k \subseteq Nat
        OBVIOUS
      <4> HIDE DEF k
      <4>2. issued \subseteq Nat \cup {None}
        BY <4>1
      <4> DEFINE places == IF topic = "sharing" THEN 1..2 ELSE {1}
                 kinds == {IF topic = "sharing" THEN "correct" ELSE "incorrect"}
                 named == IF topic = "sharing" THEN issued ELSE {None}
                 from == IF topic = "sharing" THEN {None} ELSE {None, 1, 2}
      <4>3. s \in [user : 1..3, team : 1..2, ch : places, type : kinds, attributed : named, ip : from]
        BY DEF Submission, k
      <4> HIDE DEF issued
      <4>4. places \subseteq Nat
        OBVIOUS
      <4>7. kinds \subseteq E!Statuses
        BY DEF E!Statuses
      <4>5. named \subseteq Nat \cup {None} /\ from \subseteq Int \cup {None}
        BY <4>2
      <4> HIDE DEF places, named, from, kinds
      <4>6. s.user \in 1..3 /\ s.team \in 1..2 /\ s.ch \in places /\ s.type \in kinds
            /\ s.attributed \in named /\ s.ip \in from
        BY <4>3
      <4>8. s.user \in Nat /\ s.team \in Nat
        BY <4>6
      <4> QED BY <4>4, <4>5, <4>6, <4>7, <4>8
    <3>2. s = [user |-> s.user, team |-> s.team, ch |-> s.ch, type |-> s.type, attributed |-> s.attributed, ip |-> s.ip]
      BY DEF Submission
    <3> QED BY <3>1, <3>2 DEF E!Attempts
  <2>5. Append(event.log, s) \in Seq(E!Attempts)
    BY <2>3, <2>4, AppendProperties
  <2>6. event' \in [mode : {"users", "teams"}, log : Seq(E!Attempts)]
    BY <2>2, <2>3, <2>5
  <2> QED BY <2>6 DEF LogFits, E!IsEvent
<1>2. ASSUME Administer \/ Author \/ Ask PROVE LogFits'
  BY <1>2 DEF Administer, Author, Ask, LogFits
<1>3. ASSUME UNCHANGED all PROVE LogFits'
  BY <1>3 DEF all, LogFits, E!IsEvent, E!Attempts
<1> QED BY <1>1, <1>2, <1>3

(* What one report says of an account every other says too, of any log of  *)
(* submissions: the pairs and the clusters it is in, each row of a list    *)
(* once, however the list is paged.                                        *)
THEOREM ReportsAgreeHolds == OperatorsSpec => []ReportsAgree
<1>1. OperatorsInit => LogFits
  <2>1. << >> \in Seq(E!Attempts)
    OBVIOUS
  <2>2. ASSUME OperatorsInit, focus = "evidence" PROVE E!IsEvent(event)
    <3>1. event \in [mode : {"users", "teams"}, log : {<< >>}]
      BY <2>2 DEF OperatorsInit
    <3> QED BY <2>1, <3>1 DEF E!IsEvent
  <2> QED BY <2>2 DEF LogFits
<1>2. LogFits /\ [Administer \/ Author \/ Ask \/ Log]_all => LogFits'
  BY LogSteps
<1>3. LogFits => ReportsAgree
  BY EventIsLog, LogsAgree DEF LogFits, ReportsAgree
<1> QED BY <1>1, <1>2, <1>3, PTL DEF OperatorsSpec
=============================================================================
