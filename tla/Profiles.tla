------------------------------ MODULE Profiles ------------------------------
(***************************************************************************)
(* Custom fields: the questions an operator defines for users or teams     *)
(* (internal/adminops/fields.go), the answers users give as they register  *)
(* and later (internal/accounts/profile_fields.go), and the gate that holds *)
(* whoever owes one (LoadPrincipal: profile_complete and                   *)
(* team_profile_complete).  A request of a user loads the questions, then  *)
(* judges and writes by what it loaded; an operator's is one statement.    *)
(***************************************************************************)
CONSTANTS
  Users, Teams, Fields,
  Requests,   \* requests of users in flight
  None

Owners == Users \cup Teams

(* What is taken of the constants: who instantiates this assumes it.         *)
OwnersAreApart ==
  /\ Users \cap Teams = {} /\ None \notin Owners
  /\ None \notin Requests /\ None \notin {"yes", "no", "nobody"} /\ "nobody" \notin Teams

VARIABLES
  fields,   \* fields[f]: whose it is, whether required, whether editable; None, or Gone
  entries,  \* entries[f][o]: the answer on file, or None
  team,     \* team[u]: the team of a registered user, None, or "nobody" before that
  teams,    \* teams created
  req,      \* req[r]: who asks for what, or None
  saw,      \* saw[r]: the fields and answers its transaction loaded
  overtaken \* requests in flight beside which something was committed

profile == <<fields, entries>>
vars == <<fields, entries, team, teams, req, saw, overtaken>>

Gone == [owner |-> None, required |-> FALSE, editable |-> FALSE]
Live(f) == fields[f] \notin {None, Gone}
Registered(u) == team[u] # "nobody"

(* What an answer on the wire comes to (field.Normalize): a blank is no    *)
(* answer, and no answer is stored as no row.                              *)
Raw == {"yes", "no", "blank"}
Present(raw) == raw # "blank"

(* The gate's predicate over rows, and field.IsAnswered over what was read.*)
Answered(f, o) == entries[f][o] # None
Owed(o, kind) == {f \in Fields : Live(f) /\ fields[f].owner = kind /\ fields[f].required /\ ~Answered(f, o)}
ProfileComplete(u) == Owed(u, "user") = {}

Init ==
  /\ fields = [f \in Fields |-> None]
  /\ entries = [f \in Fields |-> [o \in Owners |-> None]]
  /\ team = [u \in Users |-> "nobody"] /\ teams = {}
  /\ req = [r \in Requests |-> None] /\ saw = [r \in Requests |-> None]
  /\ overtaken = {}

InFlight == {r \in Requests : req[r] # None}
Overtake(x) == overtaken' = (overtaken \cup InFlight) \ {x}
Close(r) == req' = [req EXCEPT ![r] = None] /\ saw' = [saw EXCEPT ![r] = None]
Done(r) == Close(r) /\ Overtake(r)
Refuse(r) == Close(r) /\ overtaken' = overtaken \ {r} /\ UNCHANGED <<profile, team>>

-----------------------------------------------------------------------------
(* CreateField, UpdateField (never whose it is), DeleteField with its rows. *)
CreateField(f) ==
  /\ fields[f] = None
  /\ \E def \in [owner : {"user", "team"}, required : BOOLEAN, editable : BOOLEAN] :
        fields' = [fields EXCEPT ![f] = def]
  /\ Overtake(None) /\ UNCHANGED <<entries, team, teams, req, saw>>

UpdateField(f) ==
  /\ Live(f)
  /\ \E required, editable \in BOOLEAN :
        fields' = [fields EXCEPT ![f].required = required, ![f].editable = editable]
  /\ Overtake(None) /\ UNCHANGED <<entries, team, teams, req, saw>>

DeleteField(f) ==
  /\ Live(f)
  /\ fields' = [fields EXCEPT ![f] = Gone]
  /\ entries' = [entries EXCEPT ![f] = [o \in Owners |-> None]]
  /\ Overtake(None) /\ UNCHANGED <<team, teams, req, saw>>

-----------------------------------------------------------------------------
(* A team is created and joined without being asked anything (TeamRoster   *)
(* has the rest of enrolment).                                             *)
CreateTeam(u, t) ==
  /\ team[u] = None /\ t \notin teams
  /\ teams' = teams \cup {t} /\ team' = [team EXCEPT ![u] = t]
  /\ UNCHANGED <<profile, req, saw, overtaken>>

JoinTeam(u, t) ==
  /\ team[u] = None /\ t \in teams
  /\ team' = [team EXCEPT ![u] = t]
  /\ UNCHANGED <<profile, teams, req, saw, overtaken>>

-----------------------------------------------------------------------------
(* What a request of a user loads: the questions put to users, and what    *)
(* they have on file.                                                      *)
Loaded(u) == [f \in {f \in Fields : Live(f) /\ fields[f].owner = "user"} |->
                [def |-> fields[f], answer |-> entries[f][u]]]

(* A request of a user: some answers, by field, as they register or later. *)
Load(r) ==
  /\ req[r] = None
  /\ \E u \in Users, asked \in SUBSET Fields : \E given \in [asked -> Raw] :
       /\ \A q \in Requests : req[q] # None /\ ~Registered(u) => req[q].user # u
       /\ Registered(u) => asked # {}
       /\ req' = [req EXCEPT ![r] = [user |-> u, given |-> given]]
       /\ saw' = [saw EXCEPT ![r] = Loaded(u)]
  /\ UNCHANGED <<profile, team, teams, overtaken>>

(* Slip: a field that is not editable is not writable, owed or not.        *)
WritableIfEditable(row) == row.def.editable

(* AnswerUserFields: editable, or required and not yet answered.            *)
Writable(row) == row.def.editable \/ (row.def.required /\ row.answer = None)

(* Whether the answers given are accepted against the rows loaded: at      *)
(* registration every required field must be among them.                   *)
AcceptedAtSignUp(given, rows) ==
  /\ DOMAIN given \subseteq DOMAIN rows
  /\ \A f \in DOMAIN rows : rows[f].def.required => f \in DOMAIN given /\ Present(given[f])

(* Slip: a required field may be cleared.                                  *)
AcceptedIfWritable(given, rows) ==
  DOMAIN given \subseteq DOMAIN rows /\ \A f \in DOMAIN given : Writable(rows[f])

Accepted(given, rows) ==
  /\ DOMAIN given \subseteq DOMAIN rows
  /\ \A f \in DOMAIN given : Writable(rows[f]) /\ (rows[f].def.required => Present(given[f]))

(* The rows after the writes: an upsert for an answer, a delete for a blank. *)
Written(u, given) ==
  [f \in Fields |-> IF f \in DOMAIN given
     THEN [entries[f] EXCEPT ![u] = IF Present(given[f]) THEN given[f] ELSE None] ELSE entries[f]]

(* A foreign key refuses an answer to a field that is gone.                *)
Refused(given) == \E f \in DOMAIN given : Present(given[f]) /\ ~Live(f)

Register(r) ==
  /\ req[r] # None /\ ~Registered(req[r].user)
  /\ IF ~AcceptedAtSignUp(req[r].given, saw[r]) \/ Refused(req[r].given)
       THEN Refuse(r)
       ELSE /\ entries' = Written(req[r].user, req[r].given)
            /\ team' = [team EXCEPT ![req[r].user] = None]
            /\ Done(r) /\ UNCHANGED fields
  /\ UNCHANGED teams

AnswerUserFields(r) ==
  /\ req[r] # None /\ Registered(req[r].user)
  /\ IF ~Accepted(req[r].given, saw[r]) \/ Refused(req[r].given)
       THEN Refuse(r)
       ELSE entries' = Written(req[r].user, req[r].given) /\ Done(r) /\ UNCHANGED <<fields, team>>
  /\ UNCHANGED teams

Next ==
  \/ \E f \in Fields : CreateField(f) \/ UpdateField(f) \/ DeleteField(f)
  \/ \E u \in Users, t \in Teams : CreateTeam(u, t) \/ JoinTeam(u, t)
  \/ \E r \in Requests : Load(r) \/ Register(r) \/ AnswerUserFields(r)

Spec == Init /\ [][Next]_vars

-----------------------------------------------------------------------------
Definitions == [owner : {"user", "team"}, required : BOOLEAN, editable : BOOLEAN]

TypeOK ==
  /\ fields \in [Fields -> {None, Gone} \cup Definitions]
  /\ entries \in [Fields -> [Owners -> {"yes", "no", None}]]
  /\ team \in [Users -> Teams \cup {None, "nobody"}]
  /\ req = [r \in Requests |-> req[r]] /\ saw = [r \in Requests |-> saw[r]]
  /\ \A r \in Requests : req[r] # None =>
       \E u \in Users, asked \in SUBSET Fields : \E given \in [asked -> Raw] :
         req[r] = [user |-> u, given |-> given]
  /\ overtaken \subseteq InFlight

(* "an account can never be permanently held behind the profile-complete   *)
(* gate" (AnswerUserFields): whoever the gate holds is let through by      *)
(* answering what they owe, all of it, whatever was made required since.   *)
UserGateHasRemedy ==
  \A u \in Users : Registered(u) /\ ~ProfileComplete(u) =>
    Accepted([f \in Owed(u, "user") |-> "yes"], Loaded(u))

(* A user's own request neither takes away an answer the gate asks for nor *)
(* changes one that is closed to them, unless something was committed      *)
(* beside it (AnswerUserFields judges by the rows it loaded).              *)
UndoStep ==
  \A r \in Requests :
    LET u == req[r].user IN
    req[r] # None /\ req'[r] = None /\ r \notin overtaken =>
      /\ Registered(u) /\ ProfileComplete(u) => \A f \in Fields :
           (Live(f) /\ fields[f].required /\ fields[f].owner = "user") => entries'[f][u] # None
      /\ \A f \in Fields :
           Answered(f, u) /\ ~fields[f].editable => entries'[f][u] = entries[f][u]

(* "A field is answered by a user at registration, or by a team at team    *)
(* creation" (domain/field/field.go): a new team is not held by the gate.  *)
AnsweredAtCreation ==
  [][\A t \in teams' \ teams : \A f \in Fields :
       (fields[f] # None /\ fields[f].owner = "team" /\ fields[f].required) => entries'[f][t] # None]_vars

-----------------------------------------------------------------------------
(* Why: whoever is not registered has no answer on file, and beside whom   *)
(* nothing was committed, what they loaded is what there is.               *)
Unasked == \A f \in Fields, u \in Users : Answered(f, u) => Registered(u)

Current == \A r \in Requests : req[r] # None /\ r \notin overtaken => saw[r] = Loaded(req[r].user)

Inv == Unasked /\ Current
=============================================================================
