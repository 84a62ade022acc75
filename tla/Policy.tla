------------------------------- MODULE Policy -------------------------------
(* Who may see and do what: domain/policy's Decide, its route table, the   *)
(* freeze exemption and the redactor, and the middleware that stands in    *)
(* front of them. All of it is pure: an event `e`, a principal `p` and a   *)
(* request `r` in, an outcome out.                                         *)
EXTENDS Integers, FiniteSetsExt

-----------------------------------------------------------------------------
(* The inputs *)

Modes == {"users", "teams"}
Phases == {"before", "running", "ended"}

(* What can be stored (visSetter): hidden is for the score only, mlc for   *)
(* registration only.                                                      *)
Vis == {"public", "private", "admins"}

(* PhaseAt: an instant equal to a bound is inside the event.               *)
PhaseAt(now, start, end) ==
  CASE start # 0 /\ now <= start -> "before"
    [] ~(start # 0 /\ now <= start) /\ end # 0 /\ now > end -> "ended"
    [] OTHER -> "running"

Events == [mode : Modes, setup : BOOLEAN, challenge : Vis, score : Vis \cup {"hidden"}, account : Vis,
           registration : Vis \cup {"mlc"}, verifyEmails : BOOLEAN, viewAfter : BOOLEAN,
           phase : Phases, paused : BOOLEAN, freeze : BOOLEAN, teamCreation : BOOLEAN]

Principals == [authed : BOOLEAN, admin : BOOLEAN, verified : BOOLEAN, banned : BOOLEAN,
               teamBanned : BOOLEAN, teamless : BOOLEAN, profile : BOOLEAN,
               teamProfile : BOOLEAN, forced : BOOLEAN]

(* The zero Principal of a request without a credential.                   *)
Nobody == [authed |-> FALSE, admin |-> FALSE, verified |-> FALSE, banned |-> FALSE,
           teamBanned |-> FALSE, teamless |-> FALSE, profile |-> FALSE,
           teamProfile |-> FALSE, forced |-> FALSE]

(* Who can be a viewer: nobody, or somebody who is on a team before it can *)
(* be banned or owe answers (LoadPrincipal).                               *)
Viewers == {Nobody} \cup {p \in Principals : p.authed /\ (p.teamless => ~p.teamBanned /\ p.teamProfile)}

-----------------------------------------------------------------------------
(* The route table *)

Classes == {"unknown", "themeAsset", "setup", "index", "pages", "register", "login",
  "logout", "reset", "confirm", "challengeList", "challengeDetail", "challengeAttempt",
  "challengeSolves", "hintUnlock", "solutionUnlock", "scoreboard", "scoreboardDetail",
  "accountList", "accountDetail", "accountSelf", "passwordChange", "teamEnrollment",
  "teamSelf", "teamCreate", "teamDetail", "tokens", "sse", "notifications", "solveFeed",
  "admin", "adminScoreboard", "statistics", "export"}

VisibilityGates(c) ==
  CASE c = "register" -> <<"registration">>
    [] c \in {"challengeList", "challengeDetail", "challengeAttempt", "solveFeed"} -> <<"challenge">>
    [] c = "challengeSolves" -> <<"challenge", "account">>
    [] c \in {"scoreboard", "scoreboardDetail"} -> <<"account", "score">>
    [] c \in {"accountList", "accountDetail", "teamDetail"} -> <<"account">>
    [] OTHER -> <<>>

TeamRoutes == {"teamEnrollment", "teamCreate", "teamSelf"}
RequiresAuth == TeamRoutes \cup
  {"challengeAttempt", "hintUnlock", "solutionUnlock", "accountSelf", "passwordChange",
   "tokens", "sse", "notifications", "solveFeed"}
RequiresCompleteProfile == {"challengeList", "challengeDetail", "challengeAttempt"}
RequiresTeam == RequiresCompleteProfile
MutatesScore == {"challengeAttempt", "hintUnlock", "solutionUnlock"}
TimeGated == RequiresCompleteProfile \cup MutatesScore \cup {"challengeSolves", "solveFeed"}
RequiresVerified == TimeGated \cup {"tokens"}
ClosesAtEnd == {"teamEnrollment", "teamCreate"}
AdminOnly == {"admin", "adminScoreboard", "statistics", "export"}
ExemptFromBan == {"themeAsset"}

(* Slip: the form that clears the flag is behind the wall it clears.       *)
ExemptFromPasswordChangeButForm == {"themeAsset", "setup", "login", "logout", "reset"}
ExemptFromPasswordChange ==
  {"themeAsset", "setup", "login", "logout", "reset", "passwordChange"}

AvailableIn(c, mode) == c \in TeamRoutes \cup {"teamDetail"} => mode = "teams"

-----------------------------------------------------------------------------
(* Outcomes, and the gates in their canonical order *)

Allow == [allow |-> TRUE, status |-> 0, redirect |-> "", reason |-> "none"]
Deny(status, redirect, reason) ==
  [allow |-> FALSE, status |-> status, redirect |-> redirect, reason |-> reason]
NotFound == Deny(404, "", "not-found")
AuthRequired == Deny(403, "/login", "auth-required")

DenyIf(cond, outcome) == IF cond THEN outcome ELSE Allow
FirstDenied(outcomes) ==
  LET denied == {i \in DOMAIN outcomes : ~outcomes[i].allow}
  IN  IF denied = {} THEN Allow ELSE outcomes[Min(denied)]

SetupGate(e, p, r) == FirstDenied(<<
  DenyIf(r.class = "unknown", NotFound),
  DenyIf(~e.setup /\ r.class \notin {"setup", "themeAsset"}, Deny(0, "/setup", "setup-incomplete")),
  DenyIf(e.setup /\ r.class = "setup", NotFound)>>)

BanGate(e, p, r) ==
  IF p.authed /\ r.class \notin ExemptFromBan
    THEN FirstDenied(<<DenyIf(p.banned, Deny(403, "", "banned")),
                       DenyIf(p.teamBanned, Deny(403, "", "team-banned"))>>)
    ELSE Allow

PasswordGate(e, p, r) ==
  DenyIf(p.authed /\ p.forced /\ r.class \notin ExemptFromPasswordChange,
         Deny(0, "/change-password", "password-change-required"))

ModeGate(e, p, r) == DenyIf(~AvailableIn(r.class, e.mode), NotFound)

AdminGate(e, p, r) ==
  DenyIf(r.class \in AdminOnly /\ ~p.admin, Deny(403, "", "admin-required"))

(* checkVis: accounts and scores hide that they exist, challenges are      *)
(* merely gated, and a private registration form is not there at all.      *)
CheckVis(kind, e, p) ==
  LET v == e[kind] IN
  CASE v = "public" -> Allow
    [] v = "private" /\ kind = "registration" -> NotFound
    [] v = "private" /\ kind # "registration" -> DenyIf(~p.authed, AuthRequired)
    [] v = "hidden" -> DenyIf(~p.admin, Deny(403, "", "scores-hidden"))
    [] v = "admins" /\ kind = "challenge" ->
         DenyIf(~p.admin, IF p.authed THEN Deny(403, "", "admins-only") ELSE AuthRequired)
    [] v = "admins" /\ kind # "challenge" -> DenyIf(~p.admin, NotFound)
    [] OTHER -> NotFound

VisibilityGate(e, p, r) ==
  LET kinds == VisibilityGates(r.class)
  IN  FirstDenied([i \in DOMAIN kinds |-> CheckVis(kinds[i], e, p)])

AuthGate(e, p, r) == FirstDenied(<<
  DenyIf(r.class \in RequiresAuth /\ ~p.authed,
         IF r.class = "challengeAttempt" THEN Deny(403, "", "authentication-required")
                                         ELSE AuthRequired),
  DenyIf(r.class = "register" /\ p.authed, Deny(0, "/challenges", "already-authed"))>>)

VerifiedGate(e, p, r) ==
  DenyIf(e.verifyEmails /\ p.authed /\ ~p.admin /\ ~p.verified /\ r.class \in RequiresVerified,
         Deny(403, "/confirm", "unverified"))

ProfileGate(e, p, r) ==
  IF r.class \in RequiresCompleteProfile /\ p.authed /\ ~p.admin
    THEN FirstDenied(<<
           DenyIf(~p.profile, Deny(0, "/settings", "incomplete-profile")),
           DenyIf(e.mode = "teams" /\ ~p.teamless /\ ~p.teamProfile,
                  Deny(403, "", "incomplete-team-profile"))>>)
    ELSE Allow

TeamGate(e, p, r) == FirstDenied(<<
  DenyIf(r.class \in RequiresTeam /\ e.mode = "teams" /\ p.teamless /\ ~p.admin,
         Deny(403, "/team", "team-required")),
  DenyIf(r.class = "teamCreate" /\ ~e.teamCreation /\ ~p.admin,
         Deny(403, "", "team-creation-disabled")),
  DenyIf(r.class = "teamCreate" /\ ~p.teamless, Deny(403, "", "already-on-team"))>>)

ClockGate(e, p, r) ==
  IF r.class \in TimeGated /\ ~p.admin
    THEN CASE e.phase = "running" -> Allow
           [] e.phase = "ended" ->
                DenyIf(r.class \in MutatesScore \/ ~e.viewAfter, Deny(403, "", "ctf-ended"))
           [] e.phase = "before" ->
                IF e.mode = "teams" /\ p.teamless THEN Deny(0, "/team", "team-required")
                                                  ELSE Deny(403, "", "ctf-not-started")
    ELSE Allow

EnrollmentGate(e, p, r) ==
  DenyIf(r.class \in ClosesAtEnd /\ ~p.admin /\ e.phase = "ended", Deny(403, "", "ctf-ended"))

PauseGate(e, p, r) ==
  DenyIf(r.class = "challengeAttempt" /\ e.paused /\ (~r.preview \/ ~p.admin),
         Deny(403, "", "paused"))

Decide(e, p, r) == FirstDenied(<<
  SetupGate(e, p, r), BanGate(e, p, r), PasswordGate(e, p, r), ModeGate(e, p, r),
  AdminGate(e, p, r), VisibilityGate(e, p, r), AuthGate(e, p, r), VerifiedGate(e, p, r),
  ProfileGate(e, p, r), TeamGate(e, p, r), ClockGate(e, p, r), EnrollmentGate(e, p, r),
  PauseGate(e, p, r)>>)

-----------------------------------------------------------------------------
(* Freeze and redaction *)

(* FreezeExempt is a matter of the surface, but for three arms.            *)
(* Slip: the query parameter of the list is believed of anybody.           *)
FreezeExemptByView(p, r) ==
  CASE r.class = "scoreboard" -> r.surface = "admin" \/ (p.admin /\ r.preview)
    [] r.class \in {"scoreboardDetail", "accountDetail", "accountList"} -> r.surface = "admin"
    [] r.class = "challengeList" -> r.adminView
    [] r.class = "challengeSolves" -> p.admin /\ ~r.preview
    [] r.class \in {"statistics", "export", "adminScoreboard"} -> TRUE
    [] OTHER -> FALSE

FreezeExempt(p, r) ==
  CASE r.class = "scoreboard" -> r.surface = "admin" \/ (p.admin /\ r.preview)
    [] r.class \in {"scoreboardDetail", "accountDetail", "accountList"} -> r.surface = "admin"
    [] r.class = "challengeList" -> p.admin /\ r.adminView
    [] r.class = "challengeSolves" -> p.admin /\ ~r.preview
    [] r.class \in {"statistics", "export", "adminScoreboard"} -> TRUE
    [] OTHER -> FALSE

Frozen(e, p, r) == e.freeze /\ ~FreezeExempt(p, r)

Visible(v, p) == \/ v = "public"
                 \/ v = "private" /\ p.authed
                 \/ v = "admins" /\ p.admin

NewRedactor(e, p) == [scores |-> Visible(e.score, p), accounts |-> Visible(e.account, p)]

(* What the redactor leaves of each kind of figure. An account's own score *)
(* is always its own to see, its place is not.                             *)
ShowsAccount(red) == red.scores
ShowsOwnPlace(red) == red.scores
ShowsSolveCount(red) == red.scores /\ red.accounts

ShowsSolveList(red) == red.scores /\ red.accounts
ShowsProfileHistory(red) == red.scores
ShowsContribution(red) == red.scores

-----------------------------------------------------------------------------
(* The chain in front: authenticate, ban wall, CSRF, (rate limit,) gate *)

Credentials == {"none", "cookie", "deadCookie", "token", "deadToken", "unchecked"}

(* Authenticate: a dead token is refused, a dead cookie is nobody's, and a *)
(* credential that could not be checked is not one that is bad.            *)
Authenticate(cred, p) ==
  CASE cred = "token" -> [ok |-> TRUE, method |-> "token", principal |-> p]
    [] cred = "cookie" -> [ok |-> TRUE, method |-> "cookie", principal |-> p]
    [] cred \in {"none", "deadCookie"} -> [ok |-> TRUE, method |-> "anonymous", principal |-> Nobody]
    [] cred = "deadToken" -> [ok |-> FALSE, status |-> 401]
    [] cred = "unchecked" -> [ok |-> FALSE, status |-> 503]

BanWall(p) ==
  IF p.authed THEN FirstDenied(<<DenyIf(p.banned, Deny(403, "", "banned")),
                                 DenyIf(p.teamBanned, Deny(403, "", "team-banned"))>>)
              ELSE Allow

CSRF(method, r) ==
  DenyIf(method = "cookie" /\ ~r.safe /\ ~r.csrf, Deny(403, "", "csrf"))

Serve(e, cred, p, r) ==
  LET a == Authenticate(cred, p) IN
  IF ~a.ok THEN Deny(a.status, "", "credential")
           ELSE FirstDenied(<<BanWall(a.principal), CSRF(a.method, r), Decide(e, a.principal, r)>>)
=============================================================================
