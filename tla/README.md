# flagfish in TLA+

flagfish is a CTF platform: a Go server over Postgres that hands out challenges,
judges flags, prices solves, sells hints, keeps teams and shows a scoreboard.
Several server processes may share one database. There is almost no state in
the processes: what makes the system right or wrong is how its transactions,
all READ COMMITTED, interleave over the rows, advisory locks, triggers and
constraints of one schema. That is what these modules model, check and prove.

Paths below are relative to `src/`.

1. [The system](#1-the-system)
2. [How the code is modelled](#2-how-the-code-is-modelled)
3. [Modules](#3-modules)
4. [Runs](#4-runs)
5. [Where code and documentation disagree](#5-where-code-and-documentation-disagree)
6. [Proofs](#6-proofs)
7. [Not modelled](#7-not-modelled)
8. [Plan](#8-plan)

Run a model with `tlc -config MCSubmit.cfg MCSubmit`, check a proof with
`tlapm Submit_proofs.tla`. Every run ends within a few minutes on two workers.

## 1. The system

### Components

| component | code | state it keeps | operations | what is hard | what makes it correct | module |
|---|---|---|---|---|---|---|
| Submission | `internal/gameplay/submit.go`, `db/queries/gameplay.sql` | `submissions`, `solves`, `awards`, `challenges.value` | `Submit` | one account many requests; solvers race for price and first blood; operator edits in between | exact attempt cap, one solve per account, stamped price, first blood first, nothing announced that is not committed | `Submit`, `Ledger` |
| Decay | `internal/domain/scoring/decay.go`, `RecalcChallengeValue` | none | `ValueAt`, `Validate`, the SQL `CASE` | two implementations, integer division, both ends of the curve | engines agree, never rises, floor and full price exact | `Decay` |
| Hints | `internal/gameplay/unlock.go` | `hint_unlocks`, `hint_unlock` awards | `UnlockHint` | two purchases over one balance; hint edited or deleted halfway | never overdrawn, one charge per unlock, prerequisites first | `HintUnlock`, `Purse` |
| Instance pool | `internal/gameplay/issuer.go`, `adminops/instances.go`, `db/queries/flags.sql` | `challenge_instances`, `flag_issues` | issue on first view, replace pool, look a flag up | everybody opens the challenge at once; pool replaced while it is drawn from | one instance each, nobody errors, flags stay attributable | `InstancePool` |
| Teams | `internal/accounts/teams.go`, `adminops/team_roster.go`, triggers | `users.team_id`, `teams`, `captain_id` | create, join, leave, kick, transfer, disband, admin remove and move | statements judged on snapshots, then waiting | size cap, seat filled by a member, no ghost team | `TeamRoster` |
| Admin roster | `internal/adminops/users.go`, `teams.go`, `team_roster.go` | `role`, `banned` of users and teams | demote, ban, team ban, move | each counts the admin the other removes | somebody can always administer | `AdminRoster` |
| Challenge administration, prerequisites, flags | `internal/adminops/challenges.go`, `requirements.go` | challenges, flags, requirements | create, edit, hide, delete, flag mode and logic, requirements | guards read and not held; edits under submissions | no flag nobody can match, no false accusation, no silent cycle, no history lost | `Console`, `Submit`, `HintUnlock` |
| Scoreboard, catalog | `internal/board`, `internal/catalog`, `db/queries/scoreboard.sql`, `catalog.sql` | none (read side) | standings, board as of a date, curves, profiles, quotes, solver lists | dates are not in commit order; a dozen queries for one number; paging | the past stands, reads agree, one price, pages miss nobody | `Board` |
| Sessions and login | `internal/accounts/login.go`, `authenticator.go`, `tokens.go` | `sessions`, `api_tokens`, password hash | login with rehash, change, reset, force, ban, tokens, sign out | password read, verified and written in different transactions | a changed password ends what it must end | `Sessions` |
| Mailed codes, registration | `internal/accounts/register.go`, `emailflows.go` | `users.email`, `pending_email`, `email_tokens` | register, resend, confirm, change address | codes used twice, for another purpose, by a transaction that fails | nobody stranded, no address flips without its code | `MailCodes` |
| Rate limiters | `internal/accounts/limiter.go`, `httpapi/middleware.go` | counter rows per window | bump, refund | refund in another window, budget spent before the outcome | budgets hold, success is free | `Limiter` |
| Access policy | `internal/domain/policy`, `httpapi/middleware.go` | none | `Decide`, freeze exemption, redactor, the chain of middleware | thirteen gates and three tables that must agree | redirects land, nothing withheld leaks by another surface | `Policy` |
| Notifications, live feed | `internal/notify`, `internal/solvefeed` | a watermark and bounded subscriber queues per process | publish, catch up, fan out, subscribe, replay | ids in insert order, signals in commit order; outages | a steady client misses nothing | `Feeds` |
| Settings | `internal/config`, `internal/pglisten` | `config` rows; per process a snapshot and its problems | `Set`, `Refresh`, `Watch`, `Run` | lost signals, reconnects, two writers | every process converges, coherent table stays coherent | `Config` |
| Operator tasks | `internal/opsjob`, `internal/jobs/ops.go` | `tasks`, stashed uploads, River jobs | request, stash, run, settle | worker dies; statement fails halfway | a backup restores, an upload is not left, an accepted task ends | `OpsTasks` |
| Files | `internal/files`, `internal/storage` | `files` rows, content-addressed objects | upload, delete, download, backup, restore | no transaction over rows and objects | committed rows have their bytes | `Files` |
| Import and export | `internal/platform/importer`, `exporter` | none | translate a foreign archive, load it | archives that leave things out or contradict themselves | same scoreboard as before, or refused | `Import`, `Files`, `OpsTasks` |
| Profile fields | `internal/adminops/fields.go`, `accounts/profile_fields.go` | `fields`, `field_entries` | define, edit, delete, register, answer | judged by fields loaded earlier | whoever is held can get out, nothing undone alone | `Profiles` |
| Anti-cheat | `internal/anticheat` | none | six reports over one log | separate queries with separate joins | reports agree | `Evidence` |
| Jobs, audit, migrations, mail, egress, health, metrics, generated code, front end | `internal/jobs`, `internal/audit`, ... | River's tables, audit rows | I/O and wiring | | | not modelled, see section 7 |

`PROJECT.json` lists every component with its status and its files under
`components`; under `hazards` every place where the code is exposed, with the
property that watches it; under `map` the lines each definition stands for.

### How they interact

- **Rows.** Nearly all interaction is through shared rows. Submission, hints
  and manual awards move one balance (`solves` and `awards`); the operator edits
  challenge and hint rows that running transactions have read; leaving a team
  changes which team a solve is stamped with; the board reads the ledger.
- **Advisory locks.** `<challenge>:<account>` hashed (attempt counting),
  `flag_issue:<challenge>` (drawing an instance), `admin_role` (roster
  mutations), `registration` (taken by the caps triggers, held to commit).
  All are transaction scoped.
- **Row locks.** FOR NO KEY UPDATE on the challenge (right answers only) and on
  the account (spending, changes of password). The foreign keys of inserted rows
  take KEY SHARE, which does not conflict with it: that is why a solve never waits
  for a spend, and why a token can be inserted while its user's password changes.
- **Constraints** that a transaction relies on instead of a lock: one solve per
  account, one first-blood award per challenge, one issue per instance and
  per account, one live address per user, one operator task in flight of a kind,
  RESTRICT on the ledger's foreign keys.
- **NOTIFY.** Settings, notifications and the live feed are signalled to every
  process at commit. A lost connection loses the signals.
- **River outbox.** Announcements, mails and operator tasks are enqueued by the
  transaction that earned them.
- **Object store.** Bytes of files, uploads and backups; no transaction spans it
  and the database.

## 2. How the code is modelled

**One action per SQL statement.** A service method that runs a transaction is a
sequence of actions of one request, its program counter naming the next
statement. What decides in the code (a WHERE clause, an early return, an ON
CONFLICT, a constraint) is a guard or an alternative of that action.

**Uncommitted writes are local.** What a transaction has written is kept in its
locals and its program counter (`stamp`, `blood`, `ask` in `Submit`; `read`, `doomed` in
`Sessions`), so that no other transaction reads it; the commit action publishes all of
it at once, and an `Abort`, enabled at every statement, publishes none of it. An abort stands for
an error return, a cancelled request, a lost connection, a crash of the server
and for being the victim of deadlock detection. Where an uncommitted row is
*felt* by others (a unique index waits for the in-flight key, RESTRICT waits
for a referencing row), the guard looks at the program counters of the others.

**Read and re-read.** READ COMMITTED gives each statement a new snapshot; a
locking statement that waited re-reads the row as last committed. Both happen
in one action, after the wait. Where the code depends on a snapshot taken
*before* the wait (an UPDATE whose WHERE looks at other rows, in `TeamRoster`),
the check and the write are two actions.

**Read now, write later.** Where the code judges by something read earlier without
a lock, some properties hold of one transaction alone and fail of two that overlap.
These are stated as `OnlyOverlap...`: the bad step happens only when something
else was committed between the read and the write. The ghost (`overtaken`, `excused`,
`tie`) that records the overlap is written and never read by the actions. That says
exactly what the code guarantees, and fails as soon as one operation alone does harm.

**Accounts.** `user_mode` decides whether an account is a user or a team. The
statements are the same with the other column, so `Submit`, `HintUnlock`, `InstancePool`
and `Console` have one constant, `Accounts`. `Board`, `Policy`, `Import` and `Evidence`, where the
two modes run different code, have both.

**Pure code.** `Policy`, `Import`, `Evidence` and `Decay` have no variables. They are
operators over records, checked for every input of a bounded set that the initial
states (or, for `Evidence`, a growing log) enumerate.

**Slips.** Next to some definitions stands a variant introduced by a comment
starting with `Slip`: a bug of the kind the real definition avoids. No
specification uses them. Replacing the definition by its slip makes a property
fail, which is how we know that the property watches the code at all;
`PROJECT.json` lists the pairs under `mutants`.

**Side by side.** The modules below model components that share no table and meet in
no property. Each MC module instantiates several of them beside one another with a
variable `focus`, fixed by the initial state: a behaviour is about the component
`focus` names, and the variables of the others hold a constant. The state space is the
sum of theirs, not the product; every property is stated of one `focus`. Where
components do share rows they are in one module: submission with moderation and deletion, hints
with solves and awards, files with backup and restore, the roster with
enrolment.

**Deadlock checking** is off everywhere: requests end, edits and faults are
bounded, and a state in which everything is answered and spent is a proper end.
Whether somebody waits for ever is stated as liveness (`EveryRequestAnswered`,
`WrongNeverWaits`, `AcceptedTaskEnds`, `ListenersConverge`).

## 3. Modules

### Decay

`ValueAt` is the Go function with its early returns, `RecalcValue` the SET
expression of the one UPDATE, `Validate` the guard both rest on (and the CHECK
of the table). The columns are int4 and both engines multiply in 64 bits; the
module says why no product of an admissible curve wraps, and computes in
unbounded integers.

### Submit, Ledger

`Submit` is `gameplay.Service.Submit`.

| state | code |
|---|---|
| `pc`, `stamp`, `blood`, `ask` | the transaction's statements and locals |
| `rowLock` | `LockChallengeForSubmit` |
| `attemptLock` | `LockAttemptCounter` |
| `state`, `price` | `challenges.state`, `challenges.value` |
| `eligible` | neither `hidden` nor `banned` |
| `wrong`, `solves`, `bonus` | incorrect `submissions`, `solves` in id order, `first_blood` awards |
| `outbox` | announcement jobs enqueued and feed pulses sent at commit |

`Begin` to `CommitCorrect` follow the method from its first read to its commit:
the gate on the challenge's state and on its prerequisites (both unlocked), the
attempt lock and count where there is a cap, then two paths. A wrong answer logs
an attempt without touching the challenge row (*lazy locking*); a right one locks
the row, inserts the solve, decides first blood, pays, recalculates and commits.
Whether an answer is right is an input: comparing flags is a pure function.
Beside the requests run the operator's `SetChallengeState` and `DeleteChallenge`,
and `Moderate`, which hides, shows, bans and unbans accounts.

`Ledger` is the same promise as a serial program: `Miss` and `Hit` are one step.
`Submit` implements it under a refinement mapping that forgets who is in flight
(`ImplementsLedger`): every commit is one serial submission that could have
happened just then.

### HintUnlock, Purse

`HintUnlock` is `UnlockHint` from `GetHint` to its commit, with everything else
that moves a balance beside it: solves (`EarnSolve`), manual awards granted and
revoked, hints repriced and deleted, the challenge hidden. The account row is
locked before ownership and balance are read; the price is the one read with the
hint, earlier. `docked` counts what no lock can prevent: an admin taking points
away from an account that has spent them.

`Purse` is buying in one step; `ImplementsPurse` maps the interleaved
transactions to it.

### Files

`files.Service` over a content-addressed store: `Upload` checks the challenge, stats or puts
the object, then inserts the row (`AdminInsertFile`, ON CONFLICT DO NOTHING, then a
re-read); `Delete` counts the other rows of the same bytes in its transaction,
commits, and only then removes the object. A download judges the row once and opens the object
later. `Export`/`WriteUploads` and `Restore`/`RestoreUploads`/`RestoreTables` are the
backup and its restore, `Import` a foreign archive, whose bytes go nowhere. A
request may crash between any two steps, and a store call may fail. `excused` records
the addresses swept while something relied on them, and those an import named.

### AdminRoster

`SetRole`, `SetBanned`, `SetTeamBanned` and `MoveTeamMember` take the advisory lock
`admin_role` and count, in a statement of their own, who would remain. `Promote`,
`Unban`, `UnbanTeam` and `Detach` (leaving, being kicked, disbanding) take no
lock; each can only add usable admins. `JoinTeam` takes none either, and *can*
remove one: it reads the team's ban before its own transaction. The model keeps
that, for the users in `Players`; the theorems carry the assumption
`StaffDoNotJoin`, and the run's constants satisfy it.

### TeamRoster

`CreateTeam`, `JoinTeam`, `LeaveTeam`, `KickMember`, `TransferCaptaincy` and
`DisbandTeam` of the service, `CreateTeam`, `RemoveTeamMember` and `MoveTeamMember`
of the console, and a solve that stamps its solver's team. `Check...` is the
evaluation of a WHERE clause on the statement's snapshot; the action after it is
the write, after the wait for the row and for the lock `registration`, with the
clause re-evaluated on the locked row only (what Postgres does). The row lock and
the registration lock of one statement are taken in one step, the database's
deadlock detection is `Abort`, and a first read that refuses outright is left
out, for it changes nothing.

### InstancePool

`IssueInstance` (advisory lock, pick, insert, re-read) by views of an account, and
`ReplacePool` (compare with the newest generation, read the next number, insert,
commit; it takes no lock).

### Console

Operators' transactions on a challenge and its flags, statement by statement: flag
logic, flag mode (`Get`, `CountSolves`, `FlagStats`, then the write), a flag added or
patched, prerequisites replaced (`FilterIds`, `WriteNeeds`, `ReadGraph`, `CommitNeeds`: the only
one that reads after its write). `draft` is the held row. A write that waited finds what
is there by then; columns a patch leaves alone keep what is stored, not what was
read. Beside them accounts view (and are issued an instance), and submit in
two steps, for a submission reads the mode before it lands. `UnissuedSolves` is
the detector of `internal/anticheat` that accuses somebody of using another's flag.

### Profiles

Custom fields and their answers: an operator's request is one statement, a user's
loads the definitions (`Load`) and is judged and written by what it loaded (`Register`,
`AnswerUserFields`). `ProfileComplete` is what `LoadPrincipal` computes for the gate.
Teams are created and joined without being asked anything.

### Sessions

Login, change, reset and forced change of a password, bans, sign-out, API tokens.
`holder` is the lock on the user's row. A session carries a `Fingerprint` of the whole hash it was
minted under and is compared on every request; a token carries nothing and must be
deleted. `ReadUser` is outside any transaction; `Rehash` is a statement of its own;
`Update` to `Commit...` is one transaction, whose sweeps see what was committed by
then. A hash's `salt` names the request that minted it, for none mints two.

### MailCodes

`Register`, `ResendVerification`, `ConfirmEmail`, `ChangeEmail` and `ConfirmEmailChange`, with the
console's `SetVerified` and `VerifyAll`. The code and its mail are one row and one
enqueue of the caller's transaction. The two unique indexes on addresses make whoever
claims one wait for whoever claims it uncommitted. A code that its transaction
consumed is as good as new if the transaction rolls back.

### Policy

`Decide` is the thirteen gates in their order, `Serve` the chain of middleware in front
of them (authentication, ban wall, CSRF, gate), `FreezeExempt` and `Frozen` the table
of what the freeze withholds, `NewRedactor` and `Shows...` what a profile shows. The route
table is the sets at the top. An event, a viewer and a request in, an outcome out.

### Limiter

Flood, failure, target and general budget of the credential routes: a request
spends from them in order, its handler answers, and the failure and target
budgets are refunded if it was legitimate. Each is one statement against the window of its own
moment. `spent` and `back` record which.

### Board

Everything a viewer is shown that is computed from the ledger: three standings
queries, the same rules in Go (`GoBoard`), curves, a user's page, quotes, the list,
the detail, and the paged list of solvers. A row is dated when its transaction began
(`now()`) and visible when it commits, which may be later and in another order; `open`
holds the transactions in between. A submission's statements are `Submit`'s; here it reads the
price, writes the solve and reprices in one step, as it does under the
challenge's row lock. `now` is the database's clock, `FreezeAt` the configured horizon.

### Feeds

One process's listener (`Session`, `LatestID`, `After`, `CatchUp`, `Deliver`) over a connection that
drops with the signals on it, the fan-out over bounded channels that drops a
client who is behind, and a stream handler that subscribes, replays and writes. A
behaviour is one of the two feeds: notifications have rows and a replay, solves
travel in the signal and may be withheld by the freeze. Ids are drawn at insert
and signalled at commit.

### Config

`config.Manager`, its Postgres store and watcher over a `pglisten.Pump`. The
table is the sequence of its committed versions, a snapshot the version it was
built from. A watcher LISTENs, then catches up, then re-reads on every signal;
a re-read is three actions, because `Refresh` reads the table, stores the
snapshot and stores its problems, the two last without a lock. `Set` is its
verdict (a read, merged and judged by the coherence rules), `Replace` the write
with its signal, then a local refresh of the same process. Faults are a
connection that drops, with the signals in it, a statement that fails, and a
restart, which a process survives on a coherent table only.

The local refresh after a write is not ordered with the process's own watcher:
the older read may be stored last, and that process serves it until the next
signal. So the properties of the snapshot are stated for `Listeners`, the
processes that serve no console request. `Watching` is the set of processes whose
watcher runs; the run gives the console process none, which costs nothing that a
property looks at.

### OpsTasks

Backups, restores and imports as background tasks: `Stash` the upload, `Enqueue` task
and job in one transaction under the one-in-flight index, then the worker's steps to `FinishTask` or
`FailTask` and `DiscardUpload`. An export reads its tables one after the other inside one REPEATABLE
READ snapshot while users register and solve; a load truncates, copies, resyncs
the sequences and commits, or rolls back on a dangling reference. Statements and
store calls may fail, a worker may die; its job has one attempt, which the queue
discards (`Rescue`).

### Import

`Translate` maps an archive of CTFd onto the schema stage by stage or refuses it; `Load`
copies the plan with foreign keys off and counts what dangles with one probe for
each reference (`...Without...`). Primary keys and unique constraints stay live through the copy
(`Keyed`, `Pairwise`), and refuse an archive that repeats one. An archive is a record of sets of
rows; `IsArchive` types the columns that are looked up, added or compared, as the row structs of
`internal/platform/importer/ctfd.go` do.

### Evidence

The reports of `internal/anticheat` over one log of submissions: flag sharing by pair, by
account and as a count, address overlap likewise, and the pages of both. Each is its own
query in the code and its own operator here. `IsEvent` types the log.

### Ordering

ORDER BY: `InOrder(S, Before)` is the finite set `S` from first to last. It is a CHOOSE over sequences
that are in order, so it means something only where `Before` leaves no tie; that the orders of `Board` and `Evidence` leave
none is part of the proofs.

## 4. Runs

Six runs check that properties hold; six more each exhibit one disagreement
(section 5). Each passing run is several components side by side (section 2).

| run | cfg | components | instance |
|---|---|---|---|
| `submissions` | `MCSubmit.cfg` | Submit against Ledger | 3 submissions, 3 accounts, 2 challenges (one capped at one wrong answer, linear, with a bonus; one behind it, logarithmic, announced), 1 account edit, 1 challenge edit, aborts |
| `front` | `MCFront.cfg` | Policy, Import, Sessions, Limiter, Board, Feeds | below |
| `operators` | `MCOperators.cfg` | AdminRoster, Console, Profiles, Evidence | 2 requests at a time; 2 staff, 1 player, 2 teams; 3 challenges, 1 flag, 2 contestants; 2 registrants, 1 team, 1 field; logs of 3 |
| `enrolment` | `MCEnrol.cfg` | TeamRoster, MailCodes | 2 requests at a time, for ever; 3 users, 2 teams of at most 2; 2 registrants, 2 addresses, 2 codes |
| `goods` | `MCGoods.cfg` | HintUnlock against Purse, Files | 3 purchases of 1 account, 3 hints at 1, 2, 1 (one behind another), 2 solves of 2, one award of 2, 2 edits; 2 requests for files, 1 object under 2 names, 5 operations, 1 failure |
| `waiting` | `MCWaiting.cfg` | Config, OpsTasks, Submit, InstancePool | a listening process and a console with 2 requests, 3 versions, 1 fault; 3 operations, 1 failure, 1 crash; 3 submissions of 1 account to a capped and an uncapped challenge; 3 views of 2 accounts, 1 uploader, 2 hashes, 2 generations |

**`submissions`** is the core question: whatever the interleaving, is the ledger
one a serial execution would have written (`ImplementsLedger`)? It fixes at once the
price each solve carries, who bled first, and that an account solves once. The cap
(`AttemptCap`), first blood (`FirstBloodIsFirst`), the outbox (`OutboxMatchesLedger`) and deletion
(`DeletedHasNoHistory`) are stated by themselves as well. Three submissions
are enough for one to commit while a second holds a lock and a third has read
something stale; three accounts for a hidden solver between two visible ones.
One edit of each kind is enough for each race, since each edit races one
transaction.

**`front`** has two pure parts and four with state.
*Decisions*: every event up to 2 settings away from a running event of teams, every
viewer up to 3 facts away from a complete player, every class of route with each
query parameter: whoever is sent somewhere is let in there, at most one hop on
(`RedirectsLand`), and what the freeze or the redactor withholds on one surface is
not served on another (`WithheldStaysWithheld`). Two away meets every pair of
gates. *Imports*: every way to leave scoring parameters out of either of the two
tables that hold them, every way for submissions and solves to disagree in either
mode, every way to lose parents (`ImportIsSound`).
*Credentials*: three requests of one user with two passwords and one reset code
(`EndedStaysEnded`, `OutlivedOnlyBeside`). *Budgets*: two requests from one address over two windows, every
limit at one and the flood limit at two, so that each is reached (`BudgetsHold`). *Board*: three players, two
teams whose ids cross those of users, two challenges of different curves, a hidden
one behind the other, two instants and a freeze at the second, three rows, two of them open
at a time; one charge and one grant; one account of each kind and one challenge moderated; pages of one
row (`PastStands`, `ReadsAgree`, `WalkMissesNothing`, `OnePrice`). Three rows give a tie, a tie broken by date, and a
page between two others. *Stream*: two publishers, one client that connects twice, three ids, a
channel of one, one drop and one failed load, so a client falls behind, a catch-up
runs past the limit of two, and a replay races a publication (`SteadyMissesNothing`).

**`operators`** and **`enrolment`** have no bound on the length of a behaviour:
a request that ends is free to begin again as any other, so the runs cover every
sequence of operations of which two overlap. Two overlapping is what each
race needs; a third would wait for the same lock. Three users over two teams
of two reach a full team, a captain with a member, and someone on the other
side. Three challenges make cycles longer than two. The console's requests come
in three topics that no property relates (flags, mode while it is played,
prerequisites), fixed by the initial state like `focus`.

**`goods`**: three purchases at once by an account that cannot pay for all, with
points coming in, an award revoked, prices edited and hints deleted meanwhile.
The costs are chosen so that one solve pays for two of the hints and not the
third. One account is enough: accounts share nothing but hints, which only an
edit changes. Five operations on files are an upload, a second of the same
bytes, a delete, a backup and its restore, in any overlap of two.

**`waiting`** checks liveness, each under the fairness its code justifies:

- *Settings*: weak fairness of `Watch` of each watching process: `Pump.Run` reconnects until
  its context ends and the runtime schedules its goroutine. Nothing is assumed
  of the requests. `ListenersConverge` assumes that no statement fails: when the
  catch-up read fails the watcher logs it and waits for the next signal
  (`internal/config/pgstore.go:169`), so there is nothing to converge by.
- *Tasks*: weak fairness of `Work`, a worker that lives runs its job to the end; no
  fairness of the queue's rescue or of the operator. `AcceptedTaskEnds`
  excepts the operations whose worker died or could not write its row (`lost`).
- *Submissions*: weak fairness of the steps of wrong answers and nothing else:
  the lock manager grants and the runtime schedules a transaction that has
  begun. `WrongNeverWaits` says that a wrong answer without a cap ends even though a
  right one may stall for ever with the challenge row in hand.
  `EveryRequestAnswered` adds that right answers are scheduled as well (`RightFair`): then every
  begun submission ends, so attempt lock and row lock never form a cycle. Weak
  fairness is enough for locks here because each submission runs once: those
  that could overtake run out. No abort is fair.

Each of them waits at most once, so "gets what it waits for" is stated as "in the end
nobody is left waiting" (`<>[]`), which is the same for requests that run once.
`ListenerCurrent`, `StoreKept` and `ShownOwn` are the safety side of the same components.
Three versions of the settings give two commits, overlapping or in turn; one
fault is enough for each of a dropped connection, a failed read and a restart at any
point. The rule is of the shape of most of `coherenceRules`: a switch that needs a value.

Requests and ids that nothing distinguishes are SYMMETRY sets in the runs that check no
liveness. `waiting` has none.

Action properties look across a step: `EndedStaysEnded` (a session that stopped matching never matches
again), `PastStands` (a commit changes nothing of what is served as of an
instant before every open transaction), `OnePrice` (a solve leaves stored, computed and quoted price
equal), `FlipSpendsItsCode`, the `OnlyOverlap...` family, and `CycleIsAnnounced`.

Each module also defines `TypeOK`, which is part of the theorems of section 6. The invariants those theorems
rest on (`Inv`) were each checked by TLC on the instances above before they were proved.

## 5. Where code and documentation disagree

Shown by a run of their own:

- **The bonus index refuses a right answer** (`submit_bonus_refused`). The first
  solver of a challenge that pays a bonus is banned. Under the lock, the next
  right answer counts no eligible solver before it, decides it is first blood and
  inserts a second `first_blood` award. The unique index refuses it, there is no ON
  CONFLICT, and the submission fails, as does every one after it
  (`internal/gameplay/submit.go:202`). `docs/design/_arch/01-schema.md:722` takes the
  index to be implied by the lock.
- **The captain's seat goes to somebody who left** (`captain_seat`).
  `TransferCaptaincy` judges the target's membership on the snapshot of its UPDATE
  and locks the team's row only (`internal/db/queries/teams.sql:125`), so that a kick or
  departure which commits in between is not seen. The comment at
  `internal/accounts/teams.go:492` says nothing moves unless both hold at commit time.
- **A login puts an old password back** (`login_keeps_password`). `Login` verifies against
  a hash it read outside any transaction, then rehashes the password it was given
  with an unconditional UPDATE (`internal/accounts/login.go:93`). A change that
  commits in between is undone, and the session it minted stops matching.
  `docs/design/http-api.md:275` says of the rehash that the password did not change.
- **An outage swallows a notification** (`outage_is_replayed`). Two notifications draw
  their ids; the later commits and is delivered, the earlier commits while the listener is
  away. The catch-up asks for what is above the watermark
  (`internal/notify/broadcaster.go:157`) and a connected client never gets it.
- **A dead worker keeps its kind of task** (`settled_job_frees_kind`). With one attempt
  the queue discards the job of a worker that died, nothing stamps the task, and the
  one-in-flight index refuses every later task of that kind (`internal/jobs/ops.go:35`).
- **A team field closes the gate for good** (`team_gate`). A required field of teams makes
  `team_profile_complete` false for every member, and no operation writes a team's
  answer (`internal/domain/policy/decide.go:172`), though `internal/domain/field/field.go:27` says a team
  answers at its creation.

Met while modelling, and part of the models or of their assumptions:

- A kept flag changes its owner: when a re-upload keeps a hash and the new row is issued
  to another account, the lookup prefers the newer generation
  (`internal/db/queries/flags.sql:95`), and the earlier holder's own flag names the other
  account. `internal/adminops/instances.go:52` promises that everyone already issued stays
  attributable.
- `internal/httpapi/middleware.go:609` says of the failure budget that players who type their own
  passwords correctly never touch it, because a success is refunded. The budget is spent before the
  handler and refunded after it (line 659), so simultaneous successes from one address beyond the
  limit are refused. `BudgetsHold` bounds rejected attempts and says that a refunded
  success costs nothing afterwards; that a success is never refused does not hold.
- A refund is applied to the window of its own moment. `internal/accounts/limiter.go` says a stray refund cannot widen
  anyone's budget; in the next window it can, by one each. `FailuresBounded` counts them.
- `internal/adminops/challenges.go:209` says a switch of flag mode must not hand the detector a false positive, by
  construction. It counts solves and then writes; a submission judged in the old mode may land in between. `OnlyOverlapAccuses` is what holds.
- A regex flag is validated as written and matched inside `\A(?:...)\z`: a pattern such as `\Qabc` passes the first and
  fails the second. Comparison is not modelled.
- Deleting a challenge leaves it among its dependents' prerequisites, which stay locked to everyone.
- `JoinTeam` takes no roster lock: the last usable admin can join a team as it is being banned. Hence `StaffDoNotJoin`.
- The first blood is decided in commit order; the board is by date. A
  solver who began earlier and committed later is listed before the first blood.
- The comment in `internal/domain/policy/redact.go` nulls a place when scores *and* accounts are
  invisible; the code nulls it unless both are visible. The model follows the code.

## 6. Proofs

Eight modules hold them; every theorem listed in `PROJECT.json` is proved for every value of the
constants that meets the module's named assumptions, which say no more than what the columns' types,
their CHECKs and the operations' fields give (`SubmitConstants`, `HintConstants`, `FileConstants`,
`ConfigConstants`, `OpsConstants`, `PoolConstants`, `TeamConstants`, `CodeConstants`,
`RosterConstants`, `SessionConstants`, `BoardAssumption`, `FeedConstants`, `LimiterConstants`, `ArchivesAreReal`, ...),
and that some sets (of requests, accounts, rows' values) are finite. One is a real restriction:
`StaffDoNotJoin`, see below.

| module | about | extends |
|---|---|---|
| `Data_proofs` | sums, orders, images of finite sets; the two pricing engines | `Ordering`, `Decay` |
| `Submit_proofs` | submissions, and that they implement `Ledger` | `Submit`, `Data_proofs` |
| `Goods_proofs` | hints, that they implement `Purse`; files | `MCGoods` |
| `Waiting_proofs` | settings, instances, operator tasks | `MCWaiting` |
| `Enrol_proofs` | teams, mailed codes | `MCEnrol` |
| `Operators_proofs` | admin roster, profile fields, console, reports | `MCOperators`, `Data_proofs` |
| `Front_proofs` | sessions, policy, imports, streams, budgets | `MCFront`, `Data_proofs` |
| `Board_proofs` | the scoreboard and everything else read from the ledger | `MCFront`, `Data_proofs` |

A component that is one of several side by side is proved about in the MC module that instantiates it:
the theorem then speaks of the very property the run checks, under the run's specification
(`FrontSpec`, `WaitingSpec`, ...), and its invariant has the form `focus = "board" => ...`. The module
that EXTENDS an MC module has its CONSTANTS free: how many requests, users and rows, what the limits, capacities,
curves, teams, prerequisites and horizons are. What the MC module fixes by itself is fixed in the theorem too: in
`MCOperators` the console's requests come in three topics, two of them about one challenge, and the log grows by submissions of three
users in two teams (the lemma behind it, `LogsAgree`, is about any log); in `MCFront` events, viewers and archives are the finite sets the run enumerates (the
lemmas are about every event, every viewer and every archive that `IsArchive` admits); in `MCGoods`, `MCWaiting` and
`MCEnrol` nothing a theorem depends on.

The invariants themselves (`Inv`, with its parts and a comment on each) stand at the end of the component's
module, so that a run can check them before anything is proved; each was. The proof that a step preserves
one has a step for each action; lemmas like `Others`, `OthersKeep` and `OthersStand` say once what a step of one
request does to what another has judged.

**Data_proofs.** *Sums*: a fold over a finite set is a function defined by recursion on its subsets.
`Total(f, S)` is the one it chooses; that there is exactly one (`SumsExist`, `SumsUnique`), that any member may be taken first
(`TotalTake`), that a sum splits, counts fibre by fibre (`TotalFibres`) and moves along a bijection (`TotalOnto`) is shown by a smallest
counterexample, since the library's induction takes an operator. *Orders*: what is in order for a strict total relation exists and lists
every member once (`ListExists`, `ListsAll`). *Prices*: `EnginesAlwaysAgree`: for every valid curve and every number of
solves, the Go and the SQL price are equal. Past the knee the one returns early
and the other clamps; the argument is that the clamped quotient is then exactly
the whole range. `PriceNeverRises`: more solves never mean a higher price. Both rest
on small lemmas about integer division. `RecalcIsNatural` is what the ledger and the board take from here for
their types.

**Submit_proofs.** `TypeCorrect`, then `Inv`. `AttemptCap` alone
is not inductive: it needs that whoever is past the count still has the
attempt to spend (`AttemptReserved`), which needs that nobody else of that
account is past the count at once (`LocksHeld`). In the same way
`OneSolvePerAccount` needs `SolveReserved`, and `DeletedHasNoHistory` needs
`LockedIsVisible`: a locked challenge stays visible, and one a row is being written
for stays. From `Inv` follow `AttemptCapHolds`, `OneSolveHolds`, `DeletedHolds` and the
action properties `SolvesLandOnVisibleHolds` and `LedgerAppendOnlyHolds`.
`KeptHolds` is the heart of the rest: whatever a transaction has decided (the prerequisites it was let in by, the attempt
that is left, the price it stamps, first blood, the new price) is still so when it commits, the last two as
long as nobody is moderated. `OutboxHolds` counts what was enqueued against what was committed;
`FirstBloodHolds` needs in addition that the least eligible position of a sequence that only grows stays
the least; and `Refinement` is the refinement proof: `KeptHolds` says that at a commit the serial operation of `Ledger`
is enabled and writes the same entry, every other step maps to a stutter.

**Goods_proofs.** *Hints*: the account row is held from the
ownership check to the commit (`SpendLocked`), hence what was found under it stays
true: the price is affordable while nobody is docked (`Affordable`), the hint is
not owned (`NotOwnedYet`), the gate read *before* the lock still holds
(`GateKept`, because unlocks are never taken back), and rows belong to requests that
committed (`ByCommitted`). All of it is `HintInvHolds`; hence `NeverOverdrawnHolds`, `OneChargeHolds`, `NeedsFirstHolds`
and `UnlocksExistHolds`. `PurseRefinement`: a commit is one purchase of `Purse`, at the price that
was shown when the request began (`Quoted`); that the account could pay it just then is `Affordable`. *Files*: a row about to be written has its object, or its address is excused (`Backed`); a sweep's address had no row
when its own went (`Unnamed`); an archive holds the objects of its rows (`Whole`). Hence
`OnlyOverlapLosesBytesHolds`.

**Waiting_proofs.** *Settings*: `TypeCorrect`; `ListenerCurrentHolds` by `Rounds` (where a listener is
in its re-read, and what its problems then describe) and `Told` (whenever it
serves or has read an old version on a live subscription, a signal is waiting
or a read is still to come), for any number of versions, faults and processes;
`ProblemsDescribeHolds`; `OnlyOverlapBreaksHolds`, by `JudgedInv`: a pending write was accepted
against the version in its `base`. *Instances*: whoever picks holds the pool's lock until it has committed (`LockHeld`), so that its pick
stays free and its account without one (`PickStands`), although a replaced pool can come in between. Hence `ShownOwnHolds` and
`InstanceIssuedOnce`. *Tasks*: a job is fetched once (`OneAttempt`), and what an
export has taken so far refers to nothing outside it (`SoundSoFar`), because all of it comes from one snapshot; an upload in the store has an operation that
answers for it (`UploadHasOwner`). Hence `StoreKeptHolds`.

**Enrol_proofs.** *Teams*: `TeamSizeCap` needs that what `Enroll` counted still holds at the
commit (`Admitted`); `SeatFilled` that the team one joins has a captain unless one is about to
be it (`Seated`); `NoGhostTeam` that a team being disbanded has no solve, committed or in flight
(`Unstamped`), that a solve's team stays (`Stamped`), and that a founded team is new
(`Founding`). All rest on one fact: whoever is about to change who is on which team
holds the lock `registration` (`Locked`). *Mailed codes*: a code that is being spent is unspent and in one
request's hands (`Unspent`), and whoever is about to commit holds the user's row (`RowHeld`): hence
`NobodyStrandedHolds` and `FlipSpendsItsCodeHolds`.

**Operators_proofs.** *Roster*: one request decides at a time (`OneDecides`),
each label belongs to the operations that reach it (`LockedAsks`), and what
was counted still survives the write (`DecisionHolds`): everything that runs without the lock
can only add usable admins. This is where `StaffDoNotJoin` is needed: `JoinTeam` takes no roster lock, so a usable admin who may
join a team as it is banned can be the last one, and `SomeAdminRemains` is false without the assumption. *Profiles*: beside whom nothing was
committed, what they loaded is what there is (`Current`). *Console*: a transaction that nothing was committed beside writes in
the state it judged, and so does a submission (`Undisturbed`, `Brought`); the held row exists
(`Held`). From these follow the three `OnlyOverlap...` and `CycleIsAnnouncedHolds`. The first three are about
challenges and flags, the last about the graph that `CommitNeeds` re-reads after its own write. *Reports*: by what an account's report groups a
submission, the list of pairs groups it too (`SharingAgrees`), because nobody is accused by a flag of their own; at one address there
are as many groups as accounts (`GroupsAreAccounts`), so the list and its total count the same; neither list has a tie
(`PairsInOrder`: groups are disjoint, so their last submissions differ; `ClustersInOrder`: an address has one row), so each has one order, and its pages put
together are the list (`Leafing`, by uniqueness of the recursion and a least page that differs). `ReportsAgreeHolds`.

**Front_proofs.** In the order of the file.

- *Sessions*: a hash is nowhere to be found before the request that draws its salt has written it
  (`DrawnOnce`), so no row can match a password still to come: `EndedForGood`. A transaction holds the row from its update
  (`RowHeld`), so the tokens left after its sweep were inserted beside it (`Swept`): `TokensAreSwept`.
- *Policy*: no induction but a case analysis, gate by gate, over every event and every viewer instead of those two
  changes away from the ordinary: `RedirectsLandHolds`, `WithheldHolds`.
- *Streams*: nobody is connected while the pump is down (`SteadyMeansUp`), and to a connected client every row committed since is handed over or on the wire (`Owed`); a
  catch-up and a replay list rows in id order up to a limit, hence lemmas about the greatest of them. `SteadyHolds`.
- *Imports*: `Translate` is taken apart stage by stage (`PlanHolds`), and so is what `Load` lets through (`LoadHolds`). A solve's stamp is
  what the source showed of it (`StampedWorth`), solves are carried one to one (`StampedApart`), so an account's sum is the same
  (`ScoresKept`); ids being keys, the solves are as many as the right answers (`EachAnswerSolved`). Here the keys were needed: without them two
  submissions of one id and one solve satisfy every other check, and `Keyed` entered the model. `ImportIsSoundHolds`.
- *Budgets*: a request has spent each budget it came to once (`InTurn`), and each counter is short of its spenders by at most the refunds that strayed into its
  window. A bump is let through while the counter is below the limit, so those let through are too: `BudgetsAreKept`.

**Board_proofs.** `OnePriceHolds` puts the quoted prices side by side with the stored one and cites
`EnginesAlwaysAgree`. `PastStandsHolds` shows that a commit adds or changes only what is dated at or after its transaction's
beginning, and that every query as of an instant reads the earlier rows only. `WalkHolds` is the paged
list: the order is a strict one (`OlderIsOrder`), so a page is a prefix of what is left (`PageIsPrefix`) and a short page
the last (`ShortPageIsLast`); then what was shown lies before the cursor and what is owed behind it (`Paging`).

`ReadsHold` compares a dozen queries in one state. It needs `Booked`, an invariant of its own (`BookedHolds`): each row is of its user's team, so a
team's rows are its members'; each solve has the solves it required beside it, so a page that quotes a solve is open to its owner; every transaction in flight has a
place left, so a list of `MaxRows` solvers is all of them. Then: a query's sum over solves plus its sum over awards is one sum over events (`ScoreSum`, `PageSum`),
which a team's members share out (`MembersSum`); the Go board, which tallies event by event in whatever order they come, holds the same sums and last dates
(`TallyStep`, `AggregateIs`); the ranking and the curve leave no tie (`RankOrder`, `CurveOrder`), so each is the one list there is, and a curve ends at its account's
score (`CurveEnd`); counts, lists and the number of solvers select the same rows (`CountAgrees`).

**Model-checked only.** Liveness under fairness is out of the proof system's reach, as is ENABLED: `ListenersConverge`, `AcceptedTaskEnds`,
`EveryRequestAnswered` and `WrongNeverWaits` rest on their run. Every other property of the passing runs is stated by a theorem. The six runs
of section 5 are counterexamples and need no proof.

## 7. Not modelled

- *Comparing flags* (`internal/domain/flag`): static and regex comparison, trimming, case, constant
  time. Which flags an answer is judged by is in `Console`; whether it is one of them is an input.
- *River*: delivery, retries, backoff and expiry of jobs. The models have the enqueue, which is a row of
  the caller's transaction, and for operator tasks the worker. What a webhook or a mail does with a retry
  is at-least-once by design.
- *Mail and egress* (`internal/mail`, `internal/egress`): network I/O and an address filter.
- *Archives and CSV*: encoding, manifests and checksums of a backup; the CSV tables; of a foreign archive the tables
  that nothing scores by.
- *Migrations*: an external library under one advisory lock. The schema it leaves is what the constraints
  and triggers of the models are read from.
- *Health and metrics*: probes and counters. The one verdict behind a protocol, whether a listener
  is up, is a variable of `Config`.
- *Audit triggers*: they copy rows that nothing reads back to decide.
- *Generated code* (`internal/db/*.gen.go`, `internal/httpapi` decoding and rendering): the queries are what
  is translated, and a request is an action of the service it calls.
- *Process assembly, command line, web client, static pages*: wiring and presentation.
- *Statistics pages*: sums over the same ledger; tags, topics, solutions and ordering of challenges, which no rule reads.
- *Join secrets*, the cap on the number of teams, and the columns of a profile that are edited alone in one row.
- *Expiry* of sessions and tokens, a comparison with the clock in a WHERE clause.
- *The S3 client* behind `internal/storage` is external; it is modelled by the calls `internal/files` makes of it.
- *Repairs of settings that do not parse*: every value the model writes parses.

## 8. Plan

The modules were written in the order of section 3, the ledger first. Left, in order:

1. A member who leaves while a solve for the team is uncommitted: `TeamRoster` with the
   commit steps of `Submit`.
2. The curve of a challenge edited while solves reprice it, in `Submit`.
3. Views of the instance pool answered in the end, under strong fairness of the advisory lock;
   two uploads of a pool that overlap, in the run.
