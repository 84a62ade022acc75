------------------------------- MODULE Board -------------------------------
(***************************************************************************)
(* What the public is shown of the game: the standings and their time      *)
(* travel, an account's score curve, a user's page, the challenge board    *)
(* and a challenge's page, and the paged list of who solved it.            *)
(*                                                                         *)
(* All of it is read from the ledger: solves and awards, each dated by the *)
(* START of its transaction (the columns default to now()) and visible     *)
(* from its COMMIT, which may come later and in another order.  A viewer   *)
(* the freeze applies to is shown what is dated before the horizon.        *)
(*                                                                         *)
(* A transaction is a member of `open`.  How a submission arrives at its   *)
(* commit is the module Submit; here it reads the price, writes the solve  *)
(* and reprices in one step, as it does under the challenge's row lock.    *)
(***************************************************************************)
EXTENDS Decay, Ordering, SequencesExt, FiniteSetsExt

CONSTANTS
  Users,        \* ids, positive integers
  TeamOf,       \* the team of each user: an id of its own number space
  Challenges,   \* ids of the challenges
  Curve,        \* their scoring, of Decay
  Requires,     \* their prerequisites
  Anonymize,    \* what is shown of one whose prerequisites are unmet
  FreezeAt,     \* the configured horizon
  MaxTime,      \* the last instant modelled
  Charges,      \* <<user, value>> of the awards the game itself may write
  Grants,       \* <<account, value>> of those an operator may grant
  Moderated,    \* the <<kind, id>> an operator may hide: scoring accounts, challenges
  PageLimit,    \* rows of a page of solves
  MaxOpen,      \* transactions open at once
  MaxRows       \* rows committed or open

(* What is taken of the constants: who instantiates this assumes it.         *)
BoardAssumption ==
  /\ Users \subseteq Nat \ {0} /\ IsFiniteSet(Users)
  /\ \A u \in Users : TeamOf[u] \in Nat \ {0}
  /\ \A c \in Challenges : Curve[c] \in Curves /\ Requires[c] \subseteq Challenges
  /\ \A c \in Challenges : Anonymize[c] \in {"hidden", "masked", "preview"}
  /\ \A g \in Grants : g[1] \in Users /\ g[1] \in {TeamOf[u] : u \in Users} /\ g[2] \in Int
  /\ \A p \in Charges : p[1] \in Users /\ p[2] \in Int
  /\ FreezeAt \in Nat /\ MaxTime \in Nat \ {0} /\ PageLimit \in Nat \ {0} /\ MaxRows \in Nat

VARIABLES
  mode,     \* instance.user_mode, immutable since setup
  now,      \* the database's clock
  open,     \* transactions that have begun and not ended
  solves,   \* the committed solves; a solve's id is its place here
  awards,   \* the committed awards
  price,    \* challenges.value
  shut,     \* the challenges that are not visible
  unseen,   \* the <<kind, id>> hidden or banned
  walk      \* a client paging through a list of solves

vars == <<mode, now, open, solves, awards, price, shut, unseen, walk>>

(* No horizon: later than any date, and any horizon, there is.             *)
Live == MaxTime + 2
Horizons == {FreezeAt, Live}

-----------------------------------------------------------------------------
(* The ledger, by account *)

Owner(kind, row) == IF kind = "teams" THEN row.team ELSE row.user
Captain(t) == Min({u \in Users : TeamOf[u] = t})

Teams == {TeamOf[u] : u \in Users}
Accounts == IF mode = "teams" THEN Teams ELSE Users
AccountOf(row) == Owner(mode, row)
Account(u) == IF mode = "teams" THEN TeamOf[u] ELSE u
Shown(a) == <<mode, a>> \notin unseen

Before(rows, cutoff) == {i \in DOMAIN rows : rows[i].date < cutoff}

Solved(a, c) == \E i \in DOMAIN solves : AccountOf(solves[i]) = a /\ solves[i].chal = c
PrereqsMet(a, c) == \A p \in Requires[c] : Solved(a, p)

(* Slip: a hidden account's solve counts.                                  *)
CountEveryone(c, cutoff) == Cardinality({i \in Before(solves, cutoff) : solves[i].chal = c})

(* Solvers who count: neither hidden nor banned, dated before the horizon. *)
Count(c, cutoff) ==
  Cardinality({i \in Before(solves, cutoff) : solves[i].chal = c /\ Shown(AccountOf(solves[i]))})

-----------------------------------------------------------------------------
(* Standings *)

(* The scoring events of a horizon: one leg of the UNION ALL, and both.    *)
EventsOf(rows, leg, cutoff, kind) ==
  {[leg |-> leg, id |-> i, account |-> Owner(kind, rows[i]), value |-> rows[i].value,
    date |-> rows[i].date] : i \in {j \in Before(rows, cutoff) : rows[j].value # 0}}
Scoring(cutoff, kind) == EventsOf(solves, 1, cutoff, kind) \cup EventsOf(awards, 2, cutoff, kind)

SumOf(events) == MapThenSumSet(LAMBDA e : e.value, events)
LastDate(events) == Max({e.date : e \in events})

(* ORDER BY score DESC, last_event ASC, account_id ASC.                    *)
Less(x, y) ==
  \/ x.score > y.score
  \/ x.score = y.score /\ x.last < y.last
  \/ x.score = y.score /\ x.last = y.last /\ x.account < y.account

Ranked(entries) == InOrder(entries, Less)

(* An account without a scoring event has no row, not a row of nought.     *)
Standings(events, kind, ids, admin) ==
  LET Of(a) == {e \in events : e.account = a}
      Listed(a) == Of(a) # {} /\ (admin \/ <<kind, a>> \notin unseen)
  IN Ranked({[account |-> a, score |-> SumOf(Of(a)), last |-> LastDate(Of(a))] :
               a \in {b \in ids : Listed(b)}})

UserStandings(cutoff, admin) == Standings(Scoring(cutoff, "users"), "users", Users, admin)
TeamStandings(cutoff, admin) == Standings(Scoring(cutoff, "teams"), "teams", Teams, admin)
StandingsAsOf(asOf, admin) == Standings(Scoring(asOf, mode), mode, Accounts, admin)

StandingsIn(kind, cutoff, admin) ==
  IF kind = "teams" THEN TeamStandings(cutoff, admin) ELSE UserStandings(cutoff, admin)
Top(admin) == StandingsIn(mode, Live, admin)

(* The board as the handler asks for it: as of an instant, which a viewer  *)
(* the freeze applies to cannot move past its horizon, or (0) as it is, to *)
(* that viewer as it was at the freeze.                                    *)
ScoreboardRequest(exempt, asOf, admin) ==
  CASE asOf # 0 -> StandingsAsOf(IF exempt THEN asOf ELSE Min({asOf, FreezeAt}), admin)
    [] asOf = 0 /\ ~exempt -> StandingsAsOf(FreezeAt, admin)
    [] OTHER -> Top(admin)

(* The same rules in Go, over whatever events the SQL admitted.            *)
Counts(e) == e.value # 0
Add(byAccount, e) ==
  LET old == IF e.account \in DOMAIN byAccount THEN byAccount[e.account]
             ELSE [account |-> e.account, score |-> 0, last |-> 0]
      new == [old EXCEPT !.score = @ + e.value, !.last = IF e.date > @ THEN e.date ELSE @]
  IN IF ~Counts(e) THEN byAccount
     ELSE [a \in DOMAIN byAccount \cup {e.account} |-> IF a = e.account THEN new ELSE byAccount[a]]
Aggregate(events) ==
  LET read[k \in 0..Len(events)] == IF k = 0 THEN [a \in {} |-> 0] ELSE Add(read[k - 1], events[k])
      all == read[Len(events)]
  IN {all[a] : a \in DOMAIN all}
GoBoard(events) == Ranked(Aggregate(events))

-----------------------------------------------------------------------------
(* One account over time *)

Earlier(x, y) ==
  \/ x.date < y.date
  \/ x.date = y.date /\ x.value < y.value
  \/ x.date = y.date /\ x.value = y.value /\ x.leg < y.leg
  \/ x.date = y.date /\ x.value = y.value /\ x.leg = y.leg /\ x.id < y.id

(* sum(value) OVER (ORDER BY date, value): peers, the rows of one date and  *)
(* one value, share the total that includes them all.                      *)
Curved(events) ==
  LET UpTo(e) == {x \in events : x.date < e.date \/ (x.date = e.date /\ x.value <= e.value)}
      inOrder == InOrder(events, Earlier)
  IN [i \in DOMAIN inOrder |-> [date |-> inOrder[i].date, delta |-> inOrder[i].value,
                                score |-> SumOf(UpTo(inOrder[i]))]]

(* A hidden or banned subject reads as empty, as one that does not exist.  *)
ScoreHistory(a, cutoff, admin) ==
  Curved({e \in Scoring(cutoff, mode) : e.account = a /\ (admin \/ Shown(a))})

(* A user's page: their own rows whatever the mode, for in teams mode a    *)
(* user's id is not a team's. The list is newest first and leaves out what *)
(* is not visible; the total does not.                                     *)
NotFound == "not found"
Newer(x, y) == x.date > y.date \/ (x.date = y.date /\ x.id > y.id)
NewestFirst(entries) == InOrder(entries, Newer)
UserProfile(u, cutoff, admin) ==
  LET Own(rows) == {i \in Before(rows, cutoff) : rows[i].user = u}
      Total(rows) == SumOf({[id |-> i, value |-> rows[i].value] : i \in Own(rows)})
  IN IF ~admin /\ <<"users", u>> \in unseen THEN NotFound
     ELSE [score   |-> Total(solves) + Total(awards),
           solves  |-> NewestFirst({[id |-> i, date |-> solves[i].date] :
                                      i \in {j \in Own(solves) : solves[j].chal \notin shut}}),
           history |-> Curved({e \in Scoring(cutoff, "users") : e.account = u})]

-----------------------------------------------------------------------------
(* Challenges *)

(* Slip: whoever asks is quoted the stored price.                          *)
QuoteStored(c, cutoff) == price[c]

(* The price quoted: the stored one, and to a viewer with a horizon that of *)
(* the count within it, for the count can be read back from the price.     *)
Quote(c, cutoff) ==
  IF cutoff = Live \/ ~Decays(Curve[c].function) THEN price[c]
  ELSE RecalcValue(Curve[c], Count(c, cutoff))

View(u, c, cutoff) ==
  LET met == PrereqsMet(Account(u), c)
  IN [value |-> Quote(c, cutoff), count |-> Count(c, cutoff), solved |-> Solved(Account(u), c),
      locked |-> ~met, named |-> met \/ Anonymize[c] # "masked"]

Listed(u, c) == c \notin shut /\ (PrereqsMet(Account(u), c) \/ Anonymize[c] # "hidden")
Listing(u, cutoff) == [c \in {d \in Challenges : Listed(u, d)} |-> View(u, c, cutoff)]

(* Detail: what is locked is a stub that nothing can be solved from.       *)
Detail(u, c, cutoff) == IF Listed(u, c) THEN View(u, c, cutoff) ELSE NotFound

(* A page of who solved it, and where the next one resumes. Keyset: the    *)
(* oldest after the date and id of the last row. A challenge that is not   *)
(* visible has no row, one with no solve left has one of nulls (0).        *)
Older(i, j) == solves[i].date < solves[j].date \/ (solves[i].date = solves[j].date /\ i < j)
After(cursor, i) == cursor = 0 \/ Older(cursor, i)
Matching(c, cutoff, cursor) == {i \in Before(solves, cutoff) : solves[i].chal = c /\ After(cursor, i)}
Oldest(rows, limit) == {i \in rows : Cardinality({j \in rows : Older(j, i)}) < limit}
SolveRows(c, cutoff, cursor, limit) ==
  LET matching == Matching(c, cutoff, cursor)
  IN IF c \in shut THEN {} ELSE IF matching = {} THEN {0} ELSE Oldest(matching, limit)

ShownRows(rows) == {i \in rows : i # 0 /\ Shown(AccountOf(solves[i]))}

LastOf(rows) == CHOOSE i \in rows : \A j \in rows : ~Older(i, j)

(* Slip: the cursor is the last row shown, not the last row read.          *)
NextCursorOfShown(rows) ==
  IF Cardinality(rows) = PageLimit /\ ShownRows(rows) # {} THEN LastOf(ShownRows(rows)) ELSE 0
NextCursor(rows) == IF Cardinality(rows) = PageLimit /\ rows # {0} THEN LastOf(rows) ELSE 0

-----------------------------------------------------------------------------
(* What moves the game *)

Init ==
  /\ mode \in {"users", "teams"}
  /\ now = 1 /\ open = {} /\ solves = <<>> /\ awards = <<>>
  /\ price = [c \in Challenges |-> Curve[c].initial]
  /\ shut = {} /\ unseen = {}
  /\ walk = [at |-> "nowhere"]

Room == Cardinality(open) < MaxOpen /\ Len(solves) + Len(awards) + Cardinality(open) < MaxRows

Tick == now < MaxTime /\ now' = now + 1 /\ UNCHANGED <<mode, open, solves, awards, price, shut, unseen, walk>>

Starts(row) ==
  /\ Room /\ open' = open \cup {row}
  /\ UNCHANGED <<mode, now, solves, awards, price, shut, unseen, walk>>

(* A submission, and what the game writes itself: the price of a hint, the *)
(* bonus of a first blood. Every row names its user and the user's team.   *)
Submit(u, c) ==
  Starts([of |-> "solve", user |-> u, team |-> TeamOf[u], chal |-> c, value |-> 0, date |-> now])
Charge(u, v) ==
  Starts([of |-> "game", user |-> u, team |-> TeamOf[u], chal |-> 0, value |-> v, date |-> now])

(* A manual award, to the scoring account: a team's hangs on its captain.  *)
GrantUserAward(u, v) ==
  /\ mode = "users"
  /\ Starts([of |-> "grant", user |-> u, team |-> TeamOf[u], chal |-> 0, value |-> v, date |-> now])
GrantTeamAward(t, v) ==
  /\ mode = "teams"
  /\ Starts([of |-> "grant", user |-> Captain(t), team |-> t, chal |-> 0, value |-> v, date |-> now])

(* Slip: every solver counts, a hidden one too.                            *)
EligibleAnyone(c) == Cardinality({i \in DOMAIN solves : solves[i].chal = c})

(* RecalcChallengeValue, after the solve: the solvers who count.           *)
Eligible(c) ==
  Cardinality({i \in DOMAIN solves : solves[i].chal = c /\ Shown(AccountOf(solves[i]))})
Reprice(c) ==
  price' = IF Decays(Curve[c].function) THEN [price EXCEPT ![c] = RecalcValue(Curve[c], Eligible(c)')]
                                        ELSE price

CommitSolve(t) ==
  /\ t.of = "solve" /\ t.chal \notin shut
  /\ ~Solved(AccountOf(t), t.chal) /\ PrereqsMet(AccountOf(t), t.chal)
  /\ solves' = Append(solves, [user |-> t.user, team |-> t.team, chal |-> t.chal,
                              value |-> price[t.chal], date |-> t.date])
  /\ UNCHANGED <<mode, now, awards, shut, unseen, walk>>
  /\ Reprice(t.chal)
CommitAward(t) ==
  /\ t.of # "solve"
  /\ awards' = Append(awards, [user |-> t.user, team |-> t.team, value |-> t.value,
                              date |-> t.date, manual |-> t.of = "grant"])
  /\ UNCHANGED <<mode, now, solves, price, shut, unseen, walk>>
Abort(t) == UNCHANGED <<mode, now, solves, awards, price, shut, unseen, walk>>
End(t) == open' = open \ {t} /\ (CommitSolve(t) \/ CommitAward(t) \/ Abort(t))

(* A revoke deletes the row, and only a manual one.                        *)
RevokeManualAward(i) ==
  /\ awards[i].manual /\ awards' = RemoveAt(awards, i)
  /\ UNCHANGED <<mode, now, open, solves, price, shut, unseen, walk>>

(* Hiding, banning and back; the price stays as the last solve left it.    *)
(* A reader is no longer owed the solves of whoever was hidden meanwhile.  *)
Toggled(set, x) == IF x \in set THEN set \ {x} ELSE set \cup {x}
Moderate(m) ==
  /\ m[1] = mode /\ unseen' = Toggled(unseen, m)
  /\ walk' = IF walk.at # "page" THEN walk
             ELSE [walk EXCEPT !.owed = {i \in @ : <<mode, AccountOf(solves[i])>> \notin unseen'}]
  /\ UNCHANGED <<mode, now, open, solves, awards, price, shut>>

SetState(c) ==
  /\ <<"challenges", c>> \in Moderated
  /\ shut' = Toggled(shut, c)
  /\ UNCHANGED <<mode, now, open, solves, awards, price, unseen, walk>>

(* A client that pages through the solvers of a challenge to the end. Owed *)
(* is what it would have seen in one look when it began.                   *)
OpenList(c, cutoff) ==
  /\ walk.at = "nowhere" /\ c \notin shut
  /\ walk' = [at |-> "page", chal |-> c, cutoff |-> cutoff, cursor |-> 0, seen |-> {}, twice |-> FALSE,
              owed |-> {i \in Before(solves, cutoff) : solves[i].chal = c /\ Shown(AccountOf(solves[i]))}]
  /\ UNCHANGED <<mode, now, open, solves, awards, price, shut, unseen>>
ReadPage ==
  /\ walk.at = "page"
  /\ LET rows == SolveRows(walk.chal, walk.cutoff, walk.cursor, PageLimit)
         shown == ShownRows(rows)
     IN walk' = IF rows = {} THEN [at |-> "refused"]
                ELSE [walk EXCEPT !.cursor = NextCursor(rows),
                                  !.at = IF NextCursor(rows) = 0 THEN "end" ELSE "page",
                                  !.seen = @ \cup shown,
                                  !.twice = @ \/ walk.seen \cap shown # {}]
  /\ UNCHANGED <<mode, now, open, solves, awards, price, shut, unseen>>

Next ==
  \/ Tick
  \/ \E u \in Users, c \in Challenges : Submit(u, c)
  \/ \E p \in Charges : Charge(p[1], p[2])
  \/ \E p \in Grants : GrantUserAward(p[1], p[2])
  \/ \E p \in Grants : GrantTeamAward(p[1], p[2])
  \/ \E t \in open : End(t)
  \/ \E i \in DOMAIN awards : RevokeManualAward(i)
  \/ \E m \in Moderated : Moderate(m)
  \/ \E c \in Challenges : SetState(c)
  \/ \E c \in Challenges, k \in Horizons : OpenList(c, k)
  \/ ReadPage

Spec == Init /\ [][Next]_vars

-----------------------------------------------------------------------------
(* The rows, each dated at the latest now.                                 *)
Dates == 1..now
Solves == [user : Users, team : Teams, chal : Challenges, value : Int, date : Dates]
Awards == [user : Users, team : Teams, value : Int, date : Dates, manual : BOOLEAN]
Transactions == [of : {"solve"}, user : Users, team : Teams, chal : Challenges, value : Int, date : Dates]
           \cup [of : {"game", "grant"}, user : Users, team : Teams, chal : {0}, value : Int, date : Dates]

(* What a walk has read lies before its cursor, and what it is owed and    *)
(* has not seen lies behind it.                                            *)
Paging ==
  /\ walk \in [at : {"page"}, chal : Challenges, cutoff : Horizons, cursor : {0} \cup DOMAIN solves,
               seen : SUBSET DOMAIN solves, twice : {FALSE}, owed : SUBSET DOMAIN solves]
  /\ walk.cursor = 0 => walk.seen = {}
  /\ \A i \in walk.seen : ~Older(walk.cursor, i)
  /\ \A i \in walk.owed : /\ solves[i].chal = walk.chal
                         /\ solves[i].date < walk.cutoff
                         /\ Shown(AccountOf(solves[i]))
                         /\ (i \in walk.seen \/ After(walk.cursor, i))

TypeOK ==
  /\ mode \in {"users", "teams"} /\ now \in 1..MaxTime
  /\ solves \in Seq(Solves) /\ awards \in Seq(Awards) /\ open \subseteq Transactions
  /\ price \in [Challenges -> Int] /\ shut \subseteq Challenges /\ unseen \subseteq Moderated

Inv ==
  /\ walk.at \in {"nowhere", "page", "end", "refused"}
  /\ walk.at = "page" => Paging
  /\ walk.at = "end" => ~walk.twice /\ walk.owed \subseteq walk.seen

(* Each row is of its user's team, a solve came after those it requires,   *)
(* and there is a place for every transaction in flight.                   *)
Booked ==
  /\ \A i \in DOMAIN solves : /\ solves[i].team = TeamOf[solves[i].user]
                             /\ PrereqsMet(AccountOf(solves[i]), solves[i].chal)
  /\ \A i \in DOMAIN awards : awards[i].team = TeamOf[awards[i].user]
  /\ \A t \in open : t.team = TeamOf[t.user]
  /\ IsFiniteSet(open) /\ Len(solves) + Len(awards) + Cardinality(open) <= MaxRows

(* Everything a viewer with horizon h is served that is not their own.     *)
Published(h) ==
  [board    |-> ScoreboardRequest(FALSE, IF h = FreezeAt THEN 0 ELSE h, FALSE),
   accounts |-> [a \in Accounts |-> ScoreHistory(a, h, FALSE)],
   users    |-> [u \in Users |-> UserProfile(u, h, FALSE)],
   quotes   |-> [c \in Challenges |-> <<Quote(c, h), Count(c, h)>>],
   solvers  |-> [c \in Challenges |-> ShownRows(SolveRows(c, h, 0, MaxRows))]]

(* The past stands: once the clock has passed a horizon and no transaction *)
(* begun before it is still open, no commit changes what is served as of   *)
(* it, whoever plays and however prices decay: only an operator who hides, *)
(* bans, closes or takes an award back does (scoreboard.sql: "stamped      *)
(* solve values make the scoreboard append-only"; catalog.sql on why even  *)
(* the price is quoted at the frozen count).                               *)
PastStandsStep ==
  \A h \in 1..FreezeAt :
    (/\ h <= now /\ \A t \in open : t.date >= h
     /\ Len(solves') > Len(solves) \/ Len(awards') > Len(awards))
    => Published(h)' = Published(h)

(* The reads agree, in either mode, at every horizon, whoever asks: the    *)
(* three standings queries with each other and with the Go board; the end  *)
(* of an account's curve with its row, and no curve for whom has no row; a *)
(* user's total with the end of their own curve, and a team's with its     *)
(* members'; a challenge's count with the solvers listed; and whoever      *)
(* solved an open challenge finds it unlocked, in the list and by itself.  *)
EndOf(curve) == IF curve = <<>> THEN [date |-> 0, score |-> 0]
                ELSE [date |-> Last(curve).date, score |-> Last(curve).score]
ReadsAgree ==
  \A k \in Horizons, admin \in BOOLEAN :
    LET board == StandingsIn(mode, k, admin)
        rows == Range(board)
        Row(a) == {r \in rows : r.account = a}
        events == {e \in Scoring(k, mode) : admin \/ Shown(e.account)}
        Page(u) == UserProfile(u, k, TRUE)
    IN /\ board = StandingsAsOf(k, admin) /\ board = GoBoard(SetToSeq(events))
       /\ k = Live => board = ScoreboardRequest(TRUE, 0, admin)
       /\ \A a \in Accounts :
            LET curve == ScoreHistory(a, k, admin) IN
            Row(a) = IF curve = <<>> THEN {}
                     ELSE {[account |-> a, score |-> EndOf(curve).score, last |-> EndOf(curve).date]}
       /\ \A u \in Users : Page(u).score = EndOf(Page(u).history).score
       /\ mode = "teams" /\ admin =>
            \A r \in rows : r.score = MapThenSumSet(LAMBDA u : Page(u).score,
                                                   {u \in Users : TeamOf[u] = r.account})
       /\ \A c \in Challenges \ shut :
            Count(c, k) = Cardinality(ShownRows(SolveRows(c, k, 0, MaxRows)))
       /\ \A u \in Users : \A c \in Challenges \ shut :
            Solved(Account(u), c) => /\ c \in DOMAIN Listing(u, k) /\ ~Listing(u, k)[c].locked
                                     /\ Detail(u, c, k) = Listing(u, k)[c]

(* A walk through the pages misses nobody it was owed and names nobody     *)
(* twice, though solves land between pages, begun before those read, and   *)
(* solvers are hidden (catalog.go Solves: the last row read, not shown).   *)
WalkMissesNothing ==
  /\ walk.at \in {"page", "end"} => ~walk.twice
  /\ walk.at = "end" => walk.owed \subseteq walk.seen

(* A solve leaves one price: the one stored, the one the Go curve computes *)
(* from the count on the board, and the one quoted to a viewer whose       *)
(* horizon is past it (RecalcChallengeValue, ValueAt, ListChallenges).     *)
PricedAlike ==
  LET c == Last(solves).chal IN
  /\ price[c] = Quote(c, MaxTime + 1)
  /\ Decays(Curve[c].function) => price[c] = ValueAt(Curve[c], Count(c, Live))
OnePriceStep == Len(solves') > Len(solves) => PricedAlike'
=============================================================================
