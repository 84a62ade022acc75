---------------------------- MODULE Board_proofs ----------------------------
(***************************************************************************)
(* Theorems about what is shown of the game, for any number of players,    *)
(* teams, challenges, awards and rows, any curves, any horizon and any     *)
(* page size.                                                              *)
(***************************************************************************)
EXTENDS MCFront, Data_proofs

-----------------------------------------------------------------------------
(* The board, for any number of players, challenges, awards and rows. *)

LEMMA BoardConstants ==
  /\ Players \subseteq Nat \ {0} /\ FreezeAt \in Nat /\ MaxTime \in Nat \ {0} /\ PageLimit \in Nat \ {0}
  /\ \A c \in Challenges : Curve[c] \in B!Curves
BY FrontConstants DEF B!BoardAssumption

LEMMA CaptainIsMember ==
  ASSUME NEW t \in B!Teams
  PROVE  B!Captain(t) \in Players /\ TeamOf[B!Captain(t)] = t
<1> DEFINE members == {u \in Players : TeamOf[u] = t}
<1>1. members # {} /\ members \subseteq Nat
  BY BoardConstants DEF B!Teams
<1>2. \E m \in members : \A x \in members : m <= x
  BY <1>1, LeastOf
<1>3. B!Min(members) \in members
  BY <1>2 DEF B!Min
<1>4. B!Captain(t) = B!Min(members)
  BY DEF B!Captain
<1> QED BY <1>3, <1>4

LEMMA BoardStarts == B!Init => B!TypeOK /\ B!Inv
<1> SUFFICES ASSUME B!Init PROVE B!TypeOK /\ B!Inv
  OBVIOUS
<1>1. \A c \in Challenges : Curve[c].initial \in Int
  BY BoardConstants DEF B!Curves
<1>2. price \in [Challenges -> Int]
  BY <1>1 DEF B!Init
<1>3. 1 \in 1..MaxTime
  BY BoardConstants
<1>4. solves \in Seq(B!Solves) /\ awards \in Seq(B!Awards)
  BY DEF B!Init
<1>5. B!TypeOK
  BY <1>2, <1>3, <1>4 DEF B!Init, B!TypeOK
<1>6. B!Inv
  BY DEF B!Init, B!Inv
<1> QED BY <1>5, <1>6

LEMMA JoinedSeq == ASSUME NEW S, NEW s \in Seq(S), NEW t \in Seq(S)
                   PROVE  s \o t \in Seq(S) /\ Len(s \o t) = Len(s) + Len(t)
  OBVIOUS

LEMMA LongerSeq == ASSUME NEW S, NEW s \in Seq(S), NEW x \in S
                   PROVE  Append(s, x) \in Seq(S) /\ Len(Append(s, x)) = Len(s) + 1
  OBVIOUS

LEMMA WiderSeq == ASSUME NEW S, NEW T, S \subseteq T, NEW s \in Seq(S)
                  PROVE  s \in Seq(T)
  OBVIOUS

(* Taking a row out of a list leaves a shorter list of the same rows.      *)
LEMMA RemovalShortens ==
  ASSUME NEW S, NEW s \in Seq(S), NEW i \in DOMAIN s
  PROVE  B!RemoveAt(s, i) \in Seq(S) /\ Len(B!RemoveAt(s, i)) = Len(s) - 1
<1> DEFINE a == SubSeq(s, 1, i - 1)
           b == SubSeq(s, i + 1, Len(s))
<1>1. i \in 1..Len(s) /\ Len(s) \in Nat
  OBVIOUS
<1>2. a \in Seq(S) /\ Len(a) = i - 1
  BY <1>1
<1>3. b \in Seq(S) /\ Len(b) = Len(s) - i
  BY <1>1
<1>4. B!RemoveAt(s, i) = a \o b
  BY DEF B!RemoveAt
<1> HIDE DEF a, b
<1>5. a \o b \in Seq(S) /\ Len(a \o b) = Len(a) + Len(b)
  BY <1>2, <1>3, JoinedSeq
<1>6. (i - 1) + (Len(s) - i) = Len(s) - 1
  BY <1>1
<1> QED BY <1>2, <1>3, <1>4, <1>5, <1>6

LEMMA CommitFrame ==
  ASSUME B!TypeOK, NEW t \in open, B!End(t)
  PROVE  /\ UNCHANGED <<mode, now, shut, unseen, walk>>
         /\ open' \subseteq open
         /\ \/ /\ t.of = "solve" /\ t.chal \in Challenges /\ awards' = awards
               /\ \E row \in B!Solves : row.chal = t.chal /\ row.date = t.date /\ solves' = Append(solves, row)
               /\ B!Reprice(t.chal)
            \/ /\ solves' = solves /\ price' = price
               /\ \E row \in B!Awards : row.date = t.date /\ awards' = Append(awards, row)
            \/ solves' = solves /\ awards' = awards /\ price' = price
<1>1. t \in B!Transactions
  BY DEF B!TypeOK
<1>2. CASE B!CommitSolve(t)
  <2> DEFINE row == [user |-> t.user, team |-> t.team, chal |-> t.chal, value |-> price[t.chal], date |-> t.date]
  <2>1. t.of = "solve"
    BY <1>2 DEF B!CommitSolve
  <2>2. t.user \in Players /\ t.team \in B!Teams /\ t.chal \in Challenges /\ t.date \in B!Dates
    BY <1>1, <2>1 DEF B!Transactions
  <2>3. price[t.chal] \in Int
    BY <2>2 DEF B!TypeOK
  <2>4. row \in B!Solves
    BY <2>2, <2>3 DEF B!Solves
  <2>5. row.chal = t.chal /\ row.date = t.date /\ solves' = Append(solves, row)
    BY <1>2 DEF B!CommitSolve
  <2> QED BY <1>2, <2>1, <2>2, <2>4, <2>5 DEF B!CommitSolve, B!End
<1>3. CASE B!CommitAward(t)
  <2> DEFINE row == [user |-> t.user, team |-> t.team, value |-> t.value, date |-> t.date, manual |-> t.of = "grant"]
  <2>1. t.user \in Players /\ t.team \in B!Teams /\ t.value \in Int /\ t.date \in B!Dates
    BY <1>1, <1>3 DEF B!Transactions, B!CommitAward
  <2>2. row \in B!Awards
    BY <2>1 DEF B!Awards
  <2>3. row.date = t.date /\ awards' = Append(awards, row)
    BY <1>3 DEF B!CommitAward
  <2> QED BY <1>3, <2>2, <2>3 DEF B!CommitAward, B!End
<1>4. CASE B!Abort(t)
  BY <1>4 DEF B!Abort, B!End
<1> QED BY <1>2, <1>3, <1>4 DEF B!End

LEMMA CountsAreNumbers ==
  ASSUME NEW T, NEW s \in Seq(T), NEW S, S \subseteq DOMAIN s
  PROVE  B!Cardinality(S) = Cardinality(S) /\ IsFiniteSet(S) /\ Cardinality(S) \in Nat
<1>1. B!Cardinality(S) = Cardinality(S)
  BY DEF B!Cardinality, Cardinality
<1>2. DOMAIN s = 1..Len(s) /\ Len(s) \in Nat
  OBVIOUS
<1>3. IsFiniteSet(1..Len(s))
  BY <1>2, FS_Interval
<1>4. IsFiniteSet(S)
  BY <1>2, <1>3, FS_Subset
<1> QED BY <1>1, <1>4, FS_CardinalityType

LEMMA SameCurves ==
  /\ B!Curves = Curves
  /\ \A f : B!Decays(f) = Decays(f)
  /\ \A c, k : B!RecalcValue(c, k) = RecalcValue(c, k) /\ B!ValueAt(c, k) = ValueAt(c, k)
<1>1. B!Curves = Curves
  BY DEF B!Curves, Curves, B!Validate, Validate, B!Decays, Decays, B!DecayFunctions, DecayFunctions
<1>2. \A f : B!Decays(f) = Decays(f)
  BY DEF B!Decays, Decays
<1>3. \A c, k : B!RecalcValue(c, k) = RecalcValue(c, k)
  BY DEF B!RecalcValue, RecalcValue, B!BeyondFirst, BeyondFirst, B!AtLeast, AtLeast, B!AtMost, AtMost
<1>4. \A c, k : B!ValueAt(c, k) = ValueAt(c, k)
  BY DEF B!ValueAt, ValueAt, B!BeyondFirst, BeyondFirst, B!AtLeast, AtLeast
<1> QED BY <1>1, <1>2, <1>3, <1>4

LEMMA RepriceType ==
  ASSUME B!TypeOK, solves' \in Seq(B!Solves'), NEW c \in Challenges, B!Reprice(c)
  PROVE  /\ price' \in [Challenges -> Int]
         /\ Decays(Curve[c].function) => price'[c] = RecalcValue(Curve[c], B!Eligible(c)')
<1>1. CASE Decays(Curve[c].function)
  <2> DEFINE v == B!RecalcValue(Curve[c], B!Eligible(c)')
  <2>1. price' = [price EXCEPT ![c] = v]
    BY <1>1 DEF B!Reprice, B!Decays, Decays
  <2>2. B!Eligible(c)' \in Nat
    <3>1. {i \in DOMAIN solves' : solves'[i].chal = c /\ B!Shown(B!AccountOf(solves[i]))'} \subseteq DOMAIN solves'
      OBVIOUS
    <3> QED BY <3>1, CountsAreNumbers DEF B!Eligible
  <2>3. v = RecalcValue(Curve[c], B!Eligible(c)') /\ v \in Int
    <3>1. Curve[c] \in Curves
      BY BoardConstants, SameCurves
    <3>2. RecalcValue(Curve[c], B!Eligible(c)') \in Nat
      BY <1>1, <2>2, <3>1, RecalcIsNatural
    <3> QED BY <3>2, SameCurves
  <2> HIDE DEF v
  <2> QED BY <2>1, <2>3 DEF B!TypeOK
<1>2. CASE ~Decays(Curve[c].function)
  BY <1>2 DEF B!Reprice, B!Decays, Decays, B!TypeOK
<1> QED BY <1>1, <1>2

LEMMA StartsType ==
  ASSUME B!TypeOK, NEW row \in B!Transactions, B!Starts(row)
  PROVE  B!TypeOK'
<1>1. B!Transactions' = B!Transactions /\ B!Solves' = B!Solves /\ B!Awards' = B!Awards
  BY DEF B!Starts, B!Transactions, B!Solves, B!Awards, B!Dates
<1> QED BY <1>1 DEF B!TypeOK, B!Starts

LEMMA BoardType == ASSUME B!TypeOK, B!Next PROVE B!TypeOK'
<1>1. now \in B!Dates
  BY DEF B!TypeOK, B!Dates
<1>2. ASSUME UNCHANGED now
      PROVE  B!Transactions' = B!Transactions /\ B!Solves' = B!Solves /\ B!Awards' = B!Awards
  BY <1>2 DEF B!Transactions, B!Solves, B!Awards, B!Dates
<1>3. CASE B!Tick
  <2>1. now' \in 1..MaxTime /\ B!Dates \subseteq B!Dates'
    BY <1>3, BoardConstants DEF B!Tick, B!TypeOK, B!Dates
  <2>2. B!Transactions \subseteq B!Transactions' /\ B!Solves \subseteq B!Solves' /\ B!Awards \subseteq B!Awards'
    BY <2>1 DEF B!Transactions, B!Solves, B!Awards
  <2>3. solves \in Seq(B!Solves') /\ awards \in Seq(B!Awards')
    BY <2>2, WiderSeq DEF B!TypeOK
  <2> QED BY <1>3, <2>1, <2>2, <2>3 DEF B!Tick, B!TypeOK
<1>4. ASSUME NEW u \in Players, NEW c \in Challenges, B!Submit(u, c) PROVE B!TypeOK'
  <2> DEFINE row == [of |-> "solve", user |-> u, team |-> TeamOf[u],
                     chal |-> c, value |-> 0, date |-> now]
  <2>1. row.team \in B!Teams
    BY DEF B!Teams
  <2>2. row \in B!Transactions
    BY <1>1, <2>1 DEF B!Transactions
  <2>3. B!Starts(row)
    BY <1>4 DEF B!Submit
  <2> QED BY <2>2, <2>3, StartsType
<1>5. ASSUME NEW p \in Charges, B!Charge(p[1], p[2]) PROVE B!TypeOK'
  <2>1. p[1] \in Players /\ p[2] \in Int
    BY FrontConstants, <1>5 DEF B!BoardAssumption
  <2> DEFINE row == [of |-> "game", user |-> p[1], team |-> TeamOf[p[1]],
                     chal |-> 0, value |-> p[2], date |-> now]
  <2>2. row.team \in B!Teams
    BY <2>1 DEF B!Teams
  <2>3. row \in B!Transactions
    BY <1>1, <2>1, <2>2 DEF B!Transactions
  <2>4. B!Starts(row)
    BY <1>5 DEF B!Charge
  <2> QED BY <2>3, <2>4, StartsType
<1>6. ASSUME NEW p \in Grants, B!GrantUserAward(p[1], p[2]) PROVE B!TypeOK'
  <2>1. p[1] \in Players /\ p[2] \in Int
    BY FrontConstants, <1>6 DEF B!BoardAssumption
  <2> DEFINE row == [of |-> "grant", user |-> p[1], team |-> TeamOf[p[1]],
                     chal |-> 0, value |-> p[2], date |-> now]
  <2>2. row.team \in B!Teams
    BY <2>1 DEF B!Teams
  <2>3. row \in B!Transactions
    BY <1>1, <2>1, <2>2 DEF B!Transactions
  <2>4. B!Starts(row)
    BY <1>6 DEF B!GrantUserAward
  <2> QED BY <2>3, <2>4, StartsType
<1>7. ASSUME NEW p \in Grants, B!GrantTeamAward(p[1], p[2]) PROVE B!TypeOK'
  <2>1. p[1] \in B!Teams /\ p[2] \in Int
    BY FrontConstants, <1>7 DEF B!BoardAssumption, B!Teams
  <2> DEFINE row == [of |-> "grant", user |-> B!Captain(p[1]), team |-> p[1], chal |-> 0, value |-> p[2],
                     date |-> now]
  <2>2. B!Captain(p[1]) \in Players
    BY <2>1, CaptainIsMember
  <2>3. row \in B!Transactions
    BY <1>1, <2>1, <2>2 DEF B!Transactions
  <2>4. B!Starts(row)
    BY <1>7 DEF B!GrantTeamAward
  <2> QED BY <2>3, <2>4, StartsType
<1>8. ASSUME NEW t \in open, B!End(t) PROVE B!TypeOK'
  <2>1. UNCHANGED <<mode, now, shut, unseen>> /\ open' \subseteq open
    BY <1>8, CommitFrame
  <2>2. B!Transactions' = B!Transactions /\ B!Solves' = B!Solves /\ B!Awards' = B!Awards
    BY <1>2, <2>1
  <2>3. solves' \in Seq(B!Solves') /\ awards' \in Seq(B!Awards')
    BY <1>8, <2>2, CommitFrame, LongerSeq DEF B!TypeOK
  <2>4. price' \in [Challenges -> Int]
    BY <1>8, <2>3, CommitFrame, RepriceType DEF B!TypeOK
  <2> QED BY <2>1, <2>2, <2>3, <2>4 DEF B!TypeOK
<1>9. ASSUME NEW i \in DOMAIN awards, B!RevokeManualAward(i) PROVE B!TypeOK'
  <2>1. awards' \in Seq(B!Awards)
    BY <1>9, RemovalShortens DEF B!RevokeManualAward, B!TypeOK
  <2> QED BY <1>2, <1>9, <2>1 DEF B!RevokeManualAward, B!TypeOK
<1>10. ASSUME NEW m \in Moderated, B!Moderate(m) PROVE B!TypeOK'
  BY <1>2, <1>10 DEF B!Moderate, B!Toggled, B!TypeOK
<1>11. ASSUME NEW c \in Challenges, B!SetState(c) PROVE B!TypeOK'
  BY <1>2, <1>11 DEF B!SetState, B!Toggled, B!TypeOK
<1>12. ASSUME NEW c \in Challenges, NEW k \in B!Horizons, B!OpenList(c, k) PROVE B!TypeOK'
  BY <1>2, <1>12 DEF B!OpenList, B!TypeOK
<1>13. ASSUME B!ReadPage PROVE B!TypeOK'
  BY <1>2, <1>13 DEF B!ReadPage, B!TypeOK
<1> QED BY <1>3, <1>4, <1>5, <1>6, <1>7, <1>8, <1>9, <1>10, <1>11, <1>12, <1>13 DEF B!Next

(* Only a commit adds a row.                                               *)
LEMMA GrowthIsCommit ==
  ASSUME B!TypeOK, B!Next, Len(solves') > Len(solves) \/ Len(awards') > Len(awards)
  PROVE  \E t \in open : B!End(t)
<1>1. Len(solves) \in Nat /\ Len(awards) \in Nat
  BY DEF B!TypeOK
<1>2. ~(UNCHANGED <<solves, awards>>)
  BY <1>1
<1>3. ASSUME NEW i \in DOMAIN awards, B!RevokeManualAward(i) PROVE FALSE
  <2>1. Len(awards') = Len(awards) - 1
    BY <1>3, RemovalShortens DEF B!RevokeManualAward, B!TypeOK
  <2>2. solves' = solves
    BY <1>3 DEF B!RevokeManualAward
  <2> QED BY <1>1, <2>1, <2>2
<1> QED BY <1>2, <1>3 DEF B!Next, B!Tick, B!Submit, B!Charge, B!GrantUserAward, B!GrantTeamAward, B!Starts,
                          B!Moderate, B!SetState, B!OpenList, B!ReadPage

LEMMA CommitPrices ==
  ASSUME B!TypeOK, B!TypeOK', B!Next, Len(solves') > Len(solves)
  PROVE  B!PricedAlike'
<1>1. PICK t \in open : B!End(t)
  BY GrowthIsCommit
<1>2. Len(solves) \in Nat
  BY DEF B!TypeOK
<1>3. /\ t.chal \in Challenges
      /\ \E row \in B!Solves : row.chal = t.chal /\ row.date = t.date /\ solves' = Append(solves, row)
      /\ B!Reprice(t.chal)
  BY <1>1, <1>2, CommitFrame
<1> DEFINE c == t.chal
<1>4. B!Last(solves') = solves'[Len(solves')] /\ B!Last(solves').chal = c
  <2>1. PICK row \in B!Solves : row.chal = c /\ solves' = Append(solves, row)
    BY <1>3
  <2>2. solves \in Seq(B!Solves)
    BY DEF B!TypeOK
  <2>3. Append(solves, row)[Len(Append(solves, row))] = row
    BY <2>2
  <2> QED BY <2>1, <2>3 DEF B!Last
<1>5. /\ price' \in [Challenges -> Int]
      /\ Decays(Curve[c].function) => price'[c] = RecalcValue(Curve[c], B!Eligible(c)')
  BY <1>3, RepriceType DEF B!TypeOK
(* Every row is dated within the clock, so a horizon past it hides none. *)
<1>6. ASSUME NEW k \in {MaxTime + 1, MaxTime + 2}
      PROVE  B!Count(c, k)' = B!Eligible(c)'
  <2>1. B!Before(solves, k)' = DOMAIN solves'
    <3>1. \A i \in DOMAIN solves' : solves'[i] \in B!Solves'
      BY DEF B!TypeOK
    <3>2. \A i \in DOMAIN solves' : solves'[i].date \in 1..now'
      BY <3>1 DEF B!Solves, B!Dates
    <3>3. now' \in 1..MaxTime /\ MaxTime \in Nat
      BY BoardConstants DEF B!TypeOK
    <3>4. \A i \in DOMAIN solves' : solves'[i].date < k
      BY <3>2, <3>3
    <3> QED BY <3>4 DEF B!Before
  <2> QED BY <2>1 DEF B!Count, B!Eligible
<1>7. B!Eligible(c)' \in Nat
  <2>1. {i \in DOMAIN solves' : solves'[i].chal = c /\ B!Shown(B!AccountOf(solves[i]))'} \subseteq DOMAIN solves'
    OBVIOUS
  <2> QED BY <2>1, CountsAreNumbers DEF B!Eligible, B!TypeOK
<1>8. Curve[c] \in Curves
  BY <1>3, BoardConstants, SameCurves
<1>9. Decays(Curve[c].function) => RecalcValue(Curve[c], B!Eligible(c)') = ValueAt(Curve[c], B!Eligible(c)')
  BY <1>7, <1>8, EnginesAlwaysAgree DEF EnginesAgree
<1> HIDE DEF c
<1>10. MaxTime + 1 # MaxTime + 2 /\ B!Live = MaxTime + 2
  BY BoardConstants DEF B!Live
<1>11. price'[c] = B!Quote(c, MaxTime + 1)'
  BY <1>5, <1>6, <1>10, SameCurves DEF B!Quote
<1>12. B!Decays(Curve[c].function) => price'[c] = B!ValueAt(Curve[c], B!Count(c, B!Live)')
  BY <1>5, <1>6, <1>9, <1>10, SameCurves
<1> QED BY <1>4, <1>11, <1>12 DEF B!PricedAlike

(* A commit of what began after a horizon leaves everything before it.     *)
LEMMA CommitLeavesPast ==
  ASSUME B!TypeOK, B!Next, NEW h \in 1..FreezeAt, \A t \in open : t.date >= h,
         Len(solves') > Len(solves) \/ Len(awards') > Len(awards)
  PROVE  /\ UNCHANGED <<mode, now, shut, unseen>>
         /\ B!Before(solves, h)' = B!Before(solves, h)
         /\ \A i \in B!Before(solves, h) : solves'[i] = solves[i]
         /\ B!Before(awards, h)' = B!Before(awards, h)
         /\ \A i \in B!Before(awards, h) : awards'[i] = awards[i]
         /\ \A c \in Challenges : ~Decays(Curve[c].function) => price'[c] = price[c]
<1>1. PICK t \in open : B!End(t)
  BY GrowthIsCommit
<1>2. h \in Int /\ t.date >= h /\ t.date \in Int
  <2>1. t \in B!Transactions
    BY DEF B!TypeOK
  <2> QED BY <2>1, BoardConstants DEF B!Transactions, B!Dates
<1>3. ASSUME NEW S, NEW s \in Seq(S), NEW x \in S, x.date = t.date
      PROVE  /\ B!Before(Append(s, x), h) = B!Before(s, h)
             /\ \A i \in B!Before(s, h) : Append(s, x)[i] = s[i]
  <2>1. /\ Len(s) \in Nat /\ DOMAIN Append(s, x) = DOMAIN s \cup {Len(s) + 1}
        /\ Append(s, x)[Len(s) + 1] = x
        /\ \A i \in DOMAIN s : Append(s, x)[i] = s[i]
    OBVIOUS
  <2>2. ~(x.date < h)
    BY <1>2, <1>3
  <2> QED BY <2>1, <2>2 DEF B!Before
<1>4. solves \in Seq(B!Solves) /\ awards \in Seq(B!Awards)
  BY DEF B!TypeOK
<1>5. /\ B!Before(solves', h) = B!Before(solves, h)
      /\ \A i \in B!Before(solves, h) : solves'[i] = solves[i]
  <2>1. CASE solves' = solves
    BY <2>1
  <2>2. CASE \E row \in B!Solves : row.date = t.date /\ solves' = Append(solves, row)
    <3>1. PICK row \in B!Solves : row.date = t.date /\ solves' = Append(solves, row)
      BY <2>2
    <3>2. /\ B!Before(Append(solves, row), h) = B!Before(solves, h)
          /\ \A i \in B!Before(solves, h) : Append(solves, row)[i] = solves[i]
      BY <1>3, <1>4, <3>1
    <3> QED BY <3>1, <3>2
  <2> QED BY <1>1, <2>1, <2>2, CommitFrame
<1>6. /\ B!Before(awards', h) = B!Before(awards, h)
      /\ \A i \in B!Before(awards, h) : awards'[i] = awards[i]
  <2>1. CASE awards' = awards
    BY <2>1
  <2>2. CASE \E row \in B!Awards : row.date = t.date /\ awards' = Append(awards, row)
    <3>1. PICK row \in B!Awards : row.date = t.date /\ awards' = Append(awards, row)
      BY <2>2
    <3>2. /\ B!Before(Append(awards, row), h) = B!Before(awards, h)
          /\ \A i \in B!Before(awards, h) : Append(awards, row)[i] = awards[i]
      BY <1>3, <1>4, <3>1
    <3> QED BY <3>1, <3>2
  <2> QED BY <1>1, <2>1, <2>2, CommitFrame
<1>7. UNCHANGED <<mode, now, shut, unseen>>
  BY <1>1, CommitFrame
<1>8. ASSUME NEW c \in Challenges, ~Decays(Curve[c].function)
      PROVE  price'[c] = price[c]
  <2>1. price' = price \/ \E d \in Challenges : B!Reprice(d)
    BY <1>1, CommitFrame
  <2> QED BY <1>8, <2>1, SameCurves DEF B!Reprice, B!TypeOK
<1> QED BY <1>5, <1>6, <1>7, <1>8

LEMMA PastKept ==
  ASSUME B!TypeOK, B!Next, NEW h \in 1..FreezeAt, h <= now, \A t \in open : t.date >= h,
         Len(solves') > Len(solves) \/ Len(awards') > Len(awards)
  PROVE  B!Published(h)' = B!Published(h)
<1>1. /\ UNCHANGED <<mode, now, shut, unseen>>
      /\ B!Before(solves, h)' = B!Before(solves, h)
      /\ \A i \in B!Before(solves, h) : solves'[i] = solves[i]
      /\ B!Before(awards, h)' = B!Before(awards, h)
      /\ \A i \in B!Before(awards, h) : awards'[i] = awards[i]
  BY CommitLeavesPast
<1>2. \A c \in Challenges : ~Decays(Curve[c].function) => price'[c] = price[c]
  BY CommitLeavesPast
<1>3. h \in Nat /\ h <= FreezeAt /\ FreezeAt \in Nat /\ h # 0 /\ h # B!Live
  BY BoardConstants DEF B!TypeOK, B!Live
<1>4. /\ B!Scoring(h, mode)' = B!Scoring(h, mode)
      /\ B!Scoring(h, "users")' = B!Scoring(h, "users")
  <2>1. /\ B!EventsOf(solves, 1, h, mode)' = B!EventsOf(solves, 1, h, mode)
        /\ B!EventsOf(solves, 1, h, "users")' = B!EventsOf(solves, 1, h, "users")
    BY <1>1 DEF B!EventsOf, B!Owner
  <2>2. /\ B!EventsOf(awards, 2, h, mode)' = B!EventsOf(awards, 2, h, mode)
        /\ B!EventsOf(awards, 2, h, "users")' = B!EventsOf(awards, 2, h, "users")
    BY <1>1 DEF B!EventsOf, B!Owner
  <2> QED BY <2>1, <2>2 DEF B!Scoring
<1>5. B!Accounts' = B!Accounts
  BY <1>1 DEF B!Accounts
<1>6. B!ScoreboardRequest(FALSE, IF h = FreezeAt THEN 0 ELSE h, FALSE)' =
      B!ScoreboardRequest(FALSE, IF h = FreezeAt THEN 0 ELSE h, FALSE)
  <2>1. B!StandingsAsOf(h, FALSE)' = B!StandingsAsOf(h, FALSE)
    BY <1>1, <1>4, <1>5 DEF B!StandingsAsOf, B!Standings
  <2>2. B!Min({h, FreezeAt}) = h
    BY <1>3 DEF B!Min
  <2>3. B!ScoreboardRequest(FALSE, IF h = FreezeAt THEN 0 ELSE h, FALSE) = B!StandingsAsOf(h, FALSE)
    BY <1>3, <2>2 DEF B!ScoreboardRequest
  <2>4. B!ScoreboardRequest(FALSE, IF h = FreezeAt THEN 0 ELSE h, FALSE)' = B!StandingsAsOf(h, FALSE)'
    BY <1>3, <2>2 DEF B!ScoreboardRequest
  <2> QED BY <2>1, <2>3, <2>4
<1>7. ASSUME NEW a PROVE B!ScoreHistory(a, h, FALSE)' = B!ScoreHistory(a, h, FALSE)
  BY <1>1, <1>4 DEF B!ScoreHistory, B!Shown
<1>8. ASSUME NEW u PROVE B!UserProfile(u, h, FALSE)' = B!UserProfile(u, h, FALSE)
  BY <1>1, <1>4 DEF B!UserProfile
<1>9. ASSUME NEW c \in Challenges PROVE B!Count(c, h)' = B!Count(c, h)
  BY <1>1 DEF B!Count, B!Shown, B!AccountOf, B!Owner
<1>10. ASSUME NEW c \in Challenges PROVE B!Quote(c, h)' = B!Quote(c, h)
  BY <1>2, <1>3, <1>9, SameCurves DEF B!Quote
<1>11. ASSUME NEW c \in Challenges
       PROVE  B!ShownRows(B!SolveRows(c, h, 0, MaxRows))' = B!ShownRows(B!SolveRows(c, h, 0, MaxRows))
  <2> DEFINE matching == B!Matching(c, h, 0)
  <2>1. matching' = matching /\ \A i \in matching : solves'[i] = solves[i]
    BY <1>1 DEF B!Matching, B!After
  <2>2. B!Oldest(matching, MaxRows)' = B!Oldest(matching, MaxRows)
    <3> HIDE DEF matching
    <3>1. \A i, j \in matching : B!Older(i, j)' <=> B!Older(i, j)
      BY <2>1 DEF B!Older
    <3>2. \A i \in matching : {j \in matching : B!Older(j, i)}' = {j \in matching : B!Older(j, i)}
      BY <2>1, <3>1
    <3> QED BY <2>1, <3>2 DEF B!Oldest
  <2>3. B!SolveRows(c, h, 0, MaxRows)' = B!SolveRows(c, h, 0, MaxRows)
    BY <1>1, <2>1, <2>2 DEF B!SolveRows
  <2>4. B!SolveRows(c, h, 0, MaxRows) \subseteq matching \cup {0}
    BY DEF B!SolveRows, B!Oldest
  <2> HIDE DEF matching
  <2> QED BY <1>1, <2>1, <2>3, <2>4 DEF B!ShownRows, B!AccountOf, B!Owner, B!Shown
<1>12. [a \in B!Accounts |-> B!ScoreHistory(a, h, FALSE)]' = [a \in B!Accounts |-> B!ScoreHistory(a, h, FALSE)]
  BY <1>5, <1>7
<1>13. [u \in Players |-> B!UserProfile(u, h, FALSE)]' = [u \in Players |-> B!UserProfile(u, h, FALSE)]
  BY <1>8
<1>14. [c \in Challenges |-> <<B!Quote(c, h), B!Count(c, h)>>]' = [c \in Challenges |-> <<B!Quote(c, h), B!Count(c, h)>>]
  BY <1>9, <1>10
<1>15. [c \in Challenges |-> B!ShownRows(B!SolveRows(c, h, 0, MaxRows))]' =
       [c \in Challenges |-> B!ShownRows(B!SolveRows(c, h, 0, MaxRows))]
  BY <1>11
<1> QED BY <1>6, <1>12, <1>13, <1>14, <1>15 DEF B!Published

(* Pages. The rows of a list are in a strict order of date and id.         *)
LEMMA OlderIsOrder ==
  ASSUME B!TypeOK, NEW i \in DOMAIN solves, NEW j \in DOMAIN solves
  PROVE  /\ ~B!Older(i, i) /\ (i = j \/ B!Older(i, j) \/ B!Older(j, i))
         /\ ~(B!Older(i, j) /\ B!Older(j, i))
         /\ \A m \in DOMAIN solves : B!Older(i, j) /\ B!Older(j, m) => B!Older(i, m)
<1>1. \A m \in DOMAIN solves : m \in Int /\ solves[m].date \in Int
  <2>1. solves \in Seq(B!Solves) /\ now \in Int
    BY BoardConstants DEF B!TypeOK
  <2>2. \A m \in DOMAIN solves : m \in Int /\ solves[m] \in B!Solves
    BY <2>1
  <2> QED BY <2>1, <2>2 DEF B!Solves, B!Dates
<1> QED BY <1>1 DEF B!Older

(* Some rows have an oldest and a newest among them.                       *)
LEMMA RowsHaveEnds ==
  ASSUME B!TypeOK, NEW R, R \subseteq DOMAIN solves, R # {}
  PROVE  /\ \E i \in R : \A j \in R : ~B!Older(j, i)
         /\ B!LastOf(R) \in R /\ \A j \in R : ~B!Older(B!LastOf(R), j)
<1>1. solves \in Seq(B!Solves) /\ now \in Nat /\ Len(solves) \in Nat
  BY BoardConstants DEF B!TypeOK
<1>2. \A i \in DOMAIN solves : i \in 0..Len(solves) /\ solves[i].date \in 0..now
  <2>1. \A i \in DOMAIN solves : i \in 1..Len(solves) /\ solves[i] \in B!Solves
    BY <1>1
  <2> QED BY <1>1, <2>1 DEF B!Solves, B!Dates
<1> DEFINE dates == {solves[i].date : i \in R}
<1>3. dates \in SUBSET (0..now) /\ dates \subseteq Nat /\ dates # {}
  BY <1>1, <1>2
<1>4. \E i \in R : \A j \in R : ~B!Older(j, i)
  <2>1. PICK d \in dates : \A x \in dates : d <= x
    BY <1>3, LeastOf
  <2> DEFINE sameDay == {i \in R : solves[i].date = d}
  <2>2. sameDay \subseteq Nat /\ sameDay # {}
    BY <1>2
  <2>3. PICK i \in sameDay : \A j \in sameDay : i <= j
    BY <2>2, LeastOf
  <2>4. \A j \in R : d <= solves[j].date /\ (solves[j].date = d => i <= j)
    BY <2>1, <2>3
  <2> HIDE DEF dates, sameDay
  <2>5. \A j \in R : ~B!Older(j, i)
    BY <1>2, <2>3, <2>4 DEF B!Older, sameDay
  <2> QED BY <2>3, <2>5 DEF sameDay
<1>5. \E i \in R : \A j \in R : ~B!Older(i, j)
  <2>1. PICK d \in dates : \A x \in dates : x <= d
    BY <1>1, <1>3, GreatestNumber
  <2> DEFINE sameDay == {i \in R : solves[i].date = d}
  <2>2. sameDay \in SUBSET (0..Len(solves)) /\ sameDay # {}
    BY <1>2
  <2>3. PICK i \in sameDay : \A j \in sameDay : j <= i
    BY <1>1, <2>2, GreatestNumber
  <2>4. \A j \in R : solves[j].date <= d /\ (solves[j].date = d => j <= i)
    BY <2>1, <2>3
  <2> HIDE DEF dates, sameDay
  <2>5. \A j \in R : ~B!Older(i, j)
    BY <1>2, <2>3, <2>4 DEF B!Older, sameDay
  <2> QED BY <2>3, <2>5 DEF sameDay
<1> QED BY <1>4, <1>5 DEF B!LastOf

(* A page is the first rows of the list, and if it is not full, all of it. *)
LEMMA PageIsPrefix ==
  ASSUME B!TypeOK, NEW M, M \subseteq DOMAIN solves,
         NEW i \in M, NEW j \in B!Oldest(M, PageLimit), B!Older(i, j)
  PROVE  i \in B!Oldest(M, PageLimit)
<1> DEFINE Before(x) == {y \in M : B!Older(y, x)}
<1>1. j \in M /\ B!Cardinality(Before(j)) < PageLimit
  BY DEF B!Oldest
<1>2. Before(i) \subseteq Before(j)
  BY <1>1, OlderIsOrder
<1>3. /\ solves \in Seq(B!Solves) /\ PageLimit \in Nat
      /\ Before(i) \subseteq DOMAIN solves /\ Before(j) \subseteq DOMAIN solves
  BY BoardConstants DEF B!TypeOK
<1> HIDE DEF Before
<1>4. /\ B!Cardinality(Before(i)) = Cardinality(Before(i)) /\ Cardinality(Before(i)) \in Nat
      /\ B!Cardinality(Before(j)) = Cardinality(Before(j)) /\ Cardinality(Before(j)) \in Nat
      /\ IsFiniteSet(Before(j))
  BY <1>3, CountsAreNumbers
<1>5. Cardinality(Before(i)) <= Cardinality(Before(j))
  BY <1>2, <1>4, FS_Subset
<1>6. B!Cardinality(Before(i)) < PageLimit
  BY <1>1, <1>3, <1>4, <1>5
<1> QED BY <1>6 DEF B!Oldest, Before

LEMMA ShortPageIsLast ==
  ASSUME B!TypeOK, NEW M, M \subseteq DOMAIN solves,
         B!Cardinality(B!Oldest(M, PageLimit)) # PageLimit
  PROVE  B!Oldest(M, PageLimit) = M
<1> DEFINE R == B!Oldest(M, PageLimit)
           Before(x) == {y \in M : B!Older(y, x)}
<1>1. solves \in Seq(B!Solves) /\ PageLimit \in Nat
  BY BoardConstants DEF B!TypeOK
<1>2. R \subseteq M /\ \A x \in M : x \in R <=> B!Cardinality(Before(x)) < PageLimit
  BY DEF B!Oldest
<1>3. ASSUME NEW S, S \subseteq M
      PROVE  B!Cardinality(S) = Cardinality(S) /\ IsFiniteSet(S) /\ Cardinality(S) \in Nat
  BY <1>1, <1>3, CountsAreNumbers
<1>4. SUFFICES ASSUME M \ R # {} PROVE FALSE
  BY <1>2
<1>5. PICK m \in M \ R : \A x \in M \ R : ~B!Older(x, m)
  BY <1>4, RowsHaveEnds
<1> HIDE DEF R
<1>6. Cardinality(Before(m)) >= PageLimit
  BY <1>1, <1>2, <1>3, <1>5
<1>7. Before(m) \subseteq R
  BY <1>5
<1>8. Cardinality(R) >= PageLimit
  <2>1. Cardinality(Before(m)) <= Cardinality(R)
    BY <1>2, <1>3, <1>7, FS_Subset
  <2> QED BY <1>1, <1>2, <1>3, <1>6, <2>1
<1>9. Cardinality(R) <= PageLimit
  <2>1. CASE R = {}
    BY <1>1, <2>1, FS_EmptySet
  <2>2. CASE R # {}
    <3> DEFINE l == B!LastOf(R)
    <3>1. l \in R /\ \A x \in R : ~B!Older(l, x)
      BY <1>2, <2>2, RowsHaveEnds
    <3> HIDE DEF l
    <3>2. \A x \in R : x = l \/ B!Older(x, l)
      BY <1>2, <3>1, OlderIsOrder
    <3>3. R \subseteq Before(l) \cup {l}
      BY <1>2, <3>2
    <3>4. Cardinality(Before(l)) < PageLimit /\ IsFiniteSet(Before(l)) /\ Cardinality(Before(l)) \in Nat
      BY <1>2, <1>3, <3>1
    <3>5. IsFiniteSet(Before(l) \cup {l}) /\ Cardinality(Before(l) \cup {l}) <= Cardinality(Before(l)) + 1
      BY <3>4, FS_AddElement
    <3>6. Cardinality(R) <= Cardinality(Before(l) \cup {l}) /\ Cardinality(Before(l) \cup {l}) \in Nat
      BY <3>3, <3>5, FS_Subset, FS_CardinalityType
    <3> QED BY <1>1, <1>2, <1>3, <3>4, <3>5, <3>6
  <2> QED BY <2>1, <2>2
<1>10. B!Cardinality(R) = Cardinality(R) /\ Cardinality(R) \in Nat
  BY <1>2, <1>3
<1> QED BY <1>1, <1>8, <1>9, <1>10 DEF R

(* The step between pages: what is read lies behind the cursor, and what   *)
(* is owed is among it or lies ahead.                                      *)
LEMMA PageKeepsWalk == ASSUME B!TypeOK, B!Inv, B!ReadPage PROVE B!Inv'
<1>1. B!Paging /\ walk.at = "page" /\ UNCHANGED <<mode, solves, unseen>>
  BY DEF B!ReadPage, B!Inv
<1>2. walk \in [at : {"page"}, chal : Challenges, cutoff : B!Horizons, cursor : {0} \cup DOMAIN solves,
                seen : SUBSET DOMAIN solves, twice : {FALSE}, owed : SUBSET DOMAIN solves]
  BY <1>1 DEF B!Paging
<1> DEFINE onPage == B!SolveRows(walk.chal, walk.cutoff, walk.cursor, PageLimit)
           matching == B!Matching(walk.chal, walk.cutoff, walk.cursor)
           shown == B!ShownRows(onPage)
           next == B!NextCursor(onPage)
<1>3. walk' = IF onPage = {} THEN [at |-> "refused"]
              ELSE [walk EXCEPT !.cursor = next, !.at = IF next = 0 THEN "end" ELSE "page",
                                !.seen = @ \cup shown, !.twice = @ \/ walk.seen \cap shown # {}]
  BY DEF B!ReadPage
<1>4. CASE onPage = {}
  BY <1>3, <1>4 DEF B!Inv
<1>5. matching \subseteq DOMAIN solves /\ 0 \notin DOMAIN solves /\ solves \in Seq(B!Solves)
  BY DEF B!Matching, B!Before, B!TypeOK
<1>6. \A i \in walk.owed \ walk.seen : i \in matching
  BY <1>1, <1>2 DEF B!Paging, B!Matching, B!Before
<1>7. \A i \in matching : B!After(walk.cursor, i)
  BY DEF B!Matching
<1>8. shown \subseteq onPage
  BY DEF B!ShownRows
<1>9. ASSUME onPage # {}, shown \subseteq matching
      PROVE  /\ walk'.at = (IF next = 0 THEN "end" ELSE "page") /\ walk'.cursor = next /\ ~walk'.twice
             /\ walk'.seen = walk.seen \cup shown /\ walk'.owed = walk.owed
             /\ walk'.chal = walk.chal /\ walk'.cutoff = walk.cutoff
             /\ walk' = [walk EXCEPT !.cursor = next, !.at = IF next = 0 THEN "end" ELSE "page",
                                     !.seen = walk.seen \cup shown, !.twice = FALSE]
  <2>1. walk.seen \cap shown = {}
    BY <1>1, <1>7, <1>9 DEF B!Paging, B!After
  <2> HIDE DEF onPage, shown, next
  <2>2. walk' = [walk EXCEPT !.cursor = next, !.at = IF next = 0 THEN "end" ELSE "page",
                             !.seen = walk.seen \cup shown, !.twice = FALSE]
    BY <1>2, <1>3, <1>9, <2>1
  <2> QED BY <1>2, <2>2
<1>10. CASE onPage # {} /\ matching = {}
  <2>1. onPage = {0}
    BY <1>10 DEF B!SolveRows
  <2>2. shown = {}
    BY <2>1 DEF B!ShownRows
  <2>3. next = 0
    BY <2>1 DEF B!NextCursor
  <2>4. walk.owed \subseteq walk.seen
    BY <1>6, <1>10
  <2> HIDE DEF onPage, shown, next, matching
  <2> QED BY <1>9, <1>10, <2>2, <2>3, <2>4 DEF B!Inv
<1>11. CASE onPage # {} /\ matching # {}
  <2>1. onPage = B!Oldest(matching, PageLimit) /\ onPage \subseteq matching
    BY <1>11 DEF B!SolveRows, B!Oldest
  <2> HIDE DEF matching
  <2>2. onPage \subseteq DOMAIN solves /\ onPage # {0}
    BY <1>5, <2>1
  <2>3. B!LastOf(onPage) \in onPage /\ \A j \in onPage : ~B!Older(B!LastOf(onPage), j)
    BY <1>11, <2>2, RowsHaveEnds
  <2>4. \A i \in onPage : i \in walk.owed => i \in shown
    <3>1. \A i \in walk.owed : B!Shown(B!AccountOf(solves[i]))
      BY <1>1 DEF B!Paging
    <3> QED BY <1>5, <2>2, <3>1 DEF B!ShownRows
  <2>5. CASE next = 0
    <3>1. B!Cardinality(onPage) # PageLimit
      BY <1>5, <2>2, <2>3, <2>5 DEF B!NextCursor
    <3>2. onPage = matching
      BY <1>5, <2>1, <3>1, ShortPageIsLast
    <3>3. walk.owed \subseteq walk.seen \cup shown
      BY <1>6, <2>4, <3>2
    <3> HIDE DEF onPage, shown, next
    <3> QED BY <1>8, <1>9, <1>11, <2>1, <2>5, <3>3 DEF B!Inv
  <2>6. CASE next # 0
    <3>1. next = B!LastOf(onPage)
      BY <2>6 DEF B!NextCursor
    <3>2. next \in onPage /\ \A j \in onPage : ~B!Older(next, j)
      BY <2>3, <3>1
    <3> HIDE DEF onPage, shown, next
    <3>3. \A i \in walk.seen : ~B!Older(next, i)
      <4> SUFFICES ASSUME NEW i \in walk.seen PROVE ~B!Older(next, i)
        OBVIOUS
      <4>1. walk.cursor # 0 /\ ~B!Older(walk.cursor, i)
        BY <1>1 DEF B!Paging
      <4>2. B!Older(walk.cursor, next)
        BY <1>7, <2>1, <3>2, <4>1 DEF B!After
      <4>3. walk.cursor \in DOMAIN solves /\ next \in DOMAIN solves /\ i \in DOMAIN solves
        BY <1>2, <2>2, <3>2, <4>1
      <4> QED BY <4>1, <4>2, <4>3, OlderIsOrder
    <3>4. \A i \in walk.owed : i \in walk.seen \cup shown \/ B!Older(next, i)
      <4> SUFFICES ASSUME NEW i \in walk.owed, i \notin walk.seen, i \notin onPage PROVE B!Older(next, i)
        BY <2>4
      <4>1. i \in matching
        BY <1>6
      <4>2. ~B!Older(i, next)
        BY <1>5, <2>1, <3>2, <4>1, PageIsPrefix
      <4>3. i \in DOMAIN solves /\ next \in DOMAIN solves /\ i # next
        BY <1>5, <2>2, <3>2, <4>1
      <4> QED BY <4>2, <4>3, OlderIsOrder
    <3>5. /\ walk'.at = "page" /\ walk'.cursor = next /\ walk'.seen = walk.seen \cup shown
          /\ walk'.owed = walk.owed /\ walk'.chal = walk.chal /\ walk'.cutoff = walk.cutoff
          /\ walk' = [walk EXCEPT !.cursor = next, !.at = "page", !.seen = walk.seen \cup shown, !.twice = FALSE]
      BY <1>8, <1>9, <1>11, <2>1, <2>6
    <3>6. walk' \in [at : {"page"}, chal : Challenges, cutoff : B!Horizons, cursor : {0} \cup DOMAIN solves,
                     seen : SUBSET DOMAIN solves, twice : {FALSE}, owed : SUBSET DOMAIN solves]
      BY <1>2, <1>8, <2>2, <3>2, <3>5
    <3>7. \A i \in walk'.seen : ~B!Older(walk.cursor, i)'
      BY <1>1, <3>2, <3>3, <3>5, <1>8, <2>1 DEF B!Older, B!ShownRows
    <3>8. \A i \in walk'.owed : /\ solves'[i].chal = walk'.chal /\ solves'[i].date < walk'.cutoff
                               /\ B!Shown(B!AccountOf(solves[i]))'
                               /\ (i \in walk'.seen \/ B!After(walk.cursor, i)')
      BY <1>1, <3>4, <3>5 DEF B!Paging, B!Shown, B!AccountOf, B!Owner, B!After, B!Older
    <3>9. B!Paging'
      BY <1>1, <2>6, <3>5, <3>6, <3>7, <3>8 DEF B!Paging, B!Horizons, B!Live
    <3> QED BY <3>5, <3>9 DEF B!Inv
  <2> QED BY <2>5, <2>6
<1> QED BY <1>4, <1>10, <1>11

(* Rows are only added behind those a walk knows, which stay as they were. *)
LEMMA WalkKept ==
  ASSUME B!TypeOK, B!Inv, NEW s, solves' = s, UNCHANGED <<mode, unseen, walk>>,
         DOMAIN solves \subseteq DOMAIN s, \A i \in DOMAIN solves : s[i] = solves[i]
  PROVE  B!Inv'
<1>1. CASE walk.at = "page"
  <2>1. B!Paging
    BY <1>1 DEF B!Inv
  <2>2. \A i, j \in DOMAIN solves : B!Older(i, j)' <=> B!Older(i, j)
    BY DEF B!Older
  <2>3. walk.cursor \in {0} \cup DOMAIN solves /\ walk.owed \subseteq DOMAIN solves /\ walk.seen \subseteq DOMAIN solves
    BY <2>1 DEF B!Paging
  <2>4. \A i \in walk.seen : ~B!Older(walk.cursor, i)'
    BY <2>1, <2>2, <2>3 DEF B!Paging
  <2>5. \A i \in walk.owed : /\ s[i].chal = walk.chal /\ s[i].date < walk.cutoff
                             /\ B!Shown(B!AccountOf(solves[i]))'
                             /\ (i \in walk.seen \/ B!After(walk.cursor, i)')
    BY <2>1, <2>2, <2>3 DEF B!Paging, B!Shown, B!AccountOf, B!Owner, B!After
  <2>6. walk \in [at : {"page"}, chal : Challenges, cutoff : B!Horizons, cursor : {0} \cup DOMAIN s,
                  seen : SUBSET DOMAIN s, twice : {FALSE}, owed : SUBSET DOMAIN s]
    BY <2>1 DEF B!Paging
  <2>7. B!Paging'
    BY <2>1, <2>4, <2>5, <2>6 DEF B!Paging, B!Horizons, B!Live
  <2> QED BY <1>1, <2>7 DEF B!Inv
<1>2. CASE walk.at # "page"
  BY <1>2 DEF B!Inv
<1> QED BY <1>1, <1>2

LEMMA BoardKept == ASSUME B!TypeOK, B!Inv, B!Next PROVE B!Inv'
<1>1. ASSUME UNCHANGED <<mode, solves, unseen, walk>> PROVE B!Inv'
  BY <1>1, WalkKept
<1>2. ASSUME NEW t \in open, B!End(t) PROVE B!Inv'
  <2>1. UNCHANGED <<mode, unseen, walk>>
    BY <1>2, CommitFrame
  <2>2. CASE solves' = solves
    BY <1>1, <2>1, <2>2
  <2>3. CASE \E row \in B!Solves : solves' = Append(solves, row)
    <3>1. PICK row \in B!Solves : solves' = Append(solves, row)
      BY <2>3
    <3>2. solves \in Seq(B!Solves)
      BY DEF B!TypeOK
    <3>3. /\ DOMAIN solves \subseteq DOMAIN Append(solves, row)
          /\ \A i \in DOMAIN solves : Append(solves, row)[i] = solves[i]
      BY <3>2
    <3> QED BY <2>1, <3>1, <3>3, WalkKept
  <2> QED BY <1>2, <2>2, <2>3, CommitFrame
<1>3. ASSUME NEW m, B!Moderate(m) PROVE B!Inv'
  <2>1. CASE walk.at = "page"
    <3> DEFINE owed == {i \in walk.owed : <<mode, B!AccountOf(solves[i])>> \notin unseen'}
    <3>1. B!Paging /\ UNCHANGED <<mode, solves>> /\ walk' = [walk EXCEPT !.owed = owed]
      BY <1>3, <2>1 DEF B!Moderate, B!Inv
    <3> HIDE DEF owed
    <3>2. walk \in [at : {"page"}, chal : Challenges, cutoff : B!Horizons, cursor : {0} \cup DOMAIN solves,
                    seen : SUBSET DOMAIN solves, twice : {FALSE}, owed : SUBSET DOMAIN solves]
      BY <3>1 DEF B!Paging
    <3>3. owed \subseteq walk.owed
      BY DEF owed
    <3>4. walk' \in [at : {"page"}, chal : Challenges, cutoff : B!Horizons, cursor : {0} \cup DOMAIN solves,
                     seen : SUBSET DOMAIN solves, twice : {FALSE}, owed : SUBSET DOMAIN solves]
      BY <3>1, <3>2, <3>3
    <3>5. /\ walk'.owed = owed /\ walk'.seen = walk.seen /\ walk'.cursor = walk.cursor /\ walk'.at = "page"
          /\ walk'.chal = walk.chal /\ walk'.cutoff = walk.cutoff
      BY <3>1, <3>2
    <3>6. \A i \in owed : <<mode, B!AccountOf(solves[i])>> \notin unseen' /\ B!AccountOf(solves[i])' = B!AccountOf(solves[i])
      BY <3>1 DEF owed, B!AccountOf, B!Owner
    <3>7. B!Paging'
      BY <3>1, <3>3, <3>4, <3>5, <3>6 DEF B!Paging, B!Horizons, B!Live, B!Shown, B!Older, B!After
    <3> QED BY <3>5, <3>7 DEF B!Inv
  <2>2. CASE walk.at # "page"
    BY <1>3, <2>2 DEF B!Moderate, B!Inv
  <2> QED BY <2>1, <2>2
<1>4. ASSUME NEW c \in Challenges, NEW k \in B!Horizons, B!OpenList(c, k) PROVE B!Inv'
  <2> DEFINE owed == {i \in B!Before(solves, k) : solves[i].chal = c /\ B!Shown(B!AccountOf(solves[i]))}
  <2>1. /\ UNCHANGED <<mode, solves, unseen>>
        /\ walk' = [at |-> "page", chal |-> c, cutoff |-> k, cursor |-> 0, seen |-> {}, twice |-> FALSE, owed |-> owed]
    BY <1>4 DEF B!OpenList
  <2>2. owed \subseteq DOMAIN solves
    BY DEF B!Before
  <2>3. \A i \in owed : solves[i].chal = c /\ solves[i].date < k /\ B!Shown(B!AccountOf(solves[i]))'
    BY <2>1 DEF B!Before, B!Shown, B!AccountOf, B!Owner
  <2> HIDE DEF owed
  <2>4. B!Paging'
    BY <2>1, <2>2, <2>3 DEF B!Paging, B!After, B!Horizons, B!Live
  <2> QED BY <2>1, <2>4 DEF B!Inv
<1>5. ASSUME B!ReadPage PROVE B!Inv'
  BY <1>5, PageKeepsWalk
<1> QED BY <1>1, <1>2, <1>3, <1>4, <1>5 DEF B!Next, B!Tick, B!Submit, B!Charge, B!GrantUserAward, B!GrantTeamAward,
                                            B!Starts, B!RevokeManualAward, B!SetState

BoardFits == focus = "board" => B!TypeOK /\ B!Inv

(* In every state of the board its rows are of their types and dated by    *)
(* now, and a walk has behind its cursor what it was shown and ahead of it *)
(* what it is owed.                                                        *)
THEOREM BoardInvariant == FrontSpec => []BoardFits
<1>1. FrontInit => BoardFits
  BY BoardStarts DEF FrontInit, BoardFits
<1>2. BoardFits /\ [FrontNext]_all => BoardFits'
  <2> SUFFICES ASSUME BoardFits, [FrontNext]_all, focus' = "board"
               PROVE  B!TypeOK' /\ B!Inv'
    BY DEF BoardFits
  <2>1. focus = "board" /\ B!TypeOK /\ B!Inv
    BY DEF BoardFits, FrontNext, Credentials, Budgets, Play, Streaming, all, inputs
  <2>2. CASE Play
    BY <2>1, <2>2, BoardType, BoardKept DEF Play
  <2>3. CASE UNCHANGED all
    <3>1. B!TypeOK'
      BY <2>1, <2>3 DEF all, game, budgets, B!TypeOK, B!Solves, B!Awards, B!Transactions, B!Dates
    <3>2. UNCHANGED <<mode, solves, unseen, walk>>
      BY <2>3 DEF all, game
    <3> QED BY <2>1, <3>1, <3>2, WalkKept
  <2> QED BY <2>1, <2>2, <2>3 DEF FrontNext, Credentials, Budgets, Streaming
<1> QED BY <1>1, <1>2, PTL DEF FrontSpec

(* A solve leaves one price, in both engines and at every horizon past it. *)
THEOREM OnePriceHolds == FrontSpec => OnePrice
<1>1. BoardFits /\ BoardFits' /\ [FrontNext]_all => [focus = "board" => B!OnePriceStep]_all
  <2> SUFFICES ASSUME BoardFits, BoardFits', FrontNext, focus = "board", Len(solves') > Len(solves)
               PROVE  B!PricedAlike'
    BY DEF B!OnePriceStep
  <2>1. B!Next /\ focus' = focus
    BY DEF FrontNext, Credentials, Budgets, Play, Streaming, inputs
  <2> QED BY <2>1, CommitPrices DEF BoardFits
<1> QED BY <1>1, BoardInvariant, PTL DEF FrontSpec, OnePrice

(* No commit changes what was served as of a horizon everyone is past.     *)
THEOREM PastStandsHolds == FrontSpec => PastStands
<1>1. BoardFits /\ [FrontNext]_all => [Quiet => B!PastStandsStep]_all
  <2> SUFFICES ASSUME BoardFits, FrontNext, Quiet, NEW h \in 1..FreezeAt, h <= now, \A t \in open : t.date >= h,
                      Len(solves') > Len(solves) \/ Len(awards') > Len(awards)
               PROVE  B!Published(h)' = B!Published(h)
    BY DEF B!PastStandsStep
  <2>1. B!Next
    BY DEF Quiet, FrontNext, Credentials, Budgets, Play, Streaming, inputs
  <2> QED BY <2>1, PastKept DEF BoardFits, Quiet
<1> QED BY <1>1, BoardInvariant, PTL DEF FrontSpec, PastStands

(* Paging through the solvers misses nobody and names nobody twice.        *)
THEOREM WalkHolds == FrontSpec => []WalkMissesNothing
<1>1. BoardFits => WalkMissesNothing
  BY DEF BoardFits, WalkMissesNothing, B!WalkMissesNothing, B!Inv, B!Paging
<1> QED BY <1>1, BoardInvariant, PTL

-----------------------------------------------------------------------------
(* What the reads return of the ledger *)

(* Finiteness and size, as Board names them, are those of the library.     *)
LEMMA BoardMeasures == \A S : /\ B!IsFiniteSet(S) <=> IsFiniteSet(S)
                              /\ B!Cardinality(S) = Cardinality(S)
<1> TAKE S
<1>1. B!IsFiniteSet(S) <=> IsFiniteSet(S)
  BY DEF B!IsFiniteSet, IsFiniteSet
<1>2. B!Cardinality(S) = Cardinality(S)
  BY DEF B!Cardinality, Cardinality
<1> QED BY <1>1, <1>2

LEMMA BookedStarts == B!Init => B!Booked
<1> SUFFICES ASSUME B!Init PROVE B!Booked
  OBVIOUS
<1>1. IsFiniteSet(open) /\ Cardinality(open) = 0 /\ Len(solves) = 0 /\ Len(awards) = 0
  BY FS_EmptySet DEF B!Init
<1>2. MaxRows \in Nat
  BY FrontConstants DEF B!BoardAssumption
<1> QED BY <1>1, <1>2, BoardMeasures DEF B!Init, B!Booked

(* What has begun leaves the ledger as it is.                              *)
LEMMA BookedOpens ==
  ASSUME B!TypeOK, B!Booked, NEW row, B!Starts(row), row.team = TeamOf[row.user]
  PROVE  B!Booked'
<1>1. /\ UNCHANGED <<mode, solves, awards>> /\ open' = open \cup {row}
      /\ Len(solves) + Len(awards) + Cardinality(open) < MaxRows
  BY BoardMeasures DEF B!Starts, B!Room
<1>2. IsFiniteSet(open) /\ Cardinality(open) \in Nat /\ Len(solves) \in Nat /\ Len(awards) \in Nat /\ MaxRows \in Nat
  BY BoardMeasures, FS_CardinalityType, FrontConstants DEF B!Booked, B!TypeOK, B!BoardAssumption
<1>3. IsFiniteSet(open') /\ Cardinality(open') \in Nat /\ Cardinality(open') <= Cardinality(open) + 1
  <2>1. /\ IsFiniteSet(open \cup {row})
        /\ Cardinality(open \cup {row}) = IF row \in open THEN Cardinality(open) ELSE Cardinality(open) + 1
    BY <1>2, FS_AddElement
  <2> QED BY <1>1, <1>2, <2>1
<1>4. Len(solves') + Len(awards') + Cardinality(open') <= MaxRows
  BY <1>1, <1>2, <1>3
<1>5. \A i \in DOMAIN solves' : /\ solves'[i].team = TeamOf[solves'[i].user]
                                /\ B!PrereqsMet(B!AccountOf(solves[i]), solves[i].chal)'
  BY <1>1 DEF B!Booked, B!PrereqsMet, B!Solved, B!AccountOf, B!Owner
<1> QED BY <1>1, <1>3, <1>4, <1>5, BoardMeasures DEF B!Booked

LEMMA BookedEnds ==
  ASSUME B!TypeOK, B!Booked, NEW t \in open, B!End(t)
  PROVE  B!Booked'
<1>1. /\ mode' = mode /\ open' = open \ {t} /\ t.team = TeamOf[t.user]
      /\ solves \in Seq(B!Solves) /\ awards \in Seq(B!Awards)
  BY DEF B!End, B!CommitSolve, B!CommitAward, B!Abort, B!Booked, B!TypeOK
<1>2. IsFiniteSet(open) /\ Cardinality(open) \in Nat /\ Len(solves) \in Nat /\ Len(awards) \in Nat /\ MaxRows \in Nat
  BY BoardMeasures, FS_CardinalityType, FrontConstants DEF B!Booked, B!TypeOK, B!BoardAssumption
<1>3. IsFiniteSet(open') /\ Cardinality(open') = Cardinality(open) - 1
  BY <1>1, <1>2, FS_RemoveElement
<1>4. /\ Len(solves) + Len(awards) + Cardinality(open) <= MaxRows
      /\ \A i \in DOMAIN solves : /\ solves[i].team = TeamOf[solves[i].user]
                                  /\ B!PrereqsMet(B!AccountOf(solves[i]), solves[i].chal)
      /\ \A i \in DOMAIN awards : awards[i].team = TeamOf[awards[i].user]
      /\ \A r \in open' : r.team = TeamOf[r.user]
  BY <1>1, BoardMeasures DEF B!Booked
<1> DEFINE free == Cardinality(open')
           first == Len(solves)
           second == Len(awards)
<1>5. /\ free \in Int /\ first \in Nat /\ second \in Nat /\ first + second + (free + 1) <= MaxRows
  BY <1>2, <1>3, <1>4
<1>6. CASE B!CommitSolve(t)
  <2> DEFINE row == [user |-> t.user, team |-> t.team, chal |-> t.chal, value |-> price[t.chal], date |-> t.date]
  <2>1. /\ solves' = Append(solves, row) /\ awards' = awards
        /\ B!PrereqsMet(B!AccountOf(t), t.chal)
    BY <1>6 DEF B!CommitSolve
  <2>2. /\ Len(solves') = first + 1 /\ DOMAIN solves' = 1..(first + 1) /\ solves'[first + 1] = row
        /\ DOMAIN solves = 1..first /\ \A i \in DOMAIN solves : solves'[i] = solves[i]
    BY <1>1, <2>1
  <2>3. \A i \in DOMAIN solves' : i \in DOMAIN solves \/ i = first + 1
    BY <1>2, <2>2
  <2>4. DOMAIN solves \subseteq DOMAIN solves'
    BY <1>2, <2>2
  <2>5. ASSUME NEW a, NEW c, B!PrereqsMet(a, c) PROVE B!PrereqsMet(a, c)'
    BY <1>1, <2>2, <2>4, <2>5 DEF B!PrereqsMet, B!Solved, B!AccountOf, B!Owner
  <2>6. B!AccountOf(row) = B!AccountOf(t) /\ row.chal = t.chal /\ row.team = TeamOf[row.user]
    BY <1>1 DEF B!AccountOf, B!Owner
  <2>7. \A i \in DOMAIN solves' : /\ solves'[i].team = TeamOf[solves'[i].user]
                                  /\ B!PrereqsMet(B!AccountOf(solves[i]), solves[i].chal)'
    <3> SUFFICES ASSUME NEW i \in DOMAIN solves'
                 PROVE  /\ solves'[i].team = TeamOf[solves'[i].user]
                        /\ B!PrereqsMet(B!AccountOf(solves[i]), solves[i].chal)'
      OBVIOUS
    <3> DEFINE x == solves'[i]
    <3>a. B!AccountOf(solves[i])' = B!AccountOf(x)
      BY <1>1 DEF B!AccountOf, B!Owner
    <3>b. SUFFICES x.team = TeamOf[x.user] /\ B!PrereqsMet(B!AccountOf(x), x.chal)
      BY <2>5, <3>a
    <3> HIDE DEF x
    <3>1. CASE i \in DOMAIN solves
      <4>1. x = solves[i]
        BY <2>2, <3>1 DEF x
      <4> QED BY <1>4, <3>1, <4>1
    <3>2. CASE i = first + 1
      <4> HIDE DEF row
      <4>1. x = row
        BY <2>2, <3>2 DEF x
      <4> QED BY <2>1, <2>6, <4>1
    <3> QED BY <2>3, <3>1, <3>2
  <2> HIDE DEF row, first, second, free
  <2>8. Len(solves') + second + free <= MaxRows
    BY <1>2, <1>5, <2>2
  <2>9. Len(solves') + Len(awards') + Cardinality(open') <= MaxRows
    BY <2>1, <2>8 DEF second, free
  <2> QED BY <1>3, <1>4, <2>1, <2>7, <2>9, BoardMeasures DEF B!Booked
<1>7. ASSUME UNCHANGED solves
      PROVE  \A i \in DOMAIN solves' : /\ solves'[i].team = TeamOf[solves'[i].user]
                                       /\ B!PrereqsMet(B!AccountOf(solves[i]), solves[i].chal)'
  BY <1>1, <1>4, <1>7 DEF B!PrereqsMet, B!Solved, B!AccountOf, B!Owner
<1>8. CASE B!CommitAward(t)
  <2> DEFINE row == [user |-> t.user, team |-> t.team, value |-> t.value, date |-> t.date, manual |-> t.of = "grant"]
  <2>1. awards' = Append(awards, row) /\ UNCHANGED solves
    BY <1>8 DEF B!CommitAward
  <2>2. /\ Len(awards') = second + 1 /\ DOMAIN awards' = 1..(second + 1) /\ awards'[second + 1] = row
        /\ DOMAIN awards = 1..second /\ \A i \in DOMAIN awards : awards'[i] = awards[i]
    BY <1>1, <2>1
  <2>3. \A i \in DOMAIN awards' : i \in DOMAIN awards \/ i = second + 1
    BY <1>2, <2>2
  <2>4. \A i \in DOMAIN awards' : awards'[i].team = TeamOf[awards'[i].user]
    BY <1>1, <1>4, <2>2, <2>3
  <2> HIDE DEF row, first, second, free
  <2>5. first + Len(awards') + free <= MaxRows
    BY <1>2, <1>5, <2>2
  <2>6. Len(solves') + Len(awards') + Cardinality(open') <= MaxRows
    BY <2>1, <2>5 DEF first, free
  <2> QED BY <1>3, <1>4, <1>7, <2>1, <2>4, <2>6, BoardMeasures DEF B!Booked
<1>9. CASE B!Abort(t)
  <2>1. UNCHANGED <<solves, awards>>
    BY <1>9 DEF B!Abort
  <2>2. Len(solves') + Len(awards') + Cardinality(open') <= MaxRows
    BY <1>2, <1>5, <2>1
  <2> QED BY <1>3, <1>4, <1>7, <2>1, <2>2, BoardMeasures DEF B!Booked
<1> QED BY <1>6, <1>8, <1>9 DEF B!End

LEMMA BookedKept == ASSUME B!TypeOK, B!Booked, B!Next PROVE B!Booked'
<1>1. ASSUME UNCHANGED <<mode, open, solves, awards>> PROVE B!Booked'
  BY <1>1 DEF B!Booked, B!PrereqsMet, B!Solved, B!AccountOf, B!Owner
<1>2. ASSUME NEW u, NEW c, B!Submit(u, c) PROVE B!Booked'
  <2> DEFINE row == [of |-> "solve", user |-> u, team |-> TeamOf[u], chal |-> c, value |-> 0, date |-> now]
  <2>1. B!Starts(row) /\ row.team = TeamOf[row.user]
    BY <1>2 DEF B!Submit
  <2> QED BY <2>1, BookedOpens
<1>3. ASSUME NEW u, NEW v, B!Charge(u, v) PROVE B!Booked'
  <2> DEFINE row == [of |-> "game", user |-> u, team |-> TeamOf[u], chal |-> 0, value |-> v, date |-> now]
  <2>1. B!Starts(row) /\ row.team = TeamOf[row.user]
    BY <1>3 DEF B!Charge
  <2> QED BY <2>1, BookedOpens
<1>4. ASSUME NEW u, NEW v, B!GrantUserAward(u, v) PROVE B!Booked'
  <2> DEFINE row == [of |-> "grant", user |-> u, team |-> TeamOf[u], chal |-> 0, value |-> v, date |-> now]
  <2>1. B!Starts(row) /\ row.team = TeamOf[row.user]
    BY <1>4 DEF B!GrantUserAward
  <2> QED BY <2>1, BookedOpens
<1>5. ASSUME NEW p \in Grants, B!GrantTeamAward(p[1], p[2]) PROVE B!Booked'
  <2>1. p[1] \in B!Teams
    BY FrontConstants, <1>5 DEF B!BoardAssumption, B!Teams
  <2>2. B!Captain(p[1]) \in Players /\ TeamOf[B!Captain(p[1])] = p[1]
    BY <2>1, CaptainIsMember
  <2> DEFINE row == [of |-> "grant", user |-> B!Captain(p[1]), team |-> p[1], chal |-> 0, value |-> p[2],
                     date |-> now]
  <2>3. B!Starts(row) /\ row.team = TeamOf[row.user]
    BY <1>5, <2>2 DEF B!GrantTeamAward
  <2> QED BY <2>3, BookedOpens
<1>6. ASSUME NEW i \in DOMAIN awards, B!RevokeManualAward(i) PROVE B!Booked'
  <2> DEFINE Fit == {w \in B!Awards : w.team = TeamOf[w.user]}
  <2>1. awards \in Seq(Fit)
    <3>1. awards \in Seq(B!Awards) /\ \A j \in DOMAIN awards : awards[j] \in B!Awards /\ awards[j] \in Fit
      BY DEF B!TypeOK, B!Booked
    <3> HIDE DEF Fit
    <3> QED BY <3>1
  <2>2. awards' = B!RemoveAt(awards, i) /\ UNCHANGED <<mode, open, solves>>
    BY <1>6 DEF B!RevokeManualAward
  <2>3. awards' \in Seq(Fit) /\ Len(awards') = Len(awards) - 1
    <3> HIDE DEF Fit
    <3> QED BY <2>1, <2>2, RemovalShortens
  <2>4. \A j \in DOMAIN awards' : awards'[j].team = TeamOf[awards'[j].user]
    <3>1. \A j \in DOMAIN awards' : awards'[j] \in Fit
      <4> HIDE DEF Fit
      <4> QED BY <2>3
    <3> QED BY <3>1
  <2>5. /\ IsFiniteSet(open) /\ Cardinality(open) \in Nat /\ Len(solves) \in Nat /\ Len(awards) \in Nat /\ MaxRows \in Nat
        /\ Len(solves) + Len(awards) + Cardinality(open) <= MaxRows
    BY BoardMeasures, FS_CardinalityType, FrontConstants DEF B!Booked, B!TypeOK, B!BoardAssumption
  <2>6. Len(solves) + (Len(awards) - 1) + Cardinality(open) <= MaxRows
    BY <2>5
  <2>7. \A j \in DOMAIN solves' : /\ solves'[j].team = TeamOf[solves'[j].user]
                                  /\ B!PrereqsMet(B!AccountOf(solves[j]), solves[j].chal)'
    BY <2>2 DEF B!Booked, B!PrereqsMet, B!Solved, B!AccountOf, B!Owner
  <2>8. \A t \in open' : t.team = TeamOf[t.user]
    BY <2>2 DEF B!Booked
  <2>9. Len(solves') + Len(awards') + Cardinality(open') <= MaxRows
    BY <2>2, <2>3, <2>6
  <2> QED BY <2>2, <2>4, <2>5, <2>7, <2>8, <2>9, BoardMeasures DEF B!Booked
<1>7. ASSUME NEW t \in open, B!End(t) PROVE B!Booked'
  BY <1>7, BookedEnds
<1> QED BY <1>1, <1>2, <1>3, <1>4, <1>5, <1>6, <1>7
        DEF B!Next, B!Tick, B!Moderate, B!SetState, B!OpenList, B!ReadPage

(* Sums of events, by the function they sum.                               *)
LEMMA SumIsTotal ==
  ASSUME NEW E, IsFiniteSet(E)
  PROVE  B!SumOf(E) = Total([e \in E |-> e.value], E)
<1> DEFINE f == [e \in E |-> e.value]
           Fold(g) == g = [s \in SUBSET E |-> IF s = {} THEN 0
                             ELSE (CHOOSE x \in s : TRUE).value + g[s \ {CHOOSE x \in s : TRUE}]]
<1>1. B!SumOf(E) = (CHOOSE g : Fold(g))[E]
  BY DEF B!SumOf, B!MapThenSumSet, B!MapThenFoldSet
<1>2. ASSUME NEW s \in SUBSET E, s # {}
      PROVE  f[Pick(s)] = (CHOOSE x \in s : TRUE).value
  <2>1. Pick(s) \in E
    BY <1>2, PickIn
  <2> QED BY <2>1 DEF Pick
<1>3. ASSUME NEW g PROVE Fold(g) <=> Sums(f, E, g)
  <2>1. \A s \in SUBSET E :
          (IF s = {} THEN 0 ELSE (CHOOSE x \in s : TRUE).value + g[s \ {CHOOSE x \in s : TRUE}])
            = (IF s = {} THEN 0 ELSE f[Pick(s)] + g[s \ {Pick(s)}])
    BY <1>2 DEF Pick
  <2> HIDE DEF f
  <2>2. [s \in SUBSET E |-> IF s = {} THEN 0
                            ELSE (CHOOSE x \in s : TRUE).value + g[s \ {CHOOSE x \in s : TRUE}]]
          = [s \in SUBSET E |-> IF s = {} THEN 0 ELSE f[Pick(s)] + g[s \ {Pick(s)}]]
    BY <2>1
  <2> QED BY <2>2 DEF Sums
<1> HIDE DEF f, Fold
<1>4. PICK g : Sums(f, E, g)
  BY SumsExist
<1>5. Fold(CHOOSE h : Fold(h))
  BY <1>3, <1>4
<1>6. (CHOOSE h : Fold(h))[E] = Total(f, E)
  BY <1>3, <1>5, TotalOf
<1> QED BY <1>1, <1>6 DEF f

Evs == [leg : {1, 2}, id : Nat, account : Nat, value : Int, date : Nat \ {0}]

LEMMA SumInt ==
  ASSUME NEW E, IsFiniteSet(E), \A e \in E : e.value \in Int
  PROVE  B!SumOf(E) \in Int
<1> DEFINE f == [e \in E |-> e.value]
<1>1. \A e \in E : f[e] \in Int
  OBVIOUS
<1> HIDE DEF f
<1>2. Total(f, E) \in Int
  BY <1>1, TotalInt
<1> QED BY <1>2, SumIsTotal DEF f

LEMMA SumEmpty == B!SumOf({}) = 0
<1>1. IsFiniteSet({})
  BY FS_EmptySet
<1> QED BY <1>1, SumIsTotal, TotalEmpty

(* One more event.                                                         *)
LEMMA SumMore ==
  ASSUME NEW E, IsFiniteSet(E), NEW x, x \notin E, \A e \in E \cup {x} : e.value \in Int
  PROVE  B!SumOf(E \cup {x}) = B!SumOf(E) + x.value
<1> DEFINE G == E \cup {x}
           f == [e \in G |-> e.value]
           h == [e \in E |-> e.value]
<1>1. IsFiniteSet(G) /\ x \in G /\ G \ {x} = E
  BY FS_AddElement
<1>2. \A e \in G : f[e] \in Int
  OBVIOUS
<1>3. \A e \in E : f[e] = h[e]
  OBVIOUS
<1>4. f[x] = x.value
  OBVIOUS
<1>5. B!SumOf(G) = Total(f, G) /\ B!SumOf(E) = Total(h, E)
  BY <1>1, SumIsTotal
<1> HIDE DEF G, f, h
<1>6. Total(f, G) = f[x] + Total(f, E)
  BY <1>1, <1>2, TotalTake
<1>7. Total(f, E) = Total(h, E)
  BY <1>3, TotalSame
<1>8. Total(f, E) \in Int /\ f[x] \in Int
  BY <1>1, <1>2, TotalInt
<1> QED BY <1>4, <1>5, <1>6, <1>7, <1>8 DEF G

(* The greatest of a set of numbers.                                       *)
LEMMA MaxIs ==
  ASSUME NEW S, NEW m \in S, S \subseteq Int, \A x \in S : x <= m
  PROVE  B!Max(S) = m
<1>1. \A x \in S : m >= x
  OBVIOUS
<1>2. B!Max(S) \in S /\ \A x \in S : B!Max(S) >= x
  BY <1>1 DEF B!Max
<1> DEFINE most == B!Max(S)
<1>3. most \in Int /\ m \in Int /\ most >= m /\ m >= most
  BY <1>1, <1>2
<1> HIDE DEF most
<1>4. most = m
  BY <1>3
<1> QED BY <1>4 DEF most

(* The last date of events, with one more.                                 *)
LEMMA LastIs ==
  ASSUME NEW E, NEW m \in E, \A e \in E : e.date \in Int /\ e.date <= m.date
  PROVE  B!LastDate(E) = m.date
<1> DEFINE S == {e.date : e \in E}
<1>1. m.date \in S /\ S \subseteq Int /\ \A x \in S : x <= m.date
  OBVIOUS
<1> HIDE DEF S
<1>2. B!Max(S) = m.date
  BY <1>1, MaxIs
<1> QED BY <1>2 DEF B!LastDate, S

LEMMA LatestEvent ==
  ASSUME NEW E, IsFiniteSet(E), E # {}, \A e \in E : e.date \in Nat
  PROVE  \E m \in E : \A e \in E : e.date <= m.date
<1> DEFINE Bad == {s \in SUBSET E : s # {} /\ ~ \E m \in s : \A e \in s : e.date <= m.date}
<1>1. ASSUME Bad # {} PROVE FALSE
  <2>1. PICK s \in Bad : \A x \in s : s \ {x} \notin Bad
    BY <1>1, FS_Subset, SmallestOf
  <2>2. PICK y \in s : TRUE
    OBVIOUS
  <2>3. y.date \in Nat
    OBVIOUS
  <2>4. CASE s \ {y} = {}
    <3>1. \A e \in s : e.date <= y.date
      BY <2>3, <2>4
    <3> QED BY <3>1
  <2>5. CASE s \ {y} # {}
    <3>1. PICK m \in s \ {y} : \A e \in s \ {y} : e.date <= m.date
      BY <2>1, <2>5
    <3>2. m.date \in Nat /\ \A e \in s : e.date \in Nat
      OBVIOUS
    <3>3. CASE m.date <= y.date
      <4>1. \A e \in s : e.date <= y.date
        BY <2>3, <3>1, <3>2, <3>3
      <4> QED BY <4>1
    <3>4. CASE y.date <= m.date
      <4>1. \A e \in s : e.date <= m.date
        BY <3>1, <3>2, <3>4
      <4> QED BY <4>1
    <3> QED BY <2>3, <3>2, <3>3, <3>4
  <2> QED BY <2>4, <2>5
<1> QED BY <1>1

LEMMA LastMore ==
  ASSUME NEW E, IsFiniteSet(E), E # {}, NEW x, \A e \in E \cup {x} : e.date \in Nat
  PROVE  B!LastDate(E \cup {x}) = IF x.date > B!LastDate(E) THEN x.date ELSE B!LastDate(E)
<1>1. PICK m \in E : \A e \in E : e.date <= m.date
  BY LatestEvent
<1>2. B!LastDate(E) = m.date
  BY <1>1, LastIs
<1> DEFINE G == E \cup {x}
<1>3. m \in G /\ x \in G /\ \A e \in G : e = x \/ e \in E
  OBVIOUS
<1>4. \A e \in G : e.date \in Int
  OBVIOUS
<1> HIDE DEF G
<1>5. CASE x.date > m.date
  <2>1. \A e \in G : e.date <= x.date
    BY <1>1, <1>3, <1>4, <1>5
  <2>2. B!LastDate(G) = x.date
    BY <1>3, <1>4, <2>1, LastIs
  <2> QED BY <1>2, <1>5, <2>2 DEF G
<1>6. CASE ~(x.date > m.date)
  <2>1. \A e \in G : e.date <= m.date
    BY <1>1, <1>3, <1>4, <1>6
  <2>2. B!LastDate(G) = m.date
    BY <1>3, <1>4, <2>1, LastIs
  <2> QED BY <1>2, <1>6, <2>2 DEF G
<1> QED BY <1>5, <1>6

-----------------------------------------------------------------------------
(* One account's curve *)

(* The order of a curve is strict, and decides between any two events of   *)
(* different rows.                                                         *)
LEMMA CurveOrder ==
  ASSUME NEW E, IsFiniteSet(E), E \subseteq Evs,
         \A x, y \in E : x.leg = y.leg /\ x.id = y.id => x = y
  PROVE  LET R == {p \in E \X E : B!Earlier(p[1], p[2])}
         IN  StrictTotal(R, E) /\ Lists(B!InOrder(E, B!Earlier), R, E)
<1> DEFINE R == {p \in E \X E : B!Earlier(p[1], p[2])}
<1>1. ASSUME NEW x \in E, NEW y \in E
      PROVE  <<x, y>> \in R <=> B!Earlier(x, y)
  OBVIOUS
<1> HIDE DEF R
<1>2. ASSUME NEW x \in E PROVE x.leg \in Int /\ x.id \in Int /\ x.value \in Int /\ x.date \in Int
  BY DEF Evs
<1>3. StrictTotal(R, E)
  <2>1. \A x \in E : ~B!Earlier(x, x)
    BY <1>2 DEF B!Earlier
  <2>2. \A x, y, z \in E : B!Earlier(x, y) /\ B!Earlier(y, z) => B!Earlier(x, z)
    BY <1>2 DEF B!Earlier
  <2>3. \A x, y \in E : x = y \/ B!Earlier(x, y) \/ B!Earlier(y, x)
    BY <1>2 DEF B!Earlier
  <2> QED BY <1>1, <2>1, <2>2, <2>3 DEF StrictTotal
<1>4. B!InOrder(E, B!Earlier) = CHOOSE s \in [1..B!Cardinality(E) -> E] :
                                  \A i, j \in DOMAIN s : i < j => B!Earlier(s[i], s[j])
  BY DEF B!InOrder
<1>5. PICK v : Lists(v, R, E)
  BY <1>3, ListExists
<1>6. ASSUME NEW s
      PROVE  Lists(s, R, E) <=> /\ s \in [1..B!Cardinality(E) -> E]
                                /\ \A i, j \in DOMAIN s : i < j => B!Earlier(s[i], s[j])
  BY <1>1, BoardMeasures DEF Lists
<1>7. Lists(B!InOrder(E, B!Earlier), R, E)
  BY <1>4, <1>5, <1>6
<1> QED BY <1>3, <1>7 DEF R

(* A curve ends with everything on it: at the sum, on the last date.       *)
LEMMA CurveEnd ==
  ASSUME NEW E, IsFiniteSet(E), E \subseteq Evs,
         \A x, y \in E : x.leg = y.leg /\ x.id = y.id => x = y
  PROVE  /\ B!Curved(E) = <<>> <=> E = {}
         /\ B!EndOf(B!Curved(E)).score = B!SumOf(E)
         /\ E # {} => B!EndOf(B!Curved(E)).date = B!LastDate(E)
<1> DEFINE R == {p \in E \X E : B!Earlier(p[1], p[2])}
           o == B!InOrder(E, B!Earlier)
           n0 == Cardinality(E)
           c == B!Curved(E)
           Sofar(e) == {x \in E : x.date < e.date \/ (x.date = e.date /\ x.value <= e.value)}
<1>1. StrictTotal(R, E) /\ Lists(o, R, E)
  BY CurveOrder
<1>2. n0 \in Nat /\ DOMAIN o = 1..n0
  BY <1>1, FS_CardinalityType DEF Lists
<1>3. c = [i \in 1..n0 |-> [date |-> o[i].date, delta |-> o[i].value, score |-> B!SumOf(Sofar(o[i]))]]
  BY <1>2 DEF B!Curved
<1>4. CASE E = {}
  <2>1. n0 = 0
    BY <1>4, FS_EmptySet
  <2>2. c = <<>>
    <3> HIDE DEF c, n0
    <3> QED BY <1>3, <2>1
  <2>3. B!EndOf(<<>>).score = 0
    BY DEF B!EndOf
  <2> QED BY <1>4, <2>2, <2>3, SumEmpty
<1>5. CASE E # {}
  <2>1. n0 \in Nat \ {0} /\ o[n0] \in E /\ \A x \in E : x = o[n0] \/ <<x, o[n0]>> \in R
    BY <1>1, <1>5, ListsLast
  <2>2. ASSUME NEW x \in E
        PROVE  x.date < o[n0].date \/ (x.date = o[n0].date /\ x.value <= o[n0].value)
    <3>1. x.date \in Int /\ x.value \in Int
      BY DEF Evs
    <3>2. x = o[n0] \/ B!Earlier(x, o[n0])
      BY <2>1
    <3> HIDE DEF o, n0
    <3> QED BY <3>1, <3>2, <2>1 DEF B!Earlier, Evs
  <2>3. Sofar(o[n0]) = E
    BY <2>2
  <2>4. /\ c # <<>> /\ B!Last(c) = [date |-> o[n0].date, delta |-> o[n0].value, score |-> B!SumOf(Sofar(o[n0]))]
    <3> HIDE DEF c, n0, o, Sofar
    <3>1. DOMAIN c = 1..n0 /\ n0 \in DOMAIN c
      BY <1>3, <2>1
    <3>2. Len(c) = n0
      BY <1>3, <2>1
    <3>3. c # <<>>
      BY <3>2, <2>1
    <3> QED BY <3>1, <3>2, <3>3, <1>3 DEF B!Last
  <2>5. B!EndOf(c).score = B!SumOf(E) /\ B!EndOf(c).date = o[n0].date
    <3> HIDE DEF c, n0, o, Sofar
    <3> QED BY <2>3, <2>4 DEF B!EndOf
  <2>6. \A x \in E : x.date \in Int /\ x.date <= o[n0].date
    <3> HIDE DEF o, n0
    <3> QED BY <2>1, <2>2 DEF Evs
  <2>7. B!LastDate(E) = o[n0].date
    <3> HIDE DEF o, n0
    <3> QED BY <2>1, <2>6, LastIs
  <2> HIDE DEF c, o, n0
  <2> QED BY <1>5, <2>4, <2>5, <2>7 DEF c
<1> QED BY <1>4, <1>5

-----------------------------------------------------------------------------
(* The events of a horizon, and what is summed of them *)

LEMMA BookRows ==
  ASSUME B!TypeOK, NEW book, book = solves \/ book = awards
  PROVE  /\ IsFiniteSet(DOMAIN book) /\ DOMAIN book \subseteq Nat
         /\ \A i \in DOMAIN book : /\ book[i].user \in Players /\ book[i].team \in B!Teams
                                   /\ book[i].value \in Int /\ book[i].date \in Nat \ {0}
<1>1. DOMAIN book = 1..Len(book) /\ Len(book) \in Nat
  BY DEF B!TypeOK
<1>2. IsFiniteSet(1..Len(book))
  BY <1>1, FS_Interval
<1>3. \A i \in DOMAIN book : /\ book[i].user \in Players /\ book[i].team \in B!Teams
                             /\ book[i].value \in Int /\ book[i].date \in B!Dates
  <2>1. (\A i \in DOMAIN solves : solves[i] \in B!Solves) /\ \A i \in DOMAIN awards : awards[i] \in B!Awards
    BY DEF B!TypeOK
  <2>2. CASE book = solves
    BY <2>1, <2>2 DEF B!Solves
  <2>3. CASE book = awards
    BY <2>1, <2>3 DEF B!Awards
  <2> QED BY <2>2, <2>3
<1>4. B!Dates \subseteq Nat \ {0}
  BY DEF B!Dates, B!TypeOK
<1>5. DOMAIN book \subseteq Nat
  BY <1>1
<1> HIDE DEF B!TypeOK
<1> QED BY <1>1, <1>2, <1>3, <1>4, <1>5

Accs(kd) == IF kd = "teams" THEN B!Teams ELSE Players

LEMMA AccountIds ==
  ASSUME NEW kd
  PROVE  Accs(kd) \subseteq Nat /\ IsFiniteSet(Accs(kd)) /\ IsFiniteSet(B!Teams) /\ IsFiniteSet(Players)
<1>1. IsFiniteSet(Players) /\ Players \subseteq Nat /\ \A u \in Players : TeamOf[u] \in Nat
  BY FrontConstants, BoardMeasures DEF B!BoardAssumption
<1>2. IsFiniteSet({TeamOf[u] : u \in Players})
  BY <1>1, ImageFinite
<1>3. B!Teams = {TeamOf[u] : u \in Players} /\ B!Teams \subseteq Nat
  BY <1>1 DEF B!Teams
<1> QED BY <1>1, <1>2, <1>3 DEF Accs

LEMMA LegEvents ==
  ASSUME B!TypeOK, NEW k, NEW kd, NEW leg \in {1, 2}, NEW book, book = solves \/ book = awards
  PROVE  /\ IsFiniteSet(B!EventsOf(book, leg, k, kd)) /\ B!EventsOf(book, leg, k, kd) \subseteq Evs
         /\ \A e \in B!EventsOf(book, leg, k, kd) : e.leg = leg /\ e.value # 0 /\ e.account \in Accs(kd)
         /\ \A x, y \in B!EventsOf(book, leg, k, kd) : x.id = y.id => x = y
<1> DEFINE I0 == {j \in B!Before(book, k) : book[j].value # 0}
           f == [i \in I0 |-> [leg |-> leg, id |-> i, account |-> B!Owner(kd, book[i]), value |-> book[i].value,
                               date |-> book[i].date]]
           G == B!EventsOf(book, leg, k, kd)
<1>1. G = {f[i] : i \in I0}
  BY DEF B!EventsOf
<1>2. I0 \subseteq DOMAIN book
  BY DEF B!Before
<1>3. IsFiniteSet(I0)
  BY <1>2, BookRows, FS_Subset
<1>4. ASSUME NEW i \in I0
      PROVE  /\ f[i] \in Evs /\ f[i].leg = leg /\ f[i].id = i /\ f[i].value # 0 /\ f[i].account \in Accs(kd)
  <2>1. B!Owner(kd, book[i]) \in Accs(kd)
    BY <1>2, BookRows DEF B!Owner, Accs
  <2>2. i \in Nat /\ book[i].value \in Int /\ book[i].date \in Nat \ {0} /\ Accs(kd) \subseteq Nat
    BY <1>2, BookRows, AccountIds
  <2> QED BY <2>1, <2>2 DEF Evs
<1> HIDE DEF f, I0
<1>5. IsFiniteSet({f[i] : i \in I0})
  BY <1>3, ImageFinite
<1> HIDE DEF G
<1> QED BY <1>1, <1>4, <1>5 DEF G

LEMMA ScoringEvents ==
  ASSUME B!TypeOK, NEW k, NEW kd
  PROVE  /\ IsFiniteSet(B!Scoring(k, kd)) /\ B!Scoring(k, kd) \subseteq Evs
         /\ \A e \in B!Scoring(k, kd) : e.value # 0 /\ e.account \in Accs(kd)
         /\ \A x, y \in B!Scoring(k, kd) : x.leg = y.leg /\ x.id = y.id => x = y
<1> DEFINE G == B!EventsOf(solves, 1, k, kd)
           H == B!EventsOf(awards, 2, k, kd)
<1>1. B!Scoring(k, kd) = G \cup H
  BY DEF B!Scoring
<1>2. IsFiniteSet(G) /\ G \subseteq Evs /\ (\A e \in G : e.leg = 1 /\ e.value # 0 /\ e.account \in Accs(kd))
      /\ \A x, y \in G : x.id = y.id => x = y
  BY LegEvents
<1>3. IsFiniteSet(H) /\ H \subseteq Evs /\ (\A e \in H : e.leg = 2 /\ e.value # 0 /\ e.account \in Accs(kd))
      /\ \A x, y \in H : x.id = y.id => x = y
  BY LegEvents
<1> HIDE DEF G, H
<1>4. IsFiniteSet(G \cup H)
  BY <1>2, <1>3, FS_Union
<1> QED BY <1>1, <1>2, <1>3, <1>4

Values(book) == [i \in DOMAIN book |-> book[i].value]
Owned(book, k, kd, a) == {i \in B!Before(book, k) : B!Owner(kd, book[i]) = a}

(* What an account's events of one leg sum to is read off its rows.        *)
LEMMA LegSum ==
  ASSUME B!TypeOK, NEW k, NEW kd, NEW leg \in {1, 2}, NEW book, book = solves \/ book = awards, NEW a
  PROVE  B!SumOf({e \in B!EventsOf(book, leg, k, kd) : e.account = a}) = Total(Values(book), Owned(book, k, kd, a))
<1> DEFINE G == {e \in B!EventsOf(book, leg, k, kd) : e.account = a}
           I1 == Owned(book, k, kd, a)
           I0 == {i \in I1 : book[i].value # 0}
           Event1(i) == [leg |-> leg, id |-> i, account |-> B!Owner(kd, book[i]), value |-> book[i].value,
                         date |-> book[i].date]
           to == [i \in I0 |-> Event1(i)]
           f == Values(book)
           g == [e \in G |-> e.value]
<1>1. I1 \subseteq DOMAIN book /\ IsFiniteSet(I1) /\ I0 \in SUBSET I1 /\ IsFiniteSet(I0)
  <2>1. I1 \subseteq DOMAIN book /\ I0 \subseteq DOMAIN book
    BY DEF Owned, B!Before
  <2> QED BY <2>1, BookRows, FS_Subset
<1>2. \A i \in I1 : f[i] \in Int /\ f[i] = book[i].value
  BY <1>1, BookRows DEF Values
<1>3. IsFiniteSet(G)
  BY LegEvents, FS_Subset
<1>4. ASSUME NEW i \in I0 PROVE to[i] \in G /\ to[i].id = i /\ to[i].value = book[i].value
  <2>1. Event1(i) \in B!EventsOf(book, leg, k, kd) /\ Event1(i).account = a
    BY DEF Owned, B!EventsOf
  <2> QED BY <2>1
<1>5. \A e \in G : \E i \in I0 : to[i] = e
  <2> SUFFICES ASSUME NEW e \in G PROVE \E i \in I0 : to[i] = e
    OBVIOUS
  <2>1. PICK i \in {j \in B!Before(book, k) : book[j].value # 0} : e = Event1(i)
    BY DEF B!EventsOf
  <2>2. i \in I0
    BY <2>1 DEF Owned
  <2> QED BY <2>1, <2>2
<1>6. to \in [I0 -> G]
  BY <1>4
<1>7. \A i \in I0 : f[i] \in Int /\ f[i] = g[to[i]]
  BY <1>1, <1>2, <1>4
<1>8. \A i, j \in I0 : to[i] = to[j] => i = j
  BY <1>4
<1>9. B!SumOf(G) = Total(g, G)
  BY <1>3, SumIsTotal
<1>10. \A i \in I1 \ I0 : f[i] = 0
  BY <1>2
<1> HIDE DEF to, f, g, G, I0, I1
<1>11. Total(f, I0) = Total(g, G)
  BY <1>1, <1>3, <1>5, <1>6, <1>7, <1>8, TotalOnto
<1>12. Total(f, I1) = Total(f, I0)
  BY <1>1, <1>2, <1>10, TotalWhere
<1> QED BY <1>9, <1>11, <1>12 DEF G, f, I1

LEMMA OwnedInt ==
  ASSUME B!TypeOK, NEW k, NEW kd, NEW book, book = solves \/ book = awards, NEW a
  PROVE  IsFiniteSet(Owned(book, k, kd, a)) /\ Total(Values(book), Owned(book, k, kd, a)) \in Int
         /\ \A i \in Owned(book, k, kd, a) : Values(book)[i] \in Int
<1>1. Owned(book, k, kd, a) \subseteq DOMAIN book
  BY DEF Owned, B!Before
<1>2. IsFiniteSet(Owned(book, k, kd, a))
  BY <1>1, BookRows, FS_Subset
<1>3. \A i \in Owned(book, k, kd, a) : Values(book)[i] \in Int
  BY <1>1, BookRows DEF Values
<1> QED BY <1>2, <1>3, TotalInt

(* An account's score is that of its solves and that of its awards.        *)
LEMMA ScoreSum ==
  ASSUME B!TypeOK, NEW k, NEW kd, NEW a
  PROVE  B!SumOf({e \in B!Scoring(k, kd) : e.account = a})
           = Total(Values(solves), Owned(solves, k, kd, a)) + Total(Values(awards), Owned(awards, k, kd, a))
<1> DEFINE G == {e \in B!EventsOf(solves, 1, k, kd) : e.account = a}
           H == {e \in B!EventsOf(awards, 2, k, kd) : e.account = a}
           f == [e \in G \cup H |-> e.value]
           g == [e \in G |-> e.value]
           h == [e \in H |-> e.value]
<1>1. {e \in B!Scoring(k, kd) : e.account = a} = G \cup H
  BY DEF B!Scoring
<1>2. IsFiniteSet(G) /\ IsFiniteSet(H) /\ G \cap H = {} /\ \A e \in G \cup H : e.value \in Int
  <2>1. /\ IsFiniteSet(B!EventsOf(solves, 1, k, kd)) /\ B!EventsOf(solves, 1, k, kd) \subseteq Evs
        /\ \A e \in B!EventsOf(solves, 1, k, kd) : e.leg = 1
    BY LegEvents
  <2>2. /\ IsFiniteSet(B!EventsOf(awards, 2, k, kd)) /\ B!EventsOf(awards, 2, k, kd) \subseteq Evs
        /\ \A e \in B!EventsOf(awards, 2, k, kd) : e.leg = 2
    BY LegEvents
  <2>3. IsFiniteSet(G) /\ IsFiniteSet(H)
    BY <2>1, <2>2, FS_Subset
  <2>4. \A e \in G \cup H : e.value \in Int
    BY <2>1, <2>2 DEF Evs
  <2> QED BY <2>1, <2>2, <2>3, <2>4
<1>3. B!SumOf(G) = Total(g, G) /\ B!SumOf(H) = Total(h, H)
  BY <1>2, SumIsTotal
<1>4. IsFiniteSet(G \cup H)
  BY <1>2, FS_Union
<1>5. B!SumOf(G \cup H) = Total(f, G \cup H)
  BY <1>4, SumIsTotal
<1>6. (\A e \in G \cup H : f[e] \in Int) /\ (\A e \in G : f[e] = g[e]) /\ (\A e \in H : f[e] = h[e])
  BY <1>2
<1>7. /\ B!SumOf(G) = Total(Values(solves), Owned(solves, k, kd, a))
      /\ B!SumOf(H) = Total(Values(awards), Owned(awards, k, kd, a))
  BY LegSum
<1> HIDE DEF G, H, f, g, h
<1>8. Total(f, G \cup H) = Total(f, G) + Total(f, H)
  BY <1>2, <1>6, TotalSplit
<1>9. Total(f, G) = Total(g, G) /\ Total(f, H) = Total(h, H)
  BY <1>2, <1>6, TotalSame
<1> QED BY <1>1, <1>3, <1>5, <1>7, <1>8, <1>9

-----------------------------------------------------------------------------
(* A user's page, and a team's members *)

LEMMA PageSum ==
  ASSUME B!TypeOK, NEW k, NEW book, book = solves \/ book = awards, NEW u
  PROVE  B!SumOf({[id |-> i, value |-> book[i].value] : i \in Owned(book, k, "users", u)})
           = Total(Values(book), Owned(book, k, "users", u))
<1> DEFINE I0 == Owned(book, k, "users", u)
           to == [i \in I0 |-> [id |-> i, value |-> book[i].value]]
           G == {to[i] : i \in I0}
           f == Values(book)
           g == [e \in G |-> e.value]
<1>1. IsFiniteSet(I0) /\ (\A i \in I0 : f[i] \in Int) /\ I0 \subseteq DOMAIN book
  <2>1. I0 \subseteq DOMAIN book
    BY DEF Owned, B!Before
  <2> QED BY <2>1, OwnedInt
<1>2. {[id |-> i, value |-> book[i].value] : i \in I0} = G
  OBVIOUS
<1>3. \A i \in I0 : to[i] \in G /\ to[i].id = i /\ to[i].value = book[i].value
  OBVIOUS
<1>4. \A i \in I0 : f[i] = book[i].value
  BY <1>1 DEF Values
<1>5. \A i \in I0 : g[to[i]] = to[i].value
  OBVIOUS
<1>6. to \in [I0 -> G] /\ \A e \in G : \E i \in I0 : to[i] = e
  OBVIOUS
<1> HIDE DEF to, I0, f
<1>7. IsFiniteSet(G)
  BY <1>1, ImageFinite
<1>8. B!SumOf(G) = Total(g, G)
  BY <1>7, SumIsTotal
<1>9. \A i, j \in I0 : to[i] = to[j] => i = j
  BY <1>3
<1> HIDE DEF G, g
<1>10. Total(f, I0) = Total(g, G)
  BY <1>1, <1>3, <1>4, <1>5, <1>6, <1>7, <1>9, TotalOnto
<1> QED BY <1>2, <1>8, <1>10 DEF I0, f

LEMMA PageScore ==
  ASSUME B!TypeOK, NEW k, NEW u
  PROVE  /\ B!UserProfile(u, k, TRUE).score
              = Total(Values(solves), Owned(solves, k, "users", u)) + Total(Values(awards), Owned(awards, k, "users", u))
         /\ B!UserProfile(u, k, TRUE).history = B!Curved({e \in B!Scoring(k, "users") : e.account = u})
<1>1. /\ {i \in B!Before(solves, k) : solves[i].user = u} = Owned(solves, k, "users", u)
      /\ {i \in B!Before(awards, k) : awards[i].user = u} = Owned(awards, k, "users", u)
  BY DEF Owned, B!Owner
<1>2. B!UserProfile(u, k, TRUE).score
        = B!SumOf({[id |-> i, value |-> solves[i].value] : i \in {j \in B!Before(solves, k) : solves[j].user = u}})
          + B!SumOf({[id |-> i, value |-> awards[i].value] : i \in {j \in B!Before(awards, k) : awards[j].user = u}})
  BY DEF B!UserProfile
<1>3. B!UserProfile(u, k, TRUE).history = B!Curved({e \in B!Scoring(k, "users") : e.account = u})
  BY DEF B!UserProfile
<1>4. /\ B!SumOf({[id |-> i, value |-> solves[i].value] : i \in Owned(solves, k, "users", u)})
           = Total(Values(solves), Owned(solves, k, "users", u))
      /\ B!SumOf({[id |-> i, value |-> awards[i].value] : i \in Owned(awards, k, "users", u)})
           = Total(Values(awards), Owned(awards, k, "users", u))
  BY PageSum
<1> QED BY <1>1, <1>2, <1>3, <1>4

(* A user's total is where their curve ends.                               *)
LEMMA PageAgrees ==
  ASSUME B!TypeOK, NEW k, NEW u
  PROVE  B!UserProfile(u, k, TRUE).score = B!EndOf(B!UserProfile(u, k, TRUE).history).score
<1> DEFINE G == {e \in B!Scoring(k, "users") : e.account = u}
<1>1. IsFiniteSet(G) /\ G \subseteq Evs /\ \A x, y \in G : x.leg = y.leg /\ x.id = y.id => x = y
  <2>1. /\ IsFiniteSet(B!Scoring(k, "users")) /\ B!Scoring(k, "users") \subseteq Evs
        /\ \A x, y \in B!Scoring(k, "users") : x.leg = y.leg /\ x.id = y.id => x = y
    BY ScoringEvents
  <2> QED BY <2>1, FS_Subset
<1>2. B!SumOf(G) = B!UserProfile(u, k, TRUE).score
  <2>1. B!SumOf(G) = Total(Values(solves), Owned(solves, k, "users", u))
                       + Total(Values(awards), Owned(awards, k, "users", u))
    BY ScoreSum
  <2> HIDE DEF G
  <2> QED BY <2>1, PageScore
<1> HIDE DEF G
<1>3. B!EndOf(B!Curved(G)).score = B!SumOf(G)
  BY <1>1, CurveEnd
<1>4. B!UserProfile(u, k, TRUE).history = B!Curved(G)
  BY PageScore DEF G
<1> QED BY <1>2, <1>3, <1>4

(* What a team's rows sum to is what its members' do.                      *)
LEMMA TeamRows ==
  ASSUME B!TypeOK, B!Booked, NEW k, NEW book, book = solves \/ book = awards, NEW t
  PROVE  Total(Values(book), Owned(book, k, "teams", t))
           = Total([u \in {v \in Players : TeamOf[v] = t} |-> Total(Values(book), Owned(book, k, "users", u))],
                   {v \in Players : TeamOf[v] = t})
<1> DEFINE I0 == Owned(book, k, "teams", t)
           M0 == {v \in Players : TeamOf[v] = t}
           f == Values(book)
           to == [i \in I0 |-> book[i].user]
           g == [u \in M0 |-> Total(f, {i \in I0 : to[i] = u})]
           h == [u \in M0 |-> Total(f, Owned(book, k, "users", u))]
<1>1. \A i \in DOMAIN book : book[i].team = TeamOf[book[i].user] /\ book[i].user \in Players
  BY BookRows DEF B!Booked
<1>2. \A i \in I0 : i \in DOMAIN book /\ book[i].team = t
  BY DEF Owned, B!Before, B!Owner
<1>3. to \in [I0 -> M0]
  BY <1>1, <1>2
<1>4. IsFiniteSet(I0) /\ IsFiniteSet(M0) /\ \A i \in I0 : f[i] \in Int
  BY OwnedInt, AccountIds, FS_Subset
<1>5. ASSUME NEW u \in M0 PROVE {i \in I0 : to[i] = u} = Owned(book, k, "users", u)
  <2>1. \A i \in B!Before(book, k) : i \in DOMAIN book
    BY DEF B!Before
  <2> QED BY <1>1, <2>1 DEF Owned, B!Owner
<1>6. g = h
  BY <1>5
<1> HIDE DEF I0, M0, f, to
<1>7. Total(f, I0) = Total(g, M0)
  BY <1>3, <1>4, TotalFibres
<1> HIDE DEF g, h
<1>8. Total(f, I0) = Total(h, M0)
  BY <1>6, <1>7
<1> QED BY <1>8 DEF I0, M0, f, h

(* Sums over members, by the function they sum.                            *)
LEMMA MembersSum ==
  ASSUME NEW k, NEW M0, IsFiniteSet(M0)
  PROVE  B!MapThenSumSet(LAMBDA u : B!UserProfile(u, k, TRUE).score, M0)
           = Total([u \in M0 |-> B!UserProfile(u, k, TRUE).score], M0)
<1> DEFINE f == [u \in M0 |-> B!UserProfile(u, k, TRUE).score]
           Score1(u) == B!UserProfile(u, k, TRUE).score
           Fold(g) == g = [s \in SUBSET M0 |-> IF s = {} THEN 0
                             ELSE Score1(CHOOSE x \in s : TRUE) + g[s \ {CHOOSE x \in s : TRUE}]]
<1>1. B!MapThenSumSet(LAMBDA u : B!UserProfile(u, k, TRUE).score, M0) = (CHOOSE g : Fold(g))[M0]
  BY DEF B!MapThenSumSet, B!MapThenFoldSet
<1>2. ASSUME NEW s \in SUBSET M0, s # {}
      PROVE  f[Pick(s)] = Score1(CHOOSE x \in s : TRUE)
  <2>1. Pick(s) \in M0
    BY <1>2, PickIn
  <2> QED BY <2>1 DEF Pick
<1> HIDE DEF f, Score1
<1>3. ASSUME NEW g PROVE Fold(g) <=> Sums(f, M0, g)
  <2>1. \A s \in SUBSET M0 :
          (IF s = {} THEN 0 ELSE Score1(CHOOSE x \in s : TRUE) + g[s \ {CHOOSE x \in s : TRUE}])
            = (IF s = {} THEN 0 ELSE f[Pick(s)] + g[s \ {Pick(s)}])
    BY <1>2 DEF Pick
  <2>2. [s \in SUBSET M0 |-> IF s = {} THEN 0
                             ELSE Score1(CHOOSE x \in s : TRUE) + g[s \ {CHOOSE x \in s : TRUE}]]
          = [s \in SUBSET M0 |-> IF s = {} THEN 0 ELSE f[Pick(s)] + g[s \ {Pick(s)}]]
    BY <2>1
  <2> QED BY <2>2 DEF Sums
<1> HIDE DEF Fold
<1>4. PICK g : Sums(f, M0, g)
  BY SumsExist
<1>5. Fold(CHOOSE h : Fold(h))
  BY <1>3, <1>4
<1>6. (CHOOSE h : Fold(h))[M0] = Total(f, M0)
  BY <1>3, <1>5, TotalOf
<1> QED BY <1>1, <1>6 DEF f

(* A team's score is its members'.                                         *)
LEMMA TeamAgrees ==
  ASSUME B!TypeOK, B!Booked, NEW k, NEW t
  PROVE  B!SumOf({e \in B!Scoring(k, "teams") : e.account = t})
           = Total([u \in {v \in Players : TeamOf[v] = t} |-> B!UserProfile(u, k, TRUE).score],
                   {v \in Players : TeamOf[v] = t})
<1> DEFINE M0 == {u \in Players : TeamOf[u] = t}
           f == [u \in M0 |-> Total(Values(solves), Owned(solves, k, "users", u))]
           g == [u \in M0 |-> Total(Values(awards), Owned(awards, k, "users", u))]
           h == [u \in M0 |-> B!UserProfile(u, k, TRUE).score]
<1>1. IsFiniteSet(M0)
  BY AccountIds, FS_Subset
<1>2. \A u \in M0 : f[u] \in Int /\ g[u] \in Int
  BY OwnedInt
<1>3. h = [u \in M0 |-> f[u] + g[u]]
  BY PageScore
<1>4. /\ Total(Values(solves), Owned(solves, k, "teams", t)) = Total(f, M0)
      /\ Total(Values(awards), Owned(awards, k, "teams", t)) = Total(g, M0)
  BY TeamRows
<1>6. B!SumOf({e \in B!Scoring(k, "teams") : e.account = t})
        = Total(Values(solves), Owned(solves, k, "teams", t)) + Total(Values(awards), Owned(awards, k, "teams", t))
  BY ScoreSum
<1>7. Total(h, M0) = Total(f, M0) + Total(g, M0)
  <2> HIDE DEF f, g, h, M0
  <2> QED BY <1>1, <1>2, <1>3, TotalPlus
<1>8. B!SumOf({e \in B!Scoring(k, "teams") : e.account = t}) = Total(h, M0)
  <2> HIDE DEF f, g, h, M0
  <2> QED BY <1>4, <1>6, <1>7
<1> HIDE DEF h
<1> QED BY <1>8 DEF h

-----------------------------------------------------------------------------
(* Standings *)

Ranks == [account : Nat, score : Int, last : Int]

(* ORDER BY score, last event and account decides between any two rows of  *)
(* different accounts: the board holds every row once.                     *)
LEMMA RankOrder ==
  ASSUME NEW S, IsFiniteSet(S), S \subseteq Ranks, \A x, y \in S : x.account = y.account => x = y
  PROVE  B!Range(B!Ranked(S)) = S
<1> DEFINE R == {p \in S \X S : B!Less(p[1], p[2])}
           o == B!Ranked(S)
<1>1. ASSUME NEW x \in S, NEW y \in S
      PROVE  <<x, y>> \in R <=> B!Less(x, y)
  OBVIOUS
<1> HIDE DEF R
<1>2. ASSUME NEW x \in S PROVE x.account \in Int /\ x.score \in Int /\ x.last \in Int
  BY DEF Ranks
<1>3. StrictTotal(R, S)
  <2>1. \A x \in S : ~B!Less(x, x)
    BY <1>2 DEF B!Less
  <2>2. \A x, y, z \in S : B!Less(x, y) /\ B!Less(y, z) => B!Less(x, z)
    BY <1>2 DEF B!Less
  <2>3. \A x, y \in S : x = y \/ B!Less(x, y) \/ B!Less(y, x)
    BY <1>2 DEF B!Less
  <2> QED BY <1>1, <2>1, <2>2, <2>3 DEF StrictTotal
<1>4. o = CHOOSE s \in [1..B!Cardinality(S) -> S] : \A i, j \in DOMAIN s : i < j => B!Less(s[i], s[j])
  BY DEF B!InOrder, B!Ranked
<1>5. PICK v : Lists(v, R, S)
  BY <1>3, ListExists
<1>6. ASSUME NEW s
      PROVE  Lists(s, R, S) <=> /\ s \in [1..B!Cardinality(S) -> S]
                                /\ \A i, j \in DOMAIN s : i < j => B!Less(s[i], s[j])
  BY <1>1, BoardMeasures DEF Lists
<1>7. Lists(o, R, S)
  BY <1>4, <1>5, <1>6
<1> HIDE DEF o
<1>8. DOMAIN o = 1..Cardinality(S) /\ \A i \in DOMAIN o : o[i] \in S
  BY <1>7 DEF Lists
<1>9. \A x \in S : \E i \in 1..Cardinality(S) : o[i] = x
  BY <1>3, <1>7, ListsAll
<1> QED BY <1>8, <1>9 DEF B!Range, o

OfAccount(k, kd, a) == {e \in B!Scoring(k, kd) : e.account = a}
Standing(k, kd, a) ==
  [account |-> a, score |-> B!SumOf(OfAccount(k, kd, a)), last |-> B!LastDate(OfAccount(k, kd, a))]
Placed(k, kd, admin) == {a \in Accs(kd) : OfAccount(k, kd, a) # {} /\ (admin \/ <<kd, a>> \notin unseen)}
Entries(k, kd, admin) == {Standing(k, kd, a) : a \in Placed(k, kd, admin)}

LEMMA AccountEvents ==
  ASSUME B!TypeOK, NEW k, NEW kd, NEW a
  PROVE  LET G == OfAccount(k, kd, a)
         IN  /\ IsFiniteSet(G) /\ G \subseteq Evs /\ \A x, y \in G : x.leg = y.leg /\ x.id = y.id => x = y
             /\ B!SumOf(G) \in Int
             /\ G # {} => B!LastDate(G) \in Int
<1> DEFINE G == OfAccount(k, kd, a)
<1>1. IsFiniteSet(G) /\ G \subseteq Evs /\ \A x, y \in G : x.leg = y.leg /\ x.id = y.id => x = y
  <2>1. /\ IsFiniteSet(B!Scoring(k, kd)) /\ B!Scoring(k, kd) \subseteq Evs
        /\ \A x, y \in B!Scoring(k, kd) : x.leg = y.leg /\ x.id = y.id => x = y
    BY ScoringEvents
  <2>2. G \subseteq B!Scoring(k, kd)
    BY DEF OfAccount
  <2> HIDE DEF G
  <2> QED BY <2>1, <2>2, FS_Subset
<1> HIDE DEF G
<1>2. \A e \in G : e.value \in Int /\ e.date \in Nat
  BY <1>1 DEF Evs
<1>3. B!SumOf(G) \in Int
  BY <1>1, <1>2, SumInt
<1>4. ASSUME G # {} PROVE B!LastDate(G) \in Int
  <2>1. PICK m \in G : \A e \in G : e.date <= m.date
    BY <1>1, <1>2, <1>4, LatestEvent
  <2> QED BY <1>2, <2>1, LastIs
<1> QED BY <1>1, <1>3, <1>4 DEF G

LEMMA EntriesRank ==
  ASSUME B!TypeOK, NEW k, NEW kd, NEW admin
  PROVE  B!Range(B!Ranked(Entries(k, kd, admin))) = Entries(k, kd, admin)
<1> DEFINE S == Entries(k, kd, admin)
           P0 == Placed(k, kd, admin)
           f == [a \in P0 |-> Standing(k, kd, a)]
<1>1. S = {f[a] : a \in P0}
  BY DEF Entries
<1>2. IsFiniteSet(P0)
  BY AccountIds, FS_Subset DEF Placed
<1>3. ASSUME NEW a \in P0 PROVE f[a] \in Ranks /\ f[a].account = a
  <2>1. a \in Nat /\ OfAccount(k, kd, a) # {}
    BY AccountIds DEF Placed
  <2>2. B!SumOf(OfAccount(k, kd, a)) \in Int /\ B!LastDate(OfAccount(k, kd, a)) \in Int
    BY <2>1, AccountEvents
  <2> QED BY <2>1, <2>2 DEF Standing, Ranks
<1> HIDE DEF f, P0, S
<1>4. IsFiniteSet({f[a] : a \in P0})
  BY <1>2, ImageFinite
<1>5. IsFiniteSet(S) /\ S \subseteq Ranks /\ \A x, y \in S : x.account = y.account => x = y
  BY <1>1, <1>3, <1>4
<1>6. B!Range(B!Ranked(S)) = S
  BY <1>5, RankOrder
<1> QED BY <1>6 DEF S

(* Every standings query lists these rows.                                 *)
LEMMA StandingsAre ==
  ASSUME NEW k, NEW admin
  PROVE  /\ mode \in {"users", "teams"} =>
              /\ B!StandingsIn(mode, k, admin) = B!Ranked(Entries(k, mode, admin))
              /\ B!StandingsAsOf(k, admin) = B!Ranked(Entries(k, mode, admin))
<1>1. ASSUME NEW kd
      PROVE  B!Standings(B!Scoring(k, kd), kd, Accs(kd), admin) = B!Ranked(Entries(k, kd, admin))
  BY DEF B!Standings, Entries, Placed, Standing, OfAccount
<1>2. B!Accounts = Accs(mode)
  BY DEF B!Accounts, Accs
<1>3. B!StandingsAsOf(k, admin) = B!Ranked(Entries(k, mode, admin))
  BY <1>1, <1>2 DEF B!StandingsAsOf
<1>4. CASE mode = "teams"
  <2>1. B!StandingsIn(mode, k, admin) = B!Standings(B!Scoring(k, "teams"), "teams", Accs("teams"), admin)
    BY <1>4 DEF B!StandingsIn, B!TeamStandings, Accs
  <2> QED BY <1>1, <1>3, <1>4, <2>1
<1>5. CASE mode = "users"
  <2>1. B!StandingsIn(mode, k, admin) = B!Standings(B!Scoring(k, "users"), "users", Accs("users"), admin)
    BY <1>5 DEF B!StandingsIn, B!UserStandings, Accs
  <2> QED BY <1>1, <1>3, <1>5, <2>1
<1> QED BY <1>4, <1>5

-----------------------------------------------------------------------------
(* The Go board *)

(* What an account was fed by the first events of a sequence, and how it   *)
(* stands by them.                                                         *)
Fed(s, m, a) == {s[i] : i \in {j \in 1..m : s[j].account = a}}
Tally(s, m) == [a \in {s[i].account : i \in 1..m} |->
                  [account |-> a, score |-> B!SumOf(Fed(s, m, a)), last |-> B!LastDate(Fed(s, m, a))]]

(* A record with two of its fields written.                               *)
LEMMA NewStanding ==
  ASSUME NEW w, NEW a, NEW p, NEW q, w = [account |-> a, score |-> p, last |-> q], NEW v, NEW d,
         NEW r, r = [w EXCEPT !.score = @ + v, !.last = IF d > @ THEN d ELSE @]
  PROVE  r = [account |-> a, score |-> p + v, last |-> IF d > q THEN d ELSE q]
<1> DEFINE p1 == p + v
           q1 == IF d > q THEN d ELSE q
           u == [w EXCEPT !.score = p1, !.last = q1]
<1>1. [w EXCEPT !.score = @ + v, !.last = IF d > @ THEN d ELSE @] = u
  <2>1. w.score = p /\ w.last = q
    OBVIOUS
  <2>2. [w EXCEPT !.score = @ + v, !.last = IF d > @ THEN d ELSE @]
        = [w EXCEPT !.score = w.score + v, !.last = IF d > w.last THEN d ELSE w.last]
    OBVIOUS
  <2> QED BY <2>1, <2>2
<1> HIDE DEF p1, q1
<1>2. w \in [account : {a}, score : {p, p1}, last : {q, q1}]
  OBVIOUS
<1>3. u \in [account : {a}, score : {p, p1}, last : {q, q1}] /\ u.score = p1 /\ u.last = q1 /\ u.account = a
  BY <1>2
<1> HIDE DEF u
<1>4. u = [account |-> a, score |-> p1, last |-> q1]
  BY <1>3
<1> QED BY <1>1, <1>4 DEF p1, q1

LEMMA LastOne == ASSUME NEW x, x.date \in Nat PROVE B!LastDate({x}) = x.date
<1> DEFINE E == {x}
<1>1. x \in E /\ \A e \in E : e.date \in Int /\ e.date <= x.date
  OBVIOUS
<1> HIDE DEF E
<1>2. B!LastDate(E) = x.date
  BY <1>1, LastIs
<1> QED BY <1>2 DEF E

(* One more event: as Add counts it.                                       *)
LEMMA TallyStep ==
  ASSUME NEW z \in Nat, NEW s \in [1..z -> Evs],
         \A i, j \in 1..z : s[i] = s[j] => i = j,
         \A i \in 1..z : s[i].value # 0,
         NEW m \in 1..z
  PROVE  Tally(s, m) = B!Add(Tally(s, m - 1), s[m])
<1> DEFINE x == s[m]
           a0 == x.account
           D == {s[i].account : i \in 1..(m - 1)}
           old == Fed(s, m - 1, a0)
           T == Tally(s, m - 1)
<1>1. /\ 1..m = (1..(m - 1)) \cup {m} /\ m \notin 1..(m - 1) /\ 1..m \subseteq 1..z /\ 1..(m - 1) \subseteq 1..z
      /\ m - 1 \in Int
  OBVIOUS
<1>2. x \in Evs /\ x.value # 0 /\ x.value \in Int /\ x.date \in Nat \ {0}
  BY DEF Evs
<1>3. {s[i].account : i \in 1..m} = D \cup {a0}
  BY <1>1
<1>4. ASSUME NEW a, a # a0 PROVE Fed(s, m, a) = Fed(s, m - 1, a)
  <2>1. {j \in 1..m : s[j].account = a} = {j \in 1..(m - 1) : s[j].account = a}
    BY <1>1, <1>4
  <2> QED BY <2>1 DEF Fed
<1>5. Fed(s, m, a0) = old \cup {x}
  <2>1. {j \in 1..m : s[j].account = a0} = {j \in 1..(m - 1) : s[j].account = a0} \cup {m}
    BY <1>1
  <2> QED BY <2>1 DEF Fed
<1>6. x \notin old
  <2> SUFFICES ASSUME NEW i \in 1..(m - 1) PROVE s[i] # x
    BY DEF Fed
  <2> QED BY <1>1
<1>7. old \subseteq Evs /\ IsFiniteSet(old)
  <2>1. IsFiniteSet(1..(m - 1))
    BY <1>1, FS_Interval
  <2>2. IsFiniteSet({j \in 1..(m - 1) : s[j].account = a0})
    BY <2>1, FS_Subset
  <2>3. IsFiniteSet(old)
    BY <2>2, ImageFinite DEF Fed
  <2>4. old \subseteq Evs
    BY <1>1 DEF Fed
  <2> QED BY <2>3, <2>4
<1>8. a0 \in D <=> old # {}
  BY DEF Fed
<1>9. DOMAIN T = D /\ \A a \in D : T[a] = [account |-> a, score |-> B!SumOf(Fed(s, m - 1, a)),
                                           last |-> B!LastDate(Fed(s, m - 1, a))]
  BY DEF Tally
<1> DEFINE was == IF a0 \in D THEN T[a0] ELSE [account |-> a0, score |-> 0, last |-> 0]
           is == [was EXCEPT !.score = @ + x.value, !.last = IF x.date > @ THEN x.date ELSE @]
<1>a. is = [was EXCEPT !.score = @ + x.value, !.last = IF x.date > @ THEN x.date ELSE @]
  OBVIOUS
<1>10. B!Add(T, x) = [a \in D \cup {a0} |-> IF a = a0 THEN is ELSE T[a]]
  <2> HIDE DEF T, x, D, a0
  <2>1. B!Counts(x)
    BY <1>2 DEF B!Counts
  <2> QED BY <1>9, <2>1 DEF B!Add, a0
<1>11. \A e \in old \cup {x} : e.value \in Int /\ e.date \in Nat
  BY <1>2, <1>7 DEF Evs
<1>12. B!SumOf(old \cup {x}) = B!SumOf(old) + x.value
  <2> HIDE DEF old, x
  <2> QED BY <1>6, <1>7, <1>11, SumMore
<1>13. is = [account |-> a0, score |-> B!SumOf(old \cup {x}), last |-> B!LastDate(old \cup {x})]
  <2>1. CASE a0 \in D
    <3>1. was = [account |-> a0, score |-> B!SumOf(old), last |-> B!LastDate(old)]
      BY <1>9, <2>1
    <3>2. B!LastDate(old \cup {x}) = IF x.date > B!LastDate(old) THEN x.date ELSE B!LastDate(old)
      <4>1. old # {}
        BY <1>8, <2>1
      <4> HIDE DEF old, x
      <4> QED BY <1>7, <1>11, <4>1, LastMore
    <3> HIDE DEF old, x, was, a0, T, D, is
    <3>3. is = [account |-> a0, score |-> B!SumOf(old) + x.value,
                last |-> IF x.date > B!LastDate(old) THEN x.date ELSE B!LastDate(old)]
      BY <1>a, <3>1, NewStanding
    <3> QED BY <1>12, <3>2, <3>3
  <2>2. CASE a0 \notin D
    <3>1. old = {}
      BY <1>8, <2>2
    <3>2. was = [account |-> a0, score |-> 0, last |-> 0]
      BY <2>2
    <3> HIDE DEF old, x, was, a0, T, D, is
    <3>3. B!LastDate({x}) = x.date
      BY <1>2, LastOne
    <3>4. B!SumOf({x}) = 0 + x.value
      BY <1>12, <3>1, SumEmpty
    <3>5. old \cup {x} = {x}
      BY <3>1
    <3>6. x.date > 0
      BY <1>2
    <3>7. is = [account |-> a0, score |-> 0 + x.value, last |-> IF x.date > 0 THEN x.date ELSE 0]
      BY <1>a, <3>2, NewStanding
    <3> QED BY <3>3, <3>4, <3>5, <3>6, <3>7
  <2> QED BY <2>1, <2>2
<1>14. Tally(s, m) = [a \in D \cup {a0} |-> [account |-> a, score |-> B!SumOf(Fed(s, m, a)),
                                            last |-> B!LastDate(Fed(s, m, a))]]
  BY <1>3 DEF Tally
<1>15. \A a \in D \cup {a0} : (IF a = a0 THEN is ELSE T[a])
                               = [account |-> a, score |-> B!SumOf(Fed(s, m, a)), last |-> B!LastDate(Fed(s, m, a))]
  <2> HIDE DEF is, T, D, a0, old
  <2> QED BY <1>4, <1>5, <1>9, <1>13
<1> HIDE DEF is, T, D, a0, x
<1> QED BY <1>10, <1>14, <1>15 DEF T, x

(* What Aggregate makes of a sequence of distinct events that all count.   *)
LEMMA AggregateIs ==
  ASSUME NEW z \in Nat, NEW s \in [1..z -> Evs],
         \A i, j \in 1..z : s[i] = s[j] => i = j,
         \A i \in 1..z : s[i].value # 0
  PROVE  B!Aggregate(s) = {Tally(s, z)[a] : a \in {s[i].account : i \in 1..z}}
<1> DEFINE Reads(r) == r = [m \in 0..z |-> IF m = 0 THEN [a \in {} |-> 0] ELSE B!Add(r[m - 1], s[m])]
           T == [m \in 0..z |-> Tally(s, m)]
<1>1. Len(s) = z /\ DOMAIN s = 1..z
  OBVIOUS
<1>2. B!Aggregate(s) = LET tallies == (CHOOSE r : Reads(r))[z] IN {tallies[a] : a \in DOMAIN tallies}
  BY <1>1 DEF B!Aggregate
<1>3. Reads(T)
  <2>1. ASSUME NEW m \in 0..z
        PROVE  T[m] = IF m = 0 THEN [a \in {} |-> 0] ELSE B!Add(T[m - 1], s[m])
    <3>1. CASE m = 0
      <4>1. 1..m = {}
        BY <3>1
      <4>2. {s[i].account : i \in 1..m} = {}
        BY <4>1
      <4>3. Tally(s, m) = [a \in {} |-> 0]
        BY <4>2 DEF Tally
      <4> QED BY <3>1, <4>3
    <3>2. CASE m # 0
      <4>1. m \in 1..z /\ m - 1 \in 0..z
        BY <3>2
      <4>2. Tally(s, m) = B!Add(Tally(s, m - 1), s[m])
        BY <4>1, TallyStep
      <4>3. T[m] = Tally(s, m) /\ T[m - 1] = Tally(s, m - 1)
        BY <4>1
      <4> QED BY <3>2, <4>2, <4>3
    <3> QED BY <3>1, <3>2
  <2>2. T = [m \in 0..z |-> T[m]]
    OBVIOUS
  <2> HIDE DEF T
  <2> QED BY <2>1, <2>2
<1>4. ASSUME NEW r, Reads(r) PROVE r[z] = T[z]
  <2>a. \A m \in 0..z : /\ r[m] = IF m = 0 THEN [a \in {} |-> 0] ELSE B!Add(r[m - 1], s[m])
                        /\ T[m] = IF m = 0 THEN [a \in {} |-> 0] ELSE B!Add(T[m - 1], s[m])
    <3>1. \A m \in 0..z : r[m] = IF m = 0 THEN [a \in {} |-> 0] ELSE B!Add(r[m - 1], s[m])
      BY <1>4
    <3> HIDE DEF T
    <3>2. \A m \in 0..z : T[m] = IF m = 0 THEN [a \in {} |-> 0] ELSE B!Add(T[m - 1], s[m])
      BY <1>3
    <3> QED BY <3>1, <3>2
  <2> DEFINE Bad == {m \in 0..z : r[m] # T[m]}
  <2>1. ASSUME Bad # {} PROVE FALSE
    <3>1. PICK m \in Bad : \A y \in Bad : m <= y
      <4>1. Bad \in SUBSET Nat
        OBVIOUS
      <4> HIDE DEF Bad
      <4> QED BY <2>1, <4>1, LeastOf
    <3> HIDE DEF T
    <3>2. CASE m = 0
      BY <2>a, <3>2
    <3>3. CASE m # 0
      <4>1. m - 1 \in 0..z /\ m \in 0..z /\ ~(m <= m - 1)
        BY <3>3
      <4>2. r[m - 1] = T[m - 1]
        BY <3>1, <4>1
      <4> QED BY <2>a, <3>3, <4>1, <4>2
    <3> QED BY <3>2, <3>3
  <2> HIDE DEF T
  <2> QED BY <2>1
<1> HIDE DEF Reads
<1>5. (CHOOSE r : Reads(r))[z] = Tally(s, z)
  <2>1. T[z] = Tally(s, z)
    OBVIOUS
  <2> HIDE DEF T
  <2> QED BY <1>3, <1>4, <2>1
<1>6. DOMAIN Tally(s, z) = {s[i].account : i \in 1..z}
  BY DEF Tally
<1> QED BY <1>2, <1>5, <1>6

(* A set, put in some sequence.                                            *)
LEMMA SomeOrder ==
  ASSUME NEW S, IsFiniteSet(S)
  PROVE  LET s == B!SetToSeq(S)
             z == Cardinality(S)
         IN  /\ z \in Nat /\ s \in [1..z -> S]
             /\ \A i, j \in 1..z : s[i] = s[j] => i = j
             /\ \A x \in S : \E i \in 1..z : s[i] = x
<1> DEFINE s == B!SetToSeq(S)
           z == Cardinality(S)
<1>1. z \in Nat /\ IsFiniteSet(1..z) /\ Cardinality(1..z) = z
  BY FS_CardinalityType, FS_Interval
<1>2. PICK b : b \in Bijection(1..z, S)
  BY FS_CardinalityType DEF ExistsBijection
<1>3. b \in [1..z -> S] /\ B!IsInjective(b)
  BY <1>2 DEF Bijection, Injection, IsInjective, B!IsInjective
<1>4. s = CHOOSE f \in [1..z -> S] : B!IsInjective(f)
  BY BoardMeasures DEF B!SetToSeq
<1>5. s \in [1..z -> S] /\ B!IsInjective(s)
  BY <1>3, <1>4
<1> HIDE DEF s
<1>6. s \in Injection(1..z, S)
  BY <1>5 DEF Injection, IsInjective, B!IsInjective
<1>7. s \in Surjection(1..z, S)
  BY <1>1, <1>6, FS_Injection
<1>8. \A x \in S : \E i \in 1..z : s[i] = x
  BY <1>7 DEF Surjection
<1>9. \A i, j \in 1..z : s[i] = s[j] => i = j
  BY <1>5 DEF B!IsInjective
<1> QED BY <1>1, <1>5, <1>8, <1>9 DEF s

Admitted(k, kd, admin) == {e \in B!Scoring(k, kd) : admin \/ <<kd, e.account>> \notin unseen}

(* The Go board of the events a viewer is shown is the one of the SQL.     *)
LEMMA GoAgrees ==
  ASSUME B!TypeOK, NEW k, NEW kd, NEW admin
  PROVE  B!Aggregate(B!SetToSeq(Admitted(k, kd, admin))) = Entries(k, kd, admin)
<1> DEFINE S == Admitted(k, kd, admin)
           s == B!SetToSeq(S)
           z == Cardinality(S)
           A0 == {s[i].account : i \in 1..z}
<1>1. /\ IsFiniteSet(B!Scoring(k, kd)) /\ B!Scoring(k, kd) \subseteq Evs
      /\ \A e \in B!Scoring(k, kd) : e.value # 0 /\ e.account \in Accs(kd)
  BY ScoringEvents
<1>2. IsFiniteSet(S) /\ S \subseteq Evs /\ \A e \in S : e.value # 0 /\ e.account \in Accs(kd)
  <2>1. S \subseteq B!Scoring(k, kd)
    BY DEF Admitted
  <2> HIDE DEF S
  <2> QED BY <1>1, <2>1, FS_Subset
<1>3. /\ z \in Nat /\ s \in [1..z -> S]
      /\ \A i, j \in 1..z : s[i] = s[j] => i = j
      /\ \A x \in S : \E i \in 1..z : s[i] = x
  <2> HIDE DEF S
  <2> QED BY <1>2, SomeOrder
<1>4. s \in [1..z -> Evs] /\ \A i \in 1..z : s[i].value # 0
  <2> HIDE DEF S, s, z
  <2> QED BY <1>2, <1>3
<1>5. B!Aggregate(s) = {Tally(s, z)[a] : a \in A0}
  <2> HIDE DEF s, z
  <2> QED BY <1>3, <1>4, AggregateIs
<1>6. ASSUME NEW a, admin \/ <<kd, a>> \notin unseen PROVE Fed(s, z, a) = OfAccount(k, kd, a)
  <2>1. \A e \in OfAccount(k, kd, a) : e \in S /\ e.account = a
    BY <1>6 DEF OfAccount, Admitted
  <2>2. \A e \in S : e.account = a => e \in OfAccount(k, kd, a)
    BY DEF OfAccount, Admitted
  <2> HIDE DEF S, s, z
  <2> QED BY <1>3, <2>1, <2>2 DEF Fed
<1>7. A0 = Placed(k, kd, admin)
  <2>1. ASSUME NEW a \in A0 PROVE a \in Placed(k, kd, admin)
    <3>1. PICK i \in 1..z : a = s[i].account
      OBVIOUS
    <3>2. s[i] \in S
      <4> HIDE DEF S, s, z
      <4> QED BY <1>3
    <3>3. s[i] \in B!Scoring(k, kd) /\ (admin \/ <<kd, a>> \notin unseen)
      BY <3>1, <3>2 DEF Admitted
    <3> HIDE DEF s, z
    <3> QED BY <1>2, <3>1, <3>2, <3>3 DEF Placed, OfAccount
  <2>2. ASSUME NEW a \in Placed(k, kd, admin) PROVE a \in A0
    <3>1. PICK e \in OfAccount(k, kd, a) : TRUE
      BY DEF Placed
    <3>2. e \in S /\ e.account = a
      BY <3>1 DEF Placed, OfAccount, Admitted
    <3>3. PICK i \in 1..z : s[i] = e
      <4> HIDE DEF S, s, z
      <4> QED BY <1>3, <3>2
    <3> HIDE DEF s, z
    <3> QED BY <3>2, <3>3
  <2> QED BY <2>1, <2>2
<1>8. ASSUME NEW a \in A0 PROVE Tally(s, z)[a] = Standing(k, kd, a)
  <2>1. Tally(s, z)[a] = [account |-> a, score |-> B!SumOf(Fed(s, z, a)), last |-> B!LastDate(Fed(s, z, a))]
    BY DEF Tally
  <2>2. Fed(s, z, a) = OfAccount(k, kd, a)
    BY <1>6, <1>7 DEF Placed
  <2> HIDE DEF s, z
  <2> QED BY <2>1, <2>2 DEF Standing
<1> HIDE DEF A0
<1>9. B!Aggregate(s) = {Standing(k, kd, a) : a \in Placed(k, kd, admin)}
  BY <1>5, <1>7, <1>8
<1> QED BY <1>9 DEF Entries

(* An account is on the board exactly while its curve is not empty, with   *)
(* what the curve ends with.                                               *)
LEMMA RowAgrees ==
  ASSUME B!TypeOK, NEW k, NEW a \in B!Accounts, NEW admin \in BOOLEAN
  PROVE  {r \in Entries(k, mode, admin) : r.account = a}
           = IF B!ScoreHistory(a, k, admin) = <<>> THEN {}
             ELSE {[account |-> a, score |-> B!EndOf(B!ScoreHistory(a, k, admin)).score,
                    last |-> B!EndOf(B!ScoreHistory(a, k, admin)).date]}
<1> DEFINE G == {e \in B!Scoring(k, mode) : e.account = a /\ (admin \/ B!Shown(a))}
<1>1. B!ScoreHistory(a, k, admin) = B!Curved(G)
  BY DEF B!ScoreHistory
<1>2. a \in Accs(mode)
  BY DEF Accs, B!Accounts
<1>3. \A r \in Entries(k, mode, admin) : r.account = a => a \in Placed(k, mode, admin) /\ r = Standing(k, mode, a)
  BY DEF Entries, Standing
<1>4. CASE admin \/ B!Shown(a)
  <2>1. G = OfAccount(k, mode, a)
    BY <1>4 DEF OfAccount
  <2>2. a \in Placed(k, mode, admin) <=> G # {}
    BY <1>2, <1>4, <2>1 DEF Placed, B!Shown
  <2>3. IsFiniteSet(G) /\ G \subseteq Evs /\ \A x, y \in G : x.leg = y.leg /\ x.id = y.id => x = y
    BY <2>1, AccountEvents
  <2> HIDE DEF G
  <2>4. /\ B!Curved(G) = <<>> <=> G = {}
        /\ B!EndOf(B!Curved(G)).score = B!SumOf(G)
        /\ G # {} => B!EndOf(B!Curved(G)).date = B!LastDate(G)
    BY <2>3, CurveEnd
  <2>5. CASE G = {}
    <3>1. {r \in Entries(k, mode, admin) : r.account = a} = {}
      BY <1>3, <2>2, <2>5
    <3> QED BY <1>1, <2>4, <2>5, <3>1
  <2>6. CASE G # {}
    <3>1. Standing(k, mode, a) \in Entries(k, mode, admin) /\ Standing(k, mode, a).account = a
      BY <2>2, <2>6 DEF Entries, Standing
    <3>2. {r \in Entries(k, mode, admin) : r.account = a} = {Standing(k, mode, a)}
      BY <1>3, <3>1
    <3>3. Standing(k, mode, a) = [account |-> a, score |-> B!EndOf(B!Curved(G)).score,
                                  last |-> B!EndOf(B!Curved(G)).date]
      BY <2>1, <2>4, <2>6 DEF Standing
    <3> QED BY <1>1, <2>4, <2>6, <3>2, <3>3
  <2> QED BY <2>5, <2>6
<1>5. CASE ~(admin \/ B!Shown(a))
  <2>1. G = {}
    BY <1>5
  <2>2. {r \in Entries(k, mode, admin) : r.account = a} = {}
    BY <1>3, <1>5 DEF Placed, B!Shown
  <2>3. B!Curved({}) = <<>>
    <3>1. IsFiniteSet({}) /\ {} \subseteq Evs
      BY FS_EmptySet
    <3> QED BY <3>1, CurveEnd
  <2> QED BY <1>1, <2>1, <2>2, <2>3
<1> QED BY <1>4, <1>5

(* A challenge counts whom its list of solvers shows, when one page holds  *)
(* the whole list.                                                         *)
LEMMA CountAgrees ==
  ASSUME B!TypeOK, B!Booked, NEW c \in Challenges \ shut, NEW k
  PROVE  B!Count(c, k) = Cardinality(B!ShownRows(B!SolveRows(c, k, 0, MaxRows)))
<1> DEFINE S == B!Matching(c, k, 0)
           W == {i \in B!Before(solves, k) : solves[i].chal = c /\ B!Shown(B!AccountOf(solves[i]))}
<1>1. S = {i \in B!Before(solves, k) : solves[i].chal = c} /\ S \subseteq DOMAIN solves
  BY DEF B!Matching, B!After, B!Before
<1>2. B!Count(c, k) = Cardinality(W)
  BY BoardMeasures DEF B!Count
<1>3. DOMAIN solves = 1..Len(solves) /\ Len(solves) \in Nat /\ Len(awards) \in Nat /\ Cardinality(open) \in Nat
      /\ MaxRows \in Nat /\ Len(solves) + Len(awards) + Cardinality(open) <= MaxRows
  BY BoardMeasures, FS_CardinalityType, FrontConstants DEF B!Booked, B!TypeOK, B!BoardAssumption
<1>4. IsFiniteSet(DOMAIN solves) /\ Cardinality(DOMAIN solves) = Len(solves) /\ 0 \notin DOMAIN solves
  <2> DEFINE z == Len(solves)
  <2> HIDE DEF z
  <2>1. DOMAIN solves = 1..z /\ z \in Nat
    BY <1>3 DEF z
  <2>2. IsFiniteSet(1..z) /\ Cardinality(1..z) = z
    BY <2>1, FS_Interval
  <2> QED BY <2>1, <2>2 DEF z
<1>5. IsFiniteSet(S) /\ Cardinality(S) \in Nat /\ Cardinality(S) <= MaxRows
  <2> HIDE DEF S
  <2>1. IsFiniteSet(S) /\ Cardinality(S) <= Len(solves)
    BY <1>1, <1>4, FS_Subset
  <2>2. Cardinality(S) \in Nat
    BY <2>1, FS_CardinalityType
  <2> QED BY <1>3, <2>1, <2>2
<1>6. ASSUME NEW i \in S PROVE Cardinality({j \in S : B!Older(j, i)}) < MaxRows
  <2> DEFINE T == {j \in S : B!Older(j, i)}
  <2>1. i \notin T
    <3>1. i \in DOMAIN solves /\ i \in Int /\ solves[i].date \in Int
      BY <1>1, BookRows
    <3> QED BY <3>1 DEF B!Older
  <2>2. T \in SUBSET S /\ T # S
    BY <2>1
  <2> HIDE DEF T, S
  <2>3. IsFiniteSet(T) /\ Cardinality(T) <= Cardinality(S) /\ Cardinality(T) # Cardinality(S)
    BY <1>5, <2>2, FS_Subset
  <2>4. Cardinality(T) \in Nat
    BY <2>3, FS_CardinalityType
  <2>5. Cardinality(T) < MaxRows
    BY <1>3, <1>5, <2>3, <2>4
  <2> QED BY <2>5 DEF T
<1>7. B!Oldest(S, MaxRows) = S
  <2> HIDE DEF S
  <2> QED BY <1>6, BoardMeasures DEF B!Oldest
<1>8. B!SolveRows(c, k, 0, MaxRows) = IF S = {} THEN {0} ELSE S
  BY <1>7 DEF B!SolveRows
<1>9. B!ShownRows(B!SolveRows(c, k, 0, MaxRows)) = W
  <2>1. \A i \in S : i # 0
    BY <1>1, <1>4
  <2>2. W = {i \in S : B!Shown(B!AccountOf(solves[i]))}
    BY <1>1
  <2> HIDE DEF S, W
  <2> QED BY <1>8, <2>1, <2>2 DEF B!ShownRows
<1> QED BY <1>2, <1>9

(* Whoever solved an open challenge finds it unlocked, in the list and by  *)
(* itself.                                                                 *)
LEMMA SolvedIsOpen ==
  ASSUME B!TypeOK, B!Booked, NEW u, NEW c \in Challenges \ shut, NEW k, B!Solved(B!Account(u), c)
  PROVE  /\ c \in DOMAIN B!Listing(u, k) /\ ~B!Listing(u, k)[c].locked
         /\ B!Detail(u, c, k) = B!Listing(u, k)[c]
<1>1. PICK i \in DOMAIN solves : B!AccountOf(solves[i]) = B!Account(u) /\ solves[i].chal = c
  BY DEF B!Solved
<1>2. B!PrereqsMet(B!Account(u), c)
  BY <1>1 DEF B!Booked
<1>3. B!Listed(u, c)
  BY <1>2 DEF B!Listed
<1>4. c \in DOMAIN B!Listing(u, k) /\ B!Listing(u, k)[c] = B!View(u, c, k)
  BY <1>3 DEF B!Listing
<1>5. ~B!View(u, c, k).locked
  BY <1>2 DEF B!View
<1> QED BY <1>3, <1>4, <1>5 DEF B!Detail

(* All the reads agree.                                                    *)
LEMMA AllAgree == ASSUME B!TypeOK, B!Booked PROVE B!ReadsAgree
<1> SUFFICES ASSUME NEW k \in B!Horizons, NEW admin \in BOOLEAN
             PROVE  LET board == B!StandingsIn(mode, k, admin)
                        listed == B!Range(board)
                        Row(a) == {r \in listed : r.account = a}
                        events == {e \in B!Scoring(k, mode) : admin \/ B!Shown(e.account)}
                        Page(u) == B!UserProfile(u, k, TRUE)
                    IN /\ board = B!StandingsAsOf(k, admin) /\ board = B!GoBoard(B!SetToSeq(events))
                       /\ k = B!Live => board = B!ScoreboardRequest(TRUE, 0, admin)
                       /\ \A a \in B!Accounts :
                            LET curve == B!ScoreHistory(a, k, admin) IN
                            Row(a) = IF curve = <<>> THEN {}
                                     ELSE {[account |-> a, score |-> B!EndOf(curve).score,
                                            last |-> B!EndOf(curve).date]}
                       /\ \A u \in Players : Page(u).score = B!EndOf(Page(u).history).score
                       /\ mode = "teams" /\ admin =>
                            \A r \in listed : r.score = B!MapThenSumSet(LAMBDA u : Page(u).score,
                                                                        {u \in Players : TeamOf[u] = r.account})
                       /\ \A c \in Challenges \ shut :
                            B!Count(c, k) = B!Cardinality(B!ShownRows(B!SolveRows(c, k, 0, MaxRows)))
                       /\ \A u \in Players : \A c \in Challenges \ shut :
                            B!Solved(B!Account(u), c) => /\ c \in DOMAIN B!Listing(u, k)
                                                         /\ ~B!Listing(u, k)[c].locked
                                                         /\ B!Detail(u, c, k) = B!Listing(u, k)[c]
  BY DEF B!ReadsAgree
<1> DEFINE board == B!StandingsIn(mode, k, admin)
<1>1. mode \in {"users", "teams"}
  BY DEF B!TypeOK
<1>2. board = B!Ranked(Entries(k, mode, admin)) /\ board = B!StandingsAsOf(k, admin)
  BY <1>1, StandingsAre
<1>3. B!Range(board) = Entries(k, mode, admin)
  BY <1>2, EntriesRank
<1>4. board = B!GoBoard(B!SetToSeq({e \in B!Scoring(k, mode) : admin \/ B!Shown(e.account)}))
  <2>1. {e \in B!Scoring(k, mode) : admin \/ B!Shown(e.account)} = Admitted(k, mode, admin)
    BY DEF Admitted, B!Shown
  <2> QED BY <1>2, <2>1, GoAgrees DEF B!GoBoard
<1>5. k = B!Live => board = B!ScoreboardRequest(TRUE, 0, admin)
  BY DEF B!ScoreboardRequest, B!Top
<1>6. ASSUME NEW a \in B!Accounts
      PROVE  {r \in B!Range(board) : r.account = a}
               = IF B!ScoreHistory(a, k, admin) = <<>> THEN {}
                 ELSE {[account |-> a, score |-> B!EndOf(B!ScoreHistory(a, k, admin)).score,
                        last |-> B!EndOf(B!ScoreHistory(a, k, admin)).date]}
  <2> HIDE DEF board
  <2> QED BY <1>3, RowAgrees
<1>7. ASSUME NEW u \in Players
      PROVE  B!UserProfile(u, k, TRUE).score = B!EndOf(B!UserProfile(u, k, TRUE).history).score
  BY PageAgrees
<1>8. ASSUME mode = "teams", admin, NEW r \in B!Range(board)
      PROVE  r.score = B!MapThenSumSet(LAMBDA u : B!UserProfile(u, k, TRUE).score, {u \in Players : TeamOf[u] = r.account})
  <2>1. PICK t : r = Standing(k, "teams", t)
    BY <1>3, <1>8 DEF Entries
  <2>2. r.account = t /\ r.score = B!SumOf({e \in B!Scoring(k, "teams") : e.account = t})
    BY <2>1 DEF Standing, OfAccount
  <2> DEFINE M0 == {u \in Players : TeamOf[u] = t}
  <2>3. B!SumOf({e \in B!Scoring(k, "teams") : e.account = t})
          = Total([u \in M0 |-> B!UserProfile(u, k, TRUE).score], M0)
    BY TeamAgrees
  <2>4. IsFiniteSet(M0)
    BY AccountIds, FS_Subset
  <2>5. B!MapThenSumSet(LAMBDA u : B!UserProfile(u, k, TRUE).score, M0)
          = Total([u \in M0 |-> B!UserProfile(u, k, TRUE).score], M0)
    BY <2>4, MembersSum
  <2>6. M0 = {u \in Players : TeamOf[u] = r.account}
    BY <2>2
  <2> HIDE DEF M0
  <2> QED BY <2>2, <2>3, <2>5, <2>6
<1>9. ASSUME NEW c \in Challenges \ shut
      PROVE  B!Count(c, k) = B!Cardinality(B!ShownRows(B!SolveRows(c, k, 0, MaxRows)))
  BY CountAgrees, BoardMeasures
<1>10. ASSUME NEW u \in Players, NEW c \in Challenges \ shut, B!Solved(B!Account(u), c)
       PROVE  /\ c \in DOMAIN B!Listing(u, k) /\ ~B!Listing(u, k)[c].locked
              /\ B!Detail(u, c, k) = B!Listing(u, k)[c]
  BY <1>10, SolvedIsOpen
<1> HIDE DEF board
<1> QED BY <1>2, <1>4, <1>5, <1>6, <1>7, <1>8, <1>9, <1>10 DEF board

-----------------------------------------------------------------------------
BoardBooked == focus = "board" => B!Booked

(* In every state of the board each row is of its user's team, each solve  *)
(* has the solves it required beside it, and every transaction in flight   *)
(* has a place left (CommitSolve, CommitAward, RevokeManualAward, Room).   *)
THEOREM BookedHolds == FrontSpec => []BoardBooked
<1>1. FrontInit => BoardBooked
  BY BookedStarts DEF FrontInit, BoardBooked
<1>2. ASSUME BoardFits, BoardBooked, [FrontNext]_all PROVE BoardBooked'
  <2> SUFFICES ASSUME focus' = "board" PROVE B!Booked'
    BY DEF BoardBooked
  <2>1. CASE UNCHANGED <<focus, mode, open, solves, awards>>
    BY <1>2, <2>1 DEF BoardBooked, B!Booked, B!PrereqsMet, B!Solved, B!AccountOf, B!Owner
  <2>2. CASE Play
    BY <1>2, <2>2, BookedKept DEF Play, BoardBooked, BoardFits
  <2>3. CASE Credentials \/ Budgets \/ Streaming
    BY <2>1, <2>3 DEF Credentials, Budgets, Streaming, game, inputs
  <2>4. CASE UNCHANGED all
    BY <2>1, <2>4 DEF all, game, inputs
  <2> QED BY <1>2, <2>2, <2>3, <2>4 DEF FrontNext
<1> QED BY <1>1, <1>2, BoardInvariant, PTL DEF FrontSpec

(* All the reads of one state agree, whatever has been played, granted,     *)
(* revoked, hidden or closed: the SQL standings, the Go board, the curves,  *)
(* the pages, the counts and the lists.                                    *)
THEOREM ReadsHold == FrontSpec => []ReadsAgree
<1>1. BoardFits /\ BoardBooked => ReadsAgree
  BY AllAgree DEF BoardFits, BoardBooked, ReadsAgree, Quiet
<1> QED BY <1>1, BoardInvariant, BookedHolds, PTL
=============================================================================
