------------------------------ MODULE Evidence ------------------------------
(***************************************************************************)
(* The anti-cheat reports: what internal/anticheat makes of the log of     *)
(* submissions, each report its own query (internal/db/anticheat.sql.gen). *)
(* The unit is the account: the user, or in an event of teams the team.    *)
(* An event here is its mode and its log; names, which only decorate the   *)
(* rows, are left out.  A submission's place in the log is its date.       *)
(***************************************************************************)
EXTENDS Ordering, SequencesExt

CONSTANT None

(* The rows of submissions, as far as a report reads them.                  *)
Statuses == {"correct", "incorrect", "partial", "discard", "ratelimited"}
Attempts == [user : Nat, team : Nat, ch : Nat, type : Statuses,
             attributed : Nat \cup {None}, ip : Int \cup {None}]
IsEvent(e) == e \in [mode : {"users", "teams"}, log : Seq(Attempts)]

AccountOf(e, i) == IF e.mode = "teams" THEN e.log[i].team ELSE e.log[i].user
Accounts(e) == {AccountOf(e, i) : i \in DOMAIN e.log} \cup {e.log[i].attributed : i \in DOMAIN e.log}

Earliest(S) == CHOOSE i \in S : \A j \in S : i <= j
Latest(S)  == CHOOSE i \in S : \A j \in S : i >= j

(* Rows of a GROUP BY: one for each key that some submission has.           *)
Grouped(S, Key(_)) == {{j \in S : Key(j) = Key(i)} : i \in S}
Span(e, S) == [count |-> Cardinality(S), challenges |-> {e.log[i].ch : i \in S},
               first |-> Earliest(S), last |-> Latest(S)]

-----------------------------------------------------------------------------
(* Flag sharing: right answers attributed to another account than the one  *)
(* that gave them.                                                         *)
Shared(e) == {i \in DOMAIN e.log : /\ e.log[i].type = "correct" /\ e.log[i].attributed # None
                                   /\ e.log[i].attributed # AccountOf(e, i)}

PairOf(e, i) == [issuedTo |-> e.log[i].attributed, submitter |-> AccountOf(e, i)]
FlagSharingPairs(e) ==
  {[pair |-> PairOf(e, Earliest(S)), span |-> Span(e, S)] :
     S \in Grouped(Shared(e), LAMBDA i : PairOf(e, i))}
CountFlagSharingPairs(e) == Cardinality({PairOf(e, i) : i \in Shared(e)})

(* Slip: only what the account submitted is its evidence.                  *)
DirectionSubmitted(e, a, i) == "submitted"

(* One account's, in both directions, each row by counterparty.            *)
Direction(e, a, i) == IF e.log[i].attributed = a THEN "issued_to" ELSE "submitted"
EdgeOf(e, a, i) == [direction |-> Direction(e, a, i),
                    counterparty |-> IF Direction(e, a, i) = "issued_to" THEN AccountOf(e, i)
                                                                         ELSE e.log[i].attributed]
FlagSharingForAccount(e, a) ==
  {[edge |-> EdgeOf(e, a, Earliest(S)), span |-> Span(e, S)] :
     S \in Grouped({i \in Shared(e) : a \in {e.log[i].attributed, AccountOf(e, i)}},
                   LAMBDA i : EdgeOf(e, a, i))}

-----------------------------------------------------------------------------
(* Shared addresses, of any submission that has one.                       *)
Addressed(e) == {i \in DOMAIN e.log : e.log[i].ip # None}

PerAccount(e) == Grouped(Addressed(e), LAMBDA i : <<e.log[i].ip, AccountOf(e, i)>>)
IPOverlaps(e, minAccounts) ==
  {[ip |-> ip, accounts |-> {AccountOf(e, Earliest(S)) : S \in {T \in PerAccount(e) : e.log[Earliest(T)].ip = ip}},
    first |-> Earliest({i \in Addressed(e) : e.log[i].ip = ip}),
    last |-> Latest({i \in Addressed(e) : e.log[i].ip = ip})] :
     ip \in {p \in {e.log[i].ip : i \in Addressed(e)} :
               Cardinality({T \in PerAccount(e) : e.log[Earliest(T)].ip = p}) >= minAccounts}}
CountIPOverlaps(e, minAccounts) ==
  Cardinality({ip \in {e.log[i].ip : i \in Addressed(e)} :
                 Cardinality({AccountOf(e, i) : i \in {j \in Addressed(e) : e.log[j].ip = ip}}) >= minAccounts})

IPOverlapForAccount(e, a) ==
  LET mine == {e.log[i].ip : i \in {j \in Addressed(e) : AccountOf(e, j) = a}} IN
  {[ip |-> e.log[Earliest(S)].ip, other |-> AccountOf(e, Earliest(S)), count |-> Cardinality(S),
    first |-> Earliest(S), last |-> Latest(S)] :
     S \in Grouped({i \in DOMAIN e.log : e.log[i].ip \in mine /\ AccountOf(e, i) # a},
                   LAMBDA i : <<e.log[i].ip, AccountOf(e, i)>>)}

-----------------------------------------------------------------------------
(* What the handlers answer: a page of the list, most first, and the total *)
(* it is paged by; and one account's report, which is never paged.         *)
PageOf(rows, Less(_, _), page, perPage) ==
  LET all == InOrder(rows, Less)
      from == (page - 1) * perPage
  IN SubSeq(all, from + 1, IF from + perPage < Len(all) THEN from + perPage ELSE Len(all))

MorePairs(x, y) == \/ x.span.count > y.span.count
                   \/ x.span.count = y.span.count /\ x.span.last > y.span.last
FlagSharing(e, page, perPage) ==
  [pairs |-> PageOf(FlagSharingPairs(e), MorePairs, page, perPage), total |-> CountFlagSharingPairs(e)]

MoreAccounts(x, y) == \/ Cardinality(x.accounts) > Cardinality(y.accounts)
                      \/ Cardinality(x.accounts) = Cardinality(y.accounts) /\ x.ip < y.ip
IPOverlap(e, minAccounts, page, perPage) ==
  [clusters |-> PageOf(IPOverlaps(e, minAccounts), MoreAccounts, page, perPage),
   total |-> CountIPOverlaps(e, minAccounts)]

AccountReport(e, a) == [sharing |-> FlagSharingForAccount(e, a), overlap |-> IPOverlapForAccount(e, a)]

-----------------------------------------------------------------------------
(* The reports tell one story: an account's report holds exactly the pairs *)
(* and the clusters it is in, with the same counts, challenges and dates,  *)
(* and leafing through a list by its total shows every row once.           *)
EachOnce(Page(_), total) ==
  LET read[n \in 0..total] == IF n = 0 THEN << >> ELSE read[n - 1] \o Page(n)
  IN Len(read[total]) = total /\ Cardinality(ToSet(read[total])) = total

ReportsAgree(e) ==
  /\ \A a \in Accounts(e) \ {None} :
       LET report == AccountReport(e, a) IN
       /\ report.sharing =
            {[edge |-> [direction |-> "submitted", counterparty |-> p.pair.issuedTo], span |-> p.span] :
               p \in {q \in FlagSharingPairs(e) : q.pair.submitter = a}}
            \cup
            {[edge |-> [direction |-> "issued_to", counterparty |-> p.pair.submitter], span |-> p.span] :
               p \in {q \in FlagSharingPairs(e) : q.pair.issuedTo = a}}
       /\ {<<n.ip, n.other>> : n \in report.overlap} =
            UNION {{c.ip} \X (c.accounts \ {a}) : c \in {d \in IPOverlaps(e, 2) : a \in d.accounts}}
  /\ \A perPage \in 1..2 :
       /\ EachOnce(LAMBDA n : FlagSharing(e, n, perPage).pairs, FlagSharing(e, 1, perPage).total)
       /\ \A least \in 2..3 : EachOnce(LAMBDA n : IPOverlap(e, least, n, perPage).clusters,
                                      IPOverlap(e, least, 1, perPage).total)
=============================================================================
