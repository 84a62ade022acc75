------------------------------ MODULE Limiter -------------------------------
(* The budgets of the credential routes: httpapi's rateLimit and           *)
(* credentialLimit over accounts.Limiter, whose counters are rows of       *)
(* rate_limits, one per bucket and window.                                 *)
(*                                                                         *)
(* A request spends from up to three buckets before its handler runs and   *)
(* is refunded by two of them if the handler did not reject it. Every      *)
(* spending and refunding is one statement against the window of its own   *)
(* moment, so a request may straddle two.                                  *)
EXTENDS Naturals, FiniteSets

CONSTANTS
  Requests,
  Sources,        \* client addresses
  Targets,        \* accounts and tokens a request may be aimed at
  None,
  GeneralLimit, TargetLimit, FailureLimit, FloodLimit,
  LastWindow      \* how often the window may roll (bound)

(* The routes: refundable ones say whether the attempt was legitimate, the *)
(* request for a reset mail answers the same whatever it was aimed at.     *)
Routes == {"refundable", "silent", "plain"}
Calls == [route : Routes, source : Sources, target : Targets \cup {None}, legitimate : BOOLEAN]

(* What is taken of the constants: who instantiates this assumes it.         *)
LimiterConstants ==
  /\ {GeneralLimit, TargetLimit, FailureLimit, FloodLimit, LastWindow} \subseteq Nat
  /\ IsFiniteSet(Requests)
  /\ None \notin Requests \cup Sources \cup Targets \cup Calls \cup 0..LastWindow

VARIABLES
  n,          \* rate_limits.n, 0 where there is no row
  now,        \* the window of the present moment
  pc,
  call,       \* the route of a request, where it comes from and what it is aimed at
  spent,      \* the window each of its budgets was spent in
  back        \* the window each of them was refunded in

vars == <<n, now, pc, call, spent, back>>

-----------------------------------------------------------------------------
Windows == 0..LastWindow
Budgets == {"flood", "failure", "target", "general"}
Buckets == [budget : Budgets, key : Sources \cup Targets]

Limit == [general |-> GeneralLimit, target |-> TargetLimit,
          failure |-> FailureLimit, flood |-> FloodLimit]

(* credentialTarget: a request that names no target keys on its source.    *)
TargetKey(c) == IF c.target = None THEN c.source ELSE c.target

Bucket(c, budget) ==
  [budget |-> budget, key |-> IF budget = "target" THEN TargetKey(c) ELSE c.source]

At(r, label) == pc[r] = label
Go(r, label) == pc' = [pc EXCEPT ![r] = label]

(* BumpRateLimit and RefundRateLimit: each one statement, on the window of *)
(* its moment; a refund floors at zero.                                    *)
Bump(b) == n' = [n EXCEPT ![<<b, now>>] = @ + 1]
RefundRateLimit(b) == n' = [n EXCEPT ![<<b, now>>] = IF @ > 0 THEN @ - 1 ELSE 0]

(* Allow: bump, then compare; an error is a denial.                       *)
Allow(r, budget, label) ==
  LET b == Bucket(call[r], budget) IN
  /\ Bump(b)
  /\ spent' = [spent EXCEPT ![r][budget] = now]
  /\ Go(r, IF n[b, now] + 1 <= Limit[budget] THEN label ELSE "denied")
  /\ UNCHANGED <<now, call, back>>

-----------------------------------------------------------------------------
(* rateLimit hands a credential route to credentialLimit.                  *)
Arrive(r) ==
  /\ At(r, "idle")
  /\ \E c \in Calls :
       /\ c.route # "refundable" => c.legitimate
       /\ c.route = "plain" => c.target = None
       /\ call' = [call EXCEPT ![r] = c]
       /\ Go(r, IF c.route = "plain" THEN "general" ELSE "flood")
  /\ UNCHANGED <<n, now, spent, back>>

SpendGeneral(r) == At(r, "general") /\ Allow(r, "general", "handler")
SpendFlood(r) == At(r, "flood") /\ Allow(r, "flood", "failure")
SpendFailure(r) == At(r, "failure") /\ Allow(r, "failure", "target")
SpendTarget(r) == At(r, "target") /\ Allow(r, "target", "handler")

(* A limiter that cannot answer is not an open door: nothing is bumped.    *)
LimiterFails(r) ==
  /\ pc[r] \in Budgets
  /\ Go(r, "unavailable")
  /\ UNCHANGED <<n, now, call, spent, back>>

(* The handler's answer. Slip: the silent route is refunded too.           *)
HandleRefundsAll(r) ==
  /\ At(r, "handler")
  /\ Go(r, IF call[r].legitimate THEN "refundFailure" ELSE "done")
  /\ UNCHANGED <<n, now, call, spent, back>>

Handle(r) ==
  /\ At(r, "handler")
  /\ Go(r, IF call[r].route = "refundable" /\ call[r].legitimate THEN "refundFailure" ELSE "done")
  /\ UNCHANGED <<n, now, call, spent, back>>

Refund(r, budget, label) ==
  /\ RefundRateLimit(Bucket(call[r], budget))
  /\ back' = [back EXCEPT ![r][budget] = now]
  /\ Go(r, label)
  /\ UNCHANGED <<now, call, spent>>

RefundFailure(r) == At(r, "refundFailure") /\ Refund(r, "failure", "refundTarget")
RefundTarget(r) == At(r, "refundTarget") /\ Refund(r, "target", "done")

(* A refund that fails is logged, and the next one is still tried.         *)
RefundFails(r) ==
  /\ pc[r] \in {"refundFailure", "refundTarget"}
  /\ Go(r, IF At(r, "refundFailure") THEN "refundTarget" ELSE "done")
  /\ UNCHANGED <<n, now, call, spent, back>>

(* The clock. (The reaper deletes rows two windows old, which no statement *)
(* touches any more: to this model they are as good as gone.)              *)
Roll ==
  /\ now < LastWindow
  /\ now' = now + 1
  /\ UNCHANGED <<n, pc, call, spent, back>>

-----------------------------------------------------------------------------
Nowhere == [b \in Budgets |-> None]

Init ==
  /\ n = [k \in Buckets \X Windows |-> 0]
  /\ now = 0
  /\ pc = [r \in Requests |-> "idle"]
  /\ call = [r \in Requests |-> None]
  /\ spent = [r \in Requests |-> Nowhere]
  /\ back = [r \in Requests |-> Nowhere]

Next ==
  \/ \E r \in Requests :
       \/ Arrive(r) \/ SpendGeneral(r) \/ SpendFlood(r) \/ SpendFailure(r) \/ SpendTarget(r)
       \/ LimiterFails(r) \/ Handle(r) \/ RefundFailure(r) \/ RefundTarget(r) \/ RefundFails(r)
  \/ Roll

Spec == Init /\ [][Next]_vars

-----------------------------------------------------------------------------
Handled == {r \in Requests : pc[r] \in {"handler", "refundFailure", "refundTarget", "done"}}
Credentials(r) == call[r].route # "plain"

SpentIn(r, b, w) == call[r] # None /\ Bucket(call[r], b.budget) = b /\ spent[r][b.budget] = w
StraysInto(b, w) ==
  {r \in Requests : /\ call[r] # None /\ Bucket(call[r], b.budget) = b
                    /\ back[r][b.budget] = w /\ spent[r][b.budget] # w}

(* Who spent in a window and had nothing back at all, or nothing in that    *)
(* window, and who of these was let through.                               *)
Unrefunded(b, w) == {r \in Requests : SpentIn(r, b, w) /\ back[r][b.budget] = None}
Kept(b, w) == {r \in Requests : SpentIn(r, b, w) /\ back[r][b.budget] # w}
LetThrough(b, w) == {r \in Kept(b, w) : r \in Handled \/ (b.budget = "failure" /\ At(r, "target"))}

(* Every variable keeps to the type of the row or local it stands for.     *)
TypeOK ==
  /\ n \in [Buckets \X Windows -> Nat] /\ now \in Windows
  /\ pc \in [Requests -> {"idle", "handler", "refundFailure", "refundTarget", "done", "denied", "unavailable"}
                           \cup Budgets]
  /\ call \in [Requests -> Calls \cup {None}]
  /\ spent \in [Requests -> [Budgets -> Windows \cup {None}]]
  /\ back \in [Requests -> [Budgets -> Windows \cup {None}]]

(* However requests interleave, and although each success is refunded, no  *)
(* more rejected or silent attempts are let through to the handler in one  *)
(* window than the budget, but for one per refund that strayed into that   *)
(* window from the one before (credentialLimit; Refund).                   *)
FailuresBounded ==
  \A b \in {x \in Buckets : x.budget \in {"failure", "target"}}, w \in Windows :
    Cardinality({r \in Handled : /\ Credentials(r) /\ SpentIn(r, b, w)
                                 /\ ~call[r].legitimate \/ call[r].route = "silent"})
      <= Limit[b.budget] + Cardinality(StraysInto(b, w))

(* A success costs an address and an account nothing: unless refunds went  *)
(* astray, a counter is the number of its spenders who were not refunded.  *)
SuccessIsFree ==
  \A b \in Buckets, w \in Windows :
    (\A v \in Windows : StraysInto(b, v) = {}) =>
      n[b, w] = Cardinality(Unrefunded(b, w))

(* A request spends a budget once, when it comes to it, and gets back what *)
(* a legitimate attempt on a refundable route spent, after its answer.     *)
Ahead == [idle |-> Budgets, general |-> Budgets, flood |-> Budgets,
          failure |-> {"failure", "target"}, target |-> {"target"}]
InTurn(r) ==
  /\ call[r] = None <=> At(r, "idle")
  /\ pc[r] \in DOMAIN Ahead => \A x \in Ahead[pc[r]] : spent[r][x] = None
  /\ \A x \in Budgets : pc[r] \notin {"refundTarget", "done"} => back[r][x] = None
  /\ At(r, "refundTarget") => back[r]["target"] = None
  /\ pc[r] \in {"refundFailure", "refundTarget"} \/ (\E x \in Budgets : back[r][x] # None)
       => call[r].route = "refundable" /\ call[r].legitimate

(* A counter is short of who spent from it by the refunds that strayed into *)
(* it at most, and so is the budget of who was let through.                *)
Inv ==
  /\ \A r \in Requests : InTurn(r)
  /\ \A b \in Buckets, w \in Windows :
       /\ Cardinality(Kept(b, w)) <= n[b, w] + Cardinality(StraysInto(b, w))
       /\ b.budget \in {"failure", "target"} =>
            Cardinality(LetThrough(b, w)) <= Limit[b.budget] + Cardinality(StraysInto(b, w))
  /\ SuccessIsFree
=============================================================================
