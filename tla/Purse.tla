-------------------------------- MODULE Purse --------------------------------
(* What buying hints promises: an account has points and hints, points come *)
(* in or an admin moves them, and a hint is bought once, in one step, after *)
(* the hints it needs and, unless an admin has taken points away, for no   *)
(* more than is there.                                                     *)
EXTENDS Integers

CONSTANTS Accounts, Hints, SolveValue, FirstPrice, NextPrice, Needs, Awards, Worth

VARIABLES
  balance,  \* balance[a]: the points of an account
  owned,    \* owned[a]: its hints
  docked    \* how often points were taken away

vars == <<balance, owned, docked>>

Init ==
  /\ balance = [a \in Accounts |-> 0]
  /\ owned = [a \in Accounts |-> {}]
  /\ docked = 0

Earn(a) ==
  /\ balance' = [balance EXCEPT ![a] = @ + SolveValue]
  /\ UNCHANGED <<owned, docked>>

Adjust(a, points) ==
  /\ balance' = [balance EXCEPT ![a] = @ + points]
  /\ docked' = IF points < 0 THEN docked + 1 ELSE docked
  /\ UNCHANGED owned

Buy(a, h) ==
  /\ h \notin owned[a]
  /\ Needs[h] \subseteq owned[a]
  /\ \E p \in {FirstPrice[h], NextPrice[h]} :
       /\ docked = 0 => p <= balance[a]
       /\ balance' = [balance EXCEPT ![a] = @ - p]
  /\ owned' = [owned EXCEPT ![a] = @ \cup {h}]
  /\ UNCHANGED docked

Next ==
  \E a \in Accounts :
    \/ Earn(a)
    \/ \E w \in Awards : Adjust(a, Worth[w]) \/ Adjust(a, -Worth[w])
    \/ \E h \in Hints : Buy(a, h)

Spec == Init /\ [][Next]_vars
=============================================================================
