------------------------------- MODULE Ledger -------------------------------
(***************************************************************************)
(* What the submission path promises, as a serial program: a submission is *)
(* one step.  A miss spends an attempt; a hit on a visible challenge puts  *)
(* the account on its list once, at the asking price of that moment, with  *)
(* first blood decided on the spot, and moves the price.                   *)
(***************************************************************************)
EXTENDS Decay, Sequences, FiniteSets

CONSTANTS Accounts, Challenges, Cap, FirstBlood, Curve, AskingPrice, Requires

VARIABLES
  wrong,     \* wrong[c][a]: attempts spent
  board,     \* board[c]: who solved it, in order, at what price, with first blood or not
  price,     \* price[c]: what the next solver is paid
  state,     \* state[c]: "visible", "hidden" or "deleted"
  eligible   \* eligible[a]: the accounts that count, fixed

vars == <<wrong, board, price, state, eligible>>

On(a, c)     == \E i \in DOMAIN board[c] : board[c][i].acct = a
Counted(c)   == {i \in DOMAIN board[c] : eligible[board[c][i].acct]}
Playable(a, c) == \A r \in Requires[c] : On(a, r)
Untouched(c) == board[c] = << >> /\ \A a \in Accounts : wrong[c][a] = 0

Init ==
  /\ wrong = [c \in Challenges |-> [a \in Accounts |-> 0]]
  /\ board = [c \in Challenges |-> << >>]
  /\ price = AskingPrice
  /\ state = [c \in Challenges |-> "visible"]
  /\ eligible \in [Accounts -> BOOLEAN]

Miss(a, c) ==
  /\ state[c] # "deleted" /\ Playable(a, c)
  /\ Cap[c] > 0 => wrong[c][a] < Cap[c]
  /\ wrong' = [wrong EXCEPT ![c][a] = @ + 1]
  /\ UNCHANGED <<board, price, state, eligible>>

Hit(a, c) ==
  /\ state[c] = "visible" /\ Playable(a, c)
  /\ Cap[c] > 0 => wrong[c][a] < Cap[c]
  /\ ~On(a, c)
  /\ board' = [board EXCEPT ![c] = Append(@,
       [acct |-> a, value |-> price[c],
        blood |-> FirstBlood[c] # "none" /\ eligible[a] /\ Counted(c) = {}])]
  /\ price' = [price EXCEPT ![c] =
       IF Decays(Curve[c].function)
       THEN RecalcValue(Curve[c], Cardinality(Counted(c)) + (IF eligible[a] THEN 1 ELSE 0))
       ELSE @]
  /\ UNCHANGED <<wrong, state, eligible>>

(* The operator hides, shows or, while nothing refers to it, deletes it.    *)
Curate(c) ==
  /\ state[c] # "deleted"
  /\ \E new \in {"visible", "hidden", "deleted"} \ {state[c]} :
        /\ new = "deleted" => Untouched(c)
        /\ state' = [state EXCEPT ![c] = new]
  /\ UNCHANGED <<wrong, board, price, eligible>>

Next ==
  \/ \E a \in Accounts, c \in Challenges : Miss(a, c) \/ Hit(a, c)
  \/ \E c \in Challenges : Curate(c)

Spec == Init /\ [][Next]_vars
=============================================================================
