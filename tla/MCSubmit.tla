------------------------------ MODULE MCSubmit ------------------------------
(* Small instances of the submission path. *)
EXTENDS Submit, TLC

CONSTANTS MaxAttempts, BloodMode, Decline, FirstPrice, Gated, Uncapped

(* Accounts and requests are interchangeable, challenges are not: one is    *)
(* behind the others with Gated, and then announces its first blood and    *)
(* declines logarithmically, whatever the others do.                       *)
Behind(c)    == Gated /\ c = CHOOSE d \in Challenges : TRUE
MCCap        == [c \in Challenges |-> IF c = Uncapped THEN 0 ELSE MaxAttempts]
MCFirstBlood == [c \in Challenges |-> IF Behind(c) THEN "announce" ELSE BloodMode]
MCCurve      == [c \in Challenges |->
                   LET function == IF Behind(c) THEN "logarithmic" ELSE Decline IN
                   [function |-> function, initial |-> 9, minimum |-> 3,
                    decay |-> IF function = "linear" THEN 5 ELSE 2]]
MCAsking     == [c \in Challenges |-> FirstPrice]
MCRequires   == [c \in Challenges |-> IF Behind(c) THEN Challenges \ {c} ELSE {}]

Interchangeable == Permutations(Submissions) \cup Permutations(Accounts)
=============================================================================
