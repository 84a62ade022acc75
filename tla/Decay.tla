------------------------------- MODULE Decay -------------------------------
(***************************************************************************)
(* The decay curve: what a challenge asks for once n accounts have solved  *)
(* it.  The program computes it twice, in Go (scoring.Curve.ValueAt) and   *)
(* in SQL (RecalcChallengeValue), and both forms are stated here.          *)
(*                                                                         *)
(* Operands are unbounded integers.  The columns are int4 and both engines *)
(* widen to 64 bits before multiplying, so no product of an admissible     *)
(* curve wraps below 2^16 solves (initial - minimum < 2^31, n^2 < 2^32).   *)
(***************************************************************************)
EXTENDS Integers

DecayFunctions == {"static", "linear", "logarithmic"}

Decays(f) == f # "static"

(* Curve.Validate, and the CHECK challenges_dynamic_params that backs it:  *)
(* the parameters of a static challenge are free, a decaying one needs a   *)
(* positive decay and 0 <= minimum <= initial.                             *)
Validate(c) ==
  /\ c.function \in DecayFunctions
  /\ c.initial >= 0
  /\ Decays(c.function) => /\ c.minimum >= 0
                           /\ c.minimum <= c.initial
                           /\ c.decay >= 1

Curves == {c \in [function : DecayFunctions, initial : Int, minimum : Int, decay : Int] :
             Validate(c)}

AtLeast(low, v) == IF v < low THEN low ELSE v
AtMost(high, v) == IF v > high THEN high ELSE v

(* The solves beyond the first: the first solver must pay the full price.  *)
BeyondFirst(solves) == AtLeast(0, solves - 1)

(* Curve.ValueAt, with its early returns at and past the knee.             *)
ValueAt(c, solves) ==
  LET n == BeyondFirst(solves) IN
  CASE c.function = "static" -> c.initial
    [] c.function = "linear" -> AtLeast(c.minimum, c.initial - c.decay * n)
    [] c.function = "logarithmic" ->
         IF c.decay <= 0 \/ n >= c.decay
         THEN c.minimum
         ELSE AtLeast(c.minimum,
                c.initial - ((c.initial - c.minimum) * n * n) \div (c.decay * c.decay))

(* RecalcChallengeValue: the SET expression of the one UPDATE, for a row    *)
(* whose function is not static.  The logarithmic branch clamps the count  *)
(* at the knee instead of returning early.                                 *)
RecalcValue(c, solves) ==
  LET n == BeyondFirst(solves)
      m == AtMost(c.decay, n)
  IN AtLeast(c.minimum,
       IF c.function = "linear"
       THEN c.initial - c.decay * n
       ELSE c.initial - ((c.initial - c.minimum) * m * m) \div (c.decay * c.decay))

(* The price shown (Go) and the price stored and stamped (SQL) are one.    *)
EnginesAgree(c, solves) == Decays(c.function) => ValueAt(c, solves) = RecalcValue(c, solves)
=============================================================================
