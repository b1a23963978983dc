------------------------------ MODULE Windowing ------------------------------
(***************************************************************************)
(* The wall-clock windows of internal/rollup (window.go) as pure           *)
(* operators: which window an instant is in, and the pro-rata split of an  *)
(* amount over the windows an interval crosses.  Time is a number of       *)
(* ticks.                                                                  *)
(***************************************************************************)
EXTENDS Integers, FiniteSetsExt

CONSTANTS Length,     \* ticks in a window
          MaxInt      \* the largest value of the signed integer type

Lesser(a, b) == IF a < b THEN a ELSE b
Greater(a, b) == IF a > b THEN a ELSE b

\* A window is its index.
startOf(at) == at \div Length
WindowStart(w) == w * Length
WindowEnd(w) == (w + 1) * Length

mulDiv(a, b, c) ==
  IF a < 0 \/ b < 0 \/ c =< 0 THEN 0 ELSE Lesser((a * b) \div c, MaxInt)

NoParts == [w \in {} |-> 0]

\* Fault, not the code: every window takes its rounded share.
SplitRounded(from, to, amount) ==
  IF to - from =< 0 \/ amount < 0 THEN NoParts
  ELSE [w \in startOf(from) .. startOf(to - 1) |->
          mulDiv(amount, Lesser(WindowEnd(w), to) - Greater(from, WindowStart(w)), to - from)]

\* windowing.split: every window but the last takes its share of the amount,
\* the last takes what remains.
Split(from, to, amount) ==
  IF to - from =< 0 \/ amount < 0 THEN NoParts
  ELSE LET Last == startOf(to - 1)
           Share(w) == mulDiv(amount, WindowEnd(w) - Greater(from, WindowStart(w)), to - from)
           Before == startOf(from) .. Last - 1
       IN  [w \in startOf(from) .. Last |->
              IF w = Last THEN amount - SumFunctionOnSet([v \in Before |-> Share(v)], Before)
              ELSE Share(w)]
=============================================================================
