------------------------------- MODULE ArgMax -------------------------------
(***************************************************************************)
(* The ArgMax reduce instruction (cubecl-reduce instructions/argmax.rs):   *)
(* accumulators are lines of (item, coordinate) lanes, combined lane-wise  *)
(* by choose_argmax.  Units fold input lines into their accumulator with   *)
(* reduce, accumulators are fused pairwise in an order the strategy and    *)
(* the hardware pick, and merge_line turns the last accumulator into one   *)
(* coordinate.  Lane k of input line j sits at coordinate j * LineSize + k.*)
(***************************************************************************)
EXTENDS Naturals, Sequences, FiniteSets

CONSTANTS
  Values,      \* the items the input may hold
  MinValue,    \* In::min_value(), the item of the null accumulator
  NumLines,    \* input lines along the reduced axis
  LineSize,    \* lanes per line
  NumUnits     \* accumulators the units start with

ASSUME MinValue \in Values /\ \A v \in Values : MinValue <= v

Lanes == 0..(LineSize - 1)
Coordinates == 0..(NumLines * LineSize - 1)

\* u32::MAX: above every real coordinate.
NullCoordinate == NumLines * LineSize

\* null_accumulator: every lane holds (min_value, u32::MAX).
NullAccumulator == [k \in Lanes |-> [item |-> MinValue, coord |-> NullCoordinate]]

\* Fault variant: ties keep the second pair whatever the coordinates.
ChooseArgmaxNoTieBreak(p0, p1) == IF p0.item > p1.item THEN p0 ELSE p1

\* choose_argmax on one lane: keep the first pair when its item is greater,
\* or equal with a lower coordinate; otherwise the second.
ChooseArgmax(p0, p1) ==
  IF \/ p0.item = p1.item /\ p0.coord < p1.coord
     \/ p0.item > p1.item
  THEN p0 ELSE p1

ChooseArgmaxLine(l0, l1) == [k \in Lanes |-> ChooseArgmax(l0[k], l1[k])]

\* The input line j with its coordinates.
InputLine(input, j) == [k \in Lanes |-> [item |-> input[j * LineSize + k],
                                         coord |-> j * LineSize + k]]

\* merge_line: the lanes scanned in order from (min_value, u32::MAX).
RECURSIVE MergeLanes(_, _, _)
MergeLanes(acc, k, best) ==
  IF k = LineSize THEN best
  ELSE MergeLanes(acc, k + 1,
         IF acc[k].item = best.item /\ acc[k].coord < best.coord THEN acc[k]
         ELSE IF acc[k].item > best.item THEN acc[k]
         ELSE best)

MergeLine(acc) ==
  IF LineSize > 1
  THEN MergeLanes(acc, 0, [item |-> MinValue, coord |-> NullCoordinate]).coord
  ELSE acc[0].coord

VARIABLES
  input,     \* [Coordinates -> Values]
  pending,   \* input lines no unit has reduced yet
  accs,      \* the accumulators not yet fused away
  result     \* the output coordinate, or NullCoordinate + 1 before merge_line

vars == <<input, pending, accs, result>>

NoResult == NullCoordinate + 1

Init ==
  /\ input \in [Coordinates -> Values]
  /\ pending = 0..(NumLines - 1)
  /\ accs = [i \in 1..NumUnits |-> NullAccumulator]
  /\ result = NoResult

\* reduce: a unit folds an input line into its accumulator, the line as
\* candidate and the accumulator second.
Reduce(i, j) ==
  /\ j \in pending
  /\ pending' = pending \ {j}
  /\ accs' = [accs EXCEPT ![i] = ChooseArgmaxLine(InputLine(input, j), @)]
  /\ UNCHANGED <<input, result>>

\* fuse_accumulators(lhs = accs[i], rhs = accs[k]), the result replacing both.
Fuse(i, k) ==
  /\ i # k
  /\ accs' = [n \in 1..(Len(accs) - 1) |->
                LET m == IF n < k THEN n ELSE n + 1
                IN IF m = i THEN ChooseArgmaxLine(accs[i], accs[k]) ELSE accs[m]]
  /\ UNCHANGED <<input, pending, result>>

\* Fault variant: merge_line runs without waiting for every line.
MergeEarly ==
  /\ Len(accs) = 1
  /\ result = NoResult
  /\ result' = MergeLine(accs[1])
  /\ UNCHANGED <<input, pending, accs>>

\* merge_line on the one accumulator left once every line is reduced.
Merge ==
  /\ pending = {}
  /\ Len(accs) = 1
  /\ result = NoResult
  /\ result' = MergeLine(accs[1])
  /\ UNCHANGED <<input, pending, accs>>

Next ==
  \/ \E i \in DOMAIN accs, j \in 0..(NumLines - 1) : Reduce(i, j)
  \/ \E i, k \in DOMAIN accs : Fuse(i, k)
  \/ Merge

Spec == Init /\ [][Next]_vars

-----------------------------------------------------------------------------

TypeOK ==
  /\ input \in [Coordinates -> Values]
  /\ pending \subseteq 0..(NumLines - 1)
  /\ accs \in Seq([Lanes -> [item : Values, coord : Coordinates \cup {NullCoordinate}]])
  /\ result \in Coordinates \cup {NoResult}

\* The reference of the doc comment ("the smallest coordinate in case of
\* equality"): the lowest coordinate holding the maximum item.
ExpectedArgmax ==
  CHOOSE c \in Coordinates :
    /\ \A d \in Coordinates : input[d] <= input[c]
    /\ \A d \in Coordinates : input[d] = input[c] => c <= d

\* Whatever the order in which units reduce lines and accumulators are
\* fused, merge_line returns the lowest coordinate of the maximum.
ArgmaxIsLowestMaximum ==
  result # NoResult => result = ExpectedArgmax

=============================================================================
