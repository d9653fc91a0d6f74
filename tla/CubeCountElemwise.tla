--------------------------- MODULE CubeCountElemwise ---------------------------
(***************************************************************************)
(* calculate_cube_count_elemwise (cubecl-core lib.rs): the grid for an     *)
(* operation with one unit per element, computed in f32.  A float is a     *)
(* record [m, e] standing for m * 2^e with a significand of Precision      *)
(* bits (24 for f32); every f32 operation of the code rounds its exact     *)
(* result to nearest, ties to even, as IEEE 754 prescribes for division,   *)
(* multiplication, sqrt and the conversion from an integer.  ceil, max and *)
(* the cast to u32 are exact on the values they meet here.                 *)
(***************************************************************************)
EXTENDS Integers

CONSTANTS
  Precision,      \* significand bits of the float type
  MaxExp,         \* bound of the exponent search: |log2| of every value met
  Elems,          \* the num_elems a caller passes
  UnitsPerCube    \* cube_dim.num_elems(): x * y * z of the cube dim

ASSUME Precision \in Nat \ {0} /\ MaxExp \in Nat

DivCeil(a, b) == (a + b - 1) \div b

\* 2^j <= num / den, for a positive rational and any integer j (compared
\* without forming a product that outgrows the values met).
AtLeastPow2(num, den, j) == IF j >= 0 THEN num \div 2^j >= den ELSE num >= DivCeil(den, 2^(-j))

\* floor(log2(num / den)).
Log2Floor(num, den) ==
  CHOOSE j \in -MaxExp..MaxExp : AtLeastPow2(num, den, j) /\ ~AtLeastPow2(num, den, j + 1)

\* The float nearest to num / den (ties to even): the quotient scaled into
\* [2^(Precision-1), 2^Precision) and rounded to an integer significand.
RoundDiv(num, den) ==
  IF num = 0 THEN [m |-> 0, e |-> 0]
  ELSE LET e == Log2Floor(num, den) - (Precision - 1)
           a == IF e >= 0 THEN num ELSE num * 2^(-e)
           b == IF e >= 0 THEN den * 2^e ELSE den
           q == a \div b
           r == a % b
       IN [m |-> IF 2 * r > b \/ (2 * r = b /\ q % 2 = 1) THEN q + 1 ELSE q, e |-> e]

\* The float nearest to sqrt(c) for an integer c >= 1 (f32::sqrt is
\* correctly rounded).
RoundSqrt(c) ==
  LET e == (Log2Floor(c, 1) \div 2) - (Precision - 1)
      a == IF e >= 0 THEN c ELSE c * 4^(-e)
      b == IF e >= 0 THEN 4^e ELSE 1
      m0 == CHOOSE m \in 0..2^Precision : m * m * b <= a /\ (m + 1) * (m + 1) * b > a
      twice == (2 * m0 + 1) * (2 * m0 + 1) * b
  IN [m |-> IF twice < 4 * a \/ (twice = 4 * a /\ m0 % 2 = 1) THEN m0 + 1 ELSE m0, e |-> e]

\* f32::ceil of a float, an integer.
Ceil(f) == IF f.e >= 0 THEN f.m * 2^f.e ELSE DivCeil(f.m, 2^(-f.e))

\* `n as f32` for an integer n, read back as the integer it equals.
AsFloat(n) == Ceil(RoundDiv(n, 1))

\* Fault variant: cube_count_y truncated instead of rounded up.
CalculateCubeCountElemwiseFloorY(numElems, perCube) ==
  LET n == AsFloat(numElems)
      p == AsFloat(perCube)
      cubeCounts == IF Ceil(RoundDiv(n, p)) > 1 THEN Ceil(RoundDiv(n, p)) ELSE 1
      x == Ceil(RoundSqrt(cubeCounts))
      yf == RoundDiv(n, AsFloat(x * p))
  IN <<x, IF yf.e >= 0 THEN yf.m * 2^yf.e ELSE yf.m \div 2^(-yf.e), 1>>

\* calculate_cube_count_elemwise: cube_counts = max(1, ceil(n / per_cube)),
\* x = ceil(sqrt(cube_counts)), y = ceil(n / (x * per_cube)), all in f32.
CalculateCubeCountElemwise(numElems, perCube) ==
  LET n == AsFloat(numElems)
      p == AsFloat(perCube)
      cubeCounts == IF Ceil(RoundDiv(n, p)) > 1 THEN Ceil(RoundDiv(n, p)) ELSE 1
      x == Ceil(RoundSqrt(cubeCounts))
  IN <<x, Ceil(RoundDiv(n, AsFloat(x * p))), 1>>

VARIABLES
  numElems,    \* the elements of the operation
  perCube,     \* units per cube
  cubeCount    \* the CubeCount::Static the launch gets, or <<>> before

vars == <<numElems, perCube, cubeCount>>

Init ==
  /\ numElems \in Elems
  /\ perCube \in UnitsPerCube
  /\ cubeCount = <<>>

\* The caller computes the grid for its launch.
Launch ==
  /\ cubeCount = <<>>
  /\ cubeCount' = CalculateCubeCountElemwise(numElems, perCube)
  /\ UNCHANGED <<numElems, perCube>>

Next == Launch

Spec == Init /\ [][Next]_vars

-----------------------------------------------------------------------------

\* The grid has a unit for every element, as the doc comment of
\* calculate_cube_count_elemwise promises ("one cube unit is assigned to
\* one element"): x * y * z cubes of per_cube units reach num_elems.
GridCoversElements ==
  cubeCount # <<>> =>
    cubeCount[1] * cubeCount[2] * cubeCount[3] * perCube >= numElems

=============================================================================
