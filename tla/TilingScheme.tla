---------------------------- MODULE TilingScheme ----------------------------
(***************************************************************************)
(* The tiling scheme of cubecl-matmul (components/tiling_scheme.rs): a     *)
(* builder collects the tile, partition, stage and global partition sizes  *)
(* in any order and build checks that the first three are present; the     *)
(* scheme then answers how many children of one level fit in a parent     *)
(* level along a dimension (try_count_1d, recursive over the hierarchy),   *)
(* over two dimensions, and along the row or column of an operand.         *)
(***************************************************************************)
EXTENDS Naturals

CONSTANTS
  SizeValues,   \* the values a size may take along one dimension
  None          \* Option::None

Dims == {"M", "N", "K"}
Sizes == [Dims -> SizeValues]
\* with_stage_size asserts stage_size.k == 1.
StageSizes == {s \in Sizes : s["K"] = 1}

\* TilingLevel, from the outermost level to the innermost.
Levels == <<"GlobalPartition", "Stage", "Partition", "Tile", "Element">>
Depth(l) == CHOOSE i \in 1..5 : Levels[i] = l

\* The `?` of Some(a? * b?).
Mul(a, b) == IF a = None \/ b = None THEN None ELSE a * b

\* Fault variant: the global partition answers its extent along K too.
DirectCountWithK(s, c, p, d) ==
  CASE <<c, p>> = <<"Stage", "GlobalPartition">> -> s.globalPartition[d]
    [] <<c, p>> = <<"Partition", "Stage">> -> s.stage[d]
    [] <<c, p>> = <<"Tile", "Partition">> -> s.partition[d]
    [] <<c, p>> = <<"Element", "Tile">> -> s.tile[d]

\* The arms of try_count_1d that read one size of the scheme: a child
\* level directly inside its parent.
DirectCount(s, c, p, d) ==
  CASE <<c, p>> = <<"Stage", "GlobalPartition">> ->
         IF d = "K" THEN None ELSE s.globalPartition[d]
    [] <<c, p>> = <<"Partition", "Stage">> -> s.stage[d]
    [] <<c, p>> = <<"Tile", "Partition">> -> s.partition[d]
    [] <<c, p>> = <<"Element", "Tile">> -> s.tile[d]

Adjacent == {<<"Stage", "GlobalPartition">>, <<"Partition", "Stage">>,
             <<"Tile", "Partition">>, <<"Element", "Tile">>}

\* The arms that go through an intermediate level: [child, parent] |-> the
\* two pairs whose counts are multiplied.
Composite ==
  [x \in {<<"Partition", "GlobalPartition">>, <<"Tile", "GlobalPartition">>,
          <<"Element", "GlobalPartition">>, <<"Tile", "Stage">>,
          <<"Element", "Stage">>, <<"Element", "Partition">>} |->
     CASE x = <<"Partition", "GlobalPartition">> ->
            <<<<"Partition", "Stage">>, <<"Stage", "GlobalPartition">>>>
       [] x = <<"Tile", "GlobalPartition">> ->
            <<<<"Tile", "Stage">>, <<"Stage", "GlobalPartition">>>>
       [] x = <<"Element", "GlobalPartition">> ->
            <<<<"Element", "Stage">>, <<"Stage", "GlobalPartition">>>>
       [] x = <<"Tile", "Stage">> -> <<<<"Partition", "Stage">>, <<"Tile", "Partition">>>>
       [] x = <<"Element", "Stage">> -> <<<<"Tile", "Stage">>, <<"Element", "Tile">>>>
       [] x = <<"Element", "Partition">> -> <<<<"Tile", "Partition">>, <<"Element", "Tile">>>>]

RECURSIVE TryCount1d(_, _, _, _)
\* try_count_1d(child, parent, dim) on scheme s; None for every other pair.
TryCount1d(s, c, p, d) ==
  CASE c = p -> 1
    [] <<c, p>> \in Adjacent -> DirectCount(s, c, p, d)
    [] <<c, p>> \in DOMAIN Composite ->
         LET q == Composite[<<c, p>>]
         IN Mul(TryCount1d(s, q[1][1], q[1][2], d), TryCount1d(s, q[2][1], q[2][2], d))
    [] OTHER -> None

TryCount2d(s, c, p, d1, d2) == Mul(TryCount1d(s, c, p, d1), TryCount1d(s, c, p, d2))

\* The dimensions of an operand: count_2d_ident, count_1d_ident_row and
\* count_1d_ident_col.
Idents == {"Lhs", "Rhs", "Out"}
IdentDims(i) == CASE i = "Lhs" -> <<"M", "K">> [] i = "Rhs" -> <<"K", "N">> [] i = "Out" -> <<"M", "N">>
\* Fault variant: the row of Rhs read along N.
IdentRowRhsN(i) == CASE i = "Lhs" -> "M" [] i = "Rhs" -> "N" [] i = "Out" -> "M"
IdentRow(i) == CASE i = "Lhs" -> "M" [] i = "Rhs" -> "K" [] i = "Out" -> "M"
IdentCol(i) == CASE i = "Lhs" -> "K" [] i = "Rhs" -> "N" [] i = "Out" -> "N"

VARIABLES
  builder,   \* [tile, partition, stage, globalPartition]: sizes or None
  result     \* None before build, then [ok |-> TilingScheme] or [err |-> missing field]

vars == <<builder, result>>

Init ==
  /\ builder = [tile |-> None, partition |-> None, stage |-> None, globalPartition |-> None]
  /\ result = None

WithTileSize(t) ==
  /\ result = None
  /\ builder' = [builder EXCEPT !.tile = t]
  /\ UNCHANGED result

WithPartitionSize(t) ==
  /\ result = None
  /\ builder' = [builder EXCEPT !.partition = t]
  /\ UNCHANGED result

WithStageSize(t) ==
  /\ result = None
  /\ builder' = [builder EXCEPT !.stage = t]
  /\ UNCHANGED result

WithGlobalPartitionSize(t) ==
  /\ result = None
  /\ builder' = [builder EXCEPT !.globalPartition = t]
  /\ UNCHANGED result

\* build: an error naming the first missing size; the global partition
\* defaults to (1, 1, 1).
Build ==
  /\ result = None
  /\ result' =
       CASE builder.tile = None -> [err |-> "tile_size"]
         [] builder.partition = None -> [err |-> "tiles_per_partition"]
         [] builder.stage = None -> [err |-> "partitions_per_stage"]
         [] OTHER -> [ok |->
              [tile |-> builder.tile, partition |-> builder.partition, stage |-> builder.stage,
               globalPartition |-> IF builder.globalPartition = None
                                   THEN [d \in Dims |-> 1] ELSE builder.globalPartition]]
  /\ UNCHANGED builder

Next ==
  \/ \E t \in Sizes : WithTileSize(t) \/ WithPartitionSize(t) \/ WithGlobalPartitionSize(t)
  \/ \E t \in StageSizes : WithStageSize(t)
  \/ Build

Spec == Init /\ [][Next]_vars

-----------------------------------------------------------------------------

Built == result # None /\ "ok" \in DOMAIN result
Scheme == result.ok

\* The reference: the number of children of level c in level p is the
\* product of the sizes of the levels from p down to c, None when c is
\* above p or a global partition is asked for its extent along K.
Factor(s, i, d) ==
  CASE i = 2 -> IF d = "K" THEN None ELSE s.globalPartition[d]
    [] i = 3 -> s.stage[d]
    [] i = 4 -> s.partition[d]
    [] i = 5 -> s.tile[d]

RECURSIVE ProductOfFactors(_, _, _, _)
ProductOfFactors(s, lo, hi, d) ==
  IF lo > hi THEN 1 ELSE Mul(Factor(s, lo, d), ProductOfFactors(s, lo + 1, hi, d))

ExpectedCount(s, c, p, d) ==
  IF Depth(c) < Depth(p) THEN None ELSE ProductOfFactors(s, Depth(p) + 1, Depth(c), d)

\* Every count the scheme answers, for every pair of levels and every
\* dimension, is the product of the sizes between the two levels, and the
\* pairs it refuses (a child above its parent, K across the global
\* partition) are exactly those with no such product.
CountsMatchHierarchy ==
  Built =>
    \A c, p \in {Levels[i] : i \in 1..5}, d \in Dims :
      TryCount1d(Scheme, c, p, d) = ExpectedCount(Scheme, c, p, d)

\* For every operand, the two-dimensional count is the product of the row
\* and the column counts, so the operand's dims, row and column agree.
IdentCountsConsistent ==
  Built =>
    \A i \in Idents, c, p \in {Levels[j] : j \in 1..5} :
      TryCount2d(Scheme, c, p, IdentDims(i)[1], IdentDims(i)[2]) =
        Mul(TryCount1d(Scheme, c, p, IdentRow(i)), TryCount1d(Scheme, c, p, IdentCol(i)))

=============================================================================
