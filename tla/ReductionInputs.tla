-------------------------- MODULE ReductionInputs --------------------------
(* Reductions for the passes of Reductions.                                  *)
EXTENDS Integers, Sequences

Sum == [op |-> "add", of |-> "id", running |-> "id"]
SumOfSquares == [op |-> "add", of |-> "square", running |-> "id"]
SumOfExp == [op |-> "add", of |-> "exp", running |-> "id"]
Fused == [op |-> "fma", of |-> "id", running |-> "id"]
Maximum == [op |-> "max", of |-> "id", running |-> "id"]
MaxNum == [op |-> "maxnum", of |-> "id", running |-> "id"]
AbsMax == [op |-> "maxnum", of |-> "abs", running |-> "abs"]

(* The rows of a matrix are reduced (its columns stay), two dimensions of    *)
(* three, or all of a row but for a stick: an output dimension of its own.   *)
Reduction(shape, extents, outMap, iters, bodies) ==
  [shape |-> shape, extents |-> extents, outMap |-> outMap, iters |-> iters, bodies |-> bodies,
   batch |-> 2, numChunks |-> <<>>, threshold |-> 1000]
Rows(bodies) == Reduction(<<4, 2>>, <<4, 2>>, <<2>>, <<"reduction", "parallel">>, bodies)
Both(bodies) ==
  Reduction(<<2, 3, 2>>, <<2, 3, 2>>, <<3>>, <<"reduction", "reduction", "parallel">>, bodies)
OnStick(bodies) ==
  Reduction(<<2, 4, 2>>, <<2, 4, 2, 2>>, <<1, 4>>, <<"parallel", "reduction", "reduction", "parallel">>, bodies)
Lanes(bodies) == Reduction(<<3, 2>>, <<3, 2, 2>>, <<1, 3>>, <<"parallel", "reduction", "parallel">>, bodies)
Columns(bodies) == Reduction(<<3, 2>>, <<3, 2>>, <<1, 2>>, <<"parallel", "parallel">>, bodies)

Chunked(g, threshold) == [g EXCEPT !.threshold = threshold]
InChunks(g, n) == [g EXCEPT !.numChunks = n]
Alone(g) == [g EXCEPT !.batch = 0]

Reductions ==
  {Rows(<<b>>) : b \in {Sum, SumOfSquares, SumOfExp, Fused, Maximum, MaxNum, AbsMax}}
  \cup {Both(<<b>>) : b \in {Sum, Maximum}} \cup {Columns(<<Sum>>)}
  \cup {Rows(<<Sum, SumOfSquares>>), Both(<<Maximum, Maximum>>), Alone(Rows(<<Sum>>))}
  \cup {OnStick(<<b>>) : b \in {Maximum, AbsMax, Fused, MaxNum}} \cup {OnStick(<<Maximum, Maximum>>)}
  \cup {Lanes(<<Maximum>>), Lanes(<<Maximum, Maximum>>)}
  \cup {Chunked(Rows(<<b>>), 8) : b \in {Sum, Maximum, AbsMax}}
  \cup {Chunked(OnStick(<<Maximum>>), t) : t \in {16, 20, 30}} \cup {Chunked(Both(<<Sum>>), t) : t \in {1, 6, 12}}
  \cup {InChunks(Both(<<Sum>>), n) : n \in {<<1, 1>>, <<2>>, <<2, 1>>, <<1, 3>>, <<0, 3>>, <<2, 2>>}}
  \cup {Alone(Chunked(Rows(<<Sum>>), 8))}

(* A pair of accumulators that start from different values.                  *)
Pairs == {Rows(<<Sum, Maximum>>)}
(* Squares, summed in chunks.                                                *)
Squares == {Chunked(Rows(<<SumOfSquares>>), 8)}
=============================================================================
