--------------------------- MODULE IndirectInputs ---------------------------
(* Functions with an indirect access, as IndirectComputeGroupSplit leaves    *)
(* them and in the forms of the tests of both passes.                        *)
EXTENDS Integers, Sequences, FiniteSets

Identity(n) == [k \in 1..n |-> k]
Tile(shape) == [index |-> [d \in DOMAIN shape |-> 0], shape |-> shape, pinned |-> 0]

(* Addresses in the shape iab, taken by the first variables; the base has a  *)
(* dimension for them and one for each other variable.                       *)
Program(kind, iab, others, base, captured, reads, device) ==
  LET shape == iab \o others  n == Len(shape)  c == Len(captured)
      operands == IF kind = "gather" THEN 2 ELSE Len(reads) + 1
      tiles == IF kind = "gather" THEN {1} ELSE {reads[i] : i \in DOMAIN reads}
  IN  [kind |-> kind, device |-> device, hoistable |-> TRUE, loops |-> <<>>, guard |-> 0,
       iab |-> iab, fill |-> [index |-> [d \in DOMAIN iab |-> 0], shape |-> iab],
       tile |-> [captured |-> captured, vars |-> shape, order |-> Identity(n), shape |-> shape,
                 positions |-> [k \in DOMAIN iab |-> c + k],
                 maps |-> <<{}>> \o [k \in DOMAIN others |-> (1..c) \cup {c + Len(iab) + k}]],
       base |-> base, direct |-> [t \in tiles |-> Tile(shape)], reads |-> reads,
       maps |-> [m \in 1..operands |-> Identity(n)], space |-> shape, todo |-> <<>>, failed |-> FALSE]

Product(sizes) ==
  LET from[k \in 1..(Len(sizes) + 1)] == IF k > Len(sizes) THEN 1 ELSE sizes[k] * from[k + 1]
  IN  from
RowMajor(sizes) == [sizes |-> sizes, strides |-> [k \in DOMAIN sizes |-> Product(sizes)[k + 1]]]
(* A base that is packed, that has rows further apart, that is larger than   *)
(* the tile, and whose elements are apart.                                   *)
Bases(others) ==
  LET packed == RowMajor(<<4>> \o others)
      larger == RowMajor(<<4>> \o [others EXCEPT ![1] = @ + 1])
  IN  {packed, larger,
       [packed EXCEPT !.strides = [k \in DOMAIN @ |-> IF k = Len(@) THEN 1 ELSE @[k] * 4]],
       [packed EXCEPT !.strides = [k \in DOMAIN @ |-> @[k] * 2]]}
Device(lanes) == [entries |-> 2, lanes |-> lanes, least |-> 2]

Addresses == {<<2>>, <<2, 2>>, <<3, 2>>, <<2, 2, 2>>, <<2, 3>>}
Others == {<<2>>, <<2, 3>>, <<3, 2>>, <<2, 1, 2>>}
Kinds == {<<"gather", <<>> >>, <<"scatter", <<1>> >>, <<"scatter", <<1, 1>> >>, <<"scatter", <<1, 2>> >>}
Captured == {<<>>, <<0>>, <<-1>>}
Legal ==
  UNION {{Program(k[1], iab, others, base, captured, k[2], Device(lanes)) :
            k \in Kinds, iab \in Addresses, base \in Bases(others), captured \in Captured, lanes \in {0, 8}} :
         others \in Others}

(* Functions that one of the passes rejects.                                 *)
Square(iab, lanes) == Program("gather", iab, <<2>>, RowMajor(<<4, 2>>), <<>>, <<>>, Device(lanes))
Illegal ==
  {[Square(<<2>>, 8) EXCEPT !.device.entries = 0], [Square(<<2>>, 8) EXCEPT !.hoistable = FALSE],
   [Square(<<2>>, 8) EXCEPT !.tile.order = <<2, 1>>], [Square(<<2, 2>>, 8) EXCEPT !.tile.order = <<2, 1, 3>>],
   [Square(<<2>>, 8) EXCEPT !.tile.maps = <<{2}, {2}>>], [Square(<<2>>, 8) EXCEPT !.tile.maps = <<{}, {}>>]}
  \cup {Program("scatter", <<1, 2>>, <<2>>, RowMajor(<<4, 2>>), <<>>, <<1>>, Device(8)),
        Program("gather", <<2>>, <<2, 2>>, [sizes |-> <<4, 2, 2>>, strides |-> <<1, 2, 4>>], <<>>, <<>>, Device(8))}
Accesses == Legal \cup Illegal

(* The tile that the function itself addresses does not start at zero.       *)
Displaced ==
  {[Square(<<2>>, 8) EXCEPT !.direct = <<[@[1] EXCEPT !.index = <<-1, 0>>]>>],
   [Square(<<2>>, 8) EXCEPT !.direct = <<[@[1] EXCEPT !.index = <<0, -1>>]>>]}
(* The subscripts of the indices in another order than the dimensions of the *)
(* tile, or a variable of the base in front of them.                         *)
Crossed ==
  {[Square(<<2, 2>>, 8) EXCEPT !.tile.positions = <<2, 1>>],
   [Square(<<2>>, 8) EXCEPT !.tile.positions = <<2>>, !.tile.maps = <<{}, {1}>>]}
(* A generic that transposes the gathered tile.                              *)
Transposed == {[Square(<<2>>, 8) EXCEPT !.maps = <<<<2, 1>>, <<1, 2>>>>]}
=============================================================================
