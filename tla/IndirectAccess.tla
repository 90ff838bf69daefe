--------------------------- MODULE IndirectAccess ---------------------------
(* IndirectAddrBufLegalization and IndirectAccessLoopMaterialization: the    *)
(* indirect access of a function, cut into loops until its addresses fit the *)
(* indirect address buffer (IAB) and each access is one hardware transfer.   *)
(*                                                                           *)
(* A gather reads the indirect tile and writes a tile of its own, a scatter  *)
(* reads tiles and writes the indirect one, both through one linalg.generic. *)
(* Loops are numbered from the outermost; an index that is positive is the   *)
(* induction variable of that loop, one that is not the constant -index.     *)
(* Variables and dimensions are numbered from 1, and a dimension 0 of a map  *)
(* is the constant 0.                                                        *)
EXTENDS Integers, Sequences, FiniteSets, SequencesExt, Steps

CONSTANT Inputs

VARIABLES input, phase, program

Gathers(p) == p.kind = "gather"
NumCaptured(p) == Len(p.tile.captured)

(* Dimensions behind a dropped one move up by one.                           *)
DropDimFromAffineMap(map, d) ==
  LET kept == RemoveAt(map, d)
  IN  [j \in DOMAIN kept |-> CASE kept[j] = d -> 0 [] kept[j] > d -> kept[j] - 1 [] OTHER -> kept[j]]

(* A dimension of a tile that is one element wide from now on, at the        *)
(* induction variable; what stands behind it starts at zero.                 *)
RebuildAccessTilePinned(tile, d, iv) ==
  [tile EXCEPT
     !.index = [k \in DOMAIN @ |-> CASE k < d -> @[k] [] k = d -> iv [] OTHER -> 0],
     !.shape = [k \in DOMAIN @ |-> IF k = d THEN 1 ELSE @[k]]]

(* The dimension to pin is the first one that is not one element wide; the   *)
(* ones up to it are folded into the next one.                               *)
PinAndFoldAccessTile(tile, iv) ==
  LET wide == {d \in DOMAIN tile.shape : tile.shape[d] # 1}
      d == IF wide = {} THEN Len(tile.shape) + 1 ELSE CHOOSE x \in wide : \A y \in wide : x <= y
  IN  [RebuildAccessTilePinned(tile, d, iv) EXCEPT !.pinned = d]
Folded(tile) == SubSeq(tile.shape, tile.pinned + 1, Len(tile.shape))

(* The variable at a position leaves the indirect tile: a loop around the    *)
(* operations takes its place, and every tensor loses its dimension.         *)
Absorbed(p, position, parallel) ==
  LET v == position - NumCaptured(p)
      d == p.tile.order[v]
      iv == Len(p.loops) + 1
  IN  [p EXCEPT
         !.loops = Append(@, [n |-> p.tile.vars[v], parallel |-> parallel]),
         !.tile = [@ EXCEPT !.vars = RemoveAt(@, v), !.order = DropDimFromAffineMap(@, v), !.shape = RemoveAt(@, d)],
         !.direct = [t \in DOMAIN @ |-> PinAndFoldAccessTile(@[t], iv)],
         !.maps = [m \in DOMAIN @ |-> DropDimFromAffineMap(@[m], d)],
         !.space = RemoveAt(@, d)]
CanAbsorb(p, position) == p.tile.order[position - NumCaptured(p)] # 0

(* What the verifiers and the builders of collapse_shape and expand_shape    *)
(* ask for.                                                                  *)
OperandShapes(p) ==
  IF Gathers(p) THEN <<p.tile.shape, Folded(p.direct[1])>>
  ELSE Append([i \in DOMAIN p.reads |-> Folded(p.direct[p.reads[i]])], p.tile.shape)
Verifies(p) ==
  LET shapes == OperandShapes(p)  ahead == Len(p.fill.shape) - Len(p.iab)
  IN  /\ \A t \in DOMAIN p.direct : p.direct[t].pinned < Len(p.direct[t].shape)
      /\ \A d \in DOMAIN p.fill.shape : p.fill.shape[d] = IF d <= ahead THEN 1 ELSE p.iab[d - ahead]
      /\ \A m \in DOMAIN p.maps :
           /\ Len(p.maps[m]) = Len(shapes[m])
           /\ \A j \in DOMAIN p.maps[m] : p.maps[m][j] = 0 \/ shapes[m][j] = p.space[p.maps[m][j]]
      /\ \A d \in DOMAIN p.space : \E m \in DOMAIN p.maps : d \in ToSet(p.maps[m])
Failed(p) == [p EXCEPT !.failed = TRUE]
Verified(p) == IF Verifies(p) THEN p ELSE Failed(p)

-----------------------------------------------------------------------------
(* A window of addresses at a time: the loop fills the IAB anew.             *)
WindowLoop(p) ==
  LET u == p.tile.positions[1]
      moved(x) == IF x > u THEN x - 1 ELSE x
      q == Absorbed(p, u, FALSE)
      k == Len(p.fill.shape) - Len(p.iab) + 1
  IN  [q EXCEPT
         !.iab = Tail(@),
         !.fill = RebuildAccessTilePinned(@, k, Len(q.loops)),
         !.tile = [@ EXCEPT
           !.positions = [i \in DOMAIN Tail(@) |-> moved(@[i + 1])],
           !.maps = [b \in DOMAIN @ |-> {moved(x) : x \in @[b] \ {u}}]]]
MaterializeWindow(p) ==
  IF Last(p.iab) # p.device.entries \/ ~CanAbsorb(p, p.tile.positions[1]) THEN Failed(p)
  ELSE Verified(WindowLoop(p))

(* Then an address at a time, filling the IAB in the first iteration; the    *)
(* view of the IAB moves in front of all loops.                              *)
Shifted(p, u, x) == IF x > NumCaptured(p) /\ x < u THEN x + 1 ELSE x
EntryLoop(p) ==
  LET u == p.tile.positions[1]
      q == Absorbed(p, u, FALSE)
  IN  [q EXCEPT
         !.guard = Len(q.loops),
         !.tile = [@ EXCEPT
           !.captured = Append(@, Len(q.loops)),
           !.positions = <<NumCaptured(p) + 1>>,
           !.maps = [b \in DOMAIN @ |-> {Shifted(p, u, x) : x \in @[b] \ {u}}]]]
MaterializeEntry(p) ==
  LET u == p.tile.positions[1]
  IN  IF Last(p.iab) # p.device.entries \/ ~CanAbsorb(p, u) \/ p.tile.vars[u - NumCaptured(p)] # p.device.entries
         \/ ~p.hoistable
      THEN Failed(p) ELSE Verified(EntryLoop(p))

-----------------------------------------------------------------------------
(* The other variables are retained for the transfer when their dimension of *)
(* the base is dense and covered, as many of the innermost as a vector has   *)
(* lanes; loops are made for the rest.                                       *)
Variables(p) == DOMAIN p.tile.vars
BaseDims(p, i) == {b \in DOMAIN p.tile.maps : NumCaptured(p) + i \in p.tile.maps[b]}
BaseDim(p, i) == CHOOSE b \in BaseDims(p, i) : TRUE
DensePacked(base, b) ==
  base.strides[b] = IF b = Len(base.sizes) THEN 1 ELSE base.sizes[b + 1] * base.strides[b + 1]
Elements(p, set) == FoldSet(LAMBDA i, n : p.tile.vars[i] * n, 1, set)
MaxRetained(p) == IF p.device.lanes > 0 THEN p.device.lanes ELSE 1
Retained(p) ==
  LET able == {i \in Variables(p) : DensePacked(p.base, BaseDim(p, i)) /\ p.tile.vars[i] = p.base.sizes[BaseDim(p, i)]}
      inwards(i) == {j \in able : BaseDim(p, j) >= BaseDim(p, i)}
  IN  {i \in able : inwards(i) = {i} \/ Elements(p, inwards(i)) <= MaxRetained(p)}
LoopDims(p) == {BaseDim(p, i) : i \in Variables(p) \ Retained(p)}
Innermost(p) == \A b \in LoopDims(p) : \A i \in Retained(p) : b < BaseDim(p, i)
ClassifyDirectVariables(p) ==
  IF \/ \E i \in Variables(p) : Cardinality(BaseDims(p, i)) # 1
     \/ ~Innermost(p)
     \/ Elements(p, Retained(p)) < p.device.least
     \/ Last(p.base.strides) # 1
  THEN Failed(p) ELSE [p EXCEPT !.todo = SetToSortSeq(LoopDims(p), <)]

(* A parallel loop for the variable of a dimension of the base.              *)
DirectLoop(p, u) ==
  LET q == Absorbed(p, u, TRUE)
  IN  [q EXCEPT
         !.todo = Tail(@),
         !.tile = [@ EXCEPT
           !.captured = Append(@, Len(q.loops)),
           !.maps = [b \in DOMAIN @ |-> {IF x = u THEN NumCaptured(p) + 1 ELSE Shifted(p, u, x) : x \in @[b]}]]]
ReferencedDims(p, b) == {u \in p.tile.maps[b] : u > NumCaptured(p)}
MaterializeDirect(p) ==
  LET found == ReferencedDims(p, Head(p.todo))
  IN  IF Cardinality(found) # 1 \/ ~(\A u \in found : CanAbsorb(p, u)) THEN Failed(p)
      ELSE Verified(DirectLoop(p, CHOOSE u \in found : TRUE))

(* Whether KTIRBufferize finds the transfer that is left.                    *)
DeriveIndirectOpInfo(p) ==
  LET u == p.tile.positions[1]
  IN  IF \/ Len(p.tile.positions) # 1
         \/ u > NumCaptured(p) /\ p.tile.vars[u - NumCaptured(p)] # 1
         \/ \E i \in Variables(p) : Cardinality(BaseDims(p, i)) > 1 \/ (BaseDims(p, i) # {} /\ p.tile.order[i] = 0)
      THEN Failed(p) ELSE p

-----------------------------------------------------------------------------
Init == input \in Inputs /\ phase = "legalize" /\ program = input

Becomes(p, next) ==
  \E q \in {p} : program' = q /\ phase' = (IF q.failed THEN "error" ELSE next) /\ UNCHANGED input

(* A device without the buffer is left to fail later.                        *)
NoBuffer == phase = "legalize" /\ program.device.entries = 0 /\ Becomes(program, "bufferize")
MaterializeWindowLoop ==
  /\ phase = "legalize" /\ program.device.entries > 0 /\ Len(program.iab) > 1
  /\ Becomes(MaterializeWindow(program), "legalize")
MaterializeEntryLoop ==
  /\ phase = "legalize" /\ program.device.entries > 0 /\ Len(program.iab) = 1
  /\ Becomes(MaterializeEntry(program), "classify")
Classify == phase = "classify" /\ Becomes(ClassifyDirectVariables(program), "loops")
MaterializeDirectLoop ==
  phase = "loops" /\ program.todo # <<>> /\ Becomes(MaterializeDirect(program), "loops")
NoLoopsLeft == phase = "loops" /\ program.todo = <<>> /\ Becomes(program, "bufferize")
Bufferize == phase = "bufferize" /\ Becomes(DeriveIndirectOpInfo(program), "done")
Ended == phase \in {"done", "error"} /\ UNCHANGED <<input, phase, program>>

Next ==
  \/ NoBuffer \/ MaterializeWindowLoop \/ MaterializeEntryLoop \/ Classify
  \/ MaterializeDirectLoop \/ NoLoopsLeft \/ Bufferize \/ Ended

-----------------------------------------------------------------------------
(* Which elements a program moves where, its parallel loops in either order. *)
Points(loops, backwards) ==
  LET Inside(points, loop) ==
        FlattenSeq([k \in DOMAIN points |->
          [n \in 1..loop.n |-> Append(points[k], IF loop.parallel /\ backwards THEN loop.n - n ELSE n - 1)]])
  IN  FoldLeft(Inside, << <<>> >>, loops)
Coordinates(shape) ==
  FoldLeft(LAMBDA set, n : {Append(x, k) : x \in set, k \in 0..(n - 1)}, {<<>>}, shape)
ValueAt(point, index) == IF index > 0 THEN point[index] ELSE -index

(* The element of a tile at some coordinates, those that are pinned left out.*)
Element(tile, point, x) ==
  [d \in DOMAIN tile.shape |->
     ValueAt(point, tile.index[d]) + (IF d <= tile.pinned THEN 0 ELSE x[d - tile.pinned])]
(* The element of the base: which address, and which subscripts.             *)
IndirectElement(p, point, x, filled) ==
  LET value(u) == IF u <= NumCaptured(p) THEN ValueAt(point, p.tile.captured[u]) ELSE x[p.tile.order[u - NumCaptured(p)]]
      ahead == Len(p.fill.shape) - Len(p.iab)
  IN  <<[d \in DOMAIN filled |-> filled[d] + (IF d <= ahead THEN 0 ELSE value(p.tile.positions[d - ahead]))],
        [b \in DOMAIN p.tile.maps |-> FoldSet(LAMBDA u, n : value(u) + n, 0, p.tile.maps[b])]>>
Moves(p, point, filled) ==
  LET operand(y, m) == [j \in DOMAIN p.maps[m] |-> IF p.maps[m][j] = 0 THEN 0 ELSE y[p.maps[m][j]]]
      result(y) == operand(y, Len(p.maps))
  IN  {IF Gathers(p)
       THEN <<Element(p.direct[1], point, result(y)), IndirectElement(p, point, operand(y, 1), filled)>>
       ELSE <<[i \in DOMAIN p.reads |-> Element(p.direct[p.reads[i]], point, operand(y, i))],
              IndirectElement(p, point, result(y), filled)>> : y \in Coordinates(p.space)}

(* The addresses that the IAB holds are those of its last fill.              *)
Results(p, backwards) ==
  LET Turn(s, point) ==
        LET fill == [d \in DOMAIN p.fill.index |-> ValueAt(point, p.fill.index[d])]
            filled == IF p.guard = 0 \/ point[p.guard] = 0 THEN fill ELSE s.filled
        IN  [filled |-> filled, moves |-> s.moves \cup Moves(p, point, filled)]
      nothing == [d \in DOMAIN p.fill.index |-> -100]
  IN  ForEach(Turn, [filled |-> nothing, moves |-> {}], Points(p.loops, backwards)).moves

(* The loops move every element that the tiles moved, from where and to      *)
(* where they did, whatever the order of the parallel loops.                 *)
SameResults == phase = "done" => \A backwards \in BOOLEAN : Results(program, backwards) = Results(input, FALSE)
=============================================================================
