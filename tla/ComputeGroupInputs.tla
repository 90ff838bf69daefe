------------------------- MODULE ComputeGroupInputs -------------------------
(* Kernels for the passes of ComputeGroups.                                  *)
EXTENDS Integers, Sequences, TLC

CONSTANTS
  Const(_, _), Scalar(_, _, _, _), TileId(_), For(_, _, _), View(_, _, _, _, _, _), Tile(_, _, _, _),
  Indirect(_, _, _, _, _, _, _), Load(_, _), Generic(_, _, _), Elementwise(_, _, _), Store(_, _), Call(_, _)

(* Global memory: indices in front, then rows, then results, then the        *)
(* buffers.  An element has two bytes and a word four.                       *)
Kernel(main) ==
  [main |-> main, modules |-> <<>>, args |-> [v \in {"base", "stride", "at"} |-> IF v = "base" THEN 100 ELSE IF v = "stride" THEN 4 ELSE 10],
   indices |-> [b \in {40, 44, 48, 52} |-> (b \div 4) % 3], reserved |-> 1002, capacity |-> 1100, iabBase |-> 1,
   words |-> [unit \in {"load", "store"} |-> 4]]

(* Tiles of two rows of matrices of four bytes a row.                        *)
Matrix(name, at) == <<Const(at, name \o " at"), View("global", 2, <<name \o " at">>, <<8, 2>>, <<2, 1>>, name)>>
Part(name, row, v) == Tile(name, <<row, "c0">>, <<2, 2>>, v)
Matrices ==
  <<Const(0, "c0"), Const(2, "c2")>> \o Matrix("A", 100) \o Matrix("B", 200) \o Matrix("C", 300) \o Matrix("D", 400)
Tiles == <<Part("A", "c0", "a"), Part("B", "c0", "b"), Part("C", "c0", "c"), Part("D", "c2", "d")>>
Copied(from, by, to) == <<Load(from, from \o to), Generic(by, <<from \o to>>, to \o from), Store(to \o from, to)>>

(* Two operands; the same tile loaded and stored; groups one after the other *)
(* and around a loop; rows of the core and of the loop; a scalar in a body.  *)
Sum == Matrices \o Tiles \o <<Load("a", "x"), Load("b", "y"), Generic("sum", <<"x", "y">>, "z"), Store("z", "c")>>
Mine == <<TileId("core"), Const(4, "c4"), Scalar("mul", "core", "c4", "mine")>>
InPlace == Matrices \o Mine \o <<Part("A", "mine", "a"), Load("a", "x"), Elementwise("exp", <<"x">>, "y"), Store("y", "a")>>
Again == <<Part("B", "c0", "b2"), Part("C", "c2", "c3")>>
InARow == Matrices \o Tiles \o Again \o Copied("a", "f", "b") \o Copied("b2", "g", "c") \o Copied("d", "h", "c3")
AroundALoop ==
  Matrices \o Tiles \o Again \o
  <<For("i", 2, Copied("a", "f", "b") \o
      <<For("j", 2, <<Scalar("mul", "j", "c2", "row"), Part("C", "row", "part")>> \o Copied("b", "g", "part"))>>
      \o Copied("c3", "h", "d"))>>
OfLoops ==
  Matrices \o Mine \o <<Part("A", "mine", "a"),
    For("i", 2, <<Scalar("add", "i", "mine", "row"), Part("B", "row", "b")>> \o Copied("a", "f", "b"))>>
ScalarInBody ==
  Matrices \o Tiles \o
  <<For("i", 2, <<Load("a", "x"), [Generic("f", <<"x">>, "y") EXCEPT !.reads = <<"i", "base">>], Store("y", "b")>>)>>
TwoStores ==
  Matrices \o Tiles \o
  <<Load("a", "x"), Elementwise("f", <<"x">>, "y"), Elementwise("g", <<"x">>, "z"), Store("y", "b"), Store("z", "c")>>
(* Not extracted: a store of one group in another, a load outside of the     *)
(* loop, a result that is also an operand, a tile made in another group,     *)
(* loads of two groups mixed, a tile used on both sides of a loop.           *)
Rejected ==
  {Matrices \o Tiles \o Again \o Copied("a", "f", "b") \o <<Load("c", "x"), Elementwise("g", <<"x">>, "y"), Store("ab", "b2"), Store("y", "d")>>,
   Matrices \o Tiles \o <<Load("a", "x"), For("i", 2, <<Load("b", "y"), Generic("f", <<"x", "y">>, "z"), Store("z", "c")>>)>>,
   Matrices \o Tiles \o Copied("a", "f", "b") \o <<Load("a", "x"), Generic("g", <<"x", "ba">>, "z"), Store("z", "c")>>,
   Matrices \o Tiles \o <<Load("a", "x"), Part("C", "c2", "c3"), Generic("f", <<"x">>, "y"), Store("y", "b")>> \o Copied("c3", "g", "d"),
   Matrices \o Tiles \o <<Load("a", "x"), Load("c", "z"), Generic("f", <<"x">>, "y"), Store("y", "b")>> \o Copied("c", "g", "d"),
   Matrices \o Tiles \o Again \o Copied("a", "f", "b") \o <<For("i", 1, Copied("d", "g", "c"))>> \o Copied("b", "h", "c3")}

-----------------------------------------------------------------------------
(* Rows of four elements, selected by the indices at byte 40.                *)
Index(base, sizes, strides) == View("global", 4, <<base>>, sizes, strides, "index")
Rows(operands, stride) == View("global", 2, operands, <<8, 4>>, <<stride, 1>>, "rows")
By(by) == [by |-> by, plus |-> 0]
Gathered(captured, sizes, row, column) == Indirect("rows", "index", captured, sizes, <<row, <<column>>>>, 1, "some rows")
AllRows == Gathered(<<>>, <<4, 4>>, <<By(<<1, 0>>)>>, By(<<0, 1>>))
Target == <<Const(300, "out at"), View("global", 2, <<"out at">>, <<8, 4>>, <<4, 1>>, "out")>>
Numbers == <<Const(0, "c0"), Const(2, "c2"), Const(10, "c10"), Const(100, "c100")>>
Gather(out) == <<Load("some rows", "x"), Generic("f", <<"x">>, "y"), Store("y", out)>>
Scatter(from) == <<Load(from, "x"), Generic("f", <<"x">>, "y"), Store("y", "some rows")>>
Out(rows) == Tile("out", <<"c0", "c0">>, <<rows, 4>>, "to")
Front == Numbers \o Target
Plain == Front \o <<Index("c10", <<4>>, <<1>>), Rows(<<"c100">>, 4), AllRows, Out(4)>>
PlainScatter == Plain \o Scatter("to")
(* The base and the stride given by arguments, one or both, the base          *)
(* computed, the index's place given by an argument.                          *)
Given ==
  {Front \o <<Scalar("add", "base", "c100", "sum"), Index("at", <<4>>, <<1>>), Rows(operands, stride), AllRows, Out(4)>> \o Gather("to") :
     <<operands, stride>> \in {<< <<"base">>, 4>>, << <<"base", "stride">>, 0>>, << <<"sum">>, 4>>, << <<"c100", "stride">>, 0>>}}
(* A row of indices for each turn of a loop, found by its variable or by the *)
(* index's base; a base of the loop; zeros in subscripts.                     *)
Turns(before, captured, row, column) ==
  Front \o <<For("i", 2, before \o <<Gathered(captured, <<2, 4>>, row, column), Tile("out", <<"i", "c0">>, <<2, 4>>, "to")>> \o Gather("to"))>>
OfTurns ==
  {Turns(<<Index("c10", <<2, 2>>, <<2, 1>>), Rows(<<"c100">>, 4)>>, <<"i">>, <<By(<<1, 0, 0>>), By(<<0, 1, 0>>)>>, By(<<0, 0, 1>>)),
   Turns(<<Index("c10", <<2, 2>>, <<2, 1>>), Rows(<<"c100">>, 4)>>, <<"c0">>, <<By(<<1, 0, 0>>), By(<<1, 1, 0>>)>>, By(<<0, 0, 1>>)),
   Turns(<<Scalar("mul", "i", "c2", "two"), Scalar("add", "two", "c10", "here"), Index("here", <<2>>, <<1>>), Rows(<<"c100">>, 4)>>,
         <<>>, <<By(<<1, 0>>)>>, By(<<0, 1>>)),
   Turns(<<Scalar("mul", "i", "c2", "two"), Scalar("add", "two", "base", "there"), Index("c10", <<2>>, <<1>>), Rows(<<"there">>, 4)>>,
         <<>>, <<By(<<1, 0>>)>>, By(<<0, 1>>))}
(* Each core on rows of its own of the result; two groups; functions called  *)
(* with other names for their arguments, and in another order; not called.   *)
ByCore ==
  Front \o <<TileId("core"), Scalar("mul", "core", "c2", "mine"), Tile("out", <<"mine", "c0">>, <<4, 4>>, "to"),
             Index("c10", <<4>>, <<1>>), Rows(<<"base">>, 4), AllRows>> \o Gather("to")
OwnRows ==
  Front \o <<TileId("core"), Const(16, "c16"), Scalar("mul", "core", "c16", "mine"), Scalar("add", "base", "mine", "own"),
             Index("c10", <<4>>, <<1>>), Rows(<<"own">>, 4), AllRows>> \o Gather("some rows")
TwoGroups ==
  Plain \o <<Const(400, "c400"), View("global", 2, <<"c400">>, <<8, 4>>, <<4, 1>>, "more"),
             Indirect("more", "index", <<>>, <<4, 4>>, <<<<By(<<1, 0>>)>>, <<By(<<0, 1>>)>>>>, 1, "more rows"),
             Tile("out", <<"c2", "c0">>, <<4, 4>>, "and to")>>
  \o Gather("to") \o <<Load("more rows", "u"), Generic("g", <<"u">>, "v"), Store("v", "and to")>>
Function(name, args) ==
  [name |-> name, args |-> args,
   body |-> Front \o <<Index("c10", <<4>>, <<1>>), Rows(<<"b", "s">>, 0), AllRows, Out(4)>> \o Gather("to")]
Calling(functions, main) == [Kernel(main) EXCEPT !.modules = functions]
Callers ==
  {Calling(<<Function("f", <<"b", "s">>)>>, <<Call("f", <<"base", "stride">>)>>),
   Calling(<<Function("f", <<"s", "b">>)>>, <<Call("f", <<"stride", "base">>)>>),
   Calling(<<Function("f", <<"s", "b">>), Function("g", <<"b", "s">>)>>, <<For("i", 2, <<Call("g", <<"base", "stride">>)>>)>>),
   Calling(<<Function("f", <<"s", "b">>)>>, <<Call("f", <<"stride", "base">>), Call("f", <<"stride", "base">>)>>)}
(* Rows that no word begins at, a stride likewise; a subscript with an offset *)
(* or of two variables; indices of another width; two gathers in a group.    *)
Unsplit ==
  {Front \o <<Const(101, "odd"), Index("c10", <<4>>, <<1>>), Rows(<<"odd">>, 4), AllRows, Out(4)>> \o Gather("to"),
   Front \o <<Index("c10", <<4>>, <<1>>), Rows(<<"c100">>, 3), AllRows, Out(4)>> \o Gather("to"),
   Front \o <<View("global", 2, <<"c10">>, <<4>>, <<1>>, "index"), Rows(<<"c100">>, 4), AllRows, Out(4)>> \o Gather("to"),
   Front \o <<Index("c10", <<4>>, <<1>>), Rows(<<"c100">>, 4), Out(2),
              Gathered(<<>>, <<2, 4>>, <<[by |-> <<1, 0>>, plus |-> 1]>>, By(<<0, 1>>))>> \o Gather("to"),
   Front \o <<Index("c10", <<4>>, <<1>>), Rows(<<"c100">>, 4), Out(2),
              For("i", 2, <<Gathered(<<"i">>, <<2, 4>>, <<By(<<1, 1, 0>>)>>, By(<<0, 0, 1>>))>> \o Gather("to"))>>,
   Plain \o <<Indirect("out", "index", <<>>, <<4, 4>>, <<<<By(<<1, 0>>)>>, <<By(<<0, 1>>)>>>>, 1, "more rows")>> \o Gather("more rows")}

Kernels ==
  {Kernel(main) : main \in {Sum, InPlace, InARow, AroundALoop, OfLoops, ScalarInBody, TwoStores} \cup Rejected
                             \cup {Plain \o Gather("to"), PlainScatter, ByCore, TwoGroups} \cup Given \cup OfTurns \cup Unsplit}
  \cup Callers
  \cup {[Kernel(PlainScatter) EXCEPT !.words = [unit \in {"load", "store"} |-> IF unit = "store" THEN 0 ELSE 4]],
        [Kernel(Plain \o Gather("to")) EXCEPT !.words = [unit \in {"load", "store"} |-> IF unit = "store" THEN 0 ELSE 8]],
        [Kernel(OwnRows) EXCEPT !.words = [unit \in {"load", "store"} |-> IF unit = "store" THEN 8 ELSE 4]],
        [Kernel(Plain \o Gather("to")) EXCEPT !.capacity = 1010]}

(* A group loads what it stored; addresses of one core's rows are read by    *)
(* another; indices lie further apart than the entries of a buffer.          *)
Overtaken ==
  {Kernel(Matrices \o Tiles \o
     <<Load("a", "x"), Elementwise("exp", <<"x">>, "y"), Store("y", "b"),
       Load("b", "u"), Elementwise("f", <<"u">>, "v"), Store("v", "c")>>)}
PerCore ==
  {Kernel(Front \o
     <<TileId("core"), Scalar("mul", "core", "c2", "mine"), Scalar("add", "mine", "c10", "here"), Index("here", <<2>>, <<1>>),
       Rows(<<"c100">>, 4), Gathered(<<>>, <<2, 4>>, <<By(<<1, 0>>)>>, By(<<0, 1>>)),
       Tile("out", <<"mine", "c0">>, <<2, 4>>, "to")>> \o Gather("to"))}
Strided ==
  {Kernel(Front \o
     <<Index("c10", <<2, 2>>, <<8, 1>>), Rows(<<"c100">>, 4), Out(2),
       Gathered(<<"c0">>, <<2, 4>>, <<By(<<1, 0, 0>>), By(<<0, 1, 0>>)>>, By(<<0, 0, 1>>))>> \o Gather("to"))}
=============================================================================
