------------------------------ MODULE FillInputs ------------------------------
(* Pipelines that scatter and gather over addresses, as path expansion leaves*)
(* them and in the tests of IndirectAddrBufFillLegalization.                 *)
EXTENDS SampleDevices

CONSTANTS Memref(_, _), Op(_, _, _, _, _, _, _), Pure(_, _, _, _), Load(_, _, _), Transfer(_, _, _, _, _),
          DynamicTransfer(_, _, _, _, _), IndTransfer(_, _, _, _), If(_)

DDR(id) == Memref("DDR", id)
L1(id) == Memref("L1", id)
Buffer(id) == Memref("IAB", id)
Fifo(id) == Memref("SFU", id)
Else(condition) == [If(condition) EXCEPT !.taken = FALSE]
For == [kind |-> "for", condition |-> -3, taken |-> FALSE]
Stage(unit, ops) == [units |-> IF unit = "" THEN <<>> ELSE <<unit>>, ops |-> ops]

(* The stages in front of the one that scatters.                             *)
Loading == Stage("MNILU", <<Transfer(1, <<DDR("in")>>, <<-1>>, L1("loaded"), <<>>)>>)
Leading ==
  << Loading,
     Stage("L1LU", <<Transfer(2, <<L1("loaded")>>, <<>>, Fifo("fifo in"), <<>>)>>),
     Stage("SFU", <<Op("compute", 3, "compute", <<>>, <<Fifo("fifo in")>>, Fifo("fifo out"), <<>>)>>),
     Stage("L1SU", <<Transfer(4, <<Fifo("fifo out")>>, <<>>, L1("computed"), <<>>)>>) >>
Scatter(buffer) == IndTransfer(9, <<L1("computed"), Buffer(buffer)>>, DDR("out"), <<>>)

(* The regions around the fill, and what computes their conditions: the first*)
(* iteration of a loop, and one of another loop inside.                      *)
First(under) == Pure(10, "first", <<-1>>, under)
Inner(under) == Pure(11, "inner", <<-3>>, under)
Around ==
  { [ops |-> <<>>, under |-> <<>>],
    [ops |-> <<>>, under |-> <<If(-4)>>],
    [ops |-> <<First(<<>>)>>, under |-> <<If(10)>>],
    [ops |-> <<First(<<>>), Inner(<<>>)>>, under |-> <<If(10), If(11)>>],
    [ops |-> <<First(<<>>), Inner(<<If(10)>>)>>, under |-> <<If(10), If(11)>>],
    [ops |-> <<First(<<>>), Pure(11, "not first", <<10>>, <<If(10)>>)>>, under |-> <<If(10), If(11)>>],
    [ops |-> <<Load(10, DDR("flag"), <<>>)>>, under |-> <<If(10)>>],
    [ops |-> <<>>, under |-> <<For>>] }

(* The view of the addresses, and its subscripts: from outside of the stage, *)
(* built in it, for another operation as well, or out of memory.             *)
Views(under) ==
  { [ops |-> <<>>, uses |-> <<-2>>],
    [ops |-> <<Pure(12, "offset", <<-1>>, <<>>), Pure(13, "view", <<-2, 12>>, <<>>)>>, uses |-> <<13, -1>>],
    [ops |-> <<Pure(12, "offset", <<-1>>, under), Pure(13, "view", <<-2, 12>>, under)>>, uses |-> <<13, 12>>],
    [ops |-> <<Pure(13, "view", <<-2>>, <<>>), Transfer(14, <<L1("computed")>>, <<13>>, DDR("rest"), <<>>)>>, uses |-> <<13>>],
    [ops |-> <<Load(12, DDR("flag"), <<>>), Pure(13, "view", <<-2, 12>>, <<>>)>>, uses |-> <<13>>] }
Fill(id, source, uses, buffer, under) == Transfer(id, <<source>>, uses, Buffer(buffer), under)

Chain(n) == [s \in 1..n |-> IF s < n THEN {s + 1} ELSE {}]
Pipeline(stages) == [stages |-> stages, succ |-> Chain(Len(stages)), private |-> TRUE, graph |-> <<>>, todo |-> <<>>,
                      next |-> 100]
Scattering(source, a, v) ==
  Pipeline(Append(Leading, Stage("MNISU",
    a.ops \o v.ops \o <<Fill(8, source, v.uses, "addresses", a.under), Scatter("addresses")>>)))
Scatters ==
  UNION {{Scattering(source, a, v) : source \in {DDR("index"), L1("loaded")}, v \in Views(a.under)} : a \in Around}

Plain == Scattering(DDR("index"), [ops |-> <<First(<<>>)>>, under |-> <<If(10)>>], [ops |-> <<>>, uses |-> <<-2>>])
TwoFills ==
  Pipeline(Append(Leading, Stage("MNISU",
    << First(<<>>), Pure(13, "view", <<-2, 10>>, <<>>), Fill(7, DDR("more"), <<13>>, "others", <<If(10)>>),
       Fill(8, DDR("index"), <<13>>, "addresses", <<If(10)>>), Scatter("addresses"),
       IndTransfer(6, <<L1("computed"), Buffer("others")>>, DDR("more out"), <<>>) >>)))
(* A gather whose addresses are in L1, behind a store from there.            *)
Gather(memref) ==
  Pipeline(<<Stage("MNISU", <<Transfer(1, <<L1("computed")>>, <<>>, DDR("out"), <<>>)>>),
             Stage("MNILU", <<Fill(8, memref, <<-2>>, "addresses", <<>>),
                              IndTransfer(9, <<DDR("in"), Buffer("addresses")>>, L1("loaded"), <<>>)>>)>>)

Pipelines ==
  Scatters \cup
  { TwoFills, Gather(DDR("index")), Gather(L1("index")),
    \* no stage in front that can, no unit, no memory, sizes known only at run
    \* time, and no private region
    Pipeline(<<Plain.stages[5]>>), Pipeline(<<Leading[2], Plain.stages[5], Loading>>),
    [Plain EXCEPT !.stages[5].units = <<>>], [Plain EXCEPT !.stages[5].units = <<"MNISU", "MNILU">>],
    [Plain EXCEPT !.stages[5].units = <<"SFU">>], [Plain EXCEPT !.stages[1].units = <<>>],
    [Plain EXCEPT !.private = FALSE],
    [Plain EXCEPT !.stages[5].ops[2] = Transfer(8, <<Memref("none", "fifo")>>, <<>>, Buffer("addresses"), <<If(10)>>)],
    [Plain EXCEPT !.stages[5].ops[2] = DynamicTransfer(8, <<DDR("index")>>, <<-2>>, Buffer("addresses"), <<If(10)>>)] }

(* The fill stands in the else region, and is staged as if in the other one. *)
Otherwise == {[Plain EXCEPT !.stages[5].ops[2] = Fill(8, DDR("index"), <<-2>>, "addresses", <<Else(10)>>)]}
(* The stage that fills does not wait for the one that loads.                *)
Unordered == {[Plain EXCEPT !.succ[1] = {}, !.stages[1].ops[1].write = L1("kept")]}
==============================================================================
