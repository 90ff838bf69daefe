--------------------------- MODULE CleanupInputs ---------------------------
(* Pipelines with relays through FIFOs, as in the tests of                   *)
(* FoldFifoRelayStages and SimplifyPipeline, and combinations of them.       *)
EXTENDS Integers, Sequences, FiniteSets

CONSTANTS Memref(_, _), Slot(_, _, _), Transfer(_, _, _, _, _), Compute(_, _), Stage(_, _, _, _)

DDR(n) == Memref(n, "DDR")
L1(n) == Memref(n, "L1")
S(n) == Slot(n, "DDR", "L1")
Copy(a, b) == Transfer(a, b, "copy", 0, 1)

Pipeline(pass, stages, allocations) ==
  [pass |-> pass, stages |-> stages, foreign |-> {"f"}, allocations |-> allocations]
Units(stage, units) == [stage EXCEPT !.units = units]

(* Two relays between the same stages, what they await, and a third stage    *)
(* that reads what was written, or overwrites what was read.                 *)
Loads == <<Copy(DDR("A"), S("s1")), Copy(DDR("B"), S("s2"))>>
Stores == <<Copy(S("s2"), L1("Y")), Copy(S("s1"), L1("X"))>>
Other(ins) == Stage("other", ins, {"o"}, <<Compute({L1("X")}, {DDR("A"), S("s3")})>>)
Sink == Stage("sink", {"x"}, {}, <<Copy(S("s3"), L1("Z")), Compute({L1("Z")}, {L1("Z")})>>)
Two(n, m, pIn, cIn, last) ==
  Pipeline("fold",
           <<Stage("P", pIn, {"p"}, SubSeq(Loads, 1, n)), Other(IF "o" \in pIn THEN {} ELSE {"p"}),
             Stage("C", cIn, {"c"}, SubSeq(Stores, m, 2)), last, Sink>>,
           <<<<S("s1"), S("s2"), S("s3")>>>>)
Reader(ins) == Stage("R", ins, {}, <<Compute({L1("X"), L1("Y")}, {L1("W")})>>)
Again == Stage("R", {"p"}, {}, <<Copy(S("s1"), L1("V"))>>)
Writer(ins) == Stage("W", ins, {"x"}, <<Compute({L1("W")}, {DDR("A"), DDR("B")})>>)
TwoRelays ==
  {Two(n, m, p, c, last) : n \in {1, 2}, m \in {1, 2}, p \in {{}, {"o"}, {"f"}},
     c \in {{}, {"p"}, {"p", "o"}}, last \in {Reader({"c"}), Again, Writer({"p"}), Writer({"c"})}}

(* One relay, with throttles, modes, units and sizes; within one memory.     *)
One(in, out, units) ==
  Pipeline("fold", <<Units(Stage("P", {}, {"p"}, <<in>>), units[1]),
                     Units(Stage("C", {"p"}, {"c"}, <<out>>), units[2]), Reader({"c"})>>, <<<<S("s1")>>>>)
OneRelay ==
  {One(Transfer(DDR("A"), S("s1"), m[1], t[1], 1), Transfer(S("s1"), x, m[2], t[2], size), u) :
     m \in {<<"copy", "copy">>, <<"splat", "copy">>, <<"splat", "splat">>}, t \in {<<0, 8>>, <<8, 4>>},
     x \in {L1("X"), DDR("X")}, size \in {1, 2}, u \in {<<{}, {"u"}>>, <<{"v"}, {"u"}>>}}

(* Stages in a textual order of their own, with a token of two stages, one   *)
(* that is used elsewhere, and a chain that implies an edge; a cycle.        *)
Steps(k, ins, outs) == Stage(k, ins, outs, <<Compute({L1(k)}, {L1("X")})>>)
Shared == {Steps("a", {}, {"t"}), Steps("b", {"f"}, {"t", "u"}), Steps("c", {"t"}, {"v", "w"}), Steps("d", {"t", "u", "v"}, {})}
Looping == {Steps("a", {"v"}, {"t"}), Steps("b", {"t"}, {"v", "u"}), Steps("c", {"u", "t"}, {"f"})}
Orders(set) == {s \in [1..Cardinality(set) -> set] : \A i, j \in DOMAIN s : i # j => s[i] # s[j]}
Simplified(pass) == {Pipeline(pass, s, <<>>) : s \in Orders(Shared) \cup Orders(Looping)}

Pipelines == TwoRelays \cup OneRelay \cup Simplified("normalize") \cup Simplified("reduce")

(* The consumer's write waits for a stage that the producer feeds.           *)
Feeding ==
  {Pipeline("fold",
            <<Stage("P", {}, {}, Loads), Stage("M", {}, {"m"}, <<Compute({S("s2")}, {L1("Y")})>>),
              Stage("C", {"m"}, {}, <<Copy(S("s1"), L1("X"))>>)>>,
            <<<<S("s1"), S("s2")>>>>)}
SharedToken ==
  {Pipeline("fold",
            <<Stage("Z", {}, {"p"}, <<Compute({L1("X")}, {L1("Z")})>>),
              Stage("P", {}, {"p"}, <<Copy(DDR("A"), S("s1"))>>),
              Stage("C", {"p"}, {}, <<Copy(S("s1"), L1("X"))>>)>>,
            <<<<S("s1")>>>>)}
=============================================================================
