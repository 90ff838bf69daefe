---------------------------- MODULE HoistInputs ----------------------------
(* Loops around pipelines, as in the tests of HoistInvariants,               *)
(* HoistConstantStorage and BroadcastPromotion.                              *)
EXTENDS Integers, Sequences, FiniteSets, TLC

CONSTANTS Region(_), For(_, _), If(_), Pure(_, _, _), Alloc(_), View(_, _), At(_, _),
          Transfer(_, _), Fill(_, _), Linalg(_, _, _)

(* A program is given as a tree: operations with their bodies.               *)
Leaf(id, op) == [ids |-> {id}, top |-> id, ops |-> id :> op, body |-> id :> <<>>]
Node(id, op, children) ==
  LET all[k \in 0..Len(children)] ==
        IF k = 0 THEN [ops |-> id :> op, body |-> id :> [j \in DOMAIN children |-> children[j].top]]
        ELSE [ops |-> all[k - 1].ops @@ children[k].ops, body |-> all[k - 1].body @@ children[k].body]
  IN  [top |-> id, ops |-> all[Len(children)].ops, body |-> all[Len(children)].body]
Func(pass, children) ==
  LET tree == Node("func", Region("func"), children)
  IN  [pass |-> pass, ops |-> tree.ops, body |-> tree.body]
Pipeline(id, children) == Node(id, Region("pipeline"), children)
Private(id, children) == Node(id, Region("private"), children)
Stage(id, children) == Node(id, Region("stage"), children)
Loop(id, iv, n, children) == Node(id, For(iv, n), children)
Use(id, buffer) == Leaf(id, Linalg("use", {At(buffer, ""), At("Z", "")}, At("Z", "")))

(* A stage fills a buffer that the next one uses, in two loops; by what the  *)
(* transfer is indexed, where it stands, and what else happens there.        *)
Load(by) == Leaf("load", Transfer(At("A", by), At("l1", "")))
Index(uses) == Leaf("idx", Pure("idx", uses, "i"))
Fills(by) ==
  {<<Load(by)>>, <<Index({"n"}), Load("i")>>, <<Index({"m"}), Load("i")>>, <<Index({by} \ {""}), Load("i")>>,
   <<Node("if", If("c"), <<Load(by)>>)>>, <<Loop("k", "k", 2, <<Load(by)>>)>>,
   <<Loop("k", "k", 2, <<Load("k")>>)>>,
   <<Loop("k", "k", 2, <<Loop("j", "j", 1, <<Load(by), Leaf("also", Transfer(At("B", ""), At("Y", "k")))>>)>>)>>}
Others == {<<>>, <<Leaf("other", Linalg("next", {At("A", "")}, At("A", "")))>>,
           <<Leaf("other", Transfer(At("B", "m"), At("l1", "")))>>, <<Leaf("other", Transfer(At("B", "m"), At("B", "")))>>}
Broadcast(fill, other) ==
  Func("broadcast",
    <<Loop("M", "m", 2, <<Loop("N", "n", 2,
      <<Pipeline("P", <<Private("V", <<Leaf("a", Alloc("l1"))>>), Stage("S", fill),
                        Stage("T", other \o <<Use("use", "l1")>>)>>)>>)>>)>>)
TwoBuffers(by, other) ==
  Func("broadcast",
    <<Loop("M", "m", 2, <<Loop("N", "n", 2,
      <<Pipeline("P", <<Private("V", <<Leaf("a", Alloc("l1")), Leaf("b", Alloc("l2"))>>),
                        Stage("S", <<Load(by), Leaf("loadB", Transfer(At("B", other), At("l2", "")))>>),
                        Stage("T", <<Use("use", "l1"), Use("use2", "l2")>>)>>)>>)>>)>>)
Peers ==
  Func("broadcast",
    <<Loop("M", "m", 2,
      <<Pipeline("Q", <<Stage("R", <<Leaf("store", Transfer(At("B", "m"), At("A", "")))>>)>>),
        Loop("N", "n", 2,
          <<Pipeline("P", <<Private("V", <<Leaf("a", Alloc("l1"))>>), Stage("S", <<Load("")>>), Stage("T", <<Use("use", "l1")>>)>>)>>)>>)>>)
Viewed ==
  Func("broadcast",
    <<Loop("N", "n", 2,
      <<Pipeline("P", <<Private("V", <<Leaf("a", Alloc("l1"))>>), Stage("S", <<Load("")>>),
          Stage("T", <<Leaf("v", View("A", "A2")), Use("use", "l1"), Leaf("store", Transfer(At("B", "n"), At("A2", "")))>>)>>)>>)>>)

(* An outer stage holds a pipeline in loops of its own.                      *)
Nested(by, outer) ==
  Func("broadcast",
    <<Loop("L", "l", 2,
      <<Pipeline("O", <<Stage("H", <<Loop("M", "m", 2,
          <<Pipeline("P", <<Private("V", <<Leaf("a", Alloc("l1"))>>), Stage("S", <<Load(by)>>),
                            Stage("T", <<Use("use", "l1")>> \o outer)>>)>>)>>)>>)>>)>>)
Promoted ==
  {Broadcast(f, o) : f \in UNION {Fills(by) : by \in {"", "m", "n"}}, o \in Others}
  \cup {TwoBuffers(by, other) : by \in {"", "m", "n"}, other \in {"", "m"}}
  \cup {Peers, Viewed, Nested("l", <<>>)}

(* Storage that a stage fills with a constant, with a value of the loop, or  *)
(* from memory; twice, or through a view.                                    *)
Storage(fills, last) ==
  Func("storage",
    <<Loop("M", "m", 2, <<Loop("N", "n", 2,
      <<Pipeline("P", <<Private("V", <<Leaf("a", Alloc("l1"))>>),
          Stage("S", <<Leaf("r", Alloc("reg"))>> \o fills \o <<Use("use", "reg")>> \o last)>>)>>)>>)>>)
FillBy(v) == <<Leaf("fill", Fill(v, At("reg", "")))>>
Stored ==
  {Storage(f, last) :
     f \in {FillBy("c1"), FillBy("m"), FillBy("n"), <<Index({"m"})>> \o FillBy("i"), <<Index({"c1"})>> \o FillBy("i"),
            FillBy("c1") \o <<Leaf("again", Fill("c2", At("reg", "")))>>,
            <<Leaf("v", View("reg", "w")), Leaf("fill", Fill("c1", At("w", "")))>>,
            <<Leaf("fill", Transfer(At("A", "m"), At("reg", "")))>>},
     last \in {<<>>, <<Leaf("add", Linalg("add", {At("reg", ""), At("B", "")}, At("Y", "n")))>>}}
Written == {Storage(<<Leaf("fill", Transfer(At("A", ""), At("reg", "")))>>, <<Leaf("store", Transfer(At("reg", ""), At("A", "")))>>),
            Storage(<<Leaf("fill", Transfer(At("A", ""), At("reg", "")))>>, <<Leaf("store", Transfer(At("B", "n"), At("A", "")))>>)}

(* Pure operations in loops, stages and the body of a linalg.generic.        *)
Generic(id, children) == Node(id, Region("generic"), children)
Invariants ==
  {Func("invariants",
     <<Loop("M", "m", 2, <<Loop("N", "n", 2,
       <<Leaf("p", Pure("p", u, "x")),
         Pipeline("P", <<Stage("S", <<Leaf("q", Pure("q", {"x"}, "y")),
           Generic("G", <<Leaf("ix", [Pure("ix", {}, "g") EXCEPT !.op = "index"]), Leaf("r", Pure("r", w, "z")),
                          Leaf("s", Pure("s", {"z"}, "t")), Leaf("fill", Fill("t", At("Z", "n")))>>)>>)>>)>>)>>)>>) :
     u \in {{}, {"m"}, {"n"}}, w \in {{"y"}, {"x", "c1"}, {"g"}, {"m"}}}

Programs == Promoted \cup Stored \cup Invariants
NestedReuse == {Nested("m", <<>>)}
=============================================================================
