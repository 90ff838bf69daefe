-------------------------- MODULE CoarseningInputs --------------------------
(* Elementwise kernels of the tests of StageCoarsening, on the memories of   *)
(* the sample device, with and without a reused operand.                     *)
EXTENDS Integers, Sequences, TLC

M(v, mem, by) == [at |-> v, kind |-> "memref", mem |-> <<mem>>, by |-> by]
F(v, from, to) == [at |-> v, kind |-> "fifo", mem |-> <<from, to>>, by |-> <<>>]
Move(a, b) == [op |-> "transfer", srcs |-> <<a>>, dst |-> b]
Gather(a, iab, b) == [op |-> "indirect", srcs |-> <<a, iab>>, dst |-> b]
Combine(a, b) == [op |-> "compute", srcs |-> a, dst |-> b]

L1(v) == M(v, "L1", <<>>)
Reg(v) == M(v, "SFU_REG", <<>>)
DDR(v, by) == M(v, "DDR", by)
In(k) == F("in" \o ToString(k), "L1LU", "SFU")
Out == F("out", "SFU", "L1SU")

Loop(lb, ub, step) == [lb |-> lb, ub |-> ub, step |-> step, plain |-> TRUE]
Values(names, fifos) ==
  [k \in DOMAIN names |-> [name |-> names[k], op |-> k]]
  \o [k \in DOMAIN fifos |-> [name |-> fifos[k], op |-> Len(names) + IF k = 3 THEN 2 ELSE 1]]

(* C[i,j] = A[by] + B[by2], the loads in one stage or in two.                *)
Load(a, b) == <<Move(DDR("A", a), L1("lA")), Move(DDR("B", b), L1("lB"))>>
Compute == <<Move(In(1), Reg("rA")), Move(In(2), Reg("rB")),
             Combine(<<Reg("rA"), Reg("rB")>>, Reg("rC")), Move(Reg("rC"), Out)>>
Feed == <<Move(L1("lA"), In(1)), Move(L1("lB"), In(2))>>
Add(a, b, split) ==
  [loops |-> <<Loop(0, 2, 1), Loop(1, 5, 2)>>, beside |-> <<>>, private |-> TRUE,
   values |-> Values(<<"lA", "lB", "lC", "rA", "rB", "rC">>, <<"in1", "in2", "out">>),
   stages |-> (IF split THEN <<<<Load(a, b)[1]>>, <<Load(a, b)[2]>>>> ELSE <<Load(a, b)>>)
              \o <<Feed, Compute, <<Move(Out, L1("lC"))>>, <<Move(L1("lC"), DDR("C", <<1, 2>>))>>>>,
   succ |-> IF split THEN <<<<3>>, <<3>>, <<4>>, <<5>>, <<6>>, <<>>>>
            ELSE <<<<2>>, <<3>>, <<4>>, <<5>>, <<>>>>]


(* The same with an outer loop that is not sunk, and with the second loop    *)
(* kept by another operation in its body.                                    *)
Deep(n) == [n EXCEPT !.loops = <<Loop(0, 2, 1)>> \o @]
Kept(n) == [n EXCEPT !.loops[1].plain = FALSE]

(* Gathers A by the addresses of a buffer that was filled before.            *)
Gathered(by) ==
  [Add(<<1>>, <<2>>, FALSE) EXCEPT
     !.stages[1] = <<Gather(DDR("A", <<2>>), M("iab", "IAB", by), L1("lA")),
                     Move(DDR("B", <<1, 2>>), L1("lB"))>>]

(* Two buffers loaded in one stage and used in the next two, one of which    *)
(* reads what the other stored; there is nothing to keep together.           *)
Copies(a, c) ==
  [loops |-> <<Loop(0, 3, 2), Loop(0, 2, 1)>>, beside |-> <<>>, private |-> TRUE,
   values |-> <<[name |-> "l1", op |-> 1], [name |-> "l2", op |-> 2]>>,
   stages |-> <<<<Move(DDR("A", a), L1("l1")), Move(DDR("B", <<1>>), L1("l2"))>>,
                <<Move(L1("l1"), DDR("C", c)), Move(L1("l2"), DDR("D", <<1, 2>>))>>,
                <<Move(L1("l2"), DDR("E", c))>>>>,
   succ |-> <<<<2, 3>>, <<>>, <<>>>>]

(* A copy in memory, without a private region.                               *)
InPlace(tokens) ==
  [loops |-> <<Loop(0, 2, 1), Loop(0, 2, 1)>>, beside |-> <<>>, private |-> FALSE, values |-> <<>>,
   stages |-> <<<<Move(DDR("A", <<1, 2>>), DDR("C", <<1, 2>>))>>,
                <<Move(DDR("B", <<2>>), DDR("D", <<1, 2>>))>>>>,
   succ |-> IF tokens THEN <<<<2>>, <<>>>> ELSE <<<<>>, <<>>>>]

Adds == {Add(a, b, split) : a \in {<<>>, <<1>>, <<1, 2>>}, b \in {<<1, 2>>, <<2>>}, split \in BOOLEAN}
Kernels ==
  Adds \cup {Deep(Add(<<2>>, <<2, 3>>, TRUE)), Kept(Add(<<1>>, <<1, 2>>, FALSE))}
  \cup {Gathered(by) : by \in {<<1>>, <<1, 2>>}}
  \cup {Copies(a, c) : a \in {<<1>>, <<2>>, <<1, 2>>}, c \in {<<1, 2>>}}
  \cup {InPlace(tokens) : tokens \in BOOLEAN}

(* A loop beside the pipeline.                                               *)
Beside == {[Add(<<1>>, <<2>>, FALSE) EXCEPT !.beside = <<<<Move(DDR("A", <<1>>), DDR("E", <<1>>))>>>>]}

Device == << [op |-> "memory", in |-> 0, kind |-> "DDR"], [op |-> "group", in |-> 0, kind |-> "core", shared |-> <<<<1, 1>>>>],
   [op |-> "memory", in |-> 2, kind |-> "L1"], [op |-> "group", in |-> 2, kind |-> "", shared |-> <<<<3,1>>>>],
   [op |-> "group", in |-> 4, kind |-> "SFU_Block", shared |-> <<>>], [op |-> "memory", in |-> 5, kind |-> "SFU_REG"] >>
=============================================================================
