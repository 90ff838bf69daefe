------------------------------- MODULE Steps -------------------------------
(* Rewriting in several steps.  The intermediate results are members of a    *)
(* set, so that TLC computes each of them once also inside an action.        *)
EXTENDS Integers, Sequences

Indices(list) == [k \in DOMAIN list |-> k]

With(op(_), x) == CHOOSE r \in {op(y) : y \in {x}} : TRUE

(* What x becomes when op is applied for each member of a list, in order.    *)
ForEach(op(_, _), x, list) ==
  LET after[k \in 0..Len(list)] ==
        IF k = 0 THEN x
        ELSE CHOOSE r \in {op(y, m) : y \in {after[k - 1]}, m \in {list[k]}} : TRUE
  IN  after[Len(list)]
=============================================================================
