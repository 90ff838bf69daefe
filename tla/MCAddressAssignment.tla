------------------------- MODULE MCAddressAssignment -------------------------
(* Small modules over a global and a local memory.                           *)
EXTENDS AddressAssignment, SequencesExt

CONSTANTS ddr, l1

MCMemories == {ddr, l1}
MCCapacity == (ddr :> 12) @@ (l1 :> 7)
MCReserved == (ddr :> 1) @@ (l1 :> 0)

Alloc(m, n, b, a) == [memory |-> m, elements |-> n, bytes |-> b, align |-> a]

(* One byte, elements of two bytes with and without an alignment that is no  *)
(* multiple of theirs, one that fits only once, and three bytes in global    *)
(* memory.                                                                   *)
Allocs == {Alloc(l1, 1, 1, 1), Alloc(l1, 1, 2, 3), Alloc(l1, 2, 2, 1),
           Alloc(ddr, 1, 1, 1), Alloc(ddr, 2, 3, 2)}
Splits == {<<>>, <<Alloc(ddr, 1, 2, 1)>>, <<Alloc(ddr, 1, 1, 1), Alloc(ddr, 2, 4, 1)>>}

Modules ==
  {[splits |-> s, scopes |-> <<outside, first, second>>] :
     s \in Splits, outside \in SeqOf(Allocs, 1),
     first \in SeqOf(Allocs, 2), second \in SeqOf(Allocs, 2)}
MCInputs == Modules

(* A buffer of nearly all addresses after a small one. *)
HugeModules ==
  {[splits |-> <<>>, scopes |-> <<<<Alloc(l1, 2, 1, 1), Alloc(l1, n, 1, 1)>>>>] :
     n \in 1..(Word - 1)}
MCHugeInputs == HugeModules
=============================================================================
