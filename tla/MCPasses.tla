------------------------------ MODULE MCPasses ------------------------------
(* The passes that rewrite a program, each on programs of its own.           *)
EXTENDS Integers, Sequences

CONSTANT Families     \* the programs of each pass, put together from the
                      \* forms of an instance that has none

VARIABLES
  pass,               \* the pass that runs
  input, phase,       \* its program, and its next step
  program,            \* what it has made of the program
  groups, tree        \* the groups and the pipeline tree of StageCoarsening

vars == <<pass, input, phase, program, groups, tree>>

Loops == INSTANCE LoopNests WITH
  Nests <- Families.loops, KMaxLoopNestDepth <- 2, KMaxCandidateTileSize <- 2

KernelInputs == INSTANCE CoarseningInputs
Coarsening == INSTANCE StageCoarsening WITH
  Inputs <- Families.coarsening, MemoryOps <- KernelInputs!Device, LoopNestDepth <- 2

Cleanup == INSTANCE PipelineCleanup WITH Inputs <- Families.cleanup
StageForms == INSTANCE PipelineCleanup WITH Inputs <- {}
RelayInputs == INSTANCE CleanupInputs WITH
  Memref <- StageForms!Memref, Slot <- StageForms!Slot, Transfer <- StageForms!Transfer,
  Compute <- StageForms!Compute, Stage <- StageForms!Stage

Hoists == INSTANCE Hoisting WITH Inputs <- Families.hoisting
RegionForms == INSTANCE Hoisting WITH Inputs <- {}
MovedInputs == INSTANCE HoistInputs WITH
  Region <- RegionForms!Region, For <- RegionForms!For, If <- RegionForms!If, Pure <- RegionForms!Pure,
  Alloc <- RegionForms!Alloc, View <- RegionForms!View, At <- RegionForms!At, Transfer <- RegionForms!Transfer,
  Fill <- RegionForms!Fill, Linalg <- RegionForms!Linalg

Reducing == INSTANCE Reductions WITH Inputs <- Families.reductions
AccumulatorInputs == INSTANCE ReductionInputs

Grouping == INSTANCE ComputeGroups WITH Inputs <- Families.frontend, EntryValues <- 65536
KernelForms == INSTANCE ComputeGroups WITH Inputs <- {}, EntryValues <- 65536
GroupInputs == INSTANCE ComputeGroupInputs WITH
  Const <- KernelForms!Const, Scalar <- KernelForms!Scalar, TileId <- KernelForms!TileId, For <- KernelForms!For,
  View <- KernelForms!View, Tile <- KernelForms!Tile, Indirect <- KernelForms!Indirect, Load <- KernelForms!Load,
  Generic <- KernelForms!Generic, Elementwise <- KernelForms!Elementwise, Store <- KernelForms!Store, Call <- KernelForms!Call

Indirects == INSTANCE IndirectAccess WITH Inputs <- Families.indirect
AccessInputs == INSTANCE IndirectInputs

FillForms == INSTANCE AddressBufferFill WITH Inputs <- {}, Device <- <<>>, AddressBuffers <- {}
BufferInputs == INSTANCE FillInputs WITH
  Memref <- FillForms!Memref, Op <- FillForms!Op, Pure <- FillForms!Pure, Load <- FillForms!Load,
  Transfer <- FillForms!Transfer, DynamicTransfer <- FillForms!DynamicTransfer,
  IndTransfer <- FillForms!IndTransfer, If <- FillForms!If
Filling == INSTANCE AddressBufferFill WITH
  Inputs <- Families.fills, Device <- BufferInputs!SampleDevice, AddressBuffers <- {"IAB"}

Init ==
  \/ pass = "coarsening" /\ Coarsening!Init /\ program = <<>>
  \/ /\ \/ pass = "loops" /\ Loops!Init
        \/ pass = "cleanup" /\ Cleanup!Init
        \/ pass = "hoisting" /\ Hoists!Init
        \/ pass = "reductions" /\ Reducing!Init
        \/ pass = "frontend" /\ Grouping!Init
        \/ pass = "indirect" /\ Indirects!Init
        \/ pass = "fills" /\ Filling!Init
     /\ groups = <<>> /\ tree = <<>>

Coarsens == pass = "coarsening" /\ Coarsening!Next /\ UNCHANGED <<pass, program>>
Next ==
  \/ Coarsens
  \/ /\ \/ pass = "loops" /\ Loops!Next
        \/ pass = "cleanup" /\ Cleanup!Next
        \/ pass = "hoisting" /\ Hoists!Next
        \/ pass = "reductions" /\ Reducing!Next
        \/ pass = "frontend" /\ Grouping!Next
        \/ pass = "indirect" /\ Indirects!Next
        \/ pass = "fills" /\ Filling!Next
     /\ UNCHANGED <<pass, groups, tree>>

Spec == Init /\ [][Next]_vars /\ WF_vars(Coarsens)

-----------------------------------------------------------------------------
(* Nests of loops for LoopNests: parallel loops and reductions with bounds   *)
(* that the tile sizes and the instances divide or not, loops that do not    *)
(* start at zero, and three loops where at most two are tiled together.      *)
Nest(loops, grid, tilings, strips, chosen, instances, applied) ==
  [loops |-> loops, grid |-> grid, tilings |-> tilings, strips |-> strips,
   chosen |-> chosen, instances |-> instances, applied |-> applied]

Plain(kind, n) == [kind |-> kind, lb |-> 0, from |-> 0, ub |-> n, step |-> 1, perfect |-> TRUE]
Row(n) == <<Plain("parallel", n)>>
Grid(n, m) == <<Plain("parallel", n), Plain("parallel", m)>>
Reduction(n, m) == <<Plain("parallel", n), Plain("reduction", m)>>
Offset == <<[Plain("parallel", 6) EXCEPT !.lb = 1, !.step = 2],
            [Plain("parallel", 7) EXCEPT !.from = 1, !.step = 3, !.perfect = FALSE]>>
Cube == <<Plain("parallel", 2), Plain("parallel", 3), Plain("parallel", 2)>>

Nests ==
  {Nest(l, <<2, 3, 2>>, t, <<>>, <<>>, i, a) : i \in {1, 2}, a \in BOOLEAN,
     l \in {Row(4), Row(5), Grid(4, 3), Grid(3, 4), Reduction(4, 3), Reduction(5, 2), Offset, Cube},
     t \in {<<>>, << <<>> >>}}
  \cup {Nest(Grid(5, 3), <<4>>, << <<2, 2>> >>, <<>>, <<>>, i, a) : i \in {1, 2}, a \in BOOLEAN}
  \cup {Nest(Grid(5, 3), <<2, 0>>, << <<>> >>, <<>>, c, i, a) :
          c \in {<<2, 2>>, <<3, 1>>, <<2>>}, i \in {1, 2}, a \in BOOLEAN}
  \cup {Nest(Grid(4, 3), <<4>>, << <<2, 2>>, <<>> >>, <<>>, <<>>, 1, a) : a \in BOOLEAN}
  \cup {Nest(l, <<2, 2>>, <<>>, s, <<>>, 1, a) :
          l \in {Row(5), Grid(3, 3)}, s \in {<<2>>, <<0>>}, a \in BOOLEAN}

(* A loop tiled twice. *)
RetiledNests == {Nest(Row(5), <<4>>, << <<2>>, <<2>> >>, <<>>, <<>>, 1, FALSE)}

-----------------------------------------------------------------------------
NoPrograms == [loops |-> {}, coarsening |-> {}, cleanup |-> {}, hoisting |-> {}, reductions |-> {},
               frontend |-> {}, indirect |-> {}, fills |-> {}]
AllPrograms ==
  [loops |-> Nests, coarsening |-> KernelInputs!Kernels,
   cleanup |-> RelayInputs!Pipelines, hoisting |-> MovedInputs!Programs,
   reductions |-> AccumulatorInputs!Reductions, frontend |-> GroupInputs!Kernels,
   indirect |-> AccessInputs!Accesses, fills |-> BufferInputs!Pipelines]

(* Programs on which a pass does what it should not.                         *)
Retiled == [NoPrograms EXCEPT !.loops = RetiledNests]
Beside == [NoPrograms EXCEPT !.coarsening = KernelInputs!Beside]
Feeding == [NoPrograms EXCEPT !.cleanup = RelayInputs!Feeding]
SharedToken == [NoPrograms EXCEPT !.cleanup = RelayInputs!SharedToken]
NestedReuse == [NoPrograms EXCEPT !.hoisting = MovedInputs!NestedReuse]
Written == [NoPrograms EXCEPT !.hoisting = MovedInputs!Written]
Squares == [NoPrograms EXCEPT !.reductions = AccumulatorInputs!Squares]
Overtaken == [NoPrograms EXCEPT !.frontend = GroupInputs!Overtaken]
PerCore == [NoPrograms EXCEPT !.frontend = GroupInputs!PerCore]
Strided == [NoPrograms EXCEPT !.frontend = GroupInputs!Strided]
Displaced == [NoPrograms EXCEPT !.indirect = AccessInputs!Displaced]
Crossed == [NoPrograms EXCEPT !.indirect = AccessInputs!Crossed]
Transposed == [NoPrograms EXCEPT !.indirect = AccessInputs!Transposed]
Otherwise == [NoPrograms EXCEPT !.fills = BufferInputs!Otherwise]
Unordered == [NoPrograms EXCEPT !.fills = BufferInputs!Unordered]
Pairs == [NoPrograms EXCEPT !.reductions = AccumulatorInputs!Pairs]

(* Every iteration of a nest of loops is executed, and once, whatever the    *)
(* passes make of it (LoopNests).                                            *)
IterationsKept == pass = "loops" => Loops!IterationsKept

(* Reductions are executed in order and on one instance (LoopNests), and     *)
(* stages stand behind the stages that they await (PipelineCleanup).         *)
OrderKept ==
  /\ pass = "loops" => Loops!OrderKept
  /\ pass = "cleanup" => Cleanup!StagesInOrder

(* What a program leaves in memory is what it left there before, whether     *)
(* it is cut into functions, loops are sunk into its pipelines, its          *)
(* operations moved out of loops, its reductions run in chunks and loops, or *)
(* its indirect accesses made in loops (ComputeGroups, StageCoarsening,      *)
(* Hoisting, Reductions, IndirectAccess).                                    *)
SameResults ==
  /\ pass = "coarsening" => Coarsening!SameResults
  /\ pass = "hoisting" => Hoists!SameResults
  /\ pass = "reductions" => Reducing!SameResults
  /\ pass = "frontend" => Grouping!SameResults
  /\ pass = "indirect" => Indirects!SameResults

(* Data fits where it goes: the views of an address buffer end where it      *)
(* ends, and no other buffer is in it (ComputeGroups); every packet read     *)
(* from a FIFO is one that was written to it whole, and none is left, in     *)
(* every step of rewriting a reduction (Reductions).                         *)
DataFits ==
  /\ pass = "frontend" => Grouping!BuffersFit
  /\ pass = "reductions" => Reducing!PacketsFit

(* What tokens order stays in order: stages wait for the stages they waited  *)
(* for (StageCoarsening), and accesses of a memory that were ordered still   *)
(* are when relays are folded and tokens rewritten (PipelineCleanup).        *)
TokenOrderKept ==
  /\ pass = "coarsening" => Coarsening!TokensCarriedOver
  /\ pass = "cleanup" => Cleanup!AccessesStayOrdered

(* Data reaches the memrefs and the address buffers that it reached before,  *)
(* when relays are folded and addresses brought over another memory, which   *)
(* uses only datapaths (PipelineCleanup, AddressBufferFill).                 *)
FlowsKept ==
  /\ pass = "cleanup" => Cleanup!FlowsKept
  /\ pass = "fills" => Filling!FlowsKept

(* No stage comes to wait for itself, by tokens and by data                  *)
(* (PipelineCleanup).                                                        *)
NoStall == pass = "cleanup" => Cleanup!NoStall

(* Values are defined in front of their uses (Hoisting).                     *)
UsesDominated == pass = "hoisting" => Hoists!UsesDominated

(* Every pass comes to an end: the rules of the legalizer of the pipeline    *)
(* tree come to hold (StageCoarsening).                                      *)
Ends == pass = "coarsening" => Coarsening!Ends
=============================================================================
