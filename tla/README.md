# A TLA+ model of dataflow-scheduler

dataflow-scheduler is a compiler (C++, MLIR). It takes tiled programs in KTIR, builds a
schedule out of pipelines of stages (the KTDF dialect), optimizes it, and lowers it to one
DataflowIR program per hardware unit. The units run concurrently and are held together only by
FIFOs and by the signals the compiler inserts. The compiler itself is sequential; what is hard
about it is that *its output is a concurrent program*, whose correctness follows from analyses
spread over many passes. This project therefore models the passes that decide the
synchronization as operators on schedules, runs the compiled programs on a model of the device,
and compares every value a unit reads with the one a sequential execution of the schedule reads.
The passes before that, which build and rewrite the program, are state machines that go from
step to step of a pass; what the program computes, or in which order its parts may run, is
evaluated on the program before and after, and compared. The allocation of addresses, the
other place where an error stays silent until a program runs, is a state machine of its own.

## Inventory

The order of passes is that of `lib/Pipeline.cpp`: frontend (40-66), optimization (68-154),
backend (156-172).

| Component | State it keeps | Operations | Interaction | Properties that make it correct |
| --- | --- | --- | --- | --- |
| Frontend: legality, compute groups, indirect accesses, linalg fusion, map/tile, bufferize, pipeline construction | the IR; address buffers in the memory tracker | one rewrite per pass | leaves a schedule: pipelines of stages ordered by tokens | equivalent to the KTIR program; address buffers disjoint |
| Path expansion, FIFO passes (`FoldFifoRelayStages`, `SimplifyPipeline`, `OrderFifoSlotsByUse`) | routes, stages, FIFO slots | search, insertion, reordering | device description in, units of stages out | every transfer ends on a legal route; both ends of a FIFO agree on the order |
| Hoisting, broadcast promotion | write sets | move operations out of loops | moves transfers to pipelines beside loops | no iteration reads a value of another |
| Loop passes, stage coarsening, reductions | loops, buffers | tile, normalize, parallelize, group, chunk | trip counts and instances used by the backend | same set of iterations |
| `DoubleBuffering` | candidates of a pipeline | check, hoist, rewrite | phases lowered by `BufferPhaseLowering` | a buffer is not overwritten while it is read |
| `AddressAssignment`, `MemoryTracker` | `next_address_` per memory, failures | allocate, reset, process scopes | tracker shared with `IndirectComputeGroupSplit` | disjoint, in capacity, aligned, nothing forgotten |
| `GlobalStageDAG` | token maps, DAG | dependencies, sort, roots and leaves, stitching | used by all of the backend | order of leaves = order of tokens |
| `KTDFToKTDFLow` | units per stage, conflicts, back edges | classify, materialize, wire, insert signals, transform pipelines | signals lowered by `KTDFLowToDFIR` | every hand-off through a scratchpad has a signal |
| `KTDFLowToDFIR` | one function copy per unit type | filter, parallel loops, buffer phases, signals, transfers | output runs on the device | both sides of each signal exist and pair up |
| Device (external) | program counters, memories, FIFOs, tokens | stage iterations, `sync_send`, `sync_recv` | runs the output | terminates, computes what the schedule computes |

The full list with statuses is `components` in `PROJECT.json`; the behaviours that are hard to
test are listed there under `hazards`, each at its line.

What is hard: interleavings of units (interleaving of stage iterations, signals and FIFO
traffic), loop-carried dependencies whose two ends are guarded by different conditions,
alternating buffers under nested loops, several corelets and cores, orders lost between
nesting levels; rewrites that move one operation of a block past another, change one end of a
FIFO and not the other, or take a condition for granted that an earlier pass has not
established; and, in address assignment, one failure among many successes and resets between
programs. Nothing is persisted and nothing is retried, so there are no crash or timeout hazards.

## Modules

| Module | Models | Composes |
| --- | --- | --- |
| `Schedule` | the KTDF schedule as a sequence of nodes (external data structure) | |
| `GlobalStageDAG` | `GlobalStageDAG.cpp`: what each of its functions returns | `Schedule` |
| `StageAnalysis` | the same analysis step by step: the search for cycles, the sort, and steps 6, 9 and 10 of `KTDFToKTDFLow.cpp` that call them | `GlobalStageDAG` |
| `StageAnalysis_proofs` | theorems about the search and the sort | `StageAnalysis`, `Induction` |
| `GlobalOrder_proofs` | theorems about the order over all nesting levels | `StageAnalysis_proofs` |
| `DoubleBuffering` | `DoubleBuffering.cpp`, `PipelineScope.cpp`, `BufferPhaseLowering.cpp` | `Schedule` |
| `SignalInsertion` | `KTDFToKTDFLow.cpp` steps 1 to 8, `ScratchpadConflicts.cpp`, `SignalInsertion.cpp` | `GlobalStageDAG` |
| `UnitPrograms` | `PipelineExecutionTransform.cpp`, `ProgramUnitBuilder.cpp`, `ParallelLowering.cpp`, `LowerSignalPattern` | `SignalInsertion`, `DoubleBuffering` |
| `HappensBefore` | when a compiled schedule orders itself: a certificate and what it must satisfy | |
| `DataflowRuntime` | the device (external) running compiled programs | `HappensBefore`; refines `Handshake` |
| `DataflowInvariant` | the inductive invariant of the device | `DataflowRuntime` |
| `DataflowRuntime_proofs` | theorems about the device, and that it implements `Handshake` | `DataflowInvariant` |
| `Handshake` | the promise of lowered signals, for any units and peers | |
| `Handshake_proofs` | theorems about `Handshake` | |
| `AddressAssignment` | `AddressAssignment.cpp`, `MemoryTracker.cpp`, the allocation of `splitCandidate` | |
| `AddressAssignment_proofs` | theorems about `AddressAssignment` | |
| `ComputeGroups` | `ComputeGroupExtraction.cpp`, `IndirectComputeGroupSplit.cpp` | `Steps` |
| `IndirectAccess` | `IndirectAddrBufLegalization.cpp`, `IndirectAccessLoopMaterialization.cpp`, `IndirectAccessTileNarrowing.cpp`, and what `KTIRBufferize.cpp` accepts of the result | `Steps` |
| `AddressBufferFill` | `IndirectAddrBufFillLegalization.cpp` | `ArchViews` |
| `ArchViews` | `RoutingGraph.cpp`, `MemoryTree.cpp`, `GroupLocalMemory.cpp` | |
| `PathExpansion` | `PathExpansion.cpp`, `Planner.cpp`, `PlannerFactories.cpp`, `Materializer.cpp` | `ArchViews` |
| `PathExpansion_proofs` | theorems about routes and the order of stages | `PathExpansion`, `Induction` |
| `PipelineCleanup` | `FoldFifoRelayStages.cpp`, `SimplifyPipeline.cpp` | `Steps` |
| `LoopNests` | normalization, strip-mining, tiling, tile sizes, parallel loops and their lowering, the grid, `affine.min`, linearized indices, strength reduction | `Steps` |
| `StageCoarsening` | `StageCoarsening.cpp` with `BufferExpansion`, `Materializer`, `ScopeCorrection`; `StageGrouping.cpp`, `PipelineTree`, `PipelineTreeLegalizer.cpp` | `ArchViews`, `Steps` |
| `Reductions` | `ReductionDimChunking`, `SplitReductionInnerOuterDim`, `ReductionLoopExposure`, `MapReductionPartials`, `ReductionUtils` | `Steps` |
| `Hoisting` | `HoistInvariants`, `HoistConstantStorage`, `BroadcastPromotion`, `Reuse`, `WriteSetScan`, `InvarianceCheck`, `RegionClonePrune` | `Steps` |
| `SlotOrder` | `OrderFifoSlotsByUse.cpp` | `Steps` |
| `SlotOrder_proofs` | theorems about the order of slots | `SlotOrder`, `Induction` |
| `Steps` | helpers to rewrite in several steps | |
| `ComputeGroupInputs`, `IndirectInputs`, `FillInputs`, `CoarseningInputs`, `ReductionInputs`, `HoistInputs`, `CleanupInputs` | the programs the passes are run on | |
| `SampleDevices` | the devices of the tests | |
| `Induction` | lemmas about sets of numbers and recursively defined functions, used where a proof would go by induction | |
| `MCHandshake`, `MCDataflow`, `MCStageAnalysis`, `MCAddressAssignment`, `MCRouting`, `MCSlotOrder` | the instances TLC checks | |
| `MCPasses` | the other passes that rewrite a program, in one state machine, and the loop nests they are run on | those passes |

### From a schedule to programs

`GlobalStageDAG`, `DoubleBuffering`, `SignalInsertion` and `UnitPrograms` are pure: the passes
are deterministic functions of the schedule, so they are operators with recursive *functions*
where the code iterates. `UnitPrograms!Compile` composes them: it unrolls the schedule
(`Unrolled`, with the inserted signals and their guards), keeps for each unit what the filter of
`buildProgramUnits` keeps, and tells for each stage iteration which locations it reads and
writes, which FIFO items it takes and puts, and, from the sequential execution, which iteration
must have produced each of them. `OnUnit` then sorts the items by FIFO: a FIFO joins two units
of one corelet and carries the slots of all allocations between them, as the lowered sends and
receives name the unit at the other end only.

A stage iteration is named by its number in the sequential execution and stands for the data it
produces, so that no arithmetic is modelled: two executions agree exactly when each reads the
numbers the other reads. Loops inside a stage are part of its iteration. A transfer skipped in
the first iteration of some loops (the initial value of an accumulator) carries these loops as
`guards`.

### The order of stages

`StageAnalysis` is the same analysis as a state machine. For one function body (`schedule`) it
goes through the pipelines twice, in the order of the code's reversed walk, outer ones before
the ones inside (`ComesAfter`; the edges are the same in any order): in round *build* (step 6, `buildGlobalStageDAG`) each pipeline is searched for cycles and its edges
are stitched into `dag`; in round *sort* (steps 9 and 10) it is searched again and its stages are
sorted. `NextPipeline` computes the token edges of a pipeline; `BeginSearch`, `Look` and `Retreat`
are the depth-first search of `analyzeStageDependencies` with its colours and an explicit stack
(`left` holds the successors a stage has still to look at); `Stitch` adds the edges;
`StartSort`, `Emit` and `FinishSort` are `topologicalSortStages`, which counts *tokens* that have
no answer yet (`degree`), not producers, and queues the stages for which the count is 0. The
operators of `GlobalStageDAG` say what comes of it in one expression each (`HasCycle`,
`BuildGlobalStageDAG`), and `SignalInsertion` is built on them; `BuildsDAG` states that the two
agree.

Two properties look at the whole tree. `NoOrderAdded`: two leaf stages that the global DAG orders
are inside two stages of one pipeline that the tokens order. `OrderSurvivesNesting`: where a stage
holds at most one pipeline and no pipeline is empty (`SinglyNested`), the DAG has all of that
order. Without the restriction the second one fails, which is run `siblings`.

### The device

`DataflowRuntime` has one program counter per unit. `BeginStage` takes the inputs (memory and
FIFOs), `EndStage` delivers the outputs, with any number of steps of other units in between;
that is where races show. Signals are the `sync_send`/`sync_recv` sequence
`LowerSignalPattern` emits: all sends, then all receives (`SyncSend`, `SyncRecv`, `Proceed`).
Tokens between two units are anonymous for the program; the number stored with one is read by
no guard.

`Handshake` is the abstract specification of the signals. `DataflowRuntime` implements it
(`ImplementsHandshake`) under the mapping that forgets stages, memories and FIFOs and takes each
unit to its next signal. The refinement covers the initial states and the steps; liveness of the
device is checked directly (`Termination`).

### Schedules that order themselves

What the two lowering passes are for is that signals and FIFOs *alone* keep the units in order.
`HappensBefore` says so without running anything. A certificate of a compiled schedule has
vector clocks (`clock[u][i][v]`: how far `v` is, at least, when `u` comes to its `i`-th
operation), the numbers of items put and taken before each operation (`put`, `take`), the
stream of items of each FIFO, and an order of all operations (`rank`). `OrderedBy(m, c)` asks:

- the programs are well formed, signals have two sides and come in one order everywhere
  (`WellFormed`, `SignalsInOrder`; this includes what `PairedSignals` says);
- both ends of a FIFO agree on its stream (`StreamsMatch`);
- the clocks claim no more than what comes with a token of a signal or with the last item that
  is taken (`ClocksSound`): a peer has reached the signal, a sender has ended that iteration;
- of two iterations one of which writes what the other touches, one is over before the other
  begins, by the clocks (`ConflictsOrdered`);
- every read comes after the writer it wants, and no other writer comes between (`ReadsOrdered`).

`NeverWaits(m, c, depth)` asks that in the order of the ranks no operation waits for a later one,
for items, for room in a FIFO of that depth, or for a peer. `Certificate` computes the least
clocks and ranks by rounds until nothing changes; it needs no trust, because what it yields is
checked. `SchedulesOrdered` does that for the schedule that is launched.

### Address assignment

The state is the tracker's `next_address_`, the position in the passes (phase, scope,
allocation), the number of failures and the buffers placed so far. Actions: `SplitCandidate`
(one address buffer of `IndirectComputeGroupSplit`), `BeginAssignment` (entry and early return
of `runOnOperation`), `ProcessAllocation`, `NextScope` (with the reset of the program's own
memories) and `Finish`. Addresses are `size_t`: sums are taken modulo `Word`, and the proofs say
where they rely on a sum not wrapping. The pass stops when it is done, so these configurations
switch the deadlock check off.

### Passes that rewrite a program

`ComputeGroups`, `IndirectAccess`, `AddressBufferFill`, `PathExpansion`, `PipelineCleanup`,
`LoopNests`, `StageCoarsening`, `Reductions`, `Hoisting` and `SlotOrder` share a shape. The variables are the input, the
program as rewritten so far, and the step the pass is at (`phase`); an action is one step
of the pass, such as one group extracted, one candidate promoted or one relay folded, with its
rejections (`phase` becomes *failed* where the pass signals failure, and the program stays as it
was where a pattern does not match). A program is a record or a sequence of operations: the
operations keep their operands, loops and regions, element values are free terms (`<<"f", x>>`),
and shapes, layouts and types are kept only where a pass looks at them. Each module ends with a
small interpreter and a property that compares what it makes of the input and of the program:
after each step where the program is complete in between (`ComputeGroups`, `PathExpansion`,
`PipelineCleanup`, and `PacketsFit`, `UsesDominated`), and when the pass is done elsewhere.

- `ComputeGroups`: the interpreter runs a kernel, its modules and functions, on a memory of
  bytes for each core; `EntryValues` bounds the values of an address entry (2^16).
- `IndirectAccess`: a function with one indirect access, its loops from the outermost, and the
  tiles it reads and writes as subscripts and shapes. The interpreter lists which element of
  the indirect tile moves to or from which element of the direct ones, over all iterations and
  with the contents the guarded fills give the address buffer and parallel loops in either
  order; the list for the result is that of the input, whenever `KTIRBufferize` accepts the
  result as one transfer (`Bufferize`).
- `AddressBufferFill`: a pipeline as `PathExpansion` leaves it, stages as lists of operations
  under guards. The interpreter runs the stages in every order the tokens allow and for every
  choice of the conditions, and compares the contents of the memrefs that were there before;
  all transfers of the result are between memories that their unit is joined to.
- `PathExpansion` and `ArchViews`: the device is the sequence of operations of its description;
  `FindShortestPath` is the breadth-first search of `RoutingGraph.cpp` with its queue of paths.
  One action for each step of the planner: stages sorted and validated, resources, flows, units,
  hops, tokens (`RewireDependencies`), the new order stage by stage (`PlaceStage`: of the stages
  that wait for no unplaced one, the first in the old order), FIFOs and transfers, and the
  pipeline that replaces the old one. The module assumes of a device that its datapaths join
  nodes of its graph, which is how `RoutingGraph.cpp` builds the graph. The promises
  (`OverDatapaths`, `DataArrives`, `TokensFollowData`, `StagesWaitBackwards`, `SlotsKeepOrder`,
  `RoutesShortest`) speak of sets of edges, reachability and positions only.
- `LoopNests`: a nest is a list of loops with bounds and steps as small terms; the interpreter
  yields the bag of index vectors executed, per instance and core where loops are parallel.
- `StageCoarsening`: the pipeline tree is the code's; the rules of the legalizer are tried in
  its order until none is violated. Two interpreters give the schedule of the stages and the
  contents of memory after all orders that tokens and FIFOs allow.
- `Reductions`: contributions to a sum are bags, so that an element counted twice, or a neutral
  element that is not neutral, shows.
- `Hoisting`: operations are a table of identifiers with regions as lists, so that dominance can
  be stated apart from the results.
- `SlotOrder`: one step for each FIFO, in any order, which includes that of the code (pipelines as
  walked, FIFOs by their first slot). `SlotsInStep` compares the order of the writes with that of the reads after
  every step; `BlocksKept` evaluates each block with what it takes from slots and memory.

Definitions whose comment calls them *a slip* are variants of the definition after them with a
plausible mistake. No specification uses them: they show that the property they are listed with
in `PROJECT.json` can fail.

## Runs

| Run | Instance | Shows |
| --- | --- | --- |
| `handshake` | 4 units, 5 signals, one of them three-way; every set of signals missed at the start | the invariant of the proofs, matched tokens, rendezvous, no deadlock, termination |
| `device` | four schedules: double-buffered tiles in one loop of 3 and in two loops of 2 iterations; an accumulator at a constant address with `ktdf.parallel` over 2 corelets; a scratchpad indexed by the outer and the inner of 3 loops. FIFOs of 2 entries | sequential reads, no race, nothing left, type invariant, termination, refinement of `Handshake`; at launch, that these schedules order themselves, and 31 more of the same shapes with other trip counts (`ShapesOrdered`) |
| `stages` | some 9300 functions: all pipelines of 3 stages over 2 tokens (named in order of use), over 3 tokens with at most one in and one out, two stages each plain or around a pipeline of two, a stage around two pipelines, three levels of nesting | the invariant of the proofs; cycles are found and nothing else is rejected; the sort puts every stage behind those it waits for; the DAG is that of the operators, orders nothing the tokens do not, and has all of their order where stages hold at most one pipeline |
| `addresses` | global memory of 12 and local memory of 7 bytes, one byte reserved; 0 to 2 address buffers; module and two programs with up to 2 allocations each of five kinds | invariant of the proofs, disjointness, capacity, exact offsets, no forgotten failure |
| `routing` | 12 load parts and 5 store parts combined, in program order and in reverse, on the sample device, and with two more on a device whose units follow each other | expanded pipelines use datapaths only and shortest routes; data arrives in the values that were read; tokens follow data; stages wait for earlier stages only; slots keep their order |
| `slots` | 1531 programs: a block that writes and one that reads two or three slots, in all orders and with operations between them; two FIFOs of two slots between the same two stages, in all orders; slots with the same ends in another pipeline | the slots of an ordered FIFO are read in the order they are written, and what was in step stays so; each block leaves in slots and memory what it left there |
| `passes` | eight families of programs, one per module: 39 kernels, 1928 functions with an indirect access, 92 pipelines that fill address buffers, 90 nests, 21 elementwise kernels, 252 pipelines with relays or tokens to simplify, 101 programs to hoist in and 36 reductions | iterations, results, order, tokens, flows and dominance are kept, data fits where it goes, and legalization ends |

The passes of `passes` are checked one by one, as the code's tests run them. They share one run
because they share the questions (`SameResults` is asked of five of them, `FlowsKept` of two); a state belongs to one
pass only. The run's state space is the sum of theirs.

Five runs check one statement of the repository's documentation each, which the code does not
meet. They document a disagreement found while modelling (`findings` in `PROJECT.json`):

| Run | Statement | What happens |
| --- | --- | --- |
| `cores` | a corelet communicates with the matching corelet of its peer | with two cores and two corelets, every core pairs with units of the first core |
| `long_backedge` | the load of the next iteration reads what the store wrote | a loop that is in no index is in no guard; with three iterations the units drift apart. So they do when the inner loop has a single iteration and the middle one two: the families of `ShapesOrdered` leave out what its certificate refutes |
| `restart` | ping-pong buffers | the phase starts over in a loop with a peer pipeline, and an odd inner trip count uses one buffer twice in a row |
| `siblings` | edges are stitched over each nested pipeline | only the first innermost pipeline of a stage gets edges |
| `retile` | a linearized index is the weighted sum of its loop variables | a tile loop that is tiled again gets the tile size as its stride, whatever stride it had |

`MCPasses` names further families on which a property fails and which the passing run leaves
out; a configuration with `Families <- Name` and the property as invariant shows each of them
(for `Overtaking`, one of `MCSlotOrder` with `Inputs <- Overtaking`, for `SplitRoutes`, one of
`MCRouting` with `Pipelines <- SplitRoutes`):

| Family | Property | What happens |
| --- | --- | --- |
| `Beside` | `SameResults` | a loop beside the pipeline counts as part of a perfect nest and is dropped with the old loops |
| `Feeding` | `NoStall` | a folded relay waits for a stage that reads the relay's own FIFO |
| `SharedToken` | `TokenOrderKept` | a token that two stages put out is dropped when one of them is folded |
| `Overtaking` | `BlocksKept` | a read that stores to memory moves past an operation that reads it |
| `Squares` | `SameResults` | chunking a reduction clones the whole body: squares are taken of partial sums |
| `Overtaken` | `SameResults` | loads of a group are cloned in front of all of the group's stores, also the one of a load that reads what an earlier store of the group wrote |
| `NestedReuse` | `SameResults` | a transfer indexed by a loop of the outer stage is promoted out of the inner pipeline's loops |
| `Written` | `SameResults` | storage filled from a memory that the loop writes is hoisted as constant |
| `Pairs` | `SameResults` | all accumulators of a reduction get the neutral element of the last one |
| `PerCore` | `SameResults` | one address buffer serves cores whose addresses differ |
| `Displaced` | `SameResults` | a tile that does not start at zero is cut into a loop, and its subscript is replaced by the loop's variable or by zero |
| `Crossed` | `SameResults` | index subscripts in another order than the dimensions of the tile they are cut by |
| `Transposed` | `SameResults` | a generic that transposes the gathered tile: the direct tile is pinned in the dimension of the indirect one |
| `Otherwise` | `FlowsKept` | a fill in the *else* region of a guard is staged under the guard itself |
| `Unordered` | `FlowsKept` | the staging stage stands in front of the one that fills the buffer, but no token orders the two |
| `Strided` | `DataFits` | the view of an address buffer has the strides of the indices and ends behind the buffer |
| `SplitRoutes` | `SlotsKeepOrder` | two slots of one allocation take different routes; each is the first slot of a FIFO of its own, which the assertion of `validateFifoSlotIndex` (`Planner.cpp:75`) rejects |

Most of them no statement of the documentation speaks of (`Squares` is what
`test/Transforms/SplitReductionInnerOuterDim/two_accumulators.mlir:7` says the split of a reduction
avoids; `Overtaken` goes against `ComputeGroupExtraction.cpp:74`; `SplitRoutes` against an
assertion), and some need programs that the passes before may not produce; they are bounds of what
the passing run claims.

Some hazards `PROJECT.json` lists are met only in part by the run of the property they name, and
say so there: no schedule has a reader that no token orders after the writer of a double buffer
(`DoubleBuffering.cpp:239`); no stage sends more items in one iteration than its FIFO holds, so
units of the schedules never wait in a circle (`DataflowRuntime`'s FIFO guard is the code's, the
schedules do not close one); no unit of an inner stage is missing in the stage around it
(`ProgramUnitBuilder.cpp:55`); sums wrap with `Word = 16` and `Inputs <- MCHugeInputs` and
failures are lost with `CountsFailures = FALSE` only, neither of which the `addresses` run has.

Where a comment and the code differ in a way that no property depends on, the model follows the
code: the guard of a back-edge signal is that some loop is not at its first (last) iteration, an
`OrIOp` in the code, where the comments at `SignalInsertion.cpp:121-122` and `:146-147` write `&&`.

### Bounds

- `FifoDepth` is 2 instead of the 16 of the device description, so that a FIFO is full when a
  producer is two items ahead. Deeper FIFOs let units drift further apart, but not past what the
  certificate orders, which does not depend on the depth, and a schedule that never gets stuck
  with two entries does not with more (theorem `DeeperFifos`).
- Trip counts are 2 or 3: the guards and the phase tell first, middle and last iterations and
  odd from even ones apart. `MultiLoop` needs three iterations of the middle loop to show its
  drift, and the `restart` schedule an odd inner trip count. What a run with more iterations could
  show is covered by `ShapesOrdered` and the theorems: 1 to 6 rows, 1 to 3 by 1 to 3 tiles, tiles
  in three loops, 1 to 4 iterations of the reduction and up to 3 by 2 by 3 of `MultiLoop` are
  certified, so that every one of their interleavings is as promised without being explored.
- Two corelets are what the device has; two cores are the least that can be confused.
- The alphabet of allocations has an element size that is no divisor of the alignment, one
  buffer that fits once only, and one per memory that fits always.
- `Word` is 64, above all sums of `addresses`: nothing wraps there, which is the assumption
  `NoWrap` of the proofs. With `Word = 16` and `Inputs <- MCHugeInputs` the end address wraps
  around and `WithinCapacity` fails (`MemoryTracker.cpp:73`).
- The programs of `passes` and `slots` are those of the tests of each pass, shrunk to trip counts of 2 to 5
  (a size that tiles and instances divide, and one that they do not), combined with each other,
  and extended by the rejections of each pass. Three slots are the least that a permutation of
  a FIFO can get wrong in a cycle; two relays between the same stages the least that can be
  folded in two orders; three stages and tokens the least cycle that no pair of stages shows.
- `LoopNestDepth` and `KMaxLoopNestDepth` are 2 instead of the code's limits, so that nests of
  three loops exceed them; `KMaxCandidateTileSize` is 2.
- The functions of `indirect` have one to three dimensions of addresses and one to three others,
  all of size 1 to 3, address buffers of two entries, transfers of at least two elements, and
  vectors of 8 lanes or of an unknown number (which counts as one), so that windows and entries
  are cut with and without a rest, and direct dimensions are kept and looped.
- The devices of `routing` and of the fills are those of the tests.

### Fairness

`DataflowRuntime` assumes weak fairness of its whole next-state relation: the device as a whole
does not stop as long as a unit can act. Every step takes a unit further, so nothing stronger is
needed, and the hardware gives more (each unit runs on its own). `MCPasses` assumes weak
fairness of `Coarsens` only, for `Ends`: a pass is a loop that runs. `Handshake` assumes weak
fairness per unit, for the same reason. The compiler passes are sequential code that does
not wait; `AddressAssignment` has weak fairness of `Next`, but no property uses it.

### Assumptions of the schedules

- a leaf stage runs on one unit type; an iteration of it has a begin and an end, and its
  inner loops lie between them;
- loops have at least one iteration (zero trip counts are folded away before);
- memories belong to a core, and cores do not share any but global memory, where each
  core works on its own part;
- single buffers inside a loop are used only where tokens and FIFOs bound the distance.

## Proofs

TLAPS proves the following for every value of the constants.

`Handshake_proofs`. From `CountAssumption`, `PeerTypeAssumption` and `PeerSymmetryAssumption`
(no unit is its own peer and peers are mutual, which `SignalsInOrder` asks of a schedule that
orders itself and run `cores` refutes for several cores):
`HandshakeInvariant`, `TokensMatch`, `SignalsAreRendezvous`, `NoDeadlock`, and `ChannelsDrain`,
which no run checks: no token is left when all units are done.
The invariant is `HandshakeInv`: types; a unit receives only after it has sent to all peers
(`Progress`); the tokens in a channel are exactly the signals sent and not received (`InFlight`);
and nothing is received that was not sent for that signal (`Causal`). `Rendezvous` alone is not
inductive: that a token belongs to the signal at which it is taken needs `InFlight`, and that it
is the oldest one needs the order in which *both* units meet their common signals. `NoDeadlock`
follows by taking a unit at the least signal number: its peers are there too or beyond, so
whatever it waits for has been sent or can be sent.

`DataflowRuntime_proofs`. Here the constants are the compiled schedules, whatever they are, and
the depth of the FIFOs (`FifoDepthAssumption`). The theorems have the form

    Spec /\ SelfOrdered(Machine) => []P          SelfOrdered(m) == \E c : OrderedBy(m, c)

where `Machine` is the schedule that was launched. The hypothesis is about data the compiler
produced, not about the run; `CheckedAtLaunch` proves it from `SchedulesOrdered`, which run
`device` checks of four schedules and `ShapesOrdered` of thirty-one more, and
`CheckedSchedulesRun` puts the two together. It is not a theorem that `Compile` always yields
such schedules: it does not (`cores`, `long_backedge` and `restart` launch schedules that have
no certificate).

| Theorem | Says, for all launches of such a schedule |
| --- | --- |
| `LaunchInv` | the invariant below |
| `TypeCorrect` | `TypeOK`, which includes that no FIFO exceeds its depth |
| `SequentialResults` | `ReadsMatchSequential`: whatever the interleaving, each stage iteration gets what it gets in the sequential execution |
| `RaceFree` | `NoRace` |
| `LeavesNothing` | `NothingLeft` |
| `NoDeadlock` | `SomeUnitCanStep`, if the schedule is also `SelfPaced` for `FifoDepth`: until all units are done, the guards of some unit's step hold |
| `DeeperFifos` | what is `SelfPaced` with some depth is so with any greater one |

None of the properties is inductive. `DataflowInvariant!DataflowInv` relates the state to the
certificate: a unit that has come to its `i`-th operation finds the others at least where its
clock says (`ClocksHold`); a FIFO holds the part of its stream that was put and not taken
(`StreamsHold`); a memory location holds the data of a writer that is done and that no other
done writer follows (`MemoryHolds`); tokens from one unit to another are, in order, the signals
sent and not received (`SignalsHold`); and `ReadsMatchSequential` itself, because what a unit has
taken is in its registers. The argument of each step:

- `BeginStage`: the items it takes are the next ones of the stream, and the last of them brings
  the clock of the iteration that put it, so `ClocksHold` survives; the writer of each location
  it reads is done by that clock, every other writer is before it or has not begun, hence the
  memory holds what the sequential execution reads.
- `EndStage`: every writer of the same location is ordered with this one. A later one that were
  done would know, by its clock, that this iteration has ended, which it has not; so this is
  the last one done.
- `SyncRecv`: the oldest token from a peer is that of the signal the unit is at, since both meet
  their common signals in the same order (`OwnTokenFirst`), and tells that the peer came this far.
- `RaceFree`: of two conflicting iterations that are both going on, one would know that the other
  is over.
- `LeavesNothing`: at the end both ends of a FIFO have gone through its whole stream, and each
  signal sent was received.
- `NoDeadlock`: of the units that are not done, the one whose operation has the least rank can
  act (`FirstCanBegin`, `FirstCanEnd`, `FirstCanSignal`): whom it waits for would be at an
  operation of a lower rank, except for a peer at the same signal that has not sent yet, which
  then can.

The last part is `RefinesHandshake`: with `SelfOrdered(Machine)`, `ImplementsHandshake`.
Initial states map to initial states (`InitMaps`); `BeginStage` and `EndStage` leave the mapped
state alone, because a stage does not change which signal comes next (`StageStutters`);
`SyncSend`, `SyncRecv` and `Proceed` are the steps of `Handshake` of those names and `Advance`
(`SendMaps`, `RecvMaps`, `ProceedMaps`). The abstract channel is a set and the device's a queue:
that the queue has no duplicates, and that its head is the token of the receiver's own signal,
is where the inductive invariant is needed.

`StageAnalysis_proofs`. From `SchedulesAssumption` (every schedule is `WellFormed`: nodes are
numbered in pre-order, a stage's parent is a pipeline, it has finitely many operands): for any
schedules,

| Theorem | Says |
| --- | --- |
| `StageInvariant` | the invariant below |
| `RejectedForCycles` | `CyclesRejected`: a pipeline is rejected only if a stage of it waits for itself over others, and none that passes has such a stage |
| `SortedByTokens` | `SortRespectsTokens`: the sort never fails, and lists each stage once and behind those it waits for |
| `DAGIsBuilt` | `BuildsDAG`: the analysis fails for exactly the schedules for which `BuildGlobalStageDAG` does, and comes to its edges |

The invariant is `StageInv`. Of the search: the stack is a path and holds exactly the gray stages
(`StackIsPath`); all that a gray stage has looked at is black, except the stage above it
(`LookedAt`); black stages lead to black ones, and every nonempty set of them has a member that
waits for no other in the set (`BlackAcyclic`). The last part is what makes it inductive: a stage
that turns black has only black successors, so it is itself such a member of every set that
meets its predecessors only from outside. When the search is over, all stages are black, so there is no cycle; when
it meets a gray stage, the part of the stack above that stage is one (`FoundCycle`). Of the two
rounds: what has passed is free of cycles, and `dag` is the union of what was stitched
(`PassedInv`), so the second round rejects nothing. Of the sort: `degree` counts the tokens from
stages that are not yet put out, and is 0 for those put out or queued (`SortInv`). Were stages left
when the queue is empty, each of them would wait for another one of them: a cycle, which the
search has excluded.

`GlobalOrder_proofs`. From the same assumption: `DAGOrderIsJustified` (`NoOrderAdded`) and
`DAGOrderIsComplete` (`OrderSurvivesNesting`), for any depth of nesting. The tree comes first:
`Ancestors` is a recursive function, whose existence is proved by `ParentRecursion`, and the
pre-order of nodes makes what is nested in a node an interval behind it (`PreOrder`). Then the
edges: each joins a leaf of the stages inside one stage to a root of those inside another, and
the two stages are ordered by a token (`BoundaryFacts`, `EdgeFacts`). *Justified*: from a leaf
inside stage `a`, edges either stay inside `a` or go on to a stage that `a` precedes, or that a
stage around `a` precedes, and that stays true (`OrderGoesOn`, `NothingAdded`). *Complete*: inside
a stage, every leaf stage is reached from a root and leads to one that nothing inside follows,
because the pipelines have no cycle (`SinkExists`, `ToALeaf`, `FromTheRoots`); those are what is
stitched, so a leaf stage inside `a` is before one inside `b` whenever `a` is before `b`
(`NothingLost`). It is in `FromTheRoots` that a second pipeline beside the first has no edge.

`PathExpansion_proofs`. From `DevicesAssumption` and `PipelinesAssumption`:

| Theorem | Says |
| --- | --- |
| `ShortestPathFound` | in every graph, what `FindShortestPath` returns is a path from source to target, and no shorter one exists |
| `NoPathMissed` | it returns none only if the target is within no number of edges of the source |
| `RoutesAreShortest` | `RoutesShortest`, through all steps of the planning |
| `StagesAwaitEarlierOnes` | `StagesWaitBackwards`: the tokens a stage of the result waits for are those of stages placed before it |

The search is a fold over the queue. Its invariant, `Searched`, says that the queue holds paths
from the source, one for each node (`PathsFrom`), in the order of their lengths and at most one
longer than the path that is followed (`ByLength`), and that what has been followed is in the
queue (`Followed`). From it, every node within `m` edges is last of a path of at most `m + 1`
nodes (`NearSeen`); this is where shortest comes from. `NoPathMissed` counts: paths end in
different nodes, so the queue never has more than there are nodes, and the search, which follows
that many, ends with all of it followed (`QueueFits`). In the planner, routes stay
what `FindFlows` made them, as the other steps change only carriers, chains and bounds of a flow
(`RoutesFound`). For the order, each `PlaceStage` takes a stage whose predecessors are placed
(`OrderInv`), and what stands behind a stage in the list it never waits for; materialization keeps
the order and the tokens.

`SlotOrder_proofs`. From `InputsAssumption` (every program is `WellFormed`: an operation is in one
block and once, none takes one slot and puts another, and, where assertions are compiled out,
one that takes a slot uses no value of its block): `SlotsStayInStep`, that is `SlotsInStep`, for any
number of blocks, slots and FIFOs and whatever else is in the blocks. The code's claim is "applying one permutation
to both keeps them in step", which leaves open what the permutation does to the slots of *other*
FIFOs in the same blocks, and that both sides are really moved. The invariant `SlotInv` says
that the blocks keep their operations (`Permuted`), that the FIFOs to come and those in order are
different ones of the program, that each of those in order has one writing and one reading
block, and `SlotsInStep`. The argument:

- the ranks `StableSort` counts are a permutation, and the numbers come out in the order of their
  keys (`StableSortSorts`): an injection of a finite set into one of the same size is onto. So
  `MoveIntoOrder` keeps a list's members, makes the moved ones follow one another in the order
  asked for, and leaves the others as they stood to each other (`MovedIntoOrder`);
- writers and readers of the slots of a FIFO are listed in one order, that of `Consumed`
  (`SidesAre`), so the slots of the FIFO are in step afterwards (`OwnSlotsInStep`) if *both* lists
  move. The writes do, by the guard. The code asserts that the reads do: they always do
  (`ReadsAlwaysMove`, "the reads always move"), because a read that is listed as using no value of its block can stand
  anywhere, and where assertions check that, a program that fails them is aborted;
- the guard `HasKnownProtocol` looks at all operations that take a slot with the same ends, so no
  slot of another FIFO of this channel has both its accesses known (`OwnChannel`), and slots of
  other channels are accessed by operations that are not moved (`OthersUnmoved`).

`Induction` has the facts that stand in for induction, since the prover cannot instantiate the
library's rules: nonempty sets of numbers have a least and a greatest element
(`LeastNatural`, `GreatestNatural`, `UpTo`), finite sets have minimal members (`LeastSubset`), and the
functions defined by recursion over numbers exist (`StepRecursion`, `ParentRecursion`). They are
proved from the library's theorem that strict inclusion of finite sets is well-founded. An invariant of a fold is
then proved by looking at the least number of steps at which it fails.

`AddressAssignment_proofs`. From `MemoryAssumption`, `InputAssumption` and, for all but the last
theorem, `NoWrap` (no sum of a capacity, an alignment and a size exceeds `size_t`):
`AddressInvariant`, `BuffersDisjoint`, `BuffersWithinCapacity`, `OffsetsExact`, and from
`CountsFailures` (the build keeps statistics) `SuccessMeansPlaced`.
`NoOverlap` is not inductive: `Behind` adds that every live buffer ends before the free part of
its memory, and `PlacedBefore` that the buffers of a scope belong to it or to an earlier one, so
that the reset of a memory is seen to end the life of all buffers in it except the global ones.
`SuccessMeansPlaced` rests on `Accounted`: as long as no failure is counted, every allocation
behind the current position has an address. The lemmas on least common multiples and rounding
are proved from the definition of `%`.

Only model-checked:

- `Termination`, and `Ends` of `passes`: TLAPS has no ENABLED, so weak fairness cannot be used. The safety half
  of termination, that no state before the end is stuck, is `NoDeadlock`.
- that `Compile` yields schedules that order themselves: the compiler model iterates over
  schedules with recursive functions and folds, and what these compute for every input needs
  induction over data. It is evaluated, schedule by schedule (`SchedulesOrdered`, `ShapesOrdered`).
- the other properties of path expansion (`OverDatapaths`, `DataArrives`, `TokensFollowData`,
  `SlotsKeepOrder`): hops, FIFOs and carriers are made by nested folds over the flows whose state
  is the whole plan, and each property relates operations that different flows have left in it;
- `BlocksKept`: it evaluates blocks by folds, and what a moved operation may pass would have to be
  carried through the evaluation;
- the properties of the passes of `MCPasses`: they compare what two programs compute, which is
  defined by recursion over the program (the modules use RECURSIVE operators and interpreters,
  and the prover has no induction over data).

## Not modelled

The components listed as `not_modelled` in `PROJECT.json`, each with its reason there: rewrites
of single operations without control state (linalg, granularity, splats, bufferization),
packaging and drivers, and passes whose effect is decided by code that is not in this repository
(`KTIRPipeline` builds its pipelines with `PipelineBuilder`, `MaterializeRegisters` rests on the
lane semantics of dialect operations, `ApplyDevicePatterns` runs patterns of the device
description). Of the modelled passes: layouts of memory views and vector shapes, the uniform maps
as data structures (they are modelled by the units they resolve to), affine maps beyond the forms
the passes tell apart, and diagnostics.

Of indirect accesses, not modelled are: a generic that reads a second operand beside the gathered
one; an order of tile variables that is not its own inverse; a captured zero as the first
subscript of the index, for which the position of the first address variable, counted from the
captured ones, is negative in an unsigned integer; and of `KTIRBufferize` all but the conditions
of `deriveIndirectOpInfo`. `include/dataflow-scheduler/Transforms/Passes.td` calls the loops over
windows parallel; the code leaves them sequential, because windows share the buffer, and so does
the model. Fills inside a pipeline that is nested in a stage are met twice by the walk of
`IndirectAddrBufFillLegalization`; it runs before pipelines are nested.

## Plan

1. Path expansion: routes and the order of stages are proved; what is left are theorems about
   one step of the folds (a hop added, an end adapted), and with them `OverDatapaths` and
   `SlotsKeepOrder`.
2. The frontend's construction of pipelines, as far as its sources are here.
3. Schedules that the optimization passes leave behind (pipelines beside loops, chunked
   reductions) as inputs of `Compile`, so that the device runs them.
