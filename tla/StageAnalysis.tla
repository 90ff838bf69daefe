---------------------------- MODULE StageAnalysis ----------------------------
(* The stage dependencies as KTDFToKTDFLow.cpp works them out: step 6 builds *)
(* the global DAG pipeline by pipeline (buildGlobalStageDAG), then steps 9   *)
(* and 10 analyze each pipeline again and sort its stages.  The operators of *)
(* GlobalStageDAG tell the results; here is the depth-first search that      *)
(* looks for cycles and Kahn's algorithm with its counters and its queue.    *)
EXTENDS GlobalStageDAG

CONSTANT Schedules    \* the schedules to analyze

(* Nodes are numbered in a pre-order walk: a node is nested in the one in    *)
(* front of it, or in what that one is nested in.  The parent of a stage is  *)
(* a pipeline (KTIRPipeline.cpp:150 and others cast it to one), and a stage  *)
(* has finitely many operands.                                               *)
WellFormed(s) ==
  /\ Len(s) \in Nat
  /\ \A n \in Nodes(s) :
       /\ s[n].parent \in 0..(n - 1)
       /\ n > 1 => s[n].parent \in {0, n - 1} \cup Ancestors(s, n - 1)
  /\ \A n \in Stages(s) : s[n].parent \in Pipelines(s) /\ IsFiniteSet(s[n].din)
ASSUME SchedulesAssumption == \A s \in Schedules : WellFormed(s)

VARIABLES
  schedule,           \* the function body
  round,              \* "build": step 6; "sort": steps 9 and 10
  phase,              \* "next" pipeline, "search", "sort", or how it ended
  todo,               \* the pipelines the round has not come to
  pipeline,           \* the one at hand
  local,              \* its token edges
  color, stack, left, \* the search: the stages that are entered and not left,
                      \* and the successors a stage has still to look at
  dag,                \* the edges of the global DAG
  degree, queue,      \* the sort: unanswered tokens, stages that are ready
  order               \* the stages of each pipeline as sorted so far

searched == <<color, stack, left>>
sorting == <<degree, queue, order>>
vars == <<schedule, round, phase, todo, pipeline, local, searched, dag, sorting>>

Direct(p) == DirectStages(schedule, p)
Local(p) == TokenEdges(schedule, Direct(p))
White == {n \in Direct(pipeline) : color[n] = "white"}
Top == stack[Len(stack)]

Init ==
  /\ schedule \in Schedules
  /\ round = "build" /\ phase = "next"
  /\ todo = Pipelines(schedule)
  /\ pipeline = 0 /\ local = {} /\ dag = {}
  /\ color = <<>> /\ stack = <<>> /\ left = <<>>
  /\ degree = <<>> /\ queue = <<>>
  /\ order = [p \in Pipelines(schedule) |-> <<>>]

(* The walk of the pipelines is post-order and reversed: q comes after p     *)
(* when it is nested in p, or is in front of p and not around it.            *)
ComesAfter(q, p) ==
  \/ p \in Ancestors(schedule, q)
  \/ q < p /\ q \notin Ancestors(schedule, p)

(* The next pipeline, and its token edges.  (A pipeline without a stage is   *)
(* skipped in the code; here its analysis comes to nothing.)                 *)
NextPipeline ==
  /\ phase = "next" /\ phase' = "search"
  /\ \E p \in todo :
       /\ \A q \in todo \ {p} : ComesAfter(q, p)
       /\ pipeline' = p /\ todo' = todo \ {p}
       /\ local' = Local(p)
       /\ color' = [n \in Direct(p) |-> "white"]
       /\ left' = [n \in Direct(p) |-> Successors(Local(p), n)]
  /\ UNCHANGED <<schedule, round, stack, dag, sorting>>

(* The search enters a stage. *)
Enter(n) == color' = [color EXCEPT ![n] = "gray"] /\ stack' = Append(stack, n)

(* It begins at each stage, in textual order, that it has not met. *)
BeginSearch ==
  /\ phase = "search" /\ stack = <<>>
  /\ \E n \in White : (\A m \in White : n <= m) /\ Enter(n)
  /\ UNCHANGED <<schedule, round, phase, todo, pipeline, local, left, dag, sorting>>

(* The stage on top looks at its next successor: one that is being visited   *)
(* closes a cycle, one that is not met is visited first.                     *)
Look ==
  /\ phase = "search" /\ stack # <<>>
  /\ \E m \in left[Top] :
       /\ \A k \in left[Top] : m <= k
       /\ left' = [left EXCEPT ![Top] = @ \ {m}]
       /\ \/ color[m] = "gray" /\ phase' = "cyclic" /\ UNCHANGED <<color, stack>>
          \/ color[m] = "white" /\ Enter(m) /\ UNCHANGED phase
          \/ color[m] = "black" /\ UNCHANGED <<color, stack, phase>>
  /\ UNCHANGED <<schedule, round, todo, pipeline, local, dag, sorting>>

Leave ==
  /\ color' = [color EXCEPT ![Top] = "black"] /\ stack' = Front(stack)
  /\ UNCHANGED <<schedule, round, phase, todo, pipeline, local, left, dag, sorting>>

(* A slip: a stage is left after the first successor that was visited.       *)
RetreatEarly ==
  /\ phase = "search" /\ stack # <<>>
  /\ left[Top] = {} \/ left[Top] # Successors(local, Top)
  /\ Leave

(* All successors are visited. *)
Retreat == phase = "search" /\ stack # <<>> /\ left[Top] = {} /\ Leave

Accepted == phase = "search" /\ stack = <<>> /\ White = {}

(* A slip: the edges replace those of the pipelines before. *)
StitchOnly ==
  /\ Accepted /\ round = "build"
  /\ dag' = Stitched(schedule, local)
  /\ phase' = "next"
  /\ UNCHANGED <<schedule, round, todo, pipeline, local, searched, sorting>>

(* The pipeline is accepted: its edges become part of the global DAG, ...    *)
Stitch ==
  /\ Accepted /\ round = "build"
  /\ dag' = dag \cup Stitched(schedule, local)
  /\ phase' = "next"
  /\ UNCHANGED <<schedule, round, todo, pipeline, local, searched, sorting>>

(* The tokens n waits for from some of the stages. *)
OpenTokens(s, stages, from, n) == UNION {TokensFrom(s, stages, p, n) : p \in from}

(* The tokens of a stage that have a producer; a slip counts the producers.  *)
AwaitedProducers(n) == Predecessors(local, n)
Awaited(n) == OpenTokens(schedule, Direct(pipeline), Direct(pipeline), n)

(* ... or, the second time, its stages are sorted: those that wait for no    *)
(* token are ready.                                                          *)
StartSort ==
  /\ Accepted /\ round = "sort"
  /\ degree' = [n \in Direct(pipeline) |-> Cardinality(Awaited(n))]
  /\ queue' = Ordered({n \in Direct(pipeline) : degree'[n] = 0}, Len(schedule))
  /\ phase' = "sort"
  /\ UNCHANGED <<schedule, round, todo, pipeline, local, searched, dag, order>>

(* The first ready stage is put out; its successors wait for one token less  *)
(* for each one it produces.                                                 *)
Emit ==
  /\ phase = "sort" /\ queue # <<>>
  /\ order' = [order EXCEPT ![pipeline] = Append(@, Head(queue))]
  /\ degree' = [n \in Direct(pipeline) |->
                  degree[n] - Cardinality(TokensFrom(schedule, Direct(pipeline), Head(queue), n))]
  /\ queue' = Tail(queue) \o Ordered({n \in Successors(local, Head(queue)) : degree'[n] = 0}, Len(schedule))
  /\ UNCHANGED <<schedule, round, phase, todo, pipeline, local, searched, dag>>

FinishSort ==
  /\ phase = "sort" /\ queue = <<>>
  /\ phase' = IF Len(order[pipeline]) = Cardinality(Direct(pipeline)) THEN "next" ELSE "unsorted"
  /\ UNCHANGED <<schedule, round, todo, pipeline, local, searched, dag, sorting>>

(* All pipelines are done: the pass goes on to sort, or is over. *)
FinishRound ==
  /\ phase = "next" /\ todo = {}
  /\ \/ /\ round = "build" /\ round' = "sort"
        /\ todo' = Pipelines(schedule) /\ UNCHANGED phase
     \/ /\ round = "sort" /\ phase' = "done" /\ UNCHANGED <<round, todo>>
  /\ UNCHANGED <<schedule, pipeline, local, searched, dag, sorting>>

Ended == phase \in {"cyclic", "unsorted", "done"} /\ UNCHANGED vars

Next ==
  \/ NextPipeline \/ BeginSearch \/ Look \/ Retreat \/ Stitch
  \/ StartSort \/ Emit \/ FinishSort \/ FinishRound \/ Ended

Spec == Init /\ [][Next]_vars

------------------------------------------------------------------------------
(* y is reached from x: it is in every set that has the successors of x and  *)
(* those of its own members.                                                 *)
Reaches(edges, nodes, x, y) ==
  \A C \in SUBSET nodes :
    (/\ Successors(edges, x) \subseteq C
     /\ \A n \in C : Successors(edges, n) \subseteq C) => y \in C

OrderedBy(edges, nodes) == {o \in nodes \X nodes : Reaches(edges, nodes, o[1], o[2])}

(* The pipelines the round is through with. *)
Passed == (Pipelines(schedule) \ todo) \ (IF phase \in {"next", "done"} THEN {} ELSE {pipeline})

(* A pipeline is rejected when one of its stages waits, over other stages,   *)
(* for itself (analyzeStageDependencies: "Circular token dependency"), and   *)
(* it passes when none does; one that has passed is not rejected later.      *)
CyclesRejected ==
  /\ phase = "cyclic" => /\ round = "build"
                         /\ \E n \in Direct(pipeline) : Reaches(local, Direct(pipeline), n, n)
  /\ \A p \in IF round = "build" THEN Passed ELSE Pipelines(schedule) :
       \A n \in Direct(p) : ~Reaches(Local(p), Direct(p), n, n)

(* topologicalSortStages always succeeds, and puts out every stage of a      *)
(* pipeline once and after all stages it waits for.                          *)
SortRespectsTokens ==
  /\ phase # "unsorted"
  /\ round = "sort" => \A p \in Passed :
       /\ IsInjective(order[p]) /\ Range(order[p]) = Direct(p)
       /\ \A i, j \in DOMAIN order[p] : <<order[p][i], order[p][j]>> \in Local(p) => i < j

(* The inductive invariant: the kinds of the variables, ...                  *)
TypeOK ==
  /\ WellFormed(schedule)
  /\ round \in {"build", "sort"}
  /\ phase \in {"next", "search", "sort", "cyclic", "unsorted", "done"}
  /\ todo \subseteq Pipelines(schedule)
  /\ order \in [Pipelines(schedule) -> Seq(Stages(schedule))]
  /\ phase \notin {"search", "cyclic"} => stack = <<>>
  /\ phase = "sort" => round = "sort" /\ queue \in Seq(Direct(pipeline))
  /\ phase = "done" => round = "sort"
  /\ phase \in {"search", "sort", "cyclic"} =>
       pipeline \in Pipelines(schedule) \ todo /\ local = Local(pipeline)
  /\ phase \in {"search", "cyclic"} =>
       /\ color \in [Direct(pipeline) -> {"white", "gray", "black"}]
       /\ left \in [Direct(pipeline) -> SUBSET Direct(pipeline)]
       /\ stack \in Seq(Direct(pipeline))

(* ... the search: the stack is a path of the gray stages; ...               *)
StackIsPath ==
  /\ IsInjective(stack)
  /\ \A n \in Direct(pipeline) : color[n] = "gray" <=> n \in Range(stack)
  /\ \A i \in 1..(Len(stack) - 1) : <<stack[i], stack[i + 1]>> \in local

(* ... what a gray stage has looked at is black, except for the stage above  *)
(* it, and unless it closes a cycle; ...                                     *)
Black == {n \in Direct(pipeline) : color[n] = "black"}
LookedAt ==
  /\ \A n \in Direct(pipeline) : left[n] \subseteq Successors(local, n)
  /\ \A n \in White : left[n] = Successors(local, n)
  /\ phase = "search" =>
       \A i \in 1..Len(stack) : \A m \in Successors(local, stack[i]) \ left[stack[i]] :
         m \in Black \/ (i < Len(stack) /\ m = stack[i + 1])
  /\ phase = "cyclic" => stack # <<>> /\ \E i \in 1..Len(stack) : <<Top, stack[i]>> \in local

(* ... black stages lead to black ones, and there is no cycle among them;    *)
BlackAcyclic ==
  /\ \A n \in Black : Successors(local, n) \subseteq Black
  /\ \A c \in (SUBSET Black) \ {{}} : \E n \in c : Predecessors(local, n) \cap c = {}

SearchInv == phase \in {"search", "cyclic"} => StackIsPath /\ LookedAt /\ BlackAcyclic

(* ... the pipelines that have passed are free of cycles, and their edges    *)
(* are in the DAG; ...                                                       *)
Analyzed == IF round = "build" THEN Passed ELSE Pipelines(schedule)
PassedInv ==
  /\ \A p \in Analyzed : ~HasCycle(Local(p), Direct(p))
  /\ dag = UNION {Stitched(schedule, Local(p)) : p \in Analyzed}
  /\ round = "sort" => phase # "cyclic"

(* ... and the sort: a stage that is put out stands behind the stages it     *)
(* waits for, and degree counts the tokens of the others, so that the stages *)
(* put out or in the queue are those it is 0 for.                            *)
InOrder(p) ==
  /\ IsInjective(order[p])
  /\ \A j \in DOMAIN order[p] : \A n \in Predecessors(Local(p), order[p][j]) :
       \E i \in 1..(j - 1) : order[p][i] = n
SortInv ==
  /\ \A p \in Pipelines(schedule) :
       \/ order[p] = <<>> /\ (round = "build" \/ p \notin Passed)
       \/ round = "sort" /\ p \in Passed /\ InOrder(p) /\ Range(order[p]) = Direct(p)
       \/ phase = "sort" /\ p = pipeline
  /\ phase = "sort" =>
       LET out == order[pipeline]
       IN  /\ InOrder(pipeline) /\ Range(out) \subseteq Direct(pipeline)
           /\ IsInjective(queue)
           /\ Range(queue) \cap Range(out) = {}
           /\ \A n \in Direct(pipeline) :
                /\ degree[n] = Cardinality(OpenTokens(schedule, Direct(pipeline),
                                                      Direct(pipeline) \ Range(out), n))
                /\ degree[n] = 0 <=> n \in Range(out) \cup Range(queue)
           /\ degree \in [Direct(pipeline) -> Nat]
  /\ phase # "unsorted"

StageInv == TypeOK /\ SearchInv /\ PassedInv /\ SortInv

(* Run to its end, buildGlobalStageDAG succeeds exactly when the operator    *)
(* BuildGlobalStageDAG does, and with its edges: signals are inserted by the *)
(* edges that are found here.                                                *)
BuildsDAG ==
  \A result \in {BuildGlobalStageDAG(schedule)} :
    /\ phase = "cyclic" => ~result.ok
    /\ round = "sort" => result.ok /\ dag = result.edges

(* The global DAG orders two leaf stages exactly when they are inside (or    *)
(* are) two stages of one pipeline the first of which precedes the second by *)
(* tokens: an order no signal can be derived from is lost to the units.      *)
LeavesIn(n) == ({n} \cup Within(schedule, n)) \cap LeafStages(schedule)
GlobalOrder == OrderedBy(dag, LeafStages(schedule))
TokenOrder ==
  UNION {LeavesIn(o[1]) \X LeavesIn(o[2]) :
           o \in UNION {OrderedBy(Local(p), Direct(p)) : p \in Pipelines(schedule)}}

GlobalOrderIsTokenOrder == phase = "done" => GlobalOrder = TokenOrder

(* No order that the tokens do not ask for, whatever is nested in what.      *)
NoOrderAdded == phase = "done" => GlobalOrder \subseteq TokenOrder

(* The schedules whose order is not lost: a stage holds at most one pipeline *)
(* and no pipeline is empty, so that all stages inside a stage come behind   *)
(* its roots and before its leaves.                                          *)
SinglyNested(s) ==
  /\ \A n \in Stages(s) : \A p, q \in NestedPipelines(s, n) : p = q
  /\ \A p \in Pipelines(s) : DirectStages(s, p) # {}
OrderSurvivesNesting == SinglyNested(schedule) => GlobalOrderIsTokenOrder
=============================================================================
