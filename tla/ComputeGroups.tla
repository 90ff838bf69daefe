---------------------------- MODULE ComputeGroups ----------------------------
(* The passes that cut a kernel into functions.  ComputeGroupExtraction      *)
(* moves every group of operations, from a load to the store of what is      *)
(* computed from it, to a function; IndirectComputeGroupSplit puts in front  *)
(* of a function that gathers or scatters rows another one, which writes     *)
(* their addresses to a buffer in global memory.                             *)
(*                                                                           *)
(* A function is a list of operations over named values; names are kept when *)
(* operations are cloned.  An access tile is a list of locations.            *)
EXTENDS Integers, Sequences, FiniteSets, TLC, SequencesExt, Steps

CONSTANTS
  Inputs,             \* kernels: see ComputeGroupInputs
  EntryValues         \* the values of an entry of the indirect address buffer

VARIABLES input, phase, program

(* Operations: what is computed (name), its operands (uses), the values its  *)
(* body reads, what it defines; sizes, strides (0: given by an operand) and  *)
(* subscripts; a number.  Loops and generics have a region.                  *)
Op(op, name, uses, def) ==
  [op |-> op, name |-> name, uses |-> uses, reads |-> <<>>, def |-> def, sizes |-> <<>>, strides |-> <<>>,
   subs |-> <<>>, n |-> 0, body |-> <<>>]
Const(n, v) == [Op("const", "", <<>>, v) EXCEPT !.n = n]
Scalar(op, a, b, v) == Op(op, "", <<a, b>>, v)
TileId(v) == Op("tile id", "", <<>>, v)
For(iv, n, body) == [Op("for", iv, <<>>, "") EXCEPT !.n = n, !.body = body]
View(memory, bytes, operands, sizes, strides, v) ==
  [Op("view", memory, operands, v) EXCEPT !.n = bytes, !.sizes = sizes, !.strides = strides]
Tile(view, indices, sizes, v) == [Op("tile", "", <<view>> \o indices, v) EXCEPT !.sizes = sizes]
(* Subscripts are sums of captured and intermediate variables; those of      *)
(* dimension n select an index.                                              *)
Indirect(base, index, captured, sizes, subs, dim, v) ==
  [Op("indirect", "", <<base, index>> \o captured, v) EXCEPT !.sizes = sizes, !.subs = subs, !.n = dim]
ThroughBuffer(base, buffer, captured, sizes, subs, positions, dim, v) ==
  [Indirect(base, buffer, captured, sizes, subs, dim, v) EXCEPT !.op = "through buffer", !.strides = positions]
Load(tile, v) == Op("load", "", <<tile>>, v)
Generic(name, operands, v) == Op("generic", name, operands, v)
Elementwise(name, operands, v) == Op("elementwise", name, operands, v)
Store(v, tile) == Op("store", "", <<v, tile>>, "")
Call(name, args) == Op("call", name, args, "")

HasRegion(o) == o.op \in {"for", "generic"}
IsPure(o) == o.op \notin {"for", "load", "store", "call"}
ValuesReadFromAbove(o) == o.uses \o o.reads
RECURSIVE AllOps(_)
AllOps(body) == FlattenSeq([k \in DOMAIN body |-> <<body[k]>> \o AllOps(body[k].body)])
Used(ops) == UNION {ToSet(ValuesReadFromAbove(o)) : o \in ToSet(ops)}
Definers(ops) == [v \in {o.def : o \in ToSet(ops)} \ {""} |-> CHOOSE o \in ToSet(ops) : o.def = v]
Position(list, x) == CHOOSE k \in DOMAIN list : list[k] = x

(* What a value is computed from: block arguments, in the order in which     *)
(* they are met, and operations, which are cloned.                           *)
RECURSIVE CollectArgsUsed(_, _)
CollectArgsUsed(x, v) ==
  IF v \in x.seen THEN x
  ELSE LET y == [x EXCEPT !.seen = @ \cup {v}]
       IN  IF v \notin DOMAIN x.definers THEN [y EXCEPT !.args = Append(@, v)]
           ELSE ForEach(CollectArgsUsed, y, ValuesReadFromAbove(x.definers[v]))
ArgsOf(definers, values) == ForEach(CollectArgsUsed, [definers |-> definers, args |-> <<>>, seen |-> {}], values).args
RECURSIVE MaterializeDependency(_, _)
MaterializeDependency(x, v) ==
  IF v \in x.mapped THEN x
  ELSE LET o == x.definers[v]
           y == ForEach(MaterializeDependency, x, ValuesReadFromAbove(o))
       IN  [y EXCEPT !.body = Append(@, o), !.mapped = @ \cup {v}]
Materialized(definers, args, values) ==
  ForEach(MaterializeDependency, [definers |-> definers, mapped |-> ToSet(args), body |-> <<>>], values)

-----------------------------------------------------------------------------
(* ComputeGroupExtraction.  The access tiles of a store and of the loads     *)
(* that it depends on are in one class.                                      *)
Union(classes, tiles) ==
  {c \in classes : c \cap tiles = {}} \cup {tiles \cup UNION {c \in classes : c \cap tiles # {}}}
RECURSIVE LoadsAbove(_, _)
LoadsAbove(definers, o) ==
  IF o.op = "load" THEN {o}
  ELSE UNION {LoadsAbove(definers, definers[v]) : v \in ToSet(o.uses) \cap DOMAIN definers}
StoresIn(block) == SelectSeq(block, LAMBDA o : o.op = "store")
BuildAccessTileEqClasses(definers, block) ==
  LET UnionAccessTilesFromAncestors(classes, o) ==
        Union(classes, {o.uses[2]} \cup {l.uses[1] : l \in LoadsAbove(definers, o)})
  IN  ForEach(UnionAccessTilesFromAncestors, {}, StoresIn(block))
VerifyComputeOpUses(all, o) ==
  LET users == {u \in ToSet(all) : o.def \in ToSet(u.uses)}
  IN  ~(\E u \in users : u.op = "store") \/ ~(\E u \in users : u.op \in {"generic", "elementwise"})
ClassesFail(all, block) ==
  \/ \E o \in ToSet(block) : o.op \in {"generic", "elementwise"} /\ ~VerifyComputeOpUses(all, o)
  \/ \E o \in ToSet(StoresIn(block)) : ~(LoadsAbove(Definers(all), o) \subseteq ToSet(block))

(* A group ends where the next class begins, or an operation with a region   *)
(* stands behind its store.                                                  *)
None == {}
NoOp == Op("", "", <<>>, "")
NoGroup == [class |-> None, load |-> NoOp, store |-> NoOp, lastIsLoad |-> FALSE]
Complete(g) == g.load # NoOp /\ g.store # NoOp
Saved(x) ==
  [x EXCEPT !.groups = IF Complete(x.group) THEN Append(@, <<x.group.load, x.group.store>>) ELSE @,
            !.visited = @ \cup {x.group.class}]
AtRegion(x) == IF Complete(x.group) THEN [Saved(x) EXCEPT !.group = NoGroup] ELSE x
AtLoad(x, o, classes) ==
  LET class == UNION {c \in classes : o.uses[1] \in c}
      switches == x.group.class \notin {None, class}
      kept == IF switches THEN [Saved(x) EXCEPT !.group = NoGroup] ELSE x
  IN  [kept EXCEPT !.ok = @ /\ class # None /\ class \notin x.visited /\ ~(switches /\ x.group.lastIsLoad),
                   !.group = [@ EXCEPT !.class = class, !.load = IF @ = NoOp THEN o ELSE @, !.lastIsLoad = TRUE]]
AtStore(x, o, classes) ==
  [x EXCEPT !.ok = @ /\ o.uses[2] \in x.group.class, !.group.store = o, !.group.lastIsLoad = FALSE]
ProcessBlockForExtraction(block, classes) ==
  LET At(x, o) == CASE HasRegion(o) -> AtRegion(x)
                    [] o.op = "load" -> AtLoad(x, o, classes)
                    [] o.op = "store" -> AtStore(x, o, classes)
                    [] OTHER -> x
  IN  Saved(ForEach(At, [ok |-> TRUE, groups |-> <<>>, visited |-> {}, group |-> NoGroup], block))

RECURSIVE Blocks(_)
Blocks(body) == FlattenSeq([k \in DOMAIN body |-> IF body[k].op = "for" THEN Blocks(body[k].body) ELSE <<>>]) \o <<body>>
FindGroups ==
  /\ phase = "extract"
  /\ \E all \in {AllOps(program.main)} :
     \E found \in {[k \in DOMAIN Blocks(program.main) |->
                      LET block == Blocks(program.main)[k]
                          classes == BuildAccessTileEqClasses(Definers(all), block)
                      IN  IF classes = {} THEN [ok |-> ~ClassesFail(all, block), groups |-> <<>>]
                          ELSE LET x == ProcessBlockForExtraction(block, classes)
                               IN  [ok |-> x.ok /\ ~ClassesFail(all, block), groups |-> x.groups]]} :
       LET groups == FlattenSeq([k \in DOMAIN found |-> found[k].groups])
       IN  /\ program' = [program EXCEPT !.groups = groups]
           /\ phase' = IF \E k \in DOMAIN found : ~found[k].ok THEN "aborted"
                       ELSE IF groups = <<>> THEN "split" ELSE "groups"
  /\ UNCHANGED input

RECURSIVE BlockWith(_, _)
BlockWith(body, o) ==
  IF o \in ToSet(body) THEN body
  ELSE LET inner == {BlockWith(body[k].body, o) : k \in {j \in DOMAIN body : body[j].op = "for"}} \ {<<>>}
       IN  IF inner = {} THEN <<>> ELSE CHOOSE b \in inner : TRUE
RECURSIVE ReplaceBlock(_, _, _)
ReplaceBlock(body, block, new) ==
  IF body = block THEN new
  ELSE [k \in DOMAIN body |-> IF body[k].op = "for" THEN [body[k] EXCEPT !.body = ReplaceBlock(@, block, new)] ELSE body[k]]

(* The dependencies of all operations of a group are cloned first, in the    *)
(* order in which they are needed, those of the group among them.            *)
GroupBody(definers, args, ops) ==
  LET needed == Materialized(definers, args, FlattenSeq([k \in DOMAIN ops |-> ValuesReadFromAbove(ops[k])]))
  IN  needed.body \o SelectSeq(ops, LAMBDA o : o.def \notin needed.mapped)
ExtractComputeGroup ==
  /\ phase = "groups" /\ program.groups # <<>>
  /\ \E block \in {BlockWith(program.main, program.groups[1][1])} :
     \E definers \in {Definers(AllOps(program.main))} :
       LET first == Position(block, program.groups[1][1])
           last == Position(block, program.groups[1][2])
           ops == SubSeq(block, first, last)
           args == ArgsOf(definers, FlattenSeq([k \in DOMAIN ops |-> ValuesReadFromAbove(ops[k])]))
           name == "local_schedule_" \o ToString(Len(program.modules))
           main == ReplaceBlock(program.main, block,
                                SubSeq(block, 1, first - 1) \o <<Call(name, args)>> \o SubSeq(block, last + 1, Len(block)))
           dangling == \E o \in ToSet(ops) : o.def \in Used(AllOps(main))
       IN  IF dangling THEN phase' = "aborted" /\ UNCHANGED program
           ELSE /\ UNCHANGED phase
                /\ program' = [program EXCEPT !.main = main, !.groups = Tail(@),
                     !.modules = Append(@, [name |-> name, args |-> args, body |-> GroupBody(definers, args, ops)])]
  /\ UNCHANGED input

RECURSIVE Kept(_, _)
Kept(body, used) ==
  [k \in DOMAIN SelectSeq(body, LAMBDA o : ~IsPure(o) \/ o.def \in used) |->
     LET o == SelectSeq(body, LAMBDA p : ~IsPure(p) \/ p.def \in used)[k] IN [o EXCEPT !.body = Kept(@, used)]]
RECURSIVE WithoutDead(_)
WithoutDead(body) == LET kept == Kept(body, Used(AllOps(body))) IN IF kept = body THEN body ELSE WithoutDead(kept)
RunRegionDCE ==
  /\ phase = "groups" /\ program.groups = <<>>
  /\ phase' = "split"
  /\ program' = [program EXCEPT !.main = WithoutDead(@)]
  /\ UNCHANGED input

-----------------------------------------------------------------------------
(* IndirectComputeGroupSplit.                                                *)
FunctionAt(name) == CHOOSE k \in DOMAIN program.modules : program.modules[k].name = name
IndirectIn(f) == SelectSeq(f.body, LAMBDA o : o.op = "indirect")
CallsOf(name) == SelectSeq(AllOps(program.main), LAMBDA o : o.op = "call" /\ o.name = name)
CollectCandidateOps ==
  /\ phase = "split"
  /\ LET candidates == SelectSeq(program.modules, LAMBDA f : IndirectIn(f) # <<>>)
     IN  /\ program' = [program EXCEPT !.groups = [k \in DOMAIN candidates |-> <<candidates[k].name>>]]
         /\ phase' = IF \/ \E f \in ToSet(candidates) : Len(IndirectIn(f)) > 1
                        \/ candidates # <<>> /\ \E f \in ToSet(program.modules) : Len(CallsOf(f.name)) > 1
                     THEN "failed" ELSE IF candidates = <<>> THEN "done" ELSE "candidates"
  /\ UNCHANGED input

(* A subscript into the buffer names one variable; captured zeros add        *)
(* nothing to it.                                                            *)
Chosen(by) == {p \in DOMAIN by : by[p] # 0}
ResolveSubscriptPosition(subscript, zeros) ==
  LET live == Chosen(subscript.by) \ zeros
  IN  IF subscript.plus # 0 THEN 0
      ELSE IF \E p \in live : live = {p} /\ subscript.by[p] = 1 THEN CHOOSE p \in live : TRUE
      ELSE IF live = {} /\ Chosen(subscript.by) # {}
           THEN CHOOSE p \in Chosen(subscript.by) : \A q \in Chosen(subscript.by) : p <= q
      ELSE 0
IsConst(definers, v) == v \in DOMAIN definers /\ definers[v].op = "const"
Captured(o) == SubSeq(o.uses, 3, Len(o.uses))
DeriveIndAddrBufDimPositions(definers, o) ==
  LET zeros == {p \in DOMAIN Captured(o) : IsConst(definers, Captured(o)[p]) /\ definers[Captured(o)[p]].n = 0}
  IN  [r \in DOMAIN o.subs[o.n] |-> ResolveSubscriptPosition(o.subs[o.n][r], zeros)]

(* The word in which the unit that transfers the rows counts addresses.      *)
WordSizes(f, o) ==
  LET needed == {u.op : u \in {p \in ToSet(f.body) : o.def \in ToSet(p.uses)}} \cap {"load", "store"}
  IN  {input.words[unit] : unit \in needed}
EntryBytes == 4
Dynamic == 0
Analyzed(f) ==
  LET definers == Definers(f.body)
      o == IndirectIn(f)[1]
      base == definers[o.uses[1]]
      isDynamic == base.strides[o.n] = Dynamic
      stride == IF isDynamic THEN base.uses[2] ELSE ""
  IN  [op |-> o, base |-> base, index |-> definers[o.uses[2]], definers |-> definers,
       stride |-> stride, words |-> WordSizes(f, o), positions |-> DeriveIndAddrBufDimPositions(definers, o),
       constants |-> (IF isDynamic THEN {} ELSE {base.strides[o.n]})
                       \cup {definers[v].n : v \in {w \in {base.uses[1], stride} : IsConst(definers, w)}},
       args |-> ArgsOf(definers, <<base.uses[1]>> \o (IF isDynamic THEN <<stride>> ELSE <<>>)
                                   \o definers[o.uses[2]].uses)]
CandidateFails(c) ==
  \/ c.index.n # EntryBytes \/ Dynamic \in ToSet(c.index.strides)
  \/ Cardinality(c.words) # 1 \/ 0 \in c.words
  \/ \E n \in c.constants, word \in c.words : (n * c.base.n) % word # 0
  \/ 0 \in ToSet(c.positions)

(* Address buffers in global memory, one entry for each index.               *)
NumElements(sizes) == FoldLeft(LAMBDA a, b : a * b, 1, sizes)
AddressBufferBytes(view) == NumElements(view.sizes) * EntryBytes
BufferStart == ((program.next + EntryBytes - 1) \div EntryBytes) * EntryBytes
FullAccessTile(view, sizes, v) == Tile(view, [d \in DOMAIN sizes |-> "zero"], sizes, v)
AddressBufferView(index, v) == View("global", EntryBytes, <<"buffer">>, index.sizes, index.strides, v)

Gcd(a, b) == CHOOSE d \in 1..a : a % d = 0 /\ b % d = 0 /\ \A e \in 1..a : a % e = 0 /\ b % e = 0 => e <= d
ConvertElementsToWords(definers, v, bytes, word, new) ==
  LET gcd == Gcd(bytes, word)
      mul == bytes \div gcd
      div == word \div gcd
  IN  IF IsConst(definers, v) THEN <<Const((definers[v].n * mul) \div div, new)>>
      ELSE <<Const(mul, new \o " mul"), Scalar("mul", v, new \o " mul", new \o " product"),
             Const(div, new \o " div"), Scalar("div", new \o " product", new \o " div", new)>>
BuildIdxToAddrModule(f, c, start) ==
  LET stride == IF c.stride = "" THEN "static stride" ELSE c.stride
      definers == ("static stride" :> Const(c.base.strides[c.op.n], "static stride")) @@ c.definers
      word == CHOOSE w \in c.words : TRUE
      chains == Materialized(definers, c.args, <<c.base.uses[1], stride>> \o c.index.uses).body
      body == chains
        \o ConvertElementsToWords(definers, c.base.uses[1], c.base.n, word, "base words")
        \o ConvertElementsToWords(definers, stride, c.base.n, word, "stride words")
        \o <<c.index, Const(start \div EntryBytes, "buffer"), AddressBufferView(c.index, "buffer view"),
             Const(0, "zero"), FullAccessTile(c.index.def, c.index.sizes, "index tile"),
             Load("index tile", "indices"),
             [Generic("idx32toaddr", <<"indices">>, "addresses") EXCEPT !.reads = <<"base words", "stride words">>],
             FullAccessTile("buffer view", c.index.sizes, "buffer tile"), Store("addresses", "buffer tile")>>
      unused(o) == o.op = "const" /\ o.def \in {c.base.uses[1], stride} \ Used(body)
  IN  [name |-> f.name \o "_idx_to_addr", args |-> c.args, body |-> SelectSeq(body, LAMBDA o : ~unused(o))]

RECURSIVE EraseNowDeadOp(_, _)
EraseNowDeadOp(body, o) ==
  IF ~IsPure(o) \/ o.def \in Used(body) \/ o \notin ToSet(body) THEN body
  ELSE ForEach(LAMBDA b, v : IF v \in DOMAIN Definers(b) THEN EraseNowDeadOp(b, Definers(b)[v]) ELSE b,
               SelectSeq(body, LAMBDA p : p # o), o.uses)
RewriteGatherScatterModule(f, c, start) ==
  LET o == c.op
      new == <<Const(start \div EntryBytes, "buffer"), Const(input.iabBase, "iab base"),
               View("iab", EntryBytes, <<"iab base">>, c.index.sizes, c.index.strides, "iab"),
               AddressBufferView(c.index, "buffer view"), Const(0, "zero"),
               FullAccessTile("buffer view", c.index.sizes, "buffer tile"), Load("buffer tile", "addresses"),
               FullAccessTile("iab", c.index.sizes, "iab tile"), Store("addresses", "iab tile"),
               [c.base EXCEPT !.uses[1] = "zero", !.def = "rows"],
               ThroughBuffer("rows", "iab", Captured(o), o.sizes,
                             [o.subs EXCEPT ![o.n] = <<[by |-> [p \in DOMAIN @[1].by |-> 0], plus |-> 0]>>],
                             c.positions, o.n, o.def)>>
      at == Position(f.body, o)
      body == SubSeq(f.body, 1, at - 1) \o new \o SubSeq(f.body, at + 1, Len(f.body))
  IN  [f EXCEPT !.body = EraseNowDeadOp(body, c.index)]

RECURSIVE UpdateOrchestrator(_, _, _)
UpdateOrchestrator(body, f, added) ==
  LET before(o) == IF o.op = "call" /\ o.name = f.name
                   THEN <<Call(added.name, [k \in DOMAIN added.args |-> o.uses[Position(f.args, added.args[k])]]), o>>
                   ELSE <<[o EXCEPT !.body = UpdateOrchestrator(@, f, added)]>>
  IN  FlattenSeq([k \in DOMAIN body |-> before(body[k])])
SplitCandidate ==
  /\ phase = "candidates" /\ program.groups # <<>>
  /\ \E at \in {FunctionAt(program.groups[1][1])} :
     \E c \in {Analyzed(program.modules[at])} :
       LET f == program.modules[at]
           size == AddressBufferBytes(c.index)
           added == BuildIdxToAddrModule(f, c, BufferStart)
       IN  IF CandidateFails(c) \/ BufferStart + size > input.capacity THEN phase' = "failed" /\ UNCHANGED program
           ELSE /\ phase' = IF Len(program.groups) = 1 THEN "done" ELSE phase
                /\ program' = [program EXCEPT
                     !.groups = Tail(@), !.next = BufferStart + size,
                     !.buffers = @ \cup {[name |-> f.name, start |-> BufferStart, size |-> size]},
                     !.main = UpdateOrchestrator(@, f, added),
                     !.modules = SubSeq(@, 1, at - 1)
                                   \o <<added, RewriteGatherScatterModule(f, c, BufferStart)>>
                                   \o SubSeq(@, at + 1, Len(@))]
  /\ UNCHANGED input

Init ==
  /\ input \in Inputs
  /\ phase = IF input.modules = <<>> THEN "extract" ELSE "split"
  /\ program = [main |-> input.main, modules |-> input.modules, groups |-> <<>>, next |-> input.reserved, buffers |-> {}]
Ended == phase \in {"done", "failed", "aborted"} /\ UNCHANGED <<input, phase, program>>
Next ==
  \/ FindGroups \/ ExtractComputeGroup \/ RunRegionDCE
  \/ CollectCandidateOps \/ SplitCandidate \/ Ended

-----------------------------------------------------------------------------
(* What cores compute.  An element is an index or a term, in a location: a   *)
(* byte of a memory.                                                         *)
Element(tag, n, of) == [tag |-> tag, n |-> n, of |-> of]
Location(memory, byte) == [memory |-> memory, byte |-> byte]
Content(e, at) ==
  IF at \in DOMAIN e.memory THEN e.memory[at]
  ELSE IF at.memory = "global" /\ at.byte \in DOMAIN input.indices THEN Element("index", input.indices[at.byte], <<>>)
  ELSE Element(at.memory, at.byte, <<>>)
Coordinates(sizes) ==
  [k \in 1..NumElements(sizes) |->
     [d \in DOMAIN sizes |-> ((k - 1) \div NumElements(SubSeq(sizes, d + 1, Len(sizes)))) % sizes[d]]]
SumOf(list) == FoldLeft(LAMBDA a, b : a + b, 0, list)
Distance(view, c) == SumOf([d \in DOMAIN c |-> c[d] * view.strides[d]])
InView(view, c) == Location(view.memory, (view.offset + Distance(view, c)) * view.bytes)

(* The locations that an indirect tile selects, the index of a row looked up *)
(* in the index memory or its address in the buffer.                         *)
Subscript(s, variables) == SumOf([p \in DOMAIN variables |-> s.by[p] * variables[p]]) + s.plus
Direct(o, variables) == [d \in DOMAIN o.subs |-> IF d = o.n THEN 0 ELSE Subscript(o.subs[d][1], variables)]
IndexOf(e, o, index, variables) ==
  Content(e, InView(index, [r \in DOMAIN o.subs[o.n] |-> Subscript(o.subs[o.n][r], variables)])).n
AddressIn(e, o, buffer, variables) ==
  Content(e, InView(buffer, [r \in DOMAIN o.strides |-> variables[o.strides[r]]])).n
WordOf(o) == CHOOSE w \in {input.words["load"], input.words["store"]} : w # 0
Selected(e, o, base, other, captured) ==
  LET points == Coordinates(o.sizes)
      at(variables) ==
        IF o.op = "indirect"
        THEN InView(base, [Direct(o, variables) EXCEPT ![o.n] = IndexOf(e, o, other, variables)])
        ELSE Location(base.memory, InView(base, Direct(o, variables)).byte + AddressIn(e, o, other, variables) * WordOf(o))
  IN  [k \in DOMAIN points |-> at(captured \o points[k])]

Value(e, core, v) == e.values[core][v]
Values(e, core, list) == [k \in DOMAIN list |-> Value(e, core, list[k])]
Bound(e, core, v, value) == [e EXCEPT !.values[core] = (v :> value) @@ @]
Computed(o, operands, captured) ==
  IF o.name = "idx32toaddr"
  THEN [k \in DOMAIN operands[1] |->
          Element("address", (captured[1] + operands[1][k].n * captured[2]) % EntryValues, <<>>)]
  ELSE [k \in DOMAIN operands[1] |->
          Element(o.name, 0, [j \in DOMAIN operands |-> operands[j][k]]
                               \o [j \in DOMAIN captured |-> Element("scalar", captured[j], <<>>)])]
RECURSIVE RunBody(_, _)
RunAlone(e, core, o) ==
  LET x == Values(e, core, o.uses)
      memory == IF o.name = "iab" THEN "iab " \o ToString(core) ELSE o.name
      put(y, k) == [y EXCEPT !.memory = (x[2][k] :> x[1][k]) @@ @]
      f == CHOOSE g \in ToSet(e.modules) : g.name = o.name
      called == [v \in ToSet(f.args) |-> x[Position(f.args, v)]]
      end == RunBody([e EXCEPT !.cores = <<core>>, !.values[core] = called], f.body)
  IN  CASE o.op = "const" -> Bound(e, core, o.def, o.n)
        [] o.op = "mul" -> Bound(e, core, o.def, x[1] * x[2])
        [] o.op = "add" -> Bound(e, core, o.def, x[1] + x[2])
        [] o.op = "div" -> Bound(e, core, o.def, x[1] \div x[2])
        [] o.op = "tile id" -> Bound(e, core, o.def, core)
        [] o.op = "view" ->
             Bound(e, core, o.def, [memory |-> memory, offset |-> x[1], bytes |-> o.n,
                                    strides |-> [d \in DOMAIN o.strides |-> IF o.strides[d] = Dynamic THEN x[2] ELSE o.strides[d]]])
        [] o.op = "tile" ->
             LET at == Coordinates(o.sizes)
             IN  Bound(e, core, o.def, [k \in DOMAIN at |-> InView(x[1], [d \in DOMAIN o.sizes |-> x[d + 1] + at[k][d]])])
        [] o.op \in {"indirect", "through buffer"} ->
             Bound(e, core, o.def, Selected(e, o, x[1], x[2], SubSeq(x, 3, Len(x))))
        [] o.op = "load" -> Bound(e, core, o.def, [k \in DOMAIN x[1] |-> Content(e, x[1][k])])
        [] o.op \in {"generic", "elementwise"} -> Bound(e, core, o.def, Computed(o, x, Values(e, core, o.reads)))
        [] o.op = "store" -> ForEach(put, e, Indices(x[2]))
        [] o.op = "call" -> [end EXCEPT !.cores = e.cores, !.values = e.values]
(* The cores run operation by operation; a call is one operation.            *)
RunOp(e, o) ==
  LET Turn(x, k) ==
        RunBody([x EXCEPT !.values = [c \in DOMAIN @ |-> IF c \in ToSet(x.cores) THEN (o.name :> k) @@ @[c] ELSE @[c]]], o.body)
  IN  IF o.op = "for" THEN ForEach(Turn, e, [k \in 1..o.n |-> k - 1])
      ELSE ForEach(LAMBDA x, core : RunAlone(x, core, o), e, e.cores)
RunBody(e, ops) == ForEach(RunOp, e, ops)

Started(p) == [modules |-> p.modules, values |-> [c \in {0, 1} |-> input.args], memory |-> <<>>, cores |-> <<>>]
InTurn(p, cores) == ForEach(LAMBDA e, core : RunBody([e EXCEPT !.cores = <<core>>], p.main), Started(p), cores)
InStep(p) == RunBody([Started(p) EXCEPT !.cores = <<0, 1>>], p.main)
Written(e) == {at \in DOMAIN e.memory : at.memory = "global" /\ at.byte < input.reserved}
SameMemory(e, f) == \A at \in Written(e) \cup Written(f) : Content(e, at) = Content(f, at)

(* The functions leave in memory what the kernel did, on one core and on two *)
(* cores that run one after the other or call after call.                    *)
SameResults ==
  phase \notin {"failed", "aborted"} =>
    /\ SameMemory(InTurn(program, <<0>>), InTurn(input, <<0>>))
    /\ \A kernel \in {InTurn(input, <<0, 1>>)} :
         SameMemory(InTurn(program, <<0, 1>>), kernel) /\ SameMemory(InStep(program), kernel)

(* The views of an address buffer end where it ends, and no other buffer is  *)
(* in it.                                                                    *)
BufferViews(b) ==
  LET Uses(f) == Const(b.start \div EntryBytes, "buffer") \in ToSet(f.body)
  IN  {o \in UNION {ToSet(f.body) : f \in {g \in ToSet(program.modules) : Uses(g)}} : o.op = "view" /\ o.uses = <<"buffer">>}
BuffersFit ==
  \A b \in program.buffers :
    /\ b.start >= input.reserved /\ b.start + b.size <= input.capacity
    /\ \A o \in BufferViews(b) : \A c \in ToSet(Coordinates(o.sizes)) : (Distance(o, c) + 1) * EntryBytes <= b.size
    /\ \A a \in program.buffers \ {b} : a.start + a.size <= b.start \/ b.start + b.size <= a.start
=============================================================================
