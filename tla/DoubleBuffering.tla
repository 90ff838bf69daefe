--------------------------- MODULE DoubleBuffering ---------------------------
(* lib/Transforms/DoubleBuffering.cpp with PipelineScope.cpp: which memrefs  *)
(* of a pipeline are hoisted out of its loops as two buffers, and the buffer *)
(* each iteration uses once BufferPhaseLowering.cpp has lowered the phase.   *)
EXTENDS Schedule

NumPhases == 2

(* The loops directly around a pipeline, up to the first other operation or  *)
(* the first loop that holds a pipeline beside the chain.                    *)
PipelineEnclosingScope(s, p) ==
  LET PeerIn(q, n) == NestedPipelines(s, q) \ ({n} \cup Within(s, n)) # {}
      scope[n \in Nodes(s)] ==
        LET q == s[n].parent
        IN  IF q = 0 THEN {}
            ELSE IF s[q].kind # "for" \/ PeerIn(q, n) THEN {}
            ELSE {q} \cup scope[q]
  IN  scope[p]

(* Stages of p that write (read) memref m, in whatever is nested in them. *)
Producers(s, p, m) ==
  {n \in DirectStages(s, p) : \E x \in TransfersIn(s, n) : ~x.dst.fifo /\ x.dst.at = m}
Consumers(s, p, m) ==
  {n \in DirectStages(s, p) : \E x \in TransfersIn(s, n) : ~x.src.fifo /\ x.src.at = m}

(* try_emplace keeps the first stage that puts out a token. *)
TokenProducerStage(s, p, t) == Min({n \in DirectStages(s, p) : t \in s[n].dout})

DependsOn(s, p, c, n) ==
  \E t \in s[c].din : t \in s[n].dout /\ TokenProducerStage(s, p, t) = n

ProducerTransitivelyPrecedes(s, p, producer, target) ==
  LET stages == DirectStages(s, p)
      reached[k \in 0..Cardinality(stages)] ==
        IF k = 0 THEN {c \in stages \ {producer} : DependsOn(s, p, c, producer)}
        ELSE reached[k - 1] \cup {c \in stages : \E n \in reached[k - 1] :
                                    c # n /\ DependsOn(s, p, c, n)}
  IN  target # producer /\ target \in reached[Cardinality(stages)]

(* One writing stage, at least one reading stage, none both, and the writer  *)
(* ordered before all the readers by tokens.                                 *)
IsCandidate(s, p, m) ==
  LET writers == Producers(s, p, m)
      readers == Consumers(s, p, m)
  IN  /\ writers \cap readers = {}
      /\ Cardinality(writers) = 1
      /\ readers # {}
      /\ \A w \in writers : \A r \in readers :
           ProducerTransitivelyPrecedes(s, p, w, r)

DoubleBuffered(s, p) ==
  IF PipelineEnclosingScope(s, p) = {} THEN {}
  ELSE {m \in s[p].private : IsCandidate(s, p, m)}

(* The offset is an iter-arg that the innermost loop toggles once per        *)
(* iteration and every outer loop hands on, so that the buffer in use is the *)
(* parity of the iterations since the outermost loop was entered.  env gives *)
(* the number of the current iteration of every loop.                        *)
BufferPhase(s, p, env) ==
  LET loops == Ordered(PipelineEnclosingScope(s, p), Len(s))
      count[k \in 0..Len(loops)] ==
        IF k = 0 THEN 0 ELSE count[k - 1] * TripCount(s[loops[k]]) + env[loops[k]]
  IN  count[Len(loops)] % NumPhases

(* The buffer that stands for memref m in iteration env: unchanged memrefs   *)
(* have the single buffer 0.                                                 *)
Buffer(s, m, env) ==
  LET owner == {p \in Pipelines(s) : m \in DoubleBuffered(s, p)}
  IN  IF owner = {} THEN <<m, 0>>
      ELSE <<m, BufferPhase(s, CHOOSE p \in owner : TRUE, env)>>
=============================================================================
