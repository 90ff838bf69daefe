--------------------------- MODULE MCStageAnalysis ---------------------------
(* The analysis of all small pipelines. *)
EXTENDS StageAnalysis

Pipeline(p) == [kind |-> "pipeline", parent |-> p, private |-> {}]
Stage(p, ports) ==
  [kind |-> "stage", parent |-> p, units |-> {}, din |-> ports[1], dout |-> ports[2],
   xfers |-> <<>>]
Ports(tokens) == (SUBSET tokens) \X (SUBSET tokens)

(* One pipeline of three stages and two tokens; tokens are named in the      *)
(* order in which the stages use them.                                       *)
Named(ports) ==
  LET used == ports[1] \cup ports[2]
  IN  ("t" \in used => "s" \in used) /\ ("u" \in used => "t" \in used)
FlatSchedules ==
  {<<Pipeline(0), Stage(1, a), Stage(1, b), Stage(1, c)>> :
     a \in {p \in Ports({"s", "t"}) : Named(p)}, b, c \in Ports({"s", "t"})}

(* Three stages and tokens, of which a stage waits for at most one and puts  *)
(* out at most one: the least that can wait in a circle of three.            *)
AtMostOne == {{}} \cup {{t} : t \in {"s", "t", "u"}}
RingSchedules ==
  {<<Pipeline(0), Stage(1, a), Stage(1, b), Stage(1, c)>> :
     a \in {p \in AtMostOne \X AtMostOne : Named(p)}, b, c \in AtMostOne \X AtMostOne}

(* Two stages, each alone or around a pipeline of two stages. *)
Inner(stage, parts) ==
  IF parts = <<>> THEN <<>>
  ELSE <<Pipeline(stage)>> \o [i \in DOMAIN parts |-> Stage(stage + 1, parts[i])]
Bodies == {<<>>} \cup {<<a, b>> : a, b \in Ports({"i"})}
NestedSchedule(a, b, inA, inB) ==
  LET first == <<Pipeline(0), Stage(1, a)>> \o Inner(2, inA)
  IN  first \o <<Stage(1, b)>> \o Inner(Len(first) + 1, inB)
NestedSchedules ==
  {NestedSchedule(a, b, inA, inB) : a, b \in Ports({"o"}), inA, inB \in Bodies}

(* A stage around two pipelines side by side, as in sibling-pipelines.mlir,  *)
(* and the stage that waits for it.                                          *)
SiblingSchedules ==
  {<<Pipeline(0), Stage(1, <<{}, {"o"}>>), Pipeline(2), Stage(3, a),
     Pipeline(2), Stage(5, b), Stage(1, <<{"o"}, {}>>)>> : a, b \in Ports({"i"})}

(* Three levels: a stage around a stage around a pipeline. *)
DeepSchedules ==
  {<<Pipeline(0), Stage(1, <<{}, {"o"}>>), Pipeline(2), Stage(3, a), Pipeline(4), Stage(5, b),
     Stage(5, c), Stage(3, d), Stage(1, <<{"o"}, {}>>)>> : a, b, c, d \in Ports({"i"})}

MCSchedules ==
  FlatSchedules \cup RingSchedules \cup NestedSchedules \cup SiblingSchedules \cup DeepSchedules
=============================================================================
