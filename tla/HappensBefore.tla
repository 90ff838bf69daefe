---------------------------- MODULE HappensBefore ----------------------------
(* What the programs of a compiled schedule order by themselves, however     *)
(* fast the units run.  A unit that leaves a signal knows that its peers     *)
(* have come as far as that signal; a unit that takes an item from a FIFO    *)
(* knows that the stage iteration that put it there is over; and either      *)
(* knows what the other unit knew by then.  That knowledge is written down   *)
(* as a clock for every operation of every program, and a schedule is        *)
(* ordered when the clocks separate every two stage iterations that would    *)
(* disturb each other.  Nothing here is a state: all of it can be read off   *)
(* the result of UnitPrograms!Compile.                                       *)
EXTENDS Integers, Sequences, FiniteSets, SequencesExt, FiniteSetsExt

(* A sequence and a function, whatever their elements and values are. *)
IsSequence(s) == s \in Seq(Range(s))
IsFunction(f) == f = [x \in DOMAIN f |-> f[x]]

Places(m, u) == DOMAIN m.program[u]
StageAt(m, u, i) == m.program[u][i].kind = "stage"
SignalAt(m, u, i) == m.program[u][i].kind = "signal"

(* What the i-th operation of u takes from and puts into FIFO ch. *)
TakenAt(m, u, i, ch) ==
  IF StageAt(m, u, i) /\ ch \in DOMAIN m.program[u][i].pops
  THEN m.program[u][i].pops[ch] ELSE <<>>
PutAt(m, u, i, ch) ==
  IF StageAt(m, u, i) /\ ch \in DOMAIN m.program[u][i].pushes
  THEN m.program[u][i].pushes[ch] ELSE <<>>

------------------------------------------------------------------------------
(* The programs are sequences of stage iterations and signals; a FIFO is     *)
(* used by the two units that name it.                                       *)
WellFormed(m) ==
  /\ \A ch \in m.channels : ch[1] \in m.units /\ ch[2] \in m.units
  /\ \A u \in m.units :
       /\ IsSequence(m.program[u])
       /\ \A i \in Places(m, u) :
            /\ m.program[u][i].number \in Nat
            /\ StageAt(m, u, i) \/ SignalAt(m, u, i)
            /\ StageAt(m, u, i) =>
                 /\ m.program[u][i].writes \subseteq m.locations
                 /\ m.program[u][i].reads \subseteq [loc : m.locations, want : Nat]
                 /\ IsFunction(m.program[u][i].pops)
                 /\ \A ch \in DOMAIN m.program[u][i].pops :
                      ch \in m.channels /\ ch[2] = u
                 /\ \A ch \in DOMAIN m.program[u][i].pushes :
                      ch \in m.channels /\ ch[1] = u

(* The signals are numbered in the order of every program that has them, and *)
(* the units that synchronize in one all have it in their programs.          *)
SignalsInOrder(m) ==
  /\ m.signals \in Nat
  /\ m.peers \in [1..m.signals -> [m.units -> SUBSET m.units]]
  /\ \A k \in 1..m.signals : \A u \in m.units : \A v \in m.peers[k][u] :
       /\ v # u
       /\ u \in m.peers[k][v]
       /\ \E i \in Places(m, u) : SignalAt(m, u, i) /\ m.program[u][i].number = k
  /\ \A u \in m.units : \A i \in Places(m, u) : SignalAt(m, u, i) =>
       /\ m.program[u][i].number \in 1..m.signals
       /\ \A j \in Places(m, u) :
            SignalAt(m, u, j) /\ i < j => m.program[u][i].number < m.program[u][j].number

------------------------------------------------------------------------------
(* c.put[ch][i] and c.take[ch][i] items have gone through FIFO ch before the *)
(* i-th operation of its two units, and c.stream[ch] is what goes through it *)
(* in the whole launch: taken in the order it is put there, and all of it.   *)
StreamsMatch(m, c) ==
  \A ch \in m.channels :
    LET put == c.put[ch]
        take == c.take[ch]
        stream == c.stream[ch]
        puts == Len(m.program[ch[1]]) + 1
        takes == Len(m.program[ch[2]]) + 1
    IN  /\ put \in [1..puts -> Nat] /\ put[1] = 0
        /\ take \in [1..takes -> Nat] /\ take[1] = 0
        /\ put[puts] = take[takes]
        /\ \A i, j \in 1..puts : i <= j => put[i] <= put[j]
        /\ \A i, j \in 1..takes : i <= j => take[i] <= take[j]
        /\ \A i \in Places(m, ch[1]) :
             /\ IsSequence(PutAt(m, ch[1], i, ch))
             /\ put[i + 1] = put[i] + Len(PutAt(m, ch[1], i, ch))
             /\ \A q \in DOMAIN PutAt(m, ch[1], i, ch) :
                  stream[put[i] + q] = PutAt(m, ch[1], i, ch)[q]
        /\ \A i \in Places(m, ch[2]) :
             /\ IsSequence(TakenAt(m, ch[2], i, ch))
             /\ take[i + 1] = take[i] + Len(TakenAt(m, ch[2], i, ch))
             /\ \A q \in DOMAIN TakenAt(m, ch[2], i, ch) :
                  stream[take[i] + q] = TakenAt(m, ch[2], i, ch)[q]

------------------------------------------------------------------------------
(* c.clock[u][i][v]: how far unit v has come, at least, when u has done the  *)
(* operations before its i-th.                                               *)

(* By the items it takes, u knows what p knew after putting the last of them *)
(* there: by its j-th operation p had not put enough.                        *)
KnownFromFifo(m, c, u, i, v) ==
  \E ch \in DOMAIN m.program[u][i].pops : \E j \in Places(m, ch[1]) :
    /\ c.put[ch][j] < c.take[ch][i + 1]
    /\ c.clock[u][i + 1][v] <= c.clock[ch[1]][j + 1][v]

(* By the tokens it receives, u knows what each peer w knew at the signal.   *)
KnownFromPeer(m, c, u, i, v) ==
  \E w \in m.peers[m.program[u][i].number][u] : \E j \in Places(m, w) :
    /\ SignalAt(m, w, j) /\ m.program[w][j].number = m.program[u][i].number
    /\ c.clock[u][i + 1][v] <= c.clock[w][j][v]

ClocksSound(m, c) ==
  \A u, v \in m.units :
    /\ \A i \in 1..(Len(m.program[u]) + 1) : c.clock[u][i][v] \in Nat
    /\ \A i, j \in 1..(Len(m.program[u]) + 1) :
         i <= j => c.clock[u][i][v] <= c.clock[u][j][v]
    /\ u = v => \A i \in 1..(Len(m.program[u]) + 1) : c.clock[u][i][u] = i
    /\ c.clock[u][1][v] <= 1
    /\ u # v => \A i \in Places(m, u) :
         \/ c.clock[u][i + 1][v] <= c.clock[u][i][v]
         \/ StageAt(m, u, i) /\ KnownFromFifo(m, c, u, i, v)
         \/ SignalAt(m, u, i) /\ KnownFromPeer(m, c, u, i, v)

(* The i-th operation of u is over when the j-th of v begins. *)
Before(c, u, i, v, j) == IF u = v THEN i < j ELSE i < c.clock[v][j + 1][u]

------------------------------------------------------------------------------
ReadsFrom(m, u, i) == {r.loc : r \in m.program[u][i].reads}
WritesTo(m, u, i, l) == StageAt(m, u, i) /\ l \in m.program[u][i].writes

(* The stage iterations that write location l of a core. *)
Writers(m, core, l) ==
  UNION {{<<u, i>> : i \in {j \in Places(m, u) : WritesTo(m, u, j, l)}} :
           u \in {v \in m.units : v[2] = core}}

(* Two units never touch one location at the same time, one of them to write.*)
ConflictsOrdered(m, c) ==
  \A u, v \in m.units : u # v /\ u[2] = v[2] =>
    \A i \in Places(m, u), j \in Places(m, v) :
      /\ StageAt(m, u, i) /\ StageAt(m, v, j)
      /\ m.program[u][i].writes \cap (m.program[v][j].writes \cup ReadsFrom(m, v, j)) # {}
      => Before(c, u, i, v, j) \/ Before(c, v, j, u, i)

(* Every read finds what the sequential execution finds there: what no       *)
(* writer has touched yet, or the data of a writer that is over while every  *)
(* other one was over before that writer or has to wait for the read.        *)
ReadsOrdered(m, c) ==
  \A u \in m.units : \A i \in Places(m, u) : StageAt(m, u, i) =>
    \A r \in m.program[u][i].reads :
      LET others == Writers(m, u[2], r.loc) \ {<<u, i>>}
          after(x) == Before(c, u, i, x[1], x[2])
      IN  \/ r.want = 0 /\ \A x \in others : after(x)
          \/ \E w \in others :
               /\ m.program[w[1]][w[2]].number = r.want
               /\ Before(c, w[1], w[2], u, i)
               /\ \A x \in others \ {w} : Before(c, x[1], x[2], w[1], w[2]) \/ after(x)

OrderedBy(m, c) ==
  /\ WellFormed(m) /\ SignalsInOrder(m) /\ StreamsMatch(m, c) /\ ClocksSound(m, c)
  /\ ConflictsOrdered(m, c) /\ ReadsOrdered(m, c)

(* A schedule whose signals and FIFOs alone keep its units in order. *)
SelfOrdered(m) == \E c : OrderedBy(m, c)

------------------------------------------------------------------------------
(* c.rank[u][i]: an order of all operations in which none of them has to     *)
(* wait for a later one: for the items it takes, for the room that the items *)
(* it puts need in a FIFO with depth entries, or for its peers in a signal,  *)
(* which all come to it at once.                                             *)
NeverWaits(m, c, depth) ==
  /\ \A u \in m.units : \A i \in Places(m, u) :
       /\ c.rank[u][i] \in Nat
       /\ \A j \in Places(m, u) : i < j => c.rank[u][i] < c.rank[u][j]
  /\ \A u \in m.units : \A i \in Places(m, u) : SignalAt(m, u, i) =>
       \A v \in m.peers[m.program[u][i].number][u] : \A j \in Places(m, v) :
         SignalAt(m, v, j) /\ m.program[v][j].number = m.program[u][i].number
           => c.rank[v][j] = c.rank[u][i]
  /\ \A ch \in m.channels : \A i \in Places(m, ch[1]), j \in Places(m, ch[2]) :
       /\ c.put[ch][i] < c.take[ch][j + 1] => c.rank[ch[1]][i] < c.rank[ch[2]][j]
       /\ c.take[ch][j] + depth < c.put[ch][i + 1] => c.rank[ch[2]][j] < c.rank[ch[1]][i]

(* A schedule that FIFOs of this depth let run to its end. *)
SelfPaced(m, depth) == \E c : OrderedBy(m, c) /\ NeverWaits(m, c, depth)

------------------------------------------------------------------------------
(* The clocks and the order of a schedule: what is known, and what has to    *)
(* wait, is gathered along each program again and again until nothing new    *)
(* turns up.                                                                 *)

(* As many rounds as there are operations.  (The set constructor makes TLC   *)
(* evaluate every round once.)                                               *)
Settled(m, Round(_), start) ==
  FoldSet(LAMBDA place, x : CHOOSE y \in {Round(z) : z \in {x}} : TRUE, start,
          UNION {{<<u, i>> : i \in Places(m, u)} : u \in m.units})

(* Sums of the lengths, and concatenation, of a sequence of sequences. *)
Counts(ss) == FoldLeft(LAMBDA sums, s : Append(sums, Last(sums) + Len(s)), <<0>>, ss)

PutsInto(m, ch) == [i \in Places(m, ch[1]) |-> PutAt(m, ch[1], i, ch)]
TakesFrom(m, ch) == [i \in Places(m, ch[2]) |-> TakenAt(m, ch[2], i, ch)]

(* The operation of the producer that put the n-th item into a FIFO. *)
Putter(put, n) == Max({j \in DOMAIN put : put[j] < n})

(* Where the clocks that u hears of in its i-th operation come from: the     *)
(* places <<w, j>> of other units.                                           *)
Sources(m, put, take, u, i) ==
  IF StageAt(m, u, i)
  THEN {<<ch[1], Putter(put[ch], take[ch][i + 1]) + 1>> :
          ch \in DOMAIN m.program[u][i].pops}
  ELSE UNION {{<<w, j>> : j \in {x \in Places(m, w) : SignalAt(m, w, x)
                                /\ m.program[w][x].number = m.program[u][i].number}} :
                w \in m.peers[m.program[u][i].number][u]}

Gather(m, sources, clock) ==
  [u \in m.units |->
     FoldLeft(LAMBDA rows, i :
                Append(rows, [v \in m.units |->
                  IF v = u THEN i + 1
                  ELSE Max({rows[i][v]} \cup {clock[x[1]][x[2]][v] : x \in sources[u][i]})]),
              <<[v \in m.units |-> 1]>>, [i \in Places(m, u) |-> i])]

Clocks(m, sources) ==
  Settled(m, LAMBDA clock : Gather(m, sources, clock),
          [u \in m.units |-> [i \in 1..(Len(m.program[u]) + 1) |->
             [v \in m.units |-> IF v = u THEN i ELSE 1]]])

(* The operations of other units that the i-th operation of u waits for. *)
Awaited(m, put, take, depth, u, i) ==
  IF StageAt(m, u, i)
  THEN {<<ch[1], Putter(put[ch], take[ch][i + 1])>> : ch \in DOMAIN m.program[u][i].pops}
       \cup {<<ch[2], Putter(take[ch], put[ch][i + 1] - depth)>> :
               ch \in {x \in DOMAIN m.program[u][i].pushes : depth < put[x][i + 1]}}
  ELSE {}

(* After the operation before it and those it waits for, with its peers. *)
Raise(m, awaited, sources, rank) ==
  [u \in m.units |->
     FoldLeft(LAMBDA row, i :
                Append(row, Max({IF i = 1 THEN 0 ELSE row[i - 1] + 1}
                                \cup {rank[x[1]][x[2]] + 1 : x \in awaited[u][i]}
                                \cup (IF StageAt(m, u, i) THEN {}
                                     ELSE {rank[x[1]][x[2]] : x \in sources[u][i]}))),
              <<>>, [i \in Places(m, u) |-> i])]

Ranks(m, awaited, sources) ==
  Settled(m, LAMBDA rank : Raise(m, awaited, sources, rank),
          [u \in m.units |-> [i \in Places(m, u) |-> 0]])

Certificate(m, depth) ==
  LET put == [ch \in m.channels |-> Counts(PutsInto(m, ch))]
      take == [ch \in m.channels |-> Counts(TakesFrom(m, ch))]
      sources == [u \in m.units |-> [i \in Places(m, u) |-> Sources(m, put, take, u, i)]]
      awaited == [u \in m.units |->
                    [i \in Places(m, u) |-> Awaited(m, put, take, depth, u, i)]]
  IN  [put |-> put, take |-> take,
       stream |-> [ch \in m.channels |-> FlattenSeq(PutsInto(m, ch))],
       clock |-> Clocks(m, sources),
       rank |-> Ranks(m, awaited, sources)]
=============================================================================
