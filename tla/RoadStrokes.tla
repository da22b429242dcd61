----------------------------- MODULE RoadStrokes -----------------------------
(***************************************************************************)
(* One symbol per continuous stroke of a road (pipeline/road_strokes.py):  *)
(* the lines of the road network are joined into strokes, a run of one     *)
(* symbol that is too short takes the symbol of its neighbour, and dead    *)
(* ends are narrowed to the road that leads to them.                       *)
(*                                                                         *)
(* A network is given by the two ends of each line: end 2i-1 is the start  *)
(* of line i and 2i its other end.  Geometry is reduced to the node of an  *)
(* end and the direction in which its line leaves that node, in steps of   *)
(* 30 degrees; lengths are in mm of the map.  Lengths and symbols are not   *)
(* read before the strokes are joined, so they are chosen then.            *)
(***************************************************************************)
EXTENDS Integers, Sequences, SequencesExt, FiniteSetsExt

CONSTANTS
  Shapes,   \* sequences of ends [node, dir], of which one is drawn
  Lengths,  \* lengths of lines
  Codes,    \* symbols of lines
  MinRun    \* MIN_RUN_MM

\* Each line of a shape has two ends.
ConstantsOK ==
  /\ \A shape \in Shapes :
       /\ Len(shape) \in Nat \ {0} /\ Len(shape) % 2 = 0 /\ DOMAIN shape = 1..Len(shape)
       /\ \A e \in DOMAIN shape : shape[e].dir \in 0..11
  /\ Lengths \subseteq Nat
  /\ MinRun \in Nat

WidthOrder == <<"504", "831", "815", "503", "502.2", "502", "502.1", "502.0">>
MaxTurn == 45
DeadEndMax == 3 * MinRun

VARIABLES
  net,      \* the network: ends, and len and code of each line
  partner,  \* the end by which a stroke goes on after an end, 0 if it does not
  chains,   \* the strokes, sequences of lines
  walk,     \* the stroke under way: its lines so far, and the end it goes on from
  out,      \* the symbols as changed so far
  stage,    \* "draw", "pair", "walk", "forth", "back", "merge", "stubs", "done"
  k         \* the stroke being worked on

vars == <<net, partner, chains, walk, out, stage, k>>

\* A wider symbol has a higher rank; an unknown one is the narrowest.
WidthRank(code) ==
  IF code \in ToSet(WidthOrder) THEN CHOOSE r \in DOMAIN WidthOrder : WidthOrder[r] = code ELSE 0

-----------------------------------------------------------------------------
\* The network.

Ends == DOMAIN net.ends
Lines == 1..(Len(net.ends) \div 2)
LineOf(e) == (e + 1) \div 2
OtherEnd(e) == IF e % 2 = 1 THEN e + 1 ELSE e - 1

Nodes == {net.ends[e].node : e \in Ends}
EndsAt(x) == {e \in Ends : net.ends[e].node = x}
LinesAt(x) == {LineOf(e) : e \in EndsAt(x)}

\* Lines with a fixed symbol: the axis of a dual carriageway.
Fixed == {i \in Lines : net.code[i] = "502.0"}

\* How far the way from end a to end b of one node is from straight on, in degrees.
Deviation(a, b) ==
  LET turn == (net.ends[a].dir - net.ends[b].dir + 6) % 12
  IN 30 * (IF turn > 6 THEN 12 - turn ELSE turn)

\* A stroke may pass a node from end a to end b: where only two lines meet, or
\* where they go straight on.
MayPass(a, b) ==
  /\ net.ends[a].node = net.ends[b].node /\ LineOf(a) # LineOf(b)
  /\ Cardinality(EndsAt(net.ends[a].node)) = 2 \/ Deviation(a, b) <= MaxTurn

\* The pairs of ends that are still free, and the order in which they are taken:
\* the straightest first.
FreePairs ==
  {c \in Ends \X Ends :
     c[1] < c[2] /\ partner[c[1]] = 0 /\ partner[c[2]] = 0 /\ MayPass(c[1], c[2])}

Before(c, d) ==
  \/ Deviation(c[1], c[2]) < Deviation(d[1], d[2])
  \/ /\ Deviation(c[1], c[2]) = Deviation(d[1], d[2])
     /\ c[1] < d[1] \/ (c[1] = d[1] /\ c[2] <= d[2])

-----------------------------------------------------------------------------
\* Strokes.

Covered(chs) == UNION {ToSet(ch) : ch \in ToSet(chs)}
Seen == Covered(chains) \cup ToSet(walk.lines)
NoWalk == [lines |-> <<>>, at |-> 0]

\* The stroke under way does not end here: another line follows that is on no stroke.
GoesOn == partner[walk.at] # 0 /\ LineOf(partner[walk.at]) \notin Seen

\* Nodes of a stroke where another stroke touches it.
Touch(ch) == {x \in Nodes : LinesAt(x) \cap ToSet(ch) # {} /\ LinesAt(x) \ ToSet(ch) # {}}

TotalLen(S) == MapThenSumSet(LAMBDA i : net.len[i], S)

-----------------------------------------------------------------------------
\* Runs of one symbol on a stroke, as ranges of positions.

RunsOf(ch, o) ==
  {r \in [from : DOMAIN ch, to : DOMAIN ch] :
     /\ r.from <= r.to
     /\ \A j \in r.from..r.to : o[ch[j]] = o[ch[r.from]]
     /\ r.from > 1 => o[ch[r.from - 1]] # o[ch[r.from]]
     /\ r.to < Len(ch) => o[ch[r.to + 1]] # o[ch[r.from]]}

LinesOfRun(ch, r) == {ch[j] : j \in r.from..r.to}
RunLen(ch, r) == TotalLen(LinesOfRun(ch, r))
RunFixed(ch, r) == LinesOfRun(ch, r) \cap Fixed # {}

\* Of a stroke with more than one run.
ShortRuns(ch, o) ==
  {r \in RunsOf(ch, o) :
     r.to - r.from + 1 < Len(ch) /\ RunLen(ch, r) < MinRun /\ ~RunFixed(ch, r)}

\* The shorter run is merged before the longer one, the first before the second.
Sooner(ch, r, q) ==
  \/ RunLen(ch, r) < RunLen(ch, q)
  \/ RunLen(ch, r) = RunLen(ch, q) /\ r.from <= q.from

\* The neighbour whose symbol it takes: a fixed one before the longer one
\* before the left one.
Prevails(ch, q, p) ==
  IF RunFixed(ch, q) # RunFixed(ch, p) THEN RunFixed(ch, q)
  ELSE \/ RunLen(ch, q) > RunLen(ch, p)
       \/ RunLen(ch, q) = RunLen(ch, p) /\ q.from <= p.from

Neighbours(ch, r) == {q \in RunsOf(ch, out) : q.to + 1 = r.from \/ q.from = r.to + 1}

Recoded(o, S, code) == [i \in Lines |-> IF i \in S THEN code ELSE o[i]]

-----------------------------------------------------------------------------
\* Dead ends.

\* The node that line a of a stroke shares with its neighbour b, the first one.
SharedNode(a, b) ==
  LET common == {x \in Nodes : {a, b} \subseteq LinesAt(x)}
  IN CHOOSE x \in common : \A y \in common : Min(EndsAt(x)) <= Min(EndsAt(y))

\* Another stroke touches line a at a node where its neighbour b is not.
OuterTouched(ch, a, b) == \E x \in Touch(ch) : a \in LinesAt(x) /\ b \notin LinesAt(x)

\* The position in seq from which on it is a dead end, 0 if it has none: from
\* the last node with another stroke, or all but the first line of a stroke that
\* hangs on the network by its first node only.
DeadEnd(seq) ==
  LET cuts == {p \in 2..Len(seq) : SharedNode(seq[p - 1], seq[p]) \in Touch(seq)}
      start == IF Len(seq) < 2 \/ OuterTouched(seq, seq[Len(seq)], seq[Len(seq) - 1]) THEN 0
               ELSE IF cuts # {} THEN Max(cuts)
               ELSE IF OuterTouched(seq, seq[1], seq[2]) THEN 2 ELSE 0
  IN IF start > 0 /\ \E j \in start..Len(seq) : seq[j] \in Fixed THEN 0 ELSE start

\* Its outermost lines that are wider than the line before it take that symbol,
\* unless they are too long together.
Narrow(seq, o) ==
  LET start == DeadEnd(seq)
      before == o[seq[start - 1]]
      wide == {seq[j] : j \in {j \in start..Len(seq) : \A m \in j..Len(seq) :
                                 WidthRank(o[seq[m]]) > WidthRank(before)}}
  IN IF start > 0 /\ TotalLen(wide) <= DeadEndMax THEN Recoded(o, wide, before) ELSE o

\* A whole stroke that is short, or that hangs on the network by one end.
IsStub(ch) ==
  \/ TotalLen(ToSet(ch)) < MinRun
  \/ /\ TotalLen(ToSet(ch)) <= DeadEndMax
     /\ \E x \in Nodes :
          /\ Touch(ch) = {x}
          /\ LET mine == Cardinality({e \in EndsAt(x) : LineOf(e) \in ToSet(ch)})
             IN mine = 1 \/ (Len(ch) = 1 /\ mine = 2)

\* The symbols of the lines that touch it, and the one that it takes.
TouchingCodes(ch) == {out[i] : i \in UNION {LinesAt(x) : x \in Touch(ch)} \ ToSet(ch)}
NarrowedTo(ch) ==
  {c \in TouchingCodes(ch) :
     /\ TouchingCodes(ch) = {c} /\ WidthRank(c) < WidthRank(out[ch[1]])
     /\ IsStub(ch) /\ ToSet(ch) \cap Fixed = {}
     /\ \A i \in ToSet(ch) : out[i] = out[ch[1]]}

-----------------------------------------------------------------------------
Blank == [ends |-> <<>>, len |-> <<>>, code |-> <<>>]

Init ==
  /\ net = Blank /\ partner = <<>> /\ chains = <<>> /\ walk = NoWalk
  /\ out = <<>> /\ stage = "draw" /\ k = 1

\* The roads of the area (_apply_road_strokes).
DrawRoads ==
  /\ stage = "draw" /\ stage' = "pair"
  /\ \E shape \in Shapes :
       net' = [net EXCEPT !.ends = shape] /\ partner' = [e \in DOMAIN shape |-> 0]
  /\ UNCHANGED <<chains, walk, out, k>>

\* The straightest pair of ends that are free.  It is taken over all nodes here;
\* the pairs of a node do not depend on those of another one.
PairEnds ==
  /\ stage = "pair"
  /\ \E c \in FreePairs :
       /\ \A d \in FreePairs : Before(c, d)
       /\ partner' = [partner EXCEPT ![c[1]] = c[2], ![c[2]] = c[1]]
  /\ UNCHANGED <<net, chains, walk, out, stage, k>>

EndsPaired ==
  /\ stage = "pair" /\ FreePairs = {} /\ stage' = "walk"
  /\ UNCHANGED <<net, partner, chains, walk, out, k>>

\* The first line that is on no stroke, on from its other end.
StartStroke ==
  /\ stage = "walk" /\ stage' = "forth"
  /\ \E i \in Lines \ Seen :
       /\ \A j \in Lines \ Seen : i <= j
       /\ walk' = [lines |-> <<i>>, at |-> 2 * i]
  /\ UNCHANGED <<net, partner, chains, out, k>>

GoForth ==
  /\ stage = "forth" /\ GoesOn
  /\ LET p == partner[walk.at]
     IN walk' = [lines |-> Append(walk.lines, LineOf(p)), at |-> OtherEnd(p)]
  /\ UNCHANGED <<net, partner, chains, out, stage, k>>

\* And back from the start of the first line.
TurnBack ==
  /\ stage = "forth" /\ ~GoesOn /\ stage' = "back"
  /\ walk' = [walk EXCEPT !.at = 2 * walk.lines[1] - 1]
  /\ UNCHANGED <<net, partner, chains, out, k>>

\* Mutant of GoBack: the way back is not turned round.
GoBackUnturned ==
  /\ stage = "back" /\ GoesOn
  /\ LET p == partner[walk.at]
     IN walk' = [lines |-> Append(walk.lines, LineOf(p)), at |-> OtherEnd(p)]
  /\ UNCHANGED <<net, partner, chains, out, stage, k>>

GoBack ==
  /\ stage = "back" /\ GoesOn
  /\ LET p == partner[walk.at]
     IN walk' = [lines |-> <<LineOf(p)>> \o walk.lines, at |-> OtherEnd(p)]
  /\ UNCHANGED <<net, partner, chains, out, stage, k>>

EndStroke ==
  /\ stage = "back" /\ ~GoesOn /\ stage' = "walk"
  /\ chains' = Append(chains, walk.lines) /\ walk' = NoWalk
  /\ UNCHANGED <<net, partner, out, k>>

\* All lines are on strokes: now their lengths, and the symbols of their widths.
ReadSymbols ==
  /\ stage = "walk" /\ Lines \subseteq Seen /\ stage' = "merge"
  /\ \E len \in [Lines -> Lengths], code \in [Lines -> Codes] :
       net' = [net EXCEPT !.len = len, !.code = code] /\ out' = code
  /\ UNCHANGED <<partner, chains, walk, k>>

MergeShortRun ==
  /\ stage = "merge"
  /\ LET ch == chains[k]
     IN \E r \in ShortRuns(ch, out) :
          /\ \A s \in ShortRuns(ch, out) : Sooner(ch, r, s)
          /\ \E q \in Neighbours(ch, r) :
               /\ \A p \in Neighbours(ch, r) : Prevails(ch, q, p)
               /\ out' = Recoded(out, LinesOfRun(ch, r), out[ch[q.from]])
  /\ UNCHANGED <<net, partner, chains, walk, stage, k>>

NextStroke(next) ==
  IF k < Len(chains) THEN k' = k + 1 /\ UNCHANGED stage ELSE k' = 1 /\ stage' = next

\* Mutant of NarrowDeadEnds: short runs may be left.
NarrowDeadEndsEarly ==
  /\ stage = "merge"
  /\ LET ch == chains[k] IN out' = Narrow(Reverse(ch), Narrow(ch, out))
  /\ NextStroke("stubs")
  /\ UNCHANGED <<net, partner, chains, walk>>

\* Both ends of a stroke, one after the other.
NarrowDeadEnds ==
  /\ stage = "merge" /\ ShortRuns(chains[k], out) = {}
  /\ LET ch == chains[k] IN out' = Narrow(Reverse(ch), Narrow(ch, out))
  /\ NextStroke("stubs")
  /\ UNCHANGED <<net, partner, chains, walk>>

\* A stub of one symbol that touches one other, narrower symbol takes that one.
NarrowStub ==
  /\ stage = "stubs"
  /\ LET ch == chains[k]
     IN out' = IF NarrowedTo(ch) = {} THEN out
               ELSE Recoded(out, ToSet(ch), CHOOSE c \in NarrowedTo(ch) : TRUE)
  /\ NextStroke("done")
  /\ UNCHANGED <<net, partner, chains, walk>>

Next ==
  \/ DrawRoads \/ PairEnds \/ EndsPaired
  \/ StartStroke \/ GoForth \/ TurnBack \/ GoBack \/ EndStroke
  \/ ReadSymbols \/ MergeShortRun \/ NarrowDeadEnds \/ NarrowStub

Spec == Init /\ [][Next]_vars

-----------------------------------------------------------------------------
Stages == {"draw", "pair", "walk", "forth", "back", "merge", "stubs", "done"}
Joined == stage \in {"merge", "stubs", "done"}

TypeOK ==
  /\ stage \in Stages
  /\ DOMAIN net = {"ends", "len", "code"}
  /\ IF stage = "draw" THEN net = Blank ELSE net.ends \in Shapes
  /\ stage \in {"draw", "pair"} => chains = <<>> /\ walk = NoWalk
  /\ partner \in [Ends -> {0} \cup Ends]
  /\ chains \in Seq(Seq(Lines))
  /\ walk \in [lines : Seq(Lines), at : {0} \cup Ends]
  /\ Joined => /\ net.len \in [Lines -> Lengths] /\ net.code \in [Lines -> Codes]
               /\ out \in [Lines -> Codes]
  /\ IF stage \in {"merge", "stubs"} THEN k \in DOMAIN chains ELSE k = 1

LinesOnce ==
  \A c, d \in DOMAIN chains : \A m \in DOMAIN chains[c], n \in DOMAIN chains[d] :
    chains[c][m] = chains[d][n] => c = d /\ m = n
SameStroke(a, b) == \E ch \in ToSet(chains) : {a, b} \subseteq ToSet(ch)

\* A stroke is a way through the network: each line leads on to the next one.
IsPath(ch) ==
  \E forward \in [DOMAIN ch -> BOOLEAN] :
    LET leave == [j \in DOMAIN ch |-> IF forward[j] THEN 2 * ch[j] ELSE 2 * ch[j] - 1]
    IN \A j \in DOMAIN ch : j < Len(ch) =>
         net.ends[leave[j]].node = net.ends[OtherEnd(leave[j + 1])].node

\* At a node of two lines the stroke goes on; at a larger one two lines that
\* might be one stroke are not only if one of them goes on at least as straight.
PassedWell(x) ==
  \A a, b \in EndsAt(x) :
    LineOf(a) # LineOf(b) /\ (Cardinality(EndsAt(x)) = 2 \/ Deviation(a, b) <= MaxTurn) =>
      \/ SameStroke(LineOf(a), LineOf(b))
      \/ \E c \in {a, b}, d \in EndsAt(x) \ {a, b} :
           SameStroke(LineOf(c), LineOf(d)) /\ Deviation(c, d) <= Deviation(a, b)

\* strokes() walks from the middle of a stroke in both directions, over rings and
\* loops: every line is in exactly one stroke, once, every stroke is a way
\* through the network, and none ends where it should go on.
StrokesArePaths ==
  Joined =>
    /\ Covered(chains) = Lines /\ LinesOnce
    /\ \A ch \in ToSet(chains) : IsPath(ch)
    /\ \A x \in Nodes : PassedWell(x)

\* "Sirka se tak meni jen v uzlu a jen mezi dvema dlouhymi behy" (road_strokes.py,
\* line 7): in the end the symbol changes along a stroke only between runs that
\* are long or fixed, though dead ends and stubs have been narrowed since the
\* runs were merged; and fixed symbols stay.
WidthChangesBetweenLongRuns ==
  stage = "done" =>
    /\ \A ch \in ToSet(chains) : ShortRuns(ch, out) = {}
    /\ \A i \in Fixed : out[i] = net.code[i]

-----------------------------------------------------------------------------
\* Inductive invariants for the properties above.

\* Partners pass a node, both ways.
PartnersMeet ==
  \A e \in Ends : partner[e] # 0 => partner[partner[e]] = e /\ MayPass(e, partner[e])

\* Two ends that might be partners are both free, or one of them has a partner at
\* least as straight; and when all pairs are taken they are not free.
StraightestFirst ==
  \A a, b \in Ends : MayPass(a, b) =>
    \/ stage = "pair" /\ partner[a] = 0 /\ partner[b] = 0
    \/ \E c \in {a, b} : partner[c] # 0 /\ Deviation(c, partner[c]) <= Deviation(a, b)

\* No partner of a line in S is outside S, but for the ends given.
Closed(S, open) ==
  \A e \in Ends \ open : LineOf(e) \in S /\ partner[e] # 0 => LineOf(partner[e]) \in S

\* The ends by which a stroke leaves its lines, one after the other.
IsWay(ch, leave) ==
  /\ \A j \in DOMAIN ch : LineOf(leave[j]) = ch[j]
  /\ \A j \in DOMAIN ch : j < Len(ch) =>
       net.ends[leave[j]].node = net.ends[OtherEnd(leave[j + 1])].node

StrokesClosed ==
  \A ch \in ToSet(chains) :
    Closed(ToSet(ch), {}) /\ \E leave \in [DOMAIN ch -> Ends] : IsWay(ch, leave)

\* The stroke under way: on the way forth its first line is still open, too.
Start == 2 * walk.lines[1] - 1
OpenEnds == IF stage = "forth" THEN {walk.at, Start} ELSE {walk.at}
Underway ==
  IF stage \in {"forth", "back"}
  THEN /\ walk.lines # <<>> /\ IsInjective(walk.lines)
       /\ ToSet(walk.lines) \cap Covered(chains) = {}
       /\ Closed(ToSet(walk.lines), OpenEnds)
       /\ \E leave \in [DOMAIN walk.lines -> Ends] :
            /\ IsWay(walk.lines, leave)
            /\ IF stage = "back" THEN OtherEnd(leave[1]) = walk.at
               ELSE leave[1] = 2 * walk.lines[1] /\ leave[Len(walk.lines)] = walk.at
  ELSE walk = NoWalk

JoinInv ==
  /\ TypeOK /\ PartnersMeet /\ StraightestFirst
  /\ LinesOnce /\ StrokesClosed /\ Underway
  /\ Joined => Covered(chains) = Lines

\* Strokes whose short runs have been merged.
RunsMerged ==
  \A j \in DOMAIN chains : (stage = "merge" /\ j < k) \/ stage \in {"stubs", "done"} =>
    ShortRuns(chains[j], out) = {}
FixedStay == Joined => \A i \in Fixed : out[i] = net.code[i]

RoadInv == JoinInv /\ RunsMerged /\ FixedStay
=============================================================================
