------------------------- MODULE RoadStrokes_proofs -------------------------
(***************************************************************************)
(* Proofs about RoadStrokes, for every network of lines with two ends each, *)
(* any lengths and symbols:                                                *)
(*   TypeCorrect     the type invariant,                                   *)
(*   StrokesAreWays  StrokesArePaths: lines are joined into ways,          *)
(*   WidthChanges    WidthChangesBetweenLongRuns: no short run is left.    *)
(* The argument: JoinInv, about partners and the stroke under way, holds   *)
(* from the drawing of the network on; that recoding leaves no short run   *)
(* rests on runs being recoded from a change of symbol to the end of the   *)
(* stroke, so that one run grows and the others stay, and on a run being   *)
(* no shorter than a part of it.  The latter needs induction on sets; it   *)
(* is done with sets of sets (SetInduction), as operators cannot be passed *)
(* to the induction theorems of the library here.                          *)
(***************************************************************************)
EXTENDS RoadStrokes, FiniteSetTheorems, WellFoundedInduction, TLAPS

\* Every set of numbers has a least element.
LEMMA LeastElement ==
  ASSUME NEW S \in SUBSET Nat, S # {}
  PROVE  \E m \in S : \A n \in S : m <= n
<1>1. PICK m \in S : \A n \in S : <<n, m>> \notin OpToRel(<, Nat)
  BY WFMin, NatLessThanWellFounded
<1>2. ASSUME NEW n \in S PROVE m <= n
  <2>1. <<n, m>> \notin {ss \in Nat \X Nat : ss[1] < ss[2]}
    BY <1>1 DEF OpToRel
  <2>2. m \in Nat /\ n \in Nat /\ ~(n < m)
    BY <2>1
  <2>3. QED
    BY <2>2
<1>3. QED
  BY <1>2

\* Induction on a finite set: a property of sets, given by the sets that have it.
LEMMA SetInduction ==
  ASSUME NEW F, IsFiniteSet(F), NEW Good \in SUBSET SUBSET F,
         \A T \in SUBSET F : (\A U \in SUBSET T : U # T => U \in Good) => T \in Good
  PROVE  F \in Good
<1> DEFINE Bad == (SUBSET F) \ Good
<1>1. SUFFICES ASSUME Bad # {} PROVE FALSE
  OBVIOUS
<1>2. IsWellFoundedOn(StrictSubsetOrdering(F), FiniteSubsetsOf(F)) /\ FiniteSubsetsOf(F) = SUBSET F
  BY FS_StrictSubsetOrderingWellFounded, FS_FiniteSubsetsOfFinite
<1>3. PICK T \in Bad : \A U \in Bad : <<U, T>> \notin StrictSubsetOrdering(F)
  <2> HIDE DEF Bad
  <2>1. Bad \subseteq SUBSET F
    BY DEF Bad
  <2>2. QED
    BY <1>1, <1>2, <2>1, WFMin
<1>4. \A U \in SUBSET T : U # T => U \in Good
  BY <1>3 DEF StrictSubsetOrdering
<1>5. QED
  BY <1>3, <1>4

-----------------------------------------------------------------------------
\* Sums over sets of lines.  IsSum(len, f, A): f gives the sum of each subset of A.

Some(T) == CHOOSE x \in T : TRUE
IsSum(len, f, A) ==
  \A T \in SUBSET A : f[T] = IF T = {} THEN 0 ELSE len[Some(T)] + f[T \ {Some(T)}]
NatSum(len, f, A) ==
  /\ IsFiniteSet(A) /\ IsSum(len, f, A)
  /\ \A i \in A : len[i] \in Nat
  /\ \A T \in SUBSET A : f[T] \in Nat

\* A nonempty set has the element that sums take first.
LEMMA SomeOf == \A T : T # {} => Some(T) \in T
  BY DEF Some

\* There is one sum of a finite set.
LEMMA SumIsUnique ==
  ASSUME NEW A, IsFiniteSet(A), NEW len, NEW f, NEW g, IsSum(len, f, A), IsSum(len, g, A)
  PROVE  f[A] = g[A]
<1> DEFINE Good == {T \in SUBSET A : f[T] = g[T]}
<1>1. ASSUME NEW T \in SUBSET A, \A U \in SUBSET T : U # T => U \in Good
      PROVE  T \in Good
  BY <1>1, SomeOf DEF IsSum
<1>2. A \in Good
  <2> HIDE DEF Good
  <2>1. Good \in SUBSET SUBSET A
    BY DEF Good
  <2>2. QED
    BY <1>1, <2>1, SetInduction
<1>3. QED
  BY <1>2

\* And it exists: the sums of all subsets are put together from the smaller ones.
LEMMA SumExists ==
  ASSUME NEW A, IsFiniteSet(A), NEW len \in [A -> Nat]
  PROVE  \E f \in [SUBSET A -> Nat] : IsSum(len, f, A)
<1> DEFINE Has(T) == \E f \in [SUBSET T -> Nat] : IsSum(len, f, T)
           Good == {T \in SUBSET A : Has(T)}
<1>1. ASSUME NEW T \in SUBSET A, \A U \in SUBSET T : U # T => U \in Good
      PROVE  T \in Good
  <2> DEFINE Sum(U) == CHOOSE f \in [SUBSET U -> Nat] : IsSum(len, f, U)
             SumOf(U) == Sum(U)[U]
             F == [U \in SUBSET T |-> IF U # T THEN SumOf(U) ELSE IF T = {} THEN 0
                                     ELSE len[Some(T)] + SumOf(T \ {Some(T)})]
  <2>1. ASSUME NEW U \in SUBSET T, U # T
        PROVE  Sum(U) \in [SUBSET U -> Nat] /\ IsSum(len, Sum(U), U)
    BY <1>1, <2>1
  <2> HIDE DEF Sum
  <2>2. ASSUME NEW U \in SUBSET T, U # T, U # {}
        PROVE  SumOf(U) = len[Some(U)] + SumOf(U \ {Some(U)})
    <3> DEFINE V == U \ {Some(U)}
    <3>1. V \in SUBSET U /\ V \in SUBSET T /\ V # T /\ IsFiniteSet(V)
      BY <2>2, FS_Subset
    <3>2. IsSum(len, Sum(U), V)
      BY <2>1, <2>2, <3>1 DEF IsSum
    <3>3. Sum(U)[V] = Sum(V)[V]
      BY <2>1, <3>1, <3>2, SumIsUnique
    <3>4. Sum(U)[U] = len[Some(U)] + Sum(U)[V]
      BY <2>1, <2>2 DEF IsSum
    <3>5. QED
      BY <3>3, <3>4
  <2>3. SumOf({}) = 0 \/ T = {}
    BY <2>1 DEF IsSum
  <2>4. \A U \in SUBSET T : U # T => SumOf(U) \in Nat
    BY <2>1
  <2> HIDE DEF SumOf
  <2>5. T # {} => /\ Some(T) \in T /\ len[Some(T)] \in Nat
                  /\ T \ {Some(T)} \in SUBSET T /\ T \ {Some(T)} # T
    BY SomeOf
  <2>6. F \in [SUBSET T -> Nat]
    BY <2>4, <2>5
  <2>7. ASSUME NEW U \in SUBSET T
        PROVE  F[U] = IF U = {} THEN 0 ELSE len[Some(U)] + F[U \ {Some(U)}]
    <3>1. CASE U = T
      BY <2>5, <3>1
    <3>2. CASE U # T /\ U # {}
      <4>1. U \ {Some(U)} \in SUBSET T /\ U \ {Some(U)} # T
        BY <3>2, SomeOf
      <4>2. QED
        BY <2>2, <3>2, <4>1
    <3>3. CASE U # T /\ U = {}
      BY <2>3, <3>3
    <3>4. QED
      BY <3>1, <3>2, <3>3
  <2>8. IsSum(len, F, T)
    BY <2>7 DEF IsSum
  <2>9. QED
    BY <2>6, <2>8
<1>2. A \in Good
  <2> HIDE DEF Good
  <2>1. Good \in SUBSET SUBSET A
    BY DEF Good
  <2>2. QED
    BY <1>1, <2>1, SetInduction
<1>3. QED
  BY <1>2

\* Whichever line is taken first.
LEMMA SumTakesAny ==
  ASSUME NEW A, NEW len, NEW f, NatSum(len, f, A), NEW a \in A
  PROVE  f[A] = len[a] + f[A \ {a}]
<1> DEFINE Good == {T \in SUBSET A : \A x \in T : f[T] = len[x] + f[T \ {x}]}
<1>1. ASSUME NEW T \in SUBSET A, \A U \in SUBSET T : U # T => U \in Good
      PROVE  T \in Good
  <2>1. ASSUME NEW x \in T PROVE f[T] = len[x] + f[T \ {x}]
    <3> DEFINE s == Some(T)
    <3>1. s \in T /\ f[T] = len[s] + f[T \ {s}]
      BY SomeOf DEF NatSum, IsSum
    <3>2. CASE x # s
      <4>1. f[T \ {s}] = len[x] + f[(T \ {s}) \ {x}]
        BY <1>1, <3>1, <3>2
      <4>2. f[T \ {x}] = len[s] + f[(T \ {x}) \ {s}]
        BY <1>1, <3>1, <3>2
      <4> DEFINE rest == f[(T \ {s}) \ {x}]
      <4>3. (T \ {x}) \ {s} = (T \ {s}) \ {x}
        OBVIOUS
      <4>4. f[T \ {x}] = len[s] + rest /\ f[T] = len[s] + (len[x] + rest)
        BY <3>1, <4>1, <4>2, <4>3
      <4>5. rest \in Nat /\ len[s] \in Nat /\ len[x] \in Nat
        BY <3>1 DEF NatSum
      <4> HIDE DEF s, rest
      <4>6. QED
        BY <4>4, <4>5
    <3>3. QED
      BY <3>1, <3>2
  <2>2. QED
    BY <2>1
<1>2. A \in Good
  <2> HIDE DEF Good
  <2>1. Good \in SUBSET SUBSET A
    BY DEF Good
  <2>2. QED
    BY <1>1, <2>1, SetInduction DEF NatSum
<1>3. QED
  BY <1>2

\* Sums of a set are sums of its subsets.
LEMMA PartialSum ==
  ASSUME NEW A, NEW len, NEW f, NatSum(len, f, A), NEW T \in SUBSET A
  PROVE  NatSum(len, f, T)
BY FS_Subset DEF NatSum, IsSum

\* A subset has no greater sum.
LEMMA SumGrows ==
  ASSUME NEW A, NEW len, NEW f, NatSum(len, f, A), NEW S \in SUBSET A
  PROVE  f[S] <= f[A]
<1> DEFINE Good == {T \in SUBSET A : S \subseteq T => f[S] <= f[T]}
<1>1. ASSUME NEW T \in SUBSET A, \A U \in SUBSET T : U # T => U \in Good
      PROVE  T \in Good
  <2>1. SUFFICES ASSUME S \subseteq T, S # T PROVE f[S] <= f[T]
    BY DEF NatSum
  <2>2. PICK x \in T : x \notin S
    BY <2>1
  <2>3. f[S] <= f[T \ {x}]
    BY <1>1, <2>1, <2>2
  <2>4. f[T] = len[x] + f[T \ {x}]
    <3>1. NatSum(len, f, T)
      BY PartialSum
    <3>2. QED
      BY <2>2, <3>1, SumTakesAny
  <2>5. f[S] \in Nat /\ f[T] \in Nat /\ f[T \ {x}] \in Nat /\ len[x] \in Nat
    BY DEF NatSum
  <2>6. QED
    BY <2>3, <2>4, <2>5
<1>2. A \in Good
  <2> HIDE DEF Good
  <2>1. Good \in SUBSET SUBSET A
    BY DEF Good
  <2>2. QED
    BY <1>1, <2>1, SetInduction DEF NatSum
<1>3. QED
  BY <1>2

\* The operator of the model is such a sum.
LEMMA TotalLenIsSum ==
  ASSUME NEW A, IsFiniteSet(A), net.len \in [A -> Nat], NEW S \in SUBSET A
  PROVE  \A f \in [SUBSET A -> Nat] : IsSum(net.len, f, A) => TotalLen(S) = f[S]
<1> DEFINE Body(iter) == [s \in SUBSET S |-> IF s = {} THEN 0
                            ELSE net.len[Some(s)] + iter[s \ {Some(s)}]]
           g == CHOOSE iter : iter = Body(iter)
<1>1. TotalLen(S) = g[S]
  BY DEF TotalLen, MapThenSumSet, MapThenFoldSet, Some
<1>2. SUFFICES ASSUME NEW f \in [SUBSET A -> Nat], IsSum(net.len, f, A) PROVE g[S] = f[S]
  BY <1>1
<1> DEFINE fS == [T \in SUBSET S |-> f[T]]
<1>3. IsSum(net.len, fS, S)
  BY <1>2, SomeOf DEF IsSum
<1>4. fS = Body(fS)
  <2>1. \A T \in SUBSET S : fS[T] = IF T = {} THEN 0 ELSE net.len[Some(T)] + fS[T \ {Some(T)}]
    BY <1>3 DEF IsSum
  <2>2. fS = [T \in SUBSET S |-> fS[T]]
    OBVIOUS
  <2> HIDE DEF fS
  <2>3. QED
    BY <2>1, <2>2
<1>5. g = Body(g)
  <2> HIDE DEF fS, Body
  <2>1. QED
    BY <1>4
<1>6. IsSum(net.len, g, S)
  <2>1. ASSUME NEW T \in SUBSET S
        PROVE  g[T] = IF T = {} THEN 0 ELSE net.len[Some(T)] + g[T \ {Some(T)}]
    <3>1. g[T] = Body(g)[T]
      BY <1>5
    <3> HIDE DEF g
    <3>2. QED
      BY <3>1
  <2>2. QED
    BY <2>1 DEF IsSum
<1>7. IsFiniteSet(S)
  BY FS_Subset
<1>8. g[S] = fS[S]
  <2> HIDE DEF fS, g
  <2>1. QED
    BY <1>3, <1>6, <1>7, SumIsUnique
<1>9. QED
  BY <1>8

\* A run is not shorter than a part of it.
LEMMA TotalLenGrows ==
  ASSUME NEW A, IsFiniteSet(A), net.len \in [A -> Nat], NEW T \in SUBSET A, NEW S \in SUBSET T
  PROVE  TotalLen(S) \in Nat /\ TotalLen(T) \in Nat /\ TotalLen(S) <= TotalLen(T)
<1>1. PICK f \in [SUBSET A -> Nat] : IsSum(net.len, f, A)
  BY SumExists
<1>2. TotalLen(S) = f[S] /\ TotalLen(T) = f[T]
  BY <1>1, TotalLenIsSum
<1>3. NatSum(net.len, f, A)
  BY <1>1 DEF NatSum
<1>4. NatSum(net.len, f, T)
  BY <1>3, PartialSum
<1>5. f[S] <= f[T]
  BY <1>4, SumGrows
<1>6. QED
  BY <1>2, <1>5
-----------------------------------------------------------------------------
\* The network.

\* Ends and their lines.
LEMMA EndFacts ==
  ASSUME ConstantsOK, TypeOK
  PROVE  /\ Ends = 1..Len(net.ends) /\ Len(net.ends) \in Nat /\ Len(net.ends) % 2 = 0
         /\ \A e \in Ends : /\ LineOf(e) \in Lines /\ OtherEnd(e) \in Ends /\ OtherEnd(e) # e
                            /\ LineOf(OtherEnd(e)) = LineOf(e) /\ OtherEnd(OtherEnd(e)) = e
                            /\ net.ends[e].dir \in 0..11
         /\ \A e, f \in Ends : LineOf(e) = LineOf(f) => f \in {e, OtherEnd(e)}
         /\ \A i \in Lines : /\ 2 * i \in Ends /\ 2 * i - 1 \in Ends
                             /\ LineOf(2 * i) = i /\ LineOf(2 * i - 1) = i
                             /\ OtherEnd(2 * i) = 2 * i - 1 /\ OtherEnd(2 * i - 1) = 2 * i
<1> DEFINE L == Len(net.ends)
<1>1. /\ Ends = 1..L /\ L \in Nat /\ L % 2 = 0
      /\ \A e \in Ends : net.ends[e].dir \in 0..11
  <2>1. CASE stage = "draw"
    <3>1. net.ends = <<>>
      BY <2>1 DEF TypeOK, Blank
    <3>2. Len(<<>>) = 0 /\ DOMAIN <<>> = {} /\ 1..0 = {}
      OBVIOUS
    <3>3. QED
      BY <3>1, <3>2 DEF Ends
  <2>2. CASE stage # "draw"
    BY <2>2 DEF TypeOK, ConstantsOK, Ends
  <2>3. QED
    BY <2>1, <2>2
<1>2. Lines = 1..(L \div 2)
  BY DEF Lines
<1> HIDE DEF L
<1>3. ASSUME NEW e \in 1..L
      PROVE  /\ LineOf(e) \in 1..(L \div 2) /\ OtherEnd(e) \in 1..L /\ OtherEnd(e) # e
             /\ LineOf(OtherEnd(e)) = LineOf(e) /\ OtherEnd(OtherEnd(e)) = e
  BY <1>1 DEF LineOf, OtherEnd
<1>4. ASSUME NEW e \in 1..L, NEW f \in 1..L, LineOf(e) = LineOf(f)
      PROVE  f \in {e, OtherEnd(e)}
  BY <1>1, <1>4 DEF LineOf, OtherEnd
<1>5. ASSUME NEW i \in 1..(L \div 2)
      PROVE  /\ 2 * i \in 1..L /\ 2 * i - 1 \in 1..L
             /\ LineOf(2 * i) = i /\ LineOf(2 * i - 1) = i
             /\ OtherEnd(2 * i) = 2 * i - 1 /\ OtherEnd(2 * i - 1) = 2 * i
  BY <1>1 DEF LineOf, OtherEnd
<1>6. QED
  BY <1>1, <1>2, <1>3, <1>4, <1>5 DEF L

\* The lines of a network are finitely many numbers.
LEMMA LinesFinite ==
  ASSUME ConstantsOK, TypeOK PROVE IsFiniteSet(Lines) /\ Lines \subseteq Nat
<1> DEFINE n == Len(net.ends) \div 2
<1>1. n \in Int /\ 1 \in Int /\ Lines = 1..n
  BY EndFacts DEF Lines
<1> HIDE DEF n
<1>2. IsFiniteSet(1..n) /\ 1..n \subseteq Nat
  BY <1>1, FS_Interval
<1>3. QED
  BY <1>1, <1>2

\* How straight on the way is does not depend on its direction.
LEMMA DeviationFacts ==
  ASSUME ConstantsOK, TypeOK, NEW a \in Ends, NEW b \in Ends
  PROVE  Deviation(a, b) \in Nat /\ Deviation(a, b) = Deviation(b, a)
<1>1. net.ends[a].dir \in 0..11 /\ net.ends[b].dir \in 0..11
  BY EndFacts
<1> DEFINE x == net.ends[a].dir
           y == net.ends[b].dir
           t == (x - y + 6) % 12
           u == (y - x + 6) % 12
<1>2. (t = 0 /\ u = 0) \/ (t \in 1..11 /\ u = 12 - t)
  <2> HIDE DEF x, y
  <2>1. x \in 0..11 /\ y \in 0..11
    BY <1>1 DEF x, y
  <2>2. QED
    BY <2>1
<1> HIDE DEF t, u
<1>3. (IF t > 6 THEN 12 - t ELSE t) = (IF u > 6 THEN 12 - u ELSE u) /\ (IF t > 6 THEN 12 - t ELSE t) \in Nat
  BY <1>2
<1>4. QED
  BY <1>3 DEF Deviation, t, u

\* A stroke that may pass a node may pass it the other way.
LEMMA MayPassBothWays ==
  ASSUME ConstantsOK, TypeOK, NEW a \in Ends, NEW b \in Ends, MayPass(a, b)
  PROVE  MayPass(b, a) /\ a # b
BY DeviationFacts DEF MayPass

\* The network does not change after it has been drawn, but for lengths and symbols.
LEMMA SameShape ==
  ASSUME net'.ends = net.ends
  PROVE  /\ Ends' = Ends /\ Lines' = Lines
         /\ \A a, b : Deviation(a, b)' = Deviation(a, b) /\ MayPass(a, b)' = MayPass(a, b)
         /\ \A ch, leave : IsWay(ch, leave)' = IsWay(ch, leave)
BY DEF Ends, Lines, Deviation, MayPass, EndsAt, IsWay

-----------------------------------------------------------------------------
\* Types.

\* Types hold at the start.
LEMMA TypeInit == ConstantsOK /\ Init => TypeOK
BY DEF Init, TypeOK, Blank, Ends, Lines, NoWalk, Stages, Joined

\* The pairs of partners.
LEMMA PairTypes ==
  ASSUME ConstantsOK, TypeOK, stage = "pair" \/ stage = "draw", DrawRoads \/ PairEnds \/ EndsPaired
  PROVE  TypeOK'
<1>1. CASE DrawRoads
  <2>1. PICK shape \in Shapes : net' = [net EXCEPT !.ends = shape] /\ partner' = [e \in DOMAIN shape |-> 0]
    BY <1>1 DEF DrawRoads
  <2>2. net'.ends = shape /\ DOMAIN net' = {"ends", "len", "code"}
    BY <1>1, <2>1 DEF TypeOK, DrawRoads
  <2>3. chains = <<>> /\ walk = NoWalk
    BY <1>1 DEF DrawRoads, TypeOK
  <2>4. chains' \in Seq(Seq(Lines')) /\ walk' \in [lines : Seq(Lines'), at : {0} \cup Ends']
    BY <1>1, <2>3 DEF DrawRoads, NoWalk
  <2>5. partner' \in [Ends' -> {0} \cup Ends']
    BY <2>1, <2>2 DEF Ends
  <2>6. QED
    BY <1>1, <2>2, <2>4, <2>5 DEF DrawRoads, TypeOK, Stages, Joined
<1>2. CASE PairEnds
  <2>1. PICK c \in FreePairs : partner' = [partner EXCEPT ![c[1]] = c[2], ![c[2]] = c[1]]
    BY <1>2 DEF PairEnds
  <2>2. c[1] \in Ends /\ c[2] \in Ends
    BY DEF FreePairs
  <2>3. partner' \in [Ends -> {0} \cup Ends]
    BY <2>1, <2>2 DEF TypeOK
  <2>4. QED
    BY <1>2, <2>3 DEF PairEnds, TypeOK, Ends, Lines, Joined, Stages
<1>3. CASE EndsPaired
  BY <1>3 DEF EndsPaired, TypeOK, Ends, Lines, Joined, Stages
<1>4. QED
  BY <1>1, <1>2, <1>3

-----------------------------------------------------------------------------
\* How the lines are joined: JoinInv.

\* And so does all of JoinInv.
LEMMA JoinInit == ConstantsOK /\ Init => JoinInv
<1> SUFFICES ASSUME ConstantsOK, Init PROVE JoinInv
  OBVIOUS
<1>1. Ends = {} /\ DOMAIN chains = {} /\ ToSet(chains) = {}
  BY DEF Init, Blank, Ends, ToSet
<1>2. QED
  BY <1>1, TypeInit DEF Init, JoinInv, PartnersMeet, StraightestFirst, LinesOnce, StrokesClosed,
     Underway, Joined

\* The straightest pair of ends that are free.
LEMMA PairsStep ==
  ASSUME ConstantsOK, TypeOK, PartnersMeet, StraightestFirst, PairEnds
  PROVE  PartnersMeet' /\ StraightestFirst'
<1>1. PICK c \in FreePairs : /\ \A d \in FreePairs : Before(c, d)
                             /\ partner' = [partner EXCEPT ![c[1]] = c[2], ![c[2]] = c[1]]
  BY DEF PairEnds
<1> DEFINE a == c[1]
           b == c[2]
<1>2. /\ a \in Ends /\ b \in Ends /\ a # b /\ partner[a] = 0 /\ partner[b] = 0
      /\ MayPass(a, b) /\ MayPass(b, a) /\ 0 \notin Ends
  BY MayPassBothWays, EndFacts DEF FreePairs
<1>3. /\ partner'[a] = b /\ partner'[b] = a
      /\ \A e \in Ends \ {a, b} : partner'[e] = partner[e]
  BY <1>1, <1>2 DEF TypeOK
<1>4. net'.ends = net.ends /\ stage' = stage /\ stage = "pair"
  BY DEF PairEnds
<1> HIDE DEF a, b
<1>5. PartnersMeet'
  <2>1. ASSUME NEW e \in Ends, partner'[e] # 0
        PROVE  partner'[partner'[e]] = e /\ MayPass(e, partner'[e])
    <3>1. CASE e \in {a, b}
      BY <1>2, <1>3, <3>1
    <3>2. CASE e \notin {a, b}
      <4>1. partner[e] # 0 /\ partner'[e] = partner[e] /\ partner[e] \in Ends
        BY <1>3, <2>1, <3>2 DEF TypeOK
      <4>2. partner[partner[e]] = e /\ MayPass(e, partner[e])
        BY <4>1 DEF PartnersMeet
      <4>3. partner[e] \notin {a, b}
        BY <1>2, <4>2, EndFacts, <3>2
      <4>4. QED
        BY <1>3, <4>1, <4>2, <4>3
    <3>3. QED
      BY <3>1, <3>2
  <2>2. QED
    BY <1>4, <2>1, SameShape DEF PartnersMeet
<1>6. StraightestFirst'
  <2>1. ASSUME NEW x \in Ends, NEW y \in Ends, MayPass(x, y)
        PROVE  \/ partner'[x] = 0 /\ partner'[y] = 0
               \/ \E e \in {x, y} : partner'[e] # 0 /\ Deviation(e, partner'[e]) <= Deviation(x, y)
    <3>1. CASE partner[x] = 0 /\ partner[y] = 0 /\ {x, y} \cap {a, b} # {}
      <4>1. <<x, y>> \in FreePairs \/ <<y, x>> \in FreePairs
        BY <2>1, <3>1, MayPassBothWays, EndFacts DEF FreePairs
      <4>2. Before(c, <<x, y>>) \/ Before(c, <<y, x>>)
        BY <1>1, <4>1
      <4>3. Deviation(a, b) <= Deviation(x, y)
        BY <4>2, <1>2, <2>1, DeviationFacts DEF Before, a, b
      <4>4. QED
        BY <1>2, <1>3, <3>1, <4>3, DeviationFacts
    <3>2. CASE partner[x] = 0 /\ partner[y] = 0 /\ {x, y} \cap {a, b} = {}
      BY <1>3, <3>2
    <3>3. CASE ~(partner[x] = 0 /\ partner[y] = 0)
      <4>1. PICK e \in {x, y} : partner[e] # 0 /\ Deviation(e, partner[e]) <= Deviation(x, y)
        BY <2>1, <3>3 DEF StraightestFirst
      <4>2. partner'[e] = partner[e]
        BY <1>2, <1>3, <4>1
      <4>3. QED
        BY <4>1, <4>2
    <3>4. QED
      BY <3>1, <3>2, <3>3
  <2>2. QED
    BY <1>4, <2>1, SameShape DEF StraightestFirst
<1>7. QED
  BY <1>5, <1>6

\* Drawing the network and pairing its ends keep JoinInv.
LEMMA PairingStep ==
  ASSUME ConstantsOK, JoinInv, DrawRoads \/ PairEnds \/ EndsPaired
  PROVE  JoinInv'
<1>1. stage \in {"draw", "pair"} /\ chains = <<>> /\ chains' = <<>> /\ walk' = NoWalk
  BY DEF JoinInv, TypeOK, DrawRoads, PairEnds, EndsPaired
<1>2. TypeOK'
  BY <1>1, PairTypes DEF JoinInv
<1>3. LinesOnce' /\ StrokesClosed' /\ Underway' /\ ~Joined'
  BY <1>1 DEF LinesOnce, StrokesClosed, Underway, ToSet, Joined, DrawRoads, PairEnds, EndsPaired
<1>4. PartnersMeet' /\ StraightestFirst'
  <2>1. CASE DrawRoads
    <3>1. \A e \in Ends' : partner'[e] = 0
      <4>1. PICK shape \in Shapes :
              net' = [net EXCEPT !.ends = shape] /\ partner' = [e \in DOMAIN shape |-> 0]
        BY <2>1 DEF DrawRoads
      <4>2. Ends' = DOMAIN shape
        BY <4>1 DEF JoinInv, TypeOK, Ends
      <4>3. QED
        BY <4>1, <4>2
    <3>2. stage' = "pair"
      BY <2>1 DEF DrawRoads
    <3>3. QED
      BY <3>1, <3>2 DEF PartnersMeet, StraightestFirst
  <2>2. CASE PairEnds
    BY <2>2, PairsStep DEF JoinInv
  <2>3. CASE EndsPaired
    <3>1. net' = net /\ partner' = partner /\ FreePairs = {}
      BY <2>3 DEF EndsPaired
    <3>2. \A a, b \in Ends : MayPass(a, b) => ~(partner[a] = 0 /\ partner[b] = 0)
      <4>1. ASSUME NEW a \in Ends, NEW b \in Ends, MayPass(a, b), partner[a] = 0, partner[b] = 0
            PROVE  FALSE
        <5>1. MayPass(b, a) /\ a # b /\ (a < b \/ b < a)
          BY <4>1, MayPassBothWays, EndFacts DEF JoinInv
        <5>2. <<a, b>> \in FreePairs \/ <<b, a>> \in FreePairs
          BY <4>1, <5>1 DEF FreePairs
        <5>3. QED
          BY <3>1, <5>2
      <4>2. QED
        BY <4>1
    <3>3. QED
      BY <3>1, <3>2, SameShape DEF JoinInv, PartnersMeet, StraightestFirst
  <2>4. QED
    BY <2>1, <2>2, <2>3
<1>5. QED
  BY <1>2, <1>3, <1>4 DEF JoinInv

-----------------------------------------------------------------------------
\* The walks.

\* The elements of a sequence with one more at the end,
LEMMA SetOfAppended ==
  ASSUME NEW S, NEW s \in Seq(S), NEW x \in S
  PROVE  ToSet(Append(s, x)) = ToSet(s) \cup {x}
<1>1. \A i \in DOMAIN s : i \in DOMAIN Append(s, x) /\ Append(s, x)[i] = s[i]
  OBVIOUS
<1>2. Len(s) + 1 \in DOMAIN Append(s, x) /\ Append(s, x)[Len(s) + 1] = x
  OBVIOUS
<1>3. \A i \in DOMAIN Append(s, x) : i \in DOMAIN s \/ i = Len(s) + 1
  OBVIOUS
<1>4. QED
  BY <1>1, <1>2, <1>3 DEF ToSet

\* of one with one more in front,
LEMMA Prepended ==
  ASSUME NEW S, NEW s \in Seq(S), NEW x \in S
  PROVE  /\ DOMAIN (<<x>> \o s) = 1..Len(s) + 1 /\ Len(<<x>> \o s) = Len(s) + 1
         /\ (<<x>> \o s)[1] = x
         /\ \A i \in 1..Len(s) : (<<x>> \o s)[i + 1] = s[i]
OBVIOUS

\* and their set.
LEMMA SetOfPrepended ==
  ASSUME NEW S, NEW s \in Seq(S), NEW x \in S
  PROVE  ToSet(<<x>> \o s) = ToSet(s) \cup {x}
<1> DEFINE t == <<x>> \o s
<1>1. /\ 1 \in DOMAIN t /\ t[1] = x
      /\ \A i \in DOMAIN s : i + 1 \in DOMAIN t /\ t[i + 1] = s[i]
      /\ \A i \in DOMAIN t : i = 1 \/ (i - 1 \in DOMAIN s /\ t[i] = s[i - 1])
  OBVIOUS
<1> HIDE DEF t
<1>2. ToSet(t) = ToSet(s) \cup {x}
  BY <1>1 DEF ToSet
<1>3. QED
  BY <1>2 DEF t

\* A new element keeps the elements distinct.
LEMMA Injected ==
  ASSUME NEW S, NEW s \in Seq(S), NEW x \in S, IsInjective(s), x \notin ToSet(s)
  PROVE  IsInjective(Append(s, x)) /\ IsInjective(<<x>> \o s)
<1>1. \A i \in DOMAIN s : s[i] # x
  BY DEF ToSet
<1>2. IsInjective(Append(s, x))
  BY <1>1 DEF IsInjective
<1>3. IsInjective(<<x>> \o s)
  <2>1. /\ (<<x>> \o s)[1] = x
        /\ \A i \in DOMAIN (<<x>> \o s) : i = 1 \/ (i - 1 \in DOMAIN s /\ (<<x>> \o s)[i] = s[i - 1])
        /\ \A i \in DOMAIN s : i \in Nat
    OBVIOUS
  <2>2. QED
    BY <1>1, <2>1 DEF IsInjective
<1>4. QED
  BY <1>2, <1>3

\* The lines of the strokes with one more stroke.
LEMMA CoveredAppended ==
  ASSUME NEW T, NEW chs \in Seq(T), NEW ch \in T
  PROVE  Covered(Append(chs, ch)) = Covered(chs) \cup ToSet(ch)
<1>1. ToSet(Append(chs, ch)) = ToSet(chs) \cup {ch}
  BY SetOfAppended
<1>2. QED
  BY <1>1 DEF Covered

\* The partner of an end is at the same node, on another line.
LEMMA PartnerFacts ==
  ASSUME ConstantsOK, TypeOK, PartnersMeet, NEW e \in Ends, partner[e] # 0
  PROVE  /\ partner[e] \in Ends /\ partner[partner[e]] = e /\ e # 0
         /\ net.ends[e].node = net.ends[partner[e]].node
         /\ LineOf(partner[e]) \in Lines /\ LineOf(partner[e]) # LineOf(e)
<1>1. partner[e] \in Ends
  BY DEF TypeOK
<1>2. e # 0 /\ LineOf(partner[e]) \in Lines
  BY <1>1, EndFacts
<1>3. partner[partner[e]] = e /\ MayPass(e, partner[e])
  BY DEF PartnersMeet
<1>4. QED
  BY <1>1, <1>2, <1>3 DEF MayPass

\* The stroke under way has a line, and the end it goes on from is one of its own.
LEMMA UnderwayFacts ==
  ASSUME ConstantsOK, JoinInv, stage \in {"forth", "back"}
  PROVE  /\ walk.lines \in Seq(Lines) /\ Len(walk.lines) \in Nat \ {0} /\ walk.at \in Ends
         /\ LineOf(walk.at) \in ToSet(walk.lines)
         /\ Start \in Ends /\ LineOf(Start) = walk.lines[1]
<1>1. walk.lines \in Seq(Lines) /\ walk.lines # <<>>
  BY DEF JoinInv, TypeOK, Underway
<1>2. Len(walk.lines) \in Nat \ {0} /\ DOMAIN walk.lines = 1..Len(walk.lines)
  BY <1>1
<1>3. walk.lines[1] \in Lines
  BY <1>1, <1>2
<1>4. Start \in Ends /\ LineOf(Start) = walk.lines[1]
  BY <1>3, EndFacts DEF JoinInv, Start
<1>5. PICK leave \in [DOMAIN walk.lines -> Ends] :
         /\ IsWay(walk.lines, leave)
         /\ IF stage = "back" THEN OtherEnd(leave[1]) = walk.at
            ELSE leave[1] = 2 * walk.lines[1] /\ leave[Len(walk.lines)] = walk.at
  BY DEF JoinInv, Underway
<1>6. \A j \in DOMAIN walk.lines : leave[j] \in Ends /\ LineOf(leave[j]) = walk.lines[j]
  BY <1>5 DEF IsWay
<1>7. walk.at \in Ends /\ \E j \in DOMAIN walk.lines : LineOf(walk.at) = walk.lines[j]
  BY <1>2, <1>5, <1>6, EndFacts DEF JoinInv
<1>8. QED
  BY <1>1, <1>2, <1>4, <1>7 DEF ToSet

\* Where the way does not go on, its last end has no partner on another line: the
\* strokes that are done have none outside.
LEMMA WayEnds ==
  ASSUME ConstantsOK, JoinInv, stage \in {"forth", "back"}, ~GoesOn, partner[walk.at] # 0
  PROVE  LineOf(partner[walk.at]) \in ToSet(walk.lines)
<1> DEFINE p == partner[walk.at]
<1>1. p \in Ends /\ partner[p] = walk.at /\ walk.at # 0
  BY PartnerFacts, UnderwayFacts DEF JoinInv
<1>2. LineOf(p) \in Covered(chains) \cup ToSet(walk.lines)
  BY DEF GoesOn, Seen
<1>3. LineOf(walk.at) \notin Covered(chains)
  BY UnderwayFacts DEF JoinInv, Underway
<1>4. ASSUME NEW ch \in ToSet(chains), LineOf(p) \in ToSet(ch) PROVE FALSE
  <2>1. LineOf(partner[p]) \in ToSet(ch)
    BY <1>1, <1>4 DEF JoinInv, StrokesClosed, Closed
  <2>2. QED
    BY <1>1, <1>3, <2>1 DEF Covered
<1>5. QED
  BY <1>2, <1>4 DEF Covered

\* A stroke starts with one line, open at both ends.
LEMMA StartStep ==
  ASSUME ConstantsOK, JoinInv, StartStroke
  PROVE  TypeOK' /\ Underway'
<1>1. PICK i \in Lines \ Seen : walk' = [lines |-> <<i>>, at |-> 2 * i]
  BY DEF StartStroke
<1>2. stage = "walk" /\ stage' = "forth" /\ net' = net /\ partner' = partner /\ chains' = chains
  BY DEF StartStroke
<1>3. 2 * i \in Ends /\ LineOf(2 * i) = i /\ OtherEnd(2 * i) = 2 * i - 1 /\ i \in Lines
  BY EndFacts DEF JoinInv
<1>4. TypeOK'
  <2>1. walk' \in [lines : Seq(Lines), at : {0} \cup Ends]
    BY <1>1, <1>3
  <2>2. QED
    BY <1>2, <2>1 DEF JoinInv, TypeOK, StartStroke, Joined, Stages, Ends, Lines
<1>5. walk'.lines = <<i>> /\ walk'.at = 2 * i
  BY <1>1
<1>6. ToSet(walk'.lines) = {i} /\ IsInjective(walk'.lines) /\ DOMAIN walk'.lines = {1}
  BY <1>5 DEF ToSet, IsInjective
<1>7. OpenEnds' = {2 * i, 2 * i - 1}
  BY <1>2, <1>5 DEF OpenEnds, Start
<1>8. Closed(ToSet(walk.lines), OpenEnds)'
  <2>1. \A e \in Ends : LineOf(e) = i => e \in OpenEnds'
    BY <1>3, <1>7, EndFacts DEF JoinInv
  <2>2. QED
    BY <1>2, <1>6, <2>1 DEF Closed, Ends
<1>9. i \notin Covered(chains)
  BY DEF Seen
<1>10. \E leave \in [DOMAIN walk'.lines -> Ends] :
         IsWay(walk'.lines, leave) /\ leave[1] = 2 * walk'.lines[1] /\ leave[Len(walk'.lines)] = walk'.at
  <2> DEFINE leave == [j \in {1} |-> 2 * i]
  <2>1. leave \in [DOMAIN walk'.lines -> Ends] /\ leave[1] = 2 * i
    BY <1>3, <1>6
  <2>2. Len(walk'.lines) = 1
    BY <1>5
  <2>3. IsWay(walk'.lines, leave)
    BY <1>3, <1>5, <1>6, <2>1, <2>2 DEF IsWay
  <2>4. QED
    BY <1>5, <2>1, <2>2, <2>3
<1>11. Underway'
  BY <1>2, <1>5, <1>6, <1>8, <1>9, <1>10 DEF Underway, IsWay, Ends
<1>12. QED
  BY <1>4, <1>11

\* The next line is open at its other end only.
LEMMA GoForthStep ==
  ASSUME ConstantsOK, JoinInv, GoForth
  PROVE  TypeOK' /\ Underway'
<1> DEFINE p == partner[walk.at]
           l == LineOf(p)
           w == walk.lines
           n == Len(w)
<1>1. /\ stage = "forth" /\ stage' = "forth" /\ net' = net /\ partner' = partner /\ chains' = chains
      /\ walk' = [lines |-> Append(w, l), at |-> OtherEnd(p)]
      /\ p # 0 /\ l \notin Covered(chains) /\ l \notin ToSet(w)
  BY DEF GoForth, GoesOn, Seen
<1>2. /\ w \in Seq(Lines) /\ n \in Nat \ {0} /\ walk.at \in Ends
      /\ LineOf(walk.at) \in ToSet(w)
  BY <1>1, UnderwayFacts
<1>3. /\ p \in Ends /\ partner[p] = walk.at /\ net.ends[walk.at].node = net.ends[p].node /\ l \in Lines
  BY <1>1, <1>2, PartnerFacts DEF JoinInv
<1>4. /\ OtherEnd(p) \in Ends /\ LineOf(OtherEnd(p)) = l /\ OtherEnd(OtherEnd(p)) = p
      /\ \A e \in Ends : LineOf(e) = l => e \in {p, OtherEnd(p)}
  BY <1>3, EndFacts DEF JoinInv
<1> HIDE DEF l
<1>5. TypeOK'
  <2>1. walk' \in [lines : Seq(Lines), at : {0} \cup Ends]
    BY <1>1, <1>2, <1>3, <1>4
  <2>2. QED
    BY <1>1, <2>1 DEF JoinInv, TypeOK, GoForth, Joined, Stages, Ends, Lines
<1>6. walk'.lines = Append(w, l) /\ walk'.at = OtherEnd(p)
  BY <1>1
<1>7. ToSet(walk'.lines) = ToSet(w) \cup {l} /\ IsInjective(walk'.lines)
  <2>1. IsInjective(w)
    BY <1>1 DEF JoinInv, Underway
  <2>2. ToSet(Append(w, l)) = ToSet(w) \cup {l}
    BY <1>2, <1>3, SetOfAppended
  <2>3. IsInjective(Append(w, l))
    BY <1>1, <1>2, <1>3, <2>1, Injected
  <2>4. QED
    BY <1>6, <2>2, <2>3
<1>8. /\ DOMAIN walk'.lines = 1..n+1 /\ Len(walk'.lines) = n + 1 /\ DOMAIN w = 1..n
      /\ walk'.lines[1] = w[1] /\ walk'.lines[n+1] = l /\ walk'.lines # <<>>
      /\ \A j \in 1..n : walk'.lines[j] = w[j]
  BY <1>2, <1>3, <1>6
<1>9. Start' = Start /\ OpenEnds' = {OtherEnd(p), Start}
  BY <1>1, <1>6, <1>8 DEF Start, OpenEnds
<1>10. Closed(ToSet(walk.lines), OpenEnds)'
  <2>1. ASSUME NEW e \in Ends \ {OtherEnd(p), Start}, LineOf(e) \in ToSet(w) \cup {l}, partner[e] # 0
        PROVE  LineOf(partner[e]) \in ToSet(w) \cup {l}
    <3>1. CASE LineOf(e) = l
      BY <1>2, <1>3, <1>4, <2>1, <3>1
    <3>2. CASE e = walk.at
      BY <3>2 DEF l
    <3>3. CASE LineOf(e) \in ToSet(w) /\ e # walk.at
      <4>1. e \notin OpenEnds
        BY <1>1, <2>1, <3>3 DEF OpenEnds
      <4>2. QED
        BY <1>1, <2>1, <3>3, <4>1 DEF JoinInv, Underway, Closed
    <3>4. QED
      BY <2>1, <3>1, <3>2, <3>3
  <2>2. QED
    BY <1>1, <1>7, <1>9, <2>1 DEF Closed, Ends
<1>11. ToSet(walk'.lines) \cap Covered(chains) = {}
  BY <1>1, <1>7 DEF JoinInv, Underway
<1>12. \E leave \in [DOMAIN walk'.lines -> Ends] :
         IsWay(walk'.lines, leave) /\ leave[1] = 2 * walk'.lines[1] /\ leave[Len(walk'.lines)] = walk'.at
  <2>1. PICK lv \in [1..n -> Ends] : IsWay(w, lv) /\ lv[1] = 2 * w[1] /\ lv[n] = walk.at
    BY <1>1, <1>8 DEF JoinInv, Underway
  <2> DEFINE leave == [j \in 1..n+1 |-> IF j <= n THEN lv[j] ELSE OtherEnd(p)]
  <2>2. /\ leave \in [1..n+1 -> Ends] /\ leave[n+1] = OtherEnd(p)
        /\ \A j \in 1..n : leave[j] = lv[j]
    BY <1>2, <1>4
  <2> HIDE DEF leave
  <2>3. \A j \in 1..n+1 : LineOf(leave[j]) = walk'.lines[j]
    <3>1. \A j \in 1..n : LineOf(lv[j]) = w[j]
      BY <1>8, <2>1 DEF IsWay
    <3>2. \A j \in 1..n+1 : j \in 1..n \/ j = n + 1
      BY <1>2
    <3>3. QED
      BY <1>4, <1>8, <2>2, <3>1, <3>2
  <2>4. \A j \in 1..n : net.ends[leave[j]].node = net.ends[OtherEnd(leave[j + 1])].node
    <3>1. ASSUME NEW j \in 1..n, j # n
          PROVE  net.ends[leave[j]].node = net.ends[OtherEnd(leave[j + 1])].node
      <4>1. j < n /\ j + 1 \in 1..n
        BY <1>2, <3>1
      <4>2. net.ends[lv[j]].node = net.ends[OtherEnd(lv[j + 1])].node
        BY <1>8, <2>1, <4>1 DEF IsWay
      <4>3. QED
        BY <2>2, <4>1, <4>2
    <3>2. net.ends[leave[n]].node = net.ends[OtherEnd(leave[n + 1])].node
      BY <1>2, <1>3, <1>4, <2>1, <2>2
    <3>3. QED
      BY <3>1, <3>2
  <2>5. IsWay(walk'.lines, leave)
    <3>1. \A j \in 1..n+1 : j < n + 1 => j \in 1..n
      BY <1>2
    <3>2. QED
      BY <1>8, <2>3, <2>4, <3>1 DEF IsWay
  <2>6. 1 \in 1..n
    BY <1>2
  <2>7. QED
    BY <1>6, <1>8, <2>1, <2>2, <2>5, <2>6
<1>13. Underway'
  <2>1. \A leave : IsWay(walk.lines, leave)' <=> IsWay(walk'.lines, leave)
    BY <1>1 DEF IsWay
  <2>2. Ends' = Ends
    BY <1>1 DEF Ends
  <2>3. QED
    BY <1>1, <1>7, <1>8, <1>10, <1>11, <1>12, <2>1, <2>2 DEF Underway, Covered
<1>14. QED
  BY <1>5, <1>13

\* Where it does not go on it is closed; its start is still open.
LEMMA TurnBackStep ==
  ASSUME ConstantsOK, JoinInv, TurnBack
  PROVE  TypeOK' /\ Underway'
<1> DEFINE w == walk.lines
<1>1. /\ stage = "forth" /\ stage' = "back" /\ net' = net /\ partner' = partner /\ chains' = chains
      /\ walk' = [walk EXCEPT !.at = Start] /\ ~GoesOn
  BY DEF TurnBack, Start
<1>2. /\ w \in Seq(Lines) /\ Len(w) \in Nat \ {0} /\ Start \in Ends
  BY <1>1, UnderwayFacts
<1>3. walk'.lines = w /\ walk'.at = Start
  BY <1>1 DEF JoinInv, TypeOK
<1>4. TypeOK'
  <2>1. walk' \in [lines : Seq(Lines), at : {0} \cup Ends]
    BY <1>1, <1>2 DEF JoinInv, TypeOK
  <2>2. QED
    BY <1>1, <2>1 DEF JoinInv, TypeOK, TurnBack, Joined, Stages, Ends, Lines
<1>5. Closed(ToSet(walk.lines), OpenEnds)'
  <2>1. ASSUME NEW e \in Ends \ {Start}, LineOf(e) \in ToSet(w), partner[e] # 0
        PROVE  LineOf(partner[e]) \in ToSet(w)
    <3>1. CASE e = walk.at
      BY <1>1, <2>1, <3>1, WayEnds
    <3>2. CASE e # walk.at
      <4>1. e \notin OpenEnds
        BY <1>1, <2>1, <3>2 DEF OpenEnds
      <4>2. QED
        BY <1>1, <2>1, <4>1 DEF JoinInv, Underway, Closed
    <3>3. QED
      BY <3>1, <3>2
  <2>2. OpenEnds' = {Start}
    BY <1>1, <1>3 DEF OpenEnds
  <2>3. QED
    BY <1>1, <1>3, <2>1, <2>2 DEF Closed, Ends
<1>6. \E leave \in [DOMAIN w -> Ends] : IsWay(w, leave) /\ OtherEnd(leave[1]) = Start
  <2>1. w[1] \in Lines
    BY <1>2
  <2>2. OtherEnd(2 * w[1]) = 2 * w[1] - 1
    BY <2>1, EndFacts DEF JoinInv
  <2>3. QED
    BY <1>1, <2>2 DEF JoinInv, Underway, Start
<1>7. Underway'
  <2>1. \A leave : IsWay(walk.lines, leave)' <=> IsWay(walk'.lines, leave)
    BY <1>1 DEF IsWay
  <2>2. Ends' = Ends
    BY <1>1 DEF Ends
  <2>3. w # <<>> /\ IsInjective(w) /\ ToSet(w) \cap Covered(chains) = {}
    BY <1>1 DEF JoinInv, Underway
  <2>4. QED
    BY <1>1, <1>3, <1>5, <1>6, <2>1, <2>2, <2>3 DEF Underway, Covered
<1>8. QED
  BY <1>4, <1>7

\* A line in front leads to the line that was first.
LEMMA GoBackStep ==
  ASSUME ConstantsOK, JoinInv, GoBack
  PROVE  TypeOK' /\ Underway'
<1> DEFINE p == partner[walk.at]
           l == LineOf(p)
           w == walk.lines
           n == Len(w)
<1>1. /\ stage = "back" /\ stage' = "back" /\ net' = net /\ partner' = partner /\ chains' = chains
      /\ walk' = [lines |-> <<l>> \o w, at |-> OtherEnd(p)]
      /\ p # 0 /\ l \notin Covered(chains) /\ l \notin ToSet(w)
  BY DEF GoBack, GoesOn, Seen
<1>2. /\ w \in Seq(Lines) /\ n \in Nat \ {0} /\ walk.at \in Ends
      /\ LineOf(walk.at) \in ToSet(w)
  BY <1>1, UnderwayFacts
<1>3. /\ p \in Ends /\ partner[p] = walk.at /\ net.ends[walk.at].node = net.ends[p].node /\ l \in Lines
  BY <1>1, <1>2, PartnerFacts DEF JoinInv
<1>4. /\ OtherEnd(p) \in Ends /\ LineOf(OtherEnd(p)) = l /\ OtherEnd(OtherEnd(p)) = p
      /\ \A e \in Ends : LineOf(e) = l => e \in {p, OtherEnd(p)}
  BY <1>3, EndFacts DEF JoinInv
<1> HIDE DEF l
<1>5. TypeOK'
  <2>1. walk' \in [lines : Seq(Lines), at : {0} \cup Ends]
    BY <1>1, <1>2, <1>3, <1>4
  <2>2. QED
    BY <1>1, <2>1 DEF JoinInv, TypeOK, GoBack, Joined, Stages, Ends, Lines
<1>6. walk'.lines = <<l>> \o w /\ walk'.at = OtherEnd(p)
  BY <1>1
<1>7. ToSet(walk'.lines) = ToSet(w) \cup {l} /\ IsInjective(walk'.lines)
  <2>1. IsInjective(w)
    BY <1>1 DEF JoinInv, Underway
  <2>2. ToSet(<<l>> \o w) = ToSet(w) \cup {l}
    BY <1>2, <1>3, SetOfPrepended
  <2>3. IsInjective(<<l>> \o w)
    BY <1>1, <1>2, <1>3, <2>1, Injected
  <2>4. QED
    BY <1>6, <2>2, <2>3
<1>8. /\ DOMAIN walk'.lines = 1..n+1 /\ Len(walk'.lines) = n + 1 /\ DOMAIN w = 1..n
      /\ walk'.lines[1] = l /\ walk'.lines # <<>>
      /\ \A j \in 1..n : walk'.lines[j + 1] = w[j]
  BY <1>2, <1>3, <1>6, Prepended
<1>9. OpenEnds' = {OtherEnd(p)} /\ OpenEnds = {walk.at}
  BY <1>1, <1>6 DEF OpenEnds
<1>10. Closed(ToSet(walk.lines), OpenEnds)'
  <2>1. ASSUME NEW e \in Ends \ {OtherEnd(p)}, LineOf(e) \in ToSet(w) \cup {l}, partner[e] # 0
        PROVE  LineOf(partner[e]) \in ToSet(w) \cup {l}
    <3>1. CASE LineOf(e) = l
      BY <1>2, <1>3, <1>4, <2>1, <3>1
    <3>2. CASE e = walk.at
      BY <3>2 DEF l
    <3>3. CASE LineOf(e) \in ToSet(w) /\ e # walk.at
      BY <1>1, <1>9, <2>1, <3>3 DEF JoinInv, Underway, Closed
    <3>4. QED
      BY <2>1, <3>1, <3>2, <3>3
  <2>2. QED
    BY <1>1, <1>7, <1>9, <2>1 DEF Closed, Ends
<1>11. ToSet(walk'.lines) \cap Covered(chains) = {}
  BY <1>1, <1>7 DEF JoinInv, Underway
<1>12. \E leave \in [DOMAIN walk'.lines -> Ends] :
         IsWay(walk'.lines, leave) /\ OtherEnd(leave[1]) = walk'.at
  <2>1. PICK lv \in [1..n -> Ends] : IsWay(w, lv) /\ OtherEnd(lv[1]) = walk.at
    BY <1>1, <1>8 DEF JoinInv, Underway
  <2> DEFINE leave == [j \in 1..n+1 |-> IF j = 1 THEN p ELSE lv[j - 1]]
  <2>2. /\ leave \in [1..n+1 -> Ends] /\ leave[1] = p
        /\ \A j \in 1..n : leave[j + 1] = lv[j]
    BY <1>2, <1>3
  <2> HIDE DEF leave
  <2>3. \A j \in 1..n+1 : LineOf(leave[j]) = walk'.lines[j]
    <3>1. \A j \in 1..n : LineOf(lv[j]) = w[j]
      BY <1>8, <2>1 DEF IsWay
    <3>2. \A j \in 1..n+1 : j = 1 \/ \E m \in 1..n : j = m + 1
      <4>1. ASSUME NEW j \in 1..n+1, j # 1 PROVE j - 1 \in 1..n /\ j = (j - 1) + 1
        BY <1>2, <4>1
      <4>2. QED
        BY <4>1
    <3>3. QED
      BY <1>8, <2>2, <3>1, <3>2 DEF l
  <2>4. \A j \in 1..n : net.ends[leave[j]].node = net.ends[OtherEnd(leave[j + 1])].node
    <3>1. ASSUME NEW j \in 1..n, j # 1
          PROVE  net.ends[leave[j]].node = net.ends[OtherEnd(leave[j + 1])].node
      <4> DEFINE m == j - 1
      <4>1. m \in 1..n /\ m + 1 \in 1..n /\ m < n /\ m + 1 = j
        BY <1>2, <3>1
      <4>2. net.ends[lv[m]].node = net.ends[OtherEnd(lv[m + 1])].node
        BY <1>8, <2>1, <4>1 DEF IsWay
      <4> HIDE DEF m
      <4>3. leave[j] = lv[m] /\ leave[j + 1] = lv[m + 1]
        BY <2>2, <4>1
      <4>4. QED
        BY <4>2, <4>3
    <3>2. net.ends[leave[1]].node = net.ends[OtherEnd(leave[1 + 1])].node
      <4>1. 1 \in 1..n
        BY <1>2
      <4>2. QED
        BY <1>3, <2>1, <2>2, <4>1
    <3>3. QED
      BY <3>1, <3>2
  <2>5. IsWay(walk'.lines, leave)
    <3>1. \A j \in 1..n+1 : j < n + 1 => j \in 1..n
      BY <1>2
    <3>2. QED
      BY <1>8, <2>3, <2>4, <3>1 DEF IsWay
  <2>6. QED
    BY <1>6, <1>8, <2>2, <2>5
<1>13. Underway'
  <2>1. \A leave : IsWay(walk.lines, leave)' <=> IsWay(walk'.lines, leave)
    BY <1>1 DEF IsWay
  <2>2. Ends' = Ends
    BY <1>1 DEF Ends
  <2>3. QED
    BY <1>1, <1>7, <1>8, <1>10, <1>11, <1>12, <2>1, <2>2 DEF Underway, Covered
<1>14. QED
  BY <1>5, <1>13

\* A stroke that does not go on at either end is closed.
LEMMA EndStrokeStep ==
  ASSUME ConstantsOK, JoinInv, EndStroke
  PROVE  TypeOK' /\ Underway' /\ LinesOnce' /\ StrokesClosed'
<1> DEFINE w == walk.lines
           n == Len(chains)
<1>1. /\ stage = "back" /\ stage' = "walk" /\ net' = net /\ partner' = partner
      /\ chains' = Append(chains, w) /\ walk' = NoWalk /\ ~GoesOn
  BY DEF EndStroke
<1>2. w \in Seq(Lines) /\ chains \in Seq(Seq(Lines)) /\ walk.at \in Ends
  BY <1>1, UnderwayFacts DEF JoinInv, TypeOK
<1>3. chains' \in Seq(Seq(Lines))
  <2> DEFINE T == Seq(Lines)
  <2> HIDE DEF T
  <2>1. Append(chains, w) \in Seq(T)
    BY <1>2 DEF T
  <2>2. QED
    BY <1>1, <2>1 DEF T
<1>4. TypeOK'
  <2>1. walk' \in [lines : Seq(Lines), at : {0} \cup Ends]
    BY <1>1 DEF NoWalk
  <2>2. QED
    BY <1>1, <1>3, <2>1 DEF JoinInv, TypeOK, EndStroke, Joined, Stages, Ends, Lines
<1>5. Underway'
  BY <1>1 DEF Underway
<1>6. n \in Nat /\ DOMAIN chains = 1..n
  BY <1>2
<1>7. /\ DOMAIN chains' = 1..n+1 /\ chains'[n + 1] = w
      /\ \A c \in 1..n : chains'[c] = chains[c]
  <2> DEFINE T == Seq(Lines)
  <2>1. chains \in Seq(T) /\ w \in T
    BY <1>2
  <2> HIDE DEF T
  <2>2. QED
    BY <1>1, <2>1
<1>8. LinesOnce'
  <2>1. ASSUME NEW c \in 1..n, NEW m \in DOMAIN chains[c], NEW j \in DOMAIN w
        PROVE  chains[c][m] # w[j]
    <3>1. chains[c][m] \in Covered(chains)
      BY <1>6 DEF Covered, ToSet
    <3>2. w[j] \in ToSet(w)
      BY DEF ToSet
    <3>3. QED
      BY <1>1, <3>1, <3>2 DEF JoinInv, Underway
  <2>2. IsInjective(w) /\ LinesOnce
    BY <1>1 DEF JoinInv, Underway
  <2> HIDE DEF w, n
  <2>3. ASSUME NEW c \in 1..n+1, NEW d \in 1..n+1, NEW m \in DOMAIN chains'[c],
               NEW j \in DOMAIN chains'[d], chains'[c][m] = chains'[d][j]
        PROVE  c = d /\ m = j
    <3>1. (c \in 1..n \/ c = n + 1) /\ (d \in 1..n \/ d = n + 1)
      BY <1>6
    <3>2. CASE c \in 1..n /\ d \in 1..n
      BY <1>6, <1>7, <2>2, <2>3, <3>2 DEF LinesOnce
    <3>3. CASE c = n + 1 /\ d = n + 1
      BY <1>7, <2>2, <2>3, <3>3 DEF IsInjective
    <3>4. CASE c \in 1..n /\ d = n + 1
      BY <1>7, <2>1, <2>3, <3>4
    <3>5. CASE c = n + 1 /\ d \in 1..n
      BY <1>7, <2>1, <2>3, <3>5
    <3>6. QED
      BY <3>1, <3>2, <3>3, <3>4, <3>5
  <2>4. QED
    BY <1>7, <2>3 DEF LinesOnce
<1>9. ToSet(chains') = ToSet(chains) \cup {w}
  <2> DEFINE T == Seq(Lines)
  <2>1. chains \in Seq(T) /\ w \in T
    BY <1>2
  <2> HIDE DEF T
  <2>2. QED
    BY <1>1, <2>1, SetOfAppended
<1>10. ASSUME NEW ch \in ToSet(chains) \cup {w}
       PROVE  Closed(ToSet(ch), {}) /\ \E leave \in [DOMAIN ch -> Ends] : IsWay(ch, leave)
  <2>1. CASE ch \in ToSet(chains)
    BY <2>1 DEF JoinInv, StrokesClosed
  <2>2. CASE ch = w
    <3>1. ASSUME NEW e \in Ends, LineOf(e) \in ToSet(w), partner[e] # 0
          PROVE  LineOf(partner[e]) \in ToSet(w)
      <4>1. CASE e = walk.at
        BY <1>1, <3>1, <4>1, WayEnds
      <4>2. CASE e # walk.at
        BY <1>1, <3>1, <4>2 DEF JoinInv, Underway, Closed, OpenEnds
      <4>3. QED
        BY <4>1, <4>2
    <3>2. \E leave \in [DOMAIN w -> Ends] : IsWay(w, leave)
      BY <1>1 DEF JoinInv, Underway
    <3>3. QED
      BY <2>2, <3>1, <3>2 DEF Closed
  <2>3. QED
    BY <2>1, <2>2
<1>11. StrokesClosed'
  BY <1>1, <1>9, <1>10 DEF StrokesClosed, Closed, IsWay, Ends
<1>12. QED
  BY <1>4, <1>5, <1>8, <1>11

\* When no line is left all are on strokes.
LEMMA ReadSymbolsStep ==
  ASSUME ConstantsOK, JoinInv, ReadSymbols
  PROVE  TypeOK' /\ Covered(chains') = Lines' /\ net'.ends = net.ends
<1>1. /\ stage = "walk" /\ stage' = "merge" /\ Lines \subseteq Seen /\ walk = NoWalk /\ k = 1
      /\ UNCHANGED <<partner, chains, walk, k>>
  BY DEF ReadSymbols, JoinInv, Underway, TypeOK
<1>2. PICK len \in [Lines -> Lengths], code \in [Lines -> Codes] :
        net' = [net EXCEPT !.len = len, !.code = code] /\ out' = code
  BY DEF ReadSymbols
<1>3. net'.ends = net.ends /\ net'.len = len /\ net'.code = code /\ DOMAIN net' = DOMAIN net
  BY <1>2 DEF JoinInv, TypeOK
<1>4. Ends' = Ends /\ Lines' = Lines
  BY <1>3, SameShape
<1>5. chains \in Seq(Seq(Lines))
  BY DEF JoinInv, TypeOK
<1>6. Covered(chains) = Lines
  <2>1. ToSet(walk.lines) = {}
    BY <1>1 DEF NoWalk, ToSet
  <2>2. \A c \in DOMAIN chains : chains[c] \in Seq(Lines)
    BY <1>5
  <2>3. \A c \in DOMAIN chains : \A m \in DOMAIN chains[c] : chains[c][m] \in Lines
    BY <2>2
  <2>4. Covered(chains) \subseteq Lines
    BY <2>3 DEF Covered, ToSet
  <2>5. QED
    BY <1>1, <2>1, <2>4 DEF Seen
<1>7. 1 \in DOMAIN chains
  <2>1. net.ends \in Shapes
    BY <1>1 DEF JoinInv, TypeOK
  <2>2. Len(net.ends) \in Nat \ {0} /\ Len(net.ends) % 2 = 0
    BY <2>1 DEF ConstantsOK
  <2>3. 1 \in Lines
    <3> DEFINE L == Len(net.ends)
    <3> HIDE DEF L
    <3>1. L \in Nat \ {0} /\ L % 2 = 0
      BY <2>2 DEF L
    <3>2. 1 \in 1..(L \div 2)
      BY <3>1
    <3>3. QED
      BY <3>2 DEF Lines, L
  <2>4. chains # <<>>
    <3>1. CASE chains = <<>>
      <4>1. DOMAIN chains = {}
        BY <3>1
      <4>2. ToSet(chains) = {}
        BY <4>1 DEF ToSet
      <4>3. QED
        BY <1>6, <2>3, <4>2 DEF Covered
    <3>2. QED
      BY <3>1
  <2>5. QED
    BY <1>5, <2>4
<1>8. TypeOK'
  <2>1. partner' \in [Ends' -> {0} \cup Ends'] /\ chains' \in Seq(Seq(Lines'))
        /\ walk' \in [lines : Seq(Lines'), at : {0} \cup Ends']
    BY <1>1, <1>4 DEF JoinInv, TypeOK
  <2>2. /\ net'.len \in [Lines' -> Lengths] /\ net'.code \in [Lines' -> Codes]
        /\ out' \in [Lines' -> Codes]
    BY <1>2, <1>3, <1>4
  <2>3. net'.ends \in Shapes /\ DOMAIN net' = {"ends", "len", "code"}
    BY <1>1, <1>3 DEF JoinInv, TypeOK
  <2>4. k' \in DOMAIN chains' /\ stage' \in Stages
    BY <1>1, <1>7 DEF Stages
  <2>5. QED
    BY <1>1, <2>1, <2>2, <2>3, <2>4 DEF TypeOK, Joined
<1>9. QED
  BY <1>1, <1>3, <1>4, <1>6, <1>8

\* The strokes, once joined, and their types are left alone.
LEMMA SymbolTypes ==
  ASSUME ConstantsOK, TypeOK, MergeShortRun \/ NarrowDeadEnds \/ NarrowStub, out' \in [Lines -> Codes]
  PROVE  TypeOK'
<1>1. /\ UNCHANGED <<net, partner, chains, walk>> /\ stage \in {"merge", "stubs"}
      /\ stage' \in {stage, "stubs", "done"}
      /\ IF stage' \in {"merge", "stubs"} THEN k' \in DOMAIN chains ELSE k' = 1
  <2>1. k \in DOMAIN chains /\ DOMAIN chains = 1..Len(chains) /\ Len(chains) \in Nat
    BY DEF MergeShortRun, NarrowDeadEnds, NarrowStub, TypeOK
  <2>2. k + 1 \in DOMAIN chains \/ k >= Len(chains)
    BY <2>1
  <2>3. 1 \in DOMAIN chains
    BY <2>1
  <2>4. CASE MergeShortRun
    BY <2>1, <2>4 DEF MergeShortRun
  <2>5. CASE NarrowDeadEnds
    BY <2>1, <2>2, <2>3, <2>5 DEF NarrowDeadEnds, NextStroke
  <2>6. CASE NarrowStub
    BY <2>1, <2>2, <2>3, <2>6 DEF NarrowStub, NextStroke
  <2>7. QED
    BY <2>4, <2>5, <2>6
<1>2. QED
  BY <1>1 DEF TypeOK, Ends, Lines, Joined, Stages

-----------------------------------------------------------------------------
\* Runs of one symbol.

\* The greatest of a set of positions.
LEMMA GreatestElement ==
  ASSUME NEW n \in Nat, NEW S \in SUBSET 1..n, S # {}
  PROVE  Max(S) \in S /\ \A x \in S : x <= Max(S)
<1> DEFINE below == {n - x : x \in S}
<1>1. below \in SUBSET Nat /\ below # {}
  <2>1. \A x \in S : n - x \in Nat
    OBVIOUS
  <2>2. \A y \in below : \E x \in S : y = n - x
    OBVIOUS
  <2>3. \A x \in S : n - x \in below
    OBVIOUS
  <2> HIDE DEF below
  <2>4. QED
    BY <2>1, <2>2, <2>3
<1>2. PICK m \in below : \A y \in below : m <= y
  BY <1>1, LeastElement
<1>3. PICK x \in S : m = n - x
  BY <1>2
<1>4. \A y \in S : x >= y
  <2>1. ASSUME NEW y \in S PROVE x >= y
    <3>1. n - x <= n - y
      BY <1>2, <1>3
    <3>2. QED
      BY <3>1
  <2>2. QED
    BY <2>1
<1>5. Max(S) \in S /\ \A y \in S : Max(S) >= y
  BY <1>4 DEF Max
<1>6. QED
  BY <1>5

\* Strokes are sequences of lines.
LEMMA Strokes ==
  ASSUME ConstantsOK, TypeOK, NEW j \in DOMAIN chains
  PROVE  /\ chains[j] \in Seq(Lines) /\ Len(chains[j]) \in Nat
         /\ DOMAIN chains[j] = 1..Len(chains[j])
         /\ ToSet(chains[j]) \subseteq Lines /\ chains[j] \in ToSet(chains)
<1>1. chains[j] \in Seq(Lines)
  BY DEF TypeOK
<1>2. QED
  BY <1>1 DEF ToSet

\* A longer run, or one with a fixed line, is not short because a part of it is not.
LEMMA LongerRun ==
  ASSUME ConstantsOK, TypeOK, Joined, NEW ch \in Seq(Lines), NEW o,
         ShortRuns(ch, o) = {}, NEW q \in RunsOf(ch, o), q.to - q.from + 1 < Len(ch),
         NEW r \in [from : DOMAIN ch, to : DOMAIN ch], r.from <= q.from, q.to <= r.to
  PROVE  ~(RunLen(ch, r) < MinRun /\ ~RunFixed(ch, r))
<1>1. q \in [from : DOMAIN ch, to : DOMAIN ch] /\ ~(RunLen(ch, q) < MinRun /\ ~RunFixed(ch, q))
  BY DEF ShortRuns, RunsOf
<1>2. LinesOfRun(ch, r) \in SUBSET Lines /\ LinesOfRun(ch, q) \in SUBSET LinesOfRun(ch, r)
  <2>1. \A j \in r.from..r.to : j \in DOMAIN ch /\ ch[j] \in Lines
    OBVIOUS
  <2>2. \A j \in q.from..q.to : j \in r.from..r.to
    BY <1>1
  <2>3. QED
    BY <2>1, <2>2 DEF LinesOfRun
<1>3. net.len \in [Lines -> Nat] /\ IsFiniteSet(Lines) /\ MinRun \in Nat
  BY LinesFinite DEF TypeOK, ConstantsOK
<1>4. RunLen(ch, q) \in Nat /\ RunLen(ch, r) \in Nat /\ RunLen(ch, q) <= RunLen(ch, r)
  BY <1>2, <1>3, TotalLenGrows DEF RunLen
<1>5. RunFixed(ch, q) => RunFixed(ch, r)
  BY <1>2 DEF RunFixed
<1>6. QED
  BY <1>1, <1>3, <1>4, <1>5

\* A run starts where the symbol changes.
LEMMA RunStarts ==
  ASSUME NEW S, NEW ch \in Seq(S), NEW o, NEW s \in 2..Len(ch), o[ch[s - 1]] # o[ch[s]]
  PROVE  \E t \in s..Len(ch) : [from |-> s, to |-> t] \in RunsOf(ch, o)
<1> DEFINE n == Len(ch)
           stops == {t \in s..n : t < n => o[ch[t + 1]] # o[ch[s]]}
<1>1. n \in Nat /\ DOMAIN ch = 1..n /\ s \in 2..n
  OBVIOUS
<1> HIDE DEF n
<1>2. n \in stops /\ stops \in SUBSET Nat
  BY <1>1
<1>3. PICK t \in stops : \A u \in stops : t <= u
  BY <1>2, LeastElement
<1>4. t \in s..n /\ (t < n => o[ch[t + 1]] # o[ch[s]])
  BY <1>3
<1>5. \A u \in s..t : u < t => o[ch[u + 1]] = o[ch[s]]
  <2>1. ASSUME NEW u \in s..t, u < t PROVE o[ch[u + 1]] = o[ch[s]]
    <3>1. u \notin stops
      BY <1>1, <1>3, <1>4, <2>1
    <3>2. u \in s..n /\ u < n
      BY <1>1, <1>4, <2>1
    <3>3. QED
      BY <3>1, <3>2
  <2>2. QED
    BY <2>1
<1>6. \A j \in s..t : o[ch[j]] = o[ch[s]]
  <2>1. ASSUME NEW j \in s..t PROVE o[ch[j]] = o[ch[s]]
    <3>1. CASE j = s
      BY <3>1
    <3>2. CASE j # s
      <4> DEFINE u == j - 1
      <4>1. u \in s..t /\ u < t /\ u + 1 = j
        BY <1>1, <1>4, <3>2
      <4> HIDE DEF u
      <4>2. QED
        BY <1>5, <4>1
    <3>3. QED
      BY <3>1, <3>2
  <2>2. QED
    BY <2>1
<1> DEFINE r == [from |-> s, to |-> t]
<1>7. r \in [from : DOMAIN ch, to : DOMAIN ch] /\ r.from = s /\ r.to = t /\ s <= t
  BY <1>1, <1>4
<1> HIDE DEF r
<1>8. r \in RunsOf(ch, o)
  BY <1>4, <1>6, <1>7 DEF RunsOf, n
<1>9. QED
  BY <1>4, <1>8 DEF r, n

\* Recoding the end of a stroke, from a change of symbol on, leaves no short run
\* if there was none: the last run grows, the one before it stays.
LEMMA SuffixRecoded ==
  ASSUME ConstantsOK, TypeOK, Joined, NEW ch \in Seq(Lines), NEW o, NEW o2,
         NEW s \in 2..Len(ch), o[ch[s - 1]] # o[ch[s]],
         \A j \in DOMAIN ch : o2[ch[j]] = IF j >= s THEN o2[ch[s]] ELSE o[ch[j]],
         ShortRuns(ch, o) = {}
  PROVE  ShortRuns(ch, o2) = {}
<1> DEFINE n == Len(ch)
           code == o2[ch[s]]
<1>1. n \in Nat /\ DOMAIN ch = 1..n /\ s \in 2..n
  OBVIOUS
<1>2. SUFFICES ASSUME NEW r \in RunsOf(ch, o2), r.to - r.from + 1 < n
               PROVE  ~(RunLen(ch, r) < MinRun /\ ~RunFixed(ch, r))
  BY DEF ShortRuns
<1> HIDE DEF n
<1>3. /\ r \in [from : 1..n, to : 1..n] /\ r.from \in 1..n /\ r.to \in 1..n /\ r.from <= r.to
      /\ \A j \in r.from..r.to : o2[ch[j]] = o2[ch[r.from]]
      /\ r.from > 1 => o2[ch[r.from - 1]] # o2[ch[r.from]]
      /\ r.to < n => o2[ch[r.to + 1]] # o2[ch[r.from]]
  BY <1>1 DEF RunsOf, n
<1>4. \A j \in 1..n : (j < s => o2[ch[j]] = o[ch[j]]) /\ (j >= s => o2[ch[j]] = code)
  BY <1>1
<1> HIDE DEF code
<1>5. CASE r.to < s
  <2>1. \A j \in r.from..r.to : o2[ch[j]] = o[ch[j]]
    BY <1>1, <1>3, <1>4, <1>5
  <2>2. r.from \in r.from..r.to
    BY <1>1, <1>3
  <2>3. \A j \in r.from..r.to : o[ch[j]] = o[ch[r.from]]
    BY <1>3, <2>1, <2>2
  <2>4. r.from > 1 => o[ch[r.from - 1]] # o[ch[r.from]]
    <3>1. r.from > 1 => r.from - 1 \in 1..n /\ r.from - 1 < s
      BY <1>1, <1>3, <1>5
    <3>2. QED
      BY <1>3, <1>4, <2>1, <2>2, <3>1
  <2>5. r.to < n => o[ch[r.to + 1]] # o[ch[r.from]]
    <3>1. CASE r.to + 1 < s
      <4>1. r.to + 1 \in 1..n
        BY <1>1, <1>3, <3>1
      <4>2. QED
        BY <1>3, <1>4, <2>1, <2>2, <3>1, <4>1
    <3>2. CASE r.to + 1 = s
      <4>1. r.to = s - 1 /\ r.to \in r.from..r.to
        BY <1>1, <1>3, <3>2
      <4>2. o[ch[r.to]] = o[ch[r.from]]
        BY <2>3, <4>1
      <4>3. QED
        BY <3>2, <4>1, <4>2
    <3>3. QED
      BY <1>1, <1>3, <1>5, <3>1, <3>2
  <2>6. r \in RunsOf(ch, o)
    BY <1>1, <1>3, <2>3, <2>4, <2>5 DEF RunsOf, n
  <2>7. QED
    BY <1>2, <2>6 DEF ShortRuns, n
<1>6. CASE r.to >= s
  <2>1. r.from <= s
    <3>1. SUFFICES ASSUME r.from > s PROVE FALSE
      BY <1>1, <1>3
    <3>2. r.from - 1 \in 1..n /\ r.from - 1 >= s /\ r.from > 1 /\ r.from >= s
      BY <1>1, <1>3, <3>1
    <3>3. QED
      BY <1>3, <1>4, <3>2
  <2>2. r.to = n
    <3>1. SUFFICES ASSUME r.to # n PROVE FALSE
      OBVIOUS
    <3>2. r.to < n /\ r.to + 1 \in 1..n /\ r.to + 1 >= s /\ r.to \in r.from..r.to /\ r.to \in 1..n
      BY <1>1, <1>3, <1>6, <3>1
    <3>3. o2[ch[r.to]] = code /\ o2[ch[r.to + 1]] = code
      BY <1>4, <1>6, <3>2
    <3>4. QED
      BY <1>3, <3>2, <3>3
  <2>3. PICK t \in s..n : [from |-> s, to |-> t] \in RunsOf(ch, o)
    BY <1>1, RunStarts DEF n
  <2> DEFINE q == [from |-> s, to |-> t]
  <2>4. q \in RunsOf(ch, o) /\ q.from = s /\ q.to = t
    BY <2>3
  <2> HIDE DEF q
  <2>5. ShortRuns(ch, o) = {} /\ q.to - q.from + 1 < n /\ r.from <= q.from /\ q.to <= r.to
    BY <1>1, <2>1, <2>2, <2>4
  <2>6. r \in [from : DOMAIN ch, to : DOMAIN ch]
    BY <1>1, <1>3
  <2>7. QED
    BY <2>4, <2>5, <2>6, LongerRun DEF n
<1>7. QED
  BY <1>1, <1>3, <1>5, <1>6

\* The runs of a stroke are those of the stroke turned round.
LEMMA Mirrored ==
  ASSUME NEW S, NEW s \in Seq(S), NEW t \in Seq(S), NEW o, Len(t) = Len(s),
         \A j \in DOMAIN s : t[j] = s[Len(s) - j + 1],
         ShortRuns(s, o) = {}
  PROVE  ShortRuns(t, o) = {}
<1> DEFINE n == Len(s)
<1>1. n \in Nat /\ DOMAIN s = 1..n /\ DOMAIN t = 1..n /\ Len(t) = n
  OBVIOUS
<1>2. \A j \in 1..n : t[j] = s[n + 1 - j]
  <2>1. \A j \in 1..n : Len(s) - j + 1 = n + 1 - j
    OBVIOUS
  <2>2. QED
    BY <1>1, <2>1
<1>3. SUFFICES ASSUME NEW r \in ShortRuns(t, o) PROVE FALSE
  OBVIOUS
<1> DEFINE f == r.from
           g == r.to
<1> HIDE DEF n
<1>4. /\ r \in [from : 1..n, to : 1..n] /\ f \in 1..n /\ g \in 1..n /\ f <= g
      /\ \A j \in f..g : o[t[j]] = o[t[f]]
      /\ f > 1 => o[t[f - 1]] # o[t[f]]
      /\ g < n => o[t[g + 1]] # o[t[f]]
      /\ g - f + 1 < n
  BY <1>1 DEF ShortRuns, RunsOf
<1> HIDE DEF f, g
<1> DEFINE a == n + 1 - g
           b == n + 1 - f
           q == [from |-> a, to |-> b]
<1>5. a \in 1..n /\ b \in 1..n /\ a <= b /\ b - a + 1 < n
  BY <1>1, <1>4
<1>6. q \in [from : 1..n, to : 1..n] /\ q.from = a /\ q.to = b
  BY <1>5
<1>7. o[t[f]] = o[s[a]] /\ \A j \in a..b : o[s[j]] = o[s[a]]
  <2>1. ASSUME NEW j \in a..b PROVE o[s[j]] = o[t[f]]
    <3> DEFINE m == n + 1 - j
    <3>1. m \in f..g /\ m \in 1..n /\ n + 1 - m = j
      BY <1>1, <1>4, <1>5
    <3> HIDE DEF m
    <3>2. t[m] = s[j]
      BY <1>2, <3>1
    <3>3. QED
      BY <1>4, <3>1, <3>2
  <2>2. a \in a..b
    BY <1>5
  <2> HIDE DEF a, b
  <2>3. QED
    BY <2>1, <2>2
<1>8. a > 1 => o[s[a - 1]] # o[s[a]]
  <2>1. SUFFICES ASSUME a > 1 PROVE o[s[a - 1]] # o[s[a]]
    OBVIOUS
  <2>2. g + 1 \in 1..n /\ g < n /\ n + 1 - (g + 1) = a - 1
    BY <1>1, <1>4, <2>1
  <2>3. t[g + 1] = s[a - 1]
    <3> DEFINE m == g + 1
    <3>1. m \in 1..n /\ n + 1 - m = a - 1
      BY <2>2
    <3> HIDE DEF m, a
    <3>2. t[m] = s[a - 1]
      BY <1>2, <3>1
    <3>3. QED
      BY <3>2 DEF m
  <2>4. QED
    BY <1>4, <1>7, <2>2, <2>3
<1>9. b < n => o[s[b + 1]] # o[s[a]]
  <2>1. SUFFICES ASSUME b < n PROVE o[s[b + 1]] # o[s[a]]
    OBVIOUS
  <2>2. f - 1 \in 1..n /\ f > 1 /\ n + 1 - (f - 1) = b + 1
    <3>1. n \in Nat /\ f \in 1..n
      BY <1>1, <1>4
    <3>2. QED
      BY <2>1, <3>1
  <2>3. t[f - 1] = s[b + 1]
    <3> DEFINE m == f - 1
    <3>1. m \in 1..n /\ n + 1 - m = b + 1
      BY <2>2
    <3> HIDE DEF m, b
    <3>2. t[m] = s[b + 1]
      BY <1>2, <3>1
    <3>3. QED
      BY <3>2 DEF m
  <2>4. QED
    BY <1>4, <1>7, <2>2, <2>3
<1>10. LinesOfRun(s, q) = LinesOfRun(t, r)
  <2>1. ASSUME NEW j \in a..b
        PROVE  \E m \in f..g : s[j] = t[m]
    <3> DEFINE m == n + 1 - j
    <3>1. m \in f..g /\ m \in 1..n /\ n + 1 - m = j
      BY <1>1, <1>4, <1>5
    <3> HIDE DEF m
    <3>2. QED
      BY <1>2, <3>1
  <2>2. ASSUME NEW m \in f..g
        PROVE  \E j \in a..b : s[j] = t[m]
    <3> DEFINE j == n + 1 - m
    <3>1. j \in a..b /\ m \in 1..n
      BY <1>1, <1>4, <1>5
    <3>2. QED
      BY <1>2, <3>1
  <2> HIDE DEF a, b, q
  <2>3. QED
    BY <1>6, <2>1, <2>2 DEF LinesOfRun, f, g
<1> HIDE DEF a, b, q
<1>11. q \in RunsOf(s, o)
  BY <1>1, <1>5, <1>6, <1>7, <1>8, <1>9 DEF RunsOf, n
<1>12. q \in ShortRuns(s, o)
  BY <1>3, <1>5, <1>6, <1>10, <1>11 DEF ShortRuns, RunLen, RunFixed, n
<1>13. QED
  BY <1>12

-----------------------------------------------------------------------------
\* Narrowing.

\* Ranks are numbers.
LEMMA RankType == \A code : WidthRank(code) \in Nat
<1>1. DOMAIN WidthOrder = 1..8
  BY DEF WidthOrder
<1>2. ASSUME NEW code, code \in ToSet(WidthOrder) PROVE WidthRank(code) \in 1..8
  <2>1. \E r \in DOMAIN WidthOrder : WidthOrder[r] = code
    BY <1>2 DEF ToSet
  <2> HIDE DEF WidthOrder
  <2>2. QED
    BY <1>1, <1>2, <2>1 DEF WidthRank
<1>3. ASSUME NEW code PROVE WidthRank(code) \in Nat
  <2>1. CASE code \in ToSet(WidthOrder)
    BY <1>2, <2>1
  <2>2. CASE code \notin ToSet(WidthOrder)
    BY <2>2 DEF WidthRank
  <2>3. QED
    BY <2>1, <2>2
<1>4. QED
  BY <1>3

\* A dead end does not start with the first line, and has no fixed line.
LEMMA DeadEndFacts ==
  ASSUME NEW S, NEW seq \in Seq(S), DeadEnd(seq) # 0
  PROVE  /\ DeadEnd(seq) \in 2..Len(seq)
         /\ \A j \in DeadEnd(seq)..Len(seq) : seq[j] \notin Fixed
<1> DEFINE cuts == {p \in 2..Len(seq) : SharedNode(seq[p - 1], seq[p]) \in Touch(seq)}
           start == IF Len(seq) < 2 \/ OuterTouched(seq, seq[Len(seq)], seq[Len(seq) - 1]) THEN 0
                    ELSE IF cuts # {} THEN Max(cuts)
                    ELSE IF OuterTouched(seq, seq[1], seq[2]) THEN 2 ELSE 0
<1>1. DeadEnd(seq) = IF start > 0 /\ \E j \in start..Len(seq) : seq[j] \in Fixed THEN 0 ELSE start
  BY DEF DeadEnd
<1>2. Len(seq) \in Nat
  OBVIOUS
<1>3. cuts # {} => Max(cuts) \in 2..Len(seq)
  <2>1. cuts \in SUBSET 1..Len(seq) /\ \A x \in cuts : x \in 2..Len(seq)
    BY <1>2
  <2> HIDE DEF cuts
  <2>2. QED
    BY <1>2, <2>1, GreatestElement
<1> HIDE DEF cuts
<1>4. start = 0 \/ start \in 2..Len(seq)
  BY <1>2, <1>3
<1> HIDE DEF start
<1>5. QED
  BY <1>1, <1>4

\* Narrowing one dead end recodes lines of the stroke that are not fixed, and leaves
\* no short run if there was none.
LEMMA NarrowFacts ==
  ASSUME ConstantsOK, TypeOK, Joined, NEW seq \in Seq(Lines), IsInjective(seq),
         NEW o \in [Lines -> Codes]
  PROVE  /\ Narrow(seq, o) \in [Lines -> Codes]
         /\ \A i \in Lines \ ToSet(seq) : Narrow(seq, o)[i] = o[i]
         /\ \A i \in Fixed : Narrow(seq, o)[i] = o[i]
         /\ ShortRuns(seq, o) = {} => ShortRuns(seq, Narrow(seq, o)) = {}
<1> DEFINE start == DeadEnd(seq)
           before == o[seq[start - 1]]
           wideAt == {j \in start..Len(seq) : \A m \in j..Len(seq) :
                         WidthRank(o[seq[m]]) > WidthRank(before)}
           wide == {seq[j] : j \in wideAt}
           n == Len(seq)
<1>1. Narrow(seq, o) = IF start > 0 /\ TotalLen(wide) <= DeadEndMax
                       THEN Recoded(o, wide, before) ELSE o
  BY DEF Narrow
<1>2. SUFFICES ASSUME start > 0, Narrow(seq, o) = Recoded(o, wide, before)
               PROVE  /\ Recoded(o, wide, before) \in [Lines -> Codes]
                      /\ \A i \in Lines \ ToSet(seq) : Recoded(o, wide, before)[i] = o[i]
                      /\ \A i \in Fixed : Recoded(o, wide, before)[i] = o[i]
                      /\ ShortRuns(seq, o) = {} => ShortRuns(seq, Recoded(o, wide, before)) = {}
  <2>1. \A i \in Fixed : i \in Lines
    BY DEF Fixed
  <2> HIDE DEF start, wide, before
  <2>2. CASE start > 0 /\ TotalLen(wide) <= DeadEndMax
    BY <1>1, <1>2, <2>2
  <2>3. CASE ~(start > 0 /\ TotalLen(wide) <= DeadEndMax)
    <3>1. Narrow(seq, o) = o
      BY <1>1, <2>3
    <3>2. QED
      BY <3>1
  <2>4. QED
    BY <2>2, <2>3
<1>3. start # 0
  BY <1>2
<1>4. start \in 2..n /\ n \in Nat /\ DOMAIN seq = 1..n /\ \A j \in start..n : seq[j] \notin Fixed
  BY <1>3, DeadEndFacts
<1> HIDE DEF n, start
<1>5. before \in Codes
  <2>1. start - 1 \in 1..n
    BY <1>4
  <2>2. QED
    BY <1>4, <2>1
<1>6. \A j \in 1..n : seq[j] \in Lines
  BY <1>4
<1> DEFINE o2 == Recoded(o, wide, before)
<1>7. \A i \in Lines : o2[i] = IF i \in wide THEN before ELSE o[i]
  BY DEF Recoded
<1>8. o2 \in [Lines -> Codes]
  <2> HIDE DEF wide, before
  <2>1. QED
    BY <1>5 DEF Recoded
<1>9. \A j \in wideAt : j \in start..n /\ j \in 1..n
  BY <1>4 DEF n
<1>10. wide \subseteq ToSet(seq) /\ wide \cap Fixed = {}
  <2> HIDE DEF wideAt
  <2>1. QED
    BY <1>4, <1>9 DEF ToSet
<1>11. \A j \in 1..n : seq[j] \in wide <=> j \in wideAt
  <2> HIDE DEF wideAt
  <2>1. QED
    BY <1>4, <1>9 DEF IsInjective
<1>12. ASSUME ShortRuns(seq, o) = {} PROVE ShortRuns(seq, o2) = {}
  <2>1. CASE wideAt = {}
    <3>1. wide = {}
      BY <2>1
    <3>2. o2 = o
      <4> HIDE DEF wide, before
      <4>1. QED
        BY <3>1 DEF Recoded
    <3>3. QED
      BY <1>12, <3>2
  <2>2. CASE wideAt # {}
    <3>1. wideAt \in SUBSET Nat
      BY <1>4, <1>9
    <3>2. PICK s \in wideAt : \A j \in wideAt : s <= j
      <4> HIDE DEF wideAt
      <4>1. QED
        BY <2>2, <3>1, LeastElement
    <3>3. s \in start..n /\ s \in 2..n /\ s - 1 \in 1..n
      BY <1>4, <1>9
    <3>4. \A m \in s..n : WidthRank(o[seq[m]]) > WidthRank(before)
      BY DEF n
    <3>5. \A j \in 1..n : j \in wideAt <=> j >= s
      <4>1. ASSUME NEW j \in 1..n, j >= s PROVE j \in wideAt
        <5>1. j \in start..n /\ \A m \in j..n : m \in s..n
          BY <1>4, <3>3, <4>1
        <5>2. QED
          BY <3>4, <5>1 DEF n, start
      <4>2. QED
        BY <1>4, <3>2, <4>1
    <3>6. o[seq[s - 1]] # o[seq[s]]
      <4>1. WidthRank(o[seq[s]]) > WidthRank(before)
        <5>1. s \in s..n
          BY <3>3
        <5>2. QED
          BY <3>4, <5>1
      <4>2. CASE s = start
        BY <4>1, <4>2, RankType
      <4>3. CASE s # start
        <5>1. s - 1 \in start..n /\ s - 1 \notin wideAt
          <6> HIDE DEF wideAt
          <6>1. s - 1 \in start..n
            BY <1>4, <3>3, <4>3
          <6>2. QED
            BY <1>4, <3>2, <3>3, <6>1
        <5>2. PICK m \in (s - 1)..n : ~(WidthRank(o[seq[m]]) > WidthRank(before))
          BY <5>1 DEF n, start
        <5>3. m = s - 1
          <6>1. m \notin s..n
            BY <3>4, <5>2
          <6>2. QED
            BY <1>4, <3>3, <6>1
        <5>4. QED
          BY <4>1, <5>2, <5>3
      <4>4. QED
        BY <4>2, <4>3
    <3>7. \A j \in DOMAIN seq : o2[seq[j]] = IF j >= s THEN o2[seq[s]] ELSE o[seq[j]]
      <4> HIDE DEF wide, wideAt, before, o2
      <4>1. \A j \in 1..n : o2[seq[j]] = IF j >= s THEN before ELSE o[seq[j]]
        BY <1>4, <1>6, <1>7, <1>11, <3>5
      <4>2. s \in 1..n /\ s >= s
        BY <1>4, <3>3
      <4>3. QED
        BY <1>4, <4>1, <4>2
    <3> HIDE DEF before, o2, wide, wideAt
    <3>8. s \in 2..Len(seq)
      BY <3>3 DEF n
    <3>9. QED
      BY <1>12, <3>6, <3>7, <3>8, SuffixRecoded
  <2>3. QED
    BY <2>1, <2>2
<1>13. QED
  <2>1. \A i \in Fixed : i \in Lines
    BY DEF Fixed
  <2> HIDE DEF wide, before
  <2>2. QED
    BY <1>7, <1>8, <1>10, <1>12, <2>1

-----------------------------------------------------------------------------
\* What is done to the symbols keeps RoadInv.

\* Runs depend on the symbols of the stroke's own lines.
LEMMA SameRuns ==
  ASSUME NEW S, NEW ch \in Seq(S), NEW o, NEW o2, \A j \in DOMAIN ch : o2[ch[j]] = o[ch[j]]
  PROVE  ShortRuns(ch, o2) = ShortRuns(ch, o)
<1>1. DOMAIN ch = 1..Len(ch) /\ Len(ch) \in Nat
  OBVIOUS
<1>2. ASSUME NEW r \in [from : DOMAIN ch, to : DOMAIN ch]
      PROVE  r \in RunsOf(ch, o2) <=> r \in RunsOf(ch, o)
  <2> DEFINE f == r.from
             g == r.to
  <2>1. f \in 1..Len(ch) /\ g \in 1..Len(ch)
    BY <1>1
  <2> HIDE DEF f, g
  <2>2. /\ \A j \in f..g : o2[ch[j]] = o[ch[j]]
        /\ o2[ch[f]] = o[ch[f]]
        /\ f > 1 => o2[ch[f - 1]] = o[ch[f - 1]]
        /\ g < Len(ch) => o2[ch[g + 1]] = o[ch[g + 1]]
    <3>1. /\ \A j \in f..g : j \in DOMAIN ch
          /\ f > 1 => f - 1 \in DOMAIN ch
          /\ g < Len(ch) => g + 1 \in DOMAIN ch
      BY <1>1, <2>1
    <3>2. QED
      BY <1>1, <2>1, <3>1
  <2>3. QED
    BY <2>2 DEF RunsOf, f, g
<1>3. RunsOf(ch, o2) = RunsOf(ch, o)
  BY <1>2 DEF RunsOf
<1>4. QED
  BY <1>3 DEF ShortRuns

\* Lines of one stroke are recoded: the other strokes keep their runs.
LEMMA OtherStrokes ==
  ASSUME ConstantsOK, JoinInv, Joined, NEW o, NEW c \in DOMAIN chains, NEW j \in DOMAIN chains, j # c,
         \A i \in Lines \ ToSet(chains[c]) : o[i] = out[i]
  PROVE  ShortRuns(chains[j], o) = ShortRuns(chains[j], out)
<1>1. chains[j] \in Seq(Lines)
  BY Strokes DEF JoinInv
<1>2. \A m \in DOMAIN chains[j] : o[chains[j][m]] = out[chains[j][m]]
  <2>1. ASSUME NEW m \in DOMAIN chains[j] PROVE o[chains[j][m]] = out[chains[j][m]]
    <3>1. chains[j][m] \in Lines
      BY <1>1
    <3>2. chains[j][m] \notin ToSet(chains[c])
      BY DEF JoinInv, LinesOnce, ToSet
    <3>3. QED
      BY <3>1, <3>2
  <2>2. QED
    BY <2>1
<1>3. QED
  BY <1>1, <1>2, SameRuns

\* A stroke has each of its lines once.
LEMMA OnceEach ==
  ASSUME ConstantsOK, JoinInv, NEW j \in DOMAIN chains
  PROVE  IsInjective(chains[j])
BY DEF JoinInv, LinesOnce, IsInjective

\* Both ends of a stroke.
LEMMA NarrowBoth ==
  ASSUME ConstantsOK, TypeOK, Joined, NEW ch \in Seq(Lines), IsInjective(ch), ShortRuns(ch, out) = {},
         NEW o, o = Narrow(Reverse(ch), Narrow(ch, out))
  PROVE  /\ o \in [Lines -> Codes]
         /\ \A i \in Lines \ ToSet(ch) : o[i] = out[i]
         /\ \A i \in Fixed : o[i] = out[i]
         /\ ShortRuns(ch, o) = {}
<1> DEFINE back == Reverse(ch)
           o1 == Narrow(ch, out)
           n == Len(ch)
<1>1. n \in Nat /\ DOMAIN ch = 1..n /\ out \in [Lines -> Codes]
  BY DEF TypeOK
<1>2. /\ o1 \in [Lines -> Codes] /\ ShortRuns(ch, o1) = {}
      /\ \A i \in Lines \ ToSet(ch) : o1[i] = out[i]
      /\ \A i \in Fixed : o1[i] = out[i]
  BY <1>1, NarrowFacts
<1> HIDE DEF o1
<1>3. /\ back \in Seq(Lines) /\ Len(back) = n /\ DOMAIN back = 1..n
      /\ \A j \in 1..n : n - j + 1 \in 1..n /\ back[j] = ch[n - j + 1]
  <2>1. back = [i \in 1..n |-> ch[n - i + 1]]
    BY DEF Reverse
  <2> HIDE DEF back, n
  <2>2. \A j \in 1..n : n - j + 1 \in 1..n
    BY <1>1
  <2>3. back \in [1..n -> Lines]
    BY <1>1, <2>1, <2>2 DEF n
  <2>4. back \in Seq(Lines) /\ Len(back) = n
    BY <1>1, <2>3
  <2>5. QED
    BY <2>1, <2>2, <2>3, <2>4
<1> HIDE DEF back, n
<1>4. \A j \in 1..n : ch[j] = back[n - j + 1]
  <2>1. ASSUME NEW j \in 1..n PROVE ch[j] = back[n - j + 1]
    <3> DEFINE m == n - j + 1
    <3>1. m \in 1..n /\ n - m + 1 = j
      BY <1>1
    <3> HIDE DEF m
    <3>2. back[m] = ch[j]
      BY <1>3, <3>1
    <3>3. QED
      BY <3>2 DEF m
  <2>2. QED
    BY <2>1
<1>5. IsInjective(back)
  <2>1. ASSUME NEW a \in 1..n, NEW b \in 1..n, back[a] = back[b] PROVE a = b
    <3>1. n - a + 1 = n - b + 1
      BY <1>1, <1>3, <2>1 DEF IsInjective
    <3>2. QED
      BY <1>1, <3>1
  <2>2. QED
    BY <1>3, <2>1 DEF IsInjective
<1>6. ToSet(back) = ToSet(ch)
  <2>1. \A j \in 1..n : \E m \in 1..n : back[j] = ch[m]
    BY <1>3
  <2>2. \A j \in 1..n : \E m \in 1..n : ch[j] = back[m]
    BY <1>3, <1>4
  <2>3. ASSUME NEW x \in ToSet(back) PROVE x \in ToSet(ch)
    <3>1. PICK j \in 1..n : x = back[j]
      BY <1>3 DEF ToSet
    <3>2. PICK m \in 1..n : x = ch[m]
      BY <2>1, <3>1
    <3>3. QED
      BY <1>1, <3>2 DEF ToSet
  <2>4. ASSUME NEW x \in ToSet(ch) PROVE x \in ToSet(back)
    <3>1. PICK j \in 1..n : x = ch[j]
      BY <1>1 DEF ToSet
    <3>2. PICK m \in 1..n : x = back[m]
      BY <2>2, <3>1
    <3>3. QED
      BY <1>3, <3>2 DEF ToSet
  <2>5. QED
    BY <2>3, <2>4
<1>7. ShortRuns(back, o1) = {}
  BY <1>1, <1>2, <1>3, Mirrored DEF n
<1>8. o = Narrow(back, o1)
  BY DEF back, o1
<1>9. /\ o \in [Lines -> Codes] /\ ShortRuns(back, o) = {}
      /\ \A i \in Lines \ ToSet(back) : o[i] = o1[i]
      /\ \A i \in Fixed : o[i] = o1[i]
  BY <1>2, <1>3, <1>5, <1>7, <1>8, NarrowFacts
<1>10. ShortRuns(ch, o) = {}
  <2>1. Len(ch) = Len(back) /\ \A j \in DOMAIN back : ch[j] = back[Len(back) - j + 1]
    BY <1>3, <1>4 DEF n
  <2>2. QED
    BY <1>3, <1>9, <2>1, Mirrored
<1>11. QED
  BY <1>2, <1>6, <1>9, <1>10

\* A stroke of one symbol is one run.
LEMMA OneSymbol ==
  ASSUME NEW S, NEW ch \in Seq(S), NEW o, NEW code, \A j \in DOMAIN ch : o[ch[j]] = code
  PROVE  ShortRuns(ch, o) = {}
<1>1. SUFFICES ASSUME NEW r \in ShortRuns(ch, o) PROVE FALSE
  OBVIOUS
<1> DEFINE f == r.from
           g == r.to
           n == Len(ch)
<1>2. /\ n \in Nat /\ DOMAIN ch = 1..n /\ f \in 1..n /\ g \in 1..n
      /\ f > 1 => o[ch[f - 1]] # o[ch[f]]
      /\ g < n => o[ch[g + 1]] # o[ch[f]]
      /\ g - f + 1 < n
  BY DEF ShortRuns, RunsOf
<1> HIDE DEF f, g, n
<1>3. f > 1 \/ g < n
  BY <1>2
<1>4. (f > 1 => f - 1 \in 1..n) /\ (g < n => g + 1 \in 1..n)
  BY <1>2
<1>5. QED
  BY <1>2, <1>3, <1>4

\* Lengths depend on the network only,
LEMMA SameLengths ==
  ASSUME net' = net
  PROVE  \A S : TotalLen(S)' = TotalLen(S)
BY DEF TotalLen, MapThenSumSet, MapThenFoldSet

\* and short runs on the network and the symbols.
LEMMA SameNetRuns ==
  ASSUME net' = net
  PROVE  \A ch, o : ShortRuns(ch, o)' = ShortRuns(ch, o)
<1>1. \A ch, r : RunLen(ch, r)' = RunLen(ch, r)
  BY SameLengths DEF RunLen, LinesOfRun
<1>2. \A ch, r : RunFixed(ch, r)' = RunFixed(ch, r)
  BY DEF RunFixed, LinesOfRun, Fixed, Lines
<1>3. QED
  BY <1>1, <1>2 DEF ShortRuns, RunsOf

\* A step that recodes lines of the stroke at hand, none of them fixed, keeps RoadInv
\* if it leaves no short run there.  Merging may leave some.
LEMMA SymbolsKeep ==
  ASSUME ConstantsOK, RoadInv, MergeShortRun \/ NarrowDeadEnds \/ NarrowStub,
         out' \in [Lines -> Codes],
         \A i \in Lines \ ToSet(chains[k]) : out'[i] = out[i],
         \A i \in Fixed : out'[i] = out[i],
         MergeShortRun \/ ShortRuns(chains[k], out') = {}
  PROVE  RoadInv'
<1>1. /\ UNCHANGED <<net, partner, chains, walk>> /\ stage \in {"merge", "stubs"}
      /\ stage' \in {"merge", "stubs", "done"} /\ k \in DOMAIN chains /\ k \in Nat
  BY Strokes DEF MergeShortRun, NarrowDeadEnds, NarrowStub, NextStroke, RoadInv, JoinInv, TypeOK
<1>2. TypeOK'
  BY SymbolTypes DEF RoadInv, JoinInv
<1>3. Ends' = Ends /\ Lines' = Lines /\ Fixed' = Fixed
  BY <1>1 DEF Ends, Lines, Fixed
<1>4. PartnersMeet' /\ StraightestFirst'
  BY <1>1, <1>3, SameShape DEF RoadInv, JoinInv, PartnersMeet, StraightestFirst
<1>5. LinesOnce' /\ Covered(chains)' = Lines'
  BY <1>1, <1>3 DEF RoadInv, JoinInv, LinesOnce, Joined
<1>6. StrokesClosed'
  BY <1>1, <1>3 DEF RoadInv, JoinInv, StrokesClosed, Closed, IsWay
<1>7. Underway'
  BY <1>1 DEF RoadInv, JoinInv, Underway
<1>8. JoinInv'
  BY <1>2, <1>4, <1>5, <1>6, <1>7 DEF JoinInv
<1>9. FixedStay'
  BY <1>1, <1>3 DEF RoadInv, FixedStay, Joined
<1>10. ASSUME NEW j \in DOMAIN chains, (stage' = "merge" /\ j < k') \/ stage' \in {"stubs", "done"}
       PROVE  ShortRuns(chains[j], out') = {}
  <2>1. DOMAIN chains = 1..Len(chains) /\ Len(chains) \in Nat
    BY DEF RoadInv, JoinInv, TypeOK
  <2>2. \/ MergeShortRun /\ stage' = "merge" /\ k' = k /\ j < k
        \/ ~MergeShortRun /\ stage = "merge" /\ (j < k \/ j = k)
        \/ ~MergeShortRun /\ stage = "stubs"
    <3>1. CASE MergeShortRun
      BY <1>10, <3>1 DEF MergeShortRun
    <3>2. CASE NarrowDeadEnds
      <4>1. stage = "merge" /\ (k < Len(chains) => k' = k + 1 /\ stage' = "merge")
        BY <1>1, <3>2 DEF NarrowDeadEnds, NextStroke
      <4>2. j < k \/ j = k
        BY <1>1, <1>10, <2>1, <4>1
      <4>3. CASE MergeShortRun
        BY <1>10, <4>3 DEF MergeShortRun
      <4>4. QED
        BY <4>1, <4>2, <4>3, <3>1
    <3>3. CASE NarrowStub
      BY <3>3 DEF NarrowStub, MergeShortRun
    <3>4. QED
      BY <3>1, <3>2, <3>3
  <2>3. CASE j = k
    BY <1>1, <2>2, <2>3
  <2>4. CASE j # k
    <3>1. ShortRuns(chains[j], out) = {}
      BY <1>1, <2>2, <2>4 DEF RoadInv, RunsMerged, MergeShortRun
    <3>2. Joined
      BY <1>1 DEF Joined
    <3>3. QED
      BY <1>1, <2>4, <3>1, <3>2, OtherStrokes DEF RoadInv
  <2>5. QED
    BY <2>3, <2>4
<1>11. RunsMerged'
  <2>1. \A j \in DOMAIN chains : ShortRuns(chains[j], out)' = ShortRuns(chains[j], out')
    BY <1>1, SameNetRuns
  <2>2. QED
    BY <1>1, <1>10, <2>1 DEF RunsMerged
<1>12. QED
  BY <1>8, <1>9, <1>11 DEF RoadInv

\* Recoding changes the symbols of the given lines.
LEMMA RecodedFacts ==
  ASSUME NEW o \in [Lines -> Codes], NEW S, NEW code \in Codes
  PROVE  /\ Recoded(o, S, code) \in [Lines -> Codes]
         /\ \A i \in Lines : Recoded(o, S, code)[i] = IF i \in S THEN code ELSE o[i]
BY DEF Recoded

\* A short run takes the symbol of a neighbour.
LEMMA MergeStep ==
  ASSUME ConstantsOK, RoadInv, MergeShortRun
  PROVE  RoadInv'
<1> DEFINE ch == chains[k]
<1>1. PICK r \in ShortRuns(ch, out) : \E q \in Neighbours(ch, r) :
        out' = Recoded(out, LinesOfRun(ch, r), out[ch[q.from]])
  BY DEF MergeShortRun
<1>2. PICK q \in Neighbours(ch, r) : out' = Recoded(out, LinesOfRun(ch, r), out[ch[q.from]])
  BY <1>1
<1>3. ch \in Seq(Lines) /\ DOMAIN ch = 1..Len(ch) /\ out \in [Lines -> Codes]
  BY Strokes DEF MergeShortRun, RoadInv, JoinInv, TypeOK, Joined
<1>4. out[ch[q.from]] \in Codes
  BY <1>3 DEF Neighbours, RunsOf
<1>5. LinesOfRun(ch, r) \subseteq ToSet(ch) /\ LinesOfRun(ch, r) \cap Fixed = {}
  <2>1. r.from \in DOMAIN ch /\ r.to \in DOMAIN ch /\ ~RunFixed(ch, r)
    BY DEF ShortRuns, RunsOf
  <2>2. \A j \in r.from..r.to : j \in DOMAIN ch
    BY <1>3, <2>1
  <2>3. QED
    BY <2>1, <2>2 DEF LinesOfRun, ToSet, RunFixed
<1>6. /\ out' \in [Lines -> Codes]
      /\ \A i \in Lines : out'[i] = IF i \in LinesOfRun(ch, r) THEN out[ch[q.from]] ELSE out[i]
  <2> DEFINE code == out[ch[q.from]]
  <2> HIDE DEF code
  <2>1. code \in Codes /\ out' = Recoded(out, LinesOfRun(ch, r), code)
    BY <1>2, <1>4 DEF code
  <2>2. QED
    BY <1>3, <2>1, RecodedFacts DEF code
<1>7. \A i \in Fixed : i \in Lines
  BY DEF Fixed
<1>8. QED
  BY <1>5, <1>6, <1>7, SymbolsKeep

\* Both dead ends of a stroke without short runs are narrowed.
LEMMA NarrowDeadEndsStep ==
  ASSUME ConstantsOK, RoadInv, NarrowDeadEnds
  PROVE  RoadInv'
<1> DEFINE ch == chains[k]
<1>1. /\ k \in DOMAIN chains /\ ShortRuns(ch, out) = {} /\ out' = Narrow(Reverse(ch), Narrow(ch, out))
      /\ Joined /\ TypeOK
  BY DEF NarrowDeadEnds, RoadInv, JoinInv, TypeOK, Joined
<1>2. ch \in Seq(Lines) /\ IsInjective(ch)
  BY <1>1, Strokes, OnceEach DEF RoadInv
<1>3. /\ out' \in [Lines -> Codes]
      /\ \A i \in Lines \ ToSet(ch) : out'[i] = out[i]
      /\ \A i \in Fixed : out'[i] = out[i]
      /\ ShortRuns(ch, out') = {}
  BY <1>1, <1>2, NarrowBoth
<1>4. QED
  BY <1>3, SymbolsKeep

\* A stub becomes one run.
LEMMA NarrowStubStep ==
  ASSUME ConstantsOK, RoadInv, NarrowStub
  PROVE  RoadInv'
<1> DEFINE ch == chains[k]
<1>1. /\ stage = "stubs" /\ k \in DOMAIN chains /\ out \in [Lines -> Codes] /\ TypeOK
      /\ ShortRuns(ch, out) = {}
  BY DEF NarrowStub, RoadInv, JoinInv, TypeOK, Joined, RunsMerged
<1>2. ch \in Seq(Lines) /\ ToSet(ch) \subseteq Lines
  BY <1>1, Strokes
<1>3. CASE NarrowedTo(ch) = {}
  <2>1. out' = out
    BY <1>3 DEF NarrowStub
  <2>2. QED
    BY <1>1, <2>1, SymbolsKeep
<1>4. CASE NarrowedTo(ch) # {}
  <2>1. PICK code \in NarrowedTo(ch) : out' = Recoded(out, ToSet(ch), code)
    BY <1>4 DEF NarrowStub
  <2>2. code \in Codes
    <3>1. PICK i \in UNION {LinesAt(x) : x \in Touch(ch)} : code = out[i]
      BY <2>1 DEF NarrowedTo, TouchingCodes
    <3>2. i \in Lines
      BY <1>1, <3>1, EndFacts DEF LinesAt, EndsAt
    <3>3. QED
      BY <1>1, <3>1, <3>2
  <2>3. /\ out' \in [Lines -> Codes]
        /\ \A i \in Lines : out'[i] = IF i \in ToSet(ch) THEN code ELSE out[i]
    BY <1>1, <2>1, <2>2, RecodedFacts
  <2>4. ToSet(ch) \cap Fixed = {} /\ Fixed \subseteq Lines
    BY <2>1 DEF NarrowedTo, Fixed
  <2>5. \A j \in DOMAIN ch : out'[ch[j]] = code
    BY <1>2, <2>3 DEF ToSet
  <2>6. ShortRuns(ch, out') = {}
    BY <1>2, <2>5, OneSymbol
  <2>7. QED
    BY <2>3, <2>4, <2>6, SymbolsKeep
<1>5. QED
  BY <1>3, <1>4

-----------------------------------------------------------------------------
\* RoadInv holds.

\* The steps before the symbols are changed.
LEMMA JoinStep ==
  ASSUME ConstantsOK, RoadInv,
         DrawRoads \/ PairEnds \/ EndsPaired \/ StartStroke \/ GoForth \/ TurnBack \/ GoBack
           \/ EndStroke \/ ReadSymbols
  PROVE  RoadInv'
<1>1. CASE DrawRoads \/ PairEnds \/ EndsPaired
  <2>1. JoinInv' /\ ~Joined' /\ stage' \notin {"merge", "stubs", "done"}
    BY <1>1, PairingStep DEF RoadInv, DrawRoads, PairEnds, EndsPaired, Joined
  <2>2. QED
    BY <2>1 DEF RoadInv, RunsMerged, FixedStay
<1>2. CASE StartStroke \/ GoForth \/ TurnBack \/ GoBack \/ EndStroke
  <2>1. /\ net' = net /\ partner' = partner /\ stage # "pair" /\ stage' # "pair"
        /\ ~Joined' /\ stage' \notin {"merge", "stubs", "done"}
    BY <1>2 DEF StartStroke, GoForth, TurnBack, GoBack, EndStroke, Joined
  <2>2. PartnersMeet' /\ StraightestFirst'
    BY <2>1, SameShape DEF RoadInv, JoinInv, PartnersMeet, StraightestFirst
  <2>3. TypeOK' /\ Underway'
    BY <1>2, StartStep, GoForthStep, TurnBackStep, GoBackStep, EndStrokeStep DEF RoadInv
  <2>4. LinesOnce' /\ StrokesClosed'
    <3>1. CASE EndStroke
      BY <3>1, EndStrokeStep DEF RoadInv
    <3>2. CASE ~EndStroke
      <4>1. chains' = chains
        BY <1>2, <3>2 DEF StartStroke, GoForth, TurnBack, GoBack
      <4>2. QED
        BY <2>1, <4>1 DEF RoadInv, JoinInv, LinesOnce, StrokesClosed, Closed, IsWay, Ends
    <3>3. QED
      BY <3>1, <3>2
  <2>5. QED
    BY <2>1, <2>2, <2>3, <2>4 DEF RoadInv, JoinInv, RunsMerged, FixedStay
<1>3. CASE ReadSymbols
  <2>1. /\ stage = "walk" /\ stage' = "merge" /\ UNCHANGED <<partner, chains, walk, k>> /\ k = 1
    BY <1>3 DEF ReadSymbols, RoadInv, JoinInv, TypeOK
  <2>2. TypeOK' /\ Covered(chains') = Lines' /\ net'.ends = net.ends
    BY <1>3, ReadSymbolsStep DEF RoadInv
  <2>3. Ends' = Ends
    BY <2>2, SameShape
  <2>4. PartnersMeet' /\ StraightestFirst'
    BY <2>1, <2>2, SameShape DEF RoadInv, JoinInv, PartnersMeet, StraightestFirst
  <2>5. LinesOnce' /\ StrokesClosed' /\ Underway'
    BY <2>1, <2>2, <2>3 DEF RoadInv, JoinInv, LinesOnce, StrokesClosed, Closed, IsWay, Underway
  <2>6. JoinInv'
    BY <2>2, <2>4, <2>5 DEF JoinInv, Covered
  <2>7. RunsMerged'
    <3>1. DOMAIN chains = 1..Len(chains) /\ k' = 1 /\ stage' = "merge"
      BY <2>1 DEF RoadInv, JoinInv, TypeOK
    <3>2. \A j \in DOMAIN chains : ~(j < k')
      BY <3>1
    <3>3. QED
      BY <2>1, <3>1, <3>2 DEF RunsMerged
  <2>8. FixedStay'
    <3>1. net'.code = out'
      BY <1>3 DEF ReadSymbols, RoadInv, JoinInv, TypeOK
    <3>2. QED
      BY <3>1 DEF FixedStay
  <2>9. QED
    BY <2>6, <2>7, <2>8 DEF RoadInv
<1>4. QED
  BY <1>1, <1>2, <1>3

\* RoadInv is inductive.
LEMMA RoadStep == ConstantsOK /\ RoadInv /\ [Next]_vars => RoadInv'
<1> SUFFICES ASSUME ConstantsOK, RoadInv, [Next]_vars PROVE RoadInv'
  OBVIOUS
<1>1. CASE UNCHANGED vars
  <2>1. net' = net
    BY <1>1 DEF vars
  <2>2. TypeOK'
    BY <1>1 DEF RoadInv, JoinInv, TypeOK, vars, Ends, Lines, Joined
  <2>3. PartnersMeet' /\ StraightestFirst' /\ LinesOnce' /\ StrokesClosed'
    BY <1>1, SameShape DEF RoadInv, JoinInv, vars, PartnersMeet, StraightestFirst, LinesOnce,
       StrokesClosed, Closed, IsWay
  <2>4. Underway'
    BY <1>1 DEF RoadInv, JoinInv, vars, Underway, Closed, OpenEnds, Start, IsWay, Ends, Covered
  <2>5. JoinInv'
    BY <1>1, <2>2, <2>3, <2>4 DEF RoadInv, JoinInv, vars, Joined, Covered, Lines
  <2>6. RunsMerged' /\ FixedStay'
    BY <1>1, <2>1, SameNetRuns DEF RoadInv, RunsMerged, FixedStay, vars, Joined, Fixed, Lines
  <2>7. QED
    BY <2>5, <2>6 DEF RoadInv
<1>2. CASE Next
  BY <1>2, JoinStep, MergeStep, NarrowDeadEndsStep, NarrowStubStep DEF Next
<1>3. QED
  BY <1>1, <1>2

\* Partners are on one stroke.
LEMMA PartnersTogether ==
  ASSUME ConstantsOK, JoinInv, Joined, NEW e \in Ends, partner[e] # 0
  PROVE  SameStroke(LineOf(e), LineOf(partner[e]))
<1>1. LineOf(e) \in Covered(chains)
  BY EndFacts DEF JoinInv
<1>2. PICK ch \in ToSet(chains) : LineOf(e) \in ToSet(ch)
  BY <1>1 DEF Covered
<1>3. LineOf(partner[e]) \in ToSet(ch)
  BY <1>2 DEF JoinInv, StrokesClosed, Closed
<1>4. QED
  BY <1>2, <1>3 DEF SameStroke

\* A way, given by the ends by which it leaves its lines, is a path.
LEMMA WaysArePaths ==
  ASSUME ConstantsOK, JoinInv, NEW ch \in ToSet(chains)
  PROVE  IsPath(ch)
<1>1. PICK lv \in [DOMAIN ch -> Ends] : IsWay(ch, lv)
  BY DEF JoinInv, StrokesClosed
<1> DEFINE forward == [j \in DOMAIN ch |-> lv[j] = 2 * ch[j]]
           leave == [j \in DOMAIN ch |-> IF forward[j] THEN 2 * ch[j] ELSE 2 * ch[j] - 1]
<1>2. ASSUME NEW j \in DOMAIN ch PROVE leave[j] = lv[j]
  <2>1. lv[j] \in Ends /\ LineOf(lv[j]) = ch[j]
    BY <1>1 DEF IsWay
  <2>2. /\ ch[j] \in Lines /\ 2 * ch[j] \in Ends /\ LineOf(2 * ch[j]) = ch[j]
        /\ OtherEnd(2 * ch[j]) = 2 * ch[j] - 1
    BY <2>1, EndFacts DEF JoinInv
  <2>3. lv[j] \in {2 * ch[j], 2 * ch[j] - 1}
    BY <2>1, <2>2, EndFacts DEF JoinInv
  <2>4. QED
    BY <2>3
<1>3. leave = lv
  <2>1. leave = [j \in DOMAIN ch |-> leave[j]] /\ lv = [j \in DOMAIN ch |-> lv[j]]
    OBVIOUS
  <2> HIDE DEF leave
  <2>2. QED
    BY <1>2, <2>1
<1>4. forward \in [DOMAIN ch -> BOOLEAN]
  OBVIOUS
<1>5. \A j \in DOMAIN ch : j < Len(ch) =>
        net.ends[leave[j]].node = net.ends[OtherEnd(leave[j + 1])].node
  <2> HIDE DEF leave
  <2>1. QED
    BY <1>1, <1>3 DEF IsWay
<1>6. QED
  BY <1>4, <1>5 DEF IsPath

\* At each node one of two ends that might be partners has a partner as straight.
LEMMA PassedWellInv ==
  ASSUME ConstantsOK, JoinInv, Joined, NEW x
  PROVE  PassedWell(x)
<1>1. SUFFICES ASSUME NEW a \in EndsAt(x), NEW b \in EndsAt(x), LineOf(a) # LineOf(b),
                      Cardinality(EndsAt(x)) = 2 \/ Deviation(a, b) <= MaxTurn
               PROVE  \/ SameStroke(LineOf(a), LineOf(b))
                      \/ \E c \in {a, b}, d \in EndsAt(x) \ {a, b} :
                           SameStroke(LineOf(c), LineOf(d)) /\ Deviation(c, d) <= Deviation(a, b)
  BY DEF PassedWell
<1>2. a \in Ends /\ b \in Ends /\ net.ends[a].node = x /\ net.ends[b].node = x
  BY DEF EndsAt
<1>3. MayPass(a, b)
  BY <1>1, <1>2 DEF MayPass
<1>4. PICK c \in {a, b} : partner[c] # 0 /\ Deviation(c, partner[c]) <= Deviation(a, b)
  BY <1>2, <1>3 DEF JoinInv, StraightestFirst, Joined
<1>5. /\ partner[c] \in EndsAt(x) /\ partner[c] # c
      /\ SameStroke(LineOf(c), LineOf(partner[c]))
  BY <1>2, <1>4, PartnerFacts, PartnersTogether DEF JoinInv, EndsAt
<1>6. CASE partner[c] \in {a, b}
  BY <1>4, <1>5, <1>6 DEF SameStroke
<1>7. CASE partner[c] \notin {a, b}
  BY <1>4, <1>5, <1>7
<1>8. QED
  BY <1>6, <1>7

\* RoadInv implies the properties.
LEMMA RoadProperties ==
  ASSUME ConstantsOK, RoadInv
  PROVE  TypeOK /\ StrokesArePaths /\ WidthChangesBetweenLongRuns
<1>1. TypeOK
  BY DEF RoadInv, JoinInv
<1>2. StrokesArePaths
  BY WaysArePaths, PassedWellInv DEF RoadInv, JoinInv, StrokesArePaths
<1>3. WidthChangesBetweenLongRuns
  BY DEF RoadInv, RunsMerged, FixedStay, WidthChangesBetweenLongRuns, ToSet, Joined
<1>4. QED
  BY <1>1, <1>2, <1>3

\* RoadInv holds at the start.
LEMMA RoadInit == ConstantsOK /\ Init => RoadInv
<1> SUFFICES ASSUME ConstantsOK, Init PROVE RoadInv
  OBVIOUS
<1>1. DOMAIN chains = {}
  BY DEF Init
<1>2. QED
  BY <1>1, JoinInit DEF Init, RoadInv, RunsMerged, FixedStay, Joined

\* Every network has the types of its lines: what strokes() and stroke_codes() are
\* given and make, on whatever roads.
THEOREM TypeCorrect == ASSUME ConstantsOK PROVE Spec => []TypeOK
<1>1. Init => RoadInv
  BY RoadInit
<1>2. RoadInv /\ [Next]_vars => RoadInv'
  BY RoadStep
<1>3. RoadInv => TypeOK
  BY RoadProperties
<1>4. QED
  BY <1>1, <1>2, <1>3, PTL DEF Spec

\* strokes() joins the lines of every network into ways: each line is on one
\* stroke, once, and no stroke ends where it should go on.
THEOREM StrokesAreWays == ASSUME ConstantsOK PROVE Spec => []StrokesArePaths
<1>1. Init => RoadInv
  BY RoadInit
<1>2. RoadInv /\ [Next]_vars => RoadInv'
  BY RoadStep
<1>3. RoadInv => StrokesArePaths
  BY RoadProperties
<1>4. QED
  BY <1>1, <1>2, <1>3, PTL DEF Spec

\* stroke_codes(): in the end the symbol of a stroke changes only between runs
\* that are long or fixed, whatever the lengths and symbols are.
THEOREM WidthChanges == ASSUME ConstantsOK PROVE Spec => []WidthChangesBetweenLongRuns
<1>1. Init => RoadInv
  BY RoadInit
<1>2. RoadInv /\ [Next]_vars => RoadInv'
  BY RoadStep
<1>3. RoadInv => WidthChangesBetweenLongRuns
  BY RoadProperties
<1>4. QED
  BY <1>1, <1>2, <1>3, PTL DEF Spec
=============================================================================
