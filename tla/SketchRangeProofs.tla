------------------------- MODULE SketchRangeProofs -------------------------
(***************************************************************************)
(* What frequency() makes of the nodes, for every geometry, hash and       *)
(* number of threads and calls: interval_sketch never puts a range below   *)
(* its accesses (NeverUnder), and gxj_range_frequency_sketch never puts a  *)
(* granule below them by more than one for each level under the highest    *)
(* that counts (UnderByLevels), both under Patient.                        *)
(***************************************************************************)
EXTENDS IntervalSketchProofs

--------------------------------------------------------------------------------
(* The tree over the granules                                                  *)

\* The node of a level over granule i.
Above(i, k) == <<k, i - (i % 2^k)>>

LEMMA TreeSize ==
  /\ Levels \in Nat \ {0} /\ End \in Nat \ {0} /\ End = 2^(Levels - 1)
  /\ \A k \in 0..Levels - 1 : 2^k \in Nat \ {0} /\ End = 2^k * 2^((Levels - 1) - k)
  /\ End > 1 => Levels >= 2
<1>1. Levels \in Nat \ {0} /\ End = 2^(Levels - 1)
  BY GeometryAssumption
<1> DEFINE L == Levels - 1
<1>2. L \in Nat /\ Levels = L + 1
  BY <1>1
<1> HIDE DEF L
<1>3. ASSUME NEW k \in 0..L
      PROVE  2^k \in Nat \ {0} /\ 2^L = 2^k * 2^(L - k)
  <2>1. k \in Nat /\ L - k \in Nat /\ k + (L - k) = L
    BY <1>2
  <2>2. 2^(k + (L - k)) = 2^k * 2^(L - k)
    BY <2>1, PowersMultiply
  <2> QED
    BY <2>1, <2>2, PowersDouble
<1>4. 2^L \in Nat \ {0} /\ (L = 0 => 2^L = 1)
  BY <1>2, PowersDouble
<1> QED
  BY <1>1, <1>2, <1>3, <1>4 DEF L

LEMMA AboveSpans ==
  ASSUME NEW i \in Nat, NEW k \in Nat
  PROVE  LET n == Above(i, k)
         IN /\ n[1] = k /\ Start(n) \in Nat /\ Width(n) = 2^k /\ Width(n) \in Nat \ {0}
            /\ Start(n) % Width(n) = 0 /\ Until(n) \in Nat
            /\ Start(n) <= i /\ i < Until(n)
<1>1. 2^k \in Nat \ {0}
  BY PowersDouble
<1>2. /\ i - (i % 2^k) \in Nat /\ i - (i % 2^k) <= i /\ i < (i - (i % 2^k)) + 2^k
      /\ (i - (i % 2^k)) % 2^k = 0
  BY <1>1, MultipleBelow
<1>3. (i - (i % 2^k)) + 2^k \in Nat
  BY <1>1, <1>2
<1> QED
  BY <1>1, <1>2, <1>3 DEF Above, Start, Width, Until

\* A level has one node over a granule.
LEMMA OneAbove ==
  ASSUME NEW n \in Nodes, NEW i \in Nat, Start(n) <= i, i < Until(n)
  PROVE  n = Above(i, n[1])
<1>1. /\ Width(n) \in Nat \ {0} /\ Start(n) \in Nat /\ n = <<n[1], Start(n)>>
      /\ Start(n) % Width(n) = 0 /\ Until(n) = Start(n) + Width(n)
  BY WidthIsPositive DEF Nodes, Until
<1>2. Start(n) = i - (i % Width(n))
  BY <1>1, MultipleBelow
<1> QED
  BY <1>1, <1>2 DEF Above, Width

LEMMA AboveIsNode ==
  ASSUME NEW i \in 0..End - 1, NEW k \in 0..Levels - 1
  PROVE  Above(i, k) \in Nodes
<1> DEFINE n == Above(i, k)
           w == Width(n)
           q == 2^((Levels - 1) - k)
<1>1. /\ i \in Nat /\ k \in Nat /\ End \in Nat /\ End = w * q
      /\ q \in Nat \ {0} /\ i < End
  <2>1. (Levels - 1) - k \in Nat /\ i \in Nat /\ k \in Nat
    BY TreeSize
  <2>2. q \in Nat \ {0}
    BY <2>1, PowersDouble
  <2>3. End = 2^k * q /\ w = 2^k
    BY <2>1, TreeSize, AboveSpans
  <2> QED
    BY <2>1, <2>2, <2>3, TreeSize
<1>2. /\ w \in Nat \ {0} /\ Start(n) \in Nat /\ Start(n) % w = 0 /\ Start(n) <= i
      /\ Until(n) = Start(n) + w /\ n = <<k, Start(n)>>
  BY <1>1, AboveSpans DEF Until, Above, Start
<1> DEFINE p == Start(n) \div w
<1> HIDE DEF q, w, n
<1>3. p \in Nat /\ Start(n) = w * p
  BY <1>2
<1> HIDE DEF p
<1>4. p < q
  BY <1>1, <1>2, <1>3
<1>5. (w * p) + w <= w * q
  BY <1>1, <1>2, <1>3, <1>4
<1>6. Until(n) \in 1..End /\ Start(n) \in 0..End - 1
  BY <1>1, <1>2, <1>3, <1>5
<1> QED
  BY <1>1, <1>2, <1>6 DEF Nodes, n, w, Start

\* The range of a call ends before its unit does.
LEMMA RangeInUnit ==
  ASSUME NEW a \in Accesses
  PROVE  Left(a[2]) \in 0..End - 1 /\ Right(a[2], a[3]) \in 0..End - 1
<1>1. ASSUME NEW x \in 0..UnitSize - 1
      PROVE  x \div Granularity \in 0..End - 1
  <2> DEFINE q == x \div Granularity
             e == (UnitSize + Granularity - 1) \div Granularity
  <2>1. UnitSize \in Nat \ {0} /\ Granularity \in Nat \ {0} /\ x \in Nat
    BY GeometryAssumption
  <2>2. /\ q \in Nat /\ Granularity * q <= x
        /\ e \in Nat /\ UnitSize + Granularity - 1 < (Granularity * e) + Granularity
    <3>1. \A i \in Nat, w \in Nat \ {0} :
            /\ i \div w \in Nat /\ w * (i \div w) <= i
            /\ i < (w * (i \div w)) + w /\ w * (i \div w) \in Nat
      OBVIOUS
    <3>2. UnitSize + Granularity - 1 \in Nat
      BY <2>1
    <3> QED
      BY <2>1, <3>1, <3>2
  <2> HIDE DEF q, e
  <2>3. Granularity * q \in Nat /\ Granularity * e \in Nat
    BY <2>1, <2>2
  <2>4. Granularity * q < Granularity * e
    BY <2>1, <2>2, <2>3
  <2>5. q < e
    BY <2>1, <2>2, <2>4
  <2> QED
    BY <2>2, <2>5 DEF q, e, End
<1>2. a[2] \in Nat /\ a[2] + a[3] \in Nat /\ UnitSize \in Nat \ {0}
  BY CallsAssumption, GeometryAssumption
<1>3. a[2] % UnitSize \in 0..UnitSize - 1 /\ (a[2] + a[3]) % UnitSize \in 0..UnitSize - 1
  BY <1>2
<1> QED
  BY <1>1, <1>3 DEF Left, Right

\* Every granule of a range lies under a node at which the recursion stops: the
\* highest node over it that the range holds whole.  That is never the root.
LEMMA StopAbove ==
  ASSUME NEW left \in 0..End - 1, NEW right \in 0..End - 1, NEW i \in left..right - 1
  PROVE  \E k \in 0..Levels - 2 : Above(i, k) \in Stops(left, right)
<1> DEFINE K == {k \in 0..Levels - 1 : Whole(Above(i, k), left, right)}
           T == {m \in Nat : (Levels - 1) - m \in K}
<1>1. i \in Nat /\ left \in Nat /\ right \in Nat /\ Levels - 1 \in Nat /\ left <= i /\ i < right
  BY TreeSize
<1>2. 0 \in K
  <2>1. 2^0 = 1
    BY PowersDouble
  <2>2. Start(Above(i, 0)) = i /\ Until(Above(i, 0)) = i + 1
    <3>1. LET n == Above(i, 0)
          IN /\ Start(n) \in Nat /\ Width(n) = 2^0
             /\ Start(n) <= i /\ i < Until(n)
      BY <1>1, AboveSpans
    <3> HIDE DEF K
    <3> QED
      BY <1>1, <2>1, <3>1 DEF Until
  <2> QED
    BY <1>1, <2>2 DEF Whole
<1>3. PICK k \in K : \A m \in K : m <= k
  <2>1. K \subseteq 0..Levels - 1
    OBVIOUS
  <2> HIDE DEF K
  <2>2. Levels - 1 \in T
    BY <1>1, <1>2
  <2>3. PICK x \in T : \A y \in T : x <= y
    BY <2>2, LeastNumber
  <2>4. x \in Nat /\ (Levels - 1) - x \in K
    BY <2>3
  <2>5. ASSUME NEW m \in K PROVE m <= (Levels - 1) - x
    <3>1. m \in Nat /\ (Levels - 1) - m \in Nat /\ (Levels - 1) - ((Levels - 1) - m) = m
      BY <1>1, <2>1
    <3>2. (Levels - 1) - m \in T
      BY <3>1
    <3>3. x <= (Levels - 1) - m
      BY <2>3, <3>2
    <3> QED
      BY <1>1, <2>4, <3>1, <3>3
  <2> QED
    BY <2>4, <2>5
<1> DEFINE n == Above(i, k)
<1>4. /\ k \in 0..Levels - 1 /\ Whole(n, left, right)
      /\ \A m \in 0..Levels - 1 : Whole(Above(i, m), left, right) => m <= k
  BY <1>3
<1> HIDE DEF K, T
<1>5. i \in 0..End - 1
  BY <1>1, TreeSize
<1>6. /\ n[1] = k /\ Start(n) \in Nat /\ Width(n) = 2^k /\ Until(n) \in Nat
      /\ Start(n) <= i /\ i < Until(n) /\ n \in Nodes
  BY <1>1, <1>4, <1>5, AboveSpans, AboveIsNode
<1>7. n \in Visited(left, right)
  <2> HIDE DEF n
  <2> QED
    BY <1>1, <1>6 DEF Visited
<1>8. ASSUME NEW m \in Nodes, m[1] > k, Whole(m, left, right),
             Start(m) <= Start(n), Until(n) <= Until(m)
      PROVE  FALSE
  <2>1. m[1] \in 0..Levels - 1 /\ Start(m) \in Int /\ Until(m) \in Int
    BY WidthIsPositive DEF Nodes
  <2>2. Start(m) <= i /\ i < Until(m)
    <3> HIDE DEF n
    <3> QED
      BY <1>1, <1>6, <1>8, <2>1
  <2>3. m = Above(i, m[1])
    BY <1>1, <2>2, OneAbove
  <2>4. m[1] <= k
    BY <1>4, <1>8, <2>1, <2>3
  <2> QED
    BY <1>4, <1>8, <2>1, <2>4
<1>9. n \in Stops(left, right)
  <2> HIDE DEF n
  <2> QED
    BY <1>4, <1>6, <1>7, <1>8 DEF Stops
<1>10. k # Levels - 1
  <2>1. k = Levels - 1 => Width(n) = End
    BY <1>6, TreeSize
  <2>2. Until(n) = Start(n) + Width(n) /\ Until(n) <= right /\ right <= End - 1 /\ End \in Nat
    BY <1>4, TreeSize DEF Whole, Until
  <2> HIDE DEF n
  <2> QED
    BY <1>1, <1>6, <2>1, <2>2
<1>11. k \in 0..Levels - 2
  <2>1. Levels \in Nat
    BY TreeSize
  <2> HIDE DEF n
  <2> QED
    BY <1>4, <1>10, <2>1
<1> QED
  BY <1>9, <1>11

--------------------------------------------------------------------------------
(* interval_sketch: a range is never below its accesses                        *)

LEMMA EstimateIsLeast ==
  ASSUME Types, NEW unit \in Units, NEW n \in Nodes, NEW kind \in {"dyadic", "lazy"}
  PROVE  /\ Estimate(unit, n, kind) \in Nat
         /\ \E c \in Cells(unit, n, kind) : Estimate(unit, n, kind) = counters[c]
<1> DEFINE S == {counters[c] : c \in Cells(unit, n, kind)}
<1>1. S # {}
  <2>1. PICK row \in Rows : TRUE
    BY CallsAssumption
  <2>2. Cells(unit, n, kind) # {}
    BY <2>1 DEF Cells
  <2> QED
    BY <2>2
<1>2. S \subseteq Nat
  BY CellsInTable, CallsAssumption DEF Types
<1>3. \E x \in S : \A y \in S : x <= y
  <2> HIDE DEF S
  <2> QED
    BY <1>1, <1>2, LeastNumber
<1>4. Min(S) \in S
  <2> HIDE DEF S
  <2> QED
    BY <1>3, Zenon DEF Min
<1> QED
  BY <1>2, <1>4 DEF Estimate

LEMMA StopsFinite ==
  ASSUME NEW left, NEW right
  PROVE  /\ Stops(left, right) \subseteq Nodes /\ IsFiniteSet(Stops(left, right))
         /\ Partial(left, right) \subseteq Nodes /\ IsFiniteSet(Partial(left, right))
<1>1. Stops(left, right) \in SUBSET Nodes /\ Partial(left, right) \in SUBSET Nodes
  BY DEF Stops, Partial, Visited
<1> QED
  BY <1>1, NodesFinite, FS_Subset

LEMMA NodesCountGiveRanges ==
  ASSUME Types, NodesCount, lazy \in BOOLEAN
  PROVE  NeverUnder
<1> SUFFICES ASSUME ~lazy, NEW unit \in Units, NEW left \in 0..End - 1,
                    NEW right \in 0..End - 1, left < right
             PROVE  frequency(unit, left, right)
                    >= SumFunction([i \in left..right - 1 |-> truth[<<unit, i>>]])
  BY DEF NeverUnder
<1> DEFINE I == left..right - 1
           N == Stops(left, right)
           t == [i \in I |-> truth[<<unit, i>>]]
           v == [n \in N |-> Estimate(unit, n, "dyadic")]
           w == [n \in N |-> Width(n)]
           p == [n \in N |-> Estimate(unit, n, "dyadic") * Width(n)]
           owner == [i \in I |-> CHOOSE n \in N : Start(n) <= i /\ i < Until(n)]
<1>1. IsFiniteSet(I) /\ IsFiniteSet(N) /\ N \subseteq Nodes
  <2>1. left \in Int /\ right - 1 \in Int
    BY TreeSize
  <2> QED
    BY <2>1, FS_Interval, StopsFinite
<1>2. ASSUME NEW i \in I
      PROVE  /\ owner[i] \in N /\ Start(owner[i]) <= i /\ i < Until(owner[i])
             /\ i \in Int /\ <<unit, i>> \in Granules
  <2>1. PICK k \in 0..Levels - 2 : Above(i, k) \in N
    BY StopAbove
  <2>2. i \in Nat /\ k \in Nat /\ i \in 0..End - 1
    BY TreeSize
  <2>3. Start(Above(i, k)) <= i /\ i < Until(Above(i, k))
    BY <2>2, AboveSpans
  <2>4. \E n \in N : Start(n) <= i /\ i < Until(n)
    <3> HIDE DEF N
    <3> QED
      BY <2>1, <2>3
  <2>5. owner[i] \in N /\ Start(owner[i]) <= i /\ i < Until(owner[i])
    <3> HIDE DEF N
    <3> QED
      BY <2>4
  <2> QED
    BY <2>2, <2>5 DEF Granules
<1>3. owner \in [I -> N]
  <2>1. owner = [i \in I |-> owner[i]]
    OBVIOUS
  <2> HIDE DEF owner, N, I
  <2> QED
    BY <1>2, <2>1
<1>4. ASSUME NEW i \in I
      PROVE  t[i] \in Nat /\ t[i] <= v[owner[i]]
  <2> DEFINE n == owner[i]
  <2>1. n \in N /\ Start(n) <= i /\ i < Until(n) /\ <<unit, i>> \in Granules
    BY <1>2
  <2> HIDE DEF n, owner
  <2>2. PICK c \in Cells(unit, n, "dyadic") : Estimate(unit, n, "dyadic") = counters[c]
    BY <1>1, <2>1, EstimateIsLeast
  <2>3. counters[c] >= truth[<<unit, i>>]
    BY <1>1, <2>1 DEF NodesCount
  <2>4. truth[<<unit, i>>] \in Nat /\ counters[c] \in Nat
    <3>1. c \in AllCells
      BY <1>1, <2>1, CellsInTable
    <3> QED
      BY <2>1, <3>1, CallsAssumption DEF Types
  <2>5. t[i] = truth[<<unit, i>>] /\ v[n] = counters[c]
    BY <2>1, <2>2
  <2> QED
    BY <2>3, <2>4, <2>5 DEF n
<1>5. ASSUME NEW n \in N
      PROVE  /\ v[n] \in Nat /\ w[n] \in Nat /\ p[n] = v[n] * w[n]
             /\ Cardinality({i \in I : owner[i] = n}) <= w[n]
  <2>1. n \in Nodes
    BY <1>1
  <2>2. v[n] \in Nat /\ w[n] \in Nat /\ w[n] = Width(n) /\ p[n] = v[n] * w[n]
    BY <2>1, EstimateIsLeast, WidthIsPositive
  <2>3. Start(n) \in Int /\ Until(n) = Start(n) + Width(n)
    BY <2>1, WidthIsPositive DEF Until
  <2> DEFINE own == {i \in I : owner[i] = n}
             span == Start(n)..Until(n) - 1
  <2>4. own \subseteq span
    <3>1. \A i \in own : i \in Int /\ Start(n) <= i /\ i < Until(n)
      <4> HIDE DEF owner, N
      <4> QED
        BY <1>2
    <3> HIDE DEF own
    <3> QED
      BY <2>2, <2>3, <3>1
  <2>5. IsFiniteSet(span) /\ Cardinality(span) = Width(n)
    <3>1. Until(n) - 1 \in Int /\ Start(n) <= Until(n) - 1 + 1
      BY <2>2, <2>3
    <3>2. /\ IsFiniteSet(span)
          /\ Cardinality(span) = IF Start(n) > Until(n) - 1 THEN 0
                                 ELSE Until(n) - 1 - Start(n) + 1
      BY <2>3, <3>1, FS_Interval
    <3> HIDE DEF span
    <3> QED
      BY <2>2, <2>3, <3>1, <3>2
  <2>6. Cardinality(own) <= Cardinality(span)
    <3> HIDE DEF own, span
    <3> QED
      BY <2>4, <2>5, FS_Subset
  <2> HIDE DEF v, w, p, owner
  <2> QED
    BY <2>2, <2>5, <2>6
<1>6. SumFunctionOnSet(t, I) <= SumFunctionOnSet(p, N)
  <2> HIDE DEF t, v, w, p, owner, I, N
  <2> QED
    BY <1>1, <1>3, <1>4, <1>5, SumByOwner
<1>7. SumFunction(t) = SumFunctionOnSet(t, I) /\ SumFunction(p) = SumFunctionOnSet(p, N)
  BY DEF SumFunction
<1>8. frequency(unit, left, right) = SumFunction(p) + 0
  BY DEF frequency
<1>9. SumFunctionOnSet(t, I) \in Nat /\ SumFunctionOnSet(p, N) \in Nat
  <2>1. \A n \in N : p[n] \in Nat
    <3>1. \A a, b \in Nat : a * b \in Nat
      OBVIOUS
    <3> HIDE DEF p, v, w, N
    <3> QED
      BY <1>5, <3>1
  <2> HIDE DEF t, v, w, p, owner, I, N
  <2> QED
    BY <1>1, <1>4, <2>1, SumIsNatural
<1>10. frequency(unit, left, right) >= SumFunction(t)
  <2> HIDE DEF t, p, I, N
  <2> QED
    BY <1>6, <1>7, <1>8, <1>9
<1> QED
  BY <1>10

\* interval_sketch: the frequency of a range, put together from the estimates of
\* the nodes at which inner_frequency stops (interval_sketch.hpp: 160-180), each
\* times its width, is never below the accesses of its granules, whatever nodes
\* share the counters and wherever a reset is (the truth ages with it), provided
\* that try_reset is not called while the thread of an earlier call still halves.
THEOREM IntervalNeverUnder ==
  ASSUME Patient
  PROVE  Spec => []NeverUnder
<1>1. Types /\ Sizes /\ NodesCount => NeverUnder
  BY NodesCountGiveRanges DEF Sizes
<1>2. (Types /\ Sizes) /\ [Next]_vars => (Types /\ Sizes)'
  BY NextTypes, NextSizes
<1> QED
  BY <1>1, <1>2, InitTypes, IntervalNodesCount, PTL DEF Spec

--------------------------------------------------------------------------------
(* gxj_range_frequency_sketch: the invariant                                   *)

\* The levels whose lazy counters an access can raise: all but the root's.
Below == 0..Levels - 2

\* The lazy cells of the nodes over a granule are worth v, level by level.
PathIsWorth(g, v) ==
  \A k \in Below : \A c \in Cells(g[1], Above(g[2], k), "lazy") : Worth(c, v[k])

\* What they are worth together falls short of the accesses by one less than there
\* are such levels.
PathWorth ==
  lazy => \A g \in Granules :
            g[2] < End - 1 =>
            \E v \in [Below -> 0..MaxCount] :
              /\ PathIsWorth(g, v)
              /\ truth[g] <= SumFunctionOnSet(v, Below) + (Levels - 2)

LEMMA BelowFinite ==
  /\ Levels \in Nat \ {0} /\ IsFiniteSet(Below) /\ Cardinality(Below) = Levels - 1
  /\ Below \subseteq 0..Levels - 1 /\ Below \subseteq Nat
<1>1. Levels \in Nat \ {0}
  BY TreeSize
<1>2. 0 \in Int /\ Levels - 2 \in Int
  BY <1>1
<1>3. /\ IsFiniteSet(Below)
      /\ Cardinality(Below) = IF 0 > Levels - 2 THEN 0 ELSE (Levels - 2) - 0 + 1
  BY <1>2, FS_Interval DEF Below
<1> QED
  BY <1>1, <1>3 DEF Below

LEMMA PathCells ==
  ASSUME NEW g \in Granules, NEW k \in Below
  PROVE  /\ Above(g[2], k) \in Nodes
         /\ Cells(g[1], Above(g[2], k), "lazy") \subseteq AllCells
<1>1. g[1] \in Units /\ g[2] \in 0..End - 1 /\ k \in 0..Levels - 1
  BY BelowFinite DEF Granules
<1>2. Above(g[2], k) \in Nodes
  BY <1>1, AboveIsNode
<1> QED
  BY <1>1, <1>2, CellsInTable

LEMMA PathSum ==
  ASSUME NEW v \in [Below -> 0..MaxCount]
  PROVE  /\ \A k \in Below : v[k] \in Nat /\ v[k] \in 0..MaxCount
         /\ SumFunctionOnSet(v, Below) \in Nat
         /\ \A k \in Below : v[k] <= SumFunctionOnSet(v, Below)
<1>1. \A k \in Below : v[k] \in Nat /\ v[k] \in 0..MaxCount
  BY CallsAssumption
<1>2. SumFunctionOnSet(v, Below) \in Nat
  BY <1>1, BelowFinite, SumIsNatural
<1>3. ASSUME NEW k \in Below
      PROVE  v[k] <= SumFunctionOnSet(v, Below)
  <2>1. SumFunctionOnSet(v, Below) = v[k] + SumFunctionOnSet(v, Below \ {k})
    BY <1>1, BelowFinite, SumWithout
  <2>2. SumFunctionOnSet(v, Below \ {k}) \in Nat
    BY <1>1, BelowFinite, FS_Subset, SumIsNatural
  <2> QED
    BY <1>1, <2>1, <2>2
<1> QED
  BY <1>1, <1>2, <1>3

LEMMA InitPathWorth == Init => PathWorth
<1> SUFFICES ASSUME Init, NEW g \in Granules, g[2] < End - 1
             PROVE  \E v \in [Below -> 0..MaxCount] :
                      /\ PathIsWorth(g, v)
                      /\ truth[g] <= SumFunctionOnSet(v, Below) + (Levels - 2)
  BY DEF PathWorth
<1> DEFINE v == [k \in Below |-> 0]
<1>1. v \in [Below -> 0..MaxCount]
  BY CallsAssumption
<1>2. \A c \in AllCells : Worth(c, 0)
  <2>1. \A i \in Threads : thread[i].pc = "off"
    BY DEF Init, Off
  <2> QED
    BY <2>1 DEF Init, Worth, Halving
<1>3. PathIsWorth(g, v)
  BY <1>2, PathCells DEF PathIsWorth
<1>4. SumFunctionOnSet(v, Below) \in Nat
  <2> HIDE DEF v
  <2> QED
    BY <1>1, PathSum
<1>5. Levels \in Nat /\ Levels >= 2
  <2>1. g[2] \in Nat /\ End \in Nat
    BY TreeSize DEF Granules
  <2> QED
    BY <2>1, TreeSize
<1>6. truth[g] = 0
  BY DEF Init
<1> HIDE DEF v
<1>7. truth[g] <= SumFunctionOnSet(v, Below) + (Levels - 2)
  BY <1>4, <1>5, <1>6
<1> QED
  BY <1>1, <1>3, <1>7

\* Halving loses less than the rounding of all those levels.
LEMMA AgingPathWorth ==
  ASSUME Shape, PathWorth, Patient, must_reset \/ (\E i \in Threads : try_reset(i))
  PROVE  PathWorth'
<1>1. /\ lazy' = lazy
      /\ \A g \in Granules : truth'[g] = truth[g] \div 2
      /\ \A c \in AllCells, x \in Nat : Worth(c, x) => Worth(c, x \div 2)'
  BY AgingHalves
<1>2. ASSUME lazy, NEW g \in Granules, g[2] < End - 1
      PROVE  \E v \in [Below -> 0..MaxCount] :
               /\ PathIsWorth(g, v)'
               /\ truth'[g] <= SumFunctionOnSet(v, Below) + (Levels - 2)
  <2>1. PICK v \in [Below -> 0..MaxCount] :
          /\ PathIsWorth(g, v)
          /\ truth[g] <= SumFunctionOnSet(v, Below) + (Levels - 2)
    BY <1>2 DEF PathWorth
  <2> DEFINE h == [k \in Below |-> v[k] \div 2]
  <2>2. \A k \in Below : v[k] \in Nat /\ v[k] \in 0..MaxCount
    BY PathSum
  <2>3. h \in [Below -> 0..MaxCount] /\ \A k \in Below : h[k] = v[k] \div 2
    <3>1. \A k \in Below : v[k] \div 2 \in 0..MaxCount
      BY <2>2, HalfIsMonotone, CallsAssumption
    <3> QED
      BY <3>1
  <2> HIDE DEF h
  <2>4. PathIsWorth(g, h)'
    <3> SUFFICES ASSUME NEW k \in Below, NEW c \in Cells(g[1], Above(g[2], k), "lazy")
                 PROVE  Worth(c, h[k])'
      BY DEF PathIsWorth
    <3>1. Worth(c, v[k]) /\ c \in AllCells
      BY <2>1, PathCells DEF PathIsWorth
    <3>2. Worth(c, v[k] \div 2)'
      BY <1>1, <2>2, <3>1
    <3> QED
      BY <2>3, <3>2
  <2>5. SumFunctionOnSet(v, Below) <= 2 * SumFunctionOnSet(h, Below) + Cardinality(Below)
    BY <2>2, <2>3, BelowFinite, SumOfHalves
  <2>6. truth'[g] <= SumFunctionOnSet(h, Below) + (Levels - 2)
    <3>1. /\ SumFunctionOnSet(v, Below) \in Nat /\ SumFunctionOnSet(h, Below) \in Nat
          /\ Levels \in Nat /\ Cardinality(Below) = Levels - 1
      BY <2>3, PathSum, BelowFinite
    <3>2. truth[g] \in Nat /\ truth'[g] = truth[g] \div 2
      BY <1>1, CallsAssumption DEF Shape, Types
    <3> QED
      BY <2>1, <2>5, <3>1, <3>2
  <2> QED
    BY <2>3, <2>4, <2>6
<1> QED
  BY <1>1, <1>2 DEF PathWorth

LEMMA ResetPathWorth ==
  ASSUME Shape, PathWorth, (\E i \in Threads : reset(i)) \/ UNCHANGED vars
  PROVE  PathWorth'
<1>1. /\ UNCHANGED <<lazy, truth>>
      /\ \A c \in AllCells, x \in Nat : Worth(c, x) => Worth(c, x)'
  BY ResetKeeps
<1>2. ASSUME lazy, NEW g \in Granules, g[2] < End - 1
      PROVE  \E v \in [Below -> 0..MaxCount] :
               /\ PathIsWorth(g, v)'
               /\ truth'[g] <= SumFunctionOnSet(v, Below) + (Levels - 2)
  <2>1. PICK v \in [Below -> 0..MaxCount] :
          /\ PathIsWorth(g, v)
          /\ truth[g] <= SumFunctionOnSet(v, Below) + (Levels - 2)
    BY <1>2 DEF PathWorth
  <2>2. PathIsWorth(g, v)'
    <3> SUFFICES ASSUME NEW k \in Below, NEW c \in Cells(g[1], Above(g[2], k), "lazy")
                 PROVE  Worth(c, v[k])'
      BY DEF PathIsWorth
    <3>1. Worth(c, v[k]) /\ c \in AllCells /\ v[k] \in Nat
      BY <2>1, PathCells, PathSum DEF PathIsWorth
    <3> QED
      BY <1>1, <3>1
  <2> QED
    BY <1>1, <2>1, <2>2
<1> QED
  BY <1>1, <1>2 DEF PathWorth

\* An access of a granule raises the lazy counters of one node over it, or finds
\* them full.
LEMMA RecordPathWorth ==
  ASSUME Shape, PathWorth, NEW a \in Accesses, record_access(a)
  PROVE  PathWorth'
<1> DEFINE unit == RecordUnit(a)
           left == Left(a[2])
           right == Right(a[2], a[3])
           dyadics == RecordDyadics(a)
           lazies == RecordLazies(a)
<1>1. /\ Count(unit, dyadics, lazies)
      /\ dyadics \in SUBSET Nodes /\ lazies \in SUBSET Nodes
      /\ truth' = [g \in Granules |->
           IF g[1] = unit /\ left <= g[2] /\ g[2] < right
           THEN Saturated(truth[g] + 1) ELSE truth[g]]
      /\ lazy' = lazy
  BY RecordStep DEF Shape
<1>2. Types /\ MaxCount \in Nat
  BY CallsAssumption DEF Shape
<1>3. /\ \A c \in AllCells, x \in Nat : Worth(c, x) <=> counters[c] >= x
      /\ \A c \in AllCells, x \in Nat : Worth(c, x)' <=> counters'[c] >= x
  BY RecordAlone
<1>4. ASSUME NEW c \in AllCells
      PROVE  /\ counters'[c] \in Nat /\ counters[c] \in Nat /\ counters'[c] >= counters[c]
             /\ (\E n \in lazies : c \in Cells(unit, n, "lazy"))
                => (counters'[c] >= counters[c] + 1 \/ counters'[c] = MaxCount)
  <2>1. counters[c] \in 0..MaxCount
    BY <1>2 DEF Types
  <2> HIDE DEF unit, dyadics, lazies
  <2>2. /\ counters'[c] \in 0..MaxCount /\ counters'[c] >= counters[c]
        /\ (\E n \in lazies : c \in Cells(unit, n, "lazy"))
           => (counters'[c] >= counters[c] + 1 \/ counters'[c] = MaxCount)
    BY <1>1, <1>2, CountRaises, Zenon
  <2> QED
    BY <1>2, <2>1, <2>2
<1>5. ASSUME lazy, NEW g \in Granules, g[2] < End - 1
      PROVE  \E v \in [Below -> 0..MaxCount] :
               /\ PathIsWorth(g, v)'
               /\ truth'[g] <= SumFunctionOnSet(v, Below) + (Levels - 2)
  <2>1. PICK v \in [Below -> 0..MaxCount] :
          /\ PathIsWorth(g, v)
          /\ truth[g] <= SumFunctionOnSet(v, Below) + (Levels - 2)
    BY <1>5 DEF PathWorth
  <2>2. /\ \A k \in Below : v[k] \in Nat /\ v[k] \in 0..MaxCount
        /\ SumFunctionOnSet(v, Below) \in Nat
        /\ \A k \in Below : v[k] <= SumFunctionOnSet(v, Below)
    BY PathSum
  <2>3. \A k \in Below : \A c \in Cells(g[1], Above(g[2], k), "lazy") :
          c \in AllCells /\ counters[c] >= v[k] /\ counters'[c] >= v[k]
    <3> SUFFICES ASSUME NEW k \in Below, NEW c \in Cells(g[1], Above(g[2], k), "lazy")
                 PROVE  c \in AllCells /\ counters[c] >= v[k] /\ counters'[c] >= v[k]
      OBVIOUS
    <3>1. Worth(c, v[k]) /\ c \in AllCells /\ v[k] \in Nat
      BY <2>1, <2>2, PathCells DEF PathIsWorth
    <3>2. counters[c] >= v[k]
      BY <1>3, <3>1
    <3> QED
      BY <1>4, <3>1, <3>2
  <2>4. PathIsWorth(g, v)'
    <3> SUFFICES ASSUME NEW k \in Below, NEW c \in Cells(g[1], Above(g[2], k), "lazy")
                 PROVE  Worth(c, v[k])'
      BY DEF PathIsWorth
    <3> QED
      BY <1>3, <2>2, <2>3
  <2>5. truth[g] \in Nat /\ Levels \in Nat /\ Levels >= 2 /\ g[2] \in 0..End - 1
    <3>1. g[2] \in 0..End - 1 /\ End \in Nat
      BY TreeSize DEF Granules
    <3> QED
      BY <1>2, <1>5, <3>1, TreeSize DEF Types
  <2>6. CASE ~(g[1] = unit /\ left <= g[2] /\ g[2] < right)
    <3>1. truth'[g] = truth[g]
      <4> HIDE DEF unit, left, right
      <4> QED
        BY <1>1, <2>6
    <3> QED
      BY <2>1, <2>4, <3>1
  <2>7. CASE g[1] = unit /\ left <= g[2] /\ g[2] < right
    <3>1. truth'[g] = Saturated(truth[g] + 1)
      <4> HIDE DEF unit, left, right
      <4> QED
        BY <1>1, <2>7
    <3>2. truth'[g] <= truth[g] + 1 /\ truth'[g] \in 0..MaxCount
      BY <2>5, <3>1, SaturatedRange
    <3>3. PICK k \in Below : Above(g[2], k) \in lazies
      <4>1. left \in 0..End - 1 /\ right \in 0..End - 1
        BY RangeInUnit
      <4>2. g[2] \in left..right - 1
        <5> HIDE DEF left, right
        <5> QED
          BY <2>5, <2>7, <4>1, TreeSize
      <4>3. lazies = Stops(left, right)
        BY <1>5 DEF RecordLazies
      <4> HIDE DEF left, right, lazies
      <4> QED
        BY <4>1, <4>2, <4>3, StopAbove DEF Below
    <3>4. CASE v[k] = MaxCount
      <4>1. truth'[g] <= SumFunctionOnSet(v, Below) + (Levels - 2)
        BY <1>2, <2>2, <2>5, <3>2, <3>4
      <4> QED
        BY <2>4, <4>1
    <3>5. CASE v[k] # MaxCount
      <4> DEFINE h == [v EXCEPT ![k] = v[k] + 1]
      <4>1. /\ h \in [Below -> 0..MaxCount] /\ h[k] = v[k] + 1
            /\ \A j \in Below : j # k => h[j] = v[j]
        <5>1. v[k] + 1 \in 0..MaxCount
          BY <1>2, <2>2, <3>5
        <5> QED
          BY <5>1
      <4> HIDE DEF h
      <4>2. PathIsWorth(g, h)'
        <5> SUFFICES ASSUME NEW j \in Below, NEW c \in Cells(g[1], Above(g[2], j), "lazy")
                     PROVE  Worth(c, h[j])'
          BY DEF PathIsWorth
        <5>1. c \in AllCells /\ counters[c] >= v[j] /\ counters'[c] >= v[j]
          BY <2>3
        <5>2. counters'[c] >= h[j]
          <6>1. CASE j = k
            <7>1. counters'[c] >= counters[c] + 1 \/ counters'[c] = MaxCount
              BY <1>4, <2>7, <3>3, <5>1, <6>1
            <7>2. counters[c] \in Nat /\ counters'[c] \in Nat
              BY <1>4, <5>1
            <7> QED
              BY <1>2, <2>2, <3>5, <4>1, <5>1, <6>1, <7>1, <7>2
          <6>2. CASE j # k
            BY <4>1, <5>1, <6>2
          <6> QED
            BY <6>1, <6>2
        <5>3. h[j] \in Nat
          BY <4>1, PathSum
        <5> QED
          BY <1>3, <5>1, <5>2, <5>3
      <4>3. SumFunctionOnSet(h, Below) = SumFunctionOnSet(v, Below) + 1
        <5>1. \A j \in Below : h[j] \in Nat
          BY <4>1, PathSum
        <5>2. /\ SumFunctionOnSet(v, Below) = v[k] + SumFunctionOnSet(v, Below \ {k})
              /\ SumFunctionOnSet(h, Below) = h[k] + SumFunctionOnSet(h, Below \ {k})
          BY <2>2, <5>1, BelowFinite, SumWithout
        <5>3. IsFiniteSet(Below \ {k})
          BY BelowFinite, FS_Subset
        <5>4. /\ SumFunctionOnSet(v, Below \ {k}) <= SumFunctionOnSet(h, Below \ {k})
              /\ SumFunctionOnSet(h, Below \ {k}) <= SumFunctionOnSet(v, Below \ {k})
          <6>1. \A j \in Below \ {k} : v[j] \in Nat /\ h[j] \in Nat /\ h[j] = v[j]
            BY <2>2, <4>1, <5>1
          <6>2. \A j \in Below \ {k} : v[j] <= h[j] /\ h[j] <= v[j]
            BY <6>1
          <6> QED
            BY <5>3, <6>1, <6>2, SumIsMonotone
        <5>5. /\ SumFunctionOnSet(v, Below \ {k}) \in Nat
              /\ SumFunctionOnSet(h, Below \ {k}) \in Nat
          BY <2>2, <5>1, <5>3, SumIsNatural
        <5> QED
          BY <2>2, <4>1, <5>2, <5>4, <5>5
      <4>4. truth'[g] <= SumFunctionOnSet(h, Below) + (Levels - 2)
        BY <2>1, <2>2, <2>5, <3>2, <4>3
      <4> QED
        BY <4>1, <4>2, <4>4
    <3> QED
      BY <3>4, <3>5
  <2> QED
    BY <2>6, <2>7
<1> QED
  BY <1>1, <1>5 DEF PathWorth

LEMMA NextPathWorth ==
  ASSUME Shape, PathWorth, Patient, [Next]_vars
  PROVE  PathWorth'
<1>1. CASE \E a \in Accesses : record_access(a)
  BY <1>1, RecordPathWorth
<1>2. CASE must_reset \/ \E i \in Threads : try_reset(i)
  BY <1>2, AgingPathWorth
<1>3. CASE (\E i \in Threads : reset(i)) \/ UNCHANGED vars
  BY <1>3, ResetPathWorth
<1> QED
  BY <1>1, <1>2, <1>3 DEF Next

--------------------------------------------------------------------------------
(* gxj_range_frequency_sketch: the estimate of one granule                     *)

\* The range of one granule: every node that frequency() visits counts once, and
\* the nodes over the granule are among them.
LEMMA OneGranule ==
  ASSUME NEW i \in Nat, i < End - 1
  PROVE  /\ \A n \in Stops(i, i + 1) \cup Partial(i, i + 1) : Cut(n, i, i + 1) = 1
         /\ \A k \in Below : Above(i, k) \in Stops(i, i + 1) \cup Partial(i, i + 1)
<1>1. ASSUME NEW n \in Visited(i, i + 1)
      PROVE  Cut(n, i, i + 1) = 1
  <2>1. n \in Nodes /\ Until(n) > i /\ (Start(n) = 0 \/ Start(n) < i + 1)
    BY DEF Visited
  <2>2. Start(n) \in Nat /\ Until(n) \in Nat
    BY <2>1, WidthIsPositive, TreeSize DEF Nodes
  <2>3. Min({i + 1, Until(n)}) = i + 1
    <3>1. i + 1 \in Int /\ Until(n) \in Int /\ i + 1 <= Until(n)
      BY <2>1, <2>2
    <3>2. \A x \in {i + 1, Until(n)} : i + 1 <= x
      BY <3>1
    <3>3. /\ Min({i + 1, Until(n)}) \in {i + 1, Until(n)}
          /\ Min({i + 1, Until(n)}) <= i + 1
      BY <3>1, MinOfTwo
    <3> QED
      BY <3>1, <3>3
  <2>4. Max({i, Start(n)}) = i
    <3>1. Start(n) <= i
      BY <2>1, <2>2
    <3>2. \E x \in {i, Start(n)} : \A y \in {i, Start(n)} : x >= y
      BY <2>2, <3>1
    <3>3. /\ Max({i, Start(n)}) \in {i, Start(n)}
          /\ \A y \in {i, Start(n)} : Max({i, Start(n)}) >= y
      BY <3>2, Zenon DEF Max
    <3>4. Max({i, Start(n)}) >= i
      BY <3>3
    <3> QED
      BY <2>2, <3>1, <3>3, <3>4
  <2> QED
    BY <2>3, <2>4 DEF Cut
<1>2. ASSUME NEW k \in Below
      PROVE  Above(i, k) \in Stops(i, i + 1) \cup Partial(i, i + 1)
  <2> DEFINE n == Above(i, k)
  <2>1. i \in 0..End - 1 /\ k \in 0..Levels - 1 /\ k \in Nat
    BY BelowFinite, TreeSize
  <2>2. /\ n \in Nodes /\ n[1] = k /\ Start(n) \in Nat /\ Until(n) \in Nat
        /\ Start(n) <= i /\ i < Until(n)
    BY <2>1, AboveSpans, AboveIsNode
  <2> HIDE DEF n
  <2>3. n \in Visited(i, i + 1)
    BY <2>2 DEF Visited
  <2>4. ASSUME NEW m \in Nodes, m[1] > k, Whole(m, i, i + 1)
        PROVE  FALSE
    <3>1. /\ m[1] \in Nat /\ Start(m) \in Nat /\ Width(m) \in Nat
          /\ Until(m) = Start(m) + Width(m)
      BY WidthIsPositive DEF Until
    <3>2. Width(m) <= 1
      BY <2>4, <3>1 DEF Whole
    <3>3. m[1] - 1 \in Nat /\ (m[1] - 1) + 1 = m[1]
      BY <2>1, <2>4, <3>1
    <3>4. 2^(m[1] - 1) \in Nat \ {0} /\ 2^((m[1] - 1) + 1) = 2 * 2^(m[1] - 1)
      BY <3>3, PowersDouble
    <3>5. Width(m) = 2 * 2^(m[1] - 1)
      BY <3>3, <3>4 DEF Width
    <3> QED
      BY <3>1, <3>2, <3>4, <3>5
  <2>5. n \in Stops(i, i + 1) \cup Partial(i, i + 1)
    BY <2>2, <2>3, <2>4 DEF Stops, Partial
  <2> QED
    BY <2>5 DEF n
<1> QED
  BY <1>1, <1>2 DEF Stops, Partial

LEMMA PathWorthGivesFrequency ==
  ASSUME Types, PathWorth
  PROVE  UnderByLevels
<1> SUFFICES ASSUME lazy, NEW g \in Granules, g[2] < End - 1
             PROVE  frequency(g[1], g[2], g[2] + 1) + (Levels - 2) >= truth[g]
  BY DEF UnderByLevels
<1> DEFINE unit == g[1]
           i == g[2]
           S == Stops(i, i + 1)
           N == S \cup Partial(i, i + 1)
           d == [n \in S |-> Estimate(unit, n, "dyadic") * Width(n)]
           e == [n \in N |-> Estimate(unit, n, "lazy")]
           w == [n \in N |-> Cut(n, i, i + 1)]
           p == [n \in N |-> Estimate(unit, n, "lazy") * Cut(n, i, i + 1)]
           owner == [k \in Below |-> Above(i, k)]
<1>1. unit \in Units /\ i \in Nat /\ i < End - 1
  BY DEF Granules
<1>2. PICK v \in [Below -> 0..MaxCount] :
        /\ PathIsWorth(g, v)
        /\ truth[g] <= SumFunctionOnSet(v, Below) + (Levels - 2)
  BY DEF PathWorth
<1>3. /\ S \subseteq Nodes /\ IsFiniteSet(S) /\ N \subseteq Nodes /\ IsFiniteSet(N)
  BY StopsFinite, FS_Union
<1>4. /\ \A n \in N : w[n] = 1
      /\ \A k \in Below : Above(i, k) \in N
  <2>1. /\ \A n \in Stops(i, i + 1) \cup Partial(i, i + 1) : Cut(n, i, i + 1) = 1
        /\ \A k \in Below : Above(i, k) \in Stops(i, i + 1) \cup Partial(i, i + 1)
    <3> HIDE DEF i
    <3> QED
      BY <1>1, OneGranule
  <2> QED
    BY <2>1
<1>5. owner \in [Below -> N]
  <2> HIDE DEF N, i
  <2> QED
    BY <1>4
<1>6. ASSUME NEW k \in Below
      PROVE  v[k] \in Nat /\ v[k] <= e[owner[k]]
  <2> DEFINE n == Above(i, k)
  <2>1. n \in N /\ n \in Nodes /\ owner[k] = n
    BY <1>3, <1>4
  <2> HIDE DEF n, owner
  <2>2. PICK c \in Cells(unit, n, "lazy") : Estimate(unit, n, "lazy") = counters[c]
    BY <1>1, <2>1, EstimateIsLeast
  <2>3. Worth(c, v[k])
    BY <1>2 DEF PathIsWorth, n
  <2>4. counters[c] >= v[k] /\ e[n] = counters[c]
    BY <2>1, <2>2, <2>3 DEF Worth
  <2>5. counters[c] \in Nat /\ v[k] \in Nat
    <3>1. c \in AllCells
      BY <1>1, <2>1, CellsInTable
    <3> QED
      BY <3>1, CallsAssumption, PathSum DEF Types
  <2> QED
    BY <2>1, <2>4, <2>5
<1>7. ASSUME NEW n \in N
      PROVE  /\ e[n] \in Nat /\ w[n] \in Nat /\ p[n] = e[n] * w[n]
             /\ Cardinality({k \in Below : owner[k] = n}) <= w[n]
  <2>1. e[n] \in Nat /\ p[n] = e[n] * w[n]
    BY <1>1, <1>3, EstimateIsLeast
  <2> DEFINE own == {k \in Below : owner[k] = n}
  <2>2. own \subseteq {n[1]}
    BY DEF Above
  <2>3. Cardinality(own) <= 1
    <3>1. IsFiniteSet({n[1]}) /\ Cardinality({n[1]}) = 1
      BY FS_Singleton
    <3> HIDE DEF own
    <3> QED
      BY <2>2, <3>1, FS_Subset
  <2> HIDE DEF own, e, p, w
  <2> QED
    BY <1>4, <2>1, <2>3 DEF own
<1>8. SumFunctionOnSet(v, Below) <= SumFunctionOnSet(p, N)
  <2> HIDE DEF e, w, p, owner, N
  <2> QED
    BY <1>3, <1>5, <1>6, <1>7, BelowFinite, SumByOwner
<1>9. SumFunctionOnSet(d, S) \in Nat
  <2>1. \A n \in S : Estimate(unit, n, "dyadic") \in Nat /\ Width(n) \in Nat
    BY <1>1, <1>3, EstimateIsLeast, WidthIsPositive
  <2>2. \A a, b \in Nat : a * b \in Nat
    OBVIOUS
  <2>3. \A n \in S : d[n] \in Nat
    <3> HIDE DEF S, unit
    <3> QED
      BY <2>1, <2>2
  <2> HIDE DEF d, S
  <2> QED
    BY <1>3, <2>3, SumIsNatural
<1>10. SumFunctionOnSet(p, N) \in Nat
  <2>1. \A a, b \in Nat : a * b \in Nat
    OBVIOUS
  <2>2. \A n \in N : p[n] \in Nat
    <3> HIDE DEF e, w, p, N
    <3> QED
      BY <1>7, <2>1
  <2> HIDE DEF p, N
  <2> QED
    BY <1>3, <2>2, SumIsNatural
<1>11. frequency(unit, i, i + 1) = SumFunctionOnSet(d, S) + SumFunctionOnSet(p, N)
  <2>1. SumFunction(d) = SumFunctionOnSet(d, S) /\ SumFunction(p) = SumFunctionOnSet(p, N)
    BY DEF SumFunction
  <2>2. frequency(unit, i, i + 1) = SumFunction(d) + SumFunction(p)
    BY DEF frequency
  <2> HIDE DEF d, p, S, N
  <2> QED
    BY <2>1, <2>2
<1>12. truth[g] \in Nat /\ Levels \in Nat /\ SumFunctionOnSet(v, Below) \in Nat
  BY CallsAssumption, TreeSize, PathSum DEF Types
<1>13. frequency(unit, i, i + 1) + (Levels - 2) >= truth[g]
  <2> HIDE DEF d, p, S, N, unit, i
  <2> QED
    BY <1>2, <1>8, <1>9, <1>10, <1>11, <1>12
<1> QED
  BY <1>13

\* gxj_range_frequency_sketch: an access is spread over nodes of different levels
\* (inner_record_access), each of which reset() halves and rounds down by itself
\* (gxj_frequency_sketch.hpp:133-181).  The frequency of a granule is never below
\* its accesses by more than the number of the levels under the root less one,
\* however often the counters are halved, full or shared, provided that try_reset
\* is not called while the thread of an earlier call still halves.
THEOREM RangeUnderByLevels ==
  ASSUME Patient
  PROVE  Spec => []UnderByLevels
<1>1. Init => Shape /\ PathWorth
  BY InitShape, InitPathWorth
<1>2. (Shape /\ PathWorth) /\ [Next]_vars => (Shape /\ PathWorth)'
  BY NextShape, NextPathWorth
<1>3. Shape /\ PathWorth => UnderByLevels
  BY PathWorthGivesFrequency DEF Shape
<1> QED
  BY <1>1, <1>2, <1>3, PTL DEF Spec
=============================================================================
