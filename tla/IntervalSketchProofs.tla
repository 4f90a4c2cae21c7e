------------------------ MODULE IntervalSketchProofs ------------------------
(***************************************************************************)
(* The steps of the sketches, for every geometry, hash and number of       *)
(* threads and calls.  Proved are TypeOK; that no node of interval_sketch  *)
(* counts a granule less than it was accessed (NodesCount), under the one  *)
(* condition that try_reset is not called while a thread of an earlier     *)
(* call is at work (Patient); and what each step leaves a counter worth,   *)
(* for the sums of estimates in SketchRangeProofs.                         *)
(***************************************************************************)
EXTENDS IntervalSketch, SumsAndPowers

--------------------------------------------------------------------------------
(* The inductive invariant                                                     *)

States ==
  {Off} \cup [pc : {"load"}, word : Words]
        \cup [pc : {"store"}, word : Words, old : [Slots -> 0..MaxCount]]
        \cup [pc : {"tail"}, left : SUBSET {"size_", "ref_cnt_", "doing_reset"}]

Types ==
  /\ counters \in [AllCells -> 0..MaxCount]
  /\ truth \in [Granules -> 0..MaxCount]
  /\ thread \in [Threads -> States]

Sizes ==
  /\ lazy \in BOOLEAN /\ doing_reset \in BOOLEAN
  /\ size \in Nat /\ ref_cnt \in Nat /\ calls \in 0..MaxCalls

Halving(i) == thread[i].pc \in {"load", "store"}

\* At most one thread resets, and as long as it halves no access is counted.
OneThread ==
  /\ \A i, j \in Threads : Running(i) /\ Running(j) => i = j
  /\ \A i \in Threads : Halving(i) => doing_reset

\* A word that the loops of reset() reach before another.
Before(w, v) == w[1] < v[1] \/ (w[1] = v[1] /\ w[2] < v[2])

\* The cell c counts the granule g.
CountsFor(c, g) ==
  \E n \in Nodes : c \in Cells(g[1], n, "dyadic") /\ Start(n) <= g[2] /\ g[2] < Until(n)

\* A counter, and what a thread has read of it, is worth v: one that is still to be
\* halved is so after it has been halved, too.
Worth(c, v) ==
  /\ counters[c] >= v
  /\ \A i \in Threads : Halving(i) /\ ~Before(c[1], thread[i].word)
                        => counters[c] \div 2 >= v
  /\ \A i \in Threads : thread[i].pc = "store" /\ thread[i].word = c[1]
                        => thread[i].old[c[2]] \div 2 >= v

AllWorth ==
  ~lazy => \A c \in AllCells, g \in Granules : CountsFor(c, g) => Worth(c, truth[g])

Shape == Types /\ OneThread
IInv == Shape /\ AllWorth

\* The arguments of Count in record_access.
RecordUnit(a) == <<a[1], Base(a[2])>>
RecordDyadics(a) ==
  LET left == Left(a[2])
      right == Right(a[2], a[3])
  IN IF lazy THEN {n \in Partial(left, right) : TryEstAdd(n, left, right)}
             ELSE Visited(left, right)
RecordLazies(a) == IF lazy THEN Stops(Left(a[2]), Right(a[2], a[3])) ELSE {}

--------------------------------------------------------------------------------
(* Lemmas about the constants                                                  *)

LEMMA WidthIsPositive ==
  ASSUME NEW n \in Nodes
  PROVE  /\ Width(n) \in Nat \ {0} /\ Start(n) \in 0..End - 1
         /\ n[1] \in 0..Levels - 1 /\ n = <<n[1], Start(n)>>
<1>1. n[1] \in 0..Levels - 1 /\ n[2] \in 0..End - 1 /\ n = <<n[1], n[2]>>
  BY DEF Nodes
<1>2. n[1] \in Nat
  BY <1>1
<1> QED
  BY <1>1, <1>2, PowersDouble DEF Width, Start

LEMMA MinOfTwo ==
  ASSUME NEW a \in Int, NEW b \in Int
  PROVE  /\ Min({a, b}) \in {a, b}
         /\ Min({a, b}) <= a
         /\ Min({a, b}) <= b
<1>1. \E x \in {a, b} : \A y \in {a, b} : x =< y
  OBVIOUS
<1> QED
  BY <1>1, Zenon DEF Min

LEMMA NodesFinite == IsFiniteSet(Nodes)
<1>1. Levels \in Int /\ End \in Int
  BY GeometryAssumption, SMTT(20) DEF End
<1>2. /\ IsFiniteSet(0..End - 1)
      /\ IsFiniteSet(0..Levels - 1)
  BY <1>1, FS_Interval
<1>3. IsFiniteSet((0..Levels - 1) \X (0..End - 1))
  BY <1>2, FS_Product
<1>4. Nodes \in SUBSET ((0..Levels - 1) \X (0..End - 1))
  BY DEF Nodes
<1> QED
  BY <1>3, <1>4, FS_Subset

LEMMA LeftRight ==
  ASSUME NEW a \in Accesses
  PROVE  Left(a[2]) \in Int /\ Right(a[2], a[3]) \in Int
<1>1. a[2] \in Int /\ a[2] + a[3] \in Int
  BY CallsAssumption
<1>2. a[2] % UnitSize \in Int /\ (a[2] + a[3]) % UnitSize \in Int
  BY <1>1, GeometryAssumption
<1> QED
  BY <1>2, GeometryAssumption DEF Left, Right

LEMMA CellsInTable ==
  ASSUME NEW unit \in Units, NEW n \in Nodes, NEW kind \in {"dyadic", "lazy"}
  PROVE  Cells(unit, n, kind) \subseteq AllCells
<1> DEFINE key == <<unit[1], unit[2] + Start(n)>>
<1>1. /\ n[1] \in 0..Levels - 1
      /\ Start(n) \in 0..End - 1
  BY DEF Nodes, Start
<1>2. TableSize(n[1]) \in 1..TableSize(0) /\ TableSize(0) \in 1..TableSize(0)
  BY <1>1, GeometryAssumption
<1>3. Half[key] \in {0, 1} /\ \A row \in Rows : Index[key][row] \in Nat
  BY <1>1, CallsAssumption
<1>4. ASSUME NEW row \in Rows
      PROVE  << <<n[1], Index[key][row] % TableSize(n[1])>>, <<kind, Half[key], row>> >>
               \in AllCells
  <2> DEFINE size0 == TableSize(0)  size1 == TableSize(n[1])  i == Index[key][row]
  <2>1. i % size1 \in 0..size1 - 1
    <3>1. i \in Nat /\ size1 \in Nat \ {0}
      BY <1>2, <1>3
    <3> HIDE DEF i, size1
    <3> QED
      BY <3>1
  <2>2. i % size1 \in 0..size0 - 1 /\ i % size1 < size1
    <3>1. size1 \in 1..size0 /\ size0 \in 1..size0
      BY <1>2
    <3> HIDE DEF i, size0, size1
    <3> QED
      BY <2>1, <3>1
  <2>3. <<n[1], i % size1>> \in Words
    BY <1>1, <2>2 DEF Words
  <2>4. <<kind, Half[key], row>> \in Slots
    BY <1>3 DEF Slots
  <2> QED
    BY <2>3, <2>4 DEF AllCells
<1> QED
  BY <1>4 DEF Cells

\* Count keeps the counters in their range, never lowers one, and raises those of
\* the nodes it is given unless they are full.
LEMMA CountRaises ==
  ASSUME Types, NEW unit, NEW dyadics \in SUBSET Nodes, NEW lazies \in SUBSET Nodes,
         Count(unit, dyadics, lazies), NEW c \in AllCells
  PROVE  /\ counters'[c] \in 0..MaxCount
         /\ counters'[c] >= counters[c]
         /\ ((\E n \in dyadics : c \in Cells(unit, n, "dyadic"))
             \/ (\E n \in lazies : c \in Cells(unit, n, "lazy")))
            => (counters'[c] >= counters[c] + 1 \/ counters'[c] = MaxCount)
<1> DEFINE D == {n \in dyadics : c \in Cells(unit, n, "dyadic")}
           L == {n \in lazies : c \in Cells(unit, n, "lazy")}
           d == Cardinality(D)
           l == Cardinality(L)
<1>1. IsFiniteSet(D) /\ IsFiniteSet(L)
  <2>1. D \in SUBSET Nodes /\ L \in SUBSET Nodes
    OBVIOUS
  <2> QED
    BY <2>1, NodesFinite, FS_Subset
<1>2. d \in Nat /\ l \in Nat
  BY <1>1, FS_CardinalityType
<1>3. /\ (\E n \in dyadics : c \in Cells(unit, n, "dyadic")) => d >= 1
      /\ (\E n \in lazies : c \in Cells(unit, n, "lazy")) => l >= 1
  <2>1. (D # {} => d # 0) /\ (L # {} => l # 0)
    BY <1>1, FS_EmptySet
  <2>2. /\ (\E n \in dyadics : c \in Cells(unit, n, "dyadic")) => d # 0
        /\ (\E n \in lazies : c \in Cells(unit, n, "lazy")) => l # 0
    BY <2>1
  <2> HIDE DEF d, l
  <2> QED
    BY <1>2, <2>2
<1>4. counters'[c] = Min({MaxCount, counters[c] + d + l})
  BY DEF Count
<1>5. counters[c] \in 0..MaxCount /\ MaxCount \in Nat
  BY CallsAssumption DEF Types
<1> HIDE DEF d, l
<1>6. MaxCount \in Int /\ counters[c] + d + l \in Int
  BY <1>2, <1>5
<1>7. /\ counters'[c] \in {MaxCount, counters[c] + d + l}
      /\ counters'[c] <= MaxCount
      /\ counters'[c] <= counters[c] + d + l
  BY <1>4, <1>6, MinOfTwo
<1> QED
  BY <1>2, <1>3, <1>5, <1>7

LEMMA SaturatedRange ==
  ASSUME NEW n \in Nat
  PROVE  /\ Saturated(n) \in 0..MaxCount
         /\ Saturated(n) <= n
<1>1. MaxCount \in Int /\ n \in Int /\ MaxCount >= 0
  BY CallsAssumption
<1> QED
  BY <1>1, MinOfTwo DEF Saturated

LEMMA HalfIsMonotone ==
  ASSUME NEW a \in Nat, NEW b \in Nat
  PROVE  /\ a \div 2 \in Nat /\ a \div 2 <= a
         /\ a >= b => a \div 2 >= b \div 2
  OBVIOUS

\* What ages with the truth keeps its worth, and so does what does not age.
LEMMA AgedTruth ==
  ASSUME Types, Aged
  PROVE  /\ truth' \in [Granules -> 0..MaxCount]
         /\ \A g \in Granules : truth'[g] = truth[g] \div 2 /\ truth'[g] <= truth[g]
<1>1. \A g \in Granules : truth[g] \in Nat /\ truth[g] \in 0..MaxCount
  BY CallsAssumption DEF Types
<1>2. \A g \in Granules : truth'[g] = truth[g] \div 2
  BY DEF Aged
<1>3. \A g \in Granules : truth'[g] \in 0..MaxCount /\ truth'[g] <= truth[g]
  BY <1>1, <1>2, HalfIsMonotone, CallsAssumption
<1> QED
  BY <1>2, <1>3 DEF Aged

\* A word that is not before the next one is a later one than this.
LEMMA WordOrder ==
  ASSUME NEW w \in Words, NEW v \in Words, ~Before(v, NextWord(w))
  PROVE  ~Before(v, w) /\ v # w
<1>1. /\ w[1] \in Int /\ w[2] \in Int /\ v[1] \in Int /\ v[2] \in Int
      /\ v[2] >= 0
  BY DEF Words
<1>2. CASE w[2] + 1 < TableSize(w[1])
  BY <1>1, <1>2 DEF NextWord, Before
<1>3. CASE ~(w[2] + 1 < TableSize(w[1]))
  BY <1>1, <1>3 DEF NextWord, Before
<1> QED
  BY <1>2, <1>3

--------------------------------------------------------------------------------
(* Every step keeps the types                                                  *)


LEMMA RecordStep ==
  ASSUME Types, NEW a \in Accesses, record_access(a)
  PROVE  /\ Count(RecordUnit(a), RecordDyadics(a), RecordLazies(a))
         /\ RecordDyadics(a) \in SUBSET Nodes /\ RecordLazies(a) \in SUBSET Nodes
         /\ truth' = [g \in Granules |->
              IF g[1] = RecordUnit(a) /\ Left(a[2]) <= g[2] /\ g[2] < Right(a[2], a[3])
              THEN Saturated(truth[g] + 1) ELSE truth[g]]
         /\ ~doing_reset
         /\ UNCHANGED <<lazy, doing_reset, thread>>
         /\ calls < MaxCalls /\ calls' = calls + 1 /\ ref_cnt' = ref_cnt + 1
         /\ size' = size + Cardinality(RecordDyadics(a))
                         + SumFunction([n \in RecordLazies(a) |-> Width(n)])
<1>1. RecordDyadics(a) \in SUBSET Nodes /\ RecordLazies(a) \in SUBSET Nodes
  BY DEF RecordDyadics, RecordLazies, Partial, Visited, Stops
<1> QED
  BY <1>1, Zenon DEF record_access, Accepts, RecordUnit, RecordDyadics, RecordLazies

LEMMA RecordTypes ==
  ASSUME Types, NEW a \in Accesses, record_access(a)
  PROVE  Types'
<1>1. counters' \in [AllCells -> 0..MaxCount]
  <2>1. \A c \in AllCells : counters'[c] \in 0..MaxCount
    BY RecordStep, CountRaises
  <2>2. counters' = [c \in AllCells |-> counters'[c]]
    <3>1. Count(RecordUnit(a), RecordDyadics(a), RecordLazies(a))
      BY RecordStep
    <3> QED
      BY <3>1 DEF Count
  <2> QED
    BY <2>1, <2>2
<1>2. truth' \in [Granules -> 0..MaxCount]
  <2>1. \A g \in Granules : truth[g] \in 0..MaxCount /\ truth[g] + 1 \in Nat
    BY CallsAssumption DEF Types
  <2> QED
    BY <2>1, RecordStep, SaturatedRange
<1> QED
  BY <1>1, <1>2, RecordStep DEF Types

LEMMA MustResetTypes ==
  ASSUME Types, must_reset
  PROVE  Types'
<1>1. \A c \in AllCells : counters[c] \in Nat /\ counters[c] \in 0..MaxCount
  BY CallsAssumption DEF Types
<1>2. counters' \in [AllCells -> 0..MaxCount]
  BY <1>1, HalfIsMonotone, CallsAssumption DEF must_reset
<1> QED
  BY <1>2, AgedTruth DEF Types, must_reset

LEMMA TryResetTypes ==
  ASSUME Types, NEW i \in Threads, try_reset(i)
  PROVE  Types'
<1>1. <<0, 0>> \in Words
  <2>1. Levels \in Nat \ {0}
    BY GeometryAssumption
  <2>2. TableSize(0) \in 1..TableSize(0)
    BY <2>1, GeometryAssumption
  <2> QED
    BY <2>1, <2>2 DEF Words
<1>2. thread' \in [Threads -> States]
  BY <1>1 DEF Types, States, try_reset
<1> QED
  BY <1>2, AgedTruth DEF Types, try_reset

LEMMA LoadTypes ==
  ASSUME Types, NEW i \in Threads, Load(i)
  PROVE  Types'
<1> DEFINE word == thread[i].word
           old == [s \in Slots |-> counters[<<word, s>>]]
<1>1. word \in Words
  BY DEF Types, States, Off, Load
<1>2. old \in [Slots -> 0..MaxCount]
  BY <1>1 DEF Types, AllCells
<1>3. thread' = [thread EXCEPT ![i] = [pc |-> "store", word |-> word, old |-> old]]
  BY DEF Load
<1>4. thread' \in [Threads -> States]
  <2> HIDE DEF word, old
  <2> QED
    BY <1>1, <1>2, <1>3 DEF Types, States
<1> QED
  BY <1>4 DEF Types, Load

LEMMA NextWordInTable ==
  ASSUME NEW w \in Words, NextWord(w)[1] < Levels
  PROVE  NextWord(w) \in Words
<1>1. /\ w[1] \in 0..Levels - 1 /\ w[2] \in 0..TableSize(0) - 1
      /\ Levels \in Nat
  BY GeometryAssumption DEF Words
<1>2. TableSize(w[1]) \in 1..TableSize(0) /\ TableSize(0) \in 1..TableSize(0)
  BY <1>1, GeometryAssumption
<1>3. CASE w[2] + 1 < TableSize(w[1])
  BY <1>1, <1>2, <1>3 DEF NextWord, Words
<1>4. CASE ~(w[2] + 1 < TableSize(w[1]))
  <2>1. NextWord(w) = <<w[1] + 1, 0>>
    BY <1>4 DEF NextWord
  <2>2. w[1] + 1 \in 0..Levels - 1
    BY <1>1, <2>1
  <2>3. TableSize(w[1] + 1) \in 1..TableSize(0)
    BY <2>2, GeometryAssumption
  <2> QED
    BY <1>2, <2>1, <2>2, <2>3 DEF Words
<1> QED
  BY <1>3, <1>4

LEMMA StoreTypes ==
  ASSUME Types, NEW i \in Threads, Store(i)
  PROVE  Types'
<1> DEFINE word == thread[i].word
           old == thread[i].old
           next == IF NextWord(word)[1] < Levels
                   THEN [pc |-> "load", word |-> NextWord(word)]
                   ELSE [pc |-> "tail", left |-> {"size_", "ref_cnt_", "doing_reset"}]
<1>1. /\ counters' = [c \in AllCells |->
           IF c[1] = word THEN old[c[2]] \div 2 ELSE counters[c]]
      /\ thread' = [thread EXCEPT ![i] = next]
      /\ truth' = truth
  BY DEF Store
<1>2. word \in Words /\ old \in [Slots -> 0..MaxCount]
  BY DEF Types, States, Off, Store
<1>3. next \in States
  <2> HIDE DEF word
  <2> QED
    BY <1>2, NextWordInTable DEF States
<1>4. thread' \in [Threads -> States]
  <2> HIDE DEF next
  <2> QED
    BY <1>1, <1>3 DEF Types
<1>5. counters' \in [AllCells -> 0..MaxCount]
  <2>1. \A c \in AllCells : old[c[2]] \in 0..MaxCount /\ old[c[2]] \in Nat
    BY <1>2, CallsAssumption DEF AllCells
  <2>2. \A c \in AllCells : old[c[2]] \div 2 \in 0..MaxCount
    BY <2>1, HalfIsMonotone, CallsAssumption
  <2> HIDE DEF word, old
  <2> QED
    BY <1>1, <2>2 DEF Types
<1> QED
  BY <1>1, <1>4, <1>5 DEF Types

\* What a step of the tail of reset() leaves of a thread.
LEMMA FinishStep ==
  ASSUME Types, NEW i \in Threads, Finish(i)
  PROVE  /\ thread[i].pc = "tail"
         /\ UNCHANGED <<lazy, counters, truth>>
         /\ thread'[i] \in {Off} \cup [pc : {"tail"}, left : SUBSET {"size_", "ref_cnt_", "doing_reset"}]
         /\ \A j \in Threads : j # i => thread'[j] = thread[j]
         /\ thread' \in [Threads -> States]
<1>1. /\ thread[i].pc = "tail"
      /\ UNCHANGED <<lazy, counters, truth>>
  BY DEF Finish
<1>2. thread[i] \in [pc : {"tail"}, left : SUBSET {"size_", "ref_cnt_", "doing_reset"}]
  BY <1>1 DEF Types, States, Off
<1>3. PICK x \in thread[i].left :
        thread' = [thread EXCEPT ![i] =
          IF thread[i].left = {x} THEN Off
          ELSE [pc |-> "tail", left |-> thread[i].left \ {x}]]
  BY DEF Finish
<1>4. /\ thread'[i] \in {Off} \cup [pc : {"tail"}, left : SUBSET {"size_", "ref_cnt_", "doing_reset"}]
      /\ \A j \in Threads : j # i => thread'[j] = thread[j]
      /\ thread' \in [Threads -> States]
  BY <1>2, <1>3 DEF Types, States
<1> QED
  BY <1>1, <1>4

LEMMA InitTypes == Init => Types /\ Sizes
<1> SUFFICES ASSUME Init PROVE Types /\ Sizes
  OBVIOUS
<1>1. MaxCount \in Nat /\ MaxCalls \in Nat
  BY CallsAssumption
<1>2. Types
  BY <1>1 DEF Init, Types, States
<1>3. Sizes
  <2>1. lazy \in BOOLEAN /\ doing_reset \in BOOLEAN
    BY Zenon DEF Init
  <2>2. size = 0 /\ ref_cnt = 0 /\ calls = 0
    BY DEF Init
  <2> QED
    BY <1>1, <2>1, <2>2 DEF Sizes
<1> QED
  BY <1>2, <1>3

LEMMA NextTypes ==
  ASSUME Types, [Next]_vars
  PROVE  Types'
<1>1. CASE \E a \in Accesses : record_access(a)
  BY <1>1, RecordTypes
<1>2. CASE must_reset
  BY <1>2, MustResetTypes
<1>3. ASSUME NEW i \in Threads, try_reset(i) \/ Load(i) \/ Store(i)
      PROVE  Types'
  BY <1>3, TryResetTypes, LoadTypes, StoreTypes
<1>4. ASSUME NEW i \in Threads, Finish(i)
      PROVE  Types'
  BY <1>4, FinishStep DEF Types
<1>5. CASE UNCHANGED vars
  BY <1>5 DEF vars, Types
<1> QED
  BY <1>1, <1>2, <1>3, <1>4, <1>5 DEF Next, reset

LEMMA NextSizes ==
  ASSUME Types, Sizes, [Next]_vars
  PROVE  Sizes'
<1>1. /\ MaxCalls \in Nat /\ calls \in 0..MaxCalls /\ size \in Nat /\ ref_cnt \in Nat
      /\ lazy \in BOOLEAN /\ doing_reset \in BOOLEAN
  BY CallsAssumption DEF Sizes
<1>2. ASSUME NEW a \in Accesses, record_access(a)
      PROVE  Sizes'
  <2> DEFINE lazies == RecordLazies(a)
             dyadics == RecordDyadics(a)
             widths == [n \in lazies |-> Width(n)]
  <2>1. dyadics \in SUBSET Nodes /\ lazies \in SUBSET Nodes
    BY <1>2, RecordStep
  <2>2. IsFiniteSet(dyadics) /\ IsFiniteSet(lazies)
    BY <2>1, NodesFinite, FS_Subset
  <2>3. \A n \in lazies : widths[n] \in Nat
    BY <2>1, WidthIsPositive
  <2>4. Cardinality(dyadics) \in Nat /\ SumFunction(widths) \in Nat
    <3>1. SumFunction(widths) = SumFunctionOnSet(widths, lazies)
      BY DEF SumFunction
    <3> HIDE DEF widths, lazies, dyadics
    <3> QED
      BY <2>2, <2>3, <3>1, SumIsNatural, FS_CardinalityType
  <2>5. size' = size + Cardinality(dyadics) + SumFunction(widths)
    BY <1>2, RecordStep
  <2>6. size' \in Nat
    <3> HIDE DEF widths, dyadics
    <3> QED
      BY <1>1, <2>4, <2>5
  <2>7. /\ lazy' = lazy /\ doing_reset' = doing_reset
        /\ calls < MaxCalls /\ calls' = calls + 1 /\ ref_cnt' = ref_cnt + 1
    BY <1>2, RecordStep
  <2> QED
    BY <1>1, <2>6, <2>7 DEF Sizes
<1>3. CASE must_reset
  <2>1. /\ lazy' = lazy /\ doing_reset' = doing_reset /\ calls' = calls + 1 /\ calls < MaxCalls
        /\ size' = size \div 2 /\ ref_cnt' = ref_cnt \div 2
    BY <1>3 DEF must_reset
  <2> QED
    BY <1>1, <2>1 DEF Sizes
<1>4. ASSUME NEW i \in Threads, try_reset(i) \/ Load(i) \/ Store(i)
      PROVE  Sizes'
  <2>1. /\ lazy' = lazy /\ size' = size /\ ref_cnt' = ref_cnt
        /\ (calls' = calls \/ (calls' = calls + 1 /\ calls < MaxCalls))
    BY <1>4, Zenon DEF try_reset, Load, Store
  <2>2. doing_reset' \in BOOLEAN
    BY <1>1, <1>4, Zenon DEF try_reset, Load, Store
  <2> QED
    BY <1>1, <2>1, <2>2 DEF Sizes
<1>5. ASSUME NEW i \in Threads, Finish(i)
      PROVE  Sizes'
  <2>1. /\ size' \in {size, size \div 2} /\ ref_cnt' \in {ref_cnt, ref_cnt \div 2}
        /\ lazy' = lazy /\ calls' = calls
    BY <1>5 DEF Finish
  <2>2. doing_reset' \in BOOLEAN
    BY <1>1, <1>5, Zenon DEF Finish
  <2> QED
    BY <1>1, <2>1, <2>2 DEF Sizes
<1>6. CASE UNCHANGED vars
  BY <1>1, <1>6 DEF vars, Sizes
<1> QED
  BY <1>2, <1>3, <1>4, <1>5, <1>6 DEF Next, reset

\* Both sketches: sizes and counts stay what they are declared to be, a counter
\* within its four bits and a thread of reset() at a word of the tables, however
\* many of them run (try_increment_counter_at_with_value, interval_sketch.hpp:
\* 324-339, and reset, 444-458).
THEOREM SketchTypes == Spec => []TypeOK
<1>1. Types /\ Sizes => TypeOK
  BY DEF Types, Sizes, TypeOK, States
<1>2. (Types /\ Sizes) /\ [Next]_vars => (Types /\ Sizes)'
  BY NextTypes, NextSizes
<1> QED
  BY <1>1, <1>2, InitTypes, PTL DEF Spec

--------------------------------------------------------------------------------
(* One thread at a time                                                        *)

LEMMA InitShape == Init => Shape
<1> SUFFICES ASSUME Init PROVE Shape
  OBVIOUS
<1>1. OneThread
  BY DEF Init, OneThread, Running, Halving, Off
<1> QED
  BY <1>1, InitTypes DEF Shape

\* While a thread halves, it is the only one at work, and is where it says.
LEMMA HalvingAlone ==
  ASSUME Shape, NEW i \in Threads, Halving(i)
  PROVE  /\ doing_reset
         /\ thread[i].word \in Words
         /\ \A j \in Threads : j # i => thread[j] = Off
  BY DEF Shape, Types, States, OneThread, Running, Halving, Off

LEMMA TryResetStep ==
  ASSUME Shape, Patient, NEW i \in Threads, try_reset(i)
  PROVE  /\ \A j \in Threads : thread[j] = Off
         /\ thread'[i] = [pc |-> "load", word |-> <<0, 0>>]
         /\ \A j \in Threads : j # i => thread'[j] = Off
         /\ doing_reset' = TRUE /\ Aged /\ UNCHANGED <<lazy, counters>>
<1>1. /\ \A j \in Threads : thread[j] = Off
      /\ doing_reset' = TRUE
      /\ thread' = [thread EXCEPT ![i] = [pc |-> "load", word |-> <<0, 0>>]]
      /\ Aged
      /\ UNCHANGED <<lazy, counters>>
  BY DEF try_reset, Running
<1> QED
  BY <1>1 DEF Shape, Types

LEMMA LoadStep ==
  ASSUME Shape, NEW i \in Threads, Load(i)
  PROVE  LET word == thread[i].word
             old == [s \in Slots |-> counters[<<word, s>>]]
         IN /\ Halving(i)
            /\ thread'[i] = [pc |-> "store", word |-> word, old |-> old]
            /\ \A j \in Threads : j # i => thread'[j] = Off
            /\ UNCHANGED <<lazy, counters, doing_reset, truth>>
<1> DEFINE word == thread[i].word
           old == [s \in Slots |-> counters[<<word, s>>]]
<1>1. /\ thread[i].pc = "load"
      /\ thread' = [thread EXCEPT ![i] = [pc |-> "store", word |-> word, old |-> old]]
      /\ UNCHANGED <<lazy, counters, doing_reset, truth>>
  BY DEF Load
<1>2. Halving(i)
  BY <1>1 DEF Halving
<1>3. thread \in [Threads -> States] /\ \A j \in Threads : j # i => thread[j] = Off
  BY <1>2, HalvingAlone DEF Shape, Types
<1> HIDE DEF word, old
<1>4. /\ thread'[i] = [pc |-> "store", word |-> word, old |-> old]
      /\ \A j \in Threads : j # i => thread'[j] = Off
  BY <1>1, <1>3
<1> QED
  BY <1>1, <1>2, <1>4 DEF word, old

LEMMA StoreStep ==
  ASSUME Shape, NEW i \in Threads, Store(i)
  PROVE  LET word == thread[i].word
             old == thread[i].old
         IN /\ thread[i].pc = "store" /\ Halving(i)
            /\ counters' = [c \in AllCells |->
                 IF c[1] = word THEN old[c[2]] \div 2 ELSE counters[c]]
            /\ thread'[i].pc \in {"load", "tail"}
            /\ thread'[i].pc = "load" => thread'[i].word = NextWord(word)
            /\ \A j \in Threads : j # i => thread'[j] = Off
            /\ UNCHANGED <<lazy, doing_reset, truth>>
<1> DEFINE word == thread[i].word
           old == thread[i].old
           next == IF NextWord(word)[1] < Levels
                   THEN [pc |-> "load", word |-> NextWord(word)]
                   ELSE [pc |-> "tail", left |-> {"size_", "ref_cnt_", "doing_reset"}]
<1>1. /\ thread[i].pc = "store"
      /\ counters' = [c \in AllCells |->
           IF c[1] = word THEN old[c[2]] \div 2 ELSE counters[c]]
      /\ thread' = [thread EXCEPT ![i] = next]
      /\ UNCHANGED <<lazy, doing_reset, truth>>
  BY DEF Store
<1>2. Halving(i)
  BY <1>1 DEF Halving
<1>3. thread \in [Threads -> States] /\ \A j \in Threads : j # i => thread[j] = Off
  BY <1>2, HalvingAlone DEF Shape, Types
<1>4. next.pc \in {"load", "tail"} /\ (next.pc = "load" => next.word = NextWord(word))
  OBVIOUS
<1>5. thread'[i] = next /\ \A j \in Threads : j # i => thread'[j] = Off
  <2> HIDE DEF next
  <2> QED
    BY <1>1, <1>3
<1> HIDE DEF next
<1> QED
  BY <1>1, <1>2, <1>4, <1>5

LEMMA FinishAlone ==
  ASSUME Shape, NEW i \in Threads, Finish(i)
  PROVE  /\ \A j \in Threads : j # i => thread[j] = Off /\ thread'[j] = Off
         /\ \A j \in Threads : thread'[j].pc \notin {"load", "store"}
<1>1. /\ thread[i].pc = "tail"
      /\ thread'[i] \in {Off} \cup [pc : {"tail"}, left : SUBSET {"size_", "ref_cnt_", "doing_reset"}]
      /\ \A j \in Threads : j # i => thread'[j] = thread[j]
  BY FinishStep DEF Shape
<1>2. Running(i)
  BY <1>1 DEF Running, Off
<1>3. \A j \in Threads : j # i => thread[j] = Off /\ thread'[j] = Off
  BY <1>1, <1>2 DEF Shape, OneThread, Running
<1>4. \A j \in Threads : thread'[j].pc \notin {"load", "store"}
  BY <1>1, <1>3 DEF Off
<1> QED
  BY <1>3, <1>4

\* A thread is started only when none is at work, so that one at most is.
LEMMA NextShape ==
  ASSUME Shape, Patient, [Next]_vars
  PROVE  Shape'
<1>1. Types'
  BY NextTypes DEF Shape
<1>2. ASSUME UNCHANGED <<thread, doing_reset>>
      PROVE  OneThread'
  BY <1>2 DEF Shape, OneThread, Running, Halving
<1>3. CASE (\E a \in Accesses : record_access(a)) \/ must_reset \/ UNCHANGED vars
  <2>1. UNCHANGED <<thread, doing_reset>>
    BY <1>3 DEF record_access, must_reset, vars
  <2> QED
    BY <1>1, <1>2, <2>1 DEF Shape
<1>4. ASSUME NEW i \in Threads, try_reset(i)
      PROVE  OneThread'
  BY <1>4, TryResetStep DEF OneThread, Running, Halving
<1>5. ASSUME NEW i \in Threads, Load(i)
      PROVE  OneThread'
  <2>1. /\ \A j \in Threads : j # i => thread'[j] = Off
        /\ doing_reset' = doing_reset /\ doing_reset
    BY <1>5, LoadStep, HalvingAlone
  <2> QED
    BY <2>1 DEF OneThread, Running, Halving
<1>6. ASSUME NEW i \in Threads, Store(i)
      PROVE  OneThread'
  <2>1. /\ \A j \in Threads : j # i => thread'[j] = Off
        /\ doing_reset' = doing_reset /\ doing_reset
    BY <1>6, StoreStep, HalvingAlone
  <2> QED
    BY <2>1 DEF OneThread, Running, Halving
<1>7. ASSUME NEW i \in Threads, Finish(i)
      PROVE  OneThread'
  BY <1>7, FinishAlone DEF OneThread, Running, Halving
<1> QED
  BY <1>1, <1>3, <1>4, <1>5, <1>6, <1>7 DEF Next, reset, Shape

--------------------------------------------------------------------------------
(* What a step leaves a counter worth                                          *)

\* The steps of reset() in its thread: the counters that are read and written back
\* are worth what they were.
LEMMA LoadKeeps ==
  ASSUME Shape, NEW i \in Threads, Load(i), NEW c \in AllCells, NEW v \in Nat, Worth(c, v)
  PROVE  Worth(c, v)'
<1> DEFINE word == thread[i].word
           old == [s \in Slots |-> counters[<<word, s>>]]
<1>1. /\ Halving(i)
      /\ thread'[i] = [pc |-> "store", word |-> word, old |-> old]
      /\ \A j \in Threads : j # i => thread'[j] = Off
      /\ counters' = counters
  BY LoadStep
<1>2. word \in Words
  BY <1>1, HalvingAlone
<1>3. /\ ~Before(c[1], word) => counters[c] \div 2 >= v
      /\ counters[c] >= v
  BY <1>1 DEF Worth
<1>4. word = c[1] => ~Before(c[1], word) /\ old[c[2]] = counters[c]
  <2>1. c[1] \in Words /\ c[2] \in Slots /\ c = <<c[1], c[2]>>
    BY DEF AllCells
  <2>2. c[1][1] \in Int /\ c[1][2] \in Int
    BY <2>1 DEF Words
  <2> HIDE DEF word
  <2> QED
    BY <2>1, <2>2 DEF Before
<1>5. \A j \in Threads : (Halving(j)' => j = i) /\ (thread'[j].pc = "store" => j = i)
  BY <1>1 DEF Halving, Off
<1>6. thread'[i].word = word /\ thread'[i].old = old
  <2> HIDE DEF word, old
  <2> QED
    BY <1>1
<1> HIDE DEF word, old
<1> QED
  BY <1>1, <1>3, <1>4, <1>5, <1>6 DEF Worth

LEMMA StoreKeeps ==
  ASSUME Shape, NEW i \in Threads, Store(i), NEW c \in AllCells, NEW v \in Nat, Worth(c, v)
  PROVE  Worth(c, v)'
<1> DEFINE word == thread[i].word
           old == thread[i].old
<1>1. /\ thread[i].pc = "store" /\ Halving(i)
      /\ counters' = [d \in AllCells |->
           IF d[1] = word THEN old[d[2]] \div 2 ELSE counters[d]]
      /\ thread'[i].pc \in {"load", "tail"}
      /\ thread'[i].pc = "load" => thread'[i].word = NextWord(word)
      /\ \A j \in Threads : j # i => thread'[j] = Off
  BY StoreStep
<1>2. word \in Words
  BY <1>1, HalvingAlone
<1>3. /\ counters[c] >= v
      /\ ~Before(c[1], word) => counters[c] \div 2 >= v
      /\ word = c[1] => old[c[2]] \div 2 >= v
  BY <1>1 DEF Worth
<1> HIDE DEF word, old
<1>4. counters'[c] >= v
  BY <1>1, <1>3
<1>5. \A j \in Threads : thread'[j].pc # "store"
  BY <1>1 DEF Off
<1>6. ASSUME NEW j \in Threads, Halving(j)', ~Before(c[1], thread'[j].word)
      PROVE  counters'[c] \div 2 >= v
  <2>1. j = i /\ thread'[i].word = NextWord(word)
    BY <1>1, <1>5, <1>6 DEF Halving, Off
  <2>2. ~Before(c[1], word) /\ c[1] # word
    <3>1. c[1] \in Words
      BY DEF AllCells
    <3> QED
      BY <1>2, <1>6, <2>1, <3>1, WordOrder
  <2>3. counters'[c] = counters[c]
    BY <1>1, <2>2
  <2> QED
    BY <1>3, <2>2, <2>3
<1> QED
  BY <1>4, <1>5, <1>6 DEF Worth, Halving

LEMMA ResetKeeps ==
  ASSUME Shape, (\E i \in Threads : reset(i)) \/ UNCHANGED vars
  PROVE  /\ UNCHANGED <<lazy, truth>>
         /\ \A c \in AllCells, v \in Nat : Worth(c, v) => Worth(c, v)'
<1>1. ASSUME NEW i \in Threads, Load(i) \/ Store(i)
      PROVE  UNCHANGED <<lazy, truth>>
  BY <1>1 DEF Load, Store
<1>2. ASSUME NEW i \in Threads, Finish(i), NEW c \in AllCells, NEW v \in Nat, Worth(c, v)
      PROVE  Worth(c, v)'
  <2>1. /\ counters' = counters
        /\ \A j \in Threads : thread'[j].pc \notin {"load", "store"}
    BY <1>2, FinishStep, FinishAlone DEF Shape
  <2> QED
    BY <1>2, <2>1 DEF Worth, Halving
<1>3. ASSUME NEW i \in Threads, Finish(i)
      PROVE  UNCHANGED <<lazy, truth>>
  BY <1>3, FinishStep DEF Shape
<1>4. CASE UNCHANGED vars
  BY <1>4 DEF vars, Worth, Halving
<1> QED
  BY <1>1, <1>2, <1>3, <1>4, LoadKeeps, StoreKeeps DEF reset

\* The calls that age the truth halve the counters, or start the thread that will.
LEMMA MustResetHalves ==
  ASSUME Shape, must_reset, NEW c \in AllCells, NEW v \in Nat, Worth(c, v)
  PROVE  Worth(c, v \div 2)'
<1>1. counters[c] \in Nat /\ counters'[c] = counters[c] \div 2 /\ thread' = thread
  BY CallsAssumption DEF must_reset, Shape, Types
<1>2. counters'[c] >= v \div 2
  BY <1>1 DEF Worth
<1>3. counters[c] \div 2 >= v => counters'[c] \div 2 >= v \div 2
  BY <1>1
<1>4. ASSUME NEW i \in Threads, thread[i].pc = "store", thread[i].word = c[1]
      PROVE  thread[i].old[c[2]] \div 2 >= v \div 2
  <2>1. thread[i].old[c[2]] \in Nat
    <3>1. thread[i] \in [pc : {"store"}, word : Words, old : [Slots -> 0..MaxCount]]
      BY <1>4 DEF Shape, Types, States, Off
    <3> QED
      BY <3>1, CallsAssumption DEF AllCells
  <2>2. thread[i].old[c[2]] \div 2 >= v
    BY <1>4 DEF Worth
  <2> QED
    BY <2>1, <2>2
<1> QED
  BY <1>1, <1>2, <1>3, <1>4 DEF Worth, Halving

LEMMA AgingHalves ==
  ASSUME Shape, Patient, must_reset \/ (\E i \in Threads : try_reset(i))
  PROVE  /\ lazy' = lazy
         /\ \A g \in Granules : truth'[g] = truth[g] \div 2
         /\ \A c \in AllCells, v \in Nat : Worth(c, v) => Worth(c, v \div 2)'
<1>1. CASE must_reset
  BY <1>1, MustResetHalves, AgedTruth DEF must_reset, Shape
<1>2. ASSUME NEW i \in Threads, try_reset(i)
      PROVE  lazy' = lazy /\ \A g \in Granules : truth'[g] = truth[g] \div 2
  BY <1>2, TryResetStep, AgedTruth DEF Shape
<1>3. ASSUME NEW i \in Threads, try_reset(i), NEW c \in AllCells, NEW v \in Nat, Worth(c, v)
      PROVE  Worth(c, v \div 2)'
  <2> DEFINE started == [pc |-> "load", word |-> <<0, 0>>]
  <2>1. /\ thread'[i] = started
        /\ \A j \in Threads : j # i => thread'[j] = Off
        /\ counters' = counters
    BY <1>3, TryResetStep
  <2>2. counters[c] \in Nat /\ counters'[c] = counters[c] /\ counters[c] >= v
    BY <1>3, <2>1, CallsAssumption DEF Shape, Types, Worth
  <2>3. counters'[c] >= v \div 2 /\ counters'[c] \div 2 >= v \div 2
    BY <2>2
  <2>4. \A j \in Threads : thread'[j].pc # "store"
    BY <2>1 DEF Off
  <2> QED
    BY <2>3, <2>4 DEF Worth
<1> QED
  BY <1>1, <1>2, <1>3

\* record_access counts only when no thread halves: nothing is worth less after it.
LEMMA RecordAlone ==
  ASSUME Shape, NEW a \in Accesses, record_access(a)
  PROVE  /\ \A i \in Threads : ~Halving(i) /\ ~Halving(i)'
         /\ \A c \in AllCells, v \in Nat : Worth(c, v) <=> counters[c] >= v
         /\ \A c \in AllCells, v \in Nat : Worth(c, v)' <=> counters'[c] >= v
<1>1. ~doing_reset /\ thread' = thread
  BY RecordStep DEF Shape
<1>2. \A i \in Threads : ~Halving(i) /\ ~Halving(i)'
  BY <1>1 DEF Shape, OneThread, Halving
<1>3. \A i \in Threads : thread[i].pc # "store" /\ thread'[i].pc # "store"
  BY <1>2 DEF Halving
<1> QED
  BY <1>2, <1>3 DEF Worth

--------------------------------------------------------------------------------
(* The nodes of interval_sketch                                                *)

\* record_access counts a granule in every node over it.
LEMMA RecordAllWorth ==
  ASSUME IInv, NEW a \in Accesses, record_access(a)
  PROVE  AllWorth'
<1> DEFINE unit == RecordUnit(a)
           left == Left(a[2])
           right == Right(a[2], a[3])
           dyadics == RecordDyadics(a)
           lazies == RecordLazies(a)
<1>1. /\ Count(unit, dyadics, lazies)
      /\ dyadics \in SUBSET Nodes /\ lazies \in SUBSET Nodes
      /\ truth' = [g \in Granules |->
           IF g[1] = unit /\ left <= g[2] /\ g[2] < right
           THEN Saturated(truth[g] + 1) ELSE truth[g]]
      /\ lazy' = lazy
  BY RecordStep DEF IInv, Shape
<1>2. Types /\ Types' /\ MaxCount \in Nat
  BY RecordTypes, CallsAssumption DEF IInv, Shape
<1>3. ASSUME ~lazy, NEW c \in AllCells, NEW g \in Granules, CountsFor(c, g)
      PROVE  counters'[c] >= truth'[g]
  <2>1. /\ counters[c] >= truth[g]
        /\ counters[c] \in 0..MaxCount /\ truth[g] \in 0..MaxCount
        /\ counters'[c] \in 0..MaxCount /\ truth'[g] \in 0..MaxCount
    BY <1>2, <1>3 DEF IInv, AllWorth, Worth, Types
  <2>2. counters'[c] >= counters[c]
    <3> HIDE DEF unit, dyadics, lazies
    <3> QED
      BY <1>1, <1>2, CountRaises
  <2>3. CASE g[1] = unit /\ left <= g[2] /\ g[2] < right
    <3>1. PICK n \in Nodes : /\ c \in Cells(unit, n, "dyadic")
                             /\ Start(n) <= g[2] /\ g[2] < Until(n)
      BY <1>3, <2>3 DEF CountsFor
    <3>2. /\ g[2] \in Int /\ Start(n) \in Int /\ Until(n) \in Int
          /\ left \in Int /\ right \in Int
      <4>1. left \in Int /\ right \in Int
        BY LeftRight
      <4>2. Until(n) \in 1..End /\ n[2] \in 0..End - 1
        BY DEF Nodes
      <4>3. g[2] \in 0..End - 1
        BY DEF Granules
      <4> QED
        BY <4>1, <4>2, <4>3 DEF Start
    <3>3. n \in dyadics
      <4>1. dyadics = Visited(left, right)
        BY <1>3 DEF RecordDyadics
      <4> HIDE DEF left, right, dyadics
      <4>2. Until(n) > left /\ Start(n) < right
        BY <2>3, <3>1, <3>2
      <4> QED
        BY <4>1, <4>2 DEF Visited
    <3>4. counters'[c] >= counters[c] + 1 \/ counters'[c] = MaxCount
      <4> HIDE DEF unit, dyadics, lazies
      <4> QED
        BY <1>1, <1>2, <3>1, <3>3, CountRaises
    <3>5. truth'[g] = Saturated(truth[g] + 1)
      <4> HIDE DEF unit, left, right
      <4> QED
        BY <1>1, <2>3
    <3>6. truth'[g] <= truth[g] + 1
      BY <1>2, <2>1, <3>5, SaturatedRange
    <3> QED
      BY <1>2, <2>1, <3>4, <3>6
  <2>4. CASE ~(g[1] = unit /\ left <= g[2] /\ g[2] < right)
    <3>1. truth'[g] = truth[g]
      <4> HIDE DEF unit, left, right
      <4> QED
        BY <1>1, <2>4
    <3> QED
      BY <2>1, <2>2, <3>1
  <2> QED
    BY <2>3, <2>4
<1>4. \A g \in Granules : truth'[g] \in Nat
  BY <1>2 DEF Types
<1>5. \A c \in AllCells, v \in Nat : Worth(c, v)' <=> counters'[c] >= v
  BY RecordAlone DEF IInv, Shape
<1>6. ASSUME ~lazy, NEW c \in AllCells, NEW g \in Granules, CountsFor(c, g)
      PROVE  Worth(c, truth[g])'
  <2>1. PICK v \in Nat : v = truth'[g]
    BY <1>4
  <2>2. Worth(c, v)'
    BY <1>3, <1>5, <1>6, <2>1
  <2> QED
    BY <2>1, <2>2 DEF Worth
<1> QED
  BY <1>1, <1>6 DEF AllWorth, CountsFor

LEMMA NextAllWorth ==
  ASSUME IInv, Patient, [Next]_vars
  PROVE  AllWorth'
<1>1. CASE \E a \in Accesses : record_access(a)
  BY <1>1, RecordAllWorth
<1>2. \A g \in Granules : truth[g] \in Nat
  BY CallsAssumption DEF IInv, Shape, Types
<1>3. CASE must_reset \/ \E i \in Threads : try_reset(i)
  <2>1. /\ lazy' = lazy
        /\ \A g \in Granules : truth'[g] = truth[g] \div 2
        /\ \A c \in AllCells, v \in Nat : Worth(c, v) => Worth(c, v \div 2)'
    BY <1>3, AgingHalves DEF IInv
  <2>2. ASSUME ~lazy, NEW c \in AllCells, NEW g \in Granules, CountsFor(c, g)
        PROVE  Worth(c, truth[g])'
    <3>1. PICK v \in Nat : v = truth[g]
      BY <1>2
    <3>2. Worth(c, v)
      BY <2>2, <3>1 DEF IInv, AllWorth
    <3>3. Worth(c, v \div 2)' /\ truth'[g] = v \div 2
      BY <2>1, <3>1, <3>2
    <3> QED
      BY <3>3 DEF Worth
  <2> QED
    BY <2>1, <2>2 DEF AllWorth, CountsFor
<1>4. CASE (\E i \in Threads : reset(i)) \/ UNCHANGED vars
  <2>1. /\ UNCHANGED <<lazy, truth>>
        /\ \A c \in AllCells, v \in Nat : Worth(c, v) => Worth(c, v)'
    BY <1>4, ResetKeeps DEF IInv
  <2>2. ASSUME ~lazy, NEW c \in AllCells, NEW g \in Granules, CountsFor(c, g)
        PROVE  Worth(c, truth[g])'
    <3>1. PICK v \in Nat : v = truth[g]
      BY <1>2
    <3>2. Worth(c, v)
      BY <2>2, <3>1 DEF IInv, AllWorth
    <3>3. Worth(c, v)' /\ truth'[g] = v
      BY <2>1, <3>1, <3>2
    <3> QED
      BY <3>3 DEF Worth
  <2> QED
    BY <2>1, <2>2 DEF AllWorth, CountsFor
<1> QED
  BY <1>1, <1>3, <1>4 DEF Next

LEMMA InitAllWorth == Init => AllWorth
<1> SUFFICES ASSUME Init PROVE AllWorth
  OBVIOUS
<1>1. \A i \in Threads : thread[i].pc = "off"
  BY DEF Init, Off
<1> QED
  BY <1>1 DEF Init, AllWorth, Worth, Halving

LEMMA IInvIsInvariant ==
  ASSUME Patient
  PROVE  Spec => []IInv
<1>1. Init => IInv
  BY InitShape, InitAllWorth DEF IInv
<1>2. IInv /\ [Next]_vars => IInv'
  BY NextShape, NextAllWorth DEF IInv
<1> QED
  BY <1>1, <1>2, PTL DEF Spec

LEMMA IInvImplies == IInv => NodesCount
<1> SUFFICES ASSUME IInv, ~lazy,
                    NEW unit \in Units, NEW n \in Nodes, NEW g \in Granules,
                    g[1] = unit, Start(n) <= g[2], g[2] < Until(n),
                    NEW c \in Cells(unit, n, "dyadic")
             PROVE  counters[c] >= truth[g]
  BY DEF NodesCount
<1>1. c \in AllCells
  BY CellsInTable
<1>2. CountsFor(c, g)
  BY DEF CountsFor
<1> QED
  BY <1>1, <1>2 DEF IInv, AllWorth, Worth

\* interval_sketch: whatever nodes share its counters, no node of the tree counts
\* less than the accesses of any granule under it (aged with every reset), and
\* no access is lost to a reset, provided that try_reset (interval_sketch.hpp:
\* 360-377) is not called while the thread of an earlier call still halves.
THEOREM IntervalNodesCount ==
  ASSUME Patient
  PROVE  Spec => []NodesCount
BY IInvIsInvariant, IInvImplies, PTL
=============================================================================
