--------------------------- MODULE IntervalSketch ---------------------------
(***************************************************************************)
(* The frequency sketches of benchmark/structures/interval_sketch.hpp and  *)
(* gxj_frequency_sketch.hpp: a unit of unit_size bytes is cut into         *)
(* granules, a binary tree stands over the granules, and every node has a  *)
(* dyadic and a lazy estimate, each the least of a few saturating counters *)
(* that other nodes of its level may share.  try_reset halves the counters *)
(* in a detached thread, word by word, while record_access does nothing.   *)
(* The two headers differ in inner_frequency and inner_record_access only: *)
(* the variable lazy, set for good when the sketch is built, says which    *)
(* one it is.                                                              *)
(***************************************************************************)
EXTENDS Integers, FiniteSets, FiniteSetsExt

CONSTANTS
  UnitSize, Granularity,  \* unit_size and granularity, in bytes
  Capacity,               \* capacity_
  MaxCount,               \* 15: the counters have four bits
  Rows,                   \* 0..3: the counters of one estimate
  Accesses,               \* the arguments <<unit_id, t, size>> of the calls
  Index,                  \* table_index before it is cut to the table's size
  Half,                   \* offset_multiplier: the half of a sub-block
  Threads,                \* the detached threads
  Patient,                \* try_reset is not called while a thread resets
  MustResets,             \* must_reset and soft_reset are called
  MaxCalls                \* bound on the calls that change the sketch

VARIABLES
  lazy,         \* TRUE: gxj_range_frequency_sketch, FALSE: interval_sketch
  counters,     \* mix_counters_
  size,         \* size_
  ref_cnt,      \* ref_cnt_
  doing_reset,
  thread,       \* where each detached thread is in reset()
  truth,        \* history: accesses of each granule, aged as the counters are
  calls         \* history: number of calls, for MaxCalls

vars == <<lazy, counters, size, ref_cnt, doing_reset, thread, truth, calls>>

--------------------------------------------------------------------------------
(* Geometry: granules, tables and the tree                                     *)

Left(t) == (t % UnitSize) \div Granularity
Right(t, len) == ((t + len) % UnitSize) \div Granularity
End == (UnitSize + Granularity - 1) \div Granularity
Base(t) == (t \div UnitSize) * End

\* The logarithm of nearest_power_of_two(n).
Log2(n) == CHOOSE k \in 0..n : 2^k >= n /\ (k = 0 \/ 2^(k - 1) < n)
Levels == Log2(UnitSize \div Granularity) + 1
TableSize(level) == 2^Log2(Capacity) \div 2^level

\* The words of all tables: <<level, index>>.
Words == {w \in (0..Levels - 1) \X (0..TableSize(0) - 1) : w[2] < TableSize(w[1])}
Slots == {"dyadic", "lazy"} \X {0, 1} \X Rows
AllCells == Words \X Slots

\* A unit as hash() tells it from others, a granule of it, and the nodes over any
\* unit: <<level, start>>.
Units == {<<a[1], Base(a[2])>> : a \in Accesses}
Granules == Units \X (0..End - 1)
Start(n) == n[2]
Width(n) == 2^n[1]
Until(n) == Start(n) + Width(n)
Nodes == {n \in (0..Levels - 1) \X (0..End - 1) :
            Start(n) % Width(n) = 0 /\ Until(n) \in 1..End}

\* The cells of a node's estimate: one in each row, in its level's table.
Cells(unit, n, kind) ==
  LET key == <<unit[1], unit[2] + Start(n)>>
  IN {<< <<n[1], Index[key][row] % TableSize(n[1])>>, <<kind, Half[key], row>> >> :
        row \in Rows}

\* What the code does not check: the unit is a power of two of granules, and
\* the capacity leaves every level of the tree a table.
ASSUME GeometryAssumption ==
  /\ UnitSize \in Nat \ {0} /\ Granularity \in Nat \ {0} /\ Capacity \in Nat \ {0}
  /\ Levels \in Nat \ {0} /\ End = 2^(Levels - 1)
  /\ \A level \in 0..Levels - 1 : TableSize(level) \in 1..TableSize(0)
ASSUME CallsAssumption ==
  /\ MaxCount \in Nat \ {0} /\ MaxCalls \in Nat /\ Patient \in BOOLEAN /\ MustResets \in BOOLEAN
  /\ Rows # {}
  /\ \A a \in Accesses : a[2] \in Nat /\ a[3] \in Nat
  /\ \A unit \in Units, i \in 0..End - 1 :
       LET key == <<unit[1], unit[2] + i>>
       IN Half[key] \in {0, 1} /\ \A row \in Rows : Index[key][row] \in Nat

--------------------------------------------------------------------------------
(* The recursion over the tree, as the set of nodes it visits.  Its left and   *)
(* right are those of the call, cut to the node.                               *)

\* The halves of a node that are entered: the left one ends after left (it has
\* mid > left), the right one starts before right (mid < right).
Visited(left, right) ==
  {n \in Nodes : Until(n) > left /\ (Start(n) = 0 \/ Start(n) < right)}
\* left == start && right == end
Whole(n, left, right) == left <= Start(n) /\ Until(n) <= right
Stops(left, right) ==
  {n \in Visited(left, right) :
     /\ Whole(n, left, right)
     /\ ~\E m \in Nodes : m[1] > n[1] /\ Whole(m, left, right)
                          /\ Start(m) <= Start(n) /\ Until(n) <= Until(m)}
Partial(left, right) == {n \in Visited(left, right) : ~Whole(n, left, right)}
\* right - left in a node
Cut(n, left, right) == Min({right, Until(n)}) - Max({left, Start(n)})

Estimate(unit, n, kind) == Min({counters[c] : c \in Cells(unit, n, kind)})

\* Mutant of frequency: block_frequency is not multiplied by range.
frequencyOfOne(unit, left, right) ==
  SumFunction([n \in Stops(left, right) |-> Estimate(unit, n, "dyadic")])

\* Mutant of frequency: the lazy counts of the nodes above are left out.
frequencyOwn(unit, left, right) ==
  SumFunction([n \in Stops(left, right) |->
    (Estimate(unit, n, "dyadic") + Estimate(unit, n, "lazy")) * Width(n)])

frequency(unit, left, right) ==
  SumFunction([n \in Stops(left, right) |-> Estimate(unit, n, "dyadic") * Width(n)])
  + IF lazy
    THEN SumFunction([n \in Stops(left, right) \cup Partial(left, right) |->
                        Estimate(unit, n, "lazy") * Cut(n, left, right)])
    ELSE 0

--------------------------------------------------------------------------------
(* Counting                                                                    *)

\* Mutant of Count: the counters are not kept within their four bits.
CountOver(unit, dyadics, lazies) ==
  counters' = [c \in AllCells |->
    counters[c] + Cardinality({n \in dyadics : c \in Cells(unit, n, "dyadic")})
                + Cardinality({n \in lazies : c \in Cells(unit, n, "lazy")})]

\* Saturating increments: a cell that several of the nodes share is
\* incremented for each.
Count(unit, dyadics, lazies) ==
  counters' = [c \in AllCells |->
    Min({MaxCount,
         counters[c] + Cardinality({n \in dyadics : c \in Cells(unit, n, "dyadic")})
                     + Cardinality({n \in lazies : c \in Cells(unit, n, "lazy")})})]

\* try_est_add: Width(n) is a power of two, so that & (Width(n) - 1) is % Width(n).
TryEstAdd(n, left, right) == (ref_cnt + 1) % Width(n) < Cut(n, left, right)

Saturated(n) == Min({MaxCount, n})

\* Mutant of Accepts: accesses are counted while the counters are halved.
AcceptsAlways == calls < MaxCalls
Accepts == calls < MaxCalls /\ ~doing_reset

record_access(a) ==
  LET unit == <<a[1], Base(a[2])>>
      left == Left(a[2])
      right == Right(a[2], a[3])
      dyadics == IF lazy THEN {n \in Partial(left, right) : TryEstAdd(n, left, right)}
                         ELSE Visited(left, right)
      lazies == IF lazy THEN Stops(left, right) ELSE {}
  IN /\ Accepts
     /\ Count(unit, dyadics, lazies)
     /\ size' = size + Cardinality(dyadics) + SumFunction([n \in lazies |-> Width(n)])
     /\ ref_cnt' = ref_cnt + 1
     /\ truth' = [g \in Granules |->
          IF g[1] = unit /\ left <= g[2] /\ g[2] < right
          THEN Saturated(truth[g] + 1) ELSE truth[g]]
     /\ calls' = calls + 1
     /\ UNCHANGED <<lazy, doing_reset, thread>>

--------------------------------------------------------------------------------
(* Resets                                                                      *)

Off == [pc |-> "off"]
Running(i) == thread[i] # Off
Aged == truth' = [g \in Granules |-> truth[g] \div 2]

sampling_size == Capacity * 2

\* reset() in the caller's thread: must_reset and soft_reset.
must_reset ==
  /\ MustResets /\ calls < MaxCalls
  /\ counters' = [c \in AllCells |-> counters[c] \div 2]
  /\ size' = size \div 2
  /\ ref_cnt' = ref_cnt \div 2
  /\ Aged
  /\ calls' = calls + 1
  /\ UNCHANGED <<lazy, doing_reset, thread>>

try_reset(i) ==
  /\ calls < MaxCalls /\ ~Running(i)
  /\ Patient => \A j \in Threads : ~Running(j)
  /\ size >= sampling_size
  /\ doing_reset' = TRUE
  /\ thread' = [thread EXCEPT ![i] = [pc |-> "load", word |-> <<0, 0>>]]
  /\ Aged
  /\ calls' = calls + 1
  /\ UNCHANGED <<lazy, counters, size, ref_cnt>>

\* The loops of reset(): each word of each table is read, then written.
Load(i) ==
  /\ thread[i].pc = "load"
  /\ thread' = [thread EXCEPT ![i] =
       [pc |-> "store", word |-> thread[i].word,
        old |-> [s \in Slots |-> counters[<<thread[i].word, s>>]]]]
  /\ UNCHANGED <<lazy, counters, size, ref_cnt, doing_reset, truth, calls>>

NextWord(w) == IF w[2] + 1 < TableSize(w[1]) THEN <<w[1], w[2] + 1>> ELSE <<w[1] + 1, 0>>

Store(i) ==
  /\ thread[i].pc = "store"
  /\ counters' = [c \in AllCells |->
       IF c[1] = thread[i].word THEN thread[i].old[c[2]] \div 2 ELSE counters[c]]
  /\ thread' = [thread EXCEPT ![i] =
       IF NextWord(thread[i].word)[1] < Levels
       THEN [pc |-> "load", word |-> NextWord(thread[i].word)]
       ELSE [pc |-> "tail", left |-> {"size_", "ref_cnt_", "doing_reset"}]]
  /\ UNCHANGED <<lazy, size, ref_cnt, doing_reset, truth, calls>>

\* The last three assignments.  Nothing in the code orders them for the other
\* threads, so that they may be seen in any order.
\* Mutant of Finish: doing_reset stays set.
FinishKeepsDoing(i) ==
  /\ thread[i].pc = "tail"
  /\ thread' = [thread EXCEPT ![i] = Off]
  /\ size' = size \div 2 /\ ref_cnt' = ref_cnt \div 2
  /\ UNCHANGED <<lazy, counters, doing_reset, truth, calls>>

Finish(i) ==
  /\ thread[i].pc = "tail"
  /\ \E x \in thread[i].left :
       /\ size' = IF x = "size_" THEN size \div 2 ELSE size
       /\ ref_cnt' = IF x = "ref_cnt_" THEN ref_cnt \div 2 ELSE ref_cnt
       /\ doing_reset' = IF x = "doing_reset" THEN FALSE ELSE doing_reset
       /\ thread' = [thread EXCEPT ![i] =
            IF thread[i].left = {x} THEN Off
            ELSE [pc |-> "tail", left |-> thread[i].left \ {x}]]
  /\ UNCHANGED <<lazy, counters, truth, calls>>

reset(i) == Load(i) \/ Store(i) \/ Finish(i)

Init ==
  /\ lazy \in BOOLEAN
  /\ counters = [c \in AllCells |-> 0]
  /\ size = 0 /\ ref_cnt = 0
  /\ doing_reset = FALSE
  /\ thread = [i \in Threads |-> Off]
  /\ truth = [g \in Granules |-> 0]
  /\ calls = 0

Next ==
  \/ \E a \in Accesses : record_access(a)
  \/ must_reset
  \/ \E i \in Threads : try_reset(i) \/ reset(i)

Spec == Init /\ [][Next]_vars
\* A detached thread is scheduled again and again.
FairSpec == Spec /\ \A i \in Threads : WF_vars(reset(i))

--------------------------------------------------------------------------------
(* Properties                                                                  *)

TypeOK ==
  /\ lazy \in BOOLEAN /\ doing_reset \in BOOLEAN
  /\ counters \in [AllCells -> 0..MaxCount]
  /\ truth \in [Granules -> 0..MaxCount]
  /\ size \in Nat /\ ref_cnt \in Nat /\ calls \in 0..MaxCalls
  /\ thread \in [Threads ->
       {Off} \cup [pc : {"load"}, word : Words]
             \cup [pc : {"store"}, word : Words, old : [Slots -> 0..MaxCount]]
             \cup [pc : {"tail"}, left : SUBSET {"size_", "ref_cnt_", "doing_reset"}]]

\* interval_sketch: every counter of a node counts at least the accesses of each
\* granule under the node, whatever other nodes share it, before, during and
\* after a reset (the truth ages when the reset is asked for).
NodesCount ==
  ~lazy => \A unit \in Units, n \in Nodes, g \in Granules :
             g[1] = unit /\ Start(n) <= g[2] /\ g[2] < Until(n)
             => \A c \in Cells(unit, n, "dyadic") : counters[c] >= truth[g]

\* interval_sketch: the frequency of a range, put together from whole nodes
\* (inner_frequency), is never below the accesses of its granules.
NeverUnder ==
  ~lazy => \A unit \in Units, left \in 0..End - 1, right \in 0..End - 1 :
             left < right =>
             frequency(unit, left, right)
             >= SumFunction([i \in left..right - 1 |-> truth[<<unit, i>>]])

\* gxj_range_frequency_sketch: an access is spread over nodes of different levels,
\* each of which is halved and rounded down by itself.  That never loses a
\* granule more than one access for each level below the highest that counts:
\* the root never does, for right is cut to the unit.
UnderByLevels ==
  lazy => \A g \in Granules :
            g[2] < End - 1 =>
            frequency(g[1], g[2], g[2] + 1) + (Levels - 2) >= truth[g]

\* "halved when sampling size is reached" (comment of size_): the detached thread
\* halves no size_ below sampling_size().
HalvedWhenReached ==
  [][\A i \in Threads : Finish(i) /\ size' # size => size >= sampling_size]_vars

\* record_access does not drop accesses for ever: a reset that was started ends.
CountingResumes == doing_reset ~> ~doing_reset
================================================================================
