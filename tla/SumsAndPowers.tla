--------------------------- MODULE SumsAndPowers ---------------------------
(***************************************************************************)
(* Sums over finite sets, as SumFunctionOnSet adds them up, and powers of  *)
(* two: what the proofs about the frequency sketches need of them.  The    *)
(* induction is that of the well-founded order of the naturals, over the   *)
(* set of the numbers, or of the subsets, for which the claim holds.       *)
(***************************************************************************)
EXTENDS Integers, Functions, FiniteSetTheorems, WellFoundedInduction, TLAPS

--------------------------------------------------------------------------------
(* Induction                                                                   *)

Smaller == {p \in Nat \X Nat : p[1] < p[2]}

LEMMA LeastNumber ==
  ASSUME NEW T, T \subseteq Nat, T # {}
  PROVE  \E x \in T : \A y \in T : x <= y
<1>1. IsWellFoundedOn(Smaller, Nat)
  <2>1. IsWellFoundedOn(OpToRel(<,Nat), Nat)
    BY NatLessThanWellFounded
  <2> QED
    BY <2>1 DEF OpToRel, Smaller
<1>2. PICK x \in T : \A y \in T : <<y, x>> \notin Smaller
  <2> HIDE DEF Smaller
  <2> QED
    BY <1>1, WFMin
<1>3. ASSUME NEW y \in T PROVE x <= y
  <2>1. \A m, n \in Nat : m < n => <<m, n>> \in Smaller
    BY DEF Smaller
  <2>2. x \in Nat /\ y \in Nat /\ ~(y < x)
    BY <1>2, <2>1
  <2> QED
    BY <2>2
<1> QED
  BY <1>2, <1>3

\* A set that holds 0 and, with a number, the next one.
LEMMA NumberInduction ==
  ASSUME NEW S, 0 \in S, \A n \in Nat : n \in S => n + 1 \in S
  PROVE  \A n \in Nat : n \in S
<1> SUFFICES ASSUME Nat \ S # {} PROVE FALSE
  OBVIOUS
<1>1. PICK x \in Nat \ S : \A y \in Nat \ S : x <= y
  BY LeastNumber
<1>2. x # 0 /\ x - 1 \in Nat /\ ~(x <= x - 1)
  BY <1>1
<1>3. x - 1 \in S
  BY <1>1, <1>2
<1>4. x - 1 + 1 \in S
  BY <1>2, <1>3
<1> QED
  BY <1>1, <1>4

\* A set of subsets of S that holds the empty one and, with a subset, all those
\* with one element more.
LEMMA SubsetInduction ==
  ASSUME NEW S, IsFiniteSet(S), NEW P, {} \in P,
         \A T \in SUBSET S : \A x \in S \ T : T \in P => T \cup {x} \in P
  PROVE  \A T \in SUBSET S : T \in P
<1> DEFINE N == {n \in Nat : \A T \in SUBSET S : Cardinality(T) = n => T \in P}
<1>1. \A T \in SUBSET S : IsFiniteSet(T) /\ Cardinality(T) \in Nat
  BY FS_Subset, FS_CardinalityType
<1>2. 0 \in N
  BY <1>1, FS_EmptySet
<1>3. ASSUME NEW n \in Nat, n \in N PROVE n + 1 \in N
  <2> SUFFICES ASSUME NEW T \in SUBSET S, Cardinality(T) = n + 1 PROVE T \in P
    OBVIOUS
  <2>1. T # {}
    BY <1>1, FS_EmptySet
  <2>2. PICK x \in T : TRUE
    BY <2>1
  <2>3. Cardinality(T \ {x}) = Cardinality(T) - 1
    BY <1>1, <2>2, FS_RemoveElement
  <2>4. T \ {x} \in SUBSET S /\ x \in S \ (T \ {x})
    BY <2>2
  <2>5. T \ {x} \in P
    BY <1>3, <2>3, <2>4
  <2>6. (T \ {x}) \cup {x} \in P
    BY <2>4, <2>5
  <2>7. (T \ {x}) \cup {x} = T
    BY <2>2
  <2> QED
    BY <2>6, <2>7, Zenon
<1>4. \A n \in Nat : n \in N
  <2> HIDE DEF N
  <2> QED
    BY <1>2, <1>3, NumberInduction
<1> QED
  BY <1>1, <1>4

--------------------------------------------------------------------------------
(* The recursion behind a sum                                                  *)

\* h is what the recursion over the subsets of S computes.
SumsUp(h, f, S) ==
  h = [s \in SUBSET S |->
         IF s = {} THEN 0
         ELSE LET x == CHOOSE x \in s : TRUE IN f[x] + h[s \ {x}]]

\* The recursion as far as the subsets in D, from which nothing is missing.
SumsUpIn(h, f, D) ==
  \A s \in D : h[s] = IF s = {} THEN 0
                      ELSE LET x == CHOOSE x \in s : TRUE IN f[x] + h[s \ {x}]

LEMMA SumsUpExists ==
  ASSUME NEW f, NEW S, IsFiniteSet(S)
  PROVE  \E h : SumsUp(h, f, S)
<1> DEFINE Upto(n) == {s \in SUBSET S : Cardinality(s) <= n}
           N == {n \in Nat : \E h : SumsUpIn(h, f, Upto(n))}
<1>1. \A s \in SUBSET S : IsFiniteSet(s) /\ Cardinality(s) \in Nat
  BY FS_Subset, FS_CardinalityType
<1>2. 0 \in N
  <2>1. \A s \in Upto(0) : s = {}
    BY <1>1, FS_EmptySet
  <2>2. SumsUpIn([s \in SUBSET S |-> 0], f, Upto(0))
    BY <2>1 DEF SumsUpIn
  <2> QED
    BY <2>2
<1>3. ASSUME NEW n \in Nat, n \in N PROVE n + 1 \in N
  <2>1. PICK h : SumsUpIn(h, f, Upto(n))
    BY <1>3
  <2> DEFINE k == [s \in SUBSET S |->
                     IF s = {} THEN 0
                     ELSE LET x == CHOOSE x \in s : TRUE IN f[x] + h[s \ {x}]]
  <2>2. \A s \in Upto(n) : k[s] = h[s]
    BY <2>1 DEF SumsUpIn
  <2>3. \A s \in Upto(n + 1) : s # {} => s \ {CHOOSE x \in s : TRUE} \in Upto(n)
    <3> SUFFICES ASSUME NEW s \in Upto(n + 1), s # {}
                 PROVE  s \ {CHOOSE x \in s : TRUE} \in Upto(n)
      OBVIOUS
    <3>1. (CHOOSE x \in s : TRUE) \in s
      OBVIOUS
    <3>2. Cardinality(s \ {CHOOSE x \in s : TRUE}) = Cardinality(s) - 1
      BY <1>1, <3>1, FS_RemoveElement
    <3> QED
      BY <1>1, <3>2
  <2>4. SumsUpIn(k, f, Upto(n + 1))
    <3> HIDE DEF Upto
    <3>1. Upto(n + 1) \subseteq SUBSET S
      BY DEF Upto
    <3>2. ASSUME NEW s \in Upto(n + 1), s # {}
          PROVE  LET x == CHOOSE x \in s : TRUE IN k[s] = f[x] + k[s \ {x}]
      <4> DEFINE x == CHOOSE x \in s : TRUE
      <4>1. k[s] = f[x] + h[s \ {x}]
        BY <3>1, <3>2
      <4>2. k[s \ {x}] = h[s \ {x}]
        BY <2>2, <2>3, <3>2
      <4> HIDE DEF k
      <4> QED
        BY <4>1, <4>2
    <3>3. k[{}] = 0
      OBVIOUS
    <3> HIDE DEF k
    <3> QED
      BY <3>2, <3>3 DEF SumsUpIn
  <2>5. \E g : SumsUpIn(g, f, Upto(n + 1))
    <3> HIDE DEF k, Upto
    <3> QED
      BY <2>4
  <2> HIDE DEF Upto
  <2> QED
    BY <2>5
<1>4. Cardinality(S) \in N
  <2> HIDE DEF N
  <2> QED
    BY <1>1, <1>2, <1>3, NumberInduction
<1>5. Upto(Cardinality(S)) = SUBSET S
  BY <1>1, FS_Subset
<1>6. PICK h : SumsUpIn(h, f, SUBSET S)
  BY <1>4, <1>5
<1> DEFINE k == [s \in SUBSET S |-> h[s]]
<1>7. SumsUp(k, f, S)
  <2>1. \A s \in SUBSET S : k[s] = h[s]
    OBVIOUS
  <2>2. ASSUME NEW s \in SUBSET S
        PROVE  k[s] = IF s = {} THEN 0
                      ELSE LET x == CHOOSE x \in s : TRUE IN f[x] + k[s \ {x}]
    <3>1. \A x : s \ {x} \in SUBSET S
      OBVIOUS
    <3> HIDE DEF k
    <3> QED
      BY <1>6, <2>1, <3>1 DEF SumsUpIn
  <2>3. k = [s \in SUBSET S |-> k[s]]
    OBVIOUS
  <2> HIDE DEF k
  <2> QED
    BY <2>2, <2>3 DEF SumsUp
<1> QED
  BY <1>7

\* The recursion computes one function: two that it describes agree wherever both
\* are defined.
LEMMA SumsUpAgree ==
  ASSUME NEW f, NEW S, IsFiniteSet(S), NEW T \in SUBSET S, NEW h, NEW k,
         SumsUp(h, f, S), SumsUp(k, f, T)
  PROVE  \A s \in SUBSET T : h[s] = k[s]
<1> DEFINE N == {n \in Nat : \A s \in SUBSET T : Cardinality(s) = n => h[s] = k[s]}
<1>1. \A s \in SUBSET T : IsFiniteSet(s) /\ Cardinality(s) \in Nat
  BY FS_Subset, FS_CardinalityType
<1>2. \A s \in SUBSET T : s # {} => LET x == CHOOSE x \in s : TRUE
                                   IN /\ h[s] = f[x] + h[s \ {x}]
                                      /\ k[s] = f[x] + k[s \ {x}]
  BY DEF SumsUp
<1>3. h[{}] = 0 /\ k[{}] = 0
  BY DEF SumsUp
<1>4. 0 \in N
  BY <1>1, <1>3, FS_EmptySet
<1>5. ASSUME NEW n \in Nat, n \in N PROVE n + 1 \in N
  <2> SUFFICES ASSUME NEW s \in SUBSET T, Cardinality(s) = n + 1 PROVE h[s] = k[s]
    OBVIOUS
  <2> DEFINE x == CHOOSE x \in s : TRUE
  <2>1. s # {}
    BY <1>1, FS_EmptySet
  <2>2. x \in s
    BY <2>1
  <2>3. Cardinality(s \ {x}) = n /\ s \ {x} \in SUBSET T
    <3>1. Cardinality(s \ {x}) = Cardinality(s) - 1
      BY <1>1, <2>2, FS_RemoveElement
    <3> QED
      BY <3>1
  <2>4. h[s \ {x}] = k[s \ {x}]
    BY <1>5, <2>3
  <2> QED
    BY <1>2, <2>1, <2>4
<1>6. \A n \in Nat : n \in N
  <2> HIDE DEF N
  <2> QED
    BY <1>4, <1>5, NumberInduction
<1> QED
  BY <1>1, <1>6

--------------------------------------------------------------------------------
(* Sums                                                                        *)

LEMMA SumIsSumsUp ==
  ASSUME NEW f, NEW S, IsFiniteSet(S)
  PROVE  \E h : SumsUp(h, f, S) /\ SumFunctionOnSet(f, S) = h[S]
<1> DEFINE h == CHOOSE h : SumsUp(h, f, S)
<1>1. SumsUp(h, f, S)
  BY SumsUpExists
<1>2. SumFunctionOnSet(f, S) = h[S]
  BY DEF SumsUp, SumFunctionOnSet, FoldFunctionOnSet, MapThenFoldSet
<1> QED
  BY <1>1, <1>2

LEMMA SumOfEmpty ==
  ASSUME NEW f
  PROVE  SumFunctionOnSet(f, {}) = 0
<1>1. PICK h : SumsUp(h, f, {}) /\ SumFunctionOnSet(f, {}) = h[{}]
  BY SumIsSumsUp, FS_EmptySet
<1> QED
  BY <1>1 DEF SumsUp

LEMMA SumStep ==
  ASSUME NEW f, NEW S, IsFiniteSet(S), S # {}
  PROVE  \E x \in S : SumFunctionOnSet(f, S) = f[x] + SumFunctionOnSet(f, S \ {x})
<1> DEFINE x == CHOOSE x \in S : TRUE
<1>1. PICK h : SumsUp(h, f, S) /\ SumFunctionOnSet(f, S) = h[S]
  BY SumIsSumsUp
<1>2. x \in S
  OBVIOUS
<1>3. h[S] = f[x] + h[S \ {x}]
  BY <1>1 DEF SumsUp
<1>4. IsFiniteSet(S \ {x})
  BY FS_Subset
<1>5. PICK k : SumsUp(k, f, S \ {x}) /\ SumFunctionOnSet(f, S \ {x}) = k[S \ {x}]
  BY <1>4, SumIsSumsUp
<1>6. h[S \ {x}] = k[S \ {x}]
  <2> HIDE DEF x
  <2>1. S \ {x} \in SUBSET S
    OBVIOUS
  <2> QED
    BY <1>1, <1>5, <2>1, SumsUpAgree
<1> QED
  BY <1>1, <1>2, <1>3, <1>5, <1>6

LEMMA SumIsNatural ==
  ASSUME NEW S, IsFiniteSet(S), NEW f, \A x \in S : f[x] \in Nat
  PROVE  SumFunctionOnSet(f, S) \in Nat
<1> DEFINE N == {n \in Nat : \A T \in SUBSET S :
                   Cardinality(T) = n => SumFunctionOnSet(f, T) \in Nat}
<1>1. \A T \in SUBSET S : IsFiniteSet(T) /\ Cardinality(T) \in Nat
  BY FS_Subset, FS_CardinalityType
<1>2. 0 \in N
  BY <1>1, FS_EmptySet, SumOfEmpty
<1>3. ASSUME NEW n \in Nat, n \in N PROVE n + 1 \in N
  <2> SUFFICES ASSUME NEW T \in SUBSET S, Cardinality(T) = n + 1
               PROVE  SumFunctionOnSet(f, T) \in Nat
    OBVIOUS
  <2>1. T # {}
    BY <1>1, FS_EmptySet
  <2>2. PICK x \in T : SumFunctionOnSet(f, T) = f[x] + SumFunctionOnSet(f, T \ {x})
    BY <1>1, <2>1, SumStep
  <2>3. Cardinality(T \ {x}) = Cardinality(T) - 1
    BY <1>1, <2>2, FS_RemoveElement
  <2>4. SumFunctionOnSet(f, T \ {x}) \in Nat
    BY <1>3, <2>3
  <2> QED
    BY <2>2, <2>4
<1>4. \A n \in Nat : n \in N
  <2> HIDE DEF N
  <2> QED
    BY <1>2, <1>3, NumberInduction
<1> QED
  BY <1>1, <1>4

\* In whatever order: each element can be taken out first.
LEMMA SumWithout ==
  ASSUME NEW S, IsFiniteSet(S), NEW f, \A x \in S : f[x] \in Nat, NEW x \in S
  PROVE  SumFunctionOnSet(f, S) = f[x] + SumFunctionOnSet(f, S \ {x})
<1> DEFINE N == {n \in Nat : \A T \in SUBSET S : Cardinality(T) = n =>
                   \A y \in T : SumFunctionOnSet(f, T) = f[y] + SumFunctionOnSet(f, T \ {y})}
<1>1. \A T \in SUBSET S : /\ IsFiniteSet(T) /\ Cardinality(T) \in Nat
                         /\ SumFunctionOnSet(f, T) \in Nat
  BY FS_Subset, FS_CardinalityType, SumIsNatural
<1>2. 0 \in N
  BY <1>1, FS_EmptySet
<1>3. ASSUME NEW n \in Nat, n \in N PROVE n + 1 \in N
  <2> SUFFICES ASSUME NEW T \in SUBSET S, Cardinality(T) = n + 1, NEW y \in T
               PROVE  SumFunctionOnSet(f, T) = f[y] + SumFunctionOnSet(f, T \ {y})
    OBVIOUS
  <2>1. PICK z \in T : SumFunctionOnSet(f, T) = f[z] + SumFunctionOnSet(f, T \ {z})
    BY <1>1, SumStep
  <2>2. CASE z = y
    BY <2>1, <2>2
  <2>3. CASE z # y
    <3>1. Cardinality(T \ {z}) = n /\ Cardinality(T \ {y}) = n
      <4>1. /\ Cardinality(T \ {z}) = Cardinality(T) - 1
            /\ Cardinality(T \ {y}) = Cardinality(T) - 1
        BY <1>1, FS_RemoveElement
      <4> QED
        BY <4>1
    <3>2. /\ T \ {z} \in SUBSET S /\ T \ {y} \in SUBSET S
          /\ y \in T \ {z} /\ z \in T \ {y}
      BY <2>3
    <3>3. /\ SumFunctionOnSet(f, T \ {z}) = f[y] + SumFunctionOnSet(f, (T \ {z}) \ {y})
          /\ SumFunctionOnSet(f, T \ {y}) = f[z] + SumFunctionOnSet(f, (T \ {y}) \ {z})
      BY <1>3, <3>1, <3>2
    <3>4. (T \ {z}) \ {y} = (T \ {y}) \ {z} /\ (T \ {z}) \ {y} \in SUBSET S
      OBVIOUS
    <3>5. SumFunctionOnSet(f, (T \ {z}) \ {y}) \in Nat /\ f[y] \in Nat /\ f[z] \in Nat
      BY <1>1, <3>4
    <3>6. SumFunctionOnSet(f, (T \ {z}) \ {y}) = SumFunctionOnSet(f, (T \ {y}) \ {z})
      BY <3>4
    <3> QED
      BY <2>1, <3>3, <3>5, <3>6
  <2> QED
    BY <2>2, <2>3
<1>4. Cardinality(S) \in N
  <2> HIDE DEF N
  <2> QED
    BY <1>1, <1>2, <1>3, NumberInduction
<1> QED
  BY <1>4

LEMMA SumWith ==
  ASSUME NEW S, IsFiniteSet(S), NEW f, NEW x, x \notin S,
         \A y \in S \cup {x} : f[y] \in Nat
  PROVE  SumFunctionOnSet(f, S \cup {x}) = f[x] + SumFunctionOnSet(f, S)
<1>1. IsFiniteSet(S \cup {x}) /\ (S \cup {x}) \ {x} = S
  BY FS_AddElement
<1>2. SumFunctionOnSet(f, S \cup {x}) = f[x] + SumFunctionOnSet(f, (S \cup {x}) \ {x})
  <2> DEFINE T == S \cup {x}
  <2> HIDE DEF T
  <2>1. IsFiniteSet(T) /\ x \in T /\ \A y \in T : f[y] \in Nat
    BY <1>1 DEF T
  <2>2. SumFunctionOnSet(f, T) = f[x] + SumFunctionOnSet(f, T \ {x})
    BY <2>1, SumWithout
  <2> QED
    BY <2>2 DEF T
<1> QED
  BY <1>1, <1>2

--------------------------------------------------------------------------------
(* Comparing sums                                                              *)

LEMMA SumIsMonotone ==
  ASSUME NEW S, IsFiniteSet(S), NEW f, NEW g,
         \A x \in S : f[x] \in Nat /\ g[x] \in Nat /\ f[x] <= g[x]
  PROVE  SumFunctionOnSet(f, S) <= SumFunctionOnSet(g, S)
<1> DEFINE P == {T \in SUBSET S : SumFunctionOnSet(f, T) <= SumFunctionOnSet(g, T)}
<1>1. {} \in P
  BY SumOfEmpty
<1>2. ASSUME NEW T \in SUBSET S, NEW x \in S \ T, T \in P PROVE T \cup {x} \in P
  <2>1. IsFiniteSet(T) /\ \A y \in T \cup {x} : f[y] \in Nat /\ g[y] \in Nat
    BY FS_Subset
  <2>2. /\ SumFunctionOnSet(f, T \cup {x}) = f[x] + SumFunctionOnSet(f, T)
        /\ SumFunctionOnSet(g, T \cup {x}) = g[x] + SumFunctionOnSet(g, T)
    BY <2>1, SumWith
  <2>3. SumFunctionOnSet(f, T) \in Nat /\ SumFunctionOnSet(g, T) \in Nat
    BY <2>1, SumIsNatural
  <2>4. f[x] <= g[x] /\ SumFunctionOnSet(f, T) <= SumFunctionOnSet(g, T)
    BY <1>2
  <2>5. f[x] \in Nat /\ g[x] \in Nat
    OBVIOUS
  <2> QED
    BY <2>2, <2>3, <2>4, <2>5
<1>3. \A T \in SUBSET S : T \in P
  <2> HIDE DEF P
  <2> QED
    BY <1>1, <1>2, SubsetInduction
<1> QED
  BY <1>3

LEMMA SumOfTwoSets ==
  ASSUME NEW S, IsFiniteSet(S), NEW f, \A x \in S : f[x] \in Nat,
         NEW A \in SUBSET S, NEW B \in SUBSET S, A \cap B = {}
  PROVE  SumFunctionOnSet(f, A \cup B) = SumFunctionOnSet(f, A) + SumFunctionOnSet(f, B)
<1> DEFINE P == {T \in SUBSET B : SumFunctionOnSet(f, A \cup T)
                                 = SumFunctionOnSet(f, A) + SumFunctionOnSet(f, T)}
<1>1. {} \in P
  <2>1. SumFunctionOnSet(f, A) \in Nat
    BY FS_Subset, SumIsNatural
  <2>2. A \cup {} = A
    OBVIOUS
  <2> QED
    BY <2>1, <2>2, SumOfEmpty
<1>2. ASSUME NEW T \in SUBSET B, NEW x \in B \ T, T \in P PROVE T \cup {x} \in P
  <2>1. /\ IsFiniteSet(T) /\ IsFiniteSet(A) /\ IsFiniteSet(A \cup T)
        /\ x \notin T /\ x \notin A \cup T
    BY FS_Subset
  <2>2. /\ SumFunctionOnSet(f, T \cup {x}) = f[x] + SumFunctionOnSet(f, T)
        /\ SumFunctionOnSet(f, (A \cup T) \cup {x}) = f[x] + SumFunctionOnSet(f, A \cup T)
    BY <2>1, SumWith
  <2>3. /\ SumFunctionOnSet(f, A) \in Nat /\ SumFunctionOnSet(f, T) \in Nat
        /\ f[x] \in Nat
    BY <2>1, SumIsNatural
  <2>4. SumFunctionOnSet(f, A \cup (T \cup {x})) = SumFunctionOnSet(f, (A \cup T) \cup {x})
    <3>1. A \cup (T \cup {x}) = (A \cup T) \cup {x}
      OBVIOUS
    <3> QED
      BY <3>1, Zenon
  <2>5. SumFunctionOnSet(f, A \cup T) = SumFunctionOnSet(f, A) + SumFunctionOnSet(f, T)
    BY <1>2
  <2>6. SumFunctionOnSet(f, A \cup (T \cup {x}))
        = SumFunctionOnSet(f, A) + SumFunctionOnSet(f, T \cup {x})
    BY <2>2, <2>3, <2>4, <2>5
  <2> QED
    BY <2>6
<1>3. B \in P
  <2> HIDE DEF P
  <2>1. IsFiniteSet(B)
    BY FS_Subset
  <2>2. \A T \in SUBSET B : T \in P
    BY <1>1, <1>2, <2>1, SubsetInduction
  <2> QED
    BY <2>2
<1> QED
  BY <1>3

\* A part of a sum is not above it.
LEMMA SumOfFewer ==
  ASSUME NEW S, IsFiniteSet(S), NEW f, \A x \in S : f[x] \in Nat, NEW T \in SUBSET S
  PROVE  SumFunctionOnSet(f, T) <= SumFunctionOnSet(f, S)
<1>1. SumFunctionOnSet(f, T \cup (S \ T))
      = SumFunctionOnSet(f, T) + SumFunctionOnSet(f, S \ T)
  <2>1. S \ T \in SUBSET S /\ T \cap (S \ T) = {}
    OBVIOUS
  <2> QED
    BY <2>1, SumOfTwoSets
<1>2. T \cup (S \ T) = S
  OBVIOUS
<1>3. SumFunctionOnSet(f, T) \in Nat /\ SumFunctionOnSet(f, S \ T) \in Nat
  BY FS_Subset, SumIsNatural
<1>4. SumFunctionOnSet(f, S) = SumFunctionOnSet(f, T) + SumFunctionOnSet(f, S \ T)
  BY <1>1, <1>2, Zenon
<1> QED
  BY <1>3, <1>4

LEMMA SumAtMost ==
  ASSUME NEW S, IsFiniteSet(S), NEW c \in Nat, NEW f,
         \A x \in S : f[x] \in Nat /\ f[x] <= c
  PROVE  SumFunctionOnSet(f, S) <= Cardinality(S) * c
<1> DEFINE P == {T \in SUBSET S : SumFunctionOnSet(f, T) <= Cardinality(T) * c}
<1>1. {} \in P
  <2>1. Cardinality({}) * c = 0
    BY FS_EmptySet
  <2> QED
    BY <2>1, SumOfEmpty
<1>2. ASSUME NEW T \in SUBSET S, NEW x \in S \ T, T \in P PROVE T \cup {x} \in P
  <2>1. IsFiniteSet(T) /\ Cardinality(T) \in Nat /\ SumFunctionOnSet(f, T) \in Nat
    BY FS_Subset, FS_CardinalityType, SumIsNatural
  <2>2. SumFunctionOnSet(f, T \cup {x}) = f[x] + SumFunctionOnSet(f, T)
    BY <2>1, SumWith
  <2>3. Cardinality(T \cup {x}) = Cardinality(T) + 1
    BY <2>1, FS_AddElement
  <2>4. (Cardinality(T) + 1) * c = Cardinality(T) * c + c
    BY <2>1
  <2>5. f[x] \in Nat /\ f[x] <= c /\ SumFunctionOnSet(f, T) <= Cardinality(T) * c
    BY <1>2
  <2>6. Cardinality(T) * c \in Nat
    BY <2>1
  <2>7. SumFunctionOnSet(f, T \cup {x}) <= Cardinality(T \cup {x}) * c
    BY <2>1, <2>2, <2>3, <2>4, <2>5, <2>6
  <2> QED
    BY <2>7
<1>3. \A T \in SUBSET S : T \in P
  <2> HIDE DEF P
  <2> QED
    BY <1>1, <1>2, SubsetInduction
<1> QED
  BY <1>3

\* Each of the numbers rounded down by itself: together they lose no more than one
\* of two for each of them.
LEMMA SumOfHalves ==
  ASSUME NEW S, IsFiniteSet(S), NEW f, NEW h,
         \A x \in S : f[x] \in Nat /\ h[x] = f[x] \div 2
  PROVE  SumFunctionOnSet(f, S) <= 2 * SumFunctionOnSet(h, S) + Cardinality(S)
<1> DEFINE P == {T \in SUBSET S : SumFunctionOnSet(f, T)
                                 <= 2 * SumFunctionOnSet(h, T) + Cardinality(T)}
<1>1. {} \in P
  <2>1. Cardinality({}) = 0
    BY FS_EmptySet
  <2> QED
    BY <2>1, SumOfEmpty
<1>2. ASSUME NEW T \in SUBSET S, NEW x \in S \ T, T \in P PROVE T \cup {x} \in P
  <2>1. \A y \in S : f[y] \in Nat /\ h[y] \in Nat
    OBVIOUS
  <2>2. /\ IsFiniteSet(T) /\ Cardinality(T) \in Nat
        /\ SumFunctionOnSet(f, T) \in Nat /\ SumFunctionOnSet(h, T) \in Nat
    BY <2>1, FS_Subset, FS_CardinalityType, SumIsNatural
  <2>3. /\ SumFunctionOnSet(f, T \cup {x}) = f[x] + SumFunctionOnSet(f, T)
        /\ SumFunctionOnSet(h, T \cup {x}) = h[x] + SumFunctionOnSet(h, T)
    BY <2>1, <2>2, SumWith
  <2>4. Cardinality(T \cup {x}) = Cardinality(T) + 1
    BY <2>2, FS_AddElement
  <2>5. f[x] \in Nat /\ h[x] \in Nat /\ f[x] <= 2 * h[x] + 1
    OBVIOUS
  <2>6. SumFunctionOnSet(f, T) <= 2 * SumFunctionOnSet(h, T) + Cardinality(T)
    BY <1>2
  <2>7. SumFunctionOnSet(f, T \cup {x})
        <= 2 * SumFunctionOnSet(h, T \cup {x}) + Cardinality(T \cup {x})
    BY <2>2, <2>3, <2>4, <2>5, <2>6
  <2> QED
    BY <2>7
<1>3. \A T \in SUBSET S : T \in P
  <2> HIDE DEF P
  <2> QED
    BY <1>1, <1>2, SubsetInduction
<1> QED
  BY <1>3

\* Every i has an owner that is worth at least t[i], and no owner has more than
\* w of them: the owners, each counted w times, are worth at least all the t.
LEMMA SumByOwner ==
  ASSUME NEW I, IsFiniteSet(I), NEW N, IsFiniteSet(N), NEW owner \in [I -> N],
         NEW t, NEW v, NEW w, NEW p,
         \A i \in I : t[i] \in Nat /\ t[i] <= v[owner[i]],
         \A n \in N : /\ v[n] \in Nat /\ w[n] \in Nat /\ p[n] = v[n] * w[n]
                     /\ Cardinality({i \in I : owner[i] = n}) <= w[n]
  PROVE  SumFunctionOnSet(t, I) <= SumFunctionOnSet(p, N)
<1> DEFINE Of(M) == {i \in I : owner[i] \in M}
           P == {M \in SUBSET N : SumFunctionOnSet(t, Of(M)) <= SumFunctionOnSet(p, M)}
<1>1. \A n \in N : p[n] \in Nat
  <2>1. \A a, b \in Nat : a * b \in Nat
    OBVIOUS
  <2> QED
    BY <2>1
<1>2. {} \in P
  <2>1. Of({}) = {}
    OBVIOUS
  <2>2. SumFunctionOnSet(t, Of({})) <= SumFunctionOnSet(p, {})
    <3> HIDE DEF Of
    <3> QED
      BY <2>1, SumOfEmpty
  <2> QED
    BY <2>2
<1>3. ASSUME NEW M \in SUBSET N, NEW n \in N \ M, M \in P PROVE M \cup {n} \in P
  <2> DEFINE own == {i \in I : owner[i] = n}
  <2>1. /\ IsFiniteSet(M) /\ IsFiniteSet(own) /\ IsFiniteSet(Of(M))
        /\ Cardinality(own) \in Nat
    BY FS_Subset, FS_CardinalityType
  <2>2. SumFunctionOnSet(p, M \cup {n}) = p[n] + SumFunctionOnSet(p, M)
    BY <1>1, <2>1, SumWith
  <2>3. SumFunctionOnSet(t, Of(M) \cup own)
        = SumFunctionOnSet(t, Of(M)) + SumFunctionOnSet(t, own)
    <3>1. Of(M) \in SUBSET I /\ own \in SUBSET I /\ Of(M) \cap own = {}
      OBVIOUS
    <3> HIDE DEF Of, own
    <3> QED
      BY <3>1, SumOfTwoSets
  <2>4. SumFunctionOnSet(t, Of(M \cup {n})) = SumFunctionOnSet(t, Of(M) \cup own)
    <3>1. Of(M \cup {n}) = Of(M) \cup own
      OBVIOUS
    <3> HIDE DEF Of, own
    <3> QED
      BY <3>1, Zenon
  <2>5. SumFunctionOnSet(t, own) <= Cardinality(own) * v[n]
    <3>1. v[n] \in Nat /\ \A i \in own : t[i] \in Nat /\ t[i] <= v[n]
      OBVIOUS
    <3> HIDE DEF own
    <3> QED
      BY <2>1, <3>1, SumAtMost
  <2>6. Cardinality(own) * v[n] <= p[n] /\ Cardinality(own) * v[n] \in Nat
    <3>1. ASSUME NEW a \in Nat, NEW b \in Nat, NEW c \in Nat, a <= b
          PROVE  a * c <= c * b /\ a * c \in Nat
      <4>1. (b - a) * c >= 0
        BY <3>1, SMT
      <4>2. (b - a) * c = b * c - a * c /\ b * c = c * b
        BY SMT
      <4> QED
        BY <4>1, <4>2
    <3>2. /\ Cardinality(own) <= w[n] /\ w[n] \in Nat /\ v[n] \in Nat
          /\ p[n] = v[n] * w[n]
      OBVIOUS
    <3> HIDE DEF own
    <3> QED
      BY <2>1, <3>1, <3>2
  <2>7. /\ SumFunctionOnSet(t, Of(M)) \in Nat /\ SumFunctionOnSet(t, own) \in Nat
        /\ SumFunctionOnSet(p, M) \in Nat /\ p[n] \in Nat
    <3>1. \A i \in Of(M) \cup own : t[i] \in Nat
      OBVIOUS
    <3> HIDE DEF Of, own
    <3> QED
      BY <1>1, <2>1, <3>1, SumIsNatural
  <2>8. SumFunctionOnSet(t, Of(M)) <= SumFunctionOnSet(p, M)
    BY <1>3
  <2>9. SumFunctionOnSet(t, Of(M \cup {n})) <= SumFunctionOnSet(p, M \cup {n})
    <3> HIDE DEF Of, own
    <3>1. SumFunctionOnSet(t, own) <= p[n]
      <4> DEFINE product == Cardinality(own) * v[n]
      <4> HIDE DEF product
      <4>1. product \in Nat /\ product <= p[n] /\ SumFunctionOnSet(t, own) <= product
        BY <2>5, <2>6 DEF product
      <4> QED
        BY <2>7, <4>1
    <3> QED
      BY <2>2, <2>3, <2>4, <2>7, <2>8, <3>1
  <2> QED
    BY <2>9
<1>4. \A M \in SUBSET N : M \in P
  <2> HIDE DEF P
  <2> QED
    BY <1>2, <1>3, SubsetInduction
<1>5. Of(N) = I
  OBVIOUS
<1> QED
  BY <1>4, <1>5

--------------------------------------------------------------------------------
(* Powers of two                                                               *)

\* 2^k is the number of the subsets of 1..k: those of 1..k + 1 are these, and these
\* with k + 1.
LEMMA PowersDouble ==
  /\ 2^0 = 1
  /\ \A k \in Nat : 2^k \in Nat \ {0} /\ 2^(k + 1) = 2 * 2^k
<1> DEFINE F(k) == SUBSET (1..k)
<1>1. ASSUME NEW k \in Nat
      PROVE  IsFiniteSet(F(k)) /\ Cardinality(F(k)) = 2^k
  <2>1. IsFiniteSet(1..k) /\ Cardinality(1..k) = k
    BY FS_Interval
  <2> QED
    BY <2>1, FS_SUBSET
<1>2. \A k \in Nat : 2^k \in Nat \ {0}
  <2> SUFFICES ASSUME NEW k \in Nat PROVE 2^k \in Nat \ {0}
    OBVIOUS
  <2>1. F(k) # {}
    OBVIOUS
  <2>2. Cardinality(F(k)) \in Nat /\ Cardinality(F(k)) # 0
    BY <1>1, <2>1, FS_CardinalityType, FS_EmptySet
  <2> QED
    BY <1>1, <2>2
<1>3. 2^0 = 1
  <2>1. F(0) = {{}}
    OBVIOUS
  <2>2. Cardinality({{}}) = 1
    BY FS_Singleton
  <2> QED
    BY <1>1, <2>1, <2>2
<1>4. ASSUME NEW k \in Nat PROVE 2^(k + 1) = 2 * 2^k
  <2> DEFINE G == {T \cup {k + 1} : T \in F(k)}
             f == [T \in F(k) |-> T \cup {k + 1}]
  <2>1. F(k + 1) = F(k) \cup G
    <3>1. 1..k + 1 = (1..k) \cup {k + 1}
      OBVIOUS
    <3>2. ASSUME NEW T \in F(k + 1), T \notin F(k) PROVE T \in G
      <4>1. k + 1 \in T /\ T \ {k + 1} \in F(k)
        BY <3>1, <3>2
      <4>2. T = (T \ {k + 1}) \cup {k + 1}
        BY <4>1
      <4> QED
        BY <4>1, <4>2
    <3>3. F(k) \cup G \subseteq F(k + 1)
      BY <3>1
    <3> QED
      BY <3>2, <3>3
  <2>2. F(k) \cap G = {}
    <3>1. k + 1 \notin 1..k
      OBVIOUS
    <3> QED
      BY <3>1
  <2>3. f \in Bijection(F(k), G)
    <3>1. f \in [F(k) -> G]
      OBVIOUS
    <3>2. ASSUME NEW T \in F(k), NEW U \in F(k), f[T] = f[U] PROVE T = U
      <4>1. k + 1 \notin T /\ k + 1 \notin U
        <5>1. k + 1 \notin 1..k
          OBVIOUS
        <5> QED
          BY <5>1
      <4>2. T \cup {k + 1} = U \cup {k + 1}
        BY <3>2
      <4> QED
        BY <4>1, <4>2
    <3>3. \A U \in G : \E T \in F(k) : f[T] = U
      OBVIOUS
    <3> HIDE DEF F, G, f
    <3> QED
      BY <3>1, <3>2, <3>3 DEF Bijection, Injection, Surjection, IsInjective
  <2>4. IsFiniteSet(G) /\ Cardinality(G) = Cardinality(F(k))
    BY <1>1, <2>3, FS_Bijection DEF ExistsBijection
  <2>5. Cardinality(F(k + 1)) = Cardinality(F(k)) + Cardinality(G) - Cardinality(F(k) \cap G)
    BY <1>1, <2>1, <2>4, FS_Union
  <2>6. Cardinality(F(k) \cap G) = 0
    BY <2>2, FS_EmptySet
  <2>7. Cardinality(F(k + 1)) = 2^(k + 1) /\ Cardinality(F(k)) = 2^k /\ 2^k \in Nat
    BY <1>1, <1>2
  <2> HIDE DEF F, G
  <2> QED
    BY <2>4, <2>5, <2>6, <2>7
<1> QED
  BY <1>2, <1>3, <1>4

LEMMA PowersMultiply ==
  ASSUME NEW j \in Nat
  PROVE  \A k \in Nat : 2^(j + k) = 2^j * 2^k
<1> DEFINE N == {k \in Nat : 2^(j + k) = 2^j * 2^k}
<1>1. 0 \in N
  <2>1. j + 0 = j /\ 2^j * 1 = 2^j
    BY PowersDouble
  <2> QED
    BY <2>1, PowersDouble
<1>2. ASSUME NEW k \in Nat, k \in N PROVE k + 1 \in N
  <2>1. /\ 2^j \in Nat /\ 2^k \in Nat /\ 2^(j + k) \in Nat
        /\ 2^(k + 1) = 2 * 2^k /\ 2^((j + k) + 1) = 2 * 2^(j + k)
    BY PowersDouble
  <2>2. 2^(j + k) = 2^j * 2^k
    BY <1>2
  <2>3. \A a, b, c \in Nat : c = a * b => 2 * c = a * (2 * b)
    OBVIOUS
  <2>4. 2^((j + k) + 1) = 2^j * 2^(k + 1)
    BY <2>1, <2>2, <2>3
  <2>5. (j + k) + 1 = j + (k + 1)
    OBVIOUS
  <2> QED
    BY <2>4, <2>5
<1> HIDE DEF N
<1>3. \A k \in Nat : k \in N
  BY <1>1, <1>2, NumberInduction
<1> QED
  BY <1>3 DEF N

\* The multiple of w at or below i, and that it is the only one less than w below.
LEMMA MultipleBelow ==
  ASSUME NEW i \in Nat, NEW w \in Nat \ {0}
  PROVE  /\ i - (i % w) \in Nat /\ i - (i % w) <= i /\ i < (i - (i % w)) + w
         /\ (i - (i % w)) % w = 0
         /\ \A s \in Nat : (s % w = 0 /\ s <= i /\ i < s + w) => s = i - (i % w)
<1> DEFINE q == i \div w
           r == i % w
<1>1. /\ r \in 0..w - 1 /\ q \in Nat
      /\ i = (w * q) + r
  OBVIOUS
<1>2. \A p \in Nat : (w * p) % w = 0 /\ w * p \in Nat
  OBVIOUS
<1>3. ASSUME NEW s \in Nat, s % w = 0, s <= i, i < s + w
      PROVE  s = w * q
  <2> DEFINE p == s \div w
  <2>1. p \in Nat /\ s = w * p
    BY <1>3
  <2> HIDE DEF p, q, r
  <2>2. CASE p < q
    <3>1. (w * p) + w <= w * q
      BY <1>1, <2>1, <2>2
    <3> QED
      BY <1>1, <1>2, <1>3, <2>1, <3>1
  <2>3. CASE q < p
    <3>1. (w * q) + w <= w * p
      BY <1>1, <2>1, <2>3
    <3> QED
      BY <1>1, <1>2, <1>3, <2>1, <3>1
  <2> QED
    BY <1>1, <2>1, <2>2, <2>3
<1> HIDE DEF q
<1>4. i - r = w * q /\ w * q \in Nat
  <2> HIDE DEF r
  <2> QED
    BY <1>1, <1>2
<1>5. /\ i - r \in Nat /\ i - r <= i /\ i < (i - r) + w
      /\ (i - r) % w = 0
  <2> HIDE DEF r
  <2> QED
    BY <1>1, <1>2, <1>4
<1> QED
  BY <1>3, <1>4, <1>5
=============================================================================
