--------------------------- MODULE FiniteInduction ---------------------------
(***************************************************************************)
(* Lemmas that the proofs of several components rest on.  The library's    *)
(* induction theorems have operators for parameters; here the claim is a   *)
(* set, of the numbers or of the finite sets for which it holds, and the   *)
(* sums of the community modules are taken apart with it.                  *)
(***************************************************************************)
EXTENDS Integers, FiniteSets, Functions, FiniteSetTheorems, WellFoundedInduction, TLAPS

-----------------------------------------------------------------------------
(* Induction.                                                              *)

\* A set of numbers that is not empty has a least one.
LEMMA LeastNumber ==
  ASSUME NEW S, S \subseteq Nat, S # {}
  PROVE  \E n \in S : \A i \in S : n <= i
  <1>1. PICK n \in S : \A i \in S : ~(<<i, n>> \in OpToRel(<, Nat))
    BY NatLessThanWellFounded, WFMin
  <1>2. ASSUME NEW i \in S PROVE n <= i
    <2>1. i \in Nat /\ n \in Nat
      OBVIOUS
    <2>2. i < n => <<i, n>> \in OpToRel(<, Nat)
      BY <2>1 DEF OpToRel
    <2>3. ~(<<i, n>> \in OpToRel(<, Nat))
      BY <1>1
    <2>4. ~(i < n)
      BY <2>2, <2>3
    <2> QED
      BY <2>1, <2>4
  <1> QED
    BY <1>1, <1>2

\* Of finite sets, if there are any, one is as small as can be.
LEMMA SmallestSet ==
  ASSUME NEW S, IsFiniteSet(S), NEW B, B \subseteq SUBSET S, B # {}
  PROVE  \E T \in B : \A x \in T : T \ {x} \notin B
  <1> DEFINE Sizes == {Cardinality(T) : T \in B}
  <1>1. ASSUME NEW T \in SUBSET S PROVE IsFiniteSet(T) /\ Cardinality(T) \in Nat
    BY FS_Subset, FS_CardinalityType
  <1>2. Sizes \subseteq Nat /\ Sizes # {}
    BY <1>1
  <1>3. PICK size \in Sizes : \A i \in Sizes : size <= i
    <2> HIDE DEF Sizes
    <2> QED
      BY <1>2, LeastNumber
  <1>4. PICK T \in B : size = Cardinality(T)
    BY <1>3
  <1>5. ASSUME NEW x \in T, T \ {x} \in B PROVE FALSE
    <2>1. Cardinality(T \ {x}) = Cardinality(T) - 1 /\ Cardinality(T) \in Nat
      BY <1>1, FS_RemoveElement
    <2>2. Cardinality(T) <= Cardinality(T \ {x})
      BY <1>3, <1>4, <1>5
    <2> QED
      BY <2>1, <2>2
  <1> QED
    BY <1>4, <1>5

\* What holds for the empty set, and for T with one more element whenever it
\* holds for T, holds for a finite set.
LEMMA SetInduction ==
  ASSUME NEW S, IsFiniteSet(S), NEW F, {} \in F,
         \A T \in SUBSET S : \A x \in S \ T : T \in F => T \cup {x} \in F
  PROVE  S \in F
  <1> SUFFICES ASSUME S \notin F PROVE FALSE
    OBVIOUS
  <1>1. PICK T \in (SUBSET S) \ F : \A x \in T : T \ {x} \notin (SUBSET S) \ F
    <2>1. S \in (SUBSET S) \ F
      OBVIOUS
    <2> QED
      BY <2>1, SmallestSet
  <1>2. PICK x \in T : TRUE
    BY <1>1
  <1>3. T \ {x} \in SUBSET S /\ x \in S \ (T \ {x}) /\ (T \ {x}) \cup {x} = T
    BY <1>1, <1>2
  <1>4. T \ {x} \in F
    BY <1>1, <1>2, <1>3
  <1> QED
    BY <1>1, <1>3, <1>4

-----------------------------------------------------------------------------
(* Sums.                                                                   *)

\* The table of the sums of f over the subsets of S, which a sum builds.
Summed(f, s, g) ==
  IF s = {} THEN 0 ELSE f[CHOOSE x \in s : TRUE] + g[s \ {CHOOSE x \in s : TRUE}]

SumTable(f, S) == CHOOSE g : g = [s \in SUBSET S |-> Summed(f, s, g)]

LEMMA SumIsTabled ==
  ASSUME NEW f, NEW S
  PROVE  SumFunctionOnSet(f, S) = SumTable(f, S)[S]
  BY DEF SumFunctionOnSet, FoldFunctionOnSet, MapThenFoldSet, SumTable, Summed

\* The table exists: it is made in the order of the sizes of the subsets.
LEMMA SumTableExists ==
  ASSUME NEW f, NEW S, IsFiniteSet(S)
  PROVE  \E g : g = [s \in SUBSET S |-> Summed(f, s, g)]
  <1> DEFINE Upto(size) == {s \in SUBSET S : Cardinality(s) <= size}
             Made(size) == \E g : g = [s \in Upto(size) |-> Summed(f, s, g)]
             Missing == {size \in Nat : ~Made(size)}
  <1>1. ASSUME NEW s \in SUBSET S
        PROVE  /\ IsFiniteSet(s) /\ Cardinality(s) \in Nat
               /\ Cardinality(s) <= Cardinality(S)
               /\ Cardinality(s) = 0 <=> s = {}
    BY FS_Subset, FS_CardinalityType, FS_EmptySet
  <1>2. ASSUME NEW s \in SUBSET S, s # {}
        PROVE  /\ s \ {CHOOSE x \in s : TRUE} \in SUBSET S
               /\ Cardinality(s \ {CHOOSE x \in s : TRUE}) = Cardinality(s) - 1
    BY <1>1, <1>2, FS_RemoveElement
  <1>3. Missing = {}
    <2> SUFFICES ASSUME Missing # {} PROVE FALSE
      OBVIOUS
    <2>1. PICK size \in Missing : \A i \in Missing : size <= i
      <3> HIDE DEF Missing
      <3> QED
        BY LeastNumber, Missing \subseteq Nat DEF Missing
    <2>2. size # 0
      <3>1. Made(0)
        <4> DEFINE g == [s \in Upto(0) |-> 0]
        <4>1. g = [s \in Upto(0) |-> Summed(f, s, g)]
          BY <1>1 DEF Summed
        <4> QED
          BY <4>1
      <3> QED
        BY <2>1, <3>1
    <2>3. size - 1 \in Nat /\ Made(size - 1)
      <3>1. size - 1 \in Nat /\ ~(size <= size - 1)
        BY <2>1, <2>2
      <3> QED
        BY <2>1, <3>1
    <2>4. PICK g : g = [s \in Upto(size - 1) |-> Summed(f, s, g)]
      BY <2>3
    <2> DEFINE h == [s \in Upto(size) |-> IF s \in Upto(size - 1) THEN g[s] ELSE Summed(f, s, g)]
    <2>5. ASSUME NEW s \in Upto(size) PROVE h[s] = Summed(f, s, h)
      <3>1. h[s] = Summed(f, s, g)
        <4>1. s \in Upto(size - 1) => g[s] = Summed(f, s, g)
          <5> HIDE DEF Upto
          <5> QED
            BY <2>4
        <4> QED
          BY <4>1
      <3>2. CASE s = {}
        BY <3>1, <3>2 DEF Summed
      <3>3. CASE s # {}
        <4> DEFINE r == s \ {CHOOSE x \in s : TRUE}
        <4>1. r \in Upto(size - 1) /\ r \in Upto(size)
          BY <1>1, <1>2, <2>1, <3>3
        <4>2. h[r] = g[r]
          BY <4>1
        <4> QED
          BY <3>1, <3>3, <4>2 DEF Summed
      <3> QED
        BY <3>2, <3>3
    <2>6. h = [s \in Upto(size) |-> Summed(f, s, h)]
      <3> HIDE DEF Upto
      <3> QED
        BY <2>5
    <2> QED
      BY <2>1, <2>6
  <1>4. Made(Cardinality(S))
    BY <1>1, <1>3
  <1>5. Upto(Cardinality(S)) = SUBSET S
    BY <1>1
  <1> QED
    <2> HIDE DEF Upto
    <2> QED
      BY <1>4, <1>5

LEMMA SumTableDef ==
  ASSUME NEW f, NEW S, IsFiniteSet(S), NEW s \in SUBSET S
  PROVE  SumTable(f, S)[s] = Summed(f, s, SumTable(f, S))
  <1>1. SumTable(f, S) = [r \in SUBSET S |-> Summed(f, r, SumTable(f, S))]
    BY SumTableExists DEF SumTable
  <1> HIDE DEF SumTable
  <1> QED
    BY <1>1

\* The table for a set is a part of that for a larger one.
LEMMA SumTableGrows ==
  ASSUME NEW f, NEW S, IsFiniteSet(S), NEW T \in SUBSET S
  PROVE  SumTable(f, S)[T] = SumFunctionOnSet(f, T)
  <1> DEFINE B == {s \in SUBSET T : SumTable(f, S)[s] # SumTable(f, T)[s]}
  <1>1. IsFiniteSet(T)
    BY FS_Subset
  <1>2. B = {}
    <2> SUFFICES ASSUME B # {} PROVE FALSE
      OBVIOUS
    <2>1. PICK s \in B : \A x \in s : s \ {x} \notin B
      <3> HIDE DEF B
      <3> QED
        BY <1>1, SmallestSet, B \subseteq SUBSET T DEF B
    <2>2. /\ SumTable(f, S)[s] = Summed(f, s, SumTable(f, S))
          /\ SumTable(f, T)[s] = Summed(f, s, SumTable(f, T))
      BY <1>1, <2>1, SumTableDef
    <2>3. s # {} => LET r == s \ {CHOOSE x \in s : TRUE}
                    IN  SumTable(f, S)[r] = SumTable(f, T)[r]
      BY <2>1
    <2>4. SumTable(f, S)[s] = SumTable(f, T)[s]
      <3> HIDE DEF B
      <3> QED
        BY <2>2, <2>3 DEF Summed
    <2> QED
      BY <2>1, <2>4
  <1> QED
    BY <1>2, SumIsTabled

LEMMA SumEmpty == \A f : SumFunctionOnSet(f, {}) = 0
  BY SumIsTabled, SumTableDef, FS_EmptySet DEF Summed

\* A sum begins with some element; it is a number, whatever the element.
LEMMA SumChosen ==
  ASSUME NEW f, NEW S, IsFiniteSet(S), S # {}
  PROVE  \E x \in S : SumFunctionOnSet(f, S) = f[x] + SumFunctionOnSet(f, S \ {x})
  <1> DEFINE y == CHOOSE x \in S : TRUE
  <1>1. y \in S
    OBVIOUS
  <1>2. SumFunctionOnSet(f, S) = f[y] + SumTable(f, S)[S \ {y}]
    <2>1. SumFunctionOnSet(f, S) = Summed(f, S, SumTable(f, S))
      BY SumIsTabled, SumTableDef
    <2> QED
      BY <2>1 DEF Summed
  <1>3. SumTable(f, S)[S \ {y}] = SumFunctionOnSet(f, S \ {y})
    BY SumTableGrows
  <1> QED
    BY <1>1, <1>2, <1>3

LEMMA SumType ==
  ASSUME NEW S, IsFiniteSet(S), NEW f, \A x \in S : f[x] \in Nat
  PROVE  SumFunctionOnSet(f, S) \in Nat
  <1> DEFINE B == {s \in SUBSET S : SumFunctionOnSet(f, s) \notin Nat}
  <1> SUFFICES ASSUME B # {} PROVE FALSE
    OBVIOUS
  <1>1. PICK s \in B : \A x \in s : s \ {x} \notin B
    <2> HIDE DEF B
    <2> QED
      BY SmallestSet, B \subseteq SUBSET S DEF B
  <1>2. s # {} /\ IsFiniteSet(s)
    <2>1. SumFunctionOnSet(f, {}) = 0
      BY SumEmpty
    <2>2. SumFunctionOnSet(f, s) \notin Nat /\ s \in SUBSET S
      BY <1>1
    <2> QED
      BY <2>1, <2>2, FS_Subset
  <1>3. PICK x \in s : SumFunctionOnSet(f, s) = f[x] + SumFunctionOnSet(f, s \ {x})
    BY <1>2, SumChosen
  <1>4. SumFunctionOnSet(f, s \ {x}) \in Nat /\ f[x] \in Nat
    BY <1>1
  <1> QED
    BY <1>1, <1>3, <1>4

\* The order of the elements does not matter.
LEMMA SumRemove ==
  ASSUME NEW S, IsFiniteSet(S), NEW f, \A x \in S : f[x] \in Nat, NEW y \in S
  PROVE  SumFunctionOnSet(f, S) = f[y] + SumFunctionOnSet(f, S \ {y})
  <1> DEFINE Sum(s) == SumFunctionOnSet(f, s)
             B == {s \in SUBSET S : \E z \in s : Sum(s) # f[z] + Sum(s \ {z})}
  <1>1. ASSUME NEW s \in SUBSET S PROVE Sum(s) \in Nat /\ IsFiniteSet(s)
    BY SumType, FS_Subset
  <1>2. B = {}
    <2> SUFFICES ASSUME B # {} PROVE FALSE
      OBVIOUS
    <2>1. PICK s \in B : \A x \in s : s \ {x} \notin B
      <3> HIDE DEF B
      <3> QED
        BY SmallestSet, B \subseteq SUBSET S DEF B
    <2>2. PICK z \in s : Sum(s) # f[z] + Sum(s \ {z})
      BY <2>1
    <2>3. PICK x \in s : Sum(s) = f[x] + Sum(s \ {x})
      BY <1>1, <2>1, <2>2, SumChosen
    <2>4. x # z
      BY <2>2, <2>3
    <2> DEFINE r == s \ {x, z}
    <2>5. (s \ {x}) \ {z} = r /\ (s \ {z}) \ {x} = r
      OBVIOUS
    <2>6. Sum(s \ {x}) = f[z] + Sum(r)
      <3>1. s \ {x} \notin B /\ s \ {x} \in SUBSET S /\ z \in s \ {x}
        BY <2>1, <2>4
      <3> QED
        BY <2>5, <3>1
    <2>7. Sum(s \ {z}) = f[x] + Sum(r)
      <3>1. s \ {z} \notin B /\ s \ {z} \in SUBSET S /\ x \in s \ {z}
        BY <2>1, <2>4
      <3>2. Sum(s \ {z}) = f[x] + Sum((s \ {z}) \ {x})
        BY <3>1
      <3> HIDE DEF Sum, r
      <3> QED
        BY <2>5, <3>2
    <2>8. Sum(r) \in Nat /\ f[x] \in Nat /\ f[z] \in Nat
      BY <1>1
    <2> HIDE DEF Sum, r
    <2> QED
      BY <2>2, <2>3, <2>6, <2>7, <2>8
  <1> QED
    BY <1>2

LEMMA SumAdd ==
  ASSUME NEW S, IsFiniteSet(S), NEW f, NEW y, y \notin S, \A x \in S \cup {y} : f[x] \in Nat
  PROVE  SumFunctionOnSet(f, S \cup {y}) = f[y] + SumFunctionOnSet(f, S)
  <1>1. IsFiniteSet(S \cup {y}) /\ (S \cup {y}) \ {y} = S
    BY FS_AddElement
  <1>2. SumFunctionOnSet(f, S \cup {y}) = f[y] + SumFunctionOnSet(f, (S \cup {y}) \ {y})
    BY <1>1, SumRemove
  <1> QED
    BY <1>1, <1>2

\* Sums of what agrees, up to a factor, agree up to that factor.
LEMMA SumScaled ==
  ASSUME NEW S, IsFiniteSet(S), NEW f, NEW g, NEW c \in Nat,
         \A x \in S : f[x] \in Nat /\ g[x] = c * f[x]
  PROVE  SumFunctionOnSet(g, S) = c * SumFunctionOnSet(f, S)
  <1> DEFINE F == {T \in SUBSET S : SumFunctionOnSet(g, T) = c * SumFunctionOnSet(f, T)}
  <1>1. {} \in F
    <2>1. c * 0 = 0
      OBVIOUS
    <2> QED
      BY <2>1, SumEmpty
  <1>2. ASSUME NEW T \in SUBSET S, NEW y \in S \ T, T \in F PROVE T \cup {y} \in F
    <2>1. IsFiniteSet(T) /\ \A x \in T \cup {y} : f[x] \in Nat /\ g[x] \in Nat
      BY FS_Subset
    <2>2. /\ SumFunctionOnSet(f, T \cup {y}) = f[y] + SumFunctionOnSet(f, T)
          /\ SumFunctionOnSet(g, T \cup {y}) = g[y] + SumFunctionOnSet(g, T)
      BY <2>1, SumAdd
    <2>3. SumFunctionOnSet(f, T) \in Nat /\ f[y] \in Nat /\ g[y] = c * f[y]
      BY <2>1, SumType
    <2>4. ASSUME NEW a \in Nat, NEW b \in Nat PROVE c * a + c * b = c * (a + b)
      OBVIOUS
    <2>5. SumFunctionOnSet(g, T) = c * SumFunctionOnSet(f, T)
      BY <1>2
    <2>6. SumFunctionOnSet(g, T \cup {y}) = c * SumFunctionOnSet(f, T \cup {y})
      BY <2>2, <2>3, <2>4, <2>5
    <2> QED
      BY <2>6
  <1>3. S \in F
    <2> HIDE DEF F
    <2> QED
      BY <1>1, <1>2, SetInduction
  <1> QED
    BY <1>3

LEMMA SumEqual ==
  ASSUME NEW S, IsFiniteSet(S), NEW f, NEW g, \A x \in S : f[x] \in Nat /\ g[x] = f[x]
  PROVE  SumFunctionOnSet(g, S) = SumFunctionOnSet(f, S)
  <1>1. \A a \in Nat : 1 * a = a
    OBVIOUS
  <1>2. SumFunctionOnSet(g, S) = 1 * SumFunctionOnSet(f, S)
    <2>1. \A x \in S : f[x] \in Nat /\ g[x] = 1 * f[x]
      BY <1>1
    <2> QED
      BY <2>1, SumScaled
  <1> QED
    BY <1>1, <1>2, SumType

LEMMA SumOfSums ==
  ASSUME NEW S, IsFiniteSet(S), NEW f, NEW g, NEW h,
         \A x \in S : f[x] \in Nat /\ g[x] \in Nat /\ h[x] = f[x] + g[x]
  PROVE  SumFunctionOnSet(h, S) = SumFunctionOnSet(f, S) + SumFunctionOnSet(g, S)
  <1> DEFINE F == {T \in SUBSET S : SumFunctionOnSet(h, T) =
                                      SumFunctionOnSet(f, T) + SumFunctionOnSet(g, T)}
  <1>1. {} \in F
    BY SumEmpty
  <1>2. ASSUME NEW T \in SUBSET S, NEW y \in S \ T, T \in F PROVE T \cup {y} \in F
    <2>1. IsFiniteSet(T) /\ \A x \in T \cup {y} : f[x] \in Nat /\ g[x] \in Nat /\ h[x] \in Nat
      BY FS_Subset
    <2>2. /\ SumFunctionOnSet(f, T \cup {y}) = f[y] + SumFunctionOnSet(f, T)
          /\ SumFunctionOnSet(g, T \cup {y}) = g[y] + SumFunctionOnSet(g, T)
          /\ SumFunctionOnSet(h, T \cup {y}) = h[y] + SumFunctionOnSet(h, T)
      BY <2>1, SumAdd
    <2>3. /\ SumFunctionOnSet(f, T) \in Nat /\ SumFunctionOnSet(g, T) \in Nat
          /\ f[y] \in Nat /\ g[y] \in Nat /\ h[y] = f[y] + g[y]
      BY <2>1, SumType
    <2>4. SumFunctionOnSet(h, T) = SumFunctionOnSet(f, T) + SumFunctionOnSet(g, T)
      BY <1>2
    <2>5. SumFunctionOnSet(h, T \cup {y}) =
            SumFunctionOnSet(f, T \cup {y}) + SumFunctionOnSet(g, T \cup {y})
      BY <2>2, <2>3, <2>4
    <2> QED
      BY <2>5
  <1>3. S \in F
    <2> HIDE DEF F
    <2> QED
      BY <1>1, <1>2, SetInduction
  <1> QED
    BY <1>3

\* What is zero adds nothing.
LEMMA SumZeros ==
  ASSUME NEW S, IsFiniteSet(S), NEW T \in SUBSET S, NEW f,
         \A x \in S : f[x] \in Nat, \A x \in S \ T : f[x] = 0
  PROVE  SumFunctionOnSet(f, S) = SumFunctionOnSet(f, T)
  <1> DEFINE F == {U \in SUBSET (S \ T) : SumFunctionOnSet(f, T \cup U) = SumFunctionOnSet(f, T)}
  <1>1. {} \in F
    <2>1. T \cup {} = T
      OBVIOUS
    <2> QED
      BY <2>1
  <1>2. ASSUME NEW U \in SUBSET (S \ T), NEW y \in (S \ T) \ U, U \in F PROVE U \cup {y} \in F
    <2>1. /\ IsFiniteSet(T \cup U) /\ y \notin T \cup U
          /\ \A x \in (T \cup U) \cup {y} : f[x] \in Nat
      <3>1. T \cup U \in SUBSET S
        OBVIOUS
      <3> QED
        BY <3>1, FS_Subset
    <2>2. SumFunctionOnSet(f, (T \cup U) \cup {y}) = f[y] + SumFunctionOnSet(f, T \cup U)
      BY <2>1, SumAdd
    <2>3. SumFunctionOnSet(f, T \cup U) \in Nat /\ f[y] = 0
      BY <2>1, SumType
    <2>4. (T \cup U) \cup {y} = T \cup (U \cup {y})
      OBVIOUS
    <2>5. SumFunctionOnSet(f, T \cup (U \cup {y})) = SumFunctionOnSet(f, T)
      <3>1. SumFunctionOnSet(f, T \cup (U \cup {y})) = f[y] + SumFunctionOnSet(f, T \cup U)
        BY <2>2, <2>4
      <3> QED
        BY <1>2, <2>3, <3>1
    <2> QED
      BY <2>5
  <1>3. S \ T \in F
    <2>1. IsFiniteSet(S \ T)
      BY FS_Subset
    <2> HIDE DEF F
    <2> QED
      BY <1>1, <1>2, <2>1, SetInduction
  <1>4. T \cup (S \ T) = S
    OBVIOUS
  <1> QED
    BY <1>3, <1>4

\* A sum that is zero is of zeros.
LEMMA SumIsZero ==
  ASSUME NEW S, IsFiniteSet(S), NEW f, \A x \in S : f[x] \in Nat
  PROVE  SumFunctionOnSet(f, S) = 0 <=> \A x \in S : f[x] = 0
  <1>1. ASSUME SumFunctionOnSet(f, S) = 0, NEW x \in S PROVE f[x] = 0
    <2>1. SumFunctionOnSet(f, S) = f[x] + SumFunctionOnSet(f, S \ {x})
      BY SumRemove
    <2>2. SumFunctionOnSet(f, S \ {x}) \in Nat /\ f[x] \in Nat
      <3>1. IsFiniteSet(S \ {x})
        BY FS_Subset
      <3> QED
        BY <3>1, SumType
    <2> QED
      BY <1>1, <2>1, <2>2
  <1>2. ASSUME \A x \in S : f[x] = 0 PROVE SumFunctionOnSet(f, S) = 0
    <2>1. SumFunctionOnSet(f, S) = SumFunctionOnSet(f, {})
      BY <1>2, SumZeros
    <2> QED
      BY <2>1, SumEmpty
  <1> QED
    BY <1>1, <1>2

\* Of two sums, that of what is nowhere larger and somewhere smaller is smaller.
LEMMA SumSmaller ==
  ASSUME NEW S, IsFiniteSet(S), NEW f, NEW g,
         \A x \in S : f[x] \in Nat /\ g[x] \in Nat /\ g[x] <= f[x],
         \E x \in S : g[x] < f[x]
  PROVE  SumFunctionOnSet(g, S) < SumFunctionOnSet(f, S)
  <1> DEFINE d == [x \in S |-> f[x] - g[x]]
  <1>1. \A x \in S : g[x] \in Nat /\ d[x] \in Nat /\ f[x] = g[x] + d[x]
    OBVIOUS
  <1>2. PICK x \in S : d[x] # 0
    OBVIOUS
  <1> HIDE DEF d
  <1>3. SumFunctionOnSet(f, S) = SumFunctionOnSet(g, S) + SumFunctionOnSet(d, S)
    BY <1>1, SumOfSums
  <1>4. SumFunctionOnSet(g, S) \in Nat /\ SumFunctionOnSet(d, S) \in Nat
    BY <1>1, SumType
  <1>5. SumFunctionOnSet(d, S) # 0
    BY <1>1, <1>2, SumIsZero
  <1> QED
    BY <1>3, <1>4, <1>5

\* The sum over a list without repetitions is that over its elements.
LEMMA SumReindexed ==
  ASSUME NEW J, IsFiniteSet(J), NEW S, IsFiniteSet(S), NEW p, NEW f, NEW g,
         \A j \in J : p[j] \in S /\ g[j] = f[p[j]],
         \A j, k \in J : p[j] = p[k] => j = k,
         \A x \in S : f[x] \in Nat,
         \A x \in S : f[x] # 0 => \E j \in J : p[j] = x
  PROVE  SumFunctionOnSet(g, J) = SumFunctionOnSet(f, S)
  <1> DEFINE Image(I) == {p[j] : j \in I}
             F == {I \in SUBSET J : SumFunctionOnSet(g, I) = SumFunctionOnSet(f, Image(I))}
  <1>1. {} \in F
    <2>1. Image({}) = {}
      OBVIOUS
    <2> QED
      BY <2>1, SumEmpty
  <1>2. ASSUME NEW I \in SUBSET J, NEW k \in J \ I, I \in F PROVE I \cup {k} \in F
    <2>1. /\ Image(I \cup {k}) = Image(I) \cup {p[k]} /\ p[k] \notin Image(I)
          /\ Image(I) \in SUBSET S
      OBVIOUS
    <2>2. IsFiniteSet(I) /\ IsFiniteSet(Image(I))
      <3> HIDE DEF Image
      <3> QED
        BY <2>1, FS_Subset
    <2>3. /\ \A j \in I \cup {k} : g[j] \in Nat
          /\ \A x \in Image(I) \cup {p[k]} : f[x] \in Nat
      BY <2>1
    <2> HIDE DEF Image
    <2>4. SumFunctionOnSet(g, I \cup {k}) = g[k] + SumFunctionOnSet(g, I)
      BY <2>2, <2>3, SumAdd
    <2>5. SumFunctionOnSet(f, Image(I \cup {k})) = f[p[k]] + SumFunctionOnSet(f, Image(I))
      BY <2>1, <2>2, <2>3, SumAdd
    <2>6. SumFunctionOnSet(g, I) = SumFunctionOnSet(f, Image(I)) /\ g[k] = f[p[k]]
      BY <1>2
    <2> QED
      BY <2>4, <2>5, <2>6
  <1>3. J \in F
    <2> HIDE DEF F
    <2> QED
      BY <1>1, <1>2, SetInduction
  <1>4. Image(J) \in SUBSET S /\ \A x \in S \ Image(J) : f[x] = 0
    OBVIOUS
  <1> HIDE DEF Image
  <1>5. SumFunctionOnSet(f, S) = SumFunctionOnSet(f, Image(J))
    BY <1>4, SumZeros
  <1> QED
    BY <1>3, <1>5

\* A table of numbers, by rows and by columns, and the sums of each.
Tables(a, b, S, T, rows, cols) ==
  /\ \A x \in S : \A y \in T : a[x][y] \in Nat /\ b[y][x] = a[x][y]
  /\ \A x \in S : rows[x] = SumFunctionOnSet(a[x], T)
  /\ \A y \in T : cols[y] = SumFunctionOnSet(b[y], S)

\* A table adds up to the same by rows as by columns.
LEMMA SumSwapped ==
  ASSUME NEW S, IsFiniteSet(S), NEW T, IsFiniteSet(T), NEW a, NEW b, NEW rows, NEW cols,
         Tables(a, b, S, T, rows, cols)
  PROVE  SumFunctionOnSet(rows, S) = SumFunctionOnSet(cols, T)
  <1> USE DEF Tables
  <1> DEFINE Cols(U) == [y \in T |-> SumFunctionOnSet(b[y], U)]
             F == {U \in SUBSET S : SumFunctionOnSet(rows, U) = SumFunctionOnSet(Cols(U), T)}
  <1>1. {} \in F
    <2>1. \A y \in T : Cols({})[y] = 0
      BY SumEmpty
    <2> HIDE DEF Cols
    <2>2. SumFunctionOnSet(Cols({}), T) = 0
      BY <2>1, SumIsZero
    <2> QED
      BY <2>2, SumEmpty
  <1>2. ASSUME NEW U \in SUBSET S, NEW x \in S \ U, U \in F PROVE U \cup {x} \in F
    <2>1. /\ IsFiniteSet(U)
          /\ \A z \in U \cup {x} : \A y \in T : a[z][y] \in Nat /\ b[y][z] = a[z][y]
      BY FS_Subset
    <2>2. \A z \in U \cup {x} : rows[z] \in Nat
      BY <2>1, SumType
    <2>3. SumFunctionOnSet(rows, U \cup {x}) = rows[x] + SumFunctionOnSet(rows, U)
      BY <2>1, <2>2, SumAdd
    <2>4. ASSUME NEW y \in T
          PROVE  Cols(U \cup {x})[y] = a[x][y] + Cols(U)[y] /\ Cols(U)[y] \in Nat
      <3>1. SumFunctionOnSet(b[y], U \cup {x}) = b[y][x] + SumFunctionOnSet(b[y], U)
        BY <2>1, SumAdd
      <3>2. SumFunctionOnSet(b[y], U) \in Nat
        BY <2>1, SumType
      <3> QED
        BY <2>1, <3>1, <3>2
    <2> HIDE DEF Cols
    <2>5. SumFunctionOnSet(Cols(U \cup {x}), T) =
            SumFunctionOnSet(a[x], T) + SumFunctionOnSet(Cols(U), T)
      <3>1. \A y \in T : /\ a[x][y] \in Nat /\ Cols(U)[y] \in Nat
                          /\ Cols(U \cup {x})[y] = a[x][y] + Cols(U)[y]
        BY <2>1, <2>4
      <3> DEFINE f == a[x]
                 g == Cols(U)
                 h == Cols(U \cup {x})
      <3>2. \A y \in T : f[y] \in Nat /\ g[y] \in Nat /\ h[y] = f[y] + g[y]
        BY <3>1
      <3> HIDE DEF f, g, h
      <3>3. SumFunctionOnSet(h, T) = SumFunctionOnSet(f, T) + SumFunctionOnSet(g, T)
        BY ONLY IsFiniteSet(T), <3>2, SumOfSums
      <3> QED
        BY <3>3 DEF f, g, h
    <2>6. SumFunctionOnSet(rows, U) = SumFunctionOnSet(Cols(U), T)
      BY <1>2
    <2> QED
      BY <2>3, <2>5, <2>6
  <1>3. SumFunctionOnSet(rows, S) = SumFunctionOnSet(Cols(S), T)
    <2> HIDE DEF Cols
    <2>1. S \in F
      <3> HIDE DEF F
      <3> QED
        BY <1>1, <1>2, SetInduction
    <2> QED
      BY <2>1
  <1>4. \A y \in T : cols[y] = Cols(S)[y] /\ Cols(S)[y] \in Nat
    <2> SUFFICES ASSUME NEW y \in T PROVE cols[y] = Cols(S)[y] /\ Cols(S)[y] \in Nat
      OBVIOUS
    <2>1. SumFunctionOnSet(b[y], S) \in Nat
      BY SumType
    <2> QED
      BY <2>1
  <1> HIDE DEF Cols
  <1>5. SumFunctionOnSet(cols, T) = SumFunctionOnSet(Cols(S), T)
    BY <1>4, SumEqual
  <1> QED
    BY <1>3, <1>5

\* How often each of S is in the places D of a list of them.
CountsOf(count, s, D, S) ==
  /\ \A i \in D : s[i] \in S
  /\ \A x \in S : count[x] = Cardinality({i \in D : s[i] = x})

\* Counted by their values, the places of a list add up to their number.
LEMMA CountedByValue ==
  ASSUME NEW D, IsFiniteSet(D), NEW S, IsFiniteSet(S), NEW s, NEW count,
         CountsOf(count, s, D, S)
  PROVE  SumFunctionOnSet(count, S) = Cardinality(D)
  <1> USE DEF CountsOf
  <1> DEFINE Count(E) == [x \in S |-> Cardinality({i \in E : s[i] = x})]
             F == {E \in SUBSET D : SumFunctionOnSet(Count(E), S) = Cardinality(E)}
  <1>1. ASSUME NEW E \in SUBSET D, NEW x \in S
        PROVE  IsFiniteSet({i \in E : s[i] = x}) /\ Count(E)[x] \in Nat
    <2>1. {i \in E : s[i] = x} \in SUBSET D
      OBVIOUS
    <2>2. IsFiniteSet({i \in E : s[i] = x})
      BY <2>1, FS_Subset
    <2> QED
      BY <2>2, FS_CardinalityType
  <1>2. {} \in F
    <2>1. ASSUME NEW x \in S PROVE Count({})[x] = 0
      <3>1. {i \in {} : s[i] = x} = {}
        OBVIOUS
      <3> QED
        BY <3>1, FS_EmptySet
    <2> HIDE DEF Count
    <2>2. SumFunctionOnSet(Count({}), S) = 0
      BY <2>1, SumIsZero
    <2> QED
      BY <2>2, FS_EmptySet
  <1>3. ASSUME NEW E \in SUBSET D, NEW k \in D \ E, E \in F PROVE E \cup {k} \in F
    <2> DEFINE one == [x \in S |-> IF x = s[k] THEN 1 ELSE 0]
    <2>1. ASSUME NEW x \in S PROVE Count(E \cup {k})[x] = Count(E)[x] + one[x]
      <3> DEFINE M(G) == {i \in G : s[i] = x}
      <3>1. IsFiniteSet(M(E)) /\ Cardinality(M(E)) \in Nat
        BY <1>1
      <3>2. CASE x = s[k]
        <4>1. M(E \cup {k}) = M(E) \cup {k} /\ k \notin M(E)
          BY <3>2
        <4>2. Cardinality(M(E \cup {k})) = Cardinality(M(E)) + 1
          <5> HIDE DEF M
          <5> QED
            BY <3>1, <4>1, FS_AddElement
        <4> QED
          BY <3>2, <4>2
      <3>3. CASE x # s[k]
        <4>1. M(E \cup {k}) = M(E)
          BY <3>3
        <4>2. Cardinality(M(E \cup {k})) = Cardinality(M(E)) + 0
          <5> HIDE DEF M
          <5> QED
            BY <3>1, <4>1
        <4> QED
          BY <3>3, <4>2
      <3> QED
        BY <3>2, <3>3
    <2>2. SumFunctionOnSet(one, S) = 1
      <3>1. {s[k]} \in SUBSET S /\ \A x \in S \ {s[k]} : one[x] = 0
        OBVIOUS
      <3>2. (\A x \in S : one[x] \in Nat) /\ one[s[k]] = 1
        OBVIOUS
      <3> HIDE DEF one
      <3>3. SumFunctionOnSet(one, S) = SumFunctionOnSet(one, {s[k]})
        BY <3>1, <3>2, SumZeros
      <3>4. SumFunctionOnSet(one, {s[k]}) = one[s[k]] + SumFunctionOnSet(one, {s[k]} \ {s[k]})
        <4>1. IsFiniteSet({s[k]})
          BY FS_Singleton
        <4> QED
          BY <3>2, <4>1, SumRemove
      <3>5. {s[k]} \ {s[k]} = {}
        OBVIOUS
      <3>6. SumFunctionOnSet(one, {}) = 0
        BY SumEmpty
      <3> QED
        BY <3>2, <3>3, <3>4, <3>5, <3>6
    <2>3. \A x \in S : Count(E)[x] \in Nat /\ one[x] \in Nat
      BY <1>1
    <2> HIDE DEF one, Count
    <2>4. SumFunctionOnSet(Count(E \cup {k}), S) =
            SumFunctionOnSet(Count(E), S) + SumFunctionOnSet(one, S)
      BY <2>1, <2>3, SumOfSums
    <2>5. Cardinality(E \cup {k}) = Cardinality(E) + 1
      BY FS_Subset, FS_AddElement
    <2>6. SumFunctionOnSet(Count(E), S) = Cardinality(E)
      BY <1>3
    <2> QED
      BY <2>2, <2>4, <2>5, <2>6
  <1>4. SumFunctionOnSet(Count(D), S) = Cardinality(D)
    <2> HIDE DEF Count
    <2>1. D \in F
      <3> HIDE DEF F
      <3> QED
        BY <1>2, <1>3, SetInduction
    <2> QED
      BY <2>1
  <1>5. \A x \in S : count[x] = Count(D)[x] /\ Count(D)[x] \in Nat
    BY <1>1
  <1> HIDE DEF Count
  <1>6. SumFunctionOnSet(count, S) = SumFunctionOnSet(Count(D), S)
    BY <1>5, SumEqual
  <1> QED
    BY <1>4, <1>6

=============================================================================
