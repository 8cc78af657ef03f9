----------------------- MODULE PauliDecompositionProofs -----------------------
(***************************************************************************)
(* Proofs about one decomposition, for every operator on any number of     *)
(* qubits, every chunk size, tile and tolerance, every order of the chunks *)
(* and every number of oscillators.                                        *)
(*                                                                         *)
(* The argument goes through one closed form.  After k stages an entry of  *)
(* a transformed row is a signed sum over the entries that differ from it  *)
(* in the bits below k, with the kernel's blocks and tiles and without     *)
(* (TransformIsTheDefinition).  An entry of a Kronecker product is zero or *)
(* a sign times a power of i (StringEntryClosed).  So the coefficient of   *)
(* two masks is the trace of the operator with the matrix of their label   *)
(* (CoefficientIsTrace).                                                   *)
(*                                                                         *)
(* The inductive invariant IInv then says that what was gathered or        *)
(* yielded so far lists the coefficients of the rows whose chunks are done *)
(* (Lists, DoneRows).  Judged adds what the Hermiticity check has seen:    *)
(* until it raises, every coefficient of those rows is as good as real.    *)
(* That the terms add up to the operator again is the transform of the     *)
(* transform: dim times the row (WalshTwice).                              *)
(***************************************************************************)
EXTENDS PauliDecomposition, FiniteSetTheorems, NaturalsInduction,
        WellFoundedInduction, SequenceTheorems, TLAPS

\* The natural numbers are the smallest set with zero and successors.
LEMMA NaturalsFrom ==
  ASSUME NEW P, 0 \in P, \A n \in Nat : n \in P => n + 1 \in P
  PROVE  Nat \subseteq P
<1> SUFFICES ASSUME Nat \ P # {} PROVE FALSE
  OBVIOUS
<1>1. IsWellFoundedOn({ss \in Nat \X Nat : ss[1] < ss[2]}, Nat)
  BY NatLessThanWellFounded DEF OpToRel
<1>2. PICK n \in Nat \ P : \A m \in Nat \ P : ~(<<m, n>> \in {ss \in Nat \X Nat : ss[1] < ss[2]})
  BY <1>1, WFMin
<1>3. n # 0 /\ n - 1 \in Nat
  BY <1>2
<1>4. n - 1 \in P
  <2> SUFFICES ASSUME n - 1 \notin P PROVE FALSE
    OBVIOUS
  <2>1. <<n - 1, n>> \in {ss \in Nat \X Nat : ss[1] < ss[2]}
    BY <1>3
  <2> QED
    BY <1>2, <1>3, <2>1
<1> QED
  BY <1>2, <1>3, <1>4

\* The element that a fold takes first from a set.
Picked(s) == CHOOSE x \in s : TRUE

\* Sizes of the subsets of a finite set, with and without an element.
LEMMA SubsetSizes ==
  ASSUME NEW S, IsFiniteSet(S)
  PROVE  \A T \in SUBSET S :
           /\ IsFiniteSet(T) /\ Cardinality(T) \in Nat
           /\ Cardinality(T) = 0 <=> T = {}
           /\ \A x \in T : Cardinality(T \ {x}) = Cardinality(T) - 1
           /\ T # {} => Picked(T) \in T
<1> TAKE T \in SUBSET S
<1>1. IsFiniteSet(T)
  BY FS_Subset
<1>2. ASSUME NEW x \in T PROVE Cardinality(T \ {x}) = Cardinality(T) - 1
  BY <1>1, FS_RemoveElement
<1> QED
  BY <1>1, <1>2, FS_CardinalityType, FS_EmptySet DEF Picked

\* A finite set is reached from the empty one element by element.
LEMMA FiniteFrom ==
  ASSUME NEW S, IsFiniteSet(S), NEW P, {} \in P,
         \A T \in SUBSET S : \A x \in S \ T : T \in P => T \cup {x} \in P
  PROVE  S \in P
<1> DEFINE Reached == {n \in Nat : \A T \in SUBSET S : Cardinality(T) = n => T \in P}
<1>1. 0 \in Reached
  <2> SUFFICES ASSUME NEW T \in SUBSET S, Cardinality(T) = 0 PROVE T \in P
    OBVIOUS
  <2> QED
    BY FS_Subset, FS_EmptySet
<1>2. ASSUME NEW n \in Nat, n \in Reached PROVE n + 1 \in Reached
  <2> SUFFICES ASSUME NEW T \in SUBSET S, Cardinality(T) = n + 1 PROVE T \in P
    OBVIOUS
  <2>0. Cardinality(T) # 0
    OBVIOUS
  <2>1. T # {}
    BY <2>0, SubsetSizes
  <2>2. PICK x \in T : TRUE
    BY <2>1
  <2>3. Cardinality(T \ {x}) = n
    BY <2>2, SubsetSizes
  <2>4. T \ {x} \in P
    BY <1>2, <2>3
  <2>5. (T \ {x}) \cup {x} \in P
    BY <2>2, <2>4
  <2> QED
    BY <2>2, <2>5
<1>3. Nat \subseteq Reached
  <2> HIDE DEF Reached
  <2> QED
    BY <1>1, <1>2, NaturalsFrom
<1> QED
  BY <1>3, FS_CardinalityType

\* The recursion over the subsets of a finite set that a fold is defined by.
Recurs(g, base, step, S) ==
  \A s \in SUBSET S : g[s] = IF s = {} THEN base
                             ELSE step[<<Picked(s), g[s \ {Picked(s)}]>>]

\* A recursion over the subsets of a finite set has a solution.
LEMMA FoldExists ==
  ASSUME NEW S, IsFiniteSet(S), NEW V, NEW base \in V, NEW step \in [S \X V -> V]
  PROVE  \E g \in [SUBSET S -> V] : Recurs(g, base, step, S)
<1> DEFINE Small(n) == {s \in SUBSET S : Cardinality(s) <= n}
           Upto(n, g) == \A s \in Small(n) :
                           g[s] = IF s = {} THEN base
                                  ELSE step[<<Picked(s), g[s \ {Picked(s)}]>>]
           Fine == {n \in Nat : \E g \in [SUBSET S -> V] : Upto(n, g)}
<1>0. \A s \in SUBSET S : /\ IsFiniteSet(s) /\ Cardinality(s) \in Nat
                          /\ Cardinality(s) = 0 <=> s = {}
                          /\ s # {} => /\ Picked(s) \in s
                                       /\ Cardinality(s \ {Picked(s)}) = Cardinality(s) - 1
  BY SubsetSizes
<1>1. 0 \in Fine
  <2>1. [s \in SUBSET S |-> base] \in [SUBSET S -> V]
    OBVIOUS
  <2>2. \A s \in Small(0) : s = {}
    <3> TAKE s \in Small(0)
    <3>1. s \in SUBSET S /\ Cardinality(s) <= 0
      OBVIOUS
    <3>2. Cardinality(s) \in Nat
      BY <1>0, <3>1
    <3>3. Cardinality(s) = 0
      BY <3>1, <3>2
    <3> QED
      BY <1>0, <3>1, <3>3
  <2>3. Upto(0, [s \in SUBSET S |-> base])
    BY <2>2
  <2> QED
    BY <2>1, <2>3
<1>2. ASSUME NEW n \in Nat, n \in Fine PROVE n + 1 \in Fine
  <2>1. PICK g \in [SUBSET S -> V] : Upto(n, g)
    BY <1>2
  <2> DEFINE h == [s \in SUBSET S |-> IF s = {} THEN base
                                      ELSE step[<<Picked(s), g[s \ {Picked(s)}]>>]]
  <2>2. h \in [SUBSET S -> V]
    BY <1>0
  <2>3. \A s \in Small(n) : h[s] = g[s]
    BY <2>1
  <2>4. ASSUME NEW s \in Small(n + 1), s # {}
        PROVE  h[s] = step[<<Picked(s), h[s \ {Picked(s)}]>>]
    <3>1. s \ {Picked(s)} \in Small(n)
      BY <1>0, <2>4
    <3>2. h[s \ {Picked(s)}] = g[s \ {Picked(s)}]
      BY <3>1, <2>3
    <3> QED
      BY <2>4, <3>2
  <2>5. Upto(n + 1, h)
    BY <2>4
  <2> HIDE DEF h, Upto
  <2> QED
    BY <2>2, <2>5
<1>3. Nat \subseteq Fine
  <2> HIDE DEF Fine
  <2> QED
    BY <1>1, <1>2, NaturalsFrom
<1>4. PICK g \in [SUBSET S -> V] : Upto(Cardinality(S), g)
  BY <1>3, <1>0
<1>5. SUBSET S \subseteq Small(Cardinality(S))
  BY FS_Subset
<1> QED
  BY <1>4, <1>5 DEF Recurs

\* h agrees with g on a set as soon as it agrees on the set without its first
\* element.
TakesTheSteps(g, h, S) ==
  \A s \in SUBSET S : s # {} /\ g[s \ {Picked(s)}] = h[s \ {Picked(s)}] => g[s] = h[s]

\* Two such recursions that take the same steps are the same.
LEMMA FoldUnique ==
  ASSUME NEW S, IsFiniteSet(S), NEW g, NEW h, g[{}] = h[{}], TakesTheSteps(g, h, S)
  PROVE  \A s \in SUBSET S : g[s] = h[s]
<1> SUFFICES ASSUME NEW T \in SUBSET S PROVE g[T] = h[T]
  OBVIOUS
<1> DEFINE Same == {n \in Nat : \A s \in SUBSET S : Cardinality(s) = n => g[s] = h[s]}
<1>0. \A s \in SUBSET S : /\ IsFiniteSet(s) /\ Cardinality(s) \in Nat
                          /\ Cardinality(s) = 0 <=> s = {}
                          /\ s # {} => /\ Picked(s) \in s
                                       /\ Cardinality(s \ {Picked(s)}) = Cardinality(s) - 1
  BY SubsetSizes
<1>1. 0 \in Same
  BY <1>0
<1>2. ASSUME NEW n \in Nat, n \in Same PROVE n + 1 \in Same
  <2> SUFFICES ASSUME NEW s \in SUBSET S, Cardinality(s) = n + 1 PROVE g[s] = h[s]
    OBVIOUS
  <2>1. s # {} /\ Cardinality(s \ {Picked(s)}) = n /\ s \ {Picked(s)} \in SUBSET S
    <3>1. Cardinality(s) # 0
      OBVIOUS
    <3>2. s # {}
      BY <1>0, <3>1
    <3> QED
      BY <1>0, <3>2
  <2>2. g[s \ {Picked(s)}] = h[s \ {Picked(s)}]
    BY <1>2, <2>1
  <2> QED
    BY <2>1, <2>2 DEF TakesTheSteps
<1>3. Nat \subseteq Same
  <2> HIDE DEF Same
  <2> QED
    BY <1>1, <1>2, NaturalsFrom
<1> QED
  BY <1>0, <1>3

-----------------------------------------------------------------------------
(* Sums of a function over a finite part of its domain.                    *)

\* The sum of a function over a set, and the recursion it satisfies.
SumOver(f, S) == SumFunctionOnSet(f, S)

Adds(g, f, S) ==
  /\ g \in [SUBSET S -> Int]
  /\ \A s \in SUBSET S : g[s] = IF s = {} THEN 0 ELSE f[Picked(s)] + g[s \ {Picked(s)}]

\* A sum, unfolded once for every subset.
LEMMA SumRecurs ==
  ASSUME NEW S, IsFiniteSet(S), NEW f, \A x \in S : f[x] \in Int
  PROVE  \E g : Adds(g, f, S) /\ SumOver(f, S) = g[S]
<1> DEFINE step == [xv \in S \X Int |-> f[xv[1]] + xv[2]]
           Is(g) == g = [s \in SUBSET S |->
                           IF s = {} THEN 0
                           ELSE LET x == CHOOSE x \in s : TRUE
                                IN  f[x] + g[s \ {x}]]
           iter == CHOOSE g : Is(g)
<1>1. SumOver(f, S) = iter[S]
  BY DEF SumOver, SumFunctionOnSet, FoldFunctionOnSet, MapThenFoldSet
<1>2. step \in [S \X Int -> Int]
  OBVIOUS
<1>3. PICK g \in [SUBSET S -> Int] : Recurs(g, 0, step, S)
  <2>1. 0 \in Int
    OBVIOUS
  <2> HIDE DEF step
  <2> QED
    BY <1>2, <2>1, FoldExists
<1>4. ASSUME NEW s \in SUBSET S, s # {}
      PROVE  step[<<Picked(s), g[s \ {Picked(s)}]>>] = f[Picked(s)] + g[s \ {Picked(s)}]
  <2>1. Picked(s) \in S /\ g[s \ {Picked(s)}] \in Int
    BY <1>4 DEF Picked
  <2> QED
    BY <2>1
<1>5. Is(g)
  <2>1. \A s \in SUBSET S : g[s] = IF s = {} THEN 0 ELSE f[Picked(s)] + g[s \ {Picked(s)}]
    BY <1>3, <1>4 DEF Recurs
  <2> QED
    BY <2>1 DEF Picked
<1>6. Is(iter)
  <2> HIDE DEF Is
  <2> QED
    BY <1>5
<1>7. \A s \in SUBSET S : iter[s] = IF s = {} THEN 0 ELSE f[Picked(s)] + iter[s \ {Picked(s)}]
  BY <1>6 DEF Picked
<1>8. \A s \in SUBSET S : iter[s] = g[s]
  <2> HIDE DEF iter
  <2>1. \A s \in SUBSET S : g[s] = IF s = {} THEN 0 ELSE f[Picked(s)] + g[s \ {Picked(s)}]
    BY <1>3, <1>4 DEF Recurs
  <2>2. iter[{}] = g[{}]
    BY <1>7, <2>1
  <2>3. TakesTheSteps(iter, g, S)
    BY <1>7, <2>1 DEF TakesTheSteps
  <2> QED
    BY <2>2, <2>3, FoldUnique
<1>9. SumOver(f, S) = g[S]
  <2> HIDE DEF iter
  <2> QED
    BY <1>1, <1>8
<1> QED
  BY <1>3, <1>4, <1>9 DEF Recurs, Adds

\* The recursion that Sum is defined by, in terms of Sum.
LEMMA SumUnfold ==
  ASSUME NEW S, IsFiniteSet(S), NEW f, \A x \in S : f[x] \in Int
  PROVE  /\ SumOver(f, S) \in Int
         /\ S = {} => SumOver(f, S) = 0
         /\ S # {} => SumOver(f, S) = f[Picked(S)] + SumOver(f, S \ {Picked(S)})
<1>1. PICK g : Adds(g, f, S) /\ SumOver(f, S) = g[S]
  BY SumRecurs
<1>2. ASSUME S # {} PROVE SumOver(f, S) = f[Picked(S)] + SumOver(f, S \ {Picked(S)})
  <2> DEFINE T == S \ {Picked(S)}
  <2>1. IsFiniteSet(T) /\ T \subseteq S
    BY FS_Subset
  <2>2. g[S] = f[Picked(S)] + g[T]
    BY <1>1, <1>2 DEF Adds
  <2> HIDE DEF T
  <2>3. PICK h : Adds(h, f, T) /\ SumOver(f, T) = h[T]
    BY <2>1, SumRecurs
  <2>4. h[{}] = g[{}]
    BY <1>1, <2>3 DEF Adds
  <2>5. TakesTheSteps(h, g, T)
    BY <1>1, <2>1, <2>3 DEF Adds, TakesTheSteps
  <2>6. \A s \in SUBSET T : h[s] = g[s]
    BY <2>1, <2>4, <2>5, FoldUnique
  <2> QED
    BY <1>1, <2>2, <2>3, <2>6 DEF T
<1> QED
  BY <1>1, <1>2 DEF Adds

\* Any element can be taken out of a sum.
LEMMA SumWithout ==
  ASSUME NEW S, IsFiniteSet(S), NEW f, \A x \in S : f[x] \in Int, NEW e \in S
  PROVE  SumOver(f, S) = f[e] + SumOver(f, S \ {e})
<1> DEFINE Good == {n \in Nat : \A T \in SUBSET S : \A x \in T :
                      Cardinality(T) = n => SumOver(f, T) = f[x] + SumOver(f, T \ {x})}
<1>0. \A T \in SUBSET S : /\ SumOver(f, T) \in Int
                          /\ T # {} => SumOver(f, T) = f[Picked(T)] + SumOver(f, T \ {Picked(T)})
  BY SumUnfold, FS_Subset
<1>1. 0 \in Good
  BY SubsetSizes
<1>2. ASSUME NEW n \in Nat, n \in Good PROVE n + 1 \in Good
  <2> SUFFICES ASSUME NEW T \in SUBSET S, NEW x \in T, Cardinality(T) = n + 1, x # Picked(T)
               PROVE  SumOver(f, T) = f[x] + SumOver(f, T \ {x})
    BY <1>0
  <2> DEFINE p == Picked(T)
  <2>1. p \in T /\ Cardinality(T \ {p}) = n /\ Cardinality(T \ {x}) = n
    BY SubsetSizes
  <2>2. SumOver(f, T) = f[p] + SumOver(f, T \ {p})
    BY <1>0
  <2>7. x # p
    OBVIOUS
  <2> HIDE DEF p
  <2>3. SumOver(f, T \ {p}) = f[x] + SumOver(f, (T \ {p}) \ {x})
    BY <1>2, <2>1, <2>7
  <2>4. SumOver(f, T \ {x}) = f[p] + SumOver(f, (T \ {x}) \ {p})
    BY <1>2, <2>1, <2>7
  <2>5. (T \ {x}) \ {p} = (T \ {p}) \ {x}
    OBVIOUS
  <2>8. SumOver(f, T \ {x}) = f[p] + SumOver(f, (T \ {p}) \ {x})
    BY <2>4, <2>5
  <2>6. SumOver(f, (T \ {p}) \ {x}) \in Int /\ f[x] \in Int /\ f[p] \in Int
    BY <1>0, <2>1
  <2> HIDE DEF Good
  <2> QED
    BY <2>2, <2>3, <2>8, <2>6
<1>3. Nat \subseteq Good
  <2> HIDE DEF Good
  <2> QED
    BY <1>1, <1>2, NaturalsFrom
<1> QED
  BY <1>3, FS_CardinalityType

\* Adding one element, and the sum over none.
LEMMA SumWith ==
  ASSUME NEW S, IsFiniteSet(S), NEW f, \A x \in S : f[x] \in Int
  PROVE  /\ SumOver(f, {}) = 0
         /\ \A U \in SUBSET S : IsFiniteSet(U) /\ SumOver(f, U) \in Int
         /\ \A U \in SUBSET S : \A x \in S \ U :
              SumOver(f, U \cup {x}) = f[x] + SumOver(f, U)
<1>1. SumOver(f, {}) = 0
  BY SumUnfold, FS_EmptySet
<1>2. ASSUME NEW U \in SUBSET S PROVE IsFiniteSet(U) /\ SumOver(f, U) \in Int
  BY SumUnfold, FS_Subset
<1>3. ASSUME NEW U \in SUBSET S, NEW x \in S \ U
      PROVE  SumOver(f, U \cup {x}) = f[x] + SumOver(f, U)
  <2>1. IsFiniteSet(U \cup {x})
    BY FS_Subset
  <2>2. (U \cup {x}) \ {x} = U
    OBVIOUS
  <2>3. SumOver(f, U \cup {x}) = f[x] + SumOver(f, (U \cup {x}) \ {x})
    BY <2>1, SumWithout
  <2> QED
    BY <2>2, <2>3
<1> QED
  BY <1>1, <1>2, <1>3

\* A sum is determined by its summands.
LEMMA SumSame ==
  ASSUME NEW S, IsFiniteSet(S), NEW f, NEW g,
         \A x \in S : f[x] \in Int /\ g[x] = f[x]
  PROVE  SumOver(f, S) = SumOver(g, S)
<1> DEFINE P == {U \in SUBSET S : SumOver(f, U) = SumOver(g, U)}
<1>1. {} \in P
  BY SumWith
<1>2. ASSUME NEW T \in SUBSET S, NEW x \in S \ T, T \in P PROVE T \cup {x} \in P
  BY <1>2, SumWith
<1>3. S \in P
  <2> HIDE DEF P
  <2> QED
    BY <1>1, <1>2, FiniteFrom
<1> QED
  BY <1>3

\* Sums add, and scale.
LEMMA SumPlus ==
  ASSUME NEW S, IsFiniteSet(S), NEW f, NEW g, NEW h,
         \A x \in S : f[x] \in Int /\ g[x] \in Int /\ h[x] = f[x] + g[x]
  PROVE  SumOver(h, S) = SumOver(f, S) + SumOver(g, S)
<1> DEFINE P == {U \in SUBSET S : SumOver(h, U) = SumOver(f, U) + SumOver(g, U)}
<1>0. \A x \in S : h[x] \in Int
  OBVIOUS
<1>1. {} \in P
  BY <1>0, SumWith
<1>2. ASSUME NEW T \in SUBSET S, NEW x \in S \ T, T \in P PROVE T \cup {x} \in P
  <2>1. /\ SumOver(f, T \cup {x}) = f[x] + SumOver(f, T)
        /\ SumOver(g, T \cup {x}) = g[x] + SumOver(g, T)
        /\ SumOver(h, T \cup {x}) = h[x] + SumOver(h, T)
    BY <1>0, SumWith
  <2>2. SumOver(f, T) \in Int /\ SumOver(g, T) \in Int
    BY SumWith
  <2>3. SumOver(h, T) = SumOver(f, T) + SumOver(g, T)
    BY <1>2
  <2> QED
    BY <2>1, <2>2, <2>3
<1>3. S \in P
  <2> HIDE DEF P
  <2> QED
    BY <1>1, <1>2, FiniteFrom
<1> QED
  BY <1>3

LEMMA SumScaled ==
  ASSUME NEW S, IsFiniteSet(S), NEW c \in Int, NEW f, NEW h,
         \A x \in S : f[x] \in Int /\ h[x] = c * f[x]
  PROVE  SumOver(h, S) = c * SumOver(f, S)
<1> DEFINE P == {U \in SUBSET S : SumOver(h, U) = c * SumOver(f, U)}
<1>0. \A x \in S : h[x] \in Int
  OBVIOUS
<1>1. {} \in P
  BY <1>0, SumWith
<1>2. ASSUME NEW T \in SUBSET S, NEW x \in S \ T, T \in P PROVE T \cup {x} \in P
  <2>1. /\ SumOver(f, T \cup {x}) = f[x] + SumOver(f, T)
        /\ SumOver(h, T \cup {x}) = h[x] + SumOver(h, T)
    BY <1>0, SumWith
  <2>2. PICK a \in Int, b \in Int : a = f[x] /\ b = SumOver(f, T)
    BY SumWith
  <2>3. h[x] = c * a /\ SumOver(h, T) = c * b
    BY <1>2, <2>2
  <2>4. c * (a + b) = c * a + c * b
    OBVIOUS
  <2>5. SumOver(h, T \cup {x}) = c * SumOver(f, T \cup {x})
    BY <2>1, <2>2, <2>3, <2>4
  <2> QED
    BY <2>5
<1>3. S \in P
  <2> HIDE DEF P
  <2> QED
    BY <1>1, <1>2, FiniteFrom
<1> QED
  BY <1>3

\* Two disjoint parts.
LEMMA SumUnion ==
  ASSUME NEW S, NEW T, IsFiniteSet(S), IsFiniteSet(T), S \cap T = {}, NEW f,
         \A x \in S \cup T : f[x] \in Int
  PROVE  SumOver(f, S \cup T) = SumOver(f, S) + SumOver(f, T)
<1> DEFINE P == {U \in SUBSET S : SumOver(f, U \cup T) = SumOver(f, U) + SumOver(f, T)}
<1>0. IsFiniteSet(S \cup T)
  BY FS_Union
<1>1. {} \in P
  <2>1. {} \cup T = T /\ SumOver(f, {}) = 0 /\ SumOver(f, T) \in Int
    BY <1>0, SumWith
  <2> QED
    BY <2>1
<1>2. ASSUME NEW U \in SUBSET S, NEW x \in S \ U, U \in P PROVE U \cup {x} \in P
  <2>1. (U \cup {x}) \cup T = (U \cup T) \cup {x}
    OBVIOUS
  <2>2. SumOver(f, (U \cup T) \cup {x}) = f[x] + SumOver(f, U \cup T)
    <3> DEFINE V == U \cup T
    <3>1. V \in SUBSET (S \cup T) /\ x \in (S \cup T) \ V
      OBVIOUS
    <3> HIDE DEF V
    <3>2. SumOver(f, V \cup {x}) = f[x] + SumOver(f, V)
      BY <1>0, <3>1, SumWith
    <3> QED
      BY <3>2 DEF V
  <2>3. SumOver(f, U \cup {x}) = f[x] + SumOver(f, U)
    BY <1>0, SumWith
  <2>4. SumOver(f, U) \in Int /\ SumOver(f, T) \in Int
    BY <1>0, SumWith
  <2>5. SumOver(f, U \cup T) = SumOver(f, U) + SumOver(f, T)
    BY <1>2
  <2>6. SumOver(f, (U \cup {x}) \cup T) = f[x] + (SumOver(f, U) + SumOver(f, T))
    BY <2>1, <2>2, <2>5
  <2>7. SumOver(f, (U \cup {x}) \cup T) = SumOver(f, U \cup {x}) + SumOver(f, T)
    BY <2>3, <2>4, <2>6
  <2> QED
    BY <2>7
<1>3. S \in P
  <2> HIDE DEF P
  <2> QED
    BY <1>1, <1>2, FiniteFrom
<1> QED
  BY <1>3

\* Zeros do not count.
LEMMA SumWithin ==
  ASSUME NEW S, IsFiniteSet(S), NEW T \in SUBSET S, NEW f,
         \A x \in S : f[x] \in Int, \A x \in S \ T : f[x] = 0
  PROVE  SumOver(f, S) = SumOver(f, T)
<1> DEFINE P == {U \in SUBSET (S \ T) : SumOver(f, T \cup U) = SumOver(f, T)}
<1>1. {} \in P
  <2>1. T \cup {} = T
    OBVIOUS
  <2> QED
    BY <2>1
<1>2. ASSUME NEW U \in SUBSET (S \ T), NEW x \in (S \ T) \ U, U \in P PROVE U \cup {x} \in P
  <2>1. T \cup (U \cup {x}) = (T \cup U) \cup {x}
    OBVIOUS
  <2>2. T \cup U \in SUBSET S /\ x \in S \ (T \cup U) /\ f[x] = 0
    OBVIOUS
  <2>3. SumOver(f, (T \cup U) \cup {x}) = f[x] + SumOver(f, T \cup U)
    <3> DEFINE V == T \cup U
    <3> HIDE DEF V
    <3>1. V \in SUBSET S /\ x \in S \ V
      BY <2>2 DEF V
    <3>2. SumOver(f, V \cup {x}) = f[x] + SumOver(f, V)
      BY <3>1, SumWith
    <3> QED
      BY <3>2 DEF V
  <2>4. SumOver(f, T \cup U) = SumOver(f, T) /\ SumOver(f, T) \in Int
    BY <1>2, SumWith
  <2>5. SumOver(f, (T \cup U) \cup {x}) = SumOver(f, T)
    BY <2>2, <2>3, <2>4
  <2>6. SumOver(f, T \cup (U \cup {x})) = SumOver(f, T)
    BY <2>1, <2>5
  <2> QED
    BY <2>6
<1>3. S \ T \in P
  <2>1. IsFiniteSet(S \ T)
    BY FS_Subset
  <2> HIDE DEF P
  <2> QED
    BY <1>1, <1>2, <2>1, FiniteFrom
<1>4. T \cup (S \ T) = S
  OBVIOUS
<1> QED
  BY <1>3, <1>4

\* The image of a finite set.
LEMMA ImageFinite ==
  ASSUME NEW S, IsFiniteSet(S), NEW m
  PROVE  IsFiniteSet({m[x] : x \in S})
<1> DEFINE I == {m[x] : x \in S}
           f == [x \in S |-> m[x]]
<1>1. f \in Surjection(S, I)
  BY DEF Surjection
<1> QED
  BY <1>1, FS_Surjection

\* Renaming the summands.
LEMMA SumMapped ==
  ASSUME NEW S, IsFiniteSet(S), NEW f, NEW g, NEW m,
         \A x \in S : f[x] \in Int /\ g[m[x]] = f[x],
         \A x, y \in S : m[x] = m[y] => x = y
  PROVE  SumOver(f, S) = SumOver(g, {m[x] : x \in S})
<1> DEFINE P == {U \in SUBSET S : SumOver(f, U) = SumOver(g, {m[x] : x \in U})}
           I == {m[x] : x \in S}
<1>0. IsFiniteSet(I) /\ \A y \in I : g[y] \in Int
  BY ImageFinite
<1>1. {} \in P
  <2>1. {m[x] : x \in {}} = {}
    OBVIOUS
  <2>2. SumOver(f, {}) = 0
    BY SumWith
  <2>3. SumOver(g, {}) = 0
    <3> HIDE DEF I
    <3> QED
      BY <1>0, SumWith
  <2> QED
    BY <2>1, <2>2, <2>3
<1>2. ASSUME NEW U \in SUBSET S, NEW x \in S \ U, U \in P PROVE U \cup {x} \in P
  <2> DEFINE J == {m[y] : y \in U}
  <2>1. {m[y] : y \in U \cup {x}} = J \cup {m[x]} /\ m[x] \in I \ J /\ J \in SUBSET I
    OBVIOUS
  <2>2. SumOver(f, U \cup {x}) = f[x] + SumOver(f, U)
    BY SumWith
  <2>3. SumOver(f, U) = SumOver(g, J) /\ g[m[x]] = f[x]
    BY <1>2
  <2>4. SumOver(g, J \cup {m[x]}) = g[m[x]] + SumOver(g, J)
    <3> HIDE DEF I, J
    <3> QED
      BY <1>0, <2>1, SumWith
  <2>5. SumOver(f, U \cup {x}) = SumOver(g, {m[y] : y \in U \cup {x}})
    <3> HIDE DEF I, J
    <3> QED
      BY <2>1, <2>2, <2>3, <2>4
  <2> QED
    BY <2>5
<1>3. S \in P
  <2> HIDE DEF P
  <2> QED
    BY <1>1, <1>2, FiniteFrom
<1> QED
  BY <1>3

-----------------------------------------------------------------------------
(* Division, powers of two and bits.                                       *)

\* Quotient and remainder, and that they are unique.
LEMMA Division ==
  ASSUME NEW n \in Nat, NEW c \in Nat \ {0}
  PROVE  /\ n \div c \in Nat /\ n % c \in 0 .. c - 1
         /\ n = c * (n \div c) + (n % c)
<1>1. n \div c \in Nat /\ n % c \in Nat /\ n % c < c
  OBVIOUS
<1>2. n = c * (n \div c) + (n % c)
  OBVIOUS
<1> QED
  BY <1>1, <1>2

LEMMA QuotientIsUnique ==
  ASSUME NEW c \in Nat \ {0}, NEW a \in Nat, NEW b \in 0 .. c - 1,
         NEW n \in Nat, n = c * a + b
  PROVE  n \div c = a /\ n % c = b
<1> DEFINE q == n \div c
           r == n % c
<1>1. q \in Nat /\ r \in 0 .. c - 1 /\ n = c * q + r
  BY Division
<1> HIDE DEF q, r
<1>2. ASSUME NEW x \in Nat, NEW y \in Nat, NEW s \in 0 .. c - 1, NEW t \in 0 .. c - 1,
             c * x + s = c * y + t
      PROVE  ~(x < y)
  <2>1. SUFFICES ASSUME x < y PROVE FALSE
    OBVIOUS
  <2>2. PICK d \in Nat : y = x + 1 + d
    <3>1. y - x - 1 \in Nat /\ y = x + 1 + (y - x - 1)
      BY <2>1
    <3> QED
      BY <3>1
  <2>3. c * y = c * x + c + c * d /\ c * d \in Nat /\ c * x \in Nat
    BY <2>2
  <2> QED
    BY <1>2, <2>3
<1>3. ~(q < a) /\ ~(a < q)
  BY <1>1, <1>2
<1>4. q = a
  BY <1>1, <1>3
<1>5. r = b
  <2>1. c * a \in Nat
    OBVIOUS
  <2> QED
    BY <1>1, <1>4, <2>1
<1> QED
  BY <1>4, <1>5 DEF q, r

\* Masks of one more bit: those without it and those with it.
LEMMA OneMoreBit ==
  ASSUME NEW n \in Nat
  PROVE  /\ Masks(n + 1) = Masks(n) \cup {q \cup {n} : q \in Masks(n)}
         /\ Masks(n) \cap {q \cup {n} : q \in Masks(n)} = {}
         /\ \A p, q \in Masks(n) : p \cup {n} = q \cup {n} => p = q
<1>1. 0 .. n + 1 - 1 = (0 .. n - 1) \cup {n} /\ n \notin 0 .. n - 1
  OBVIOUS
<1>2. ASSUME NEW m \in Masks(n + 1), m \notin Masks(n)
      PROVE  \E q \in Masks(n) : m = q \cup {n}
  <2>1. n \in m /\ m \ {n} \in Masks(n)
    BY <1>1, <1>2 DEF Masks
  <2> QED
    BY <2>1
<1>3. Masks(n) \subseteq Masks(n + 1)
  BY <1>1 DEF Masks
<1>4. \A q \in Masks(n) : q \cup {n} \in Masks(n + 1) /\ q \cup {n} \notin Masks(n)
  BY <1>1 DEF Masks
<1>5. \A p, q \in Masks(n) : p \cup {n} = q \cup {n} => p = q
  <2> SUFFICES ASSUME NEW p \in Masks(n), NEW q \in Masks(n), p \cup {n} = q \cup {n}
               PROVE  p = q
    OBVIOUS
  <2>1. n \notin p /\ n \notin q
    BY <1>1 DEF Masks
  <2> QED
    BY <2>1
<1> QED
  BY <1>2, <1>3, <1>4, <1>5

\* There are 2^n masks of n bits.
LEMMA MasksFinite ==
  ASSUME NEW n \in Nat
  PROVE  /\ IsFiniteSet(Masks(n)) /\ Cardinality(Masks(n)) = 2^n
         /\ \A m \in Masks(n) : IsFiniteSet(m) /\ m \subseteq Nat
<1>1. IsFiniteSet(0 .. n - 1) /\ Cardinality(0 .. n - 1) = n
  BY FS_Interval
<1>2. \A m \in Masks(n) : IsFiniteSet(m)
  BY <1>1, FS_Subset DEF Masks
<1> QED
  BY <1>1, <1>2, FS_SUBSET DEF Masks

LEMMA PowersOfTwo ==
  /\ 2^0 = 1
  /\ \A n \in Nat : 2^n \in Nat \ {0} /\ 2^(n + 1) = 2 * 2^n
<1>1. 2^0 = 1
  OBVIOUS
<1>2. ASSUME NEW n \in Nat PROVE 2^n \in Nat \ {0} /\ 2^(n + 1) = 2 * 2^n
  <2> DEFINE m == [q \in Masks(n) |-> q \cup {n}]
             M == {m[q] : q \in Masks(n)}
  <2>1. M = {q \cup {n} : q \in Masks(n)}
    OBVIOUS
  <2>2. m \in Bijection(Masks(n), M)
    BY <2>1, OneMoreBit DEF Bijection, Injection, Surjection, IsInjective
  <2>3. IsFiniteSet(M) /\ Cardinality(M) = 2^n
    BY <2>2, MasksFinite, FS_Bijection DEF ExistsBijection
  <2>4. 2^n \in Nat
    BY <2>3, FS_CardinalityType
  <2>5. {} \in Masks(n)
    BY DEF Masks
  <2>6. 2^n # 0
    BY <2>5, MasksFinite, FS_EmptySet
  <2> HIDE DEF m, M
  <2>7. Cardinality(Masks(n) \cup M) = 2^n + 2^n - Cardinality(Masks(n) \cap M)
    BY <2>3, MasksFinite, FS_Union
  <2>8. Masks(n) \cap M = {} /\ Masks(n + 1) = Masks(n) \cup M
    BY <2>1, OneMoreBit
  <2>9. Cardinality(Masks(n + 1)) = 2^(n + 1)
    BY MasksFinite
  <2>10. 2^(n + 1) = 2^n + 2^n - 0
    BY <2>7, <2>8, <2>9, FS_EmptySet
  <2> QED
    BY <2>4, <2>6, <2>10
<1> QED
  BY <1>1, <1>2

\* The value of a mask as a sum of powers of two, below 2^n for n bits.
Powers == [k \in Nat |-> 2^k]

LEMMA ValueIsSum ==
  ASSUME NEW mask, mask \subseteq Nat, IsFiniteSet(mask)
  PROVE  ValueOf(mask) = SumOver(Powers, mask)
<1> DEFINE f == [k \in mask |-> 2^k]
<1>1. ValueOf(mask) = SumOver(f, mask)
  BY DEF ValueOf, SumFunction, SumOver
<1>2. \A k \in mask : f[k] \in Int /\ Powers[k] = f[k]
  BY PowersOfTwo DEF Powers
<1>3. SumOver(f, mask) = SumOver(Powers, mask)
  <2> HIDE DEF f
  <2> QED
    BY <1>2, SumSame
<1> QED
  BY <1>1, <1>3

\* A bit more adds its power.
LEMMA ValueWith ==
  ASSUME NEW n \in Nat, NEW mask \in Masks(n)
  PROVE  /\ ValueOf(mask) \in Nat => ValueOf(mask \cup {n}) = 2^n + ValueOf(mask)
         /\ ValueOf({}) = 0 /\ ValueOf(mask) \in Int
<1>0. n \notin mask /\ mask \subseteq Nat /\ IsFiniteSet(mask) /\ IsFiniteSet(mask \cup {n})
  <2>1. n \notin mask
    BY DEF Masks
  <2>2. mask \subseteq Nat /\ IsFiniteSet(mask)
    BY MasksFinite
  <2> QED
    BY <2>1, <2>2, FS_AddElement
<1>1. \A k \in Nat : Powers[k] = 2^k /\ 2^k \in Int
  BY PowersOfTwo DEF Powers
<1> DEFINE S == mask \cup {n}
<1>2. mask \in SUBSET S /\ n \in S \ mask /\ S \subseteq Nat /\ IsFiniteSet(S)
  BY <1>0
<1>8. mask \cup {n} = S
  OBVIOUS
<1> HIDE DEF S
<1>3. \A x \in S : Powers[x] \in Int
  BY <1>1, <1>2
<1>4. SumOver(Powers, mask \cup {n}) = Powers[n] + SumOver(Powers, mask)
  <2>1. \A U \in SUBSET S : \A x \in S \ U :
          SumOver(Powers, U \cup {x}) = Powers[x] + SumOver(Powers, U)
    BY <1>2, <1>3, SumWith
  <2> QED
    BY <1>2, <2>1
<1>5. SumOver(Powers, {}) = 0 /\ SumOver(Powers, mask) \in Int
  BY <1>2, <1>3, SumWith
<1>6. ValueOf(mask) = SumOver(Powers, mask) /\ ValueOf(S) = SumOver(Powers, S)
  BY <1>0, <1>2, ValueIsSum
<1>7. ValueOf({}) = SumOver(Powers, {})
  BY ValueIsSum, FS_EmptySet
<1> QED
  BY <1>1, <1>4, <1>5, <1>6, <1>7 DEF S

LEMMA ValueBounds ==
  ASSUME NEW n \in Nat
  PROVE  \A mask \in Masks(n) : ValueOf(mask) \in 0 .. 2^n - 1
<1> DEFINE P == {m \in Nat : \A mask \in Masks(m) : ValueOf(mask) \in 0 .. 2^m - 1}
<1>1. 0 \in P
  <2>1. Masks(0) = {{}}
    BY DEF Masks
  <2>2. ValueOf({}) = 0
    BY <2>1, ValueWith
  <2>3. 0 .. 2^0 - 1 = {0}
    BY PowersOfTwo
  <2>4. \A mask \in Masks(0) : ValueOf(mask) \in 0 .. 2^0 - 1
    BY <2>1, <2>2, <2>3
  <2> QED
    BY <2>4
<1>2. ASSUME NEW m \in Nat, m \in P PROVE m + 1 \in P
  <2>1. 2^m \in Nat \ {0} /\ 2^(m + 1) = 2 * 2^m
    BY PowersOfTwo
  <2>2. ASSUME NEW mask \in Masks(m) PROVE ValueOf(mask) \in 0 .. 2^(m + 1) - 1
    BY <1>2, <2>1
  <2>3. ASSUME NEW mask \in Masks(m) PROVE ValueOf(mask \cup {m}) \in 0 .. 2^(m + 1) - 1
    <3>1. ValueOf(mask) \in 0 .. 2^m - 1
      BY <1>2
    <3>2. ValueOf(mask \cup {m}) = 2^m + ValueOf(mask)
      BY <2>1, <3>1, ValueWith
    <3> QED
      BY <2>1, <3>1, <3>2
  <2>4. \A mask \in Masks(m + 1) : ValueOf(mask) \in 0 .. 2^(m + 1) - 1
    BY <2>2, <2>3, OneMoreBit
  <2> QED
    BY <2>4
<1>3. Nat \subseteq P
  <2> HIDE DEF P
  <2> QED
    BY <1>1, <1>2, NaturalsFrom
<1> QED
  BY <1>3

\* No two masks have the same value.
LEMMA ValueInjective ==
  ASSUME NEW n \in Nat
  PROVE  \A a, b \in Masks(n) : ValueOf(a) = ValueOf(b) => a = b
<1> DEFINE P == {m \in Nat : \A a, b \in Masks(m) : ValueOf(a) = ValueOf(b) => a = b}
<1>1. 0 \in P
  <2>1. Masks(0) = {{}}
    BY DEF Masks
  <2> QED
    BY <2>1
<1>2. ASSUME NEW m \in Nat, m \in P PROVE m + 1 \in P
  <2>1. 2^m \in Nat \ {0}
    BY PowersOfTwo
  <2>2. \A q \in Masks(m) : /\ ValueOf(q) \in 0 .. 2^m - 1
                            /\ ValueOf(q \cup {m}) = 2^m + ValueOf(q)
    BY <2>1, ValueBounds, ValueWith
  <2>3. ASSUME NEW a \in Masks(m + 1), NEW b \in Masks(m + 1), ValueOf(a) = ValueOf(b)
        PROVE  a = b
    <3>1. CASE a \in Masks(m) /\ b \in Masks(m)
      BY <1>2, <2>3, <3>1
    <3>2. CASE a \notin Masks(m) /\ b \notin Masks(m)
      <4>1. PICK p \in Masks(m), q \in Masks(m) : a = p \cup {m} /\ b = q \cup {m}
        BY <3>2, OneMoreBit
      <4>2. ValueOf(p) = ValueOf(q)
        BY <2>1, <2>2, <2>3, <4>1
      <4> QED
        BY <1>2, <4>1, <4>2
    <3>3. ASSUME NEW x \in Masks(m), NEW q \in Masks(m)
          PROVE  ValueOf(x) # ValueOf(q \cup {m})
      <4>1. ValueOf(x) \in 0 .. 2^m - 1 /\ ValueOf(q) \in 0 .. 2^m - 1
        BY <2>2
      <4>2. ValueOf(q \cup {m}) = 2^m + ValueOf(q)
        BY <2>2
      <4> QED
        BY <2>1, <4>1, <4>2
    <3>4. \A y \in Masks(m + 1) : y \notin Masks(m) => \E q \in Masks(m) : y = q \cup {m}
      BY OneMoreBit
    <3> QED
      BY <2>3, <3>1, <3>2, <3>3, <3>4
  <2> QED
    BY <2>3
<1>3. Nat \subseteq P
  <2> HIDE DEF P
  <2> QED
    BY <1>1, <1>2, NaturalsFrom
<1> QED
  BY <1>3

\* Every power of two is an even multiple of the smaller ones.
LEMMA PowersDivide ==
  ASSUME NEW k \in Nat
  PROVE  \A n \in Nat : n > k => \E c \in Nat : 2^n = 2^k * (2 * c)
<1> DEFINE P == {d \in Nat : \E c \in Nat : 2^(k + d + 1) = 2^k * (2 * c)}
<1>1. 0 \in P
  <2>1. 2^(k + 1) = 2^k * (2 * 1) /\ k + 0 + 1 = k + 1
    BY PowersOfTwo
  <2> QED
    BY <2>1
<1>2. ASSUME NEW d \in Nat, d \in P PROVE d + 1 \in P
  <2>1. PICK c \in Nat : 2^(k + d + 1) = 2^k * (2 * c)
    BY <1>2
  <2>2. 2^((k + d + 1) + 1) = 2 * 2^(k + d + 1)
    BY PowersOfTwo
  <2>3. PICK e \in Nat : e = 2^k
    BY PowersOfTwo
  <2>4. 2 * (e * (2 * c)) = e * (2 * (2 * c))
    OBVIOUS
  <2>5. (k + d + 1) + 1 = k + (d + 1) + 1 /\ 2 * c \in Nat
    OBVIOUS
  <2>6. 2^(k + (d + 1) + 1) = 2^k * (2 * (2 * c))
    BY <2>1, <2>2, <2>3, <2>4, <2>5
  <2>7. \E f \in Nat : 2^(k + (d + 1) + 1) = 2^k * (2 * f)
    BY <2>5, <2>6
  <2> QED
    BY <2>7
<1>3. Nat \subseteq P
  <2> HIDE DEF P
  <2> QED
    BY <1>1, <1>2, NaturalsFrom
<1>4. ASSUME NEW n \in Nat, n > k PROVE \E c \in Nat : 2^n = 2^k * (2 * c)
  <2>1. n - k - 1 \in Nat /\ k + (n - k - 1) + 1 = n
    BY <1>4
  <2> QED
    BY <1>3, <2>1
<1> QED
  BY <1>4

\* The bits of a number below 2^n have its value.
LEMMA ValueOfMask ==
  ASSUME NEW n \in Nat
  PROVE  \A v \in 0 .. 2^n - 1 : MaskOf(v, n) \in Masks(n) /\ ValueOf(MaskOf(v, n)) = v
<1> DEFINE P == {m \in Nat : \A v \in 0 .. 2^m - 1 : ValueOf(MaskOf(v, m)) = v}
<1>0. \A m \in Nat : \A v \in Nat : MaskOf(v, m) \in Masks(m)
  BY DEF MaskOf, Masks
<1>1. 0 \in P
  <2>1. \A v \in 0 .. 2^0 - 1 : v = 0 /\ MaskOf(v, 0) = {}
    BY PowersOfTwo DEF MaskOf
  <2>2. ValueOf({}) = 0
    <3>1. {} \in Masks(0)
      BY DEF Masks
    <3> QED
      BY <3>1, ValueWith
  <2> QED
    BY <2>1, <2>2
<1>2. ASSUME NEW m \in Nat, m \in P PROVE m + 1 \in P
  <2>1. 2^m \in Nat \ {0} /\ 2^(m + 1) = 2 * 2^m
    BY PowersOfTwo
  <2>2. PICK t \in Nat \ {0} : t = 2^m
    BY <2>1
  <2>3. 0 .. m + 1 - 1 = (0 .. m - 1) \cup {m} /\ m \notin 0 .. m - 1
    OBVIOUS
  <2>4. ASSUME NEW v \in 0 .. t - 1 PROVE ValueOf(MaskOf(v, m + 1)) = v
    <3>1. v = t * 0 + v
      OBVIOUS
    <3>2. v \div t = 0
      BY <3>1, QuotientIsUnique
    <3>3. MaskOf(v, m + 1) = MaskOf(v, m)
      BY <2>2, <2>3, <3>2 DEF MaskOf
    <3> QED
      BY <1>2, <2>2, <3>3
  <2>5. ASSUME NEW w \in 0 .. t - 1 PROVE ValueOf(MaskOf(t + w, m + 1)) = t + w
    <3>1. t + w = t * 1 + w
      OBVIOUS
    <3>2. (t + w) \div t = 1
      BY <3>1, QuotientIsUnique
    <3>3. ASSUME NEW k \in 0 .. m - 1
          PROVE  ((t + w) \div 2^k) % 2 = (w \div 2^k) % 2
      <4>1. PICK d \in Nat \ {0} : d = 2^k
        BY PowersOfTwo
      <4>2. PICK c \in Nat : t = d * (2 * c)
        BY <2>2, <4>1, PowersDivide
      <4>3. PICK q \in Nat, r \in 0 .. d - 1 : w = d * q + r /\ w \div d = q
        BY Division
      <4>4. t + w = d * (2 * c + q) + r
        BY <4>2, <4>3
      <4>5. (t + w) \div d = 2 * c + q
        BY <4>4, QuotientIsUnique
      <4>6. (2 * c + q) % 2 = q % 2
        OBVIOUS
      <4> QED
        BY <4>1, <4>3, <4>5, <4>6
    <3>4. MaskOf(t + w, m + 1) = MaskOf(w, m) \cup {m}
      <4>1. ((t + w) \div 2^m) % 2 = 1
        BY <2>2, <3>2
      <4>2. MaskOf(t + w, m + 1) = {k \in (0 .. m - 1) \cup {m} : ((t + w) \div 2^k) % 2 = 1}
        BY <2>3 DEF MaskOf
      <4>3. MaskOf(w, m) = {k \in 0 .. m - 1 : (w \div 2^k) % 2 = 1}
        BY DEF MaskOf
      <4> QED
        BY <2>3, <3>3, <4>1, <4>2, <4>3
    <3>5. ValueOf(MaskOf(w, m)) = w
      BY <1>2, <2>2
    <3> QED
      BY <1>0, <2>2, <3>4, <3>5, ValueWith
  <2>6. ASSUME NEW v \in 0 .. 2^(m + 1) - 1 PROVE ValueOf(MaskOf(v, m + 1)) = v
    <3>1. CASE v < t
      BY <2>4, <3>1
    <3>2. CASE v >= t
      <4>1. v - t \in 0 .. t - 1 /\ t + (v - t) = v
        BY <2>1, <2>2, <3>2
      <4> QED
        BY <2>5, <4>1
    <3> QED
      BY <2>2, <3>1, <3>2
  <2> QED
    BY <2>6
<1>3. Nat \subseteq P
  <2> HIDE DEF P
  <2> QED
    BY <1>1, <1>2, NaturalsFrom
<1>4. 2^n \in Nat
  BY PowersOfTwo
<1> QED
  BY <1>0, <1>3, <1>4

LEMMA MaskOfValue ==
  ASSUME NEW n \in Nat
  PROVE  \A m \in Masks(n) : MaskOf(ValueOf(m), n) = m
BY ValueBounds, ValueOfMask, ValueInjective

-----------------------------------------------------------------------------
(* The transform.  After k stages an entry is a signed sum over the        *)
(* entries that differ from it in the bits below k.                        *)

\* The real and the imaginary parts of a row.
Re(row) == [q \in DOMAIN row |-> row[q].re]
Im(row) == [q \in DOMAIN row |-> row[q].im]

\* The columns that z meets in the first k stages, with their signs, their sum,
\* and the row of these sums.
Low(k) == 0 .. k - 1
Signed(r, k, z) == [s \in Masks(k) |-> Sign(z \cap s) * r[(z \ Low(k)) \cup s]]
After(r, k, z) == SumOver(Signed(r, k, z), Masks(k))
AfterStages(row, n, k) ==
  [z \in Masks(n) |-> C(After(Re(row), k, z), After(Im(row), k, z))]

\* One more bit in common turns the sign.
LEMMA SignIs ==
  ASSUME NEW S, IsFiniteSet(S)
  PROVE  /\ Sign(S) \in {1, -1}
         /\ \A e : e \notin S => Sign(S \cup {e}) = -Sign(S)
<1>1. PICK c \in Nat : c = Cardinality(S)
  BY FS_CardinalityType
<1>2. ASSUME NEW e, e \notin S PROVE Cardinality(S \cup {e}) = c + 1
  BY <1>1, <1>2, FS_AddElement
<1>3. c % 2 \in {0, 1} /\ (c + 1) % 2 = 1 - (c % 2)
  OBVIOUS
<1> QED
  BY <1>1, <1>2, <1>3 DEF Sign

LEMMA SignEmpty == Sign({}) = 1
BY FS_EmptySet DEF Sign

\* Masks of the low bits fit between those above.
LEMMA LowMasks ==
  ASSUME NEW n \in Nat, NEW k \in 0 .. n, NEW z \in Masks(n)
  PROVE  \A s \in Masks(k) : (z \ Low(k)) \cup s \in Masks(n)
BY DEF Masks, Low

LEMMA SignedTypes ==
  ASSUME NEW n \in Nat, NEW r \in [Masks(n) -> Int], NEW k \in 0 .. n, NEW z \in Masks(n)
  PROVE  /\ \A s \in Masks(k) : Signed(r, k, z)[s] \in Int
         /\ After(r, k, z) \in Int
<1>1. IsFiniteSet(Masks(k)) /\ IsFiniteSet(z)
  BY MasksFinite
<1>2. ASSUME NEW s \in Masks(k) PROVE Signed(r, k, z)[s] \in Int
  <2>1. IsFiniteSet(z \cap s)
    BY <1>1, FS_Subset
  <2>2. Sign(z \cap s) \in {1, -1}
    BY <2>1, SignIs
  <2>3. r[(z \ Low(k)) \cup s] \in Int
    BY LowMasks
  <2>4. PICK a \in {1, -1}, b \in Int : a = Sign(z \cap s) /\ b = r[(z \ Low(k)) \cup s]
    BY <2>2, <2>3
  <2>5. a * b \in Int
    OBVIOUS
  <2> QED
    BY <2>4, <2>5 DEF Signed
<1> QED
  BY <1>1, <1>2, SumUnfold DEF After

\* One stage more: the entries with bit k and those without.
LEMMA OneMoreStage ==
  ASSUME NEW n \in Nat, NEW r \in [Masks(n) -> Int], NEW k \in 0 .. n - 1, NEW z \in Masks(n)
  PROVE  /\ k \in z => After(r, k + 1, z) = After(r, k, z \ {k}) - After(r, k, z)
         /\ k \notin z => After(r, k + 1, z) = After(r, k, z) + After(r, k, z \cup {k})
<1> DEFINE f == Signed(r, k + 1, z)
           M == Masks(k)
           m == [s \in M |-> s \cup {k}]
           H == {m[s] : s \in M}
           g == [s \in M |-> f[m[s]]]
           y == IF k \in z THEN z \ {k} ELSE z
           w == IF k \in z THEN z ELSE z \cup {k}
<1>0. /\ k \in 0 .. n /\ k \in Nat /\ k + 1 \in 0 .. n
      /\ y \in Masks(n) /\ w \in Masks(n)
  BY DEF Masks
<1>1. H = {s \cup {k} : s \in M}
  OBVIOUS
<1>2. Masks(k + 1) = M \cup H /\ M \cap H = {}
  BY <1>0, <1>1, OneMoreBit
<1>3. \A s \in Masks(k + 1) : f[s] \in Int
  BY <1>0, SignedTypes
<1>4. IsFiniteSet(M) /\ IsFiniteSet(H)
  BY <1>0, MasksFinite, ImageFinite
<1>5. After(r, k + 1, z) = SumOver(f, M) + SumOver(f, H)
  <2> HIDE DEF f, M, H
  <2> QED
    BY <1>2, <1>3, <1>4, SumUnion DEF After, f
<1>6. SumOver(g, M) = SumOver(f, H)
  <2>1. \A s \in M : g[s] \in Int /\ f[m[s]] = g[s]
    BY <1>2, <1>3
  <2>2. \A s, t \in M : m[s] = m[t] => s = t
    BY <1>0, OneMoreBit
  <2> HIDE DEF g, m, f
  <2> QED
    BY <1>4, <2>1, <2>2, SumMapped
<1>7. ASSUME NEW s \in M
      PROVE  /\ k \notin s /\ (z \ Low(k + 1)) = y \ Low(k)
             /\ z \cap s = y \cap s /\ z \cap s = w \cap s
             /\ (y \ Low(k)) \cup (s \cup {k}) = (w \ Low(k)) \cup s
             /\ IsFiniteSet(z \cap s)
  <2>1. k \notin s
    BY DEF Masks
  <2>2. Low(k + 1) = Low(k) \cup {k}
    BY DEF Low
  <2>3. k \notin Low(k)
    BY DEF Low
  <2>4. IsFiniteSet(z \cap s)
    BY MasksFinite, FS_Subset
  <2> QED
    BY <2>1, <2>2, <2>3, <2>4
<1>8. SumOver(f, M) = After(r, k, y)
  <2>1. \A s \in M : f[s] \in Int /\ Signed(r, k, y)[s] = f[s]
    BY <1>2, <1>3, <1>7 DEF Signed
  <2> HIDE DEF f, y
  <2> QED
    BY <1>4, <2>1, SumSame DEF After
<1>9. ASSUME NEW s \in M
      PROVE  g[s] = (IF k \in z THEN -1 ELSE 1) * Signed(r, k, w)[s]
  <2>1. g[s] = Sign(z \cap (s \cup {k})) * r[(y \ Low(k)) \cup (s \cup {k})]
    BY <1>2, <1>7 DEF Signed
  <2>2. Signed(r, k, w)[s] = Sign(z \cap s) * r[(w \ Low(k)) \cup s]
    BY <1>7 DEF Signed
  <2>3. PICK b \in Int : b = r[(w \ Low(k)) \cup s]
    BY <1>0, LowMasks
  <2>4. PICK a \in {1, -1} : a = Sign(z \cap s)
    BY <1>7, SignIs
  <2>5. Sign(z \cap (s \cup {k})) = IF k \in z THEN -a ELSE a
    <3>1. CASE k \in z
      <4>1. z \cap (s \cup {k}) = (z \cap s) \cup {k} /\ k \notin z \cap s
        BY <1>7, <3>1
      <4> QED
        BY <1>7, <2>4, <3>1, <4>1, SignIs
    <3>2. CASE k \notin z
      <4>1. z \cap (s \cup {k}) = z \cap s
        BY <3>2
      <4> QED
        BY <2>4, <3>2, <4>1
    <3> QED
      BY <3>1, <3>2
  <2>6. (-a) * b = (-1) * (a * b) /\ a * b = 1 * (a * b)
    OBVIOUS
  <2>7. r[(y \ Low(k)) \cup (s \cup {k})] = b
    BY <1>7, <2>3
  <2>8. g[s] = (IF k \in z THEN -a ELSE a) * b
    BY ONLY <2>1, <2>5, <2>7
  <2>9. Signed(r, k, w)[s] = a * b
    BY ONLY <2>2, <2>3, <2>4
  <2> HIDE DEF g, w, f
  <2>10. CASE k \in z
    BY <2>6, <2>8, <2>9, <2>10
  <2>11. CASE k \notin z
    BY <2>6, <2>8, <2>9, <2>11
  <2> QED
    BY <2>10, <2>11
<1>10. SumOver(g, M) = (IF k \in z THEN -1 ELSE 1) * After(r, k, w)
  <2>1. \A s \in M : Signed(r, k, w)[s] \in Int
    BY <1>0, SignedTypes
  <2> DEFINE c == IF k \in z THEN -1 ELSE 1
  <2>2. c \in Int
    OBVIOUS
  <2>3. \A s \in M : g[s] = c * Signed(r, k, w)[s]
    BY <1>9
  <2> HIDE DEF g, w, c
  <2>4. SumOver(g, M) = c * SumOver(Signed(r, k, w), M)
    BY <1>4, <2>1, <2>2, <2>3, SumScaled
  <2> QED
    BY <2>4 DEF After, c
<1>11. After(r, k, y) \in Int /\ After(r, k, w) \in Int
  <2> HIDE DEF y, w
  <2> QED
    BY <1>0, SignedTypes
<1> HIDE DEF g, f, M, H
<1> QED
  BY <1>5, <1>6, <1>8, <1>10, <1>11

\* The rows of an operator on n qubits.
Rows(n) == [Masks(n) -> Complex]

LEMMA PartsTypes ==
  ASSUME NEW n \in Nat, NEW row \in Rows(n)
  PROVE  /\ DOMAIN row = Masks(n)
         /\ Re(row) \in [Masks(n) -> Int] /\ Im(row) \in [Masks(n) -> Int]
         /\ \A q \in Masks(n) : /\ row[q] \in Complex
                                /\ Re(row)[q] = row[q].re /\ Im(row)[q] = row[q].im
                                /\ row[q] = C(row[q].re, row[q].im)
<1>1. \A q \in Masks(n) : /\ row[q] \in Complex /\ row[q] = C(row[q].re, row[q].im)
                          /\ row[q].re \in Int /\ row[q].im \in Int
  BY DEF Rows, Complex, C
<1> QED
  BY <1>1 DEF Rows, Re, Im

LEMMA AfterTypes ==
  ASSUME NEW n \in Nat, NEW row \in Rows(n), NEW k \in 0 .. n
  PROVE  AfterStages(row, n, k) \in Rows(n)
<1>1. \A z \in Masks(n) : After(Re(row), k, z) \in Int /\ After(Im(row), k, z) \in Int
  BY PartsTypes, SignedTypes
<1> QED
  BY <1>1 DEF AfterStages, Rows, Complex, C

\* Before the first stage the sums are the row itself.
LEMMA AfterNone ==
  ASSUME NEW n \in Nat, NEW row \in Rows(n)
  PROVE  AfterStages(row, n, 0) = row
<1>1. ASSUME NEW r \in [Masks(n) -> Int], NEW z \in Masks(n) PROVE After(r, 0, z) = r[z]
  <2>1. Masks(0) = {{}}
    BY DEF Masks
  <2>2. z \cap {} = {} /\ (z \ Low(0)) \cup {} = z
    BY DEF Low
  <2>3. Signed(r, 0, z)[{}] = r[z]
    <3>1. Signed(r, 0, z)[{}] = Sign(z \cap {}) * r[(z \ Low(0)) \cup {}]
      BY <2>1 DEF Signed
    <3>2. r[z] \in Int /\ 1 * r[z] = r[z]
      OBVIOUS
    <3> QED
      BY <2>2, <3>1, <3>2, SignEmpty
  <2> DEFINE f == Signed(r, 0, z)
             S == {{}}
             E == {}
  <2>4. IsFiniteSet(S) /\ E \in S /\ E \in SUBSET S /\ E \in S \ {} /\ S = {} \cup {E}
    BY FS_Singleton
  <2>5. f[E] = r[z] /\ r[z] \in Int /\ \A x \in S : f[x] \in Int
    BY <2>3
  <2>6. After(r, 0, z) = SumOver(f, S)
    BY <2>1 DEF After
  <2> HIDE DEF f, S
  <2>7. SumOver(f, S) = f[E] + SumOver(f, S \ {E})
    BY <2>4, <2>5, SumWithout
  <2>8. S \ {E} = {}
    BY DEF S
  <2>9. SumOver(f, {}) = 0
    BY <2>4, <2>5, SumWith
  <2> QED
    BY <2>5, <2>6, <2>7, <2>8, <2>9
<1>2. \A z \in Masks(n) : AfterStages(row, n, 0)[z] = row[z]
  BY <1>1, PartsTypes DEF AfterStages
<1>3. AfterStages(row, n, 0) \in Rows(n)
  BY AfterTypes
<1> QED
  BY <1>2, <1>3 DEF Rows

\* The pairs of stage k.
LEMMA AfterOneMore ==
  ASSUME NEW n \in Nat, NEW row \in Rows(n), NEW k \in 0 .. n - 1
  PROVE  \A z \in Masks(n) :
           /\ z \ {k} \in Masks(n) /\ z \cup {k} \in Masks(n)
           /\ AfterStages(row, n, k + 1)[z] =
                IF k \in z
                THEN Minus(AfterStages(row, n, k)[z \ {k}], AfterStages(row, n, k)[z])
                ELSE Plus(AfterStages(row, n, k)[z], AfterStages(row, n, k)[z \cup {k}])
<1> TAKE z \in Masks(n)
<1>1. z \ {k} \in Masks(n) /\ z \cup {k} \in Masks(n)
  BY DEF Masks
<1>2. ASSUME NEW r \in [Masks(n) -> Int]
      PROVE  /\ k \in z => After(r, k + 1, z) = After(r, k, z \ {k}) - After(r, k, z)
             /\ k \notin z => After(r, k + 1, z) = After(r, k, z) + After(r, k, z \cup {k})
  BY <1>2, OneMoreStage
<1>3. /\ After(Re(row), k + 1, z) = IF k \in z THEN After(Re(row), k, z \ {k}) - After(Re(row), k, z)
                                    ELSE After(Re(row), k, z) + After(Re(row), k, z \cup {k})
      /\ After(Im(row), k + 1, z) = IF k \in z THEN After(Im(row), k, z \ {k}) - After(Im(row), k, z)
                                    ELSE After(Im(row), k, z) + After(Im(row), k, z \cup {k})
  BY <1>2, PartsTypes
<1> QED
  BY <1>1, <1>3 DEF AfterStages, Plus, Minus, C

-----------------------------------------------------------------------------
(* Recursion over the stages.                                              *)

\* A set of columns that the stages from .. to - 1 do not leave.
Closed(cols, from, to) ==
  \A q \in cols : \A k \in from .. to - 1 : q \ {k} \in cols /\ q \cup {k} \in cols

\* Stages of the columns in cols, a set that these stages do not leave.
LEMMA StagesOfColumns ==
  ASSUME NEW n \in Nat, NEW row \in Rows(n), NEW from \in 0 .. n, NEW to \in from .. n,
         NEW cols \in SUBSET Masks(n),
         Closed(cols, from, to), NEW start \in Rows(n),
         \A q \in cols : start[q] = AfterStages(row, n, from)[q]
  PROVE  Stages(start, cols, from, to) =
           [q \in Masks(n) |-> IF q \in cols THEN AfterStages(row, n, to)[q] ELSE start[q]]
<1> DEFINE g == [k \in from .. to |->
                   [q \in Masks(n) |-> IF q \in cols THEN AfterStages(row, n, k)[q]
                                       ELSE start[q]]]
           Is(h) == h = [k \in from .. Greatest(from, to) |->
                           IF k = from THEN start ELSE StageOn(h[k - 1], cols, k - 1)]
           after == CHOOSE h : Is(h)
<1>1. Greatest(from, to) = to
  BY DEF Greatest
<1>2. Stages(start, cols, from, to) = after[to]
  BY <1>1 DEF Stages
<1>3. g[from] = start
  BY DEF Rows
<1>4. ASSUME NEW k \in from + 1 .. to PROVE g[k] = StageOn(g[k - 1], cols, k - 1)
  <2>1. /\ k - 1 \in from .. to - 1 /\ k - 1 \in 0 .. n - 1 /\ (k - 1) + 1 = k
        /\ k \in from .. to /\ k - 1 \in from .. to
    OBVIOUS
  <2>2. PICK j \in 0 .. n - 1 : j = k - 1 /\ j + 1 = k /\ j \in from .. to - 1
    BY <2>1
  <2>3. /\ g[k] = [q \in Masks(n) |-> IF q \in cols THEN AfterStages(row, n, j + 1)[q]
                                      ELSE start[q]]
        /\ g[k - 1] = [q \in Masks(n) |-> IF q \in cols THEN AfterStages(row, n, j)[q]
                                          ELSE start[q]]
    BY <2>1, <2>2
  <2>4. DOMAIN g[k - 1] = Masks(n)
    BY <2>3
  <2> DEFINE gk == g[k]
             gj == g[k - 1]
  <2>5. ASSUME NEW q \in Masks(n) PROVE gk[q] = StageOn(gj, cols, j)[q]
    <3>1. CASE q \in cols
      <4>1. q \ {j} \in cols /\ q \cup {j} \in cols
        BY <2>2, <3>1 DEF Closed
      <4>2. /\ g[k - 1][q] = AfterStages(row, n, j)[q]
            /\ g[k - 1][q \ {j}] = AfterStages(row, n, j)[q \ {j}]
            /\ g[k - 1][q \cup {j}] = AfterStages(row, n, j)[q \cup {j}]
            /\ g[k][q] = AfterStages(row, n, j + 1)[q]
        BY <2>3, <3>1, <4>1
      <4> HIDE DEF g
      <4> QED
        BY <2>4, <3>1, <4>2, AfterOneMore DEF StageOn
    <3>2. CASE q \notin cols
      <4>1. g[k][q] = start[q] /\ g[k - 1][q] = start[q]
        BY <2>3, <3>2
      <4> HIDE DEF g
      <4> QED
        BY <2>4, <3>2, <4>1 DEF StageOn
    <3> QED
      BY <3>1, <3>2
  <2>6. StageOn(gj, cols, j) = [q \in Masks(n) |-> StageOn(gj, cols, j)[q]]
    BY <2>4 DEF StageOn
  <2>7. gk = [q \in Masks(n) |-> gk[q]]
    <3>1. gk = [q \in Masks(n) |-> IF q \in cols THEN AfterStages(row, n, j + 1)[q]
                                  ELSE start[q]]
      BY <2>3
    <3> HIDE DEF gk, g
    <3> QED
      BY <3>1
  <2>8. gk = StageOn(gj, cols, j)
    <3> HIDE DEF gk, gj, g
    <3> QED
      BY <2>5, <2>6, <2>7
  <2> QED
    BY <2>2, <2>8
<1>5. Is(g)
  <2>1. \A k \in from .. to : g[k] = IF k = from THEN start ELSE StageOn(g[k - 1], cols, k - 1)
    <3> HIDE DEF g
    <3> TAKE k \in from .. to
    <3>1. CASE k = from
      BY <1>3, <3>1
    <3>2. CASE k # from
      <4>1. k \in from + 1 .. to
        BY <3>2
      <4> QED
        BY <1>4, <3>2, <4>1
    <3> QED
      BY <3>1, <3>2
  <2>2. g = [k \in from .. to |-> g[k]]
    OBVIOUS
  <2> HIDE DEF g
  <2> QED
    BY <1>1, <2>1, <2>2
<1>6. Is(after)
  <2> HIDE DEF Is, g
  <2> QED
    BY <1>5
<1>7. \A k \in from .. to :
        after[k] = IF k = from THEN start ELSE StageOn(after[k - 1], cols, k - 1)
  <2> HIDE DEF after
  <2> QED
    BY <1>1, <1>6
<1>8. \A k \in from .. to : after[k] = g[k]
  <2> HIDE DEF after, g
  <2> DEFINE P == {d \in Nat : from + d <= to => after[from + d] = g[from + d]}
  <2>1. 0 \in P
    BY <1>3, <1>7
  <2>2. ASSUME NEW d \in Nat, d \in P PROVE d + 1 \in P
    <3> SUFFICES ASSUME from + (d + 1) <= to
                 PROVE  after[from + (d + 1)] = g[from + (d + 1)]
      OBVIOUS
    <3>1. /\ from + (d + 1) \in from + 1 .. to /\ from + (d + 1) \in from .. to
          /\ from + (d + 1) # from /\ from + (d + 1) - 1 = from + d /\ from + d <= to
      OBVIOUS
    <3>2. after[from + d] = g[from + d]
      BY <2>2, <3>1
    <3>3. after[from + (d + 1)] = StageOn(after[from + d], cols, from + d)
      BY <1>7, <3>1
    <3>4. g[from + (d + 1)] = StageOn(g[from + d], cols, from + d)
      BY <1>4, <3>1
    <3> QED
      BY <3>2, <3>3, <3>4
  <2>3. Nat \subseteq P
    <3> HIDE DEF P
    <3> QED
      BY <2>1, <2>2, NaturalsFrom
  <2>4. ASSUME NEW k \in from .. to PROVE after[k] = g[k]
    <3>1. k - from \in Nat /\ from + (k - from) = k
      OBVIOUS
    <3> QED
      BY <2>3, <3>1
  <2> QED
    BY <2>4
<1>9. to \in from .. to
  OBVIOUS
<1>10. after[to] = g[to]
  BY <1>8, <1>9
<1> HIDE DEF after
<1> QED
  BY <1>2, <1>9, <1>10

\* The columns of one tile: those with the same high bits.
Tile(b, high) == {low \cup high : low \in Masks(b)}

LEMMA TileColumns ==
  ASSUME NEW n \in Nat, NEW b \in 0 .. n, NEW high \in SUBSET (b .. n - 1)
  PROVE  /\ Tile(b, high) \in SUBSET Masks(n)
         /\ \A q \in Masks(n) : q \in Tile(b, high) <=> q \ Low(b) = high
         /\ \A q \in Tile(b, high) : \A k \in 0 .. b - 1 :
              q \ {k} \in Tile(b, high) /\ q \cup {k} \in Tile(b, high)
<1>1. Tile(b, high) \in SUBSET Masks(n)
  <2>1. \A low \in Masks(b) : low \cup high \in Masks(n)
    BY DEF Masks
  <2> QED
    BY <2>1 DEF Tile
<1>2. ASSUME NEW q \in Masks(n) PROVE q \in Tile(b, high) <=> q \ Low(b) = high
  <2>1. ASSUME NEW low \in Masks(b), q = low \cup high PROVE q \ Low(b) = high
    <3>1. \A k \in low : k \in Low(b)
      BY DEF Masks, Low
    <3>2. \A k \in high : k \notin Low(b)
      BY DEF Low
    <3> QED
      BY <2>1, <3>1, <3>2
  <2>2. ASSUME q \ Low(b) = high PROVE q \in Tile(b, high)
    <3>1. q \cap Low(b) \in Masks(b) /\ q = (q \cap Low(b)) \cup high
      BY <2>2 DEF Masks, Low
    <3> QED
      BY <3>1 DEF Tile
  <2> QED
    BY <2>1, <2>2 DEF Tile
<1>3. ASSUME NEW q \in Tile(b, high), NEW k \in 0 .. b - 1
      PROVE  q \ {k} \in Tile(b, high) /\ q \cup {k} \in Tile(b, high)
  <2>1. /\ q \in Masks(n) /\ q \ Low(b) = high
    BY <1>1, <1>2
  <2>2. q \ {k} \in Masks(n) /\ q \cup {k} \in Masks(n)
    BY <2>1 DEF Masks
  <2>3. (q \ {k}) \ Low(b) = high /\ (q \cup {k}) \ Low(b) = high
    BY <2>1 DEF Low
  <2> QED
    BY <1>2, <2>2, <2>3
<1> QED
  BY <1>1, <1>2, <1>3

\* One tile after the other, from stage from to stage b.
LEMMA StagesOfTiles ==
  ASSUME NEW n \in Nat, NEW row \in Rows(n), NEW b \in 0 .. n, NEW from \in 0 .. b
  PROVE  OnTiles(AfterStages(row, n, from), n, b, from) = AfterStages(row, n, b)
<1> DEFINE S == SUBSET (b .. n - 1)
           before == AfterStages(row, n, from)
           done == AfterStages(row, n, b)
           g == [s \in SUBSET S |->
                   [q \in Masks(n) |-> IF q \ Low(b) \in s THEN done[q] ELSE before[q]]]
           Is(h) == h = [s \in SUBSET S |->
                           IF s = {} THEN before
                           ELSE LET high == CHOOSE x \in s : TRUE
                                IN  Stages(h[s \ {high}],
                                           {low \cup high : low \in Masks(b)}, from, b)]
           iter == CHOOSE h : Is(h)
<1>1. OnTiles(before, n, b, from) = iter[S]
  BY DEF OnTiles, FoldSet, MapThenFoldSet
<1>2. before \in Rows(n) /\ done \in Rows(n)
  BY AfterTypes
<1>3. g[{}] = before
  BY <1>2 DEF Rows
<1>4. ASSUME NEW s \in SUBSET S, s # {}
      PROVE  /\ Picked(s) \in s
             /\ g[s] = Stages(g[s \ {Picked(s)}], Tile(b, Picked(s)), from, b)
  <2>1. PICK x \in s : x = Picked(s)
    BY <1>4 DEF Picked
  <2> DEFINE t == s \ {x}
             gs == g[s]
             gt == g[t]
  <2>2. x \in S /\ t \in SUBSET S
    BY <2>1
  <2>3. gt = [q \in Masks(n) |-> IF q \ Low(b) \in t THEN done[q] ELSE before[q]]
    BY <2>2
  <2>4. gs = [q \in Masks(n) |-> IF q \ Low(b) \in s THEN done[q] ELSE before[q]]
    OBVIOUS
  <2> HIDE DEF gs, gt, t, g, done, before
  <2>5. gt \in Rows(n)
    BY <1>2, <2>3 DEF Rows
  <2>6. \A q \in Tile(b, x) : gt[q] = before[q]
    BY <2>2, <2>3, TileColumns DEF t
  <2>7. Stages(gt, Tile(b, x), from, b) =
          [q \in Masks(n) |-> IF q \in Tile(b, x) THEN done[q] ELSE gt[q]]
    <3>1. b \in from .. n /\ from \in 0 .. n
      OBVIOUS
    <3>2. PICK cols \in SUBSET Masks(n) : cols = Tile(b, x)
      BY <2>2, TileColumns
    <3>3. Closed(cols, from, b)
      <4>1. \A k \in from .. b - 1 : k \in 0 .. b - 1
        OBVIOUS
      <4> QED
        BY <2>2, <3>2, <4>1, TileColumns DEF Closed
    <3>4. \A q \in cols : gt[q] = AfterStages(row, n, from)[q]
      BY <2>6, <3>2 DEF before
    <3>5. Stages(gt, cols, from, b) =
            [q \in Masks(n) |-> IF q \in cols THEN AfterStages(row, n, b)[q] ELSE gt[q]]
      BY <2>5, <3>1, <3>3, <3>4, StagesOfColumns
    <3> QED
      BY <3>2, <3>5 DEF done
  <2>8. \A q \in Masks(n) : gs[q] = Stages(gt, Tile(b, x), from, b)[q]
    BY <2>1, <2>2, <2>3, <2>4, <2>7, TileColumns DEF t
  <2>9. gs = Stages(gt, Tile(b, x), from, b)
    BY <2>4, <2>7, <2>8
  <2> QED
    BY <2>1, <2>9 DEF gs, gt, t
<1>5. Is(g)
  <2>1. \A s \in SUBSET S :
          g[s] = IF s = {} THEN before
                 ELSE LET high == CHOOSE x \in s : TRUE
                      IN  Stages(g[s \ {high}], {low \cup high : low \in Masks(b)}, from, b)
    <3> HIDE DEF g
    <3> QED
      BY <1>3, <1>4 DEF Picked, Tile
  <2>2. g = [s \in SUBSET S |-> g[s]]
    OBVIOUS
  <2> HIDE DEF g
  <2> QED
    BY <2>1, <2>2
<1>6. Is(iter)
  <2> HIDE DEF Is, g
  <2> QED
    BY <1>5
<1>7. /\ iter[{}] = before
      /\ \A s \in SUBSET S : s # {} =>
           iter[s] = Stages(iter[s \ {Picked(s)}], Tile(b, Picked(s)), from, b)
  <2> HIDE DEF iter
  <2> QED
    BY <1>6 DEF Picked, Tile
<1>8. IsFiniteSet(S)
  <2>1. IsFiniteSet(b .. n - 1)
    BY FS_Interval
  <2> QED
    BY <2>1, FS_SUBSET
<1>9. iter[S] = g[S]
  <2> HIDE DEF iter, g
  <2>1. TakesTheSteps(iter, g, S)
    BY <1>4, <1>7 DEF TakesTheSteps
  <2> QED
    BY <1>3, <1>7, <1>8, <2>1, FoldUnique
<1>10. g[S] = done
  <2>1. \A q \in Masks(n) : q \ Low(b) \in S
    BY DEF Masks, Low
  <2>2. g[S] = [q \in Masks(n) |-> IF q \ Low(b) \in S THEN done[q] ELSE before[q]]
    OBVIOUS
  <2> HIDE DEF g, S, done, before
  <2> QED
    BY <1>2, <2>1, <2>2 DEF Rows
<1> HIDE DEF iter, g
<1> QED
  BY <1>1, <1>9, <1>10

\* The kernel's blocks, tiles and spans, whatever the size of a tile.
LEMMA TiledIsAllStages ==
  ASSUME NEW n \in Nat, NEW row \in Rows(n), NEW b \in 0 .. n
  PROVE  Tiled(row, n, b) = AfterStages(row, n, n)
<1> DEFINE first == IF b >= 3 THEN 3 ELSE 0
           blocks == IF b >= 3 THEN OnTiles(row, n, 3, 0) ELSE row
           tiles == OnTiles(blocks, n, b, first)
<1>1. Tiled(row, n, b) = Stages(tiles, Masks(n), b, n)
  BY DEF Tiled
<1>2. blocks = AfterStages(row, n, first)
  <2>1. row = AfterStages(row, n, 0)
    BY AfterNone
  <2>2. CASE b >= 3
    <3>1. 3 \in 0 .. n /\ 0 \in 0 .. 3
      BY <2>2
    <3>2. OnTiles(AfterStages(row, n, 0), n, 3, 0) = AfterStages(row, n, 3)
      BY <3>1, StagesOfTiles
    <3> QED
      BY <2>1, <2>2, <3>2
  <2>3. CASE ~(b >= 3)
    BY <2>1, <2>3
  <2> QED
    BY <2>2, <2>3
<1>3. first \in 0 .. b
  OBVIOUS
<1> HIDE DEF first, blocks
<1>4. tiles = AfterStages(row, n, b)
  BY <1>2, <1>3, StagesOfTiles
<1> HIDE DEF tiles
<1>5. PICK cols \in SUBSET Masks(n) : cols = Masks(n)
  OBVIOUS
<1>6. Closed(cols, b, n)
  BY <1>5 DEF Closed, Masks
<1>7. tiles \in Rows(n) /\ \A q \in cols : tiles[q] = AfterStages(row, n, b)[q]
  BY <1>4, AfterTypes
<1>8. n \in b .. n
  OBVIOUS
<1>9. Stages(tiles, cols, b, n) =
        [q \in Masks(n) |-> IF q \in cols THEN AfterStages(row, n, n)[q] ELSE tiles[q]]
  BY <1>6, <1>7, <1>8, StagesOfColumns
<1>10. AfterStages(row, n, n) = [q \in Masks(n) |-> AfterStages(row, n, n)[q]]
  BY DEF AfterStages
<1> QED
  BY <1>1, <1>5, <1>9, <1>10

-----------------------------------------------------------------------------
(* Without the kernel.                                                     *)

\* What the scratch row holds after the first of the three steps of a stage.
Differences(row, n, k) ==
  [q \in {c \in Masks(n) : k \notin c} |-> Minus(row[q], row[q \cup {k}])]

Memory(row, scratch) == [row |-> row, scratch |-> scratch]

\* The two rows that the butterfly works on.
LEMMA MemoryParts ==
  ASSUME NEW r, NEW s, NEW new
  PROVE  /\ Memory(r, s).row = r /\ Memory(r, s).scratch = s
         /\ [Memory(r, s) EXCEPT !.scratch = new] = Memory(r, new)
         /\ [Memory(r, s) EXCEPT !.row = new] = Memory(new, s)
BY DEF Memory

\* A stage through the scratch row is a stage.
LEMMA StageThroughScratch ==
  ASSUME NEW n \in Nat, NEW row \in Rows(n), NEW scratch, NEW k \in 0 .. n - 1
  PROVE  Stage(Memory(row, scratch), k) =
           Memory(StageOn(row, Masks(n), k), Differences(row, n, k))
<1> DEFINE d == Differences(row, n, k)
           sum == [q \in Masks(n) |-> IF k \in q THEN row[q]
                                      ELSE Plus(row[q], row[q \cup {k}])]
           back == [q \in Masks(n) |-> IF k \in q THEN d[q \ {k}] ELSE sum[q]]
<1>0. DOMAIN row = Masks(n)
  BY DEF Rows
<1>1. Subtract(Memory(row, scratch), k) = Memory(row, d)
  <2> DEFINE m == Memory(row, scratch)
             new == [q \in {c \in DOMAIN m.row : k \notin c} |->
                       Minus(m.row[q], m.row[q \cup {k}])]
  <2>1. Subtract(m, k) = [m EXCEPT !.scratch = new]
    BY DEF Subtract
  <2>2. new = d
    BY <1>0, MemoryParts DEF Differences
  <2> HIDE DEF new, d
  <2> QED
    BY <2>1, <2>2, MemoryParts
<1>2. Add(Memory(row, d), k) = Memory(sum, d)
  <2> HIDE DEF d
  <2> DEFINE m == Memory(row, d)
             new == [q \in DOMAIN m.row |-> IF k \in q THEN m.row[q]
                                            ELSE Plus(m.row[q], m.row[q \cup {k}])]
  <2>1. Add(m, k) = [m EXCEPT !.row = new]
    BY DEF Add
  <2>2. new = sum
    BY <1>0, MemoryParts
  <2> HIDE DEF new, sum
  <2> QED
    BY <2>1, <2>2, MemoryParts
<1>3. Return(Memory(sum, d), k) = Memory(back, d)
  <2>0. DOMAIN sum = Masks(n)
    OBVIOUS
  <2> HIDE DEF d, sum
  <2> DEFINE m == Memory(sum, d)
             new == [q \in DOMAIN m.row |-> IF k \in q THEN m.scratch[q \ {k}]
                                            ELSE m.row[q]]
  <2>1. Return(m, k) = [m EXCEPT !.row = new]
    BY DEF Return
  <2>2. new = back
    BY <2>0, MemoryParts
  <2> HIDE DEF new, back
  <2> QED
    BY <2>1, <2>2, MemoryParts
<1>4. back = StageOn(row, Masks(n), k)
  <2>1. ASSUME NEW q \in Masks(n) PROVE back[q] = StageOn(row, Masks(n), k)[q]
    <3>1. CASE k \in q
      <4>1. /\ q \ {k} \in Masks(n) /\ k \notin q \ {k}
            /\ (q \ {k}) \cup {k} = q
        BY <3>1 DEF Masks
      <4>2. d[q \ {k}] = Minus(row[q \ {k}], row[q])
        BY <4>1 DEF Differences
      <4> HIDE DEF d
      <4> QED
        BY <1>0, <3>1, <4>2 DEF StageOn
    <3>2. CASE k \notin q
      BY <1>0, <3>2 DEF StageOn
    <3> QED
      BY <3>1, <3>2
  <2>2. StageOn(row, Masks(n), k) = [q \in Masks(n) |-> StageOn(row, Masks(n), k)[q]]
    BY <1>0 DEF StageOn
  <2>3. back = [q \in Masks(n) |-> back[q]]
    <3> HIDE DEF d, sum
    <3> QED
      OBVIOUS
  <2> HIDE DEF back
  <2> QED
    BY <2>1, <2>2, <2>3
<1> HIDE DEF back, sum, d
<1> QED
  BY <1>1, <1>2, <1>3, <1>4 DEF Stage, d

\* Without the kernel, too, n stages give the sums over all columns.
LEMMA ButterflyIsAllStages ==
  ASSUME NEW n \in Nat, NEW row \in Rows(n)
  PROVE  Butterfly(row, n) = AfterStages(row, n, n)
<1> DEFINE base == Memory(row, [q \in {} |-> Zero])
           scratch(k) == IF k = 0 THEN [q \in {} |-> Zero]
                         ELSE Differences(AfterStages(row, n, k - 1), n, k - 1)
           g == [k \in 0 .. n |-> Memory(AfterStages(row, n, k), scratch(k))]
           Is(h) == h = [k \in 0 .. n |-> IF k = 0 THEN base ELSE Stage(h[k - 1], k - 1)]
           after == CHOOSE h : Is(h)
<1>1. Butterfly(row, n) = after[n].row
  BY DEF Butterfly, Memory
<1>2. g[0] = base
  BY AfterNone
<1>3. ASSUME NEW k \in 0 .. n - 1 PROVE g[k + 1] = Stage(g[k], k)
  <2>1. /\ k \in 0 .. n /\ k + 1 \in 0 .. n /\ k + 1 # 0 /\ (k + 1) - 1 = k
    OBVIOUS
  <2>2. AfterStages(row, n, k + 1) = StageOn(AfterStages(row, n, k), Masks(n), k)
    <3> DEFINE a == AfterStages(row, n, k)
               s == StageOn(a, Masks(n), k)
               t == AfterStages(row, n, k + 1)
    <3>1. DOMAIN a = Masks(n)
      BY DEF AfterStages
    <3>2. \A z \in Masks(n) : t[z] = s[z]
      BY <3>1, AfterOneMore DEF StageOn
    <3>3. t = [z \in Masks(n) |-> t[z]]
      BY DEF AfterStages
    <3>4. s = [z \in Masks(n) |-> s[z]]
      BY <3>1 DEF StageOn
    <3> HIDE DEF s, t
    <3> QED
      BY <3>2, <3>3, <3>4 DEF s, t, a
  <2>3. g[k + 1] = Memory(AfterStages(row, n, k + 1), Differences(AfterStages(row, n, k), n, k))
    BY <2>1
  <2>4. g[k] = Memory(AfterStages(row, n, k), scratch(k))
    BY <2>1
  <2>5. AfterStages(row, n, k) \in Rows(n)
    BY <2>1, AfterTypes
  <2> HIDE DEF g, scratch
  <2> QED
    BY <2>2, <2>3, <2>4, <2>5, StageThroughScratch
<1>4. Is(g)
  <2>1. \A k \in 0 .. n : g[k] = IF k = 0 THEN base ELSE Stage(g[k - 1], k - 1)
    <3> HIDE DEF g, base
    <3> TAKE k \in 0 .. n
    <3>1. CASE k # 0
      <4>1. PICK j \in 0 .. n - 1 : j = k - 1 /\ j + 1 = k
        BY <3>1
      <4>2. g[j + 1] = Stage(g[j], j)
        BY <1>3
      <4> QED
        BY <3>1, <4>1, <4>2
    <3> QED
      BY <1>2, <3>1
  <2>2. g = [k \in 0 .. n |-> g[k]]
    OBVIOUS
  <2> HIDE DEF g, base
  <2> QED
    BY <2>1, <2>2
<1>5. Is(after)
  <2> HIDE DEF Is, g
  <2> QED
    BY <1>4
<1>6. \A k \in 0 .. n : after[k] = IF k = 0 THEN base ELSE Stage(after[k - 1], k - 1)
  <2> HIDE DEF after, base
  <2> QED
    BY <1>5
<1>7. after[n] = g[n]
  <2> HIDE DEF after, g, base
  <2> DEFINE P == {k \in Nat : k <= n => after[k] = g[k]}
  <2>1. 0 \in P
    BY <1>2, <1>6
  <2>2. ASSUME NEW k \in Nat, k \in P PROVE k + 1 \in P
    <3> SUFFICES ASSUME k + 1 <= n PROVE after[k + 1] = g[k + 1]
      OBVIOUS
    <3>1. k \in 0 .. n - 1 /\ k + 1 \in 0 .. n /\ k + 1 # 0 /\ (k + 1) - 1 = k /\ k <= n
      OBVIOUS
    <3>2. after[k] = g[k]
      BY <2>2, <3>1
    <3>3. after[k + 1] = Stage(after[k], k)
      BY <1>6, <3>1
    <3> QED
      BY <1>3, <3>1, <3>2, <3>3
  <2>3. Nat \subseteq P
    <3> HIDE DEF P
    <3> QED
      BY <2>1, <2>2, NaturalsFrom
  <2> QED
    BY <2>3
<1>8. g[n] = Memory(AfterStages(row, n, n), scratch(n))
  OBVIOUS
<1> HIDE DEF after, g, scratch
<1> QED
  BY <1>1, <1>7, <1>8 DEF Memory

\* The kernel, whatever its tile, and NumPy compute the same transform.
LEMMA TransformIsAllStages ==
  ASSUME NEW n \in Nat, NEW row \in Rows(n), NEW kernel \in Nat \cup {NoKernel}
  PROVE  Transform(row, n, kernel) = AfterStages(row, n, n)
<1>1. CASE kernel = NoKernel
  BY <1>1, ButterflyIsAllStages DEF Transform
<1>2. CASE kernel # NoKernel
  <2>1. PICK b \in 0 .. n : b = IF kernel <= n THEN kernel ELSE n
    BY <1>2
  <2> QED
    BY <1>2, <2>1, TiledIsAllStages DEF Transform
<1> QED
  BY <1>1, <1>2

\* ... and it is the transform's definition.
THEOREM TransformIsTheDefinition ==
  ASSUME NEW n \in Nat, NEW row \in Rows(n), NEW kernel \in Nat \cup {NoKernel}
  PROVE  Transform(row, n, kernel) =
           [z \in Masks(n) |-> Total([q \in Masks(n) |-> Scaled(row[q], Sign(z \cap q))])]
<1>1. ASSUME NEW z \in Masks(n)
      PROVE  AfterStages(row, n, n)[z] =
               Total([q \in Masks(n) |-> Scaled(row[q], Sign(z \cap q))])
  <2> DEFINE f == [q \in Masks(n) |-> Scaled(row[q], Sign(z \cap q))]
             fr == [q \in Masks(n) |-> f[q].re]
             fi == [q \in Masks(n) |-> f[q].im]
  <2>1. z \ Low(n) = {} /\ \A s : {} \cup s = s
    BY DEF Masks, Low
  <2>2. \A s \in Masks(n) : /\ Signed(Re(row), n, z)[s] = fr[s]
                            /\ Signed(Im(row), n, z)[s] = fi[s]
    <3> TAKE s \in Masks(n)
    <3>1. /\ Signed(Re(row), n, z)[s] = Sign(z \cap s) * Re(row)[s]
          /\ Signed(Im(row), n, z)[s] = Sign(z \cap s) * Im(row)[s]
      BY <2>1 DEF Signed
    <3>2. Re(row)[s] = row[s].re /\ Im(row)[s] = row[s].im
      BY PartsTypes
    <3>3. fr[s] = Sign(z \cap s) * row[s].re /\ fi[s] = Sign(z \cap s) * row[s].im
      BY DEF Scaled, C
    <3> QED
      BY <3>1, <3>2, <3>3
  <2>3. /\ Total(f) = C(SumOver(fr, Masks(n)), SumOver(fi, Masks(n)))
    BY DEF Total, SumOver, SumFunction
  <2>4. /\ \A s \in Masks(n) : Signed(Re(row), n, z)[s] \in Int
        /\ \A s \in Masks(n) : Signed(Im(row), n, z)[s] \in Int
    BY PartsTypes, SignedTypes
  <2>5. IsFiniteSet(Masks(n))
    BY MasksFinite
  <2> HIDE DEF fr, fi
  <2>6. /\ SumOver(Signed(Re(row), n, z), Masks(n)) = SumOver(fr, Masks(n))
        /\ SumOver(Signed(Im(row), n, z), Masks(n)) = SumOver(fi, Masks(n))
    BY <2>2, <2>4, <2>5, SumSame
  <2> QED
    BY <2>3, <2>6 DEF AfterStages, After
<1>2. AfterStages(row, n, n) = [z \in Masks(n) |-> AfterStages(row, n, n)[z]]
  BY DEF AfterStages
<1> QED
  BY <1>1, <1>2, TransformIsAllStages

-----------------------------------------------------------------------------
(* Sorting.                                                                *)

\* The elements whose key is smaller; their number tells elements apart.
Below(S, key, e) == {d \in S : key[d] < key[e]}

LEMMA BelowGrows ==
  ASSUME NEW S, IsFiniteSet(S), NEW key, \A e \in S : key[e] \in Int
  PROVE  \A d, e \in S :
           /\ Cardinality(Below(S, key, e)) \in 0 .. Cardinality(S) - 1
           /\ key[d] < key[e] => Cardinality(Below(S, key, d)) < Cardinality(Below(S, key, e))
<1>1. \A T \in SUBSET S : IsFiniteSet(T) /\ Cardinality(T) \in Nat
  BY FS_Subset, FS_CardinalityType
<1>2. ASSUME NEW T \in SUBSET S, NEW U \in SUBSET T, U # T
      PROVE  Cardinality(U) < Cardinality(T)
  <2>1. IsFiniteSet(T) /\ Cardinality(U) \in Nat /\ Cardinality(T) \in Nat
    BY <1>1
  <2>2. Cardinality(U) <= Cardinality(T) /\ Cardinality(T) # Cardinality(U)
    BY <1>2, <2>1, FS_Subset
  <2> QED
    BY <2>1, <2>2
<1>3. ASSUME NEW d \in S, NEW e \in S
      PROVE  /\ Below(S, key, e) \in SUBSET S /\ Below(S, key, e) # S
             /\ key[d] < key[e] => /\ Below(S, key, d) \in SUBSET Below(S, key, e)
                                   /\ Below(S, key, d) # Below(S, key, e)
  <2>1. e \notin Below(S, key, e) /\ d \notin Below(S, key, d)
    BY DEF Below
  <2>2. ASSUME key[d] < key[e]
        PROVE  d \in Below(S, key, e) /\ Below(S, key, d) \in SUBSET Below(S, key, e)
    BY <2>2 DEF Below
  <2> QED
    BY <2>1, <2>2 DEF Below
<1> TAKE d, e \in S
<1> DEFINE bd == Below(S, key, d)
           be == Below(S, key, e)
<1> HIDE DEF bd, be
<1>4. be \in SUBSET S /\ be # S /\ (key[d] < key[e] => bd \in SUBSET be /\ bd # be)
  BY <1>3 DEF bd, be
<1>5. Cardinality(be) < Cardinality(S) /\ Cardinality(be) \in Nat /\ Cardinality(S) \in Nat
  BY <1>1, <1>2, <1>4
<1>6. key[d] < key[e] => Cardinality(bd) < Cardinality(be)
  BY <1>2, <1>4
<1> QED
  BY <1>5, <1>6 DEF bd, be

\* A lists the elements of S by rising keys.
Sorted(A, S, key) ==
  /\ DOMAIN A = 1 .. Cardinality(S)
  /\ \A k \in DOMAIN A : A[k] \in S
  /\ \A j, k \in DOMAIN A : j < k => key[A[j]] < key[A[k]]
  /\ \A e \in S : \E k \in DOMAIN A : A[k] = e

\* What Ascending lists.
LEMMA AscendingSorts ==
  ASSUME NEW S, IsFiniteSet(S), NEW key, \A e \in S : key[e] \in Int,
         \A d, e \in S : key[d] = key[e] => d = e
  PROVE  Sorted(Ascending(S, key), S, key)
<1> DEFINE rank == [e \in S |-> Cardinality(Below(S, key, e))]
           n == Cardinality(S)
           A == Ascending(S, key)
<1>1. n \in Nat
  BY FS_CardinalityType
<1>2. \A d, e \in S : rank[e] \in 0 .. n - 1 /\ (key[d] < key[e] => rank[d] < rank[e])
  BY BelowGrows
<1>3. A = [k \in 1 .. n |-> CHOOSE e \in S : rank[e] = k - 1]
  <2>1. \A e \in S : rank[e] = Cardinality({d \in S : key[d] < key[e]})
    BY DEF Below
  <2> HIDE DEF rank
  <2> QED
    BY <2>1 DEF Ascending
<1>4. rank \in [S -> 0 .. n - 1]
  BY <1>2
<1> HIDE DEF rank, A
<1>5. \A d, e \in S : d # e => rank[d] # rank[e]
  BY <1>2
<1>6. rank \in Surjection(S, 0 .. n - 1)
  <2>1. rank \in Injection(S, 0 .. n - 1)
    BY <1>4, <1>5 DEF Injection, IsInjective
  <2>2. IsFiniteSet(0 .. n - 1) /\ Cardinality(0 .. n - 1) = n
    BY <1>1, FS_Interval
  <2> HIDE DEF n
  <2> QED
    BY <2>1, <2>2, FS_Injection DEF n
<1>7. \A k \in 1 .. n : A[k] \in S /\ rank[A[k]] = k - 1
  <2> TAKE k \in 1 .. n
  <2>1. k - 1 \in 0 .. n - 1
    BY <1>1
  <2>2. \E e \in S : rank[e] = k - 1
    BY <1>6, <2>1 DEF Surjection
  <2> QED
    BY <1>3, <2>2
<1>8. \A j, k \in 1 .. n : j < k => key[A[j]] < key[A[k]]
  <2> TAKE j, k \in 1 .. n
  <2> HAVE j < k
  <2>1. rank[A[j]] < rank[A[k]] /\ A[j] # A[k]
    BY <1>7
  <2>2. ~(key[A[k]] < key[A[j]])
    <3>1. SUFFICES ASSUME key[A[k]] < key[A[j]] PROVE FALSE
      OBVIOUS
    <3>2. rank[A[k]] < rank[A[j]]
      BY <1>2, <1>7, <3>1
    <3> QED
      BY <1>7, <2>1, <3>2
  <2> QED
    BY <1>7, <2>1, <2>2
<1>9. ASSUME NEW e \in S PROVE \E k \in 1 .. n : A[k] = e
  <2>1. PICK k \in 1 .. n : rank[e] = k - 1
    <3>1. rank[e] \in 0 .. n - 1
      BY <1>2
    <3>2. rank[e] + 1 \in 1 .. n /\ rank[e] = (rank[e] + 1) - 1
      BY <1>1, <3>1
    <3> QED
      BY <3>2
  <2>2. rank[A[k]] = rank[e] /\ A[k] \in S
    BY <1>7, <2>1
  <2> QED
    BY <1>5, <2>2
<1>10. DOMAIN A = 1 .. n
  BY <1>3
<1> QED
  BY <1>7, <1>8, <1>9, <1>10 DEF Sorted, A

-----------------------------------------------------------------------------
(* Complex numbers.                                                        *)

\* The laws of complex numbers that the sums and phases need.
LEMMA ComplexTypes ==
  /\ Zero \in Complex
  /\ \A re, im \in Int : C(re, im) \in Complex
  /\ \A a \in Complex : a = C(a.re, a.im) /\ a.re \in Int /\ a.im \in Int
  /\ \A a, b \in Complex : Plus(a, b) \in Complex /\ Minus(a, b) \in Complex
  /\ \A a \in Complex : \A f \in Int : Scaled(a, f) \in Complex
  /\ \A a \in Complex : Conj(a) \in Complex
BY DEF Zero, Complex, C, Plus, Minus, Scaled, Conj

LEMMA TwoParts ==
  ASSUME NEW a \in Complex
  PROVE  \E re, im \in Int : a = C(re, im)
<1>1. a = C(a.re, a.im) /\ a.re \in Int /\ a.im \in Int
  BY ComplexTypes
<1> QED
  BY <1>1

LEMMA TimesTypes ==
  ASSUME NEW a \in Complex, NEW b \in Complex
  PROVE  Times(a, b) \in Complex
<1>0. (\E re, im \in Int : a = C(re, im)) /\ (\E re, im \in Int : b = C(re, im))
  BY TwoParts
<1>1. PICK ar, ai, br, bi \in Int : a = C(ar, ai) /\ b = C(br, bi)
  BY <1>0
<1>2. ar * br - ai * bi \in Int /\ ar * bi + ai * br \in Int
  OBVIOUS
<1>3. Times(a, b) = C(ar * br - ai * bi, ar * bi + ai * br)
  BY ONLY <1>1 DEF Times, C
<1> QED
  BY <1>2, <1>3, ComplexTypes

LEMMA TimesAssociates ==
  ASSUME NEW a \in Complex, NEW b \in Complex, NEW c \in Complex
  PROVE  Times(Times(a, b), c) = Times(a, Times(b, c))
<1>0. /\ \E re, im \in Int : a = C(re, im)
      /\ \E re, im \in Int : b = C(re, im)
      /\ \E re, im \in Int : c = C(re, im)
  BY TwoParts
<1>1. PICK ar, ai, br, bi, cr, ci \in Int : a = C(ar, ai) /\ b = C(br, bi) /\ c = C(cr, ci)
  BY <1>0
<1>2. /\ (ar * br - ai * bi) * cr - (ar * bi + ai * br) * ci
           = ar * (br * cr - bi * ci) - ai * (br * ci + bi * cr)
      /\ (ar * br - ai * bi) * ci + (ar * bi + ai * br) * cr
           = ar * (br * ci + bi * cr) + ai * (br * cr - bi * ci)
  OBVIOUS
<1> QED
  BY ONLY <1>1, <1>2 DEF Times, C

LEMMA TimesCommutes ==
  ASSUME NEW a \in Complex, NEW b \in Complex
  PROVE  Times(a, b) = Times(b, a) /\ Conj(Times(a, b)) = Times(Conj(a), Conj(b))
<1>0. (\E re, im \in Int : a = C(re, im)) /\ (\E re, im \in Int : b = C(re, im))
  BY TwoParts
<1>1. PICK ar, ai, br, bi \in Int : a = C(ar, ai) /\ b = C(br, bi)
  BY <1>0
<1>2. /\ ar * br - ai * bi = br * ar - bi * ai
      /\ ar * bi + ai * br = br * ai + bi * ar
      /\ ar * br - ai * bi = ar * br - (-ai) * (-bi)
      /\ -(ar * bi + ai * br) = ar * (-bi) + (-ai) * br
  OBVIOUS
<1>3. Times(a, b) = Times(b, a)
  BY ONLY <1>1, <1>2 DEF Times, C
<1>4. Conj(Times(a, b)) = Times(Conj(a), Conj(b))
  BY ONLY <1>1, <1>2 DEF Times, C, Conj
<1> QED
  BY <1>3, <1>4

LEMMA TimesOne ==
  ASSUME NEW a \in Complex
  PROVE  /\ Times(a, C(1, 0)) = a /\ Times(C(1, 0), a) = a
         /\ Times(a, Zero) = Zero /\ Times(Zero, a) = Zero
         /\ Times(C(-1, 0), a) = Scaled(a, -1)
         /\ Scaled(a, 1) = a /\ Conj(Conj(a)) = a
<1>1. PICK ar, ai \in Int : a = C(ar, ai)
  BY ComplexTypes
<1> QED
  BY ONLY <1>1, ar \in Int, ai \in Int DEF Times, C, Zero, Scaled, Conj

LEMMA TimesScaled ==
  ASSUME NEW a \in Complex, NEW b \in Complex, NEW f \in Int
  PROVE  /\ Times(Scaled(a, f), b) = Scaled(Times(a, b), f)
         /\ Times(a, Scaled(b, f)) = Scaled(Times(a, b), f)
         /\ Conj(Scaled(a, f)) = Scaled(Conj(a), f)
<1>0. (\E re, im \in Int : a = C(re, im)) /\ (\E re, im \in Int : b = C(re, im))
  BY TwoParts
<1>1. PICK ar, ai, br, bi \in Int : a = C(ar, ai) /\ b = C(br, bi)
  BY <1>0
<1>2. /\ (f * ar) * br - (f * ai) * bi = f * (ar * br - ai * bi)
      /\ (f * ar) * bi + (f * ai) * br = f * (ar * bi + ai * br)
      /\ ar * (f * br) - ai * (f * bi) = f * (ar * br - ai * bi)
      /\ ar * (f * bi) + ai * (f * br) = f * (ar * bi + ai * br)
      /\ -(f * ai) = f * (-ai)
  OBVIOUS
<1> QED
  BY ONLY <1>1, <1>2 DEF Times, C, Scaled, Conj

-----------------------------------------------------------------------------
(* Totals.                                                                 *)

\* A finite family of complex numbers; its total is the pair of the sums of its
\* parts.
Numbers(f, S) == IsFiniteSet(S) /\ DOMAIN f = S /\ \A e \in S : f[e] \in Complex

LEMMA TotalParts ==
  ASSUME NEW S, NEW f, Numbers(f, S)
  PROVE  /\ Total(f) = C(SumOver(Re(f), S), SumOver(Im(f), S))
         /\ \A e \in S : Re(f)[e] \in Int /\ Im(f)[e] \in Int
                         /\ Re(f)[e] = f[e].re /\ Im(f)[e] = f[e].im
         /\ SumOver(Re(f), S) \in Int /\ SumOver(Im(f), S) \in Int
         /\ Total(f) \in Complex
<1>1. Total(f) = C(SumOver(Re(f), S), SumOver(Im(f), S))
  BY DEF Numbers, Total, SumOver, SumFunction, Re, Im
<1>2. \A e \in S : Re(f)[e] \in Int /\ Im(f)[e] \in Int
                   /\ Re(f)[e] = f[e].re /\ Im(f)[e] = f[e].im
  BY ComplexTypes DEF Numbers, Re, Im
<1>3. SumOver(Re(f), S) \in Int /\ SumOver(Im(f), S) \in Int
  BY <1>2, SumUnfold DEF Numbers
<1> QED
  BY <1>1, <1>2, <1>3, ComplexTypes

\* A constant factor.
LEMMA TotalTimes ==
  ASSUME NEW S, NEW f, Numbers(f, S), NEW c \in Complex
  PROVE  Times(Total(f), c) = Total([e \in S |-> Times(f[e], c)])
<1> DEFINE g == [e \in S |-> Times(f[e], c)]
<1>1. PICK cr, ci \in Int : c = C(cr, ci)
  BY ComplexTypes
<1>2. Numbers(g, S)
  BY TimesTypes DEF Numbers
<1>3. ASSUME NEW e \in S
      PROVE  /\ Re(g)[e] = cr * Re(f)[e] + (-ci) * Im(f)[e]
             /\ Im(g)[e] = ci * Re(f)[e] + cr * Im(f)[e]
  <2>1. PICK a, b \in Int : a = Re(f)[e] /\ b = Im(f)[e]
    BY TotalParts
  <2>2. f[e] = C(a, b)
    <3>1. f[e] \in Complex /\ a = f[e].re /\ b = f[e].im
      BY <2>1, TotalParts DEF Numbers
    <3> QED
      BY <3>1, ComplexTypes
  <2>3. Re(g)[e] = Times(f[e], c).re /\ Im(g)[e] = Times(f[e], c).im
    BY DEF Re, Im
  <2>4. a * cr - b * ci = cr * a + (-ci) * b /\ a * ci + b * cr = ci * a + cr * b
    OBVIOUS
  <2>5. Times(C(a, b), C(cr, ci)) = C(a * cr - b * ci, a * ci + b * cr)
    BY DEF Times, C
  <2> QED
    BY ONLY <1>1, <2>1, <2>2, <2>3, <2>4, <2>5 DEF C
<1> HIDE DEF g
<1> DEFINE fr == Re(f)
           fi == Im(f)
           gr == Re(g)
           gi == Im(g)
           a1 == [e \in S |-> cr * fr[e]]
           a2 == [e \in S |-> (-ci) * fi[e]]
           b1 == [e \in S |-> ci * fr[e]]
           b2 == [e \in S |-> cr * fi[e]]
<1>4. IsFiniteSet(S) /\ -ci \in Int
  BY DEF Numbers
<1>5. \A e \in S : fr[e] \in Int /\ fi[e] \in Int
  BY TotalParts
<1> HIDE DEF fr, fi, gr, gi
<1>6. \A e \in S : a1[e] \in Int /\ a2[e] \in Int /\ b1[e] \in Int /\ b2[e] \in Int
  BY <1>4, <1>5
<1>7. \A e \in S : gr[e] = a1[e] + a2[e] /\ gi[e] = b1[e] + b2[e]
  BY <1>3 DEF fr, fi, gr, gi
<1>8. /\ SumOver(a1, S) = cr * SumOver(fr, S) /\ SumOver(a2, S) = (-ci) * SumOver(fi, S)
      /\ SumOver(b1, S) = ci * SumOver(fr, S) /\ SumOver(b2, S) = cr * SumOver(fi, S)
  <2>1. \A e \in S : a1[e] = cr * fr[e] /\ a2[e] = (-ci) * fi[e]
                     /\ b1[e] = ci * fr[e] /\ b2[e] = cr * fi[e]
    OBVIOUS
  <2> HIDE DEF a1, a2, b1, b2
  <2> DEFINE m == -ci
  <2>2. m \in Int /\ \A e \in S : a2[e] = m * fi[e]
    BY <2>1
  <2>3. SumOver(a2, S) = m * SumOver(fi, S)
    <3> HIDE DEF m
    <3> QED
      BY <1>4, <1>5, <2>2, SumScaled
  <2> QED
    BY <1>4, <1>5, <2>1, <2>3, SumScaled
<1>9. /\ SumOver(gr, S) = SumOver(a1, S) + SumOver(a2, S)
      /\ SumOver(gi, S) = SumOver(b1, S) + SumOver(b2, S)
  <2> HIDE DEF a1, a2, b1, b2
  <2> QED
    BY <1>4, <1>6, <1>7, SumPlus
<1>10. PICK s, t \in Int : s = SumOver(fr, S) /\ t = SumOver(fi, S)
  BY TotalParts DEF fr, fi
<1>11. Total(f) = C(s, t) /\ Total(g) = C(SumOver(gr, S), SumOver(gi, S))
  BY <1>2, <1>10, TotalParts DEF fr, fi, gr, gi
<1>12. Total(g) = C(cr * s + (-ci) * t, ci * s + cr * t)
  BY <1>8, <1>9, <1>10, <1>11
<1>13. cr * s + (-ci) * t = s * cr - t * ci /\ ci * s + cr * t = s * ci + t * cr
  OBVIOUS
<1>14. Times(Total(f), c) = Total(g)
  BY ONLY <1>1, <1>11, <1>12, <1>13 DEF Times, C
<1> QED
  BY <1>14 DEF g

-----------------------------------------------------------------------------
(* Powers of i.                                                            *)

\* Each power of i is the one before it times i.
LEMMA IPowers ==
  /\ IPower(0) = C(1, 0)
  /\ \A c \in Nat : IPower(c) \in Complex /\ IPower(c + 1) = Times(IPower(c), C(0, 1))
<1> DEFINE t == << C(1, 0), C(0, 1), C(-1, 0), C(0, -1) >>
<1>1. /\ t[1] = C(1, 0) /\ t[2] = C(0, 1) /\ t[3] = C(-1, 0) /\ t[4] = C(0, -1)
  OBVIOUS
<1>2. \A k : IPower(k) = t[(k % 4) + 1]
  BY DEF IPower
<1> HIDE DEF t
<1>3. /\ Times(t[1], C(0, 1)) = t[2] /\ Times(t[2], C(0, 1)) = t[3]
      /\ Times(t[3], C(0, 1)) = t[4] /\ Times(t[4], C(0, 1)) = t[1]
  BY <1>1 DEF Times, C
<1>4. /\ t[1] \in Complex /\ t[2] \in Complex /\ t[3] \in Complex /\ t[4] \in Complex
  BY <1>1 DEF Complex, C
<1>5. ASSUME NEW c \in Nat
      PROVE  IPower(c) \in Complex /\ IPower(c + 1) = Times(IPower(c), C(0, 1))
  <2>1. c % 4 \in 0 .. 3 /\ (c + 1) % 4 = IF c % 4 = 3 THEN 0 ELSE (c % 4) + 1
    OBVIOUS
  <2>2. PICK r \in 0 .. 3 : r = c % 4
    BY <2>1
  <2>3. (c + 1) % 4 = IF r = 3 THEN 0 ELSE r + 1
    BY <2>1, <2>2
  <2>4. IPower(c) = t[r + 1] /\ IPower(c + 1) = t[(IF r = 3 THEN 0 ELSE r + 1) + 1]
    BY <1>2, <2>2, <2>3
  <2>5. CASE r = 0
    BY <1>3, <1>4, <2>4, <2>5
  <2>6. CASE r = 1
    BY <1>3, <1>4, <2>4, <2>6
  <2>7. CASE r = 2
    BY <1>3, <1>4, <2>4, <2>7
  <2>8. CASE r = 3
    BY <1>3, <1>4, <2>4, <2>8
  <2> QED
    BY <2>2, <2>5, <2>6, <2>7, <2>8
<1>6. IPower(0) = C(1, 0)
  BY <1>1, <1>2
<1> QED
  BY <1>5, <1>6

-----------------------------------------------------------------------------
(* Matrices of labels.                                                     *)

\* XOR bit by bit.
XorBit == \A p, q, b : b \in Xor(p, q) <=> ~(b \in p <=> b \in q)

LEMMA XorBits == XorBit
BY DEF XorBit, Xor, SymDiff

\* What one qubit contributes to an entry of the matrix of a label, in terms of
\* the bits of the masks.
Factor(x, z, p, q, b) ==
  IF b \in Xor(p, q) <=> b \in x
  THEN Scaled(IF b \in x /\ b \in z THEN C(0, 1) ELSE C(1, 0),
              IF b \in z /\ b \in q THEN -1 ELSE 1)
  ELSE Zero

LEMMA EntryIsFactor ==
  ASSUME NEW x, NEW z, NEW p, NEW q, NEW n, NEW j
  PROVE  Entry(Letter(x, z, n, j), n - 1 - j \in p, n - 1 - j \in q) =
           Factor(x, z, p, q, n - 1 - j)
<1> DEFINE b == n - 1 - j
<1> HIDE DEF b
<1>1. Letter(x, z, n, j) = CASE b \in x /\ b \in z -> "Y"
                             [] b \in x /\ b \notin z -> "X"
                             [] b \notin x /\ b \in z -> "Z"
                             [] OTHER -> "I"
  BY DEF Letter, b
<1>2. b \in Xor(p, q) <=> ~(b \in p <=> b \in q)
  BY XorBits DEF XorBit
<1>3. /\ Scaled(C(0, 1), 1) = C(0, 1) /\ Scaled(C(0, 1), -1) = C(0, -1)
      /\ Scaled(C(1, 0), 1) = C(1, 0) /\ Scaled(C(1, 0), -1) = C(-1, 0)
  BY DEF Scaled, C
<1>4. ASSUME NEW row \in BOOLEAN, NEW column \in BOOLEAN
      PROVE  /\ Entry("I", row, column) = IF row = column THEN C(1, 0) ELSE Zero
             /\ Entry("X", row, column) = IF row # column THEN C(1, 0) ELSE Zero
             /\ Entry("Y", row, column) = IF row = column THEN Zero
                                          ELSE C(0, IF row THEN 1 ELSE -1)
             /\ Entry("Z", row, column) = IF row # column THEN Zero
                                          ELSE C(IF row THEN -1 ELSE 1, 0)
  BY DEF Entry
<1>5. ASSUME NEW row \in BOOLEAN, NEW column \in BOOLEAN,
             row <=> b \in p, column <=> b \in q
      PROVE  Entry(Letter(x, z, n, j), row, column) = Factor(x, z, p, q, b)
  <2>1. CASE b \in x /\ b \in z
    <3>1. Letter(x, z, n, j) = "Y"
      BY <1>1, <2>1
    <3>2. Factor(x, z, p, q, b) = IF row = column THEN Zero ELSE IF row THEN C(0, 1) ELSE C(0, -1)
      BY <1>2, <1>3, <1>5, <2>1 DEF Factor
    <3> QED
      BY <1>4, <3>1, <3>2
  <2>2. CASE b \in x /\ b \notin z
    <3>1. Letter(x, z, n, j) = "X"
      BY <1>1, <2>2
    <3>2. Factor(x, z, p, q, b) = IF row = column THEN Zero ELSE C(1, 0)
      BY <1>2, <1>3, <1>5, <2>2 DEF Factor
    <3> QED
      BY <1>4, <3>1, <3>2
  <2>3. CASE b \notin x /\ b \in z
    <3>1. Letter(x, z, n, j) = "Z"
      BY <1>1, <2>3
    <3>2. Factor(x, z, p, q, b) = IF row # column THEN Zero ELSE IF row THEN C(-1, 0) ELSE C(1, 0)
      BY <1>2, <1>3, <1>5, <2>3 DEF Factor
    <3> QED
      BY <1>4, <3>1, <3>2
  <2>4. CASE b \notin x /\ b \notin z
    <3>1. Letter(x, z, n, j) = "I"
      BY <1>1, <2>4
    <3>2. Factor(x, z, p, q, b) = IF row # column THEN Zero ELSE C(1, 0)
      BY <1>2, <1>3, <1>5, <2>4 DEF Factor
    <3> QED
      BY <1>4, <3>1, <3>2
  <2> QED
    BY <2>1, <2>2, <2>3, <2>4
<1>6. (b \in p) \in BOOLEAN /\ (b \in q) \in BOOLEAN
  OBVIOUS
<1> QED
  BY <1>5, <1>6 DEF b

-----------------------------------------------------------------------------
\* The entry of the first i letters, which are those of the bits from n - i.
High(n, i) == n - i .. n - 1

\* What the qubits in H contribute together.
Partial(x, z, p, q, H) ==
  IF Xor(p, q) \cap H = x \cap H
  THEN Scaled(IPower(Cardinality(x \cap z \cap H)), Sign(z \cap q \cap H))
  ELSE Zero

\* One bit more.
LEMMA OneMoreFactor ==
  ASSUME NEW n \in Nat, NEW x \in Masks(n), NEW z \in Masks(n), NEW p \in Masks(n),
         NEW q \in Masks(n), NEW H \in Masks(n), NEW b \in 0 .. n - 1, b \notin H
  PROVE  /\ Partial(x, z, p, q, H) \in Complex
         /\ Times(Partial(x, z, p, q, H), Factor(x, z, p, q, b)) =
              Partial(x, z, p, q, H \cup {b})
<1> DEFINE u == x \cap z \cap H
           v == z \cap q \cap H
           w == Xor(p, q)
           P == Partial(x, z, p, q, H)
           F == Factor(x, z, p, q, b)
           f0 == IF b \in x /\ b \in z THEN C(0, 1) ELSE C(1, 0)
           s0 == IF b \in z /\ b \in q THEN -1 ELSE 1
<1>1. IsFiniteSet(u) /\ IsFiniteSet(v)
  <2>1. IsFiniteSet(z)
    BY MasksFinite
  <2> QED
    BY <2>1, FS_Subset
<1>2. PICK c \in Nat : c = Cardinality(u)
  BY <1>1, FS_CardinalityType
<1>3. PICK a \in {1, -1} : a = Sign(v)
  BY <1>1, SignIs
<1>4. IPower(c) \in Complex /\ IPower(c + 1) = Times(IPower(c), C(0, 1))
  BY IPowers
<1>5. P = IF w \cap H = x \cap H THEN Scaled(IPower(c), a) ELSE Zero
  BY <1>2, <1>3 DEF Partial
<1>6. P \in Complex
  BY <1>4, <1>5, ComplexTypes
<1>7. f0 \in Complex /\ s0 \in {1, -1}
  BY ComplexTypes
<1>8. F = IF b \in w <=> b \in x THEN Scaled(f0, s0) ELSE Zero
  BY DEF Factor
<1>9. w \cap (H \cup {b}) = x \cap (H \cup {b}) <=>
        (w \cap H = x \cap H /\ (b \in w <=> b \in x))
  <2> HIDE DEF w
  <2>1. ASSUME w \cap (H \cup {b}) = x \cap (H \cup {b})
        PROVE  w \cap H = x \cap H /\ (b \in w <=> b \in x)
    <3>1. \A e \in H \cup {b} : e \in w <=> e \in x
      BY <2>1
    <3> QED
      BY <3>1
  <2>2. ASSUME w \cap H = x \cap H, b \in w <=> b \in x
        PROVE  w \cap (H \cup {b}) = x \cap (H \cup {b})
    <3>1. \A e \in H : e \in w <=> e \in x
      BY <2>2
    <3> QED
      BY <2>2, <3>1
  <2> QED
    BY <2>1, <2>2
<1> HIDE DEF w
<1>10. Cardinality(x \cap z \cap (H \cup {b})) = IF b \in x /\ b \in z THEN c + 1 ELSE c
  <2>1. CASE b \in x /\ b \in z
    <3>1. x \cap z \cap (H \cup {b}) = u \cup {b} /\ b \notin u
      BY <2>1
    <3> QED
      BY <1>1, <1>2, <2>1, <3>1, FS_AddElement
  <2>2. CASE ~(b \in x /\ b \in z)
    <3>1. x \cap z \cap (H \cup {b}) = u
      BY <2>2
    <3> QED
      BY <1>2, <2>2, <3>1
  <2> QED
    BY <2>1, <2>2
<1>11. Sign(z \cap q \cap (H \cup {b})) = IF b \in z /\ b \in q THEN -a ELSE a
  <2>1. CASE b \in z /\ b \in q
    <3>1. z \cap q \cap (H \cup {b}) = v \cup {b} /\ b \notin v
      BY <2>1
    <3>2. Sign(v \cup {b}) = -Sign(v)
      BY <1>1, <3>1, SignIs
    <3> QED
      BY <1>3, <2>1, <3>1, <3>2
  <2>2. CASE ~(b \in z /\ b \in q)
    <3>1. z \cap q \cap (H \cup {b}) = v
      BY <2>2
    <3> QED
      BY <1>3, <2>2, <3>1
  <2> QED
    BY <2>1, <2>2
<1>12. Partial(x, z, p, q, H \cup {b}) =
         IF w \cap (H \cup {b}) = x \cap (H \cup {b})
         THEN Scaled(IPower(IF b \in x /\ b \in z THEN c + 1 ELSE c),
                     IF b \in z /\ b \in q THEN -a ELSE a)
         ELSE Zero
  BY <1>10, <1>11 DEF Partial, w
<1>13. Times(IPower(c), f0) = IPower(IF b \in x /\ b \in z THEN c + 1 ELSE c)
  BY <1>4, TimesOne
<1>14. ASSUME w \cap H = x \cap H, b \in w <=> b \in x
       PROVE  Times(P, F) = Partial(x, z, p, q, H \cup {b})
  <2> DEFINE T == Times(IPower(c), f0)
  <2>1. T \in Complex
    BY <1>4, <1>7, TimesTypes
  <2>2. Scaled(f0, s0) \in Complex /\ a \in Int /\ s0 \in Int
    <3> HIDE DEF f0, s0
    <3> QED
      BY <1>7, ComplexTypes
  <2> HIDE DEF f0, s0
  <2>3. Times(Scaled(IPower(c), a), Scaled(f0, s0)) = Scaled(Scaled(T, s0), a)
    <3>1. Times(Scaled(IPower(c), a), Scaled(f0, s0)) = Scaled(Times(IPower(c), Scaled(f0, s0)), a)
      BY <1>4, <2>2, TimesScaled
    <3>2. Times(IPower(c), Scaled(f0, s0)) = Scaled(T, s0)
      BY <1>4, <1>7, <2>2, TimesScaled
    <3> QED
      BY <3>1, <3>2
  <2>4. Scaled(Scaled(T, s0), a) = Scaled(T, IF b \in z /\ b \in q THEN -a ELSE a)
    <3>1. PICK re, im \in Int : T = C(re, im)
      BY <2>1, TwoParts
    <3>2. PICK d \in {1, -1} : d = s0
      BY <1>7 DEF s0
    <3>3. a * (d * re) = (IF d = -1 THEN -a ELSE a) * re /\ a * (d * im) = (IF d = -1 THEN -a ELSE a) * im
      <4>1. CASE d = 1
        BY <4>1
      <4>2. CASE d = -1
        BY <4>2
      <4> QED
        BY <4>1, <4>2
    <3>4. Scaled(Scaled(C(re, im), d), a) = Scaled(C(re, im), IF d = -1 THEN -a ELSE a)
      BY <3>3 DEF Scaled, C
    <3>5. d = -1 <=> b \in z /\ b \in q
      BY <3>2 DEF s0
    <3> QED
      BY <3>1, <3>2, <3>4, <3>5
  <2> QED
    BY <1>5, <1>8, <1>9, <1>12, <1>13, <1>14, <2>3, <2>4
<1>15. ASSUME ~(w \cap H = x \cap H /\ (b \in w <=> b \in x))
       PROVE  Times(P, F) = Partial(x, z, p, q, H \cup {b})
  <2>1. F \in Complex
    <3>1. Scaled(f0, s0) \in Complex
      <4> HIDE DEF f0, s0
      <4> QED
        BY <1>7, ComplexTypes
    <3> QED
      BY <1>8, <3>1, ComplexTypes
  <2>2. P = Zero \/ F = Zero
    BY <1>5, <1>8, <1>15
  <2>3. Times(P, F) = Zero
    BY <1>6, <2>1, <2>2, TimesOne
  <2> QED
    BY <1>9, <1>12, <1>15, <2>3
<1> QED
  BY <1>6, <1>14, <1>15

\* The entry of a Kronecker product at row p and column q.
StringEntryIs(x, z, p, q) ==
  IF Xor(p, q) = x THEN Scaled(IPower(Cardinality(x \cap z)), Sign(z \cap q)) ELSE Zero

\* The Kronecker product of pauli_string_to_matrix, entry by entry, is the signed
\* permutation that fwht.py builds upon: an entry is zero unless row and column
\* differ by x, and otherwise i^popcount(x & z) with the sign of z & q.
LEMMA StringEntryClosed ==
  ASSUME NEW n \in Nat, NEW x \in Masks(n), NEW z \in Masks(n), NEW p \in Masks(n),
         NEW q \in Masks(n)
  PROVE  StringEntry(Label(x, z, n), p, q) = StringEntryIs(x, z, p, q)
<1> DEFINE label == Label(x, z, n)
           g == [i \in 0 .. n |-> Partial(x, z, p, q, High(n, i))]
           Is(h) == h = [i \in 0 .. Len(label) |->
                           IF i = 0 THEN C(1, 0)
                           ELSE Times(h[i - 1], Entry(label[i], Len(label) - i \in p,
                                                      Len(label) - i \in q))]
           upTo == CHOOSE h : Is(h)
<1>1. Len(label) = n /\ \A i \in 1 .. n : label[i] = Letter(x, z, n, i - 1)
  BY DEF Label
<1>2. StringEntry(label, p, q) = upTo[n]
  <2>1. StringEntry(label, p, q) = upTo[Len(label)]
    BY DEF StringEntry
  <2> QED
    BY <1>1, <2>1
<1>3. g[0] = C(1, 0)
  <2>1. High(n, 0) = {}
    BY DEF High
  <2>2. \A S : S \cap {} = {}
    OBVIOUS
  <2>3. Partial(x, z, p, q, {}) = Scaled(IPower(0), 1)
    BY <2>2, SignEmpty, FS_EmptySet DEF Partial
  <2>4. g[0] = Partial(x, z, p, q, {})
    BY <2>1
  <2> QED
    BY <2>3, <2>4, IPowers, TimesOne
<1>4. ASSUME NEW i \in 0 .. n - 1
      PROVE  g[i + 1] = Times(g[i], Entry(label[i + 1], n - (i + 1) \in p, n - (i + 1) \in q))
  <2> DEFINE b == n - 1 - i
  <2>1. /\ b \in 0 .. n - 1 /\ b = n - (i + 1) /\ b \notin High(n, i)
        /\ High(n, i) \in Masks(n) /\ High(n, i + 1) = High(n, i) \cup {b}
        /\ i \in 0 .. n /\ i + 1 \in 0 .. n /\ i + 1 \in 1 .. n /\ (i + 1) - 1 = i
    BY DEF High, Masks
  <2>2. label[i + 1] = Letter(x, z, n, i)
    BY <1>1, <2>1
  <2>3. Entry(label[i + 1], n - (i + 1) \in p, n - (i + 1) \in q) = Factor(x, z, p, q, b)
    <3>1. Entry(Letter(x, z, n, i), n - 1 - i \in p, n - 1 - i \in q) = Factor(x, z, p, q, n - 1 - i)
      BY EntryIsFactor
    <3>2. n - (i + 1) = n - 1 - i
      OBVIOUS
    <3> QED
      BY <2>2, <3>1, <3>2
  <2>4. g[i] = Partial(x, z, p, q, High(n, i)) /\ g[i + 1] = Partial(x, z, p, q, High(n, i + 1))
    BY <2>1
  <2> HIDE DEF b, g, label
  <2> QED
    BY <2>1, <2>3, <2>4, OneMoreFactor
<1>5. Is(g)
  <2>1. \A i \in 0 .. n : g[i] = IF i = 0 THEN C(1, 0)
                                 ELSE Times(g[i - 1], Entry(label[i], Len(label) - i \in p,
                                                            Len(label) - i \in q))
    <3> HIDE DEF g, label
    <3> TAKE i \in 0 .. n
    <3>1. CASE i # 0
      <4>1. PICK j \in 0 .. n - 1 : j = i - 1 /\ i = j + 1
        BY <3>1
      <4> QED
        BY <1>1, <1>4, <3>1, <4>1
    <3> QED
      BY <1>3, <3>1
  <2>2. g = [i \in 0 .. n |-> g[i]]
    OBVIOUS
  <2> HIDE DEF g, label
  <2> QED
    BY <1>1, <2>1, <2>2
<1>6. Is(upTo)
  <2> HIDE DEF Is, g
  <2> QED
    BY <1>5
<1>7. \A i \in 0 .. n : upTo[i] = IF i = 0 THEN C(1, 0)
                                  ELSE Times(upTo[i - 1], Entry(label[i], n - i \in p, n - i \in q))
  <2> HIDE DEF upTo, label
  <2> QED
    BY <1>1, <1>6
<1>8. upTo[n] = g[n]
  <2> HIDE DEF upTo, g, label
  <2> DEFINE S == {i \in Nat : i <= n => upTo[i] = g[i]}
  <2>1. 0 \in S
    BY <1>3, <1>7
  <2>2. ASSUME NEW i \in Nat, i \in S PROVE i + 1 \in S
    <3> SUFFICES ASSUME i + 1 <= n PROVE upTo[i + 1] = g[i + 1]
      OBVIOUS
    <3>1. i \in 0 .. n - 1 /\ i + 1 \in 0 .. n /\ i + 1 # 0 /\ (i + 1) - 1 = i /\ i <= n
      OBVIOUS
    <3>2. upTo[i] = g[i]
      BY <2>2, <3>1
    <3>3. upTo[i + 1] = Times(upTo[i], Entry(label[i + 1], n - (i + 1) \in p, n - (i + 1) \in q))
      BY <1>7, <3>1
    <3> QED
      BY <1>4, <3>1, <3>2, <3>3
  <2>3. Nat \subseteq S
    <3> HIDE DEF S
    <3> QED
      BY <2>1, <2>2, NaturalsFrom
  <2> QED
    BY <2>3
<1>9. g[n] = StringEntryIs(x, z, p, q)
  <2>1. g[n] = Partial(x, z, p, q, High(n, n))
    OBVIOUS
  <2>2. High(n, n) = 0 .. n - 1
    BY DEF High
  <2>3. Xor(p, q) \subseteq 0 .. n - 1
    BY XorBits DEF XorBit, Masks
  <2>4. /\ Xor(p, q) \cap (0 .. n - 1) = Xor(p, q) /\ x \cap (0 .. n - 1) = x
        /\ x \cap z \cap (0 .. n - 1) = x \cap z /\ z \cap q \cap (0 .. n - 1) = z \cap q
    BY <2>3 DEF Masks
  <2> QED
    BY <2>1, <2>2, <2>4 DEF Partial, StringEntryIs
<1> HIDE DEF upTo, g
<1> QED
  BY <1>2, <1>8, <1>9

\* What is zero may be left out of a total.
LEMMA TotalWithin ==
  ASSUME NEW S, NEW f, Numbers(f, S), NEW T \in SUBSET S, \A e \in S \ T : f[e] = Zero
  PROVE  Numbers([e \in T |-> f[e]], T) /\ Total(f) = Total([e \in T |-> f[e]])
<1> DEFINE g == [e \in T |-> f[e]]
           fr == Re(f)
           fi == Im(f)
           gr == Re(g)
           gi == Im(g)
<1>1. IsFiniteSet(S) /\ IsFiniteSet(T)
  BY FS_Subset DEF Numbers
<1>2. Numbers(g, T)
  BY <1>1 DEF Numbers
<1>3. \A e \in T : gr[e] = fr[e] /\ gi[e] = fi[e]
  <2>1. \A e \in T : gr[e] = g[e].re /\ gi[e] = g[e].im
    BY <1>2, TotalParts
  <2>2. \A e \in S : fr[e] = f[e].re /\ fi[e] = f[e].im
    BY TotalParts
  <2> HIDE DEF gr, gi, fr, fi
  <2> QED
    BY <2>1, <2>2
<1> HIDE DEF g, fr, fi, gr, gi
<1>4. \A e \in S : fr[e] \in Int /\ fi[e] \in Int
  BY TotalParts DEF fr, fi
<1>5. \A e \in S \ T : fr[e] = 0 /\ fi[e] = 0
  <2>1. \A e \in S : fr[e] = f[e].re /\ fi[e] = f[e].im
    BY TotalParts DEF fr, fi
  <2> QED
    BY <2>1 DEF Zero, C
<1>6. SumOver(fr, S) = SumOver(fr, T) /\ SumOver(fi, S) = SumOver(fi, T)
  BY <1>1, <1>4, <1>5, SumWithin
<1>7. SumOver(fr, T) = SumOver(gr, T) /\ SumOver(fi, T) = SumOver(gi, T)
  BY <1>1, <1>3, <1>4, SumSame
<1>8. Total(f) = C(SumOver(fr, S), SumOver(fi, S)) /\ Total(g) = C(SumOver(gr, T), SumOver(gi, T))
  BY <1>2, TotalParts DEF fr, fi, gr, gi
<1> QED
  BY <1>2, <1>6, <1>7, <1>8 DEF g

\* m takes S one to one to where g has the same numbers as f.
Matches(f, S, m, g) ==
  /\ \A x, y \in S : m[x] = m[y] => x = y
  /\ \A x \in S : g[m[x]] = f[x]

\* A total does not depend on how its terms are named.
LEMMA TotalMapped ==
  ASSUME NEW S, NEW f, Numbers(f, S), NEW m, NEW g, Numbers(g, {m[x] : x \in S}),
         Matches(f, S, m, g)
  PROVE  Total(f) = Total(g)
<1> DEFINE T == {m[x] : x \in S}
           fr == Re(f)
           fi == Im(f)
           gr == Re(g)
           gi == Im(g)
<1>0. \A x \in S : m[x] \in T
  OBVIOUS
<1> HIDE DEF T, fr, fi, gr, gi
<1>1. Numbers(g, T) /\ IsFiniteSet(S)
  BY DEF T, Numbers
<1>2. \A x \in S : /\ fr[x] \in Int /\ fi[x] \in Int
                   /\ fr[x] = f[x].re /\ fi[x] = f[x].im
  BY TotalParts DEF fr, fi
<1>3. \A y \in T : gr[y] = g[y].re /\ gi[y] = g[y].im
  BY <1>1, TotalParts DEF gr, gi
<1>4. \A x \in S : gr[m[x]] = fr[x] /\ gi[m[x]] = fi[x]
  BY <1>0, <1>2, <1>3 DEF Matches
<1>5. \A x, y \in S : m[x] = m[y] => x = y
  BY DEF Matches
<1>6. SumOver(fr, S) = SumOver(gr, T) /\ SumOver(fi, S) = SumOver(gi, T)
  BY <1>1, <1>2, <1>4, <1>5, SumMapped DEF T
<1> QED
  BY <1>1, <1>6, TotalParts DEF fr, fi, gr, gi

\* The totals of one number and of none.
LEMMA TotalOfOne ==
  ASSUME NEW e, NEW v \in Complex
  PROVE  Total([d \in {e} |-> v]) = v /\ Total([d \in {} |-> v]) = Zero
<1> DEFINE f == [d \in {e} |-> v]
           h == [d \in {} |-> v]
           S == {e}
           fr == Re(f)
           fi == Im(f)
<1>1. IsFiniteSet(S) /\ e \in S /\ S \ {e} = {}
  BY FS_Singleton
<1>2. Numbers(f, S) /\ f[e] = v
  BY <1>1 DEF Numbers
<1>3. Numbers(h, {})
  BY FS_EmptySet DEF Numbers
<1>4. Total(h) = Zero
  <2> HIDE DEF h
  <2>1. IsFiniteSet({})
    BY FS_EmptySet
  <2>2. SumOver(Re(h), {}) = 0 /\ SumOver(Im(h), {}) = 0
    BY <2>1, SumUnfold
  <2> QED
    BY <1>3, <2>2, TotalParts DEF Zero
<1> HIDE DEF f, S, fr, fi
<1>5. /\ \A d \in S : fr[d] \in Int /\ fi[d] \in Int
      /\ fr[e] = v.re /\ fi[e] = v.im
  BY <1>1, <1>2, TotalParts DEF fr, fi
<1>6. SumOver(fr, {}) = 0 /\ SumOver(fi, {}) = 0
  BY <1>1, <1>5, SumWith
<1>7. SumOver(fr, S) = v.re + 0 /\ SumOver(fi, S) = v.im + 0
  <2>1. SumOver(fr, S) = fr[e] + SumOver(fr, S \ {e}) /\ SumOver(fi, S) = fi[e] + SumOver(fi, S \ {e})
    BY <1>1, <1>5, SumWithout
  <2> QED
    BY <1>1, <1>5, <1>6, <2>1
<1>8. Total(f) = C(v.re, v.im)
  <2>1. v.re \in Int /\ v.im \in Int
    BY ComplexTypes
  <2>2. v.re + 0 = v.re /\ v.im + 0 = v.im
    BY <2>1
  <2> QED
    BY <1>2, <1>7, <2>2, TotalParts DEF fr, fi
<1> QED
  BY <1>4, <1>8, ComplexTypes DEF f

-----------------------------------------------------------------------------
(* Rows of an operator.                                                    *)

\* XOR by a mask is its own inverse.
XorLaws ==
  /\ \A p, q, x : Xor(p, q) = x <=> p = Xor(x, q)
  /\ \A p, q : Xor(p, q) = Xor(q, p)
  /\ \A n : \A p, q \in Masks(n) : Xor(p, q) \in Masks(n)

LEMMA XorIsGroup == XorLaws
<1>1. ASSUME NEW p, NEW q PROVE Xor(Xor(p, q), q) = p
  <2>1. \A b : b \in Xor(Xor(p, q), q) <=> b \in p
    BY XorBits DEF XorBit
  <2> QED
    BY <2>1
<1>2. ASSUME NEW p, NEW q PROVE Xor(p, q) = Xor(q, p)
  BY DEF Xor, SymDiff
<1>3. ASSUME NEW n, NEW p \in Masks(n), NEW q \in Masks(n) PROVE Xor(p, q) \in Masks(n)
  BY DEF Xor, SymDiff, Masks
<1> QED
  BY <1>1, <1>2, <1>3 DEF XorLaws

\* Row x of the XOR-permuted operator: entry q is operator[x ^ q, q].
RowAt(op, x) == [q \in Masks(op.n) |-> At(op, Xor(x, q), q)]

\* Its entries are numbers.
LEMMA RowTypes ==
  ASSUME NEW op, IsOperator(op), NEW x
  PROVE  RowAt(op, x) \in Rows(op.n)
<1>1. \A p, q : At(op, p, q) \in Complex
  BY ComplexTypes DEF At, IsOperator
<1> QED
  BY <1>1 DEF RowAt, Rows

\* Signs and phases are numbers.
PhaseTypes == \A n \in Nat : \A x, z \in Masks(n) :
                /\ IsFiniteSet(x \cap z) /\ Sign(x \cap z) \in {1, -1}
                /\ IPower(Cardinality(x \cap z)) \in Complex
                /\ ConjPhase(x, z) \in Complex

LEMMA PhasesAreNumbers == PhaseTypes
<1> SUFFICES ASSUME NEW n \in Nat, NEW x \in Masks(n), NEW z \in Masks(n)
             PROVE  /\ IsFiniteSet(x \cap z) /\ Sign(x \cap z) \in {1, -1}
                    /\ IPower(Cardinality(x \cap z)) \in Complex
                    /\ ConjPhase(x, z) \in Complex
  BY DEF PhaseTypes
<1>1. IsFiniteSet(x \cap z)
  BY MasksFinite, FS_Subset
<1>2. IPower(Cardinality(x \cap z)) \in Complex
  BY <1>1, FS_CardinalityType, IPowers
<1> QED
  BY <1>1, <1>2, SignIs, ComplexTypes DEF ConjPhase

\* The trace of a label's matrix with an operator, and the code's way to it.
TraceAt(op, x, z) ==
  Total([pq \in DOMAIN op.at |->
           Times(Conj(StringEntry(Label(x, z, op.n), pq[1], pq[2])), op.at[pq])])

\* What the code computes for the masks x and z: the signed sum of row x times
\* the conjugated phase.
CoefficientAt(op, x, z) ==
  Times(Total([q \in Masks(op.n) |-> Scaled(RowAt(op, x)[q], Sign(z \cap q))]),
        ConjPhase(x, z))

LEMMA TraceTypes ==
  ASSUME NEW op, IsOperator(op), NEW x \in Masks(op.n), NEW z \in Masks(op.n)
  PROVE  CoefficientAt(op, x, z) \in Complex
<1> DEFINE S == Masks(op.n)
           f == [q \in S |-> Scaled(RowAt(op, x)[q], Sign(z \cap q))]
<1>1. op.n \in Nat
  BY DEF IsOperator
<1>2. \A q \in S : RowAt(op, x)[q] \in Complex /\ Sign(z \cap q) \in {1, -1}
  BY <1>1, RowTypes, PhasesAreNumbers DEF PhaseTypes, Rows
<1>3. \A q \in S : f[q] \in Complex
  BY <1>2, ComplexTypes
<1>4. Numbers(f, S)
  BY <1>1, <1>3, MasksFinite DEF Numbers
<1>5. Total(f) \in Complex
  <2> HIDE DEF f
  <2> QED
    BY <1>4, TotalParts
<1>6. ConjPhase(x, z) \in Complex
  BY <1>1, PhasesAreNumbers DEF PhaseTypes
<1> HIDE DEF f
<1>7. Times(Total(f), ConjPhase(x, z)) \in Complex
  BY <1>5, <1>6, TimesTypes
<1> QED
  BY <1>7 DEF CoefficientAt, f

\* This is dim times the coefficient of the label, its trace with the operator.
LEMMA CoefficientIsTrace ==
  ASSUME NEW op, IsOperator(op), NEW x \in Masks(op.n), NEW z \in Masks(op.n)
  PROVE  TraceAt(op, x, z) = CoefficientAt(op, x, z)
<1> DEFINE n == op.n
           S == Masks(n)
           D == DOMAIN op.at
           K == ConjPhase(x, z)
           row == RowAt(op, x)
           f == [pq \in D |-> Times(Conj(StringEntry(Label(x, z, n), pq[1], pq[2])), op.at[pq])]
           M == {pq \in D : Xor(pq[1], pq[2]) = x}
           fm == [pq \in M |-> f[pq]]
           Q == {q \in S : <<Xor(x, q), q>> \in D}
           m == [q \in Q |-> <<Xor(x, q), q>>]
           s == [q \in S |-> Scaled(row[q], Sign(z \cap q))]
           g == [q \in S |-> Times(s[q], K)]
           gq == [q \in Q |-> g[q]]
<1>1. n \in Nat /\ D \subseteq S \X S /\ \A pq \in D : op.at[pq] \in Complex
  BY DEF IsOperator
<1>2. IsFiniteSet(S) /\ IsFiniteSet(D)
  <2>1. IsFiniteSet(S)
    BY <1>1, MasksFinite
  <2>2. IsFiniteSet(S \X S)
    BY <2>1, FS_Product
  <2> QED
    BY <1>1, <2>1, <2>2, FS_Subset
<1>3. K \in Complex /\ row \in [S -> Complex] /\ DOMAIN row = S
      /\ \A q \in S : Sign(z \cap q) \in {1, -1}
  BY <1>1, RowTypes, PhasesAreNumbers DEF PhaseTypes, Rows
<1>4. \A q \in S : row[q] = At(op, Xor(x, q), q)
  BY DEF RowAt
<1>5. ASSUME NEW p \in S, NEW q \in S, <<p, q>> \in D
      PROVE  f[<<p, q>>] = IF Xor(p, q) = x
                           THEN Scaled(Times(op.at[<<p, q>>], K), Sign(z \cap q)) ELSE Zero
  <2>1. StringEntry(Label(x, z, n), p, q) = StringEntryIs(x, z, p, q)
    BY <1>1, StringEntryClosed
  <2>2. f[<<p, q>>] = Times(Conj(StringEntry(Label(x, z, n), p, q)), op.at[<<p, q>>])
    BY <1>5
  <2>3. PICK v \in Complex : v = op.at[<<p, q>>]
    BY <1>1, <1>5
  <2>4. CASE Xor(p, q) = x
    <3> DEFINE P == IPower(Cardinality(x \cap z))
    <3>1. PICK a \in Int : a = Sign(z \cap q)
      BY <1>3
    <3>2. P \in Complex /\ K = Conj(P)
      BY <1>1, PhasesAreNumbers DEF PhaseTypes, ConjPhase
    <3>3. StringEntryIs(x, z, p, q) = Scaled(P, a)
      BY <2>4, <3>1 DEF StringEntryIs
    <3> HIDE DEF P, K
    <3>4. Conj(Scaled(P, a)) = Scaled(K, a)
      BY <3>1, <3>2, TimesScaled
    <3>5. Times(Scaled(K, a), v) = Scaled(Times(K, v), a) /\ Times(K, v) = Times(v, K)
      BY <1>3, <3>1, TimesScaled, TimesCommutes
    <3> HIDE DEF f
    <3> QED
      BY <2>1, <2>2, <2>3, <2>4, <3>1, <3>3, <3>4, <3>5
  <2>5. CASE Xor(p, q) # x
    <3>1. Conj(Zero) = Zero
      BY DEF Conj, Zero, C
    <3>2. Times(Zero, v) = Zero
      BY TimesOne
    <3> HIDE DEF f
    <3> QED
      BY <2>1, <2>2, <2>3, <2>5, <3>1, <3>2 DEF StringEntryIs
  <2> QED
    BY <2>4, <2>5
<1>6. \A pq \in D : pq = <<pq[1], pq[2]>> /\ pq[1] \in S /\ pq[2] \in S
  BY <1>1
<1>7. Numbers(f, D)
  <2>1. ASSUME NEW pq \in D PROVE f[pq] \in Complex
    <3>1. PICK p, q \in S : pq = <<p, q>> /\ <<p, q>> \in D
      BY <1>6
    <3>2. Times(op.at[<<p, q>>], K) \in Complex
      BY <1>1, <1>3, <3>1, TimesTypes
    <3>3. PICK a \in Int : a = Sign(z \cap q)
      BY <1>3
    <3> HIDE DEF f, K
    <3> QED
      BY <1>5, <3>1, <3>2, <3>3, ComplexTypes
  <2>2. DOMAIN f = D
    OBVIOUS
  <2> HIDE DEF f, D
  <2> QED
    BY <1>2, <2>1, <2>2 DEF Numbers
<1>8. \A pq \in D \ M : f[pq] = Zero
  <2> TAKE pq \in D \ M
  <2>1. PICK p, q \in S : pq = <<p, q>> /\ <<p, q>> \in D /\ Xor(p, q) # x
    BY <1>6
  <2> HIDE DEF f
  <2> QED
    BY <1>5, <2>1
<1>9. Numbers(fm, M) /\ Total(f) = Total(fm)
  <2>1. M \in SUBSET D
    OBVIOUS
  <2> HIDE DEF f, M, D
  <2> QED
    BY <1>7, <1>8, <2>1, TotalWithin
<1>10. M = {m[q] : q \in Q}
  <2>1. ASSUME NEW pq \in M PROVE pq \in {m[q] : q \in Q}
    <3>1. PICK p, q \in S : pq = <<p, q>> /\ <<p, q>> \in D /\ Xor(p, q) = x
      BY <1>6
    <3>2. p = Xor(x, q)
      BY <3>1, XorIsGroup DEF XorLaws
    <3>3. q \in Q /\ m[q] = pq
      BY <3>1, <3>2
    <3> HIDE DEF m, Q
    <3> QED
      BY <3>3
  <2>2. ASSUME NEW q \in Q PROVE m[q] \in M
    <3>1. m[q] = <<Xor(x, q), q>> /\ <<Xor(x, q), q>> \in D
      OBVIOUS
    <3>2. Xor(Xor(x, q), q) = x
      BY XorIsGroup DEF XorLaws
    <3> HIDE DEF m, D
    <3> QED
      BY <3>1, <3>2
  <2> HIDE DEF M, m, Q
  <2> QED
    BY <2>1, <2>2
<1>11. s \in [S -> Complex]
  <2>1. ASSUME NEW q \in S PROVE Scaled(row[q], Sign(z \cap q)) \in Complex
    <3>1. PICK a \in Int, v \in Complex : a = Sign(z \cap q) /\ v = row[q]
      BY <1>3
    <3> HIDE DEF row
    <3> QED
      BY <3>1, ComplexTypes
  <2> HIDE DEF row
  <2> QED
    BY <2>1
<1>12. Numbers(s, S) /\ Numbers(g, S)
  <2>1. \A q \in S : g[q] \in Complex
    BY <1>3, <1>11, TimesTypes
  <2>2. DOMAIN g = S /\ DOMAIN s = S
    OBVIOUS
  <2> HIDE DEF s, g, S
  <2> QED
    BY <1>2, <1>11, <2>1, <2>2 DEF Numbers
<1>13. Times(Total(s), K) = Total(g)
  <2> HIDE DEF s, S, K
  <2> QED
    BY <1>3, <1>12, TotalTimes
<1>14. ASSUME NEW q \in S
       PROVE  g[q] = Scaled(Times(row[q], K), Sign(z \cap q))
  <2>1. PICK a \in Int, v \in Complex : a = Sign(z \cap q) /\ v = row[q]
    BY <1>3
  <2>2. Times(Scaled(v, a), K) = Scaled(Times(v, K), a)
    BY <1>3, TimesScaled
  <2>3. g[q] = Times(Scaled(row[q], Sign(z \cap q)), K)
    OBVIOUS
  <2> HIDE DEF g, row, K
  <2> QED
    BY <2>1, <2>2, <2>3
<1>15. \A q \in S \ Q : g[q] = Zero
  <2> TAKE q \in S \ Q
  <2>1. row[q] = Zero
    BY <1>4 DEF At
  <2>2. PICK a \in Int : a = Sign(z \cap q)
    BY <1>3
  <2>3. Times(Zero, K) = Zero
    BY <1>3, TimesOne
  <2>4. Scaled(Zero, a) = Zero
    BY DEF Scaled, Zero, C
  <2> HIDE DEF g, row, K
  <2> QED
    BY <1>14, <2>1, <2>2, <2>3, <2>4
<1>16. Numbers(gq, Q) /\ Total(g) = Total(gq)
  <2>1. Q \in SUBSET S
    OBVIOUS
  <2> HIDE DEF g, Q, S
  <2> QED
    BY <1>12, <1>15, <2>1, TotalWithin
<1>17. Matches(gq, Q, m, fm)
  <2>1. \A a, b \in Q : m[a] = m[b] => a = b
    OBVIOUS
  <2>2. ASSUME NEW q \in Q PROVE fm[m[q]] = gq[q]
    <3>1. q \in S /\ m[q] = <<Xor(x, q), q>> /\ <<Xor(x, q), q>> \in D
      OBVIOUS
    <3>2. Xor(x, q) \in S /\ Xor(Xor(x, q), q) = x
      BY <1>1, <3>1, XorIsGroup DEF XorLaws
    <3>3. row[q] = op.at[<<Xor(x, q), q>>]
      BY <1>4, <3>1 DEF At
    <3>4. m[q] \in M
      BY <1>10
    <3>5. fm[m[q]] = f[m[q]] /\ gq[q] = g[q]
      BY <3>4
    <3>6. f[<<Xor(x, q), q>>] = Scaled(Times(op.at[<<Xor(x, q), q>>], K), Sign(z \cap q))
      <4> HIDE DEF f, K, S, D
      <4> QED
        BY <1>5, <3>1, <3>2
    <3> HIDE DEF f, fm, g, gq, K, row, m
    <3> QED
      BY <1>14, <3>1, <3>3, <3>5, <3>6
  <2> HIDE DEF m, Q, fm, gq
  <2> QED
    BY <2>1, <2>2 DEF Matches
<1>18. Total(gq) = Total(fm)
  <2>1. Numbers(fm, {m[q] : q \in Q})
    BY <1>9, <1>10
  <2> HIDE DEF m, Q, fm, gq
  <2> QED
    BY <1>16, <1>17, <2>1, TotalMapped
<1>19. TraceAt(op, x, z) = Total(f) /\ CoefficientAt(op, x, z) = Times(Total(s), K)
  BY DEF TraceAt, CoefficientAt
<1> HIDE DEF f, fm, s, g, gq
<1> QED
  BY <1>9, <1>13, <1>16, <1>18, <1>19

-----------------------------------------------------------------------------
(* Labels.                                                                 *)

\* A letter tells both bits of its qubit.
LEMMA LetterIs ==
  ASSUME NEW x, NEW z, NEW n, NEW j
  PROVE  /\ Letter(x, z, n, j) \in {"X", "Y"} <=> n - 1 - j \in x
         /\ Letter(x, z, n, j) \in {"Z", "Y"} <=> n - 1 - j \in z
         /\ Letter(x, z, n, j) \in {"I", "X", "Y", "Z"}
<1> DEFINE b == n - 1 - j
           l == Letter(x, z, n, j)
<1> HIDE DEF b, l
<1>0. l = CASE b \in x /\ b \in z -> "Y"
            [] b \in x /\ b \notin z -> "X"
            [] b \notin x /\ b \in z -> "Z"
            [] OTHER -> "I"
  BY DEF Letter, b, l
<1>1. CASE b \in x /\ b \in z
  <2>1. l = "Y"
    BY <1>0, <1>1
  <2> QED
    BY <1>1, <2>1 DEF b, l
<1>2. CASE b \in x /\ b \notin z
  <2>1. l = "X"
    BY <1>0, <1>2
  <2> QED
    BY <1>2, <2>1 DEF b, l
<1>3. CASE b \notin x /\ b \in z
  <2>1. l = "Z"
    BY <1>0, <1>3
  <2> QED
    BY <1>3, <2>1 DEF b, l
<1>4. CASE b \notin x /\ b \notin z
  <2>1. l = "I"
    BY <1>0, <1>4
  <2> QED
    BY <1>4, <2>1 DEF b, l
<1> QED
  BY <1>1, <1>2, <1>3, <1>4

\* Labels have one of the four letters for each qubit.
LEMMA LabelParts ==
  ASSUME NEW n \in Nat, NEW x, NEW z
  PROVE  /\ Label(x, z, n) \in Labels(n) /\ Len(Label(x, z, n)) = n
         /\ \A i \in 1 .. n : Label(x, z, n)[i] = Letter(x, z, n, i - 1)
<1>1. \A i \in 1 .. n : Letter(x, z, n, i - 1) \in {"I", "X", "Y", "Z"}
  BY LetterIs
<1>2. /\ Label(x, z, n) = [i \in 1 .. n |-> Letter(x, z, n, i - 1)]
  BY DEF Label
<1> QED
  BY <1>1, <1>2 DEF Labels

\* The bits at which a label has one of these letters.
Bits(label, letters) == {Len(label) - i : i \in {j \in DOMAIN label : label[j] \in letters}}

LEMMA LabelToMasksIs ==
  ASSUME NEW label
  PROVE  LabelToMasks(label) = [x |-> Bits(label, {"X", "Y"}), z |-> Bits(label, {"Z", "Y"})]
BY DEF LabelToMasks, Bits

\* label_to_masks inverts pauli_label.
LEMMA MasksOfLabel ==
  ASSUME NEW n \in Nat, NEW x \in Masks(n), NEW z \in Masks(n)
  PROVE  LabelToMasks(Label(x, z, n)) = [x |-> x, z |-> z]
<1> DEFINE label == Label(x, z, n)
<1>1. label \in Labels(n) /\ Len(label) = n /\ DOMAIN label = 1 .. n
      /\ \A i \in 1 .. n : label[i] = Letter(x, z, n, i - 1)
  BY LabelParts DEF Labels
<1> HIDE DEF label
<1>2. \A i \in 1 .. n : /\ label[i] \in {"X", "Y"} <=> n - i \in x
                        /\ label[i] \in {"Z", "Y"} <=> n - i \in z
  <2> TAKE i \in 1 .. n
  <2>1. n - 1 - (i - 1) = n - i
    OBVIOUS
  <2>2. /\ Letter(x, z, n, i - 1) \in {"X", "Y"} <=> n - 1 - (i - 1) \in x
        /\ Letter(x, z, n, i - 1) \in {"Z", "Y"} <=> n - 1 - (i - 1) \in z
    BY LetterIs
  <2> QED
    BY <1>1, <2>1, <2>2
<1>3. ASSUME NEW y \in Masks(n), NEW letters,
             \A i \in 1 .. n : label[i] \in letters <=> n - i \in y
      PROVE  Bits(label, letters) = y
  <2>1. ASSUME NEW b \in Bits(label, letters) PROVE b \in y
    BY <1>1, <1>3 DEF Bits
  <2>2. ASSUME NEW b \in y PROVE b \in Bits(label, letters)
    <3>1. b \in 0 .. n - 1
      BY DEF Masks
    <3>2. n - b \in 1 .. n /\ n - (n - b) = b
      BY <3>1
    <3>3. n - b \in {j \in DOMAIN label : label[j] \in letters}
      BY <1>1, <1>3, <3>2
    <3> QED
      BY <1>1, <3>2, <3>3 DEF Bits
  <2> QED
    BY <2>1, <2>2
<1>4. Bits(label, {"X", "Y"}) = x /\ Bits(label, {"Z", "Y"}) = z
  BY <1>2, <1>3
<1> QED
  BY <1>4, LabelToMasksIs DEF label

\* ... and every label is one of a pair of masks.
LEMMA LabelOfMasks ==
  ASSUME NEW n \in Nat, NEW label \in Labels(n)
  PROVE  \E x, z \in Masks(n) : label = Label(x, z, n)
<1> DEFINE x == Bits(label, {"X", "Y"})
           z == Bits(label, {"Z", "Y"})
<1>1. DOMAIN label = 1 .. n /\ Len(label) = n
      /\ \A i \in 1 .. n : label[i] \in {"I", "X", "Y", "Z"}
  BY DEF Labels
<1>2. \A letters : \A i \in 1 .. n : n - i \in Bits(label, letters) <=> label[i] \in letters
  <2> TAKE letters
  <2> TAKE i \in 1 .. n
  <2>1. ASSUME n - i \in Bits(label, letters) PROVE label[i] \in letters
    <3>1. PICK j \in 1 .. n : n - i = n - j /\ label[j] \in letters
      BY <1>1, <2>1 DEF Bits
    <3>2. i = j
      BY <3>1
    <3> QED
      BY <3>1, <3>2
  <2>2. ASSUME label[i] \in letters PROVE n - i \in Bits(label, letters)
    BY <1>1, <2>2 DEF Bits
  <2> QED
    BY <2>1, <2>2
<1>3. \A letters : Bits(label, letters) \in Masks(n)
  BY <1>1 DEF Bits, Masks
<1> HIDE DEF x, z
<1>4. x \in Masks(n) /\ z \in Masks(n)
  BY <1>3 DEF x, z
<1>5. ASSUME NEW i \in 1 .. n PROVE label[i] = Label(x, z, n)[i]
  <2> DEFINE l == Letter(x, z, n, i - 1)
             d == label[i]
  <2>1. Label(x, z, n)[i] = l
    BY LabelParts
  <2>2. n - 1 - (i - 1) = n - i
    OBVIOUS
  <2>3. /\ l \in {"X", "Y"} <=> n - i \in x
        /\ l \in {"Z", "Y"} <=> n - i \in z
        /\ l \in {"I", "X", "Y", "Z"}
    BY <2>2, LetterIs
  <2>4. /\ d \in {"X", "Y"} <=> n - i \in x
        /\ d \in {"Z", "Y"} <=> n - i \in z
        /\ d \in {"I", "X", "Y", "Z"}
    BY <1>1, <1>2 DEF x, z
  <2> HIDE DEF l, d
  <2>5. l = d
    BY <2>3, <2>4
  <2> QED
    BY <2>1, <2>5 DEF d
<1>6. Label(x, z, n) \in Labels(n)
  BY LabelParts
<1>7. label = Label(x, z, n)
  BY <1>5, <1>6 DEF Labels
<1> QED
  BY <1>4, <1>7

-----------------------------------------------------------------------------
(* All masks in order.                                                     *)

\* All masks of n bits, by their values.
InOrderOf(n) == [k \in 1 .. 2^n |-> MaskOf(k - 1, n)]

\* Position k of this list holds the mask of value k - 1.
LEMMA AllMasks ==
  ASSUME NEW n \in Nat
  PROVE  /\ 2^n \in Nat \ {0} /\ Len(InOrderOf(n)) = 2^n /\ DOMAIN InOrderOf(n) = 1 .. 2^n
         /\ \A k \in 1 .. 2^n : /\ InOrderOf(n)[k] = MaskOf(k - 1, n)
                                /\ InOrderOf(n)[k] \in Masks(n)
                                /\ ValueOf(InOrderOf(n)[k]) = k - 1
         /\ \A m \in Masks(n) : ValueOf(m) + 1 \in 1 .. 2^n /\ InOrderOf(n)[ValueOf(m) + 1] = m
<1>1. PICK d \in Nat \ {0} : d = 2^n
  BY PowersOfTwo
<1>2. \A k \in 1 .. d : k - 1 \in 0 .. d - 1
  OBVIOUS
<1>3. \A v \in 0 .. d - 1 : MaskOf(v, n) \in Masks(n) /\ ValueOf(MaskOf(v, n)) = v
  BY <1>1, ValueOfMask
<1>4. \A m \in Masks(n) : ValueOf(m) \in 0 .. d - 1 /\ MaskOf(ValueOf(m), n) = m
  BY <1>1, ValueBounds, MaskOfValue
<1>5. \A v \in 0 .. d - 1 : v + 1 \in 1 .. d /\ (v + 1) - 1 = v
  OBVIOUS
<1>6. InOrderOf(n) = [k \in 1 .. d |-> MaskOf(k - 1, n)]
  BY <1>1 DEF InOrderOf
<1>7. Len(InOrderOf(n)) = d
  BY <1>6
<1> QED
  BY <1>1, <1>2, <1>3, <1>4, <1>5, <1>6, <1>7

\* A list of masks by rising values, as np.unique returns it.
Rising(s, n) ==
  /\ DOMAIN s = 1 .. Len(s) /\ Len(s) \in Nat
  /\ \A k \in DOMAIN s : s[k] \in Masks(n)
  /\ \A j, k \in DOMAIN s : j < k => ValueOf(s[j]) < ValueOf(s[k])

\* A rising list of all masks lists each at its place.
LEMMA FullIsInOrder ==
  ASSUME NEW n \in Nat, NEW s, Rising(s, n), Len(s) = 2^n
  PROVE  \A k \in 1 .. 2^n : s[k] = MaskOf(k - 1, n)
<1>1. PICK d \in Nat \ {0} : d = 2^n
  BY PowersOfTwo
<1> DEFINE v == [k \in 1 .. d |-> ValueOf(s[k])]
<1>2. /\ \A k \in 1 .. d : v[k] \in 0 .. d - 1 /\ s[k] \in Masks(n) /\ v[k] = ValueOf(s[k])
      /\ \A j, k \in 1 .. d : j < k => v[j] < v[k]
  BY <1>1, ValueBounds DEF Rising
<1> HIDE DEF v
<1>3. \A k \in 1 .. d : v[k] >= k - 1
  <2> DEFINE P == {k \in Nat : k + 1 <= d => v[k + 1] >= k}
  <2>1. 0 \in P
    BY <1>2
  <2>2. ASSUME NEW k \in Nat, k \in P PROVE k + 1 \in P
    <3> SUFFICES ASSUME (k + 1) + 1 <= d PROVE v[(k + 1) + 1] >= k + 1
      OBVIOUS
    <3>1. /\ k + 1 \in 1 .. d /\ (k + 1) + 1 \in 1 .. d /\ k + 1 < (k + 1) + 1
      OBVIOUS
    <3>2. v[k + 1] >= k
      BY <2>2, <3>1
    <3>3. v[k + 1] < v[(k + 1) + 1] /\ v[k + 1] \in Int /\ v[(k + 1) + 1] \in Int
      BY <1>2, <3>1
    <3> QED
      BY <3>2, <3>3
  <2>3. Nat \subseteq P
    <3> HIDE DEF P
    <3> QED
      BY <2>1, <2>2, NaturalsFrom
  <2> TAKE k \in 1 .. d
  <2>4. k - 1 \in Nat /\ (k - 1) + 1 = k
    OBVIOUS
  <2> QED
    BY <2>3, <2>4
<1>4. \A k \in 1 .. d : v[k] <= k - 1
  <2> DEFINE P == {k \in Nat : k < d => v[d - k] <= d - k - 1}
  <2>1. 0 \in P
    BY <1>2
  <2>2. ASSUME NEW k \in Nat, k \in P PROVE k + 1 \in P
    <3> SUFFICES ASSUME k + 1 < d PROVE v[d - (k + 1)] <= d - (k + 1) - 1
      OBVIOUS
    <3>1. /\ d - k \in 1 .. d /\ d - (k + 1) \in 1 .. d /\ d - (k + 1) < d - k /\ k < d
      OBVIOUS
    <3>2. v[d - k] <= d - k - 1
      BY <2>2, <3>1
    <3>3. v[d - (k + 1)] < v[d - k] /\ v[d - (k + 1)] \in Int /\ v[d - k] \in Int
      BY <1>2, <3>1
    <3> QED
      BY <3>2, <3>3
  <2>3. Nat \subseteq P
    <3> HIDE DEF P
    <3> QED
      BY <2>1, <2>2, NaturalsFrom
  <2> TAKE k \in 1 .. d
  <2>4. d - k \in Nat /\ d - k < d /\ d - (d - k) = k
    OBVIOUS
  <2> QED
    BY <2>3, <2>4
<1>5. ASSUME NEW k \in 1 .. d PROVE s[k] = MaskOf(k - 1, n)
  <2>1. v[k] = k - 1
    BY <1>2, <1>3, <1>4
  <2> QED
    BY <1>2, <2>1, MaskOfValue
<1> QED
  BY <1>1, <1>5

-----------------------------------------------------------------------------
(* What is prepared, and what a row becomes.                               *)

\* The masks by which rows and columns of nonzero cells differ, and the active
\* rows made of them.
Occupied(op) == {Xor(pq[1], pq[2]) : pq \in DOMAIN op.at}
ActiveOf ==
  IF Assumed THEN InOrderOf(operator.n)
  ELSE Ascending(Occupied(operator), [x \in Occupied(operator) |-> ValueOf(x)])

\* What Prepare leaves behind.
Ready ==
  /\ IsOperator(operator) /\ IsRequest(request)
  /\ cells = IF Assumed THEN {} ELSE DOMAIN operator.at
  /\ active = ActiveOf

\* The length of a list given by its entries.
LEMMA LengthIs ==
  ASSUME NEW c \in Nat, NEW s, DOMAIN s = 1 .. c, s = [k \in 1 .. c |-> s[k]]
  PROVE  Len(s) = c
<1>1. s \in Seq({s[k] : k \in 1 .. c})
  BY IsASeq
<1> QED
  BY <1>1

\* An operator has finitely many cells, and so finitely many active rows.
LEMMA CellsAreFinite ==
  ASSUME NEW op, IsOperator(op)
  PROVE  /\ IsFiniteSet(DOMAIN op.at) /\ IsFiniteSet(Occupied(op))
         /\ Occupied(op) \subseteq Masks(op.n)
         /\ \A pq \in DOMAIN op.at : /\ pq = <<pq[1], pq[2]>>
                                     /\ pq[1] \in Masks(op.n) /\ pq[2] \in Masks(op.n)
<1> DEFINE S == Masks(op.n)
           D == DOMAIN op.at
           m == [pq \in D |-> Xor(pq[1], pq[2])]
<1>1. op.n \in Nat /\ D \subseteq S \X S
  BY DEF IsOperator
<1>2. IsFiniteSet(D)
  <2>1. IsFiniteSet(S)
    BY <1>1, MasksFinite
  <2>2. IsFiniteSet(S \X S)
    BY <2>1, FS_Product
  <2> QED
    BY <1>1, <2>2, FS_Subset
<1>3. Occupied(op) = {m[pq] : pq \in D}
  BY DEF Occupied
<1>4. IsFiniteSet({m[pq] : pq \in D})
  <2> HIDE DEF m, D
  <2> QED
    BY <1>2, ImageFinite
<1>5. Occupied(op) \subseteq S
  BY <1>1, XorIsGroup DEF XorLaws, Occupied
<1>6. \A pq \in D : pq = <<pq[1], pq[2]>> /\ pq[1] \in S /\ pq[2] \in S
  BY <1>1
<1>7. IsFiniteSet(Occupied(op))
  BY <1>3, <1>4
<1> QED
  BY <1>2, <1>5, <1>6, <1>7

\* The active rows come in rising order, each once.
LEMMA ActiveIs ==
  ASSUME Ready
  PROVE  /\ Rising(active, operator.n)
         /\ {active[i] : i \in DOMAIN active} =
              IF Assumed THEN Masks(operator.n) ELSE Occupied(operator)
         /\ Assumed => Len(active) = 2^operator.n
<1> DEFINE n == operator.n
           S == Occupied(operator)
           key == [x \in S |-> ValueOf(x)]
<1>1. n \in Nat /\ IsFiniteSet(S) /\ S \subseteq Masks(n)
  BY CellsAreFinite DEF Ready, IsOperator
<1>2. CASE Assumed
  <2>1. active = InOrderOf(n)
    BY <1>2 DEF Ready, ActiveOf
  <2>2. Rising(active, n) /\ Len(active) = 2^n
    <3>1. PICK c \in Nat : c = 2^n
      BY <1>1, AllMasks
    <3>2. /\ Len(active) = c /\ DOMAIN active = 1 .. c
          /\ \A k \in 1 .. c : active[k] \in Masks(n) /\ ValueOf(active[k]) = k - 1
      BY <1>1, <2>1, <3>1, AllMasks
    <3>3. \A j, k \in 1 .. c : j < k => j - 1 < k - 1
      OBVIOUS
    <3> QED
      BY <3>1, <3>2, <3>3 DEF Rising
  <2>3. {active[i] : i \in DOMAIN active} = Masks(n)
    <3>1. /\ \A i \in DOMAIN active : active[i] \in Masks(n)
          /\ \A m \in Masks(n) : ValueOf(m) + 1 \in DOMAIN active /\ active[ValueOf(m) + 1] = m
      BY <1>1, <2>1, AllMasks
    <3> QED
      BY <3>1
  <2> QED
    BY <1>2, <2>2, <2>3
<1>3. CASE ~Assumed
  <2>1. active = Ascending(S, key)
    BY <1>3 DEF Ready, ActiveOf
  <2>2. \A e \in S : key[e] = ValueOf(e) /\ key[e] \in Int
    BY <1>1, ValueBounds
  <2>3. \A d, e \in S : key[d] = key[e] => d = e
    BY <1>1, <2>2, ValueInjective
  <2> HIDE DEF S, key
  <2>4. Sorted(active, S, key)
    BY <1>1, <2>1, <2>2, <2>3, AscendingSorts
  <2>5. DOMAIN active = 1 .. Len(active) /\ Len(active) \in Nat
    <3>1. PICK c \in Nat : c = Cardinality(S)
      BY <1>1, FS_CardinalityType
    <3> DEFINE place(k) == CHOOSE e \in S : Cardinality({d \in S : key[d] < key[e]}) = k - 1
               at == [k \in 1 .. c |-> place(k)]
    <3>0. active = at
      BY <2>1, <3>1 DEF Ascending
    <3> HIDE DEF place
    <3>2. at = [k \in 1 .. c |-> at[k]] /\ DOMAIN at = 1 .. c
      OBVIOUS
    <3> HIDE DEF at
    <3>3. active = [k \in 1 .. c |-> active[k]] /\ DOMAIN active = 1 .. c
      BY <3>0, <3>2
    <3> QED
      BY <3>3, LengthIs
  <2>6. Rising(active, n)
    <3>1. \A k \in DOMAIN active : active[k] \in S
      BY <2>4 DEF Sorted
    <3>2. \A j, k \in DOMAIN active : j < k => ValueOf(active[j]) < ValueOf(active[k])
      BY <2>2, <2>4, <3>1 DEF Sorted
    <3> QED
      BY <1>1, <2>5, <3>1, <3>2 DEF Rising
  <2>7. {active[i] : i \in DOMAIN active} = S
    BY <2>4 DEF Sorted
  <2> QED
    BY <1>3, <2>6, <2>7 DEF S
<1> QED
  BY <1>2, <1>3

\* No mask is listed twice.
LEMMA ActiveIsInjective ==
  ASSUME NEW n \in Nat, NEW s, Rising(s, n)
  PROVE  \A i, j \in DOMAIN s : s[i] = s[j] => i = j
<1> TAKE i, j \in DOMAIN s
<1>1. i \in Int /\ j \in Int
  BY DEF Rising
<1>2. ValueOf(s[i]) \in Int /\ ValueOf(s[j]) \in Int
  BY ValueBounds DEF Rising
<1>3. \A k, m \in DOMAIN s : k < m => ValueOf(s[k]) < ValueOf(s[m])
  BY DEF Rising
<1> QED
  BY <1>1, <1>2, <1>3

\* Row i, gathered, is the row of the operator, whichever way it is read.
LEMMA GatheredIs ==
  ASSUME Ready, ~Blind, NEW i \in DOMAIN active
  PROVE  Gathered(i) = RowAt(operator, active[i])
<1> DEFINE n == operator.n
           x == active[i]
           D == DOMAIN operator.at
<1>1. n \in Nat /\ Rising(active, n) /\ x \in Masks(n)
  BY ActiveIs DEF Ready, IsOperator, Rising
<1>2. CASE Chunked /\ FullyDense
  <2>1. Len(active) = 2^n
    BY <1>2 DEF FullyDense, Dim
  <2>2. x = MaskOf(i - 1, n)
    BY <1>1, <2>1, FullIsInOrder DEF Rising
  <2>3. Gathered(i) = ReadDirectly(i)
    BY <1>2 DEF Gathered
  <2> HIDE DEF x
  <2> QED
    BY <2>2, <2>3 DEF ReadDirectly, RowAt, x
<1>3. CASE ~(Chunked /\ FullyDense)
  <2>1. ~Assumed
    <3>1. Assumed => Chunked
      BY DEF Blind
    <3>2. Assumed => FullyDense
      BY ActiveIs DEF Assumed, FullyDense, Dim
    <3> QED
      BY <1>3, <3>1, <3>2
  <2>2. cells = D
    BY <2>1 DEF Ready
  <2>3. Gathered(i) = Scattered(i)
    BY <1>3 DEF Gathered
  <2>4. ASSUME NEW cell \in D PROVE RowOf(cell) = i <=> Xor(cell[1], cell[2]) = x
    <3> DEFINE y == Xor(cell[1], cell[2])
    <3>1. y \in Occupied(operator)
      BY DEF Occupied
    <3>2. y \in {active[j] : j \in DOMAIN active}
      BY <2>1, <3>1, ActiveIs
    <3> HIDE DEF y
    <3>3. \E j \in DOMAIN active : active[j] = y
      BY <3>2
    <3>4. RowOf(cell) = CHOOSE j \in DOMAIN active : active[j] = y
      BY DEF RowOf, y
    <3>5. RowOf(cell) \in DOMAIN active /\ active[RowOf(cell)] = y
      BY <3>3, <3>4
    <3>6. \A j \in DOMAIN active : active[j] = active[i] => j = i
      BY <1>1, ActiveIsInjective
    <3> QED
      BY <3>5, <3>6 DEF y
  <2>5. ASSUME NEW q \in Masks(n) PROVE Scattered(i)[q] = At(operator, Xor(x, q), q)
    <3> DEFINE mine == {cell \in cells : RowOf(cell) = i}
               part == {c \in mine : c[2] = q}
               e == <<Xor(x, q), q>>
    <3>1. Scattered(i)[q] = Total([cell \in part |-> operator.at[cell]])
      BY DEF Scattered
    <3>2. part = {c \in D : Xor(c[1], c[2]) = x /\ c[2] = q}
      BY <2>2, <2>4
    <3>3. \A c \in part : c = e
      <4> TAKE c \in part
      <4>1. c \in D /\ Xor(c[1], c[2]) = x /\ c[2] = q
        BY <3>2
      <4>2. c = <<c[1], c[2]>>
        BY <4>1, CellsAreFinite DEF Ready
      <4>3. c[1] = Xor(x, q)
        BY <4>1, XorIsGroup DEF XorLaws
      <4> QED
        BY <4>1, <4>2, <4>3
    <3>4. e \in D => e \in part
      <4>1. Xor(Xor(x, q), q) = x
        BY XorIsGroup DEF XorLaws
      <4> QED
        BY <3>2, <4>1
    <3> HIDE DEF part, mine
    <3>5. CASE e \in D
      <4>1. part = {e}
        BY <3>3, <3>4, <3>5
      <4>2. PICK v \in Complex : v = operator.at[e]
        BY <3>5 DEF Ready, IsOperator
      <4>3. [cell \in part |-> operator.at[cell]] = [cell \in {e} |-> v]
        <5> HIDE DEF e
        <5> QED
          BY <4>1, <4>2
      <4>4. Total([cell \in {e} |-> v]) = v
        BY TotalOfOne
      <4> QED
        BY <3>1, <3>5, <4>2, <4>3, <4>4 DEF At
    <3>6. CASE e \notin D
      <4>1. part = {}
        <5> HIDE DEF e
        <5> QED
          BY <3>2, <3>3, <3>6 DEF part
      <4>2. [cell \in part |-> operator.at[cell]] = [cell \in {} |-> Zero]
        BY <4>1
      <4>3. Total([cell \in {} |-> Zero]) = Zero
        BY TotalOfOne, ComplexTypes
      <4> QED
        BY <3>1, <3>6, <4>2, <4>3 DEF At
    <3> QED
      BY <3>5, <3>6
  <2>6. Scattered(i) = [q \in Masks(n) |-> Scattered(i)[q]]
    BY DEF Scattered
  <2> QED
    BY <2>3, <2>5, <2>6 DEF RowAt
<1> QED
  BY <1>2, <1>3

\* The coefficient record of two masks.
EntryOf(x, z) == [x |-> x, z |-> z, value |-> TraceAt(operator, x, z)]

\* A row's coefficients are the traces of its labels.
LEMMA CoefficientsAre ==
  ASSUME Ready, ~Blind, NEW i \in DOMAIN active
  PROVE  Coefficients(i) = [k \in 1 .. 2^operator.n |->
                              EntryOf(active[i], InOrderOf(operator.n)[k])]
<1> DEFINE n == operator.n
           x == active[i]
           row == Transform(Gathered(i), n, request.kernel)
<1>1. n \in Nat /\ x \in Masks(n) /\ IsOperator(operator)
      /\ request.kernel \in Nat \cup {NoKernel}
  BY ActiveIs DEF Ready, IsOperator, IsRequest, Rising
<1>2. Gathered(i) = RowAt(operator, x) /\ RowAt(operator, x) \in Rows(n)
  BY <1>1, GatheredIs, RowTypes
<1>3. \A z \in Masks(n) :
        row[z] = Total([q \in Masks(n) |-> Scaled(RowAt(operator, x)[q], Sign(z \cap q))])
  <2>1. PICK r \in Rows(n) : r = RowAt(operator, x)
    BY <1>2
  <2>2. PICK kernel \in Nat \cup {NoKernel} : kernel = request.kernel
    BY <1>1
  <2>3. PICK m \in Nat : m = n
    BY <1>1
  <2>4. Transform(r, m, kernel) =
          [z \in Masks(m) |-> Total([q \in Masks(m) |-> Scaled(r[q], Sign(z \cap q))])]
    BY <2>1, <2>3, TransformIsTheDefinition
  <2>5. row = Transform(r, m, kernel)
    BY <1>2, <2>1, <2>2, <2>3
  <2> HIDE DEF row
  <2>6. \A z \in Masks(m) : row[z] = Total([q \in Masks(m) |-> Scaled(r[q], Sign(z \cap q))])
    BY <2>4, <2>5
  <2> QED
    BY <2>1, <2>3, <2>6
<1>4. ASSUME NEW k \in 1 .. 2^n
      PROVE  [x |-> active[i], z |-> InOrder[k],
              value |-> Times(row[InOrder[k]], ConjPhase(active[i], InOrder[k]))]
             = EntryOf(x, InOrderOf(n)[k])
  <2>1. PICK z \in Masks(n) : z = InOrderOf(n)[k] /\ z = InOrder[k]
    BY <1>1, AllMasks DEF InOrder, InOrderOf, Dim
  <2>2. Times(row[z], ConjPhase(x, z)) = CoefficientAt(operator, x, z)
    BY <1>3 DEF CoefficientAt
  <2>3. CoefficientAt(operator, x, z) = TraceAt(operator, x, z)
    BY <1>1, CoefficientIsTrace
  <2> HIDE DEF row, x
  <2> QED
    BY <2>1, <2>2, <2>3 DEF EntryOf, x
<1>5. Coefficients(i) =
        [k \in 1 .. 2^n |->
           [x |-> active[i], z |-> InOrder[k],
            value |-> Times(row[InOrder[k]], ConjPhase(active[i], InOrder[k]))]]
  BY DEF Coefficients, Dim
<1> HIDE DEF row, x
<1> QED
  BY <1>4, <1>5 DEF x

-----------------------------------------------------------------------------
(* Lists of coefficients.                                                  *)

\* The records of the rows X.
Entries(X) == {EntryOf(x, z) : x \in X, z \in Masks(operator.n)}

\* s lists the coefficients of the rows in X once each: all of them, or those
\* above atol.
Lists(s, X, above) ==
  /\ s \in Seq(Entries(X))
  /\ \A j, k \in DOMAIN s : s[j] = s[k] => j = k
  /\ above => \A k \in DOMAIN s : Survives(s[k])
  /\ \A e \in Entries(X) : (above => Survives(e)) => \E k \in DOMAIN s : s[k] = e

\* Different masks have different records.
LEMMA EntriesDiffer ==
  \A x, z, y, w : EntryOf(x, z) = EntryOf(y, w) => x = y /\ z = w
BY DEF EntryOf

\* No rows, no coefficients.
LEMMA ListsNothing ==
  ASSUME NEW above
  PROVE  Lists(<<>>, {}, above)
<1>1. Entries({}) = {}
  BY DEF Entries
<1> QED
  BY <1>1 DEF Lists

\* The lists of two disjoint sets of rows, one after the other, list both: so
\* chunks may be put together in any order.
LEMMA ListsBoth ==
  ASSUME NEW X, NEW Y, X \cap Y = {}, NEW above, NEW s, NEW t,
         Lists(s, X, above), Lists(t, Y, above)
  PROVE  Lists(s \o t, X \cup Y, above)
<1> DEFINE st == s \o t
           E == Entries(X)
           F == Entries(Y)
           G == Entries(X \cup Y)
<1>1. s \in Seq(E) /\ t \in Seq(F)
  BY DEF Lists
<1>2. G = E \cup F
  BY DEF Entries
<1>3. E \cap F = {}
  <2>1. ASSUME NEW e \in E, NEW f \in F PROVE e # f
    <3>1. PICK x \in X, z \in Masks(operator.n) : e = EntryOf(x, z)
      BY DEF Entries
    <3>2. PICK y \in Y, w \in Masks(operator.n) : f = EntryOf(y, w)
      BY DEF Entries
    <3>3. x # y
      OBVIOUS
    <3> QED
      BY <3>1, <3>2, <3>3, EntriesDiffer
  <2> QED
    BY <2>1
<1> HIDE DEF E, F, G
<1>4. s \in Seq(G) /\ t \in Seq(G)
  BY <1>1, <1>2
<1>5. /\ st \in Seq(G) /\ Len(st) = Len(s) + Len(t)
      /\ Len(s) \in Nat /\ Len(t) \in Nat
      /\ DOMAIN s = 1 .. Len(s) /\ DOMAIN t = 1 .. Len(t) /\ DOMAIN st = 1 .. Len(s) + Len(t)
      /\ \A k \in 1 .. Len(s) + Len(t) : st[k] = IF k <= Len(s) THEN s[k] ELSE t[k - Len(s)]
  BY <1>4
<1> HIDE DEF st
<1>6. /\ \A k \in 1 .. Len(s) : s[k] \in E
      /\ \A k \in 1 .. Len(t) : t[k] \in F
  BY <1>1
<1>7. PICK a \in Nat, b \in Nat : a = Len(s) /\ b = Len(t)
  BY <1>5
<1>8. \A k \in 1 .. a + b : /\ k <= a => k \in DOMAIN s /\ st[k] = s[k] /\ st[k] \in E
                            /\ k > a => k - a \in DOMAIN t /\ st[k] = t[k - a] /\ st[k] \in F
  <2> TAKE k \in 1 .. a + b
  <2>1. CASE k <= a
    <3>1. k \in 1 .. a /\ ~(k > a)
      BY <2>1
    <3> QED
      BY <1>5, <1>6, <1>7, <2>1, <3>1
  <2>2. CASE k > a
    <3>1. k - a \in 1 .. b /\ ~(k <= a)
      BY <2>2
    <3> QED
      BY <1>5, <1>6, <1>7, <2>2, <3>1
  <2> QED
    BY <2>1, <2>2
<1>9. \A j, k \in DOMAIN st : st[j] = st[k] => j = k
  <2> TAKE j, k \in DOMAIN st
  <2> HAVE st[j] = st[k]
  <2>0. j \in 1 .. a + b /\ k \in 1 .. a + b
    BY <1>5, <1>7
  <2>1. CASE j <= a /\ k <= a
    BY <1>8, <2>0, <2>1 DEF Lists
  <2>2. CASE j > a /\ k > a
    <3>1. j - a = k - a
      BY <1>8, <2>0, <2>2 DEF Lists
    <3> QED
      BY <2>0, <3>1
  <2>3. CASE (j <= a /\ k > a) \/ (j > a /\ k <= a)
    BY <1>3, <1>8, <2>0, <2>3
  <2> QED
    BY <2>0, <2>1, <2>2, <2>3
<1>10. above => \A k \in DOMAIN st : Survives(st[k])
  <2> SUFFICES ASSUME above, NEW k \in 1 .. a + b PROVE Survives(st[k])
    BY <1>5, <1>7
  <2>1. CASE k <= a
    BY <1>8, <2>1 DEF Lists
  <2>2. CASE k > a
    BY <1>8, <2>2 DEF Lists
  <2> QED
    BY <2>1, <2>2
<1>11. ASSUME NEW e \in G, above => Survives(e) PROVE \E k \in DOMAIN st : st[k] = e
  <2>1. CASE e \in E
    <3>1. PICK k \in DOMAIN s : s[k] = e
      BY <1>11, <2>1 DEF Lists, E
    <3>2. k \in 1 .. a + b /\ k <= a
      BY <1>5, <1>7, <3>1
    <3> QED
      BY <1>5, <1>7, <1>8, <3>1, <3>2
  <2>2. CASE e \in F
    <3>1. PICK k \in DOMAIN t : t[k] = e
      BY <1>11, <2>2 DEF Lists, F
    <3>2. k + a \in 1 .. a + b /\ k + a > a /\ (k + a) - a = k
      BY <1>5, <1>7, <3>1
    <3> QED
      BY <1>5, <1>7, <1>8, <3>1, <3>2
  <2> QED
    BY <1>2, <2>1, <2>2
<1> QED
  BY <1>5, <1>9, <1>10, <1>11 DEF Lists, G, st

\* The active rows of a chunk.
RowsOf(from, to) == {active[i] : i \in from + 1 .. to}

\* A block lists its rows.
LEMMA AllOfLists ==
  ASSUME Ready, ~Blind, NEW from \in Nat, NEW to \in from .. Len(active)
  PROVE  Lists(AllOf(from, to), RowsOf(from, to), FALSE)
<1> DEFINE n == operator.n
           s == AllOf(from, to)
           X == RowsOf(from, to)
<1>1. n \in Nat /\ Rising(active, n) /\ DOMAIN active = 1 .. Len(active) /\ Len(active) \in Nat
  BY ActiveIs DEF Ready, IsOperator, Rising
<1>2. PICK d \in Nat \ {0} : d = 2^n /\ d = Dim
  BY <1>1, PowersOfTwo DEF Dim
<1>3. PICK m \in Nat : m = to - from
  OBVIOUS
<1>4. m * d \in Nat
  BY <1>2, <1>3
<1> DEFINE a(k) == (k - 1) \div d
           b(k) == (k - 1) % d
<1>5. ASSUME NEW k \in 1 .. m * d
      PROVE  a(k) \in 0 .. m - 1 /\ b(k) \in 0 .. d - 1 /\ k = d * a(k) + b(k) + 1
  <2>1. k - 1 \in Nat
    BY <1>4
  <2>2. a(k) \in Nat /\ b(k) \in 0 .. d - 1 /\ k - 1 = d * a(k) + b(k)
    BY <1>2, <2>1, Division
  <2>3. a(k) < m
    <3>1. PICK q \in Nat, r \in 0 .. d - 1 : q = a(k) /\ r = b(k)
      BY <2>2
    <3> HIDE DEF a, b
    <3>2. k - 1 = d * q + r /\ k - 1 < m * d
      BY <1>4, <2>2, <3>1
    <3>3. ASSUME q >= m PROVE FALSE
      <4>1. PICK e \in Nat : q = m + e
        BY <3>3
      <4>2. d * q = m * d + d * e /\ d * e \in Nat
        BY <4>1
      <4> QED
        BY <1>4, <3>2, <4>2
    <3> QED
      BY <3>1, <3>3
  <2> HIDE DEF a, b
  <2> QED
    BY <2>2, <2>3
<1>6. /\ DOMAIN s = 1 .. m * d /\ s = [k \in 1 .. m * d |-> s[k]]
      /\ \A k \in 1 .. m * d : s[k] = EntryOf(active[from + 1 + a(k)], InOrderOf(n)[b(k) + 1])
  <2> DEFINE rows == [i \in from + 1 .. to |-> Coefficients(i)]
             f == [k \in 1 .. m * d |-> rows[from + 1 + (k - 1) \div d][((k - 1) % d) + 1]]
  <2>1. s = f
    <3>1. s = [k \in 1 .. (to - from) * Dim |->
                 rows[from + 1 + (k - 1) \div Dim][((k - 1) % Dim) + 1]]
      BY DEF AllOf
    <3> HIDE DEF rows, s
    <3>2. Dim = d /\ to - from = m
      BY <1>2, <1>3
    <3> QED
      BY ONLY <3>1, <3>2
  <2>2. ASSUME NEW k \in 1 .. m * d
        PROVE  f[k] = EntryOf(active[from + 1 + a(k)], InOrderOf(n)[b(k) + 1])
    <3>1. a(k) \in 0 .. m - 1 /\ b(k) \in 0 .. d - 1
      BY <1>5
    <3>2. f[k] = rows[from + 1 + a(k)][b(k) + 1]
      OBVIOUS
    <3> HIDE DEF a, b, f
    <3>3. from + 1 + a(k) \in from + 1 .. to /\ from + 1 + a(k) \in DOMAIN active
          /\ b(k) + 1 \in 1 .. 2^n
      <4>1. PICK i \in 0 .. m - 1, j \in 0 .. d - 1 : i = a(k) /\ j = b(k)
        BY <3>1
      <4>2. from + 1 + i \in from + 1 .. to /\ from + 1 + i \in DOMAIN active
        BY <1>1, <1>3
      <4>3. j + 1 \in 1 .. d
        OBVIOUS
      <4>4. j + 1 \in 1 .. 2^n
        BY ONLY <1>2, <4>3
      <4> QED
        BY <4>1, <4>2, <4>4
    <3>4. rows[from + 1 + a(k)] = Coefficients(from + 1 + a(k))
      BY <3>3
    <3> HIDE DEF rows
    <3> QED
      BY <3>2, <3>3, <3>4, CoefficientsAre
  <2>3. f = [k \in 1 .. m * d |-> f[k]] /\ DOMAIN f = 1 .. m * d
    <3> DEFINE at(k) == rows[from + 1 + (k - 1) \div d][((k - 1) % d) + 1]
    <3>1. f = [k \in 1 .. m * d |-> at(k)]
      OBVIOUS
    <3> HIDE DEF at, f
    <3> QED
      BY <3>1
  <2> HIDE DEF f, a, b
  <2> QED
    BY <2>1, <2>2, <2>3
<1> HIDE DEF s, a, b
<1>7. \A i \in 0 .. m - 1 : /\ from + 1 + i \in from + 1 .. to
                            /\ from + 1 + i \in DOMAIN active /\ active[from + 1 + i] \in X
  <2> TAKE i \in 0 .. m - 1
  <2>1. from + 1 + i \in from + 1 .. to /\ from + 1 + i \in DOMAIN active
    BY <1>1, <1>3
  <2> QED
    BY <2>1 DEF RowsOf
<1>8. \A j \in 0 .. d - 1 : /\ j + 1 \in 1 .. d /\ InOrderOf(n)[j + 1] \in Masks(n)
                            /\ ValueOf(InOrderOf(n)[j + 1]) = j
  <2> TAKE j \in 0 .. d - 1
  <2>1. j + 1 \in 1 .. d /\ (j + 1) - 1 = j
    OBVIOUS
  <2> QED
    BY <1>1, <1>2, <2>1, AllMasks
<1>9. s \in Seq(Entries(X))
  <2>1. \A k \in 1 .. m * d : s[k] \in Entries(X)
    <3> TAKE k \in 1 .. m * d
    <3>1. a(k) \in 0 .. m - 1 /\ b(k) \in 0 .. d - 1
      BY <1>5
    <3>2. active[from + 1 + a(k)] \in X /\ InOrderOf(n)[b(k) + 1] \in Masks(n)
      BY <1>7, <1>8, <3>1
    <3> QED
      BY <1>6, <3>2 DEF Entries
  <2>2. PICK c \in Nat : c = m * d
    BY <1>4
  <2>3. s = [k \in 1 .. c |-> s[k]] /\ \A k \in 1 .. c : s[k] \in Entries(X)
    BY <1>6, <2>1, <2>2
  <2> QED
    BY <2>3, IsASeq
<1>10. \A j, k \in DOMAIN s : s[j] = s[k] => j = k
  <2> SUFFICES ASSUME NEW j \in 1 .. m * d, NEW k \in 1 .. m * d, s[j] = s[k] PROVE j = k
    BY <1>6
  <2>1. /\ a(j) \in 0 .. m - 1 /\ b(j) \in 0 .. d - 1 /\ j = d * a(j) + b(j) + 1
        /\ a(k) \in 0 .. m - 1 /\ b(k) \in 0 .. d - 1 /\ k = d * a(k) + b(k) + 1
    BY <1>5
  <2>2. /\ active[from + 1 + a(j)] = active[from + 1 + a(k)]
        /\ InOrderOf(n)[b(j) + 1] = InOrderOf(n)[b(k) + 1]
    BY <1>6, EntriesDiffer
  <2>3. from + 1 + a(j) = from + 1 + a(k)
    BY <1>1, <1>7, <2>1, <2>2, ActiveIsInjective
  <2>4. a(j) = a(k)
    BY <2>1, <2>3
  <2>5. b(j) = b(k)
    BY <1>8, <2>1, <2>2
  <2> QED
    BY <2>1, <2>4, <2>5
<1>11. ASSUME NEW e \in Entries(X) PROVE \E k \in DOMAIN s : s[k] = e
  <2>1. PICK x \in X, z \in Masks(n) : e = EntryOf(x, z)
    BY DEF Entries
  <2>2. PICK i \in from + 1 .. to : x = active[i]
    BY DEF RowsOf
  <2>3. PICK q \in 0 .. m - 1 : i = from + 1 + q
    <3>1. i - (from + 1) \in 0 .. m - 1 /\ i = from + 1 + (i - (from + 1))
      BY <1>3
    <3> QED
      BY <3>1
  <2>4. PICK r \in 0 .. d - 1 : r = ValueOf(z) /\ InOrderOf(n)[r + 1] = z
    <3>1. PICK v \in 0 .. 2^n - 1 : v = ValueOf(z)
      BY <1>1, ValueBounds
    <3>2. v \in 0 .. d - 1
      BY ONLY <1>2, <3>1
    <3>3. InOrderOf(n)[ValueOf(z) + 1] = z
      BY <1>1, AllMasks
    <3> QED
      BY <3>1, <3>2, <3>3
  <2>5. d * q \in Nat /\ d * q + d <= m * d
    <3>1. PICK o \in Nat : m = q + 1 + o
      <4>1. m - (q + 1) \in Nat /\ m = q + 1 + (m - (q + 1))
        OBVIOUS
      <4> QED
        BY <4>1
    <3>2. m * d = d * q + d + d * o /\ d * o \in Nat /\ d * q \in Nat
      BY <3>1
    <3> QED
      BY <3>2
  <2>6. PICK v \in Nat : v = d * q + r /\ v + 1 \in 1 .. m * d
    BY <1>4, <2>5
  <2>7. v \div d = q /\ v % d = r
    BY <2>6, QuotientIsUnique
  <2>8. a(v + 1) = q /\ b(v + 1) = r
    <3>1. (v + 1) - 1 = v
      OBVIOUS
    <3> QED
      BY <2>7, <3>1 DEF a, b
  <2> QED
    BY <1>6, <2>1, <2>2, <2>3, <2>4, <2>6, <2>8
<1> QED
  BY <1>9, <1>10, <1>11 DEF Lists, s

\* What np.nonzero keeps of a list.
LEMMA KeptLists ==
  ASSUME NEW X, NEW s, Lists(s, X, FALSE)
  PROVE  Lists(Kept(s), X, TRUE)
<1> DEFINE places == {k \in DOMAIN s : Survives(s[k])}
           key == [k \in places |-> k]
           at == Ascending(places, key)
           t == Kept(s)
<1>1. s \in Seq(Entries(X)) /\ DOMAIN s = 1 .. Len(s) /\ Len(s) \in Nat
  BY DEF Lists
<1>2. IsFiniteSet(places)
  <2>1. IsFiniteSet(DOMAIN s)
    BY <1>1, FS_Interval
  <2> QED
    BY <2>1, FS_Subset
<1>3. \A k \in places : key[k] = k /\ key[k] \in Int
  BY <1>1
<1>4. t = [m \in DOMAIN at |-> s[at[m]]]
  BY DEF Kept
<1> HIDE DEF places, key, at, t
<1>5. Sorted(at, places, key)
  BY <1>2, <1>3, AscendingSorts DEF at
<1>6. PICK c \in Nat : c = Cardinality(places)
  BY <1>2, FS_CardinalityType
<1>7. DOMAIN at = 1 .. c /\ \A m \in 1 .. c : at[m] \in places
  BY <1>5, <1>6 DEF Sorted
<1>8. /\ t = [m \in 1 .. c |-> s[at[m]]] /\ DOMAIN t = 1 .. c
      /\ \A m \in 1 .. c : t[m] = s[at[m]] /\ at[m] \in DOMAIN s /\ Survives(t[m])
  <2>1. \A m \in 1 .. c : at[m] \in DOMAIN s /\ Survives(s[at[m]])
    BY <1>7 DEF places
  <2> QED
    BY <1>4, <1>7, <2>1
<1>9. t \in Seq(Entries(X))
  <2>1. \A m \in 1 .. c : s[at[m]] \in Entries(X)
    BY <1>1, <1>8
  <2> QED
    BY <1>8, <2>1, IsASeq
<1>10. \A j, k \in DOMAIN t : t[j] = t[k] => j = k
  <2> SUFFICES ASSUME NEW j \in 1 .. c, NEW k \in 1 .. c, t[j] = t[k] PROVE j = k
    BY <1>8
  <2>1. at[j] = at[k]
    BY <1>8 DEF Lists
  <2>2. \A i, m \in 1 .. c : i < m => at[i] < at[m]
    <3>1. \A i, m \in 1 .. c : i < m => key[at[i]] < key[at[m]]
      BY <1>5, <1>7 DEF Sorted
    <3>2. \A i \in 1 .. c : key[at[i]] = at[i]
      BY <1>3, <1>7
    <3> QED
      BY <3>1, <3>2
  <2>3. at[j] \in Int /\ at[k] \in Int
    BY <1>3, <1>7
  <2> QED
    BY <2>1, <2>2, <2>3
<1>11. ASSUME NEW e \in Entries(X), Survives(e) PROVE \E k \in DOMAIN t : t[k] = e
  <2>1. PICK k \in DOMAIN s : s[k] = e
    BY DEF Lists
  <2>2. k \in places
    BY <1>11, <2>1 DEF places
  <2>3. PICK m \in 1 .. c : at[m] = k
    BY <1>5, <1>7, <2>2 DEF Sorted
  <2> QED
    BY <1>8, <2>1, <2>3
<1> QED
  BY <1>8, <1>9, <1>10, <1>11 DEF Lists, t

-----------------------------------------------------------------------------
(* The Hamiltonian of the oscillators.                                     *)

\* The couplings of n oscillators, and how many they are.
Couples(n) == {ij \in (0 .. n - 1) \X (0 .. n - 1) : ij[1] < ij[2]}

LEMMA NumberOfCouples ==
  ASSUME NEW n \in Nat
  PROVE  /\ IsFiniteSet(Couples(n)) /\ Cardinality(Couples(n)) \in Nat
         /\ 2 * Cardinality(Couples(n)) + n = n * n
<1> DEFINE S == 0 .. n - 1
           U == Couples(n)
           m == [ij \in U |-> <<ij[2], ij[1]>>]
           V == {m[ij] : ij \in U}
           dg == [i \in S |-> <<i, i>>]
           W == {dg[i] : i \in S}
<1>1. IsFiniteSet(S) /\ Cardinality(S) = n
  BY FS_Interval
<1>2. IsFiniteSet(S \X S) /\ Cardinality(S \X S) = n * n
  <2> HIDE DEF S
  <2> QED
    BY <1>1, FS_Product
<1>3. \A ij \in S \X S : ij = <<ij[1], ij[2]>> /\ ij[1] \in Int /\ ij[2] \in Int
  OBVIOUS
<1>4. U \subseteq S \X S /\ IsFiniteSet(U)
  <2>1. U \subseteq S \X S
    BY DEF Couples
  <2> HIDE DEF U, S
  <2> QED
    BY <1>2, <2>1, FS_Subset
<1>5. m \in Bijection(U, V)
  <2>1. \A a, b \in U : m[a] = m[b] => a = b
    <3> TAKE a, b \in U
    <3>1. a = <<a[1], a[2]>> /\ b = <<b[1], b[2]>>
      BY <1>3, <1>4
    <3> QED
      BY <3>1
  <2>2. m \in [U -> V] /\ \A v \in V : \E u \in U : m[u] = v
    OBVIOUS
  <2> HIDE DEF m, U, V
  <2> QED
    BY <2>1, <2>2 DEF Bijection, Injection, Surjection, IsInjective
<1>6. dg \in Bijection(S, W)
  <2>1. \A a, b \in S : dg[a] = dg[b] => a = b
    OBVIOUS
  <2>2. dg \in [S -> W] /\ \A v \in W : \E u \in S : dg[u] = v
    OBVIOUS
  <2> HIDE DEF dg, S, W
  <2> QED
    BY <2>1, <2>2 DEF Bijection, Injection, Surjection, IsInjective
<1>7. S \X S = (U \cup V) \cup W
  <2>1. ASSUME NEW i \in S, NEW j \in S PROVE <<i, j>> \in (U \cup V) \cup W
    <3>1. CASE i < j
      BY <3>1 DEF Couples
    <3>2. CASE j < i
      <4>1. <<j, i>> \in U
        BY <3>2 DEF Couples
      <4>2. m[<<j, i>>] = <<i, j>>
        BY <4>1
      <4> HIDE DEF m, U
      <4> QED
        BY <4>1, <4>2
    <3>3. CASE i = j
      BY <3>3
    <3>4. i < j \/ j < i \/ i = j
      OBVIOUS
    <3> QED
      BY <3>1, <3>2, <3>3, <3>4
  <2>2. V \subseteq S \X S
    BY <1>4
  <2>3. W \subseteq S \X S
    OBVIOUS
  <2> HIDE DEF U, V, W
  <2> QED
    BY <1>4, <2>1, <2>2, <2>3
<1>8. U \cap V = {} /\ (U \cup V) \cap W = {}
  <2>1. \A u \in U : u[1] < u[2] /\ u[1] \in Int /\ u[2] \in Int
    BY <1>3, <1>4 DEF Couples
  <2>2. \A v \in V : v[2] < v[1]
    <3> TAKE v \in V
    <3>1. PICK u \in U : v = <<u[2], u[1]>>
      OBVIOUS
    <3> HIDE DEF V, U
    <3> QED
      BY <2>1, <3>1
  <2>3. \A w \in W : w[1] = w[2] /\ w[1] \in Int
    OBVIOUS
  <2>4. \A v \in V : v[1] \in Int /\ v[2] \in Int
    <3> TAKE v \in V
    <3>1. PICK u \in U : v = <<u[2], u[1]>>
      OBVIOUS
    <3> HIDE DEF V, U
    <3> QED
      BY <2>1, <3>1
  <2> HIDE DEF U, V, W
  <2>5. \A e \in U : e \notin V /\ e \notin W
    BY <2>1, <2>2, <2>3
  <2>6. \A e \in V : e \notin W
    BY <2>2, <2>3, <2>4
  <2> QED
    BY <2>5, <2>6
<1> HIDE DEF S, U, V, W, m, dg
<1>9. IsFiniteSet(V) /\ Cardinality(V) = Cardinality(U)
  BY <1>4, <1>5, FS_Bijection DEF ExistsBijection
<1>10. IsFiniteSet(W) /\ Cardinality(W) = n
  BY <1>1, <1>6, FS_Bijection DEF ExistsBijection
<1>11. Cardinality(U) \in Nat
  BY <1>4, FS_CardinalityType
<1>12. IsFiniteSet(U \cup V) /\ Cardinality(U \cup V) = Cardinality(U) + Cardinality(V)
  <2>1. Cardinality(U \cap V) = 0
    BY <1>8, FS_EmptySet
  <2>2. /\ IsFiniteSet(U \cup V)
        /\ Cardinality(U \cup V) = Cardinality(U) + Cardinality(V) - Cardinality(U \cap V)
    BY <1>4, <1>9, FS_Union
  <2>3. Cardinality(U) + Cardinality(V) - 0 = Cardinality(U) + Cardinality(V)
    BY <1>9, <1>11
  <2> QED
    BY <2>1, <2>2, <2>3
<1>13. Cardinality((U \cup V) \cup W) = Cardinality(U \cup V) + Cardinality(W)
  <2>1. Cardinality((U \cup V) \cap W) = 0
    BY <1>8, FS_EmptySet
  <2> DEFINE UV == U \cup V
  <2>2. IsFiniteSet(UV) /\ Cardinality(UV) \in Nat /\ Cardinality(UV \cap W) = 0
    BY <1>9, <1>11, <1>12, <2>1
  <2> HIDE DEF UV
  <2>3. Cardinality(UV \cup W) = Cardinality(UV) + Cardinality(W) - Cardinality(UV \cap W)
    BY <1>10, <2>2, FS_Union
  <2>4. Cardinality(UV \cup W) = Cardinality(UV) + Cardinality(W)
    <3>1. Cardinality(UV) + Cardinality(W) - 0 = Cardinality(UV) + Cardinality(W)
      BY <1>10, <2>2
    <3> QED
      BY <2>2, <2>3, <3>1
  <2> QED
    BY <2>4 DEF UV
<1>14. n * n = Cardinality(U) + Cardinality(U) + n
  BY <1>2, <1>7, <1>9, <1>10, <1>12, <1>13
<1>15. PICK c \in Nat, nn \in Nat : c = Cardinality(U) /\ nn = n * n
  BY <1>11
<1>16. 2 * c + n = nn
  <2>1. nn = c + c + n
    BY <1>14, <1>15
  <2>2. \A a, b, d \in Nat : b = a + a + d => 2 * a + d = b
    OBVIOUS
  <2>3. c \in Nat /\ nn \in Nat
    OBVIOUS
  <2> QED
    BY ONLY n \in Nat, <2>1, <2>2, <2>3
<1>17. U = Couples(n)
  BY DEF U
<1>18. 2 * Cardinality(Couples(n)) + n = n * n
  BY ONLY <1>15, <1>16, <1>17
<1> QED
  BY <1>4, <1>11, <1>17, <1>18

\* The pairs are numbered from 1, and their columns fit the matrix.
LEMMA PairsFit ==
  ASSUME NEW n \in Nat
  PROVE  /\ Size(n) \in Nat
         /\ \A c \in DOMAIN Pairs(n) : /\ c \in Nat \ {0} /\ 2 * n + c - 1 < Size(n)
                                       /\ Pairs(n)[c][1] \in 0 .. n - 1
                                       /\ Pairs(n)[c][2] \in 0 .. n - 1
<1> DEFINE S == Couples(n)
           key == [ij \in S |-> n * ij[1] + ij[2]]
           count == Cardinality(S)
<1>1. PICK k \in Nat : k = count
  BY NumberOfCouples
<1>2. PICK nn \in Nat : nn = n * n
  OBVIOUS
<1>3. 2 * k + n = nn
  BY <1>1, <1>2, NumberOfCouples
<1>4. n * (n + 1) = 2 * (k + n) /\ (n * (n + 1)) \div 2 = k + n
  <2>1. n * (n + 1) = nn + n
    BY <1>2
  <2>2. n * (n + 1) = 2 * (k + n)
    BY <1>3, <2>1
  <2>3. (2 * (k + n)) \div 2 = k + n
    OBVIOUS
  <2> QED
    BY <2>2, <2>3
<1>5. Size(n) = n + (k + n)
  BY <1>4 DEF Size
<1>6. Pairs(n) = Ascending(S, key)
  BY DEF Pairs, Couples
<1>7. Sorted(Pairs(n), S, key)
  <2>1. \A ij \in S : /\ ij[1] \in 0 .. n - 1 /\ ij[2] \in 0 .. n - 1 /\ ij = <<ij[1], ij[2]>>
    BY DEF Couples
  <2>2. \A ij \in S : key[ij] \in Int
    <3> TAKE ij \in S
    <3>1. PICK i \in 0 .. n - 1, j \in 0 .. n - 1 : i = ij[1] /\ j = ij[2]
      BY <2>1
    <3>2. n * i + j \in Int
      OBVIOUS
    <3>3. key[ij] = n * ij[1] + ij[2]
      OBVIOUS
    <3> HIDE DEF key
    <3> QED
      BY ONLY <3>1, <3>2, <3>3
  <2>3. ASSUME NEW d \in S, NEW e \in S, key[d] = key[e] PROVE d = e
    <3>1. PICK i \in 0 .. n - 1, j \in 0 .. n - 1 : i = d[1] /\ j = d[2]
      BY <2>1
    <3>2. PICK p \in 0 .. n - 1, q \in 0 .. n - 1 : p = e[1] /\ q = e[2]
      BY <2>1
    <3>3. key[d] = n * d[1] + d[2] /\ key[e] = n * e[1] + e[2]
      OBVIOUS
    <3>4. n * i + j = n * p + q
      <4> HIDE DEF key
      <4> QED
        BY ONLY <2>3, <3>1, <3>2, <3>3
    <3>5. n \in Nat \ {0}
      BY <3>1
    <3>6. PICK v \in Nat : v = n * i + j
      OBVIOUS
    <3>7. v \div n = i /\ v % n = j
      BY <3>5, <3>6, QuotientIsUnique
    <3>8. v \div n = p /\ v % n = q
      BY <3>4, <3>5, <3>6, QuotientIsUnique
    <3> QED
      BY <2>1, <3>1, <3>2, <3>7, <3>8
  <2>4. IsFiniteSet(S)
    BY NumberOfCouples
  <2> HIDE DEF S, key
  <2> QED
    BY <1>6, <2>2, <2>3, <2>4, AscendingSorts
<1>8. ASSUME NEW c \in DOMAIN Pairs(n)
      PROVE  /\ c \in Nat \ {0} /\ 2 * n + c - 1 < Size(n)
             /\ Pairs(n)[c][1] \in 0 .. n - 1 /\ Pairs(n)[c][2] \in 0 .. n - 1
  <2>1. c \in 1 .. k /\ Pairs(n)[c] \in S
    BY <1>1, <1>7 DEF Sorted
  <2>2. 2 * n + c - 1 < n + (k + n)
    BY <2>1
  <2> QED
    BY <1>5, <2>1, <2>2 DEF Couples
<1>9. Size(n) \in Nat
  BY <1>5
<1> QED
  BY <1>8, <1>9

\* Square roots are numbers; what is assigned above the diagonal.
Roots(n) == \A i, j, l \in 0 .. n - 1 : Root(i, j, l) \in Int
Upper(n) == OnSite(n) \cup Coupling(n)

\* One triple for each cell, above the diagonal of the matrix.
LEMMA UpperTriples ==
  ASSUME NEW n \in Nat, Roots(n)
  PROVE  /\ \A t \in Upper(n) : /\ t = <<t[1], t[2], t[3]>>
                                /\ t[1] \in 0 .. n - 1 /\ t[2] \in n .. Size(n) - 1
                                /\ t[3] \in Int
         /\ \A t, u \in Upper(n) : t[1] = u[1] /\ t[2] = u[2] => t = u
<1> DEFINE site(i) == <<i, n + i, -Root(i, i, i)>>
           couple(i, c) == <<i, 2 * n + c - 1,
                             (IF i = 0 THEN -1 ELSE 1) * Root(Pairs(n)[c][1], Pairs(n)[c][2], i)>>
<1>0. Size(n) >= 2 * n
  <2>1. PICK k \in Nat, nn \in Nat : k = Cardinality(Couples(n)) /\ nn = n * n
    BY NumberOfCouples
  <2>2. 2 * k + n = nn /\ n * (n + 1) = nn + n
    BY <2>1, NumberOfCouples
  <2>3. (n * (n + 1)) \div 2 = k + n
    BY <2>2
  <2> QED
    BY <2>3 DEF Size
<1>1. \A t \in OnSite(n) : \E i \in 0 .. n - 1 : t = site(i)
  BY DEF OnSite
<1>2. \A t \in Coupling(n) : \E i \in 0 .. n - 1, c \in DOMAIN Pairs(n) : t = couple(i, c)
  BY DEF Coupling
<1>3. ASSUME NEW i \in 0 .. n - 1
      PROVE  /\ site(i)[1] = i /\ site(i)[2] = n + i /\ site(i)[2] \in n .. Size(n) - 1
             /\ site(i)[2] < 2 * n /\ site(i)[3] \in Int
  <2>1. Root(i, i, i) \in Int
    BY DEF Roots
  <2> QED
    BY <1>0, <2>1, PairsFit
<1>4. ASSUME NEW i \in 0 .. n - 1, NEW c \in DOMAIN Pairs(n)
      PROVE  /\ couple(i, c)[1] = i /\ couple(i, c)[2] = 2 * n + c - 1
             /\ couple(i, c)[2] \in n .. Size(n) - 1
             /\ couple(i, c)[2] >= 2 * n /\ couple(i, c)[3] \in Int
             /\ c \in Nat
  <2>1. c \in Nat \ {0} /\ 2 * n + c - 1 < Size(n) /\ Size(n) \in Nat
    BY PairsFit
  <2>2. PICK r \in Int : r = Root(Pairs(n)[c][1], Pairs(n)[c][2], i)
    BY PairsFit DEF Roots
  <2>3. couple(i, c)[3] = (IF i = 0 THEN -1 ELSE 1) * r
    BY <2>2
  <2>4. (IF i = 0 THEN -1 ELSE 1) * r \in Int
    BY <2>2
  <2>5. couple(i, c)[1] = i /\ couple(i, c)[2] = 2 * n + c - 1
    OBVIOUS
  <2> HIDE DEF couple
  <2> QED
    BY <2>1, <2>3, <2>4, <2>5
<1>5. \A t \in Upper(n) : (\E i \in 0 .. n - 1 : t = site(i))
                          \/ (\E i \in 0 .. n - 1, c \in DOMAIN Pairs(n) : t = couple(i, c))
  BY <1>1, <1>2 DEF Upper
<1>6. /\ \A i \in 0 .. n - 1 : site(i) = <<site(i)[1], site(i)[2], site(i)[3]>>
      /\ \A i, c : couple(i, c) = <<couple(i, c)[1], couple(i, c)[2], couple(i, c)[3]>>
  OBVIOUS
<1> HIDE DEF site, couple
<1>7. \A t \in Upper(n) : /\ t = <<t[1], t[2], t[3]>>
                          /\ t[1] \in 0 .. n - 1 /\ t[2] \in n .. Size(n) - 1
                          /\ t[3] \in Int
  <2> TAKE t \in Upper(n)
  <2>1. CASE \E i \in 0 .. n - 1 : t = site(i)
    BY <1>3, <1>6, <2>1
  <2>2. CASE \E i \in 0 .. n - 1, c \in DOMAIN Pairs(n) : t = couple(i, c)
    BY <1>4, <1>6, <2>2
  <2> QED
    BY <1>5, <2>1, <2>2
<1>8. ASSUME NEW t \in Upper(n), NEW u \in Upper(n), t[1] = u[1], t[2] = u[2]
      PROVE  t = u
  <2>1. CASE t[2] < 2 * n
    <3>1. PICK i \in 0 .. n - 1 : t = site(i)
      BY <1>4, <1>5, <2>1
    <3>2. PICK j \in 0 .. n - 1 : u = site(j)
      BY <1>4, <1>5, <1>8, <2>1
    <3>3. i = j
      BY <1>3, <1>8, <3>1, <3>2
    <3> QED
      BY <3>1, <3>2, <3>3
  <2>2. CASE ~(t[2] < 2 * n)
    <3>1. PICK i \in 0 .. n - 1, c \in DOMAIN Pairs(n) : t = couple(i, c)
      BY <1>3, <1>5, <2>2
    <3>2. PICK j \in 0 .. n - 1, d \in DOMAIN Pairs(n) : u = couple(j, d)
      BY <1>3, <1>5, <1>8, <2>2
    <3>3. i = j
      BY <1>4, <1>8, <3>1, <3>2
    <3>4. 2 * n + c - 1 = 2 * n + d - 1 /\ c \in Nat /\ d \in Nat
      BY <1>4, <1>8, <3>1, <3>2
    <3>5. c = d
      BY <3>4
    <3> QED
      BY <3>1, <3>2, <3>3, <3>5
  <2> QED
    BY <2>1, <2>2
<1> QED
  BY <1>7, <1>8

\* What is assigned on both sides of the diagonal.
AllTriples(n) == Mirrored(Upper(n))

\* All assignments are inside the matrix, come with their mirror image, and no
\* two of them are to one cell.
LEMMA MirroredTriples ==
  ASSUME NEW n \in Nat, Roots(n)
  PROVE  /\ \A t \in AllTriples(n) : /\ t = <<t[1], t[2], t[3]>>
                                /\ t[1] \in 0 .. Size(n) - 1 /\ t[2] \in 0 .. Size(n) - 1
                                /\ t[3] \in Int
                                /\ <<t[2], t[1], t[3]>> \in AllTriples(n)
         /\ \A t, u \in AllTriples(n) : t[1] = u[1] /\ t[2] = u[2] => t = u
<1> DEFINE U == Upper(n)
           V == {<<t[2], t[1], t[3]>> : t \in U}
<1>1. AllTriples(n) = U \cup V
  BY DEF AllTriples, Mirrored
<1>2. PICK s \in Nat : s = Size(n)
  BY PairsFit
<1>3. \A t \in U : /\ t = <<t[1], t[2], t[3]>>
                   /\ t[1] \in 0 .. n - 1 /\ t[2] \in n .. s - 1 /\ t[3] \in Int
  BY <1>2, UpperTriples
<1>4. \A t, u \in U : t[1] = u[1] /\ t[2] = u[2] => t = u
  BY UpperTriples
<1> HIDE DEF U
<1>5. \A v \in V : \E t \in U : v = <<t[2], t[1], t[3]>> /\ v[1] = t[2] /\ v[2] = t[1] /\ v[3] = t[3]
  OBVIOUS
<1>6. \A t \in U : <<t[2], t[1], t[3]>> \in V
  OBVIOUS
<1> HIDE DEF V
<1>7. ASSUME NEW t \in AllTriples(n)
      PROVE  /\ t = <<t[1], t[2], t[3]>>
             /\ t[1] \in 0 .. Size(n) - 1 /\ t[2] \in 0 .. Size(n) - 1
             /\ t[3] \in Int
             /\ <<t[2], t[1], t[3]>> \in AllTriples(n)
  <2>1. CASE t \in U
    <3>1. t[1] \in 0 .. s - 1 /\ t[2] \in 0 .. s - 1
      BY <1>3, <2>1
    <3> QED
      BY <1>1, <1>2, <1>3, <1>6, <2>1, <3>1
  <2>2. CASE t \in V
    <3>1. PICK u \in U : t = <<u[2], u[1], u[3]>> /\ t[1] = u[2] /\ t[2] = u[1] /\ t[3] = u[3]
      BY <1>5, <2>2
    <3>2. u[1] \in 0 .. s - 1 /\ u[2] \in 0 .. s - 1 /\ u = <<u[1], u[2], u[3]>> /\ u[3] \in Int
      BY <1>3
    <3>3. t = <<t[1], t[2], t[3]>> /\ <<t[2], t[1], t[3]>> = u
      BY <3>1, <3>2
    <3>4. <<t[2], t[1], t[3]>> \in AllTriples(n)
      BY <1>1, <3>3
    <3> QED
      BY <1>2, <3>1, <3>2, <3>3, <3>4
  <2> QED
    BY <1>1, <2>1, <2>2
<1>8. \A t \in U : t[1] < n /\ t[2] >= n
  BY <1>3
<1>9. \A v \in V : v[1] >= n /\ v[2] < n
  <2> TAKE v \in V
  <2>1. PICK t \in U : v[1] = t[2] /\ v[2] = t[1]
    BY <1>5
  <2> QED
    BY <1>8, <2>1
<1>10. ASSUME NEW t \in AllTriples(n), NEW u \in AllTriples(n), t[1] = u[1], t[2] = u[2] PROVE t = u
  <2>0. (t \in U \/ t \in V) /\ (u \in U \/ u \in V)
    BY <1>1
  <2>1. CASE t \in U /\ u \in U
    BY <1>4, <1>10, <2>1
  <2>2. CASE t \in V /\ u \in V
    <3>1. PICK a \in U : t = <<a[2], a[1], a[3]>> /\ t[1] = a[2] /\ t[2] = a[1]
      BY <1>5, <2>2
    <3>2. PICK b \in U : u = <<b[2], b[1], b[3]>> /\ u[1] = b[2] /\ u[2] = b[1]
      BY <1>5, <2>2
    <3>3. a = b
      BY <1>4, <1>10, <3>1, <3>2
    <3> QED
      BY <3>1, <3>2, <3>3
  <2>3. CASE t \in U /\ u \in V
    <3>1. t[1] < n /\ t[1] >= n
      BY <1>8, <1>9, <1>10, <2>3
    <3>2. t[1] \in Int
      BY <1>3, <2>3
    <3> QED
      BY <3>1, <3>2
  <2>4. CASE t \in V /\ u \in U
    <3>1. u[1] < n /\ u[1] >= n
      BY <1>8, <1>9, <1>10, <2>4
    <3>2. u[1] \in Int
      BY <1>3, <2>4
    <3> QED
      BY <3>1, <3>2
  <2> QED
    BY <2>0, <2>1, <2>2, <2>3, <2>4
<1> QED
  BY <1>7, <1>10

\* The sum of one number.
SumOfOne == \A t, f : f[t] \in Int /\ DOMAIN f = {t} => SumFunction(f) = f[t]

LEMMA SumOverOne == SumOfOne
<1> SUFFICES ASSUME NEW t, NEW f, f[t] \in Int, DOMAIN f = {t} PROVE SumFunction(f) = f[t]
  BY DEF SumOfOne
<1>1. SumFunction(f) = SumOver(f, {t})
  BY DEF SumFunction, SumOver, SumFunctionOnSet
<1>2. IsFiniteSet({t})
  BY FS_Singleton
<1>3. /\ SumOver(f, {}) = 0
      /\ \A x \in {t} \ {} : SumOver(f, {} \cup {x}) = f[x] + SumOver(f, {})
  <2>1. \A x \in {t} : f[x] \in Int
    OBVIOUS
  <2> DEFINE S == {t}
  <2>2. IsFiniteSet(S) /\ \A x \in S : f[x] \in Int
    BY <1>2, <2>1
  <2>3. {} \in SUBSET S
    OBVIOUS
  <2> HIDE DEF S
  <2>4. SumOver(f, {}) = 0 /\ \A x \in S \ {} : SumOver(f, {} \cup {x}) = f[x] + SumOver(f, {})
    <3>1. /\ SumOver(f, {}) = 0
          /\ \A U \in SUBSET S : \A x \in S \ U :
               SumOver(f, U \cup {x}) = f[x] + SumOver(f, U)
      BY <2>2, SumWith
    <3> QED
      BY <2>3, <3>1
  <2> QED
    BY <2>4 DEF S
<1>4. SumOver(f, {t}) = f[t] + 0
  <2>1. {} \cup {t} = {t} /\ t \in {t} \ {}
    OBVIOUS
  <2> QED
    BY <1>3, <2>1
<1> QED
  BY <1>1, <1>4

\* A symmetric real matrix, given by its nonzero cells.
IsSymmetric(f, size) ==
  \A c \in DOMAIN f : /\ c = <<c[1], c[2]>>
                      /\ c[1] \in 0 .. size - 1 /\ c[2] \in 0 .. size - 1
                      /\ f[c] \in Int
                      /\ <<c[2], c[1]>> \in DOMAIN f /\ f[<<c[2], c[1]>>] = f[c]

\* Both builders put the one value that is assigned to a cell there.
LEMMA BuildersPutTheSame ==
  ASSUME NEW n \in Nat, Roots(n)
  PROVE  BuiltSparse(n) = BuiltDense(n) /\ IsSymmetric(BuiltDense(n), Size(n))
<1> DEFINE T == AllTriples(n)
           P == {<<t[1], t[2]>> : t \in T}
           dense(at) == (CHOOSE t \in T : <<t[1], t[2]>> = at)[3]
           sparse(at) == SumFunction([t \in {u \in T : <<u[1], u[2]>> = at} |-> t[3]])
           value(at) == CHOOSE r \in Int : \E t \in T : <<t[1], t[2]>> = at /\ r = t[3]
<1>1. BuiltDense(n) = [at \in P |-> dense(at)] /\ BuiltSparse(n) = [at \in P |-> sparse(at)]
  BY DEF BuiltDense, BuiltSparse, AllTriples, Upper
<1>2. /\ \A t \in T : /\ t = <<t[1], t[2], t[3]>>
                      /\ t[1] \in 0 .. Size(n) - 1 /\ t[2] \in 0 .. Size(n) - 1
                      /\ t[3] \in Int
                      /\ <<t[2], t[1], t[3]>> \in T
      /\ \A t, u \in T : t[1] = u[1] /\ t[2] = u[2] => t = u
  BY MirroredTriples
<1>3. \A at \in P : \E t \in T : at = <<t[1], t[2]>>
  OBVIOUS
<1>4. \A t \in T : <<t[1], t[2]>> \in P
  OBVIOUS
<1> HIDE DEF T, P
<1>5. ASSUME NEW t \in T PROVE dense(<<t[1], t[2]>>) = t[3] /\ sparse(<<t[1], t[2]>>) = t[3]
  <2> DEFINE at == <<t[1], t[2]>>
  <2>1. \A u \in T : <<u[1], u[2]>> = at => u = t
    <3> TAKE u \in T
    <3> HAVE <<u[1], u[2]>> = at
    <3>1. u[1] = t[1] /\ u[2] = t[2]
      OBVIOUS
    <3> QED
      BY <1>2, <3>1
  <2>2. dense(at) = t[3]
    <3>1. (CHOOSE u \in T : <<u[1], u[2]>> = at) = t
      <4> DEFINE c == CHOOSE u \in T : <<u[1], u[2]>> = at
      <4>1. c \in T /\ <<c[1], c[2]>> = at
        OBVIOUS
      <4> HIDE DEF c
      <4> QED
        BY <2>1, <4>1 DEF c
    <3> QED
      BY <3>1
  <2>3. {u \in T : <<u[1], u[2]>> = at} = {t}
    <3> HIDE DEF at
    <3>1. <<t[1], t[2]>> = at
      BY DEF at
    <3> QED
      BY <2>1, <3>1
  <2>4. sparse(at) = t[3]
    <3> DEFINE f == [u \in {v \in T : <<v[1], v[2]>> = at} |-> u[3]]
    <3>1. DOMAIN f = {t}
      BY <2>3
    <3>2. f[t] = t[3] /\ f[t] \in Int
      BY <1>2, <2>3
    <3> HIDE DEF f
    <3>3. SumFunction(f) = t[3]
      BY <3>1, <3>2, SumOverOne DEF SumOfOne
    <3> QED
      BY <3>3 DEF f
  <2> QED
    BY <2>2, <2>4
<1> HIDE DEF dense, sparse
<1>6. BuiltSparse(n) = BuiltDense(n)
  <2>1. \A at \in P : sparse(at) = dense(at)
    BY <1>3, <1>5
  <2> QED
    BY <1>1, <2>1
<1>7. IsSymmetric(BuiltDense(n), Size(n))
  <2> SUFFICES ASSUME NEW c \in DOMAIN BuiltDense(n)
               PROVE  /\ c = <<c[1], c[2]>>
                      /\ c[1] \in 0 .. Size(n) - 1 /\ c[2] \in 0 .. Size(n) - 1
                      /\ BuiltDense(n)[c] \in Int
                      /\ <<c[2], c[1]>> \in DOMAIN BuiltDense(n)
                      /\ BuiltDense(n)[<<c[2], c[1]>>] = BuiltDense(n)[c]
    BY DEF IsSymmetric
  <2>1. DOMAIN BuiltDense(n) = P /\ \A at \in P : BuiltDense(n)[at] = dense(at)
    BY <1>1
  <2>2. PICK t \in T : c = <<t[1], t[2]>>
    BY <1>3, <2>1
  <2>3. c[1] = t[1] /\ c[2] = t[2]
    BY <2>2
  <2>4. PICK u \in T : u = <<t[2], t[1], t[3]>>
    BY <1>2
  <2>5. u[1] = t[2] /\ u[2] = t[1] /\ u[3] = t[3]
    BY <2>4
  <2>6. <<u[1], u[2]>> = <<c[2], c[1]>>
    BY <2>3, <2>5
  <2>7. dense(c) = t[3] /\ dense(<<c[2], c[1]>>) = t[3]
    BY <1>5, <2>2, <2>5, <2>6
  <2>8. c \in P /\ <<c[2], c[1]>> \in P
    BY <1>4, <2>2, <2>6
  <2> QED
    BY <1>2, <2>1, <2>2, <2>3, <2>7, <2>8
<1> QED
  BY <1>6, <1>7

-----------------------------------------------------------------------------

\* Padding makes room for all rows.
LEMMA EnoughQubits ==
  ASSUME NEW size \in Nat
  PROVE  QubitsFor(size) \in Nat /\ size <= 2^QubitsFor(size)
<1> DEFINE P == {k \in Nat : k <= 2^k /\ \E q \in 0 .. k : /\ 2^q >= k
                                                           /\ \A r \in 0 .. q - 1 : 2^r < k}
           Enough(s) == {q \in Nat : 2^q >= s}
<1>1. \A k \in Nat : 2^k \in Nat /\ k + 1 <= 2^k
  <2> DEFINE Q == {k \in Nat : 2^k \in Nat /\ k + 1 <= 2^k}
  <2>1. 0 \in Q
    BY PowersOfTwo
  <2>2. ASSUME NEW k \in Nat, k \in Q PROVE k + 1 \in Q
    <3>1. PICK d \in Nat : d = 2^k /\ 2^(k + 1) = 2 * d /\ k + 1 <= d
      BY <2>2, PowersOfTwo
    <3>2. 2 * d \in Nat /\ (k + 1) + 1 <= 2 * d
      BY <3>1
    <3> QED
      BY <3>1, <3>2
  <2> HIDE DEF Q
  <2>3. Nat \subseteq Q
    BY <2>1, <2>2, NaturalsFrom
  <2> QED
    BY <2>3 DEF Q
<1>2. ASSUME NEW k \in Nat,
             \E q \in 0 .. k : 2^q >= size
      PROVE  \E q \in 0 .. k : 2^q >= size /\ \A r \in 0 .. q - 1 : 2^r < size
  <2> DEFINE R == {j \in Nat : (\E q \in 0 .. j : 2^q >= size) =>
                     \E q \in 0 .. j : 2^q >= size /\ \A r \in 0 .. q - 1 : 2^r < size}
  <2>1. 0 \in R
    OBVIOUS
  <2>2. ASSUME NEW j \in Nat, j \in R PROVE j + 1 \in R
    <3>1. CASE \E q \in 0 .. j : 2^q >= size
      BY <2>2, <3>1
    <3>2. CASE ~ \E q \in 0 .. j : 2^q >= size
      <4>1. \A r \in 0 .. (j + 1) - 1 : 2^r < size
        <5> TAKE r \in 0 .. (j + 1) - 1
        <5>1. r \in 0 .. j
          OBVIOUS
        <5>2. ~(2^r >= size) /\ 2^r \in Nat
          BY <1>1, <3>2, <5>1
        <5> QED
          BY <5>2
      <4>2. (\E q \in 0 .. j + 1 : 2^q >= size) => 2^(j + 1) >= size
        <5> SUFFICES ASSUME NEW q \in 0 .. j + 1, 2^q >= size PROVE 2^(j + 1) >= size
          OBVIOUS
        <5>1. q \notin 0 .. j
          BY <3>2
        <5>2. q = j + 1
          BY <5>1
        <5> QED
          BY <5>2
      <4>3. j + 1 \in 0 .. j + 1
        OBVIOUS
      <4> QED
        BY <4>1, <4>2, <4>3
    <3> QED
      BY <3>1, <3>2
  <2> HIDE DEF R
  <2>3. Nat \subseteq R
    BY <2>1, <2>2, NaturalsFrom
  <2>4. k \in R
    BY <2>3
  <2> QED
    BY <1>2, <2>4 DEF R
<1>3. \E q \in 0 .. size : 2^q >= size
  <2>1. size \in 0 .. size /\ 2^size >= size
    BY <1>1
  <2> QED
    BY <2>1
<1>4. \E q \in 0 .. size : 2^q >= size /\ \A r \in 0 .. q - 1 : 2^r < size
  BY <1>2, <1>3
<1>5. QubitsFor(size) \in 0 .. size /\ 2^QubitsFor(size) >= size
  BY <1>4 DEF QubitsFor
<1> QED
  BY <1>1, <1>5

\* Padding moves no cell: the masks are the positions.
LEMMA PaddedIs ==
  ASSUME NEW size \in Nat, NEW f, IsSymmetric(f, size)
  PROVE  IsOperator(Padded(f, size)) /\ IsHermitian(Padded(f, size))
<1> DEFINE n == QubitsFor(size)
           at(c) == <<MaskOf(c[1], n), MaskOf(c[2], n)>>
           P == {at(c) : c \in DOMAIN f}
           g == [pq \in P |-> C(f[<<ValueOf(pq[1]), ValueOf(pq[2])>>], 0)]
           op == Padded(f, size)
<1>1. n \in Nat /\ size <= 2^n /\ 2^n \in Nat
  BY EnoughQubits, PowersOfTwo
<1>2. op.n = n /\ op.at = g
  BY DEF Padded
<1> HIDE DEF op, n
<1>3. \A v \in 0 .. size - 1 : MaskOf(v, n) \in Masks(n) /\ ValueOf(MaskOf(v, n)) = v
  <2>1. PICK d \in Nat : d = 2^n
    BY <1>1
  <2>2. \A v \in 0 .. d - 1 : MaskOf(v, n) \in Masks(n) /\ ValueOf(MaskOf(v, n)) = v
    BY <1>1, <2>1, ValueOfMask
  <2>3. size <= d
    BY <1>1, <2>1
  <2> QED
    BY <2>2, <2>3
<1>4. ASSUME NEW c \in DOMAIN f
      PROVE  /\ at(c)[1] \in Masks(n) /\ at(c)[2] \in Masks(n)
             /\ at(c) \in P /\ g[at(c)] = C(f[c], 0) /\ f[c] \in Int
             /\ <<c[2], c[1]>> \in DOMAIN f /\ f[<<c[2], c[1]>>] = f[c]
             /\ at(<<c[2], c[1]>>) = <<at(c)[2], at(c)[1]>>
  <2>1. /\ c = <<c[1], c[2]>> /\ c[1] \in 0 .. size - 1 /\ c[2] \in 0 .. size - 1
        /\ f[c] \in Int /\ <<c[2], c[1]>> \in DOMAIN f /\ f[<<c[2], c[1]>>] = f[c]
    BY DEF IsSymmetric
  <2>2. at(c)[1] = MaskOf(c[1], n) /\ at(c)[2] = MaskOf(c[2], n)
    OBVIOUS
  <2>3. ValueOf(at(c)[1]) = c[1] /\ ValueOf(at(c)[2]) = c[2]
    BY <1>3, <2>1, <2>2
  <2>4. at(c) \in P
    OBVIOUS
  <2>5. g[at(c)] = C(f[<<ValueOf(at(c)[1]), ValueOf(at(c)[2])>>], 0)
    BY <2>4
  <2>6. at(<<c[2], c[1]>>) = <<at(c)[2], at(c)[1]>>
    OBVIOUS
  <2> HIDE DEF at, P, g
  <2> QED
    BY <1>3, <2>1, <2>2, <2>3, <2>4, <2>5, <2>6
<1>5. \A pq \in P : \E c \in DOMAIN f : pq = at(c)
  OBVIOUS
<1>6. DOMAIN g = P
  OBVIOUS
<1>7. \A c \in DOMAIN f : at(c) = <<at(c)[1], at(c)[2]>>
  OBVIOUS
<1> HIDE DEF at, P, g
<1>8. IsOperator(op)
  <2>1. \A pq \in P : pq \in Masks(n) \X Masks(n)
    <3> TAKE pq \in P
    <3>1. PICK c \in DOMAIN f : pq = at(c)
      BY <1>5
    <3>2. PICK a \in Masks(n), b \in Masks(n) : a = at(c)[1] /\ b = at(c)[2]
      BY <1>4
    <3>3. pq = <<a, b>>
      BY <1>7, <3>1, <3>2
    <3> QED
      BY <3>3
  <2>2. \A pq \in P : g[pq] \in Complex
    <3> TAKE pq \in P
    <3>1. PICK c \in DOMAIN f : pq = at(c)
      BY <1>5
    <3>2. PICK r \in Int : r = f[c] /\ g[pq] = C(r, 0)
      BY <1>4, <3>1
    <3> QED
      BY <3>2, ComplexTypes
  <2> QED
    BY <1>1, <1>2, <1>6, <2>1, <2>2 DEF IsOperator
<1>9. IsHermitian(op)
  <2> SUFFICES ASSUME NEW pq \in P PROVE At(op, pq[2], pq[1]) = Conj(g[pq])
    BY <1>2, <1>6 DEF IsHermitian
  <2>1. PICK c \in DOMAIN f : pq = at(c)
    BY <1>5
  <2>2. PICK r \in Int : r = f[c]
    BY <1>4
  <2>3. PICK d \in DOMAIN f : d = <<c[2], c[1]>> /\ f[d] = r /\ at(d) = <<pq[2], pq[1]>>
    BY <1>4, <2>1, <2>2
  <2>4. <<pq[2], pq[1]>> \in P /\ g[<<pq[2], pq[1]>>] = C(r, 0)
    BY <1>4, <2>3
  <2>5. g[pq] = C(r, 0)
    BY <1>4, <2>1, <2>2
  <2>6. Conj(C(r, 0)) = C(r, 0)
    BY DEF Conj, C
  <2> QED
    BY <1>2, <1>6, <2>4, <2>5, <2>6 DEF At
<1> QED
  BY <1>8, <1>9 DEF op

\* The oscillators' operator, from either builder.
LEMMA OscillatorsAre ==
  ASSUME NEW n \in Nat, Roots(n), NEW input
  PROVE  /\ Oscillators(n, input) = Oscillators(n, "dense")
         /\ IsOperator(Oscillators(n, input)) /\ IsHermitian(Oscillators(n, input))
<1>1. Oscillators(n, input) = Padded(BuiltDense(n), Size(n))
      /\ Oscillators(n, "dense") = Padded(BuiltDense(n), Size(n))
  BY BuildersPutTheSame DEF Oscillators
<1>2. Size(n) \in Nat
  BY PairsFit
<1>3. IsOperator(Padded(BuiltDense(n), Size(n))) /\ IsHermitian(Padded(BuiltDense(n), Size(n)))
  BY <1>2, BuildersPutTheSame, PaddedIs
<1> QED
  BY <1>1, <1>3

\* The perturbed operator is one.
LEMMA PerturbedIs ==
  ASSUME NEW op, IsOperator(op), DOMAIN op = {"n", "at"}, NEW value \in Int
  PROVE  IsOperator(Perturbed(op, value))
<1> DEFINE D == DOMAIN op.at
           e(pq) == IF ValueOf(pq[1]) < ValueOf(pq[2]) THEN value
                    ELSE IF ValueOf(pq[1]) > ValueOf(pq[2]) THEN -value ELSE 0
           g == [pq \in D |-> Plus(op.at[pq], C(0, e(pq)))]
           new == Perturbed(op, value)
<1>1. new = [op EXCEPT !.at = g]
  BY DEF Perturbed
<1> HIDE DEF g, new
<1>2. new.n = op.n /\ new.at = g
  BY <1>1
<1>3. DOMAIN g = D /\ \A pq \in D : g[pq] = Plus(op.at[pq], C(0, e(pq)))
  BY DEF g
<1>4. \A pq \in D : e(pq) \in Int
  OBVIOUS
<1> HIDE DEF e
<1>5. \A pq \in D : g[pq] \in Complex
  <2> TAKE pq \in D
  <2>1. C(0, e(pq)) \in Complex
    BY <1>4, ComplexTypes
  <2>2. op.at[pq] \in Complex
    BY DEF IsOperator
  <2> QED
    BY <1>3, <2>1, <2>2, ComplexTypes
<1> QED
  BY <1>2, <1>3, <1>5 DEF IsOperator, new

-----------------------------------------------------------------------------
(* The accumulator and the chunks.                                         *)

\* The accumulator g holds the sequence s, in as much room as it has.
Holds(g, s) ==
  /\ Len(g.data) \in Nat /\ DOMAIN g.data = 1 .. Len(g.data)
  /\ g.data = [k \in 1 .. Len(g.data) |-> g.data[k]]
  /\ g.size = Len(s) /\ g.size <= Len(g.data)
  /\ \A k \in 1 .. g.size : g.data[k] = s[k]

\* A new one holds nothing.
LEMMA HoldsEmpty ==
  ASSUME NEW c \in Nat
  PROVE  Holds(Empty(c), <<>>)
<1> DEFINE f == [k \in 1 .. c |-> Junk]
<1>1. Empty(c).data = f /\ Empty(c).size = 0
  BY DEF Empty
<1>2. DOMAIN f = 1 .. c /\ f = [k \in 1 .. c |-> f[k]]
  OBVIOUS
<1> HIDE DEF f
<1>3. Len(f) = c
  BY <1>2, LengthIs
<1> QED
  BY <1>1, <1>2, <1>3 DEF Holds

\* Extending one appends, whether or not it has to grow.
LEMMA HoldsExtended ==
  ASSUME NEW X, NEW g, NEW s \in Seq(X), NEW t \in Seq(X), Holds(g, s)
  PROVE  Holds(Extended(g, t), s \o t)
<1>1. PICK a \in Nat, b \in Nat, c \in Nat : a = Len(s) /\ b = Len(t) /\ c = Len(g.data)
  BY DEF Holds
<1>2. a <= c /\ g.size = a /\ \A k \in 1 .. a : g.data[k] = s[k]
  BY <1>1 DEF Holds
<1> DEFINE r == IF a + b > c THEN Greatest(a + b, 2 * c) ELSE c
<1>3. r \in Nat /\ a + b <= r
  BY <1>2 DEF Greatest
<1>4. Room(g, t) = r
  BY <1>1, <1>2 DEF Room
<1> DEFINE old == [k \in 1 .. r |-> IF k <= c THEN g.data[k] ELSE Junk]
           f == [k \in 1 .. r |-> IF k \in a + 1 .. a + b THEN t[k - a] ELSE old[k]]
<1>5. Extended(g, t).data = f /\ Extended(g, t).size = a + b
  <2>1. Extended(g, t) = Placed(g, t, old)
    BY <1>1, <1>4 DEF Extended
  <2>2. DOMAIN old = 1 .. r
    OBVIOUS
  <2> HIDE DEF old, r
  <2>3. Placed(g, t, old).data = f /\ Placed(g, t, old).size = a + b
    BY <1>1, <1>2, <2>2 DEF Placed
  <2> QED
    BY <2>1, <2>3
<1>6. /\ Len(s \o t) = a + b
      /\ \A k \in 1 .. a + b : (s \o t)[k] = IF k <= a THEN s[k] ELSE t[k - a]
  BY <1>1
<1>7. ASSUME NEW k \in 1 .. a + b PROVE f[k] = (s \o t)[k]
  <2>0. k \in 1 .. r
    BY <1>3
  <2>1. CASE k <= a
    <3>1. k \in 1 .. a /\ k <= c /\ k \notin a + 1 .. a + b
      BY <1>2, <2>1
    <3>2. f[k] = g.data[k]
      BY <2>0, <3>1
    <3> QED
      BY <1>2, <1>6, <2>1, <3>1, <3>2
  <2>2. CASE ~(k <= a)
    <3>1. k \in a + 1 .. a + b
      BY <2>2
    <3>2. f[k] = t[k - a]
      BY <2>0, <3>1
    <3> QED
      BY <1>6, <2>2, <3>2
  <2> QED
    BY <2>1, <2>2
<1> HIDE DEF r, old
<1>8. DOMAIN f = 1 .. r /\ f = [k \in 1 .. r |-> f[k]]
  OBVIOUS
<1> HIDE DEF f
<1>9. Len(f) = r
  BY <1>3, <1>8, LengthIs
<1> QED
  BY <1>3, <1>5, <1>6, <1>7, <1>8, <1>9 DEF Holds

\* What it gives out is what it holds.
LEMMA HoldsFinalized ==
  ASSUME NEW X, NEW g, NEW s \in Seq(X), Holds(g, s)
  PROVE  Finalized(g) = s
<1>1. PICK a \in Nat, c \in Nat : a = Len(s) /\ c = Len(g.data) /\ a = g.size /\ a <= c
  BY DEF Holds
<1>2. PICK d : d = g.data
  OBVIOUS
<1>3. d = [k \in 1 .. c |-> d[k]] /\ DOMAIN d = 1 .. c /\ \A k \in 1 .. a : d[k] = s[k]
  BY <1>1, <1>2 DEF Holds
<1> DEFINE R == {d[k] : k \in 1 .. c}
<1>4. d \in Seq(R)
  <2>1. \A k \in 1 .. c : d[k] \in R
    OBVIOUS
  <2> HIDE DEF R
  <2> QED
    BY <1>3, <2>1, IsASeq
<1> HIDE DEF R
<1>5. Finalized(g) = SubSeq(d, 1, a)
  BY <1>1, <1>2 DEF Finalized
<1>6. Len(d) = c
  BY <1>1, <1>2
<1>7. /\ SubSeq(d, 1, a) \in Seq(R)
      /\ Len(SubSeq(d, 1, a)) = a
      /\ \A i \in 1 .. a : SubSeq(d, 1, a)[i] = d[i]
  <2>1. CASE a = 0
    <3>1. SubSeq(d, 1, 0) = <<>>
      BY <1>4, SubSeqEmpty
    <3> QED
      BY <2>1, <3>1
  <2>2. CASE a >= 1
    <3>1. \A i \in 1 .. a : d[i] \in R
      BY <1>1, <1>4, <1>6
    <3>2. /\ SubSeq(d, 1, a) \in Seq(R)
          /\ Len(SubSeq(d, 1, a)) = IF 1 <= a THEN a - 1 + 1 ELSE 0
          /\ \A i \in 1 .. a - 1 + 1 : SubSeq(d, 1, a)[i] = d[1 + i - 1]
      BY <1>1, <1>4, <1>6, <2>2, <3>1, SubSeqProperties
    <3> QED
      BY <2>2, <3>2
  <2> QED
    BY <2>1, <2>2
<1>8. PICK u \in Seq(R) : u = SubSeq(d, 1, a)
  BY <1>7
<1>9. Len(u) = Len(s) /\ \A i \in 1 .. Len(s) : u[i] = s[i]
  BY <1>1, <1>3, <1>7, <1>8
<1>10. u = s
  BY <1>9, SeqEqual
<1> QED
  BY <1>5, <1>8, <1>10

\* The first rows of all chunks, and where a chunk stops.
Starts == {i \in 0 .. Len(active) - 1 : i % request.chunk = 0}
Stop(start) == Smaller(start + request.chunk, Len(active))
\* The rows whose chunk is not among those to come.
DoneRows(to_come) == UNION {RowsOf(i, Stop(i)) : i \in Starts \ to_come}

\* All active rows.
AllRows == {active[i] : i \in DOMAIN active}

\* Row k is in the chunk whose number is k div chunk.
LEMMA ChunkBounds ==
  ASSUME Ready, Chunked, NEW i \in Starts
  PROVE  /\ i \in Nat /\ Stop(i) \in i .. Len(active)
         /\ \A k \in Nat : k < Len(active) =>
              (k + 1 \in i + 1 .. Stop(i) <=> (k \div request.chunk) = (i \div request.chunk))
<1>1. PICK L \in Nat : L = Len(active)
  BY ActiveIs DEF Ready, Rising
<1>2. PICK c \in Nat \ {0} : c = request.chunk
  BY DEF Ready, IsRequest, Chunked
<1>3. i \in 0 .. L - 1 /\ (i % c) = 0
  BY <1>1, <1>2 DEF Starts
<1>4. PICK a \in Nat : a = i \div c /\ i = c * a
  <2>1. i \div c \in Nat /\ i = c * (i \div c) + (i % c)
    BY <1>3, Division
  <2>2. PICK a \in Nat : a = i \div c
    BY <2>1
  <2>3. i = c * a + 0
    BY <1>3, <2>1, <2>2
  <2>4. c * a + 0 = c * a
    OBVIOUS
  <2> QED
    BY <2>2, <2>3, <2>4
<1>5. Stop(i) = IF i + c <= L THEN i + c ELSE L
  BY <1>1, <1>2 DEF Stop, Smaller
<1>6. Stop(i) \in i .. L
  BY <1>3, <1>5
<1>7. ASSUME NEW k \in Nat, k < L
      PROVE  k + 1 \in i + 1 .. Stop(i) <=> (k \div c) = a
  <2>1. PICK b \in Nat, r \in 0 .. c - 1 : b = k \div c /\ r = (k % c) /\ k = c * b + r
    BY Division
  <2>2. k + 1 \in i + 1 .. Stop(i) <=> (i <= k /\ k < i + c)
    BY <1>3, <1>5, <1>7
  <2>3. CASE b = a
    BY <1>4, <2>1, <2>2, <2>3
  <2>4. CASE b < a
    <3>1. PICK d \in Nat : a = b + 1 + d
      <4>1. a - (b + 1) \in Nat /\ a = b + 1 + (a - (b + 1))
        BY <2>4
      <4> QED
        BY <4>1
    <3>2. c * a = c * b + c + c * d /\ c * d \in Nat /\ c * b \in Nat
      BY <3>1
    <3>3. k < i
      BY <1>4, <2>1, <3>2
    <3>4. ~(i <= k /\ k < i + c)
      BY <1>3, <3>3
    <3>5. b # a
      BY <2>4
    <3> QED
      BY ONLY <2>1, <2>2, <3>4, <3>5
  <2>5. CASE b > a
    <3>1. PICK d \in Nat : b = a + 1 + d
      <4>1. b - (a + 1) \in Nat /\ b = a + 1 + (b - (a + 1))
        BY <2>5
      <4> QED
        BY <4>1
    <3>2. c * b = c * a + c + c * d /\ c * d \in Nat /\ c * a \in Nat
      BY <3>1
    <3>3. k >= i + c
      BY <1>4, <2>1, <3>2
    <3>4. ~(i <= k /\ k < i + c)
      BY <1>3, <3>3
    <3>5. b # a
      BY <2>5
    <3> QED
      BY ONLY <2>1, <2>2, <3>4, <3>5
  <2> QED
    BY <2>1, <2>3, <2>4, <2>5
<1> QED
  BY <1>1, <1>2, <1>3, <1>4, <1>6, <1>7

\* A chunk's rows are none of those already done.
LEMMA OneMoreChunk ==
  ASSUME Ready, Chunked, NEW to_come \in SUBSET Starts, NEW i \in to_come
  PROVE  /\ DoneRows(to_come \ {i}) = DoneRows(to_come) \cup RowsOf(i, Stop(i))
         /\ DoneRows(to_come) \cap RowsOf(i, Stop(i)) = {}
<1> DEFINE rows(j) == RowsOf(j, Stop(j))
<1>1. Starts \ (to_come \ {i}) = (Starts \ to_come) \cup {i}
  OBVIOUS
<1>2. DoneRows(to_come \ {i}) = UNION {rows(j) : j \in (Starts \ to_come) \cup {i}}
      /\ DoneRows(to_come) = UNION {rows(j) : j \in Starts \ to_come}
  BY <1>1 DEF DoneRows
<1>3. \A x : x \in DoneRows(to_come \ {i}) <=> x \in DoneRows(to_come) \cup rows(i)
  <2> HIDE DEF rows
  <2> QED
    BY <1>2
<1>4. ASSUME NEW j \in Starts \ to_come, NEW x \in rows(j), x \in rows(i) PROVE FALSE
  <2>1. PICK L \in Nat : L = Len(active) /\ DOMAIN active = 1 .. L
    BY ActiveIs DEF Ready, Rising
  <2>2. /\ i \in Nat /\ Stop(i) \in i .. L /\ j \in Nat /\ Stop(j) \in j .. L
        /\ \A k \in Nat : k < L => (k + 1 \in i + 1 .. Stop(i) <=> (k \div request.chunk) = (i \div request.chunk))
        /\ \A k \in Nat : k < L => (k + 1 \in j + 1 .. Stop(j) <=> (k \div request.chunk) = (j \div request.chunk))
    BY <2>1, ChunkBounds
  <2>3. PICK p \in i + 1 .. Stop(i) : x = active[p]
    BY <1>4 DEF RowsOf
  <2>4. PICK q \in j + 1 .. Stop(j) : x = active[q]
    BY DEF RowsOf
  <2>5. p \in DOMAIN active /\ q \in DOMAIN active
    BY <2>1, <2>2
  <2>6. p = q
    BY <2>3, <2>4, <2>5, ActiveIs, ActiveIsInjective DEF Ready, IsOperator
  <2>7. PICK k \in Nat : p = k + 1 /\ k < L
    <3>1. p - 1 \in Nat /\ p = (p - 1) + 1 /\ p - 1 < L
      BY <2>1, <2>2, <2>5
    <3> QED
      BY <3>1
  <2>8. (i \div request.chunk) = (j \div request.chunk)
    BY <2>2, <2>6, <2>7
  <2>9. PICK c \in Nat \ {0} : c = request.chunk
    BY DEF Ready, IsRequest, Chunked
  <2>10. (i % c) = 0 /\ (j % c) = 0
    BY <2>9 DEF Starts
  <2>11. i = c * (i \div c) + (i % c) /\ j = c * (j \div c) + (j % c)
    BY <2>2, Division
  <2>12. i = j
    <3>1. PICK a : a = i \div c /\ a = j \div c
      BY <2>8, <2>9
    <3>2. i = c * a + 0 /\ j = c * a + 0
      BY ONLY <2>10, <2>11, <3>1
    <3> QED
      BY ONLY <3>2
  <2> QED
    BY <2>12
<1>5. ASSUME NEW x \in DoneRows(to_come) PROVE x \notin rows(i)
  <2>1. PICK j \in Starts \ to_come : x \in rows(j)
    BY <1>2
  <2> QED
    BY <1>4, <2>1
<1> HIDE DEF rows
<1>6. DoneRows(to_come \ {i}) = DoneRows(to_come) \cup rows(i)
  BY <1>3
<1>7. DoneRows(to_come) \cap rows(i) = {}
  BY <1>5
<1> QED
  BY <1>6, <1>7 DEF rows

\* Before the first chunk no row is done, after the last one all are.
LEMMA ChunksCover ==
  ASSUME Ready, Chunked
  PROVE  DoneRows(Starts) = {} /\ DoneRows({}) = AllRows
<1>1. DoneRows(Starts) = {}
  BY DEF DoneRows
<1>2. PICK L \in Nat : L = Len(active) /\ DOMAIN active = 1 .. L
  BY ActiveIs DEF Ready, Rising
<1>3. PICK c \in Nat \ {0} : c = request.chunk
  BY DEF Ready, IsRequest, Chunked
<1>4. ASSUME NEW x \in DoneRows({}) PROVE x \in AllRows
  <2>1. PICK i \in Starts : x \in RowsOf(i, Stop(i))
    BY DEF DoneRows
  <2>2. PICK p \in i + 1 .. Stop(i) : x = active[p]
    BY <2>1 DEF RowsOf
  <2>3. i \in Nat /\ Stop(i) \in i .. L
    BY <1>2, ChunkBounds
  <2>4. p \in DOMAIN active
    BY <1>2, <2>3
  <2> QED
    BY <2>2, <2>4 DEF AllRows
<1>5. ASSUME NEW x \in AllRows PROVE x \in DoneRows({})
  <2>1. PICK p \in 1 .. L : x = active[p]
    BY <1>2 DEF AllRows
  <2>2. PICK k \in Nat : p = k + 1 /\ k < L
    <3>1. p - 1 \in Nat /\ p = (p - 1) + 1 /\ p - 1 < L
      OBVIOUS
    <3> QED
      BY <3>1
  <2>3. PICK a \in Nat, r \in 0 .. c - 1 : a = k \div c /\ k = c * a + r
    BY Division
  <2>4. PICK i \in Nat : i = c * a
    BY <2>3
  <2>5. i \div c = a /\ (i % c) = 0
    <3>1. i = c * a + 0 /\ 0 \in 0 .. c - 1
      BY <2>4
    <3> QED
      BY <3>1, QuotientIsUnique
  <2>6. i <= k
    BY <2>3, <2>4
  <2>7. i \in Starts
    BY <1>2, <1>3, <2>2, <2>5, <2>6 DEF Starts
  <2>8. k + 1 \in i + 1 .. Stop(i)
    <3>1. (k + 1 \in i + 1 .. Stop(i) <=> (k \div request.chunk) = (i \div request.chunk))
      BY <1>2, <2>2, <2>7, ChunkBounds
    <3>2. (k \div request.chunk) = (i \div request.chunk)
      BY ONLY <1>3, <2>3, <2>5
    <3> QED
      BY <3>1, <3>2
  <2>9. x \in RowsOf(i, Stop(i))
    BY <2>1, <2>2, <2>8 DEF RowsOf
  <2> QED
    BY <2>7, <2>9 DEF DoneRows
<1> QED
  BY <1>1, <1>4, <1>5

-----------------------------------------------------------------------------
(* A list of all coefficients is the decomposition.                        *)

\* What the caller gets for a list of coefficients.
ResultOf(s) == IF request.entry \in {"terms", "stream", "arrays"} THEN Terms(s) ELSE s

\* The value it has there.
ValueOfTerm(e) == IF request.hermitian THEN C(e.value.re, 0) ELSE e.value

\* A coefficient in a list has the trace of its label as its value.
LEMMA EntriesAre ==
  ASSUME Ready, NEW X, NEW e \in Entries(X), X \subseteq Masks(operator.n)
  PROVE  \E x \in X, z \in Masks(operator.n) :
           /\ e = EntryOf(x, z) /\ e.x = x /\ e.z = z
           /\ e.value = TraceAt(operator, x, z)
           /\ LabelOf(e) = Label(x, z, operator.n)
           /\ TraceAt(operator, x, z) = Trace(Label(x, z, operator.n))
           /\ e.value \in Complex
           /\ DOMAIN e = {"x", "z", "value"}
<1>1. PICK x \in X, z \in Masks(operator.n) : e = EntryOf(x, z)
  BY DEF Entries
<1>2. /\ e.x = x /\ e.z = z /\ e.value = TraceAt(operator, x, z)
      /\ DOMAIN e = {"x", "z", "value"}
  BY <1>1 DEF EntryOf
<1>3. LabelOf(e) = Label(x, z, operator.n)
  BY <1>2 DEF LabelOf
<1>4. TraceAt(operator, x, z) = Trace(Label(x, z, operator.n))
  BY DEF TraceAt, Trace
<1>5. x \in Masks(operator.n) /\ IsOperator(operator)
  BY DEF Ready
<1>6. TraceAt(operator, x, z) \in Complex
  <2>1. PICK op : op = operator
    OBVIOUS
  <2>2. TraceAt(op, x, z) = CoefficientAt(op, x, z) /\ CoefficientAt(op, x, z) \in Complex
    BY <1>5, <2>1, CoefficientIsTrace, TraceTypes
  <2> QED
    BY <2>1, <2>2
<1> QED
  BY <1>1, <1>2, <1>3, <1>4, <1>6

\* The result holds the labels and values of the list, in its order.
LEMMA ResultsAre ==
  ASSUME Ready, NEW X, X \subseteq Masks(operator.n), NEW s \in Seq(Entries(X)),
         result = ResultOf(s)
  PROVE  /\ DOMAIN result = DOMAIN s
         /\ \A k \in DOMAIN s : AsTerm(result[k]) = [label |-> LabelOf(s[k]),
                                                     value |-> ValueOfTerm(s[k])]
<1>1. CASE request.entry \in {"terms", "stream", "arrays"}
  <2>1. result = Terms(s)
    BY <1>1 DEF ResultOf
  <2>2. DOMAIN result = DOMAIN s
    BY <2>1 DEF Terms
  <2>3. ASSUME NEW k \in DOMAIN s
        PROVE AsTerm(result[k]) = [label |-> LabelOf(s[k]), value |-> ValueOfTerm(s[k])]
    <3> DEFINE t == [label |-> LabelOf(s[k]), value |-> ValueOfTerm(s[k])]
    <3>1. result[k] = t
      BY <2>1 DEF Terms, ValueOfTerm
    <3>2. "label" \in DOMAIN t
      OBVIOUS
    <3> HIDE DEF t
    <3>3. AsTerm(result[k]) = t
      BY <3>1, <3>2 DEF AsTerm
    <3> QED
      BY <3>3 DEF t
  <2> QED
    BY <2>2, <2>3
<1>2. CASE request.entry \notin {"terms", "stream", "arrays"}
  <2>1. result = s
    BY <1>2 DEF ResultOf
  <2>2. ~request.hermitian
    BY <1>2 DEF Ready, IsRequest
  <2>3. ASSUME NEW k \in DOMAIN s
        PROVE AsTerm(result[k]) = [label |-> LabelOf(s[k]), value |-> ValueOfTerm(s[k])]
    <3>1. PICK e \in Entries(X) : e = s[k]
      OBVIOUS
    <3>2. DOMAIN e = {"x", "z", "value"}
      BY EntriesAre
    <3>3. "label" \notin DOMAIN e
      BY <3>2
    <3>4. AsTerm(e) = [label |-> LabelOf(e), value |-> e.value]
      BY <3>3 DEF AsTerm
    <3>5. ValueOfTerm(e) = e.value
      BY <2>2 DEF ValueOfTerm
    <3> QED
      BY <2>1, <3>1, <3>4, <3>5
  <2> QED
    BY <2>1, <2>3
<1> QED
  BY <1>1, <1>2

\* A label whose row is not active has no trace: the rows that the code leaves
\* out are rows of zeros.
LEMMA TraceOutside ==
  ASSUME Ready, NEW x \in Masks(operator.n) \ AllRows, NEW z \in Masks(operator.n)
  PROVE  Trace(Label(x, z, operator.n)) = Zero
<1>1. PICK op : op = operator
  OBVIOUS
<1>2. op.n \in Nat /\ IsOperator(op) /\ x \in Masks(op.n) /\ z \in Masks(op.n)
  BY <1>1 DEF Ready, IsOperator
<1>3. x \notin Occupied(op)
  <2>1. AllRows = IF Assumed THEN Masks(operator.n) ELSE Occupied(operator)
    BY ActiveIs DEF AllRows
  <2> QED
    BY <1>1, <2>1
<1>4. \A q \in Masks(op.n) : RowAt(op, x)[q] = Zero
  <2> TAKE q \in Masks(op.n)
  <2>1. RowAt(op, x)[q] = At(op, Xor(x, q), q)
    BY DEF RowAt
  <2>2. <<Xor(x, q), q>> \notin DOMAIN op.at
    <3> DEFINE pq == <<Xor(x, q), q>>
    <3>1. Xor(pq[1], pq[2]) = x
      BY XorIsGroup DEF XorLaws
    <3> HIDE DEF pq
    <3>2. pq \in DOMAIN op.at => x \in Occupied(op)
      BY <3>1 DEF Occupied
    <3> QED
      BY <1>3, <3>2 DEF pq
  <2> QED
    BY <2>1, <2>2 DEF At
<1> DEFINE f == [q \in Masks(op.n) |-> Scaled(RowAt(op, x)[q], Sign(z \cap q))]
<1>5. \A q \in Masks(op.n) : f[q] = Zero
  <2> TAKE q \in Masks(op.n)
  <2>1. PICK g \in Int : g = Sign(z \cap q)
    BY <1>2, PhasesAreNumbers DEF PhaseTypes
  <2>2. Scaled(Zero, g) = Zero
    BY DEF Scaled, Zero, C
  <2> QED
    BY <1>4, <2>1, <2>2
<1>6. Total(f) = Zero
  <2>1. IsFiniteSet(Masks(op.n)) /\ DOMAIN f = Masks(op.n)
    BY <1>2, MasksFinite
  <2> DEFINE S == Masks(op.n)
  <2> HIDE DEF f, S
  <2>2. Numbers(f, S)
    BY <1>5, <2>1, ComplexTypes DEF Numbers, S
  <2>3. Total(f) = Total([e \in {} |-> f[e]])
    <3>1. \A e \in S \ {} : f[e] = Zero
      BY <1>5 DEF S
    <3>2. PICK T \in SUBSET S : T = {}
      OBVIOUS
    <3>3. \A e \in S \ T : f[e] = Zero
      BY <3>1, <3>2
    <3>4. Total(f) = Total([e \in T |-> f[e]])
      BY <2>2, <3>3, TotalWithin
    <3> QED
      BY <3>2, <3>4
  <2>4. [e \in {} |-> f[e]] = [e \in {} |-> Zero]
    OBVIOUS
  <2>5. Total([e \in {} |-> Zero]) = Zero
    BY TotalOfOne, ComplexTypes
  <2> QED
    BY <2>3, <2>4, <2>5
<1>7. CoefficientAt(op, x, z) = Zero
  <2>1. ConjPhase(x, z) \in Complex
    BY <1>2, PhasesAreNumbers DEF PhaseTypes
  <2>2. CoefficientAt(op, x, z) = Times(Total(f), ConjPhase(x, z))
    BY DEF CoefficientAt
  <2> QED
    BY <1>6, <2>1, <2>2, TimesOne
<1>8. TraceAt(op, x, z) = Zero
  BY <1>2, <1>7, CoefficientIsTrace
<1>9. Trace(Label(x, z, operator.n)) = TraceAt(op, x, z)
  BY <1>1 DEF TraceAt, Trace
<1> QED
  BY <1>8, <1>9

\* A result that lists the coefficients of all active rows is the decomposition.
LEMMA RightIs ==
  ASSUME Ready, NEW s, Lists(s, AllRows, Thresholded), result = ResultOf(s)
  PROVE  Right
<1> DEFINE n == operator.n
           X == AllRows
<1>1. n \in Nat /\ X \subseteq Masks(n)
  BY ActiveIs DEF Ready, IsOperator, AllRows, Rising
<1>2. s \in Seq(Entries(X)) /\ DOMAIN s = 1 .. Len(s)
  BY DEF Lists
<1>3. /\ DOMAIN result = DOMAIN s
      /\ \A k \in DOMAIN s : AsTerm(result[k]) = [label |-> LabelOf(s[k]),
                                                  value |-> ValueOfTerm(s[k])]
  BY <1>1, <1>2, ResultsAre
<1>4. \A k \in DOMAIN s : /\ AsTerm(result[k]).label = LabelOf(s[k])
                          /\ AsTerm(result[k]).value = ValueOfTerm(s[k])
  BY <1>3
<1>5. \A k \in DOMAIN s : s[k] \in Entries(X)
  BY <1>2
<1>6. ASSUME NEW d \in Entries(X), NEW e \in Entries(X), LabelOf(d) = LabelOf(e)
      PROVE  d = e
  <2>1. PICK x \in X, z \in Masks(n) : d = EntryOf(x, z) /\ LabelOf(d) = Label(x, z, n)
    BY <1>1, EntriesAre
  <2>2. PICK y \in X, w \in Masks(n) : e = EntryOf(y, w) /\ LabelOf(e) = Label(y, w, n)
    BY <1>1, EntriesAre
  <2>3. [x |-> x, z |-> z] = [x |-> y, z |-> w]
    BY <1>1, <1>6, <2>1, <2>2, MasksOfLabel
  <2>4. x = y /\ z = w
    BY <2>3
  <2> QED
    BY <2>1, <2>2, <2>4
<1>7. \A j, k \in DOMAIN result : AsTerm(result[j]).label = AsTerm(result[k]).label => j = k
  <2> TAKE j, k \in DOMAIN result
  <2> HAVE AsTerm(result[j]).label = AsTerm(result[k]).label
  <2>1. LabelOf(s[j]) = LabelOf(s[k])
    BY <1>3, <1>4
  <2>2. s[j] = s[k]
    BY <1>3, <1>5, <1>6, <2>1
  <2> QED
    BY <1>3, <2>2 DEF Lists
<1>8. ASSUME NEW label \in Labels(n) PROVE Listed(label) = Due(label)
  <2>1. PICK x \in Masks(n), z \in Masks(n) : label = Label(x, z, n)
    BY <1>1, LabelOfMasks
  <2> DEFINE at == {k \in DOMAIN result : AsTerm(result[k]).label = label}
             c == Trace(label)
  <2>2. Listed(label) = IF at = {} THEN Zero ELSE AsTerm(result[CHOOSE k \in at : TRUE]).value
    BY DEF Listed
  <2>3. ASSUME NEW k \in at
        PROVE  /\ x \in X /\ s[k] = EntryOf(x, z) /\ s[k].value = c /\ c \in Complex
               /\ AsTerm(result[k]).value = ValueOfTerm(s[k])
    <3>1. k \in DOMAIN s /\ LabelOf(s[k]) = label
      BY <1>3, <1>4
    <3>2. PICK y \in X, w \in Masks(n) :
            /\ s[k] = EntryOf(y, w) /\ LabelOf(s[k]) = Label(y, w, n)
            /\ s[k].value = TraceAt(operator, y, w)
            /\ TraceAt(operator, y, w) = Trace(Label(y, w, n)) /\ s[k].value \in Complex
      BY <1>1, <1>5, <3>1, EntriesAre
    <3>3. [x |-> x, z |-> z] = [x |-> y, z |-> w]
      BY <1>1, <2>1, <3>1, <3>2, MasksOfLabel
    <3>4. x = y /\ z = w
      BY <3>3
    <3> QED
      BY <1>4, <2>1, <3>1, <3>2, <3>4
  <2>4. Due(label) = IF Thresholded /\ Square(c) <= request.atol * request.atol THEN Zero
                     ELSE IF request.hermitian THEN C(c.re, 0) ELSE c
    BY DEF Due
  <2>5. request.atol \in Nat
    BY DEF Ready, IsRequest
  <2> HIDE DEF c
  <2>6. CASE x \notin X
    <3>1. at = {}
      BY <2>3, <2>6
    <3>2. c = Zero
      BY <2>1, <2>6, TraceOutside DEF c
    <3>3. C(c.re, 0) = Zero
      BY <3>2 DEF Zero, C
    <3> HIDE DEF at
    <3>4. Due(label) = Zero
      BY <2>4, <3>2, <3>3
    <3> QED
      BY <2>2, <3>1, <3>4
  <2>7. CASE x \in X
    <3> DEFINE e == EntryOf(x, z)
    <3>1. e \in Entries(X)
      BY <2>7 DEF Entries
    <3>2. e.value = c /\ LabelOf(e) = label /\ c \in Complex
      <4>1. e.x = x /\ e.z = z /\ e.value = TraceAt(operator, x, z)
        BY DEF EntryOf
      <4>2. LabelOf(e) = label
        BY <2>1, <4>1 DEF LabelOf
      <4>3. TraceAt(operator, x, z) = c
        BY <2>1 DEF TraceAt, Trace, c
      <4>4. e.value \in Complex
        BY <1>1, <3>1, EntriesAre
      <4> QED
        BY <4>1, <4>2, <4>3, <4>4
    <3> HIDE DEF e
    <3>3. Survives(e) <=> ~(Square(c) <= request.atol * request.atol)
      <4>1. PICK v \in Int, u \in Int : v = Square(c) /\ u = request.atol * request.atol
        <5>1. c.re \in Int /\ c.im \in Int
          BY <3>2, ComplexTypes
        <5>2. PICK re \in Int, im \in Int : re = c.re /\ im = c.im
          BY <5>1
        <5>3. re * re + im * im \in Int
          OBVIOUS
        <5>4. Square(c) \in Int
          BY <5>2, <5>3 DEF Square
        <5>5. PICK m \in Nat : m = request.atol
          BY <2>5
        <5>6. request.atol * request.atol \in Int
          BY <5>5
        <5> QED
          BY <5>4, <5>6
      <4>2. Survives(e) <=> v > u
        BY <3>2, <4>1 DEF Survives
      <4> QED
        BY <4>1, <4>2
    <3>4. CASE Thresholded => Survives(e)
      <4>1. PICK k \in DOMAIN s : s[k] = e
        BY <3>1, <3>4 DEF Lists
      <4>2. k \in at
        BY <1>3, <1>4, <3>2, <4>1
      <4>3. PICK m \in at : m = CHOOSE j \in at : TRUE
        BY <4>2
      <4>4. Listed(label) = ValueOfTerm(s[m]) /\ s[m].value = c
        <5>1. at # {} /\ AsTerm(result[m]).value = ValueOfTerm(s[m]) /\ s[m].value = c
          BY <2>3
        <5> HIDE DEF at
        <5> QED
          BY <2>2, <4>3, <5>1
      <4>5. Due(label) = IF request.hermitian THEN C(c.re, 0) ELSE c
        BY <2>4, <3>3, <3>4
      <4> QED
        BY <4>4, <4>5 DEF ValueOfTerm
    <3>5. CASE ~(Thresholded => Survives(e))
      <4>1. at = {}
        <5> SUFFICES ASSUME NEW k \in at PROVE FALSE
          OBVIOUS
        <5>1. s[k] = e /\ k \in DOMAIN s
          BY <1>3, <2>3 DEF e
        <5> QED
          BY <3>5, <5>1 DEF Lists
      <4>2. Due(label) = Zero
        BY <2>4, <3>3, <3>5
      <4> HIDE DEF at
      <4> QED
        BY <2>2, <4>1, <4>2
    <3> QED
      BY <3>4, <3>5
  <2> QED
    BY <2>6, <2>7
<1> QED
  BY <1>7, <1>8 DEF Right

-----------------------------------------------------------------------------
(* The inductive invariant.                                                *)

\* No cell in use is unwritten.
Fine(g) == g.size <= Len(g.data) /\ \A k \in 1 .. g.size : g.data[k] # Junk

\* Types, and what each stage has already computed.
Read ==
  /\ IsOrigin(origin) /\ IsRequest(request) /\ IsOperator(operator)
  /\ stage \in {"new", "built", "blocks", "whole", "done", "raised"}
  /\ verdict \in {"none", "passed", "failed", "error"}
  /\ left \subseteq Starts
  /\ Fine(grown)
  /\ stage \in {"new", "built"} => cells = {} /\ active = <<>> /\ result = <<>>
  /\ stage \notin {"new", "built"} => Ready

\* The entry points that gather in the accumulator, and those that yield.
Gathers == request.entry \in {"triples", "terms"}
Streams == request.entry \in {"stream", "arrays"}

\* Between two chunks: the chunks behind are listed, in the accumulator or by
\* what the caller has.
Listing ==
  \E s : /\ Lists(s, DoneRows(left), TRUE)
         /\ Gathers => Holds(grown, s)
         /\ Streams => result = Terms(s)

\* The result lists the coefficients of all active rows.
Complete == \E s : Lists(s, AllRows, Thresholded) /\ result = ResultOf(s)

\* An unperturbed Hamiltonian is the one that the dense builder makes.
FromOscillators ==
  stage # "new" /\ origin.oscillators > 0 /\ ~origin.perturbed =>
    operator = Oscillators(origin.oscillators, "dense")

\* The inductive invariant.
IInv ==
  /\ Read
  /\ stage = "blocks" => Chunked /\ Listing
  /\ stage = "whole" => ~Chunked
  /\ stage = "done" /\ ~Blind => Complete
  /\ FromOscillators

\* Lists are about the operator and the request alone, which no step changes once
\* the operator is built.
LEMMA ListsStay ==
  ASSUME operator' = operator, request' = request
  PROVE  \A s, X, above : Lists(s, X, above)' <=> Lists(s, X, above)
<1>1. \A x, z : EntryOf(x, z)' = EntryOf(x, z)
  BY DEF EntryOf
<1>2. \A X : Entries(X)' = Entries(X)
  BY <1>1 DEF Entries
<1>3. \A e : Survives(e)' = Survives(e)
  BY DEF Survives
<1> QED
  BY <1>2, <1>3 DEF Lists

\* An accumulator that holds a list has no unwritten cell in use.
LEMMA HoldsFine ==
  ASSUME NEW X, NEW s \in Seq(Entries(X)), NEW g, Holds(g, s)
  PROVE  Fine(g)
<1>1. \A x, z : EntryOf(x, z) # Junk
  <2> TAKE x, z
  <2>1. DOMAIN EntryOf(x, z) = {"x", "z", "value"}
    BY DEF EntryOf
  <2>2. DOMAIN Junk = {"unwritten"}
    BY DEF Junk
  <2> QED
    BY <2>1, <2>2
<1>2. \A e \in Entries(X) : e # Junk
  BY <1>1 DEF Entries
<1>3. PICK a \in Nat : a = Len(s) /\ DOMAIN s = 1 .. a
  OBVIOUS
<1>4. g.size = a /\ \A k \in 1 .. a : g.data[k] = s[k] /\ s[k] \in Entries(X)
  BY <1>3 DEF Holds
<1> QED
  BY <1>2, <1>4 DEF Fine, Holds

\* The number of active rows is a number.
LEMMA LengthOfActive ==
  ASSUME IsOperator(operator)
  PROVE  Len(ActiveOf) \in Nat
<1>1. CASE Assumed
  <2>1. operator.n \in Nat
    BY DEF IsOperator
  <2>2. Len(InOrderOf(operator.n)) \in Nat
    BY <2>1, AllMasks
  <2> QED
    BY <1>1, <2>2 DEF ActiveOf
<1>2. CASE ~Assumed
  <2> DEFINE S == Occupied(operator)
             key == [x \in S |-> ValueOf(x)]
  <2>1. PICK c \in Nat : c = Cardinality(S)
    BY CellsAreFinite, FS_CardinalityType
  <2> DEFINE place(k) == CHOOSE e \in S : Cardinality({d \in S : key[d] < key[e]}) = k - 1
             at == [k \in 1 .. c |-> place(k)]
  <2>2. Ascending(S, key) = at
    BY <2>1 DEF Ascending
  <2> HIDE DEF place
  <2>3. at = [k \in 1 .. c |-> at[k]] /\ DOMAIN at = 1 .. c
    OBVIOUS
  <2> HIDE DEF at
  <2>4. Len(at) = c
    BY <2>3, LengthIs
  <2>5. ActiveOf = Ascending(S, key)
    BY <1>2 DEF ActiveOf
  <2> QED
    BY <2>1, <2>2, <2>4, <2>5
<1> QED
  BY <1>1, <1>2

\* A block that Emitted cuts out lists the coefficients of its rows.
LEMMA EmittedLists ==
  ASSUME Ready, ~Blind, NEW from \in Nat, NEW to \in from .. Len(active)
  PROVE  Lists(Emitted(from, to), RowsOf(from, to), TRUE)
BY AllOfLists, KeptLists DEF Emitted

\* Terms are built one by one.
LEMMA TermsOfBoth ==
  ASSUME NEW X, NEW s \in Seq(X), NEW t \in Seq(X)
  PROVE  Terms(s \o t) = Terms(s) \o Terms(t)
<1> DEFINE T(e) == [label |-> LabelOf(e),
                    value |-> IF request.hermitian THEN C(e.value.re, 0) ELSE e.value]
           Y == {T(e) : e \in X}
<1>1. \A u \in Seq(X) : /\ Terms(u) \in Seq(Y) /\ Len(Terms(u)) = Len(u)
                        /\ \A k \in 1 .. Len(u) : Terms(u)[k] = T(u[k])
  <2> TAKE u \in Seq(X)
  <2>1. PICK c \in Nat : c = Len(u) /\ DOMAIN u = 1 .. c
    OBVIOUS
  <2>2. Terms(u) = [k \in 1 .. c |-> T(u[k])]
    BY <2>1 DEF Terms
  <2>3. \A k \in 1 .. c : T(u[k]) \in Y
    <3>1. \A k \in 1 .. c : u[k] \in X
      BY <2>1
    <3> HIDE DEF T
    <3> QED
      BY <3>1
  <2> HIDE DEF T, Y
  <2>4. DOMAIN Terms(u) = 1 .. c /\ \A k \in 1 .. c : Terms(u)[k] = T(u[k])
    BY <2>2
  <2>5. Terms(u) = [k \in 1 .. c |-> Terms(u)[k]] /\ \A k \in 1 .. c : Terms(u)[k] \in Y
    BY <2>2, <2>3, <2>4
  <2>6. Terms(u) \in Seq(Y)
    BY <2>5, IsASeq
  <2>7. Len(Terms(u)) = c
    BY <2>4, <2>5, LengthIs
  <2> QED
    BY <2>1, <2>4, <2>6, <2>7
<1> HIDE DEF T, Y
<1>2. PICK a \in Nat, b \in Nat : a = Len(s) /\ b = Len(t)
  OBVIOUS
<1>3. s \o t \in Seq(X) /\ Len(s \o t) = a + b
      /\ \A k \in 1 .. a + b : (s \o t)[k] = IF k <= a THEN s[k] ELSE t[k - a]
  BY <1>2
<1>4. PICK u \in Seq(Y), v \in Seq(Y), w \in Seq(Y) : u = Terms(s) /\ v = Terms(t) /\ w = Terms(s \o t)
  BY <1>1, <1>3
<1>5. /\ Len(u) = a /\ Len(v) = b /\ Len(w) = a + b
      /\ \A k \in 1 .. a : u[k] = T(s[k])
      /\ \A k \in 1 .. b : v[k] = T(t[k])
      /\ \A k \in 1 .. a + b : w[k] = T((s \o t)[k])
  BY <1>1, <1>2, <1>3, <1>4
<1>6. u \o v \in Seq(Y) /\ Len(u \o v) = a + b
      /\ \A k \in 1 .. a + b : (u \o v)[k] = IF k <= a THEN u[k] ELSE v[k - a]
  <2>1. Len(u) = a /\ Len(v) = b
    BY <1>5
  <2>2. u \o v \in Seq(Y)
    OBVIOUS
  <2>3. Len(u \o v) = Len(u) + Len(v)
    OBVIOUS
  <2>4. \A k \in 1 .. Len(u) + Len(v) : (u \o v)[k] = IF k <= Len(u) THEN u[k] ELSE v[k - Len(u)]
    OBVIOUS
  <2> QED
    BY ONLY <2>1, <2>2, <2>3, <2>4
<1>7. \A k \in 1 .. a + b : w[k] = (u \o v)[k]
  <2> TAKE k \in 1 .. a + b
  <2>1. CASE k <= a
    BY <1>3, <1>5, <1>6, <2>1
  <2>2. CASE ~(k <= a)
    <3>1. k - a \in 1 .. b
      BY <2>2
    <3> QED
      BY <1>3, <1>5, <1>6, <2>2, <3>1
  <2> QED
    BY <2>1, <2>2
<1>8. w = u \o v
  BY <1>5, <1>6, <1>7, SeqEqual
<1> QED
  BY <1>4, <1>8

\* The invariant holds at the start ...
LEMMA InitHolds ==
  ASSUME Init
  PROVE  IInv
<1>1. stage = "new" /\ cells = {} /\ active = <<>> /\ left = {} /\ result = <<>>
      /\ verdict = "none" /\ grown = Empty(0)
      /\ operator = [n |-> 0, at |-> [pq \in {} |-> Zero]]
  BY DEF Init
<1>2. IsOrigin(origin) /\ IsRequest(request)
  BY CallsAssumption DEF Init
<1>3. IsOperator(operator)
  BY <1>1 DEF IsOperator
<1>4. Fine(grown)
  <2>1. Entries({}) = {} /\ <<>> \in Seq(Entries({}))
    BY DEF Entries
  <2>2. Holds(grown, <<>>)
    BY <1>1, HoldsEmpty
  <2> QED
    BY <2>1, <2>2, HoldsFine
<1>5. Read
  BY <1>1, <1>2, <1>3, <1>4 DEF Read
<1> QED
  BY <1>1, <1>5 DEF IInv, FromOscillators

\* ... and each action keeps it: Build by the types of the builders,
LEMMA BuildKeeps ==
  ASSUME IInv, Build
  PROVE  IInv'
<1>1. /\ stage = "new" /\ stage' = "built"
      /\ UNCHANGED <<origin, request, cells, active, left, grown, result, verdict>>
  BY DEF Build
<1>2. IsOrigin(origin) /\ IsRequest(request)
  BY DEF IInv, Read
<1>3. PICK o : o = origin
  OBVIOUS
<1>4. IsOperator(operator') /\ (o.oscillators > 0 /\ ~o.perturbed =>
                                operator' = Oscillators(o.oscillators, "dense"))
  <2>1. CASE o.oscillators = 0
    <3>1. operator' = o.matrix
      BY <1>3, <2>1 DEF Build
    <3> QED
      BY <1>2, <1>3, <2>1, <3>1 DEF IsOrigin
  <2>2. CASE o.oscillators # 0
    <3>1. PICK n \in Nat : n = o.oscillators
      BY <1>2, <1>3 DEF IsOrigin
    <3>2. Roots(n)
      BY <1>2, <1>3, <3>1 DEF IsOrigin, Roots
    <3>3. operator' = IF o.perturbed THEN Perturbed(Oscillators(n, "dense"), Perturbation)
                      ELSE Oscillators(n, request.input)
      BY <1>3, <2>2, <3>1 DEF Build
    <3>4. IsOperator(Oscillators(n, "dense"))
      BY <3>2, OscillatorsAre
    <3>5. IsOperator(Oscillators(n, request.input))
          /\ Oscillators(n, request.input) = Oscillators(n, "dense")
      BY <3>2, OscillatorsAre
    <3>6. IsOperator(Perturbed(Oscillators(n, "dense"), Perturbation))
      <4>1. PICK op : op = Oscillators(n, "dense")
        OBVIOUS
      <4>2. DOMAIN op = {"n", "at"}
        BY <4>1 DEF Oscillators, Padded
      <4>3. Perturbation \in Int
        BY DecompositionAssumption
      <4> QED
        BY <3>4, <4>1, <4>2, <4>3, PerturbedIs
    <3> QED
      BY <1>2, <1>3, <3>1, <3>3, <3>5, <3>6 DEF IsOrigin
  <2> QED
    BY <2>1, <2>2
<1>5. Read'
  <2>1. Starts' = Starts
    BY <1>1 DEF Starts
  <2>2. left' \subseteq Starts'
    BY <1>1, <2>1 DEF IInv, Read
  <2>3. Fine(grown)' /\ verdict' \in {"none", "passed", "failed", "error"}
    BY <1>1 DEF IInv, Read
  <2>4. cells' = {} /\ active' = <<>> /\ result' = <<>>
    BY <1>1 DEF IInv, Read
  <2> QED
    BY <1>1, <1>2, <1>4, <2>2, <2>3, <2>4 DEF Read
<1>6. FromOscillators'
  BY <1>1, <1>3, <1>4 DEF FromOscillators
<1> QED
  BY <1>1, <1>5, <1>6 DEF IInv

\* Prepare since nothing has been computed,
LEMMA PrepareKeeps ==
  ASSUME IInv, Prepare
  PROVE  IInv'
<1>1. /\ stage = "built" /\ stage' = (IF Chunked THEN "blocks" ELSE "whole")
      /\ UNCHANGED <<origin, request, operator, result, verdict>>
  BY DEF Prepare
<1>2. IsOrigin(origin) /\ IsRequest(request) /\ IsOperator(operator) /\ result = <<>>
      /\ Fine(grown) /\ verdict \in {"none", "passed", "failed", "error"}
  BY <1>1 DEF IInv, Read
<1>3. cells' = (IF Assumed THEN {} ELSE DOMAIN operator.at) /\ active' = ActiveOf
  <2>1. cells' = IF Assumed THEN {} ELSE DOMAIN operator.at
    BY DEF Prepare
  <2>2. CASE Assumed
    BY <2>2 DEF Prepare, ActiveOf, InOrder, InOrderOf, Dim
  <2>3. CASE ~Assumed
    <3>1. cells' = DOMAIN operator.at
      BY <2>1, <2>3
    <3>2. active' = Ascending({Xor(cell[1], cell[2]) : cell \in cells'},
                              [x \in {Xor(cell[1], cell[2]) : cell \in cells'} |-> ValueOf(x)])
      BY <2>3 DEF Prepare
    <3>3. {Xor(cell[1], cell[2]) : cell \in cells'} = Occupied(operator)
      BY <3>1 DEF Occupied
    <3>4. active' = Ascending(Occupied(operator),
                              [x \in Occupied(operator) |-> ValueOf(x)])
      BY <3>2, <3>3
    <3> QED
      BY <2>1, <2>3, <3>4 DEF ActiveOf
  <2> QED
    BY <2>1, <2>2, <2>3
<1>4. Ready'
  BY <1>1, <1>2, <1>3 DEF Ready, ActiveOf, Assumed
<1>5. left' = (IF Chunked THEN Starts' ELSE {})
  BY <1>1 DEF Prepare, Starts
<1>6. left' \subseteq Starts'
  BY <1>5
<1>7. grown' = grown \/ \E c \in Nat : grown' = Empty(c)
  <2>1. PICK l \in Nat : l = Len(active')
    BY <1>2, <1>3, LengthOfActive
  <2>2. PICK d \in Nat : d = Dim
    BY <1>2, PowersOfTwo DEF Dim, IsOperator
  <2>3. (l * d) \div 2 \in Nat
    <3>1. PICK m \in Nat : m = l * d
      OBVIOUS
    <3>2. m \div 2 \in Nat
      OBVIOUS
    <3> QED
      BY <3>1, <3>2
  <2>4. Greatest(MinCapacity, (l * d) \div 2) \in Nat
    BY <2>3, DecompositionAssumption DEF Greatest
  <2>5. grown' = (IF Chunked /\ request.entry \in {"triples", "terms"}
                  THEN Empty(Greatest(MinCapacity, (l * d) \div 2)) ELSE grown)
    BY <2>1, <2>2 DEF Prepare
  <2> QED
    BY <2>4, <2>5
<1>8. \A c \in Nat : Holds(Empty(c), <<>>)
  BY HoldsEmpty
<1>9. Fine(grown')
  <2>1. \A c \in Nat : Fine(Empty(c))
    <3>1. Entries({}) = {} /\ <<>> \in Seq(Entries({}))
      BY DEF Entries
    <3> QED
      BY <1>8, <3>1, HoldsFine
  <2> QED
    BY <1>2, <1>7, <2>1
<1>10. Read'
  <2>1. Fine(grown)'
    BY <1>9
  <2>2. stage' \in {"blocks", "whole"}
    BY <1>1
  <2> QED
    BY <1>1, <1>2, <1>4, <1>6, <2>1, <2>2 DEF Read
<1>11. ASSUME Chunked PROVE (Chunked /\ Listing)'
  <2>1. DoneRows(left)' = {}
    BY <1>5, <1>11 DEF DoneRows
  <2>2. Lists(<<>>, {}, TRUE)
    BY ListsNothing
  <2>3. Lists(<<>>, {}, TRUE)'
    BY <1>1, <2>2, ListsStay
  <2>4. Lists(<<>>, DoneRows(left), TRUE)'
    BY <2>1, <2>3
  <2>5. Gathers' => Holds(grown, <<>>)'
    <3>1. ASSUME Gathers' PROVE \E c \in Nat : grown' = Empty(c)
      <4>1. PICK l \in Nat : l = Len(active')
        BY <1>2, <1>3, LengthOfActive
      <4>2. PICK d \in Nat : d = Dim
        BY <1>2, PowersOfTwo DEF Dim, IsOperator
      <4>3. PICK m \in Nat : m = l * d
        OBVIOUS
      <4>4. m \div 2 \in Nat
        OBVIOUS
      <4>5. Greatest(MinCapacity, m \div 2) \in Nat
        BY <4>4, DecompositionAssumption DEF Greatest
      <4>6. grown' = Empty(Greatest(MinCapacity, m \div 2))
        BY <1>1, <1>11, <3>1, <4>1, <4>2, <4>3 DEF Prepare, Gathers
      <4> QED
        BY <4>5, <4>6
    <3> QED
      BY <1>8, <3>1
  <2>6. Streams' => (result = Terms(<<>>))'
    <3>1. Terms(<<>>)' = <<>>
      BY DEF Terms
    <3> QED
      BY <1>1, <1>2, <3>1
  <2>7. Chunked'
    BY <1>1, <1>11 DEF Chunked
  <2> QED
    BY <2>4, <2>5, <2>6, <2>7 DEF Listing
<1>12. ASSUME ~Chunked PROVE ~Chunked'
  BY <1>1, <1>12 DEF Chunked
<1>13. FromOscillators'
  BY <1>1 DEF IInv, FromOscillators
<1> QED
  BY <1>1, <1>10, <1>11, <1>12, <1>13 DEF IInv

\* What no later step touches.
Prepared == <<origin, request, operator, cells, active>>

\* What the later actions leave alone.
LEMMA StaysPrepared ==
  ASSUME IInv, stage \in {"blocks", "whole", "done", "raised"}, UNCHANGED Prepared
  PROVE  /\ Ready /\ Ready' /\ IsOrigin(origin)' /\ IsRequest(request)' /\ IsOperator(operator)'
         /\ Starts' = Starts /\ AllRows' = AllRows /\ Thresholded' = Thresholded
         /\ Chunked' = Chunked /\ Blind' = Blind
         /\ \A l : DoneRows(l)' = DoneRows(l)
         /\ \A s : Terms(s)' = Terms(s) /\ ResultOf(s)' = ResultOf(s)
         /\ (stage' # "new" => FromOscillators')
<1>1. Ready /\ IsOrigin(origin) /\ IsRequest(request) /\ IsOperator(operator)
  BY DEF IInv, Read
<1>2. origin' = origin /\ request' = request /\ operator' = operator /\ cells' = cells
      /\ active' = active
  BY DEF Prepared
<1>3. Ready'
  BY <1>1, <1>2 DEF Ready, ActiveOf, Assumed
<1>4. Starts' = Starts /\ AllRows' = AllRows /\ Thresholded' = Thresholded
      /\ Chunked' = Chunked /\ Blind' = Blind
  BY <1>2 DEF Starts, AllRows, Thresholded, Chunked, Blind, Assumed
<1>5. \A l : DoneRows(l)' = DoneRows(l)
  BY <1>2, <1>4 DEF DoneRows, RowsOf, Stop
<1>6. \A s : Terms(s)' = Terms(s) /\ ResultOf(s)' = ResultOf(s)
  <2>1. \A e : LabelOf(e)' = LabelOf(e)
    BY <1>2 DEF LabelOf
  <2>2. \A s : Terms(s)' = Terms(s)
    BY <1>2, <2>1 DEF Terms
  <2> QED
    BY <1>2, <2>2 DEF ResultOf
<1>7. FromOscillators'
  BY <1>2 DEF IInv, FromOscillators
<1> QED
  BY <1>1, <1>2, <1>3, <1>4, <1>5, <1>6, <1>7

\* Block since one more chunk lists its own rows,
LEMMA BlockKeeps ==
  ASSUME IInv, Block
  PROVE  IInv'
<1>1. /\ stage = "blocks" /\ UNCHANGED Prepared /\ UNCHANGED verdict
  BY DEF Block, Prepared
<1>2. PICK start \in left :
        LET entries == Emitted(start, Stop(start))
        IN  /\ left' = left \ {start}
            /\ \/ Gathers /\ grown' = Extended(grown, entries) /\ UNCHANGED <<stage, result>>
               \/ Streams /\ result' = result \o Terms(entries) /\ UNCHANGED <<stage, grown>>
               \/ stage' = "raised" /\ UNCHANGED <<grown, result>>
  BY DEF Block, Raise, Gathers, Streams, Stop
<1>0. PICK entries, rows : /\ entries = Emitted(start, Stop(start))
                           /\ rows = RowsOf(start, Stop(start))
  OBVIOUS
<1>3. /\ left' = left \ {start}
      /\ \/ Gathers /\ grown' = Extended(grown, entries) /\ UNCHANGED <<stage, result>>
         \/ Streams /\ result' = result \o Terms(entries) /\ UNCHANGED <<stage, grown>>
         \/ stage' = "raised" /\ UNCHANGED <<grown, result>>
  BY <1>0, <1>2
<1>4. /\ Ready /\ Ready' /\ IsOrigin(origin)' /\ IsRequest(request)' /\ IsOperator(operator)'
      /\ Starts' = Starts /\ Chunked' = Chunked /\ Blind' = Blind
      /\ \A l : DoneRows(l)' = DoneRows(l)
      /\ \A s : Terms(s)' = Terms(s)
      /\ (stage' # "new" => FromOscillators')
  BY <1>1, StaysPrepared
<1>5. Chunked /\ Listing /\ left \subseteq Starts /\ Fine(grown)
      /\ verdict \in {"none", "passed", "failed", "error"}
  BY <1>1 DEF IInv, Read
<1>6. ~Blind /\ start \in Starts
  BY <1>5 DEF Blind
<1>7. start \in Nat /\ Stop(start) \in start .. Len(active)
  BY <1>4, <1>5, <1>6, ChunkBounds
<1>8. Lists(entries, rows, TRUE)
  <2>1. PICK to \in start .. Len(active) : to = Stop(start)
    BY <1>7
  <2>2. Lists(Emitted(start, to), RowsOf(start, to), TRUE)
    BY <1>4, <1>6, <1>7, EmittedLists
  <2> QED
    BY <1>0, <2>1, <2>2
<1>9. /\ DoneRows(left \ {start}) = DoneRows(left) \cup rows
      /\ DoneRows(left) \cap rows = {}
  BY <1>0, <1>4, <1>5, OneMoreChunk
<1>10. PICK s : /\ Lists(s, DoneRows(left), TRUE)
                /\ Gathers => Holds(grown, s)
                /\ Streams => result = Terms(s)
  BY <1>5 DEF Listing
<1>11. Lists(s \o entries, DoneRows(left) \cup rows, TRUE)
  BY <1>8, <1>9, <1>10, ListsBoth
<1>12. PICK X : s \in Seq(Entries(X)) /\ entries \in Seq(Entries(X))
               /\ s \o entries \in Seq(Entries(X))
  <2>1. s \in Seq(Entries(DoneRows(left))) /\ entries \in Seq(Entries(rows))
    BY <1>8, <1>10 DEF Lists
  <2> DEFINE X == DoneRows(left) \cup rows
  <2>2. Entries(DoneRows(left)) \subseteq Entries(X) /\ Entries(rows) \subseteq Entries(X)
    BY DEF Entries
  <2> HIDE DEF X
  <2>3. s \in Seq(Entries(X)) /\ entries \in Seq(Entries(X))
    BY <2>1, <2>2
  <2>4. s \o entries \in Seq(Entries(X))
    BY <2>3
  <2> QED
    BY <2>3, <2>4
<1>13. Lists(s \o entries, DoneRows(left), TRUE)'
  <2>0. PICK Y : Y = DoneRows(left) \cup rows
    OBVIOUS
  <2>1. DoneRows(left)' = Y
    BY <1>3, <1>4, <1>9, <2>0 DEF DoneRows
  <2>2. Lists(s \o entries, Y, TRUE)'
    BY <1>1, <1>11, <2>0, ListsStay DEF Prepared
  <2> QED
    BY <2>1, <2>2
<1>14. left' \subseteq Starts'
  BY <1>3, <1>4, <1>5
<1>15. CASE Gathers /\ grown' = Extended(grown, entries) /\ UNCHANGED <<stage, result>>
  <2>1. Holds(Extended(grown, entries), s \o entries)
    BY <1>10, <1>12, <1>15, HoldsExtended
  <2>2. Holds(grown, s \o entries)' /\ Fine(grown')
    BY <1>12, <1>15, <2>1, HoldsFine
  <2>3. ~Streams'
    BY <1>1, <1>15 DEF Gathers, Streams, Prepared
  <2>4. Listing'
    BY <1>13, <2>2, <2>3 DEF Listing
  <2>5. Fine(grown)' /\ stage' = "blocks"
    BY <1>1, <1>15, <2>2
  <2>6. Read'
    BY <1>1, <1>4, <1>5, <1>14, <2>5 DEF Read
  <2> QED
    BY <1>4, <1>5, <2>4, <2>5, <2>6 DEF IInv
<1>16. CASE Streams /\ result' = result \o Terms(entries) /\ UNCHANGED <<stage, grown>>
  <2>1. Terms(s \o entries) = result \o Terms(entries)
    BY <1>10, <1>12, <1>16, TermsOfBoth
  <2>2. (result = Terms(s \o entries))'
    BY <1>4, <1>16, <2>1
  <2>3. ~Gathers'
    BY <1>1, <1>16 DEF Gathers, Streams, Prepared
  <2>4. Listing'
    BY <1>13, <2>2, <2>3 DEF Listing
  <2>5. Fine(grown)' /\ stage' = "blocks"
    BY <1>1, <1>5, <1>16
  <2>6. Read'
    BY <1>1, <1>4, <1>5, <1>14, <2>5 DEF Read
  <2> QED
    BY <1>4, <1>5, <2>4, <2>5, <2>6 DEF IInv
<1>17. CASE stage' = "raised" /\ UNCHANGED <<grown, result>>
  <2>1. Fine(grown)'
    BY <1>5, <1>17
  <2>2. Read'
    BY <1>1, <1>4, <1>5, <1>14, <1>17, <2>1 DEF Read
  <2> QED
    BY <1>4, <1>17, <2>2 DEF IInv
<1> QED
  BY <1>3, <1>15, <1>16, <1>17

\* The list that a delivery starts from.
LEMMA DeliverKeeps ==
  ASSUME IInv, stage \in {"blocks", "whole"}, UNCHANGED Prepared, UNCHANGED <<left, verdict>>,
         NEW s, Deliver(s), Lists(s, AllRows, Thresholded), ~Streams
  PROVE  IInv'
<1>1. /\ Ready' /\ IsOrigin(origin)' /\ IsRequest(request)' /\ IsOperator(operator)'
      /\ Starts' = Starts /\ AllRows' = AllRows /\ Thresholded' = Thresholded
      /\ \A u : Terms(u)' = Terms(u) /\ ResultOf(u)' = ResultOf(u)
      /\ (stage' # "new" => FromOscillators')
  BY StaysPrepared
<1>2. left \subseteq Starts /\ Fine(grown) /\ verdict \in {"none", "passed", "failed", "error"}
  BY DEF IInv, Read
<1>3. /\ UNCHANGED grown
      /\ \/ stage' = "done" /\ result' = ResultOf(s)
         \/ stage' = "raised"
  BY DEF Deliver, Raise, ResultOf, Streams
<1>4. Fine(grown)' /\ left' \subseteq Starts' /\ verdict' \in {"none", "passed", "failed", "error"}
  BY <1>1, <1>2, <1>3
<1>5. Read'
  BY <1>1, <1>3, <1>4 DEF Read
<1>6. CASE stage' = "done" /\ result' = ResultOf(s)
  <2>1. Lists(s, AllRows, Thresholded)'
    <3>1. Lists(s, AllRows, Thresholded)' <=> Lists(s, AllRows, Thresholded)
      <4>1. PICK X, above : X = AllRows /\ above = Thresholded
        OBVIOUS
      <4>2. Lists(s, X, above)' <=> Lists(s, X, above)
        BY ListsStay DEF Prepared
      <4> QED
        BY <1>1, <4>1, <4>2
    <3> QED
      BY <3>1
  <2>2. (result = ResultOf(s))'
    BY <1>1, <1>6
  <2>3. Complete'
    BY <2>1, <2>2 DEF Complete
  <2> QED
    BY <1>1, <1>5, <1>6, <2>3 DEF IInv
<1>7. CASE stage' = "raised"
  BY <1>1, <1>5, <1>7 DEF IInv
<1> QED
  BY <1>3, <1>6, <1>7

\* Whole since one block holds all rows,
LEMMA WholeKeeps ==
  ASSUME IInv, Whole
  PROVE  IInv'
<1>1. stage = "whole" /\ UNCHANGED Prepared /\ UNCHANGED <<left, verdict>>
      /\ Deliver(IF request.entry = "terms" THEN Kept(AllOf(0, Len(active)))
                 ELSE AllOf(0, Len(active)))
  BY DEF Whole, Prepared
<1>2. Ready /\ ~Chunked /\ IsRequest(request)
  BY <1>1 DEF IInv, Read
<1>3. request.entry \in {"matrix", "rows", "terms"} /\ ~Streams
  BY <1>2 DEF IsRequest, Chunked, Streams
<1> DEFINE s == IF request.entry = "terms" THEN Kept(AllOf(0, Len(active)))
                ELSE AllOf(0, Len(active))
<1>4. CASE ~Blind
  <2>1. PICK L \in Nat : L = Len(active) /\ DOMAIN active = 1 .. L
    BY <1>2, ActiveIs DEF Rising
  <2>2. RowsOf(0, L) = AllRows
    BY <2>1 DEF RowsOf, AllRows
  <2>3. Lists(AllOf(0, L), AllRows, FALSE)
    <3>1. 0 \in Nat /\ L \in 0 .. Len(active)
      BY <2>1
    <3>2. Lists(AllOf(0, L), RowsOf(0, L), FALSE)
      BY <1>2, <1>4, <3>1, AllOfLists
    <3> QED
      BY <2>2, <3>2
  <2>4. CASE request.entry = "terms"
    <3>1. Lists(s, AllRows, TRUE)
      BY <2>1, <2>3, <2>4, KeptLists
    <3>2. Thresholded = TRUE
      BY <2>4 DEF Thresholded
    <3>3. Lists(s, AllRows, Thresholded)
      BY <3>1, <3>2
    <3> QED
      BY <1>1, <1>3, <3>3, DeliverKeeps
  <2>5. CASE request.entry # "terms"
    <3>1. Lists(s, AllRows, FALSE)
      BY <2>1, <2>3, <2>5
    <3>2. Thresholded = FALSE
      BY <1>3, <2>5 DEF Thresholded
    <3>3. Lists(s, AllRows, Thresholded)
      BY <3>1, <3>2
    <3> QED
      BY <1>1, <1>3, <3>3, DeliverKeeps
  <2> QED
    BY <2>4, <2>5
<1>5. CASE Blind
  <2>1. /\ Ready' /\ IsOrigin(origin)' /\ IsRequest(request)' /\ IsOperator(operator)'
        /\ Starts' = Starts /\ Blind' = Blind
        /\ (stage' # "new" => FromOscillators')
    BY <1>1, StaysPrepared
  <2>2. left \subseteq Starts /\ Fine(grown) /\ verdict \in {"none", "passed", "failed", "error"}
    BY DEF IInv, Read
  <2>3. UNCHANGED grown /\ stage' \in {"done", "raised"}
    BY <1>1 DEF Deliver, Raise
  <2>4. Fine(grown)' /\ left' \subseteq Starts' /\ verdict' \in {"none", "passed", "failed", "error"}
    BY <1>1, <2>1, <2>2, <2>3
  <2>5. Read'
    BY <2>1, <2>3, <2>4 DEF Read
  <2> QED
    BY <1>5, <2>1, <2>3, <2>5 DEF IInv
<1> QED
  BY <1>4, <1>5

\* Finish since no row is left,
LEMMA FinishKeeps ==
  ASSUME IInv, Finish
  PROVE  IInv'
<1>1. stage = "blocks" /\ left = {} /\ UNCHANGED Prepared /\ UNCHANGED <<left, verdict>>
  BY DEF Finish, Prepared
<1>2. Ready /\ Chunked /\ Listing /\ left \subseteq Starts /\ Fine(grown)
      /\ verdict \in {"none", "passed", "failed", "error"}
  BY <1>1 DEF IInv, Read
<1>3. PICK s : /\ Lists(s, DoneRows(left), TRUE)
               /\ Gathers => Holds(grown, s)
               /\ Streams => result = Terms(s)
  BY <1>2 DEF Listing
<1>4. DoneRows(left) = AllRows
  BY <1>1, <1>2, ChunksCover
<1>5. CASE Gathers
  <2>1. Finalized(grown) = s
    <3>1. s \in Seq(Entries(AllRows))
      BY <1>3, <1>4 DEF Lists
    <3> QED
      BY <1>3, <1>5, <3>1, HoldsFinalized
  <2>2. Thresholded = TRUE /\ ~Streams
    BY <1>5 DEF Thresholded, Gathers, Streams
  <2>3. Lists(s, AllRows, Thresholded)
    BY <1>3, <1>4, <2>2
  <2>4. Deliver(s)
    BY <1>5, <2>1, <2>2 DEF Finish, Gathers, Streams
  <2> QED
    BY <1>1, <2>2, <2>3, <2>4, DeliverKeeps
<1>6. CASE Streams
  <2>1. stage' = "done" /\ UNCHANGED <<grown, result>>
    BY <1>6 DEF Finish, Streams
  <2>2. Thresholded = TRUE /\ result = ResultOf(s)
    BY <1>3, <1>6 DEF Thresholded, Streams, ResultOf
  <2>3. /\ Ready' /\ IsOrigin(origin)' /\ IsRequest(request)' /\ IsOperator(operator)'
        /\ Starts' = Starts /\ AllRows' = AllRows /\ Thresholded' = Thresholded
        /\ \A u : ResultOf(u)' = ResultOf(u)
        /\ (stage' # "new" => FromOscillators')
    BY <1>1, StaysPrepared
  <2>4. Lists(s, AllRows, Thresholded)'
    <3>1. PICK X, above : X = AllRows /\ above = Thresholded
      OBVIOUS
    <3>2. Lists(s, X, above)' <=> Lists(s, X, above)
      BY <1>1, ListsStay DEF Prepared
    <3>3. Lists(s, X, above)
      BY <1>3, <1>4, <2>2, <3>1
    <3> QED
      BY <2>3, <3>1, <3>2, <3>3
  <2>5. Complete'
    BY <2>1, <2>2, <2>3, <2>4 DEF Complete
  <2>6. Fine(grown)' /\ left' \subseteq Starts' /\ verdict' \in {"none", "passed", "failed", "error"}
    BY <1>1, <1>2, <2>1, <2>3
  <2>7. Read'
    BY <2>1, <2>3, <2>6 DEF Read
  <2> QED
    BY <2>1, <2>3, <2>5, <2>7 DEF IInv
<1>7. Gathers \/ Streams
  BY DEF Finish, Gathers, Streams
<1> QED
  BY <1>5, <1>6, <1>7

\* Verify since it changes the verdict alone,
LEMMA VerifyKeeps ==
  ASSUME IInv, Verify
  PROVE  IInv'
<1>1. /\ stage = "done" /\ UNCHANGED Prepared /\ UNCHANGED <<stage, left, grown, result>>
      /\ verdict' \in {"passed", "failed", "error"}
  BY DEF Verify, Prepared
<1>2. left \subseteq Starts /\ Fine(grown) /\ (~Blind => Complete)
  BY <1>1 DEF IInv, Read
<1>3. /\ Ready' /\ IsOrigin(origin)' /\ IsRequest(request)' /\ IsOperator(operator)'
      /\ Starts' = Starts /\ AllRows' = AllRows /\ Thresholded' = Thresholded
      /\ Blind' = Blind /\ \A u : ResultOf(u)' = ResultOf(u)
      /\ (stage' # "new" => FromOscillators')
  BY <1>1, StaysPrepared
<1>4. Read'
  <2>1. Fine(grown)' /\ left' \subseteq Starts'
    BY <1>1, <1>2, <1>3
  <2> QED
    BY <1>1, <1>3, <2>1 DEF Read
<1>5. ~Blind' => Complete'
  <2> SUFFICES ASSUME ~Blind PROVE Complete'
    BY <1>3
  <2>1. PICK s : Lists(s, AllRows, Thresholded) /\ result = ResultOf(s)
    BY <1>2 DEF Complete
  <2>2. PICK X, above : X = AllRows /\ above = Thresholded
    OBVIOUS
  <2>3. Lists(s, X, above)'
    BY <1>1, <2>1, <2>2, ListsStay DEF Prepared
  <2>4. Lists(s, AllRows, Thresholded)' /\ (result = ResultOf(s))'
    BY <1>1, <1>3, <2>1, <2>2, <2>3
  <2> QED
    BY <2>4 DEF Complete
<1> QED
  BY <1>1, <1>3, <1>4, <1>5 DEF IInv

\* and a step that changes nothing.
LEMMA StutteringKeeps ==
  ASSUME IInv, UNCHANGED vars
  PROVE  IInv'
<1>1. /\ UNCHANGED <<origin, request, stage, operator, cells, active, left, grown, result,
                     verdict>>
  BY DEF vars
<1>2. Read'
  <2>1. Ready' <=> Ready
    BY <1>1 DEF Ready, ActiveOf, Assumed
  <2>2. Starts' = Starts
    BY <1>1 DEF Starts
  <2>3. Read' <=> Read
    BY <1>1, <2>1, <2>2 DEF Read
  <2> QED
    BY <2>3 DEF IInv
<1>3. FromOscillators'
  BY <1>1 DEF IInv, FromOscillators
<1>4. CASE stage \in {"new", "built"}
  BY <1>1, <1>2, <1>3, <1>4 DEF IInv
<1>5. CASE stage \in {"blocks", "whole", "done", "raised"}
  <2>1. /\ AllRows' = AllRows /\ Thresholded' = Thresholded
        /\ Chunked' = Chunked /\ Blind' = Blind
        /\ \A l : DoneRows(l)' = DoneRows(l)
        /\ \A s : Terms(s)' = Terms(s) /\ ResultOf(s)' = ResultOf(s)
    BY <1>1, <1>5, StaysPrepared DEF Prepared
  <2>2. Listing => Listing'
    <3> SUFFICES ASSUME NEW s, Lists(s, DoneRows(left), TRUE),
                        Gathers => Holds(grown, s), Streams => result = Terms(s)
                 PROVE  Listing'
      BY DEF Listing
    <3>1. PICK X : X = DoneRows(left)
      OBVIOUS
    <3>2. DoneRows(left)' = X
      BY <1>1, <2>1, <3>1 DEF DoneRows
    <3>3. Lists(s, X, TRUE)'
      BY <1>1, <3>1, ListsStay
    <3>4. Lists(s, DoneRows(left), TRUE)'
      BY <3>2, <3>3
    <3>5. (Gathers => Holds(grown, s))' /\ (Streams => result = Terms(s))'
      BY <1>1, <2>1 DEF Gathers, Streams
    <3> QED
      BY <3>4, <3>5 DEF Listing
  <2>3. Complete => Complete'
    <3> SUFFICES ASSUME NEW s, Lists(s, AllRows, Thresholded), result = ResultOf(s)
                 PROVE  Complete'
      BY DEF Complete
    <3>1. PICK X, above : X = AllRows /\ above = Thresholded
      OBVIOUS
    <3>2. Lists(s, X, above)'
      BY <1>1, <3>1, ListsStay
    <3>3. Lists(s, AllRows, Thresholded)' /\ (result = ResultOf(s))'
      BY <1>1, <2>1, <3>1, <3>2
    <3> QED
      BY <3>3 DEF Complete
  <2> QED
    BY <1>1, <1>2, <1>3, <2>1, <2>2, <2>3 DEF IInv
<1> QED
  BY <1>4, <1>5 DEF IInv, Read

\* IInv always holds.
LEMMA InvariantHolds == Spec => []IInv
<1>1. Init => IInv
  BY InitHolds
<1>2. IInv /\ [Next]_vars => IInv'
  BY BuildKeeps, PrepareKeeps, BlockKeeps, WholeKeeps, FinishKeeps, VerifyKeeps,
     StutteringKeeps DEF Next
<1> QED
  BY <1>1, <1>2, PTL DEF Spec

\* It contains the type invariant.
LEMMA InvariantIsTyped ==
  ASSUME IInv
  PROVE  TypeOK
<1>1. Read
  BY DEF IInv
<1>2. CASE stage \in {"new", "built"}
  <2>1. cells = {} /\ active = <<>>
    BY <1>1, <1>2 DEF Read
  <2>2. cells \subseteq Masks(operator.n) \X Masks(operator.n)
    BY <2>1
  <2>3. \A i, j \in DOMAIN active : i < j => ValueOf(active[i]) < ValueOf(active[j])
    BY <2>1
  <2> QED
    BY <1>1, <2>2, <2>3 DEF TypeOK, Read, Fine, Starts
<1>3. CASE stage \notin {"new", "built"}
  <2>1. Ready
    BY <1>1, <1>3 DEF Read
  <2>2. cells \subseteq Masks(operator.n) \X Masks(operator.n)
    BY <2>1 DEF Ready, IsOperator
  <2>3. \A i, j \in DOMAIN active : i < j => ValueOf(active[i]) < ValueOf(active[j])
    BY <2>1, ActiveIs DEF Rising
  <2> QED
    BY <1>1, <2>2, <2>3 DEF TypeOK, Read, Fine, Starts
<1> QED
  BY <1>2, <1>3

\* Type correctness, for every set of calls and every operator: the accumulator
\* (class _GrowableArray) never holds more than it has room for, nor gives out a
\* cell that was never written.
THEOREM TypeCorrect == Spec => []TypeOK
BY InvariantHolds, InvariantIsTyped, PTL

\* It implies the decomposition.
LEMMA InvariantIsRight ==
  ASSUME IInv
  PROVE  ResultIsTheDecomposition
<1> SUFFICES ASSUME stage = "done", ~Blind PROVE Right
  BY DEF ResultIsTheDecomposition
<1>1. Ready /\ Complete
  BY DEF IInv, Read
<1> QED
  BY <1>1, RightIs DEF Complete

\* Every entry point gives its caller the coefficients that the Kronecker products
\* define, each label once, less those not above atol: for every operator on any
\* number of qubits, every chunk size, format, kernel tile and order of chunks.
THEOREM DecompositionIsRight == Spec => []ResultIsTheDecomposition
BY InvariantHolds, InvariantIsRight, PTL

\* It implies that the builders agree.
LEMMA InvariantAgrees ==
  ASSUME IInv
  PROVE  BuildersAgree
<1> SUFFICES ASSUME stage # "new", origin.oscillators > 0, ~origin.perturbed
             PROVE  /\ IsHermitian(operator)
                    /\ \A input \in {"dense", "sparse"} :
                         operator = Oscillators(origin.oscillators, input)
  BY DEF BuildersAgree
<1>1. IsOrigin(origin) /\ operator = Oscillators(origin.oscillators, "dense")
  BY DEF IInv, Read, FromOscillators
<1>2. PICK n \in Nat : n = origin.oscillators
  BY <1>1 DEF IsOrigin
<1>3. Roots(n)
  BY <1>1, <1>2 DEF IsOrigin, Roots
<1>4. \A input : Oscillators(n, input) = Oscillators(n, "dense")
                 /\ IsHermitian(Oscillators(n, input))
  BY <1>3, OscillatorsAre
<1> QED
  BY <1>1, <1>2, <1>4

\* build_hamiltonian gives the same symmetric operator sparse and dense, for
\* every number of oscillators and every spring constants and masses.
THEOREM BuildersAlwaysAgree == Spec => []BuildersAgree
BY InvariantHolds, InvariantAgrees, PTL

-----------------------------------------------------------------------------
(* Signs, phases and Hermitian operators.                                  *)

\* The sign of a symmetric difference is the product of the signs.
LEMMA SignOfXor ==
  ASSUME NEW p, NEW q, IsFiniteSet(p), IsFiniteSet(q)
  PROVE  Sign(Xor(p, q)) = Sign(p) * Sign(q)
<1> DEFINE P == {s \in SUBSET p : Sign(Xor(s, q)) = Sign(s) * Sign(q)}
<1>1. {} \in P
  <2>1. Xor({}, q) = q
    BY XorBits DEF XorBit
  <2>2. Sign({}) = 1 /\ Sign(q) \in {1, -1}
    BY SignEmpty, SignIs
  <2> QED
    BY <2>1, <2>2
<1>2. ASSUME NEW s \in SUBSET p, NEW x \in p \ s, s \in P PROVE s \cup {x} \in P
  <2>1. IsFiniteSet(s) /\ IsFiniteSet(s \cup q) /\ IsFiniteSet(Xor(s, q))
    <3>1. IsFiniteSet(s)
      BY FS_Subset
    <3>2. IsFiniteSet(s \cup q)
      BY <3>1, FS_Union
    <3>3. Xor(s, q) \subseteq s \cup q
      BY XorBits DEF XorBit
    <3> QED
      BY <3>1, <3>2, <3>3, FS_Subset
  <2> DEFINE X == Xor(s, q)
             Y == Xor(s \cup {x}, q)
  <2>2. Sign(Y) = -Sign(X)
    <3>1. CASE x \in q
      <4>1. X = Y \cup {x} /\ x \notin Y
        <5>1. \A b : b \in X <=> ~(b \in s <=> b \in q)
          BY XorBits DEF XorBit
        <5>2. \A b : b \in Y <=> ~(b \in s \cup {x} <=> b \in q)
          BY XorBits DEF XorBit
        <5> HIDE DEF X, Y
        <5> QED
          BY <3>1, <5>1, <5>2
      <4>2. IsFiniteSet(Y)
        <5>1. Y \subseteq X
          BY <4>1
        <5> QED
          BY <2>1, <5>1, FS_Subset
      <4> HIDE DEF X, Y
      <4>3. Sign(X) = -Sign(Y) /\ Sign(Y) \in {1, -1}
        BY <4>1, <4>2, SignIs
      <4> QED
        BY <4>3
    <3>2. CASE x \notin q
      <4>1. Y = X \cup {x} /\ x \notin X
        <5>1. \A b : b \in X <=> ~(b \in s <=> b \in q)
          BY XorBits DEF XorBit
        <5>2. \A b : b \in Y <=> ~(b \in s \cup {x} <=> b \in q)
          BY XorBits DEF XorBit
        <5> HIDE DEF X, Y
        <5> QED
          BY <3>2, <5>1, <5>2
      <4> HIDE DEF Y
      <4> QED
        BY <2>1, <4>1, SignIs
    <3> QED
      BY <3>1, <3>2
  <2>3. Sign(s \cup {x}) = -Sign(s)
    BY <2>1, SignIs
  <2>4. PICK a \in {1, -1}, b \in {1, -1} : a = Sign(s) /\ b = Sign(q)
    BY <2>1, SignIs
  <2>5. Sign(X) = a * b
    BY <1>2, <2>4
  <2>6. Sign(Y) = -(a * b) /\ Sign(s \cup {x}) = -a
    BY <2>2, <2>3, <2>4, <2>5
  <2>7. -(a * b) = (-a) * b
    OBVIOUS
  <2> HIDE DEF X
  <2>8. Sign(Y) = Sign(s \cup {x}) * Sign(q)
    BY <2>4, <2>6, <2>7
  <2> QED
    BY <2>8
<1> HIDE DEF P
<1>3. p \in P
  BY <1>1, <1>2, FiniteFrom
<1> QED
  BY <1>3 DEF P

\* Signs multiply over XOR.
SignLaws ==
  \A n \in Nat : \A z, p, q \in Masks(n) :
    /\ Sign(z \cap p) \in {1, -1}
    /\ Sign(z \cap Xor(p, q)) = Sign(z \cap p) * Sign(z \cap q)

LEMMA SignsOfMasks == SignLaws
<1> SUFFICES ASSUME NEW n \in Nat, NEW z \in Masks(n), NEW p \in Masks(n), NEW q \in Masks(n)
             PROVE  /\ Sign(z \cap p) \in {1, -1}
                    /\ Sign(z \cap Xor(p, q)) = Sign(z \cap p) * Sign(z \cap q)
  BY DEF SignLaws
<1>1. IsFiniteSet(z \cap p) /\ IsFiniteSet(z \cap q)
  BY PhasesAreNumbers DEF PhaseTypes
<1>2. PICK a, b : a = z \cap p /\ b = z \cap q
  OBVIOUS
<1>3. z \cap Xor(p, q) = Xor(a, b)
  <2>1. \A e : e \in Xor(p, q) <=> ~(e \in p <=> e \in q)
    BY XorBits DEF XorBit
  <2>2. \A e : e \in Xor(a, b) <=> ~(e \in a <=> e \in b)
    BY XorBits DEF XorBit
  <2> QED
    BY <1>2, <2>1, <2>2
<1>4. Sign(Xor(a, b)) = Sign(a) * Sign(b) /\ Sign(a) \in {1, -1}
  BY <1>1, <1>2, SignOfXor, SignIs
<1> QED
  BY <1>2, <1>3, <1>4

\* A phase of i^c, and its conjugate.
LEMMA PhaseIs ==
  ASSUME NEW S, IsFiniteSet(S)
  PROVE  /\ IPower(Cardinality(S)) \in Complex
         /\ Scaled(IPower(Cardinality(S)), Sign(S)) = Conj(IPower(Cardinality(S)))
         /\ Times(IPower(Cardinality(S)), Conj(IPower(Cardinality(S)))) = C(1, 0)
<1>1. PICK c \in Nat : c = Cardinality(S)
  BY FS_CardinalityType
<1>2. IPower(c) \in Complex
  BY IPowers
<1>3. Sign(S) = 1 - 2 * (c % 2)
  BY <1>1 DEF Sign
<1>4. PICK q \in Nat, r \in 0 .. 3 : c = 4 * q + r /\ (c % 4) = r
  <2>1. c = 4 * (c \div 4) + (c % 4) /\ c \div 4 \in Nat /\ (c % 4) \in 0 .. 3
    OBVIOUS
  <2> QED
    BY <2>1
<1>5. (c % 2) = IF r \in {1, 3} THEN 1 ELSE 0
  BY <1>4
<1>6. IPower(c) = << C(1, 0), C(0, 1), C(-1, 0), C(0, -1) >>[r + 1]
  BY <1>4 DEF IPower
<1>7. CASE r = 0
  BY <1>1, <1>2, <1>3, <1>5, <1>6, <1>7 DEF Scaled, Conj, Times, C
<1>8. CASE r = 1
  BY <1>1, <1>2, <1>3, <1>5, <1>6, <1>8 DEF Scaled, Conj, Times, C
<1>9. CASE r = 2
  <2>1. Sign(S) = 1 /\ IPower(c) = C(-1, 0)
    BY <1>3, <1>5, <1>6, <1>9
  <2>2. /\ Scaled(C(-1, 0), 1) = Conj(C(-1, 0))
        /\ Times(C(-1, 0), Conj(C(-1, 0))) = C(1, 0)
    BY DEF Scaled, Conj, Times, C
  <2> QED
    BY <1>1, <1>2, <2>1, <2>2
<1>10. CASE r = 3
  BY <1>1, <1>2, <1>3, <1>5, <1>6, <1>10 DEF Scaled, Conj, Times, C
<1> QED
  BY <1>7, <1>8, <1>9, <1>10

\* The cells of a Hermitian operator, those it does not list included.
LEMMA HermitianAt ==
  ASSUME NEW op, IsOperator(op), IsHermitian(op)
  PROVE  \A p, q : At(op, p, q) \in Complex /\ At(op, q, p) = Conj(At(op, p, q))
<1> TAKE p, q
<1>1. Conj(Zero) = Zero /\ Zero \in Complex
  BY ComplexTypes DEF Conj, Zero, C
<1>2. \A a, b : <<a, b>> \in DOMAIN op.at =>
        /\ At(op, a, b) = op.at[<<a, b>>] /\ At(op, a, b) \in Complex
        /\ At(op, b, a) = Conj(At(op, a, b))
  <2> TAKE a, b
  <2> HAVE <<a, b>> \in DOMAIN op.at
  <2>1. At(op, a, b) = op.at[<<a, b>>]
    BY DEF At
  <2>2. op.at[<<a, b>>] \in Complex
    BY DEF IsOperator
  <2>3. PICK pq \in DOMAIN op.at : pq = <<a, b>> /\ pq[1] = a /\ pq[2] = b
    OBVIOUS
  <2>4. At(op, b, a) = Conj(op.at[pq])
    BY <2>3 DEF IsHermitian
  <2> QED
    BY <2>1, <2>2, <2>3, <2>4
<1>3. \A a, b : <<a, b>> \notin DOMAIN op.at => At(op, a, b) = Zero
  BY DEF At
<1>4. CASE <<p, q>> \in DOMAIN op.at
  BY <1>2, <1>4
<1>5. CASE <<p, q>> \notin DOMAIN op.at /\ <<q, p>> \in DOMAIN op.at
  <2>1. At(op, p, q) = Zero /\ At(op, p, q) = Conj(At(op, q, p)) /\ At(op, q, p) \in Complex
    BY <1>2, <1>3, <1>5
  <2>2. PICK v \in Complex : v = At(op, q, p)
    BY <2>1
  <2>3. Conj(Conj(v)) = v
    BY TimesOne
  <2> QED
    BY <1>1, <2>1, <2>2, <2>3
<1>6. CASE <<p, q>> \notin DOMAIN op.at /\ <<q, p>> \notin DOMAIN op.at
  BY <1>1, <1>3, <1>6
<1> QED
  BY <1>4, <1>5, <1>6

\* Conjugation and a factor may be taken out of a total.
LEMMA TotalOfConjugates ==
  ASSUME NEW S, NEW f, Numbers(f, S), NEW s \in Int
  PROVE  /\ Numbers([e \in S |-> Scaled(Conj(f[e]), s)], S)
         /\ Total([e \in S |-> Scaled(Conj(f[e]), s)]) = Scaled(Conj(Total(f)), s)
<1> DEFINE g == [e \in S |-> Scaled(Conj(f[e]), s)]
<1>1. Numbers(g, S)
  BY ComplexTypes DEF Numbers
<1>2. /\ Total(f) = C(SumOver(Re(f), S), SumOver(Im(f), S))
      /\ \A e \in S : Re(f)[e] \in Int /\ Im(f)[e] \in Int
                      /\ Re(f)[e] = f[e].re /\ Im(f)[e] = f[e].im
      /\ SumOver(Re(f), S) \in Int /\ SumOver(Im(f), S) \in Int
  BY TotalParts
<1>3. /\ Total(g) = C(SumOver(Re(g), S), SumOver(Im(g), S))
      /\ \A e \in S : Re(g)[e] = g[e].re /\ Im(g)[e] = g[e].im
  BY <1>1, TotalParts
<1>4. \A e \in S : Re(g)[e] = s * Re(f)[e] /\ Im(g)[e] = (-s) * Im(f)[e]
  <2> TAKE e \in S
  <2>1. PICK re \in Int, im \in Int : re = f[e].re /\ im = f[e].im
    BY <1>2
  <2>2. g[e].re = s * re /\ g[e].im = s * (-im)
    BY <2>1 DEF Scaled, Conj, C
  <2>3. s * (-im) = (-s) * im
    OBVIOUS
  <2> HIDE DEF g
  <2> QED
    BY <1>2, <1>3, <2>1, <2>2, <2>3
<1>5. IsFiniteSet(S)
  BY DEF Numbers
<1> HIDE DEF g
<1>6. SumOver(Re(g), S) = s * SumOver(Re(f), S)
  <2>1. PICK a, b : a = Re(f) /\ b = Re(g)
    OBVIOUS
  <2>2. \A e \in S : a[e] \in Int /\ b[e] = s * a[e]
    BY <1>2, <1>4, <2>1
  <2>3. SumOver(b, S) = s * SumOver(a, S)
    BY <1>5, <2>2, SumScaled
  <2> QED
    BY <2>1, <2>3
<1>7. SumOver(Im(g), S) = (-s) * SumOver(Im(f), S)
  <2>1. PICK a, b : a = Im(f) /\ b = Im(g)
    OBVIOUS
  <2>2. \A e \in S : a[e] \in Int /\ b[e] = (-s) * a[e]
    BY <1>2, <1>4, <2>1
  <2>3. PICK c \in Int : c = -s
    OBVIOUS
  <2>4. SumOver(b, S) = c * SumOver(a, S)
    BY <1>5, <2>2, <2>3, SumScaled
  <2> QED
    BY <2>1, <2>3, <2>4
<1>8. PICK a \in Int, b \in Int : a = SumOver(Re(f), S) /\ b = SumOver(Im(f), S)
  BY <1>2
<1>9. Scaled(Conj(C(a, b)), s) = C(s * a, s * (-b)) /\ s * (-b) = (-s) * b
  BY DEF Scaled, Conj, C
<1>10. Total(g) = Scaled(Conj(Total(f)), s)
  BY <1>2, <1>3, <1>6, <1>7, <1>8, <1>9
<1> QED
  BY <1>1, <1>10 DEF g

\* The coefficients of a Hermitian operator are real: with assume_hermitian
\* none is refused.
LEMMA RealOfHermitian ==
  ASSUME NEW op, IsOperator(op), IsHermitian(op), NEW x \in Masks(op.n), NEW z \in Masks(op.n)
  PROVE  TraceAt(op, x, z) \in Complex /\ TraceAt(op, x, z).im = 0
<1> DEFINE S == Masks(op.n)
           row == RowAt(op, x)
           F == [q \in S |-> Scaled(row[q], Sign(z \cap q))]
           s == Sign(z \cap x)
           G == [q \in S |-> Scaled(Conj(F[q]), s)]
           m == [q \in S |-> Xor(x, q)]
<1>1. op.n \in Nat /\ IsFiniteSet(S)
  BY MasksFinite DEF IsOperator
<1>2. \A q \in S : row[q] = At(op, Xor(x, q), q) /\ row[q] \in Complex
  BY HermitianAt DEF RowAt
<1>3. \A q \in S : /\ Sign(z \cap q) \in Int /\ Sign(z \cap q) \in {1, -1}
                   /\ Sign(z \cap Xor(x, q)) = s * Sign(z \cap q)
  <2> TAKE q \in S
  <2>1. PICK n \in Nat : n = op.n
    BY <1>1
  <2>2. x \in Masks(n) /\ z \in Masks(n) /\ q \in Masks(n)
    BY <2>1
  <2>3. \A u, v, w \in Masks(n) : /\ Sign(u \cap v) \in {1, -1}
                                  /\ Sign(u \cap Xor(v, w)) = Sign(u \cap v) * Sign(u \cap w)
    BY SignsOfMasks DEF SignLaws
  <2>4. Sign(z \cap q) \in {1, -1} /\ Sign(z \cap Xor(x, q)) = Sign(z \cap x) * Sign(z \cap q)
    BY <2>2, <2>3
  <2>5. \A g \in {1, -1} : g \in Int
    OBVIOUS
  <2> QED
    BY ONLY <2>4, <2>5 DEF s
<1>4. s \in {1, -1} /\ s \in Int
  BY <1>3
<1>5. \A q \in S : Xor(x, q) \in S /\ Xor(x, Xor(x, q)) = q
  BY XorIsGroup DEF XorLaws
<1> HIDE DEF S, row, s
<1>6. Numbers(F, S)
  BY <1>1, <1>2, <1>3, ComplexTypes DEF Numbers
<1>7. Numbers(G, S) /\ Total(G) = Scaled(Conj(Total(F)), s)
  <2>0. PICK sg \in Int : sg = s
    BY <1>4
  <2>1. PICK f, T : f = F /\ T = S
    OBVIOUS
  <2> HIDE DEF F
  <2>2. Numbers(f, T)
    BY <1>6, <2>1
  <2>3. /\ Numbers([e \in T |-> Scaled(Conj(f[e]), sg)], T)
        /\ Total([e \in T |-> Scaled(Conj(f[e]), sg)]) = Scaled(Conj(Total(f)), sg)
    BY <2>2, TotalOfConjugates
  <2>4. G = [e \in T |-> Scaled(Conj(f[e]), sg)]
    BY <2>0, <2>1
  <2> HIDE DEF G
  <2> QED
    BY <2>0, <2>1, <2>3, <2>4
<1>8. ASSUME NEW q \in S PROVE F[Xor(x, q)] = G[q]
  <2>1. PICK v \in Complex, g \in {1, -1} : v = row[q] /\ g = Sign(z \cap q)
    BY <1>2, <1>3
  <2>2. row[Xor(x, q)] = Conj(v)
    <3>1. row[Xor(x, q)] = At(op, q, Xor(x, q))
      BY <1>2, <1>5
    <3> QED
      BY <1>2, <2>1, <3>1, HermitianAt
  <2>3. F[Xor(x, q)] = Scaled(Conj(v), s * g)
    BY <1>3, <1>5, <2>1, <2>2
  <2>4. G[q] = Scaled(Conj(Scaled(v, g)), s)
    BY <2>1
  <2>5. PICK a \in Int, b \in Int : v = C(a, b)
    BY TwoParts
  <2>6. Scaled(Conj(C(a, b)), s * g) = Scaled(Conj(Scaled(C(a, b), g)), s)
    <3>1. CASE g = 1
      BY <1>4, <3>1 DEF Scaled, Conj, C
    <3>2. CASE g = -1
      BY <1>4, <3>2 DEF Scaled, Conj, C
    <3> QED
      BY <3>1, <3>2
  <2> QED
    BY <2>3, <2>4, <2>5, <2>6
<1>9. Matches(G, S, m, F) /\ S = {m[q] : q \in S}
  <2>1. \A q \in S : m[q] = Xor(x, q)
    OBVIOUS
  <2> HIDE DEF m, F, G
  <2>2. \A p, q \in S : m[p] = m[q] => p = q
    BY <1>5, <2>1
  <2>3. \A q \in S : F[m[q]] = G[q]
    BY <1>8, <2>1
  <2>4. \A q \in S : m[q] \in S /\ m[m[q]] = q
    BY <1>5, <2>1
  <2>5. S = {m[q] : q \in S}
    BY <2>4
  <2> QED
    BY <2>2, <2>3, <2>5 DEF Matches
<1> HIDE DEF F, G, m
<1>10. Total(G) = Total(F)
  BY <1>6, <1>7, <1>9, TotalMapped
<1>11. Total(F) \in Complex
  BY <1>6, TotalParts
<1>12. PICK t \in Complex : t = Total(F) /\ t = Scaled(Conj(t), s)
  BY <1>7, <1>10, <1>11
<1>13. TraceAt(op, x, z) = Times(t, ConjPhase(x, z))
  <2>1. TraceAt(op, x, z) = CoefficientAt(op, x, z)
    BY CoefficientIsTrace
  <2> QED
    BY <1>12, <2>1 DEF CoefficientAt, F, S, row
<1>14. PICK i \in Complex : /\ i = IPower(Cardinality(x \cap z)) /\ ConjPhase(x, z) = Conj(i)
                            /\ Scaled(i, s) = Conj(i)
  <2>1. x \cap z = z \cap x
    OBVIOUS
  <2>2. IsFiniteSet(x \cap z)
    BY <1>1, PhasesAreNumbers DEF PhaseTypes, S
  <2>3. /\ IPower(Cardinality(x \cap z)) \in Complex
        /\ Scaled(IPower(Cardinality(x \cap z)), Sign(x \cap z)) =
             Conj(IPower(Cardinality(x \cap z)))
    BY <2>2, PhaseIs
  <2> QED
    BY <2>1, <2>3 DEF ConjPhase, s
<1>15. PICK a \in Int, b \in Int, c \in Int, d \in Int : t = C(a, b) /\ i = C(c, d)
  BY TwoParts
<1>16. Times(C(a, b), Conj(C(c, d))) \in Complex /\ Times(C(a, b), Conj(C(c, d))).im = 0
  <2>1. Times(C(a, b), Conj(C(c, d))) = C(a * c - b * (-d), a * (-d) + b * c)
    BY DEF Times, Conj, C
  <2>2. CASE s = 1
    <3>1. C(a, b) = Scaled(Conj(C(a, b)), 1) /\ Scaled(C(c, d), 1) = Conj(C(c, d))
      BY <1>12, <1>14, <1>15, <2>2
    <3>2. b = 0 /\ d = 0
      <4>1. C(a, b).im = 1 * (-b) /\ 1 * d = -d
        <5>1. C(a, b).im = Scaled(Conj(C(a, b)), 1).im /\ Scaled(C(c, d), 1).im = Conj(C(c, d)).im
          BY <3>1
        <5> QED
          BY <5>1 DEF Scaled, Conj, C
      <4>2. C(a, b).im = b
        BY DEF C
      <4> QED
        BY <4>1, <4>2
    <3>3. Times(C(a, b), Conj(C(c, d))) = C(a * c, 0)
      BY <2>1, <3>2
    <3> QED
      BY <3>3 DEF C, Complex
  <2>3. CASE s = -1
    <3>1. C(a, b) = Scaled(Conj(C(a, b)), -1) /\ Scaled(C(c, d), -1) = Conj(C(c, d))
      BY <1>12, <1>14, <1>15, <2>3
    <3>2. a = 0 /\ c = 0
      <4>1. C(a, b).re = (-1) * a /\ (-1) * c = c
        <5>1. C(a, b).re = Scaled(Conj(C(a, b)), -1).re /\ Scaled(C(c, d), -1).re = Conj(C(c, d)).re
          BY <3>1
        <5> QED
          BY <5>1 DEF Scaled, Conj, C
      <4>2. C(a, b).re = a
        BY DEF C
      <4> QED
        BY <4>1, <4>2
    <3>3. Times(C(a, b), Conj(C(c, d))) = C(-(b * (-d)), 0)
      BY <2>1, <3>2
    <3> QED
      BY <3>3 DEF C, Complex
  <2> QED
    BY <1>4, <2>2, <2>3
<1> QED
  BY <1>13, <1>14, <1>15, <1>16

\* A total of zeros is zero.
LEMMA TotalOfZeros ==
  ASSUME NEW S, IsFiniteSet(S), NEW f, DOMAIN f = S, \A e \in S : f[e] = Zero
  PROVE  Total(f) = Zero
<1>1. Numbers(f, S)
  BY ComplexTypes DEF Numbers
<1>2. PICK T \in SUBSET S : T = {}
  OBVIOUS
<1>3. \A e \in S \ T : f[e] = Zero
  OBVIOUS
<1>4. Total(f) = Total([e \in T |-> f[e]])
  BY <1>1, <1>3, TotalWithin
<1>5. [e \in T |-> f[e]] = [e \in {} |-> Zero]
  BY <1>2
<1>6. Total([e \in {} |-> Zero]) = Zero
  BY TotalOfOne, ComplexTypes
<1> QED
  BY <1>4, <1>5, <1>6

\* project_labels of the oracle gives the trace that defines the coefficient.
LEMMA ProjectionIs ==
  ASSUME IsOperator(operator), NEW x \in Masks(operator.n), NEW z \in Masks(operator.n)
  PROVE  Projection(Label(x, z, operator.n)) = TraceAt(operator, x, z)
<1>a. PICK op : op = operator
  OBVIOUS
<1>0. PICK n \in Nat : op = operator /\ n = op.n
  BY <1>a DEF IsOperator
<1> DEFINE D == DOMAIN op.at
           mine == {cell \in D : Xor(cell[1], cell[2]) = x}
           label == Label(x, z, n)
           i == IPower(Cardinality(x \cap z))
           h == [pq \in D |-> Times(Conj(StringEntry(label, pq[1], pq[2])), op.at[pq])]
           f == [cell \in mine |-> Scaled(op.at[cell], Sign(cell[1] \cap z))]
<1>1. IsOperator(op) /\ x \in Masks(n) /\ z \in Masks(n)
  BY <1>0
<1>2. /\ IsFiniteSet(D)
      /\ \A pq \in D : /\ pq[1] \in Masks(n) /\ pq[2] \in Masks(n) /\ op.at[pq] \in Complex
  BY <1>0, <1>1, CellsAreFinite DEF IsOperator
<1>3. LabelToMasks(label).x = x /\ LabelToMasks(label).z = z
  BY <1>1, MasksOfLabel
<1>4. Projection(label) = Times(Total(f), i)
  BY <1>0, <1>3 DEF Projection
<1>5. TraceAt(op, x, z) = Total(h)
  BY <1>0 DEF TraceAt
<1>6. PICK ip \in Complex, s \in {1, -1} : /\ ip = i /\ s = Sign(z \cap x) /\ Scaled(ip, s) = Conj(ip)
  <2>1. IsFiniteSet(x \cap z) /\ x \cap z = z \cap x
    BY <1>1, PhasesAreNumbers DEF PhaseTypes
  <2>2. /\ i \in Complex /\ Scaled(i, Sign(x \cap z)) = Conj(i)
    BY <2>1, PhaseIs
  <2>3. Sign(z \cap x) \in {1, -1}
    BY <1>1, SignsOfMasks DEF SignLaws
  <2> QED
    BY <2>1, <2>2, <2>3
<1> HIDE DEF i, label
<1>7. ASSUME NEW pq \in D, NEW p \in Masks(n), NEW q \in Masks(n), p = pq[1], q = pq[2]
      PROVE  /\ h[pq] \in Complex
             /\ Xor(p, q) # x => h[pq] = Zero
             /\ Xor(p, q) = x => h[pq] = Times(Scaled(op.at[pq], Sign(p \cap z)), ip)
  <2>1. PICK v \in Complex : v = op.at[pq]
    BY <1>2
  <2>2. StringEntry(label, p, q) = IF Xor(p, q) = x THEN Scaled(ip, Sign(z \cap q)) ELSE Zero
    BY <1>1, <1>6, StringEntryClosed DEF StringEntryIs, i, label
  <2>3. h[pq] = Times(Conj(StringEntry(label, p, q)), v)
    BY <1>7, <2>1
  <2>4. CASE Xor(p, q) # x
    <3>1. h[pq] = Times(Conj(Zero), v)
      BY <2>2, <2>3, <2>4
    <3>2. Conj(Zero) = Zero
      BY DEF Conj, Zero, C
    <3> QED
      BY <2>4, <3>1, <3>2, TimesOne, ComplexTypes
  <2>5. CASE Xor(p, q) = x
    <3>1. PICK g \in {1, -1}, k \in {1, -1} :
            g = Sign(z \cap q) /\ k = Sign(p \cap z) /\ k = s * g
      <4>1. p = Xor(x, q) /\ p \cap z = z \cap p
        BY <2>5, XorIsGroup DEF XorLaws
      <4>3. SignLaws
        BY SignsOfMasks
      <4>2. /\ Sign(z \cap q) \in {1, -1} /\ Sign(z \cap p) \in {1, -1}
            /\ Sign(z \cap Xor(x, q)) = Sign(z \cap x) * Sign(z \cap q)
        <5>1. \A u, y, w \in Masks(n) : /\ Sign(u \cap y) \in {1, -1}
                                       /\ Sign(u \cap Xor(y, w)) = Sign(u \cap y) * Sign(u \cap w)
          BY <4>3 DEF SignLaws
        <5>2. x \in Masks(n) /\ z \in Masks(n) /\ p \in Masks(n) /\ q \in Masks(n)
          BY <1>1, <1>7
        <5> QED
          BY ONLY <5>1, <5>2
      <4> QED
        BY <1>6, <4>1, <4>2
    <3>2. h[pq] = Times(Conj(Scaled(ip, g)), v)
      BY <2>2, <2>3, <2>5, <3>1
    <3>3. Conj(Scaled(ip, g)) = Scaled(Scaled(ip, s), g)
      BY <1>6, <3>1, TimesScaled
    <3>4. PICK a \in Int, b \in Int, c \in Int, d \in Int : ip = C(a, b) /\ v = C(c, d)
      BY TwoParts
    <3>5. /\ Scaled(Scaled(C(a, b), s), g) = C(g * (s * a), g * (s * b))
          /\ Scaled(C(c, d), s * g) = C((s * g) * c, (s * g) * d)
      BY DEF Scaled, C
    <3>6. Times(Scaled(Scaled(C(a, b), s), g), C(c, d)) = Times(Scaled(C(c, d), s * g), C(a, b))
      <4>1. CASE s = 1 /\ g = 1
        BY <3>5, <4>1 DEF Times, C
      <4>2. CASE s = 1 /\ g = -1
        BY <3>5, <4>2 DEF Times, C
      <4>3. CASE s = -1 /\ g = 1
        BY <3>5, <4>3 DEF Times, C
      <4>4. CASE s = -1 /\ g = -1
        BY <3>5, <4>4 DEF Times, C
      <4> QED
        BY <4>1, <4>2, <4>3, <4>4
    <3>7. h[pq] = Times(Scaled(v, k), ip)
      BY <3>1, <3>2, <3>3, <3>4, <3>6
    <3>8. h[pq] \in Complex
      <4>1. Scaled(v, k) \in Complex
        BY ComplexTypes
      <4> QED
        BY <3>7, <4>1, TimesTypes
    <3> QED
      BY <2>1, <2>5, <3>1, <3>7, <3>8
  <2> QED
    BY <2>4, <2>5
<1>8. \A pq \in D : /\ h[pq] \in Complex
                    /\ pq \notin mine => h[pq] = Zero
                    /\ pq \in mine => h[pq] = Times(f[pq], ip)
  <2> TAKE pq \in D
  <2>1. PICK p \in Masks(n), q \in Masks(n) : p = pq[1] /\ q = pq[2]
    BY <1>2
  <2>2. pq \in mine <=> Xor(p, q) = x
    BY <2>1
  <2>3. pq \in mine => f[pq] = Scaled(op.at[pq], Sign(p \cap z))
    BY <2>1
  <2> HIDE DEF h, f, mine
  <2> QED
    BY <1>7, <2>1, <2>2, <2>3
<1>9. DOMAIN h = D /\ DOMAIN f = mine /\ mine \in SUBSET D
  OBVIOUS
<1>10. \A e \in mine : f[e] \in Complex
  <2> TAKE e \in mine
  <2>1. Sign(e[1] \cap z) \in Int
    <3>1. e[1] \in Masks(n) /\ e[1] \cap z = z \cap e[1]
      BY <1>2
    <3>2. \A u, v \in Masks(n) : Sign(u \cap v) \in {1, -1}
      BY SignsOfMasks DEF SignLaws
    <3>3. Sign(e[1] \cap z) \in {1, -1}
      BY <1>1, <3>1, <3>2
    <3> QED
      BY <3>3
  <2> QED
    BY <1>2, <2>1, ComplexTypes
<1> HIDE DEF h, f, mine
<1>11. Total(h) = Total([e \in mine |-> h[e]])
  <2>1. Numbers(h, D)
    BY <1>2, <1>8, <1>9 DEF Numbers
  <2>2. PICK T \in SUBSET D : T = mine
    BY <1>9
  <2>3. \A e \in D \ T : h[e] = Zero
    BY <1>8, <2>2
  <2>4. Total(h) = Total([e \in T |-> h[e]])
    BY <2>1, <2>3, TotalWithin
  <2> QED
    BY <2>2, <2>4
<1>12. Numbers(f, mine)
  <2>1. IsFiniteSet(mine)
    BY <1>2, <1>9, FS_Subset
  <2> QED
    BY <1>9, <1>10, <2>1 DEF Numbers
<1>13. Times(Total(f), ip) = Total([e \in mine |-> Times(f[e], ip)])
  BY <1>12, TotalTimes
<1>14. [e \in mine |-> h[e]] = [e \in mine |-> Times(f[e], ip)]
  BY <1>8, <1>9
<1>15. Projection(label) = Total(h)
  BY <1>4, <1>6, <1>11, <1>13, <1>14
<1> QED
  BY <1>0, <1>5, <1>15 DEF label

-----------------------------------------------------------------------------
(* What assume_hermitian refuses, and what it lets pass.                   *)

\* The calls that assume a dense operator and do without chunks see zeros.
LEMMA BlindIsZero ==
  ASSUME Ready, Blind, NEW i \in DOMAIN active
  PROVE  \A k \in 1 .. 2^operator.n : Coefficients(i)[k].value = Zero
<1>1. PICK n \in Nat, kernel \in Nat \cup {NoKernel}, x \in Masks(operator.n) :
        n = operator.n /\ kernel = request.kernel /\ x = active[i] /\ x \in Masks(n)
  BY ActiveIs DEF Ready, IsOperator, IsRequest, Rising
<1>2. cells = {} /\ ~Chunked
  BY DEF Ready, Blind
<1> DEFINE row == [q \in Masks(n) |-> Zero]
<1>3. Gathered(i) = row
  <2>1. \A q \in Masks(n) :
          Total([cell \in {c \in {cell \in cells : RowOf(cell) = i} : c[2] = q} |-> operator.at[cell]])
            = Total([cell \in {} |-> Zero])
    <3> TAKE q \in Masks(n)
    <3>1. {c \in {cell \in cells : RowOf(cell) = i} : c[2] = q} = {}
      BY <1>2
    <3>2. [cell \in {c \in {cell \in cells : RowOf(cell) = i} : c[2] = q} |-> operator.at[cell]]
            = [cell \in {} |-> Zero]
      BY <3>1
    <3> QED
      BY <3>2
  <2>2. Total([cell \in {} |-> Zero]) = Zero
    BY TotalOfOne, ComplexTypes
  <2>3. Scattered(i) = row
    BY <1>1, <2>1, <2>2 DEF Scattered
  <2> QED
    BY <1>2, <2>3 DEF Gathered
<1>4. row \in Rows(n)
  BY ComplexTypes DEF Rows
<1>5. \A z \in Masks(n) : Transform(row, n, kernel)[z] = Zero
  <2>1. PICK r \in Rows(n) : r = row
    BY <1>4
  <2>2. Transform(r, n, kernel) =
          [z \in Masks(n) |-> Total([q \in Masks(n) |-> Scaled(r[q], Sign(z \cap q))])]
    BY TransformIsTheDefinition
  <2>3. \A z \in Masks(n) : Total([q \in Masks(n) |-> Scaled(r[q], Sign(z \cap q))]) = Zero
    <3> TAKE z \in Masks(n)
    <3> DEFINE f == [q \in Masks(n) |-> Scaled(r[q], Sign(z \cap q))]
    <3>1. \A q \in Masks(n) : f[q] = Zero
      <4> TAKE q \in Masks(n)
      <4>1. PICK s \in Int : s = Sign(z \cap q)
        <5>1. Sign(z \cap q) \in {1, -1}
          BY PhasesAreNumbers DEF PhaseTypes
        <5> QED
          BY <5>1
      <4>2. Scaled(Zero, s) = Zero
        BY DEF Scaled, Zero, C
      <4> QED
        BY <2>1, <4>1, <4>2
    <3>2. DOMAIN f = Masks(n) /\ IsFiniteSet(Masks(n))
      BY MasksFinite
    <3> HIDE DEF f
    <3>3. Total(f) = Zero
      BY <3>1, <3>2, TotalOfZeros
    <3> QED
      BY <3>3 DEF f
  <2> QED
    BY <2>1, <2>2, <2>3
<1> HIDE DEF row
<1>6. ASSUME NEW k \in 1 .. 2^n
      PROVE  Times(Transform(Gathered(i), n, kernel)[InOrder[k]], ConjPhase(active[i], InOrder[k])) = Zero
  <2>1. PICK z \in Masks(n) : z = InOrder[k]
    BY <1>1, AllMasks DEF InOrder, InOrderOf, Dim
  <2>2. ConjPhase(x, z) \in Complex
    BY <1>1, PhasesAreNumbers DEF PhaseTypes
  <2>3. Times(Zero, ConjPhase(x, z)) = Zero
    BY <2>2, TimesOne
  <2> QED
    BY <1>1, <1>3, <1>5, <2>1, <2>3
<1>7. Coefficients(i) =
        [k \in 1 .. 2^n |->
           [x |-> active[i], z |-> InOrder[k],
            value |-> Times(Transform(Gathered(i), n, kernel)[InOrder[k]],
                            ConjPhase(active[i], InOrder[k]))]]
  BY <1>1 DEF Coefficients, Dim
<1> QED
  BY <1>1, <1>6, <1>7

\* The shortcut that scatters no cell keeps no coefficient above atol.
LEMMA BlindKeepsNothing ==
  ASSUME Ready, Blind
  PROVE  Kept(AllOf(0, Len(active))) = <<>>
<1>1. PICK n \in Nat, L \in Nat, d \in Nat \ {0} :
        /\ n = operator.n /\ L = Len(active) /\ DOMAIN active = 1 .. L
        /\ d = 2^n /\ d = Dim
  <2>1. PICK n \in Nat : n = operator.n
    BY DEF Ready, IsOperator
  <2>2. 2^n \in Nat \ {0} /\ Dim = 2^n
    BY <2>1, PowersOfTwo DEF Dim
  <2> QED
    BY <2>1, <2>2, ActiveIs DEF Rising
<1> DEFINE s == AllOf(0, Len(active))
           rows == [i \in 1 .. L |-> Coefficients(i)]
           f == [k \in 1 .. L * d |-> rows[1 + (k - 1) \div d][((k - 1) % d) + 1]]
<1>2. s = f
  <2> DEFINE rows0 == [i \in 0 + 1 .. Len(active) |-> Coefficients(i)]
  <2>1. s = [k \in 1 .. (Len(active) - 0) * Dim |->
               rows0[0 + 1 + (k - 1) \div Dim][((k - 1) % Dim) + 1]]
    BY DEF AllOf
  <2>2. rows0 = rows
    BY <1>1
  <2>3. \A e : 0 + 1 + e = 1 + e
    OBVIOUS
  <2> HIDE DEF rows, rows0, s
  <2>4. Len(active) - 0 = L /\ Dim = d /\ 0 + 1 = 1
    BY <1>1
  <2> QED
    BY ONLY <2>1, <2>2, <2>4
<1>3. \A k \in DOMAIN s : s[k].value = Zero
  <2> SUFFICES ASSUME NEW k \in 1 .. L * d PROVE f[k].value = Zero
    BY <1>2
  <2>1. PICK a \in Nat, b \in 0 .. d - 1 :
          a = (k - 1) \div d /\ b = (k - 1) % d /\ k - 1 = d * a + b
    <3>1. L * d \in Nat
      BY <1>1
    <3>2. k - 1 \in Nat
      BY <3>1
    <3> QED
      BY <3>2, Division
  <2>2. a < L
    <3>1. ASSUME a >= L PROVE FALSE
      <4>1. PICK e \in Nat : a = L + e
        BY <3>1
      <4>2. d * a = L * d + d * e /\ d * e \in Nat
        BY <4>1
      <4>3. L * d \in Nat
        BY <1>1
      <4> QED
        BY <2>1, <4>2, <4>3
    <3> QED
      BY <3>1
  <2>3. f[k] = Coefficients(1 + a)[b + 1]
    BY <2>1, <2>2
  <2>4. 1 + a \in DOMAIN active /\ b + 1 \in 1 .. d
    BY <1>1, <2>2
  <2>5. \A j \in 1 .. 2^operator.n : Coefficients(1 + a)[j].value = Zero
    BY <2>4, BlindIsZero
  <2> HIDE DEF f
  <2>6. b + 1 \in 1 .. 2^operator.n
    BY ONLY <1>1, <2>4
  <2> QED
    BY <2>3, <2>5, <2>6
<1> HIDE DEF s, f
<1>4. \A k \in DOMAIN s : ~Survives(s[k])
  <2>1. PICK m \in Nat : m = request.atol
    BY DEF Ready, IsRequest
  <2>2. ~(0 > m * m)
    <3>1. m * m \in Nat
      OBVIOUS
    <3> QED
      BY <3>1
  <2>3. Square(Zero) = 0
    BY DEF Square, Zero, C
  <2> QED
    BY <1>3, <2>1, <2>2, <2>3 DEF Survives
<1> DEFINE places == {k \in DOMAIN s : Survives(s[k])}
           at == Ascending(places, [k \in places |-> k])
<1>5. places = {}
  BY <1>4
<1>6. DOMAIN at = 1 .. 0
  <2>1. Cardinality(places) = 0
    BY <1>5, FS_EmptySet
  <2> HIDE DEF places
  <2> QED
    BY <2>1 DEF Ascending
<1>7. Kept(s) = [m \in DOMAIN at |-> s[at[m]]]
  BY DEF Kept
<1> HIDE DEF at
<1>8. Kept(s) = [m \in 1 .. 0 |-> s[at[m]]]
  BY <1>6, <1>7
<1>9. Kept(s) = <<>>
  BY <1>8
<1> QED
  BY <1>9 DEF s

\* No coefficient in these rows is refused.
RealIn(X) == \A x \in X, z \in Masks(operator.n) : ~Unreal(TraceAt(operator, x, z))

\* The label named is one whose trace is not real.
Refusal ==
  /\ request.hermitian
  /\ \E x, z \in Masks(operator.n) :
       named = Label(x, z, operator.n) /\ Unreal(TraceAt(operator, x, z))

\* Some trace has an imaginary part above atol.
Forgiven ==
  /\ request.hermitian
  /\ \E x, z \in Masks(operator.n) :
       TraceAt(operator, x, z).im * TraceAt(operator, x, z).im > request.atol * request.atol

\* What the Hermiticity check and the projection have found.
Judged ==
  /\ stage # "done" => verdict = "none"
  /\ stage = "raised" => Refusal
  /\ stage = "blocks" /\ request.hermitian /\ Streams => RealIn(DoneRows(left))
  /\ stage = "done" /\ request.hermitian /\ ~Blind => RealIn(AllRows)
  /\ stage = "done" /\ Blind /\ request.entry = "terms" => result = <<>>
  /\ verdict = "failed" => Forgiven

\* What is not real is above atol, so nothing dropped as too small is.
LEMMA UnrealIs ==
  ASSUME IsRequest(request), NEW v \in Complex
  PROVE  /\ Unreal(v) => v.im * v.im > request.atol * request.atol /\ v.im # 0
         /\ Square(v) <= request.atol * request.atol => ~Unreal(v)
<1>1. PICK m \in Nat : m = request.atol
  BY DEF IsRequest
<1>2. PICK a \in Int, b \in Int : v = C(a, b)
  BY TwoParts
<1>3. v.re = a /\ v.im = b
  BY <1>2 DEF C
<1>4. m * m \in Nat /\ a * a \in Nat /\ b * b \in Nat
  <2>1. \A c \in Int : c * c \in Nat
    <3> TAKE c \in Int
    <3>1. CASE c >= 0
      BY <3>1
    <3>2. CASE c < 0
      <4>1. PICK e \in Nat : c = -e
        BY <3>2
      <4>2. c * c = e * e
        BY <4>1
      <4> QED
        BY <4>2
    <3> QED
      BY <3>1, <3>2
  <2> QED
    BY <2>1
<1>5. Unreal(v) => b * b > m * m
  BY <1>1, <1>3 DEF Unreal
<1>6. b * b > m * m => b # 0
  BY <1>4
<1>7. Square(v) <= m * m => ~(b * b > m * m)
  <2>1. Square(v) = a * a + b * b
    BY <1>3 DEF Square
  <2> QED
    BY <1>4, <2>1
<1> QED
  BY <1>1, <1>3, <1>5, <1>6, <1>7

LEMMA SquareType ==
  ASSUME NEW v \in Complex
  PROVE  v.im * v.im \in Nat /\ Square(v) \in Int
<1>1. PICK a \in Int, b \in Int : v = C(a, b)
  BY TwoParts
<1>2. v.re = a /\ v.im = b
  BY <1>1 DEF C
<1>3. b * b \in Nat /\ a * a + b * b \in Int
  <2>1. CASE b >= 0
    BY <2>1
  <2>2. CASE b < 0
    <3>1. PICK e \in Nat : b = -e
      BY <2>2
    <3>2. b * b = e * e
      BY <3>1
    <3> QED
      BY <3>2
  <2> QED
    BY <2>1, <2>2
<1> QED
  BY <1>2, <1>3 DEF Square

\* The compiled check, which compares squares, refuses exactly the coefficients
\* that the check in Python refuses.
THEOREM TestsAgree ==
  ASSUME IsRequest(request), NEW v \in Complex
  PROVE  Judge(v) <=> Unreal(v)
<1>1. PICK m \in Nat : m = request.atol
  BY DEF IsRequest
<1>2. PICK scale \in Nat \ {0} : scale = Relative * Relative
  BY DecompositionAssumption
<1>3. PICK im \in Nat, square \in Int : im = v.im * v.im /\ square = Square(v)
  BY SquareType
<1>4. PICK atol \in Nat : atol = m * m
  OBVIOUS
<1>5. scale * im > scale * atol <=> im > atol
  <2>1. ASSUME NEW x \in Nat, NEW y \in Nat, x > y
        PROVE  scale * x > scale * y
    BY <2>1
  <2> QED
    BY <2>1
<1>6. Unreal(v) <=> im > atol /\ scale * im > square
  BY <1>1, <1>2, <1>3, <1>4 DEF Unreal
<1>7. UnrealSquared(v) <=> scale * im > Greatest(scale * atol, square)
  BY <1>1, <1>2, <1>3, <1>4 DEF UnrealSquared
<1>8. scale * im \in Int /\ scale * atol \in Int
  OBVIOUS
<1>9. UnrealSquared(v) <=> Unreal(v)
  BY <1>5, <1>6, <1>7, <1>8 DEF Greatest
<1> QED
  BY <1>9 DEF Judge

\* A list without violations shows that its rows are real.
LEMMA RealOfList ==
  ASSUME Ready, NEW X, X \subseteq Masks(operator.n), NEW above, NEW s, Lists(s, X, above),
         Violations(s) = {}
  PROVE  RealIn(X)
<1> SUFFICES ASSUME NEW x \in X, NEW z \in Masks(operator.n)
             PROVE  ~Unreal(TraceAt(operator, x, z))
  BY DEF RealIn
<1> DEFINE e == EntryOf(x, z)
<1>1. e \in Entries(X)
  BY DEF Entries
<1>2. e.value = TraceAt(operator, x, z) /\ e.value \in Complex
  BY <1>1, EntriesAre DEF EntryOf
<1>3. IsRequest(request)
  BY DEF Ready
<1> HIDE DEF e
<1>4. CASE Survives(e)
  <2>1. PICK k \in DOMAIN s : s[k] = e
    BY <1>1, <1>4 DEF Lists
  <2> QED
    BY <1>2, <1>3, <2>1, TestsAgree DEF Violations
<1>5. CASE ~Survives(e)
  <2>1. PICK u \in Int, v \in Int : u = Square(e.value) /\ v = request.atol * request.atol
    <3>1. PICK a \in Int, b \in Int : e.value = C(a, b)
      BY <1>2, TwoParts
    <3>2. e.value.re = a /\ e.value.im = b
      BY <3>1 DEF C
    <3>3. a * a + b * b \in Int
      OBVIOUS
    <3>4. PICK m \in Nat : m = request.atol
      BY <1>3 DEF IsRequest
    <3>5. m * m \in Int
      OBVIOUS
    <3> QED
      BY <3>2, <3>3, <3>4, <3>5 DEF Square
  <2>2. ~(u > v)
    BY <1>5, <2>1 DEF Survives
  <2>3. Square(e.value) <= request.atol * request.atol
    BY <2>1, <2>2
  <2> QED
    BY <1>2, <1>3, <2>3, UnrealIs
<1> QED
  BY <1>4, <1>5

\* The violation that is named is one.
LEMMA NamedIsUnreal ==
  ASSUME Ready, NEW X, X \subseteq Masks(operator.n), NEW s \in Seq(Entries(X)),
         Violations(s) # {}
  PROVE  \E x, z \in Masks(operator.n) :
           /\ LabelOf(s[Min(Violations(s))]) = Label(x, z, operator.n)
           /\ Unreal(TraceAt(operator, x, z))
<1> DEFINE V == Violations(s)
<1>1. V \subseteq Nat /\ DOMAIN s = 1 .. Len(s)
  BY DEF Violations
<1>2. \E m \in V : \A k \in V : m =< k
  <2> DEFINE P == {n \in Nat : \A k \in V : k > n} 
  <2>1. ASSUME \A m \in V : \E k \in V : ~(m =< k) PROVE FALSE
    <3>1. 0 \in P
      <4>1. \A k \in V : k \in 1 .. Len(s)
        BY <1>1 DEF Violations
      <4> HIDE DEF V
      <4> QED
        BY <4>1
    <3>2. \A n \in Nat : n \in P => n + 1 \in P
      <4> HIDE DEF V
      <4> SUFFICES ASSUME NEW n \in Nat, \A k \in V : k > n PROVE \A k \in V : k > n + 1
        OBVIOUS
      <4>1. n + 1 \notin V
        <5> SUFFICES ASSUME n + 1 \in V PROVE FALSE
          OBVIOUS
        <5>1. PICK k \in V : ~(n + 1 =< k)
          BY <2>1
        <5> QED
          BY <1>1, <5>1
      <4> QED
        BY <1>1, <4>1
    <3> HIDE DEF P
    <3>3. Nat \subseteq P
      BY <3>1, <3>2, NaturalsFrom
    <3>4. PICK k \in V : TRUE
      OBVIOUS
    <3>5. k \in Nat /\ k \in P
      BY <1>1, <3>3
    <3> HIDE DEF V
    <3> QED
      BY <3>5 DEF P
  <2> QED
    BY <2>1
<1>3. PICK m \in V : m = Min(V)
  <2> HIDE DEF V
  <2> QED
    BY <1>2 DEF Min
<1>4. m \in DOMAIN s /\ Judge(s[m].value)
  BY DEF Violations
<1>5. s[m] \in Entries(X)
  BY <1>1, <1>4
<1>6. s[m].value \in Complex
  BY <1>5, EntriesAre
<1>7. Unreal(s[m].value)
  BY <1>4, <1>6, TestsAgree DEF Ready
<1> QED
  BY <1>3, <1>5, <1>7, EntriesAre

\* Judgements are about the operator and the request.
LEMMA JudgementsStay ==
  ASSUME UNCHANGED Prepared
  PROVE  /\ \A X : RealIn(X)' <=> RealIn(X)
         /\ Forgiven' <=> Forgiven
         /\ named' = named => (Refusal' <=> Refusal)
         /\ \A v : Unreal(v)' <=> Unreal(v)
<1>1. operator' = operator /\ request' = request
  BY DEF Prepared
<1>2. \A v : Unreal(v)' <=> Unreal(v)
  BY <1>1 DEF Unreal
<1>3. \A X : RealIn(X)' <=> RealIn(X)
  BY <1>1, <1>2 DEF RealIn
<1>4. Forgiven' <=> Forgiven
  BY <1>1 DEF Forgiven
<1>5. named' = named => (Refusal' <=> Refusal)
  BY <1>1, <1>2 DEF Refusal
<1> QED
  BY <1>2, <1>3, <1>4, <1>5

\* Raise names a violation.
LEMMA RaiseIsRefusal ==
  ASSUME Ready, UNCHANGED Prepared, NEW X, X \subseteq Masks(operator.n),
         NEW s \in Seq(Entries(X)), Refused(s), Raise(s)
  PROVE  Refusal'
<1>1. request.hermitian /\ Violations(s) # {}
  BY DEF Refused
<1>2. PICK x \in Masks(operator.n), z \in Masks(operator.n) :
        /\ LabelOf(s[Min(Violations(s))]) = Label(x, z, operator.n)
        /\ Unreal(TraceAt(operator, x, z))
  BY <1>1, NamedIsUnreal
<1>3. named' = Label(x, z, operator.n)
  BY <1>2 DEF Raise
<1>4. operator' = operator /\ request' = request
  BY DEF Prepared
<1>5. (Unreal(TraceAt(operator, x, z)))'
  BY <1>2, <1>4 DEF Unreal
<1> QED
  BY <1>1, <1>3, <1>4, <1>5 DEF Refusal

\* Rows that are real apart are real together.
LEMMA RealOfBoth ==
  ASSUME NEW X, NEW Y, RealIn(X), RealIn(Y)
  PROVE  RealIn(X \cup Y)
BY DEF RealIn

\* Nothing is judged at the start, and each action keeps what is:
LEMMA JudgedInit ==
  ASSUME Init
  PROVE  Judged
BY DEF Init, Judged

\* a chunk is refused for one of its own coefficients, or all of it is real;
LEMMA JudgedBlock ==
  ASSUME IInv, Judged, Block
  PROVE  Judged'
<1>1. stage = "blocks" /\ UNCHANGED Prepared /\ UNCHANGED verdict
  BY DEF Block, Prepared
<1>2. PICK start \in left :
        LET entries == Emitted(start, Stop(start))
        IN  /\ left' = left \ {start}
            /\ \/ Gathers /\ stage' = stage
               \/ Streams /\ ~Refused(entries) /\ stage' = stage
               \/ Refused(entries) /\ Raise(entries)
  BY DEF Block, Gathers, Streams, Stop
<1>3. PICK entries, rows : /\ entries = Emitted(start, Stop(start))
                           /\ rows = RowsOf(start, Stop(start))
  OBVIOUS
<1>4. /\ left' = left \ {start}
      /\ \/ Gathers /\ stage' = stage
         \/ Streams /\ ~Refused(entries) /\ stage' = stage
         \/ Refused(entries) /\ Raise(entries)
  BY <1>2, <1>3
<1>5. /\ Ready /\ Blind' = Blind /\ \A l : DoneRows(l)' = DoneRows(l)
  BY <1>1, StaysPrepared
<1>6. Chunked /\ left \subseteq Starts /\ ~Blind
  BY <1>1 DEF IInv, Read, Blind
<1>7. start \in Nat /\ Stop(start) \in start .. Len(active)
  BY <1>5, <1>6, ChunkBounds
<1>8. Lists(entries, rows, TRUE)
  <2>1. PICK to \in start .. Len(active) : to = Stop(start)
    BY <1>7
  <2>2. Lists(Emitted(start, to), RowsOf(start, to), TRUE)
    BY <1>5, <1>6, <1>7, EmittedLists
  <2> QED
    BY <1>3, <2>1, <2>2
<1>9. DoneRows(left \ {start}) = DoneRows(left) \cup rows
  BY <1>3, <1>5, <1>6, OneMoreChunk
<1>10. rows \subseteq Masks(operator.n)
  <2>1. Len(active) \in Nat /\ DOMAIN active = 1 .. Len(active)
        /\ \A i \in DOMAIN active : active[i] \in Masks(operator.n)
    BY <1>5, ActiveIs DEF Rising
  <2>2. PICK to \in start .. Len(active) : to = Stop(start)
    BY <1>7
  <2>3. \A i \in start + 1 .. to : i \in DOMAIN active
    BY <1>7, <2>1, <2>2
  <2> QED
    BY <1>3, <2>1, <2>2, <2>3 DEF RowsOf
<1>11. request' = request /\ Streams' = Streams /\ Gathers' = Gathers
  BY <1>1 DEF Prepared, Streams, Gathers
<1>12. verdict' = "none"
  BY <1>1 DEF Judged
<1>13. CASE stage' = stage
  <2>1. request.hermitian /\ Streams => RealIn(DoneRows(left \ {start}))
    <3> SUFFICES ASSUME request.hermitian, Streams PROVE RealIn(DoneRows(left \ {start}))
      OBVIOUS
    <3>1. Violations(entries) = {}
      <4>1. ~Gathers
        BY DEF Streams, Gathers
      <4>2. stage' # "raised"
        BY <1>1, <1>13
      <4>3. ~Raise(entries)
        BY <4>2 DEF Raise
      <4> QED
        BY <1>4, <4>1, <4>3 DEF Refused
    <3>2. RealIn(rows)
      BY <1>5, <1>8, <1>10, <3>1, RealOfList
    <3>3. RealIn(DoneRows(left))
      BY <1>1 DEF Judged
    <3> QED
      BY <1>9, <3>2, <3>3, RealOfBoth
  <2>2. PICK Y : Y = DoneRows(left \ {start})
    OBVIOUS
  <2>3. DoneRows(left)' = Y
    BY <1>4, <1>5, <2>2 DEF DoneRows
  <2>4. (request.hermitian /\ Streams => RealIn(DoneRows(left)))'
    BY <1>1, <1>11, <2>1, <2>2, <2>3, JudgementsStay
  <2> QED
    BY <1>1, <1>12, <1>13, <2>4 DEF Judged
<1>14. CASE Refused(entries) /\ Raise(entries)
  <2>1. entries \in Seq(Entries(rows))
    BY <1>8 DEF Lists
  <2>2. Refusal'
    BY <1>1, <1>5, <1>10, <1>14, <2>1, RaiseIsRefusal
  <2>3. stage' = "raised"
    BY <1>14 DEF Raise
  <2> QED
    BY <1>12, <2>2, <2>3 DEF Judged
<1> QED
  BY <1>4, <1>13, <1>14

\* the same for a whole list,
LEMMA JudgedDeliver ==
  ASSUME IInv, Judged, stage \in {"blocks", "whole"}, UNCHANGED Prepared, UNCHANGED verdict,
         ~Blind, NEW s, Deliver(s), NEW above, Lists(s, AllRows, above), ~Streams
  PROVE  Judged'
<1>1. Ready /\ AllRows' = AllRows /\ Blind' = Blind
  BY StaysPrepared
<1>2. AllRows \subseteq Masks(operator.n)
  BY <1>1, ActiveIs DEF AllRows, Rising
<1>3. verdict' = "none"
  BY DEF Judged
<1>4. CASE ~Refused(s) /\ stage' = "done"
  <2>1. request.hermitian => RealIn(AllRows)
    BY <1>1, <1>2, <1>4, RealOfList DEF Refused
  <2>2. PICK X : X = AllRows
    OBVIOUS
  <2>3. (request.hermitian => RealIn(AllRows))'
    BY <1>1, <2>1, <2>2, JudgementsStay DEF Prepared
  <2> QED
    BY <1>1, <1>3, <1>4, <2>3 DEF Judged
<1>5. CASE Refused(s) /\ Raise(s)
  <2>1. s \in Seq(Entries(AllRows))
    BY DEF Lists
  <2>2. Refusal'
    BY <1>1, <1>2, <1>5, <2>1, RaiseIsRefusal
  <2>3. stage' = "raised"
    BY <1>5 DEF Raise
  <2> QED
    BY <1>3, <2>2, <2>3 DEF Judged
<1>6. CASE request.entry # "terms" /\ stage' = "done"
  <2>1. IsRequest(request)
    BY DEF IInv, Read
  <2>2. ~request.hermitian
    BY <1>6, <2>1 DEF IsRequest, Streams
  <2>3. ~request'.hermitian
    BY <2>2 DEF Prepared
  <2> QED
    BY <1>1, <1>3, <1>6, <2>3 DEF Judged
<1> QED
  BY <1>4, <1>5, <1>6 DEF Deliver

\* delivered from one block
LEMMA JudgedWhole ==
  ASSUME IInv, Judged, Whole
  PROVE  Judged'
<1>1. stage = "whole" /\ UNCHANGED Prepared /\ UNCHANGED <<left, verdict>>
      /\ Deliver(IF request.entry = "terms" THEN Kept(AllOf(0, Len(active)))
                 ELSE AllOf(0, Len(active)))
  BY DEF Whole, Prepared
<1>2. Ready /\ ~Chunked /\ IsRequest(request)
  BY <1>1 DEF IInv, Read
<1>3. request.entry \in {"matrix", "rows", "terms"} /\ ~Streams
  BY <1>2 DEF IsRequest, Chunked, Streams
<1>4. PICK all : all = AllOf(0, Len(active))
  OBVIOUS
<1>5. Deliver(IF request.entry = "terms" THEN Kept(all) ELSE all)
  BY <1>1, <1>4
<1>6. CASE ~Blind
  <2>1. PICK L \in Nat : L = Len(active) /\ DOMAIN active = 1 .. L
    BY <1>2, ActiveIs DEF Rising
  <2>2. RowsOf(0, L) = AllRows
    BY <2>1 DEF RowsOf, AllRows
  <2>3. Lists(all, AllRows, FALSE)
    <3>1. 0 \in Nat /\ L \in 0 .. Len(active)
      BY <2>1
    <3>2. Lists(AllOf(0, L), RowsOf(0, L), FALSE)
      BY <1>2, <1>6, <3>1, AllOfLists
    <3> QED
      BY <1>4, <2>1, <2>2, <3>2
  <2>4. CASE request.entry = "terms"
    <3>1. Lists(Kept(all), AllRows, TRUE)
      BY <2>3, KeptLists
    <3>2. Deliver(Kept(all))
      BY <1>5, <2>4
    <3> QED
      BY <1>1, <1>3, <1>6, <3>1, <3>2, JudgedDeliver
  <2>5. CASE request.entry # "terms"
    <3>1. Deliver(all)
      BY <1>5, <2>5
    <3> QED
      BY <1>1, <1>3, <1>6, <2>3, <3>1, JudgedDeliver
  <2> QED
    BY <2>4, <2>5
<1>7. CASE Blind
  <2>1. Blind' = Blind /\ request' = request
    BY <1>1, StaysPrepared DEF Prepared
  <2>2. verdict' = "none"
    BY <1>1 DEF Judged
  <2>3. CASE request.entry = "terms"
    <3>1. Kept(all) = <<>>
      BY <1>2, <1>4, <1>7, BlindKeepsNothing
    <3>2. Deliver(<<>>)
      BY <1>5, <2>3, <3>1
    <3>3. Violations(<<>>) = {} /\ Terms(<<>>) = <<>>
      BY DEF Violations, Terms
    <3>4. stage' = "done" /\ result' = <<>>
      BY <2>3, <3>2, <3>3 DEF Deliver, Refused
    <3> QED
      BY <1>7, <2>1, <2>2, <3>4 DEF Judged
  <2>4. CASE request.entry # "terms"
    <3>1. stage' = "done"
      BY <1>5, <2>4 DEF Deliver
    <3> QED
      BY <1>7, <2>1, <2>2, <2>4, <3>1 DEF Judged
  <2> QED
    BY <2>3, <2>4
<1> QED
  BY <1>6, <1>7

\* or from the accumulator;
LEMMA JudgedFinish ==
  ASSUME IInv, Judged, Finish
  PROVE  Judged'
<1>1. stage = "blocks" /\ left = {} /\ UNCHANGED Prepared /\ UNCHANGED <<left, verdict>>
  BY DEF Finish, Prepared
<1>2. Ready /\ Chunked /\ Listing /\ ~Blind
  BY <1>1 DEF IInv, Read, Blind
<1>3. PICK s : /\ Lists(s, DoneRows(left), TRUE)
               /\ Gathers => Holds(grown, s)
  BY <1>2 DEF Listing
<1>4. DoneRows(left) = AllRows
  BY <1>1, <1>2, ChunksCover
<1>5. CASE Gathers
  <2>1. Finalized(grown) = s
    <3>1. s \in Seq(Entries(AllRows))
      BY <1>3, <1>4 DEF Lists
    <3> QED
      BY <1>3, <1>5, <3>1, HoldsFinalized
  <2>2. ~Streams
    BY <1>5 DEF Gathers, Streams
  <2>3. Lists(s, AllRows, TRUE)
    BY <1>3, <1>4
  <2>4. Deliver(s)
    BY <1>5, <2>1, <2>2 DEF Finish, Gathers, Streams
  <2> QED
    BY <1>1, <1>2, <2>2, <2>3, <2>4, JudgedDeliver
<1>6. CASE Streams
  <2>1. stage' = "done"
    BY <1>6 DEF Finish, Streams
  <2>2. Blind' = Blind /\ AllRows' = AllRows /\ request' = request
    BY <1>1, StaysPrepared DEF Prepared
  <2>3. request.hermitian => RealIn(AllRows)
    BY <1>1, <1>4, <1>6 DEF Judged
  <2>4. PICK X : X = AllRows
    OBVIOUS
  <2>5. (request.hermitian => RealIn(AllRows))'
    BY <1>1, <2>2, <2>3, <2>4, JudgementsStay
  <2>6. verdict' = "none"
    BY <1>1 DEF Judged
  <2> QED
    BY <1>2, <2>1, <2>2, <2>5, <2>6 DEF Judged
<1>7. Gathers \/ Streams
  BY DEF Finish, Gathers, Streams
<1> QED
  BY <1>5, <1>6, <1>7

\* Where the projection of a term differs from its value by more than atol,
\* the value lost an imaginary part as large.
LEMMA ProjectionFits ==
  ASSUME Ready, NEW X, X \subseteq Masks(operator.n), NEW e \in Entries(X),
         ~(Square(Minus(Projection(LabelOf(e)), ValueOfTerm(e))) <= request.atol * request.atol)
  PROVE  Forgiven
<1>1. PICK x \in Masks(operator.n), z \in Masks(operator.n) :
        /\ e.value = TraceAt(operator, x, z) /\ e.value \in Complex
        /\ LabelOf(e) = Label(x, z, operator.n)
  BY EntriesAre
<1>2. Projection(LabelOf(e)) = e.value
  BY <1>1, ProjectionIs DEF Ready
<1>3. PICK a \in Int, b \in Int : e.value = C(a, b)
  BY <1>1, TwoParts
<1>4. PICK m \in Nat : m = request.atol
  BY DEF Ready, IsRequest
<1>5. m * m \in Nat /\ b * b \in Int
  OBVIOUS
<1>6. CASE request.hermitian
  <2>1. Minus(C(a, b), C(C(a, b).re, 0)) = C(0, b)
    BY DEF Minus, C
  <2>2. Square(C(0, b)) = b * b
    BY DEF Square, C
  <2>3. ValueOfTerm(e) = C(C(a, b).re, 0)
    BY <1>3, <1>6 DEF ValueOfTerm
  <2>4. ~(b * b <= m * m)
    BY <1>2, <1>3, <1>4, <2>1, <2>2, <2>3
  <2>5. b * b > m * m
    BY <1>5, <2>4
  <2>6. TraceAt(operator, x, z).im = b
    BY <1>1, <1>3 DEF C
  <2> QED
    BY <1>4, <1>6, <2>5, <2>6 DEF Forgiven
<1>7. CASE ~request.hermitian
  <2>1. Minus(C(a, b), C(a, b)) = Zero
    BY DEF Minus, C, Zero
  <2>2. Square(Zero) = 0
    BY DEF Square, C, Zero
  <2>3. ~(0 <= m * m)
    BY <1>2, <1>3, <1>4, <1>7, <2>1, <2>2 DEF ValueOfTerm
  <2> QED
    BY <1>5, <2>3
<1> QED
  BY <1>6, <1>7

\* the projection contradicts only what the check has changed;
LEMMA JudgedVerify ==
  ASSUME IInv, Judged, Verify
  PROVE  Judged'
<1>1. /\ stage = "done" /\ stage' = stage /\ UNCHANGED Prepared /\ result' = result
      /\ named' = named /\ request.entry \in {"terms", "stream"}
      /\ verdict' = "failed" =>
           /\ ~(request.entry = "terms" /\ result = <<>>)
           /\ \E k \in DOMAIN result :
                ~(Square(Minus(Projection(result[k].label), result[k].value))
                    <= request.atol * request.atol)
  BY DEF Verify, Prepared
<1>2. Ready /\ Blind' = Blind /\ AllRows' = AllRows /\ request' = request
  BY <1>1, StaysPrepared DEF Prepared
<1>3. verdict' = "failed" => Forgiven
  <2> SUFFICES ASSUME verdict' = "failed" PROVE Forgiven
    OBVIOUS
  <2>1. ~Blind
    <3>1. IsRequest(request)
      BY <1>2 DEF Ready
    <3> SUFFICES ASSUME Blind PROVE FALSE
      OBVIOUS
    <3>2. request.entry = "terms"
      BY <1>1, <3>1 DEF IsRequest, Blind, Chunked
    <3>3. result = <<>>
      BY <1>1, <3>2 DEF Judged
    <3> QED
      BY <1>1, <3>2, <3>3
  <2>2. PICK s : Lists(s, AllRows, Thresholded) /\ result = ResultOf(s)
    BY <1>1, <2>1 DEF IInv, Complete
  <2>3. AllRows \subseteq Masks(operator.n)
    BY <1>2, ActiveIs DEF AllRows, Rising
  <2>4. s \in Seq(Entries(AllRows)) /\ DOMAIN s = 1 .. Len(s)
    BY <2>2 DEF Lists
  <2>5. result = Terms(s)
    BY <1>1, <2>2 DEF ResultOf
  <2>6. PICK k \in DOMAIN s :
          ~(Square(Minus(Projection(result[k].label), result[k].value))
              <= request.atol * request.atol)
    BY <1>1, <2>5 DEF Terms
  <2>7. result[k].label = LabelOf(s[k]) /\ result[k].value = ValueOfTerm(s[k])
    BY <2>5 DEF Terms, ValueOfTerm
  <2>8. s[k] \in Entries(AllRows)
    BY <2>4
  <2> QED
    BY <1>2, <2>3, <2>6, <2>7, <2>8, ProjectionFits
<1>4. verdict' = "failed" => Forgiven'
  BY <1>1, <1>3, JudgementsStay
<1>5. (request.hermitian /\ ~Blind => RealIn(AllRows))'
  <2>1. PICK X : X = AllRows
    OBVIOUS
  <2>2. request.hermitian /\ ~Blind => RealIn(X)
    BY <1>1, <2>1 DEF Judged
  <2> QED
    BY <1>1, <1>2, <2>1, <2>2, JudgementsStay
<1> QED
  BY <1>1, <1>2, <1>4, <1>5 DEF Judged

\* and the other actions judge nothing.
LEMMA JudgedElse ==
  ASSUME IInv, Judged, Build \/ Prepare \/ UNCHANGED vars
  PROVE  Judged'
<1>0. stage \in {"new", "built", "blocks", "whole", "done", "raised"}
  BY DEF IInv, Read
<1>1. CASE Build
  <2>1. stage' = "built" /\ verdict' = "none"
    BY <1>1 DEF Build, Judged
  <2> QED
    BY <2>1 DEF Judged
<1>2. CASE Prepare
  <2>1. /\ stage' = IF Chunked' THEN "blocks" ELSE "whole"
        /\ verdict' = "none"
        /\ Chunked' => left' = {i \in 0 .. Len(active') - 1 : i % request'.chunk = 0}
    BY <1>2 DEF Prepare, Judged, Chunked
  <2>2. Chunked' => RealIn(DoneRows(left))'
    <3> SUFFICES ASSUME Chunked' PROVE RealIn(DoneRows(left))'
      OBVIOUS
    <3>1. Starts' = left'
      BY <2>1 DEF Starts
    <3>2. DoneRows(left)' = {}
      BY <3>1 DEF DoneRows
    <3> QED
      BY <3>2 DEF RealIn
  <2> QED
    BY <2>1, <2>2 DEF Judged
<1>3. CASE UNCHANGED vars
  <2>1. /\ UNCHANGED <<stage, left, result, named, verdict>> /\ UNCHANGED Prepared
        /\ request' = request
    BY <1>3 DEF vars, Prepared
  <2>2. CASE stage \in {"new", "built"}
    BY <2>1, <2>2 DEF Judged
  <2>3. CASE stage \in {"blocks", "whole", "done", "raised"}
    <3>1. Blind' = Blind /\ AllRows' = AllRows /\ \A l : DoneRows(l)' = DoneRows(l)
      BY <2>1, <2>3, StaysPrepared
    <3>2. PICK X, Y : X = DoneRows(left) /\ Y = AllRows
      OBVIOUS
    <3>3. DoneRows(left)' = X /\ AllRows' = Y
      BY <2>1, <3>1, <3>2 DEF DoneRows
    <3>4. (RealIn(DoneRows(left))' <=> RealIn(X)) /\ (RealIn(AllRows)' <=> RealIn(Y))
      BY <2>1, <3>3, JudgementsStay
    <3>5. Streams' = Streams
      BY <2>1 DEF Streams
    <3> QED
      BY <2>1, <3>1, <3>2, <3>4, <3>5, JudgementsStay DEF Judged
  <2> QED
    BY <1>0, <2>2, <2>3
<1> QED
  BY <1>1, <1>2, <1>3

\* Both invariants always hold.
LEMMA JudgementsHold == Spec => [](IInv /\ Judged)
<1>1. Init => IInv /\ Judged
  BY InitHolds, JudgedInit
<1>2. IInv /\ Judged /\ [Next]_vars => IInv' /\ Judged'
  BY BuildKeeps, PrepareKeeps, BlockKeeps, WholeKeeps, FinishKeeps, VerifyKeeps,
     StutteringKeeps, JudgedBlock, JudgedWhole, JudgedFinish, JudgedVerify, JudgedElse DEF Next
<1> QED
  BY <1>1, <1>2, PTL DEF Spec

\* No coefficient of a Hermitian operator is refused.
LEMMA JudgedIsRefused ==
  ASSUME IInv, Judged
  PROVE  RefusedIsNotHermitian
<1> SUFFICES ASSUME stage = "raised"
             PROVE  request.hermitian /\ ~IsHermitian(operator) /\ Unreal(Trace(named))
  BY DEF RefusedIsNotHermitian
<1>1. request.hermitian /\ IsOperator(operator) /\ IsRequest(request)
  BY DEF Judged, Refusal, IInv, Read
<1>2. PICK x \in Masks(operator.n), z \in Masks(operator.n) :
        named = Label(x, z, operator.n) /\ Unreal(TraceAt(operator, x, z))
  BY DEF Judged, Refusal
<1>3. TraceAt(operator, x, z) = Trace(named)
  BY <1>2 DEF TraceAt, Trace
<1>4. PICK op : op = operator
  OBVIOUS
<1>5. TraceAt(op, x, z) \in Complex
  BY <1>1, <1>4, CoefficientIsTrace, TraceTypes
<1>6. TraceAt(op, x, z).im # 0
  BY <1>1, <1>2, <1>4, <1>5, UnrealIs
<1>7. ~IsHermitian(op)
  BY <1>1, <1>4, <1>6, RealOfHermitian
<1> QED
  BY <1>1, <1>2, <1>3, <1>4, <1>7

\* assume_hermitian refuses no Hermitian operator, and names a label whose
\* coefficient is not real, for every operator, chunking and tolerance.
THEOREM RefusedAreNotHermitian == Spec => []RefusedIsNotHermitian
BY JudgementsHold, JudgedIsRefused, PTL

\* The rows that are not active have no trace to be refused.
LEMMA JudgedIsAccepted ==
  ASSUME IInv, Judged
  PROVE  AcceptedIsReal
<1> SUFFICES ASSUME stage = "done", request.hermitian, ~Blind, NEW label \in Labels(operator.n)
             PROVE  ~Unreal(Trace(label))
  BY DEF AcceptedIsReal
<1>1. Ready /\ RealIn(AllRows)
  BY DEF IInv, Read, Judged
<1>2. operator.n \in Nat /\ IsRequest(request)
  BY <1>1 DEF Ready, IsOperator
<1>3. PICK x \in Masks(operator.n), z \in Masks(operator.n) : label = Label(x, z, operator.n)
  BY <1>2, LabelOfMasks
<1>4. CASE x \in AllRows
  <2>1. Trace(label) = TraceAt(operator, x, z)
    BY <1>3 DEF TraceAt, Trace
  <2> QED
    BY <1>1, <1>4, <2>1 DEF RealIn
<1>5. CASE x \notin AllRows
  <2>1. Trace(label) = Zero
    BY <1>1, <1>3, <1>5, TraceOutside
  <2>2. Zero.im = 0 /\ Zero \in Complex
    BY ComplexTypes DEF Zero, C
  <2> QED
    BY <1>2, <2>1, <2>2, UnrealIs
<1> QED
  BY <1>4, <1>5

\* What assume_hermitian lets pass is real within its tolerance in every label,
\* those of earlier chunks and those dropped as too small included.
THEOREM AcceptedAreReal == Spec => []AcceptedIsReal
BY JudgementsHold, JudgedIsAccepted, PTL

\* The projection's failures are Forgiven.
LEMMA JudgedAgrees ==
  ASSUME IInv, Judged
  PROVE  OracleAgrees
<1> SUFFICES ASSUME verdict = "failed"
             PROVE  /\ request.hermitian
                    /\ \E label \in Labels(operator.n) :
                         Trace(label).im * Trace(label).im > request.atol * request.atol
  BY DEF OracleAgrees
<1>1. PICK x \in Masks(operator.n), z \in Masks(operator.n) :
        TraceAt(operator, x, z).im * TraceAt(operator, x, z).im > request.atol * request.atol
  BY DEF Judged, Forgiven
<1>2. operator.n \in Nat /\ request.hermitian
  BY DEF Judged, Forgiven, IInv, Read, IsOperator
<1>3. PICK label \in Labels(operator.n) : label = Label(x, z, operator.n)
  BY <1>2, LabelParts
<1>4. Trace(label) = TraceAt(operator, x, z)
  BY <1>3 DEF TraceAt, Trace
<1> QED
  BY <1>1, <1>2, <1>4

\* The projection of verification/ contradicts a decomposition only where
\* assume_hermitian has taken away an imaginary part above atol.
THEOREM OracleAlwaysAgrees == Spec => []OracleAgrees
BY JudgementsHold, JudgedAgrees, PTL

-----------------------------------------------------------------------------
(* The transform of the transform, and the terms added up.                 *)

\* A sum over masks, by the highest bit.
LEMMA SumByHighestBit ==
  ASSUME NEW n \in Nat, NEW f, \A s \in Masks(n + 1) : f[s] \in Int,
         NEW g, \A s \in Masks(n) : g[s] = f[s] + f[s \cup {n}]
  PROVE  SumOver(f, Masks(n + 1)) = SumOver(g, Masks(n))
<1> DEFINE S == Masks(n)
           m == [s \in S |-> s \cup {n}]
           T == {m[s] : s \in S}
           h == [s \in S |-> f[s \cup {n}]]
<1>1. /\ Masks(n + 1) = S \cup T /\ S \cap T = {}
      /\ \A p, q \in S : m[p] = m[q] => p = q
  BY OneMoreBit
<1>2. IsFiniteSet(S) /\ IsFiniteSet(T)
  <2>1. IsFiniteSet(S)
    BY MasksFinite
  <2> HIDE DEF S, m
  <2> QED
    BY <2>1, ImageFinite
<1>3. /\ \A s \in S : f[s] \in Int /\ h[s] \in Int /\ g[s] = f[s] + h[s]
      /\ \A s \in S : f[m[s]] = h[s]
  BY <1>1
<1> HIDE DEF S, m, h
<1>4. \A s \in S \cup T : f[s] \in Int
  BY <1>1
<1> HIDE DEF T
<1>5. SumOver(f, S \cup T) = SumOver(f, S) + SumOver(f, T)
  BY <1>1, <1>2, <1>4, SumUnion
<1>6. SumOver(h, S) = SumOver(f, T)
  <2>1. \A s \in S : h[s] \in Int /\ f[m[s]] = h[s]
    BY <1>3
  <2> QED
    BY <1>1, <1>2, <2>1, SumMapped DEF T
<1>7. SumOver(g, S) = SumOver(f, S) + SumOver(h, S)
  BY <1>2, <1>3, SumPlus
<1> QED
  BY <1>1, <1>5, <1>6, <1>7 DEF S

\* Signs when the highest bit is added.
SignByBit ==
  \A n \in Nat : \A z, s \in Masks(n) :
    /\ Sign(z \cap s) \in {1, -1}
    /\ z \cap (s \cup {n}) = z \cap s /\ (z \cup {n}) \cap s = z \cap s
    /\ Sign((z \cup {n}) \cap (s \cup {n})) = -Sign(z \cap s)

LEMMA SignsByBit == SignByBit
<1> SUFFICES ASSUME NEW n \in Nat, NEW z \in Masks(n), NEW s \in Masks(n)
             PROVE  /\ Sign(z \cap s) \in {1, -1}
                    /\ z \cap (s \cup {n}) = z \cap s /\ (z \cup {n}) \cap s = z \cap s
                    /\ Sign((z \cup {n}) \cap (s \cup {n})) = -Sign(z \cap s)
  BY DEF SignByBit
<1>1. n \notin z /\ n \notin s
  BY DEF Masks
<1>2. IsFiniteSet(z \cap s) /\ Sign(z \cap s) \in {1, -1}
  BY PhasesAreNumbers DEF PhaseTypes
<1>3. (z \cup {n}) \cap (s \cup {n}) = (z \cap s) \cup {n} /\ n \notin z \cap s
  BY <1>1
<1>4. Sign((z \cap s) \cup {n}) = -Sign(z \cap s)
  BY <1>2, <1>3, SignIs
<1> QED
  BY <1>1, <1>2, <1>3, <1>4

\* The transform of a row of numbers.
Walsh(r, n) ==
  [z \in Masks(n) |-> SumOver([s \in Masks(n) |-> Sign(z \cap s) * r[s]], Masks(n))]

LEMMA WalshTypes ==
  ASSUME NEW n \in Nat, NEW r \in [Masks(n) -> Int]
  PROVE  Walsh(r, n) \in [Masks(n) -> Int]
<1> SUFFICES ASSUME NEW z \in Masks(n)
             PROVE  SumOver([s \in Masks(n) |-> Sign(z \cap s) * r[s]], Masks(n)) \in Int
  BY DEF Walsh
<1> DEFINE f == [s \in Masks(n) |-> Sign(z \cap s) * r[s]]
<1>1. \A s \in Masks(n) : f[s] \in Int
  <2> TAKE s \in Masks(n)
  <2>0. Sign(z \cap s) \in {1, -1}
    BY SignsByBit DEF SignByBit
  <2>1. PICK a \in {1, -1} : a = Sign(z \cap s)
    BY <2>0
  <2>3. PICK b \in Int : b = r[s]
    OBVIOUS
  <2>2. a * b \in Int
    OBVIOUS
  <2> QED
    BY <2>1, <2>2, <2>3
<1>2. IsFiniteSet(Masks(n))
  BY MasksFinite
<1> HIDE DEF f
<1>3. SumOver(f, Masks(n)) \in Int
  BY <1>1, <1>2, SumUnfold
<1> QED
  BY <1>3 DEF f

\* r0 and r1 are the lower and the upper half of r.
Halves(r, r0, r1, n) == \A s \in Masks(n) : r0[s] = r[s] /\ r1[s] = r[s \cup {n}]

\* The transform of a row by those of its halves.
LEMMA WalshByBit ==
  ASSUME NEW n \in Nat, NEW r \in [Masks(n + 1) -> Int],
         NEW r0 \in [Masks(n) -> Int], NEW r1 \in [Masks(n) -> Int], Halves(r, r0, r1, n)
  PROVE  \A z \in Masks(n) :
           /\ Walsh(r, n + 1)[z] = Walsh(r0, n)[z] + Walsh(r1, n)[z]
           /\ Walsh(r, n + 1)[z \cup {n}] = Walsh(r0, n)[z] - Walsh(r1, n)[z]
<1> TAKE z \in Masks(n)
<1> DEFINE S == Masks(n)
           f0 == [s \in S |-> Sign(z \cap s) * r0[s]]
           f1 == [s \in S |-> Sign(z \cap s) * r1[s]]
           sum == [s \in S |-> f0[s] + f1[s]]
           difference == [s \in S |-> f0[s] - f1[s]]
           f == [s \in Masks(n + 1) |-> Sign(z \cap s) * r[s]]
           g == [s \in Masks(n + 1) |-> Sign((z \cup {n}) \cap s) * r[s]]
<1>1. /\ IsFiniteSet(S) /\ n + 1 \in Nat
      /\ \A s \in S : s \in Masks(n + 1) /\ s \cup {n} \in Masks(n + 1)
  BY MasksFinite, OneMoreBit
<1>2. z \in Masks(n + 1) /\ z \cup {n} \in Masks(n + 1)
  BY <1>1
<1>3. \A t, s \in Masks(n + 1) : Sign(t \cap s) \in {1, -1}
  BY <1>1, SignsByBit DEF SignByBit
<1>4. \A s \in Masks(n + 1) : f[s] \in Int /\ g[s] \in Int
  <2> TAKE s \in Masks(n + 1)
  <2>1. PICK a \in {1, -1}, b \in {1, -1}, c \in Int :
          a = Sign(z \cap s) /\ b = Sign((z \cup {n}) \cap s) /\ c = r[s]
    BY <1>2, <1>3
  <2>2. a * c \in Int /\ b * c \in Int
    OBVIOUS
  <2> QED
    BY <2>1, <2>2
<1>5. \A s \in S : /\ f0[s] \in Int /\ f1[s] \in Int
                   /\ f[s] + f[s \cup {n}] = sum[s]
                   /\ g[s] + g[s \cup {n}] = difference[s]
  <2> TAKE s \in S
  <2>0. \A u, v \in Masks(n) :
          /\ Sign(u \cap v) \in {1, -1}
          /\ u \cap (v \cup {n}) = u \cap v /\ (u \cup {n}) \cap v = u \cap v
          /\ Sign((u \cup {n}) \cap (v \cup {n})) = -Sign(u \cap v)
    BY SignsByBit DEF SignByBit
  <2>1. PICK a \in {1, -1}, b \in Int, c \in Int :
          a = Sign(z \cap s) /\ b = r0[s] /\ c = r1[s]
    BY <2>0
  <2>2. /\ f0[s] = a * b /\ f1[s] = a * c
        /\ f[s] = a * b /\ f[s \cup {n}] = a * c
        /\ g[s] = a * b /\ g[s \cup {n}] = (-a) * c
    BY <1>1, <2>0, <2>1 DEF Halves
  <2>3. (-a) * c = -(a * c) /\ a * b \in Int /\ a * c \in Int
    OBVIOUS
  <2> HIDE DEF f0, f1, f, g
  <2> QED
    BY <2>2, <2>3
<1>6. /\ Walsh(r0, n)[z] = SumOver(f0, S) /\ Walsh(r1, n)[z] = SumOver(f1, S)
      /\ Walsh(r, n + 1)[z] = SumOver(f, Masks(n + 1))
      /\ Walsh(r, n + 1)[z \cup {n}] = SumOver(g, Masks(n + 1))
  BY <1>2 DEF Walsh
<1>7. \A s \in S : /\ f0[s] \in Int /\ f1[s] \in Int /\ difference[s] \in Int
                   /\ sum[s] = f0[s] + f1[s] /\ f0[s] = difference[s] + f1[s]
  <2> TAKE s \in S
  <2>1. PICK a \in Int, b \in Int : a = f0[s] /\ b = f1[s]
    BY <1>5
  <2>2. sum[s] = f0[s] + f1[s] /\ difference[s] = f0[s] - f1[s]
    OBVIOUS
  <2> HIDE DEF f0, f1, sum, difference
  <2>3. sum[s] = a + b /\ difference[s] = a - b
    BY <2>1, <2>2
  <2> QED
    BY <2>1, <2>3
<1> HIDE DEF f0, f1, sum, difference, f, g
<1>8. SumOver(f, Masks(n + 1)) = SumOver(sum, S)
  BY <1>4, <1>5, SumByHighestBit DEF S
<1>9. SumOver(g, Masks(n + 1)) = SumOver(difference, S)
  BY <1>4, <1>5, SumByHighestBit DEF S
<1> HIDE DEF S
<1>10. SumOver(sum, S) = SumOver(f0, S) + SumOver(f1, S)
  BY <1>1, <1>7, SumPlus
<1>11. SumOver(f0, S) = SumOver(difference, S) + SumOver(f1, S)
  BY <1>1, <1>7, SumPlus
<1>12. SumOver(f0, S) \in Int /\ SumOver(f1, S) \in Int /\ SumOver(difference, S) \in Int
  BY <1>1, <1>7, SumUnfold
<1> QED
  BY <1>6, <1>8, <1>9, <1>10, <1>11, <1>12

\* Transformed twice, a row is itself times dim.
LEMMA WalshTwice ==
  ASSUME NEW n \in Nat, NEW r \in [Masks(n) -> Int]
  PROVE  \A q \in Masks(n) : Walsh(Walsh(r, n), n)[q] = 2^n * r[q]
<1> DEFINE Twice(k) == \A f \in [Masks(k) -> Int] : \A q \in Masks(k) :
                         Walsh(Walsh(f, k), k)[q] = 2^k * f[q]
           P == {k \in Nat : Twice(k)}
<1>1. Twice(0)
  <2> SUFFICES ASSUME NEW f \in [Masks(0) -> Int], NEW q \in Masks(0)
               PROVE  Walsh(Walsh(f, 0), 0)[q] = 2^0 * f[q]
    OBVIOUS
  <2>1. Masks(0) = {{}} /\ 2^0 = 1 /\ q = {}
    BY PowersOfTwo DEF Masks
  <2>2. \A g \in [Masks(0) -> Int] : Walsh(g, 0)[{}] = g[{}] /\ Walsh(g, 0) \in [Masks(0) -> Int]
    <3> TAKE g \in [Masks(0) -> Int]
    <3> DEFINE h == [s \in Masks(0) |-> Sign({} \cap s) * g[s]]
    <3>1. Walsh(g, 0)[{}] = SumOver(h, Masks(0))
      BY <2>1 DEF Walsh
    <3>2. h[{}] = g[{}] /\ g[{}] \in Int
      <4>1. Sign({} \cap {}) = 1
        BY SignEmpty
      <4>2. g[{}] \in Int
        BY <2>1
      <4>3. 1 * g[{}] = g[{}]
        BY <4>2
      <4> QED
        BY <2>1, <4>1, <4>2, <4>3
    <3> HIDE DEF h
    <3>3. IsFiniteSet({{}}) /\ IsFiniteSet({}) /\ {{}} \ {{}} = {}
      BY FS_Singleton, FS_EmptySet
    <3>4. SumOver(h, {{}}) = h[{}] + SumOver(h, {{}} \ {{}})
      BY <3>2, <3>3, SumWithout
    <3>5. SumOver(h, {}) = 0
      BY <3>3, SumUnfold
    <3>6. SumOver(h, {{}}) = h[{}] + 0
      BY <3>3, <3>4, <3>5
    <3>7. Walsh(g, 0) \in [Masks(0) -> Int]
      BY WalshTypes
    <3>9. PICK v \in Int : v = g[{}]
      BY <3>2
    <3>10. SumOver(h, {{}}) = v
      BY <3>2, <3>6, <3>9
    <3>8. Walsh(g, 0)[{}] = g[{}]
      BY <2>1, <3>1, <3>9, <3>10
    <3> QED
      BY <3>7, <3>8
  <2>3. Walsh(f, 0) \in [Masks(0) -> Int]
    BY <2>2
  <2>4. PICK g \in [Masks(0) -> Int] : g = Walsh(f, 0)
    BY <2>3
  <2>5. Walsh(g, 0)[{}] = f[{}] /\ f[{}] \in Int
    BY <2>1, <2>2, <2>4
  <2> QED
    BY <2>1, <2>4, <2>5
<1>2. ASSUME NEW k \in Nat, Twice(k) PROVE Twice(k + 1)
  <2> SUFFICES ASSUME NEW f \in [Masks(k + 1) -> Int]
               PROVE  \A q \in Masks(k + 1) : Walsh(Walsh(f, k + 1), k + 1)[q] = 2^(k + 1) * f[q]
    OBVIOUS
  <2> DEFINE S == Masks(k)
             f0 == [s \in S |-> f[s]]
             f1 == [s \in S |-> f[s \cup {k}]]
  <2>1. \A s \in S : s \in Masks(k + 1) /\ s \cup {k} \in Masks(k + 1)
    BY OneMoreBit
  <2>2. f0 \in [S -> Int] /\ f1 \in [S -> Int]
    BY <2>1
  <2>0. PICK a0 \in [Masks(k) -> Int], a1 \in [Masks(k) -> Int] : a0 = f0 /\ a1 = f1
    BY <2>2
  <2>3. PICK w \in [Masks(k + 1) -> Int], w0 \in [S -> Int], w1 \in [S -> Int] :
          w = Walsh(f, k + 1) /\ w0 = Walsh(f0, k) /\ w1 = Walsh(f1, k)
    <3>1. Walsh(f, k + 1) \in [Masks(k + 1) -> Int]
      BY WalshTypes
    <3>2. Walsh(a0, k) \in [Masks(k) -> Int] /\ Walsh(a1, k) \in [Masks(k) -> Int]
      BY WalshTypes
    <3> HIDE DEF f0, f1
    <3> QED
      BY <2>0, <3>1, <3>2
  <2>4. \A z \in S : w[z] = w0[z] + w1[z] /\ w[z \cup {k}] = w0[z] - w1[z]
    <3>1. Halves(f, a0, a1, k)
      BY <2>0 DEF Halves
    <3>2. \A z \in Masks(k) :
            /\ Walsh(f, k + 1)[z] = Walsh(a0, k)[z] + Walsh(a1, k)[z]
            /\ Walsh(f, k + 1)[z \cup {k}] = Walsh(a0, k)[z] - Walsh(a1, k)[z]
      BY <3>1, WalshByBit
    <3> HIDE DEF f0, f1
    <3> QED
      BY <2>0, <2>3, <3>2
  <2> DEFINE v0 == [s \in S |-> w[s]]
             v1 == [s \in S |-> w[s \cup {k}]]
  <2>5. v0 \in [S -> Int] /\ v1 \in [S -> Int]
        /\ \A s \in S : v0[s] = w[s] /\ v1[s] = w[s \cup {k}]
                        /\ v0[s] = w0[s] + w1[s] /\ v1[s] = w0[s] - w1[s]
    BY <2>1, <2>4
  <2> HIDE DEF v0, v1
  <2>6. \A q \in S : /\ Walsh(w, k + 1)[q] = Walsh(v0, k)[q] + Walsh(v1, k)[q]
                     /\ Walsh(w, k + 1)[q \cup {k}] = Walsh(v0, k)[q] - Walsh(v1, k)[q]
    <3>1. PICK b0 \in [Masks(k) -> Int], b1 \in [Masks(k) -> Int] : b0 = v0 /\ b1 = v1
      BY <2>5
    <3>2. Halves(w, b0, b1, k)
      BY <2>5, <3>1 DEF Halves
    <3>3. \A q \in Masks(k) :
            /\ Walsh(w, k + 1)[q] = Walsh(b0, k)[q] + Walsh(b1, k)[q]
            /\ Walsh(w, k + 1)[q \cup {k}] = Walsh(b0, k)[q] - Walsh(b1, k)[q]
      BY <3>2, WalshByBit
    <3> QED
      BY <3>1, <3>3
  <2>7. \A q \in S : /\ Walsh(v0, k)[q] = Walsh(w0, k)[q] + Walsh(w1, k)[q]
                     /\ Walsh(v1, k)[q] = Walsh(w0, k)[q] - Walsh(w1, k)[q]
    <3> SUFFICES ASSUME NEW q \in S
                 PROVE  /\ Walsh(v0, k)[q] = Walsh(w0, k)[q] + Walsh(w1, k)[q]
                        /\ Walsh(v1, k)[q] = Walsh(w0, k)[q] - Walsh(w1, k)[q]
      OBVIOUS
    <3> DEFINE g(v) == [s \in S |-> Sign(q \cap s) * v[s]]
               a == g(w0)
               b == g(w1)
               c == g(v0)
               d == g(v1)
    <3>1. /\ Walsh(v0, k)[q] = SumOver(c, S) /\ Walsh(v1, k)[q] = SumOver(d, S)
          /\ Walsh(w0, k)[q] = SumOver(a, S) /\ Walsh(w1, k)[q] = SumOver(b, S)
      BY DEF Walsh
    <3>2. \A s \in S : /\ a[s] \in Int /\ b[s] \in Int /\ c[s] = a[s] + b[s]
                       /\ d[s] \in Int /\ a[s] = d[s] + b[s]
      <4> TAKE s \in S
      <4>0. Sign(q \cap s) \in {1, -1}
        BY SignsByBit DEF SignByBit
      <4>1. PICK e \in {1, -1}, x \in Int, y \in Int :
              e = Sign(q \cap s) /\ x = w0[s] /\ y = w1[s]
        BY <4>0
      <4>2. a[s] = e * x /\ b[s] = e * y /\ c[s] = e * (x + y) /\ d[s] = e * (x - y)
        BY <2>5, <4>1
      <4> HIDE DEF a, b, c, d
      <4> QED
        BY <4>1, <4>2
    <3>3. IsFiniteSet(S)
      BY MasksFinite
    <3> HIDE DEF a, b, c, d, S
    <3>4. SumOver(c, S) = SumOver(a, S) + SumOver(b, S)
      BY <3>2, <3>3, SumPlus
    <3>5. SumOver(a, S) = SumOver(d, S) + SumOver(b, S)
      BY <3>2, <3>3, SumPlus
    <3>6. SumOver(a, S) \in Int /\ SumOver(b, S) \in Int /\ SumOver(d, S) \in Int
      BY <3>2, <3>3, SumUnfold
    <3> QED
      BY <3>1, <3>4, <3>5, <3>6
  <2>8. PICK d \in Nat : d = 2^k /\ 2^(k + 1) = 2 * d
    BY PowersOfTwo
  <2>9. \A q \in S : /\ Walsh(w0, k)[q] = d * f[q] /\ f[q] \in Int
                     /\ Walsh(w1, k)[q] = d * f[q \cup {k}] /\ f[q \cup {k}] \in Int
    <3>1. \A q \in S : f0[q] = f[q] /\ f1[q] = f[q \cup {k}]
      OBVIOUS
    <3> HIDE DEF f0, f1
    <3>2. \A q \in S : Walsh(w0, k)[q] = 2^k * f0[q] /\ Walsh(w1, k)[q] = 2^k * f1[q]
      BY <1>2, <2>2, <2>3
    <3> QED
      BY <2>1, <2>8, <3>1, <3>2
  <2>10. \A q \in S : /\ Walsh(w, k + 1)[q] = (2 * d) * f[q]
                      /\ Walsh(w, k + 1)[q \cup {k}] = (2 * d) * f[q \cup {k}]
    <3> TAKE q \in S
    <3>0. PICK x \in Int, y \in Int : x = f[q] /\ y = f[q \cup {k}]
      BY <2>9
    <3>1. PICK a \in Int, b \in Int :
            x = f[q] /\ y = f[q \cup {k}] /\ a = d * x /\ b = d * y
      BY <3>0
    <3>2. /\ Walsh(w, k + 1)[q] = (a + b) + (a - b)
          /\ Walsh(w, k + 1)[q \cup {k}] = (a + b) - (a - b)
      BY <2>6, <2>7, <2>9, <3>1
    <3>3. (a + b) + (a - b) = (2 * d) * x /\ (a + b) - (a - b) = (2 * d) * y
      BY ONLY d \in Nat, <3>1, a \in Int, b \in Int, x \in Int, y \in Int
    <3> QED
      BY <3>1, <3>2, <3>3
  <2>11. Masks(k + 1) = S \cup {q \cup {k} : q \in S}
    BY OneMoreBit
  <2> QED
    BY <2>3, <2>8, <2>10, <2>11
<1>3. n \in P
  <2> HIDE DEF Twice
  <2>1. 0 \in P /\ \A k \in Nat : k \in P => k + 1 \in P
    BY <1>1, <1>2
  <2> HIDE DEF P
  <2> QED
    BY <2>1, NaturalsFrom
<1> QED
  BY <1>3

\* The same for complex rows.
WalshAt(row, n, z) == Total([s \in Masks(n) |-> Scaled(row[s], Sign(z \cap s))])

LEMMA WalshParts ==
  ASSUME NEW n \in Nat, NEW row \in Rows(n), NEW z \in Masks(n)
  PROVE  /\ WalshAt(row, n, z) = C(Walsh(Re(row), n)[z], Walsh(Im(row), n)[z])
         /\ WalshAt(row, n, z) \in Complex
<1> DEFINE S == Masks(n)
           f == [s \in S |-> Scaled(row[s], Sign(z \cap s))]
           re == [s \in S |-> Sign(z \cap s) * Re(row)[s]]
           im == [s \in S |-> Sign(z \cap s) * Im(row)[s]]
<1>1. \A s \in S : /\ f[s] \in Complex
                   /\ f[s].re = re[s] /\ f[s].im = im[s]
  <2> TAKE s \in S
  <2>1. Sign(z \cap s) \in {1, -1}
    BY SignsByBit DEF SignByBit
  <2>2. row[s] \in Complex /\ Re(row)[s] = row[s].re /\ Im(row)[s] = row[s].im
    BY PartsTypes
  <2>3. PICK e \in Int, v \in Complex : e = Sign(z \cap s) /\ v = row[s]
    BY <2>1, <2>2
  <2>4. Scaled(v, e).re = e * v.re /\ Scaled(v, e).im = e * v.im
    BY DEF Scaled, C
  <2>5. Scaled(v, e) \in Complex
    BY ComplexTypes
  <2> QED
    BY <2>2, <2>3, <2>4, <2>5
<1>2. IsFiniteSet(S) /\ DOMAIN f = S
  BY MasksFinite
<1>3. Walsh(Re(row), n)[z] = SumOver(re, S) /\ Walsh(Im(row), n)[z] = SumOver(im, S)
      /\ WalshAt(row, n, z) = Total(f)
  BY DEF Walsh, WalshAt
<1> HIDE DEF f, re, im, S
<1>4. Numbers(f, S)
  BY <1>1, <1>2 DEF Numbers
<1>5. /\ Total(f) = C(SumOver(Re(f), S), SumOver(Im(f), S))
      /\ \A e \in S : Re(f)[e] \in Int /\ Im(f)[e] \in Int
                      /\ Re(f)[e] = f[e].re /\ Im(f)[e] = f[e].im
      /\ Total(f) \in Complex
  BY <1>4, TotalParts
<1>6. \A e \in S : Re(f)[e] \in Int /\ re[e] = Re(f)[e]
  BY <1>1, <1>5
<1>7. \A e \in S : Im(f)[e] \in Int /\ im[e] = Im(f)[e]
  BY <1>1, <1>5
<1>8. SumOver(Re(f), S) = SumOver(re, S) /\ SumOver(Im(f), S) = SumOver(im, S)
  BY <1>2, <1>6, <1>7, SumSame
<1> QED
  BY <1>3, <1>5, <1>8

\* The inverse of the transform is the transform, but for a factor of dim.
LEMMA TransformTwice ==
  ASSUME NEW n \in Nat, NEW row \in Rows(n), NEW q \in Masks(n)
  PROVE  Total([z \in Masks(n) |-> Scaled(WalshAt(row, n, z), Sign(q \cap z))]) = Scaled(row[q], 2^n)
<1> DEFINE v == [z \in Masks(n) |-> WalshAt(row, n, z)]
<1>1. v \in Rows(n)
  BY WalshParts DEF Rows
<1>2. [z \in Masks(n) |-> Scaled(WalshAt(row, n, z), Sign(q \cap z))]
        = [z \in Masks(n) |-> Scaled(v[z], Sign(q \cap z))]
  OBVIOUS
<1>3. PICK w \in Rows(n) : w = v
  BY <1>1
<1>4. PICK a \in [Masks(n) -> Int], b \in [Masks(n) -> Int] : a = Re(row) /\ b = Im(row)
  BY PartsTypes
<1>5. Walsh(a, n) \in [Masks(n) -> Int] /\ Walsh(b, n) \in [Masks(n) -> Int]
  BY WalshTypes
<1>6. Re(w) = Walsh(a, n) /\ Im(w) = Walsh(b, n)
  <2>1. \A z \in Masks(n) : w[z] = C(Walsh(a, n)[z], Walsh(b, n)[z])
    BY <1>3, <1>4, WalshParts
  <2>2. \A z \in Masks(n) : w[z].re = Walsh(a, n)[z] /\ w[z].im = Walsh(b, n)[z]
    <3> TAKE z \in Masks(n)
    <3>1. PICK x, y : x = Walsh(a, n)[z] /\ y = Walsh(b, n)[z]
      OBVIOUS
    <3>2. w[z] = C(x, y)
      BY <2>1, <3>1
    <3>3. C(x, y).re = x /\ C(x, y).im = y
      BY DEF C
    <3> QED
      BY <3>1, <3>2, <3>3
  <2>3. \A z \in Masks(n) : Re(w)[z] = w[z].re /\ Im(w)[z] = w[z].im
    BY PartsTypes
  <2>4. Re(w) \in [Masks(n) -> Int] /\ Im(w) \in [Masks(n) -> Int]
    BY PartsTypes
  <2> QED
    BY <1>5, <2>2, <2>3, <2>4
<1>7. WalshAt(w, n, q) = C(Walsh(Walsh(a, n), n)[q], Walsh(Walsh(b, n), n)[q])
  BY <1>6, WalshParts
<1>8. Walsh(Walsh(a, n), n)[q] = 2^n * a[q] /\ Walsh(Walsh(b, n), n)[q] = 2^n * b[q]
  BY WalshTwice
<1>9. a[q] = row[q].re /\ b[q] = row[q].im
  BY <1>4, PartsTypes
<1>10. WalshAt(w, n, q) = Scaled(row[q], 2^n)
  BY <1>7, <1>8, <1>9 DEF Scaled
<1> HIDE DEF v
<1> QED
  BY <1>2, <1>3, <1>10 DEF WalshAt

\* There are finitely many labels.
LEMMA LabelsFinite ==
  ASSUME NEW n \in Nat
  PROVE  IsFiniteSet(Labels(n))
<1> DEFINE S == Masks(n) \X Masks(n)
           m == [xz \in S |-> Label(xz[1], xz[2], n)]
<1>1. IsFiniteSet(S)
  BY MasksFinite, FS_Product
<1>2. IsFiniteSet({m[xz] : xz \in S})
  <2> HIDE DEF S, m
  <2> QED
    BY <1>1, ImageFinite
<1>3. Labels(n) \subseteq {m[xz] : xz \in S}
  <2> SUFFICES ASSUME NEW label \in Labels(n) PROVE \E xz \in S : label = m[xz]
    OBVIOUS
  <2>1. PICK x \in Masks(n), z \in Masks(n) : label = Label(x, z, n)
    BY LabelOfMasks
  <2>2. <<x, z>> \in S /\ m[<<x, z>>] = label
    BY <2>1
  <2> QED
    BY <2>2
<1> HIDE DEF S, m
<1> QED
  BY <1>2, <1>3, FS_Subset

\* The trace with any operator.
TraceOf(op, label) ==
  Total([pq \in DOMAIN op.at |->
           Times(Conj(StringEntry(label, pq[1], pq[2])), op.at[pq])])

\* All labels, each times its trace, make dim times the operator.
LEMMA TracesRebuild ==
  ASSUME NEW op, IsOperator(op), NEW p \in Masks(op.n), NEW q \in Masks(op.n), NEW f,
         f = [label \in Labels(op.n) |-> Times(TraceOf(op, label), StringEntry(label, p, q))]
  PROVE  Numbers(f, Labels(op.n)) /\ Total(f) = Scaled(At(op, p, q), 2^op.n)
<1>1. PICK n \in Nat, d \in Masks(op.n) : n = op.n /\ d = Xor(p, q) /\ d \in Masks(n)
  BY XorIsGroup DEF IsOperator, XorLaws
<1> DEFINE S == Masks(n)
           row == RowAt(op, d)
<1>2. PICK r \in Rows(n) : r = row
  BY <1>1, RowTypes
<1>3. \A x, z \in S : /\ TraceOf(op, Label(x, z, n)) = TraceAt(op, x, z)
                      /\ TraceAt(op, x, z) \in Complex
                      /\ TraceAt(op, x, z) = CoefficientAt(op, x, z)
                      /\ Label(x, z, n) \in Labels(n)
  BY <1>1, CoefficientIsTrace, TraceTypes, LabelParts DEF TraceOf, TraceAt
<1>4. \A x, z \in S : StringEntry(Label(x, z, n), p, q) = StringEntryIs(x, z, p, q)
  BY <1>1, StringEntryClosed
<1>5. \A x, z \in S : /\ f[Label(x, z, n)] = Times(TraceAt(op, x, z), StringEntryIs(x, z, p, q))
                      /\ f[Label(x, z, n)] \in Complex
                      /\ x # d => f[Label(x, z, n)] = Zero
  <2> TAKE x, z \in S
  <2>1. f[Label(x, z, n)] = Times(TraceAt(op, x, z), StringEntryIs(x, z, p, q))
    BY <1>1, <1>3, <1>4
  <2>2. StringEntryIs(x, z, p, q) \in Complex
    <3>1. IPower(Cardinality(x \cap z)) \in Complex /\ Sign(z \cap q) \in {1, -1}
      BY <1>1, PhasesAreNumbers DEF PhaseTypes
    <3>2. PICK v \in Complex, e \in Int : v = IPower(Cardinality(x \cap z)) /\ e = Sign(z \cap q)
      BY <3>1
    <3>3. Scaled(v, e) \in Complex /\ Zero \in Complex
      BY ComplexTypes
    <3> QED
      BY <3>2, <3>3 DEF StringEntryIs
  <2>3. PICK t \in Complex, u \in Complex : t = TraceAt(op, x, z) /\ u = StringEntryIs(x, z, p, q)
    BY <1>3, <2>2
  <2>4. Times(t, u) \in Complex /\ Times(t, Zero) = Zero
    BY TimesTypes, TimesOne
  <2>5. x # d => u = Zero
    BY <1>1, <2>3 DEF StringEntryIs
  <2> QED
    BY <2>1, <2>3, <2>4, <2>5
<1>6. Numbers(f, Labels(n))
  <2>1. \A label \in Labels(n) : f[label] \in Complex
    BY <1>5, LabelOfMasks
  <2>2. DOMAIN f = Labels(n)
    BY <1>1
  <2> QED
    BY <2>1, <2>2, LabelsFinite DEF Numbers
<1> DEFINE m == [z \in S |-> Label(d, z, n)]
           T == {m[z] : z \in S}
           g == [z \in S |-> Scaled(WalshAt(r, n, z), Sign(q \cap z))]
           h == [label \in T |-> f[label]]
<1>7. T \in SUBSET Labels(n)
  BY <1>1, <1>3
<1>8. \A label \in Labels(n) \ T : f[label] = Zero
  <2> TAKE label \in Labels(n) \ T
  <2>1. PICK x \in S, z \in S : label = Label(x, z, n)
    BY LabelOfMasks
  <2>2. x # d
    <3> SUFFICES ASSUME x = d PROVE FALSE
      OBVIOUS
    <3>1. label = m[z]
      BY <2>1
    <3> QED
      BY <3>1
  <2> QED
    BY <1>5, <2>1, <2>2
<1>9. Numbers(h, T) /\ Total(f) = Total(h)
  <2> HIDE DEF T
  <2> QED
    BY <1>6, <1>7, <1>8, TotalWithin
<1>10. \A z \in S : g[z] = f[m[z]] /\ g[z] \in Complex
  <2> TAKE z \in S
  <2>1. PICK i \in Complex, e \in {1, -1}, w \in Complex :
          /\ i = IPower(Cardinality(d \cap z)) /\ e = Sign(q \cap z)
          /\ w = WalshAt(r, n, z)
          /\ Times(i, Conj(i)) = C(1, 0)
    <3>1. IsFiniteSet(d \cap z) /\ Sign(q \cap z) \in {1, -1}
      BY <1>1, PhasesAreNumbers DEF PhaseTypes
    <3>2. /\ IPower(Cardinality(d \cap z)) \in Complex
          /\ Times(IPower(Cardinality(d \cap z)), Conj(IPower(Cardinality(d \cap z)))) = C(1, 0)
      BY <3>1, PhaseIs
    <3>3. WalshAt(r, n, z) \in Complex
      BY WalshParts
    <3> QED
      BY <3>1, <3>2, <3>3
  <2>2. f[m[z]] = Times(TraceAt(op, d, z), Scaled(i, e))
    <3>1. z \cap q = q \cap z
      OBVIOUS
    <3>2. StringEntryIs(d, z, p, q) = Scaled(i, e)
      BY <1>1, <2>1, <3>1 DEF StringEntryIs
    <3> QED
      BY <1>1, <1>5, <3>2
  <2>3. TraceAt(op, d, z) = Times(w, Conj(i))
    <3>1. CoefficientAt(op, d, z) = Times(WalshAt(r, n, z), ConjPhase(d, z))
      BY <1>1, <1>2 DEF CoefficientAt, WalshAt
    <3> QED
      BY <1>1, <1>3, <2>1, <3>1 DEF ConjPhase
  <2>4. Conj(i) \in Complex
    BY ComplexTypes
  <2>5. Times(Times(w, Conj(i)), Scaled(i, e)) = Scaled(w, e)
    <3>1. PICK j \in Complex : j = Conj(i)
      BY <2>4
    <3>2. Times(Times(w, j), i) = Times(w, Times(j, i)) /\ Times(w, j) \in Complex
      BY TimesAssociates, TimesTypes
    <3>3. Times(j, i) = C(1, 0)
      BY <2>1, <3>1, TimesCommutes
    <3>4. Times(Times(w, j), Scaled(i, e)) = Scaled(Times(Times(w, j), i), e)
      BY <3>2, TimesScaled
    <3>5. Times(w, C(1, 0)) = w
      BY TimesOne
    <3> QED
      BY <3>1, <3>2, <3>3, <3>4, <3>5
  <2>6. Scaled(w, e) \in Complex
    BY ComplexTypes
  <2>7. g[z] = Scaled(w, e)
    BY <2>1
  <2> QED
    BY <2>2, <2>3, <2>5, <2>6, <2>7
<1>11. Numbers(g, S)
  BY <1>10, MasksFinite DEF Numbers
<1>12. Matches(g, S, m, h)
  <2>1. \A y, z \in S : m[y] = m[z] => y = z
    <3> TAKE y, z \in S
    <3>1. LabelToMasks(m[y]).z = y /\ LabelToMasks(m[z]).z = z
      BY <1>1, MasksOfLabel
    <3> QED
      BY <3>1
  <2>2. \A z \in S : h[m[z]] = f[m[z]]
    OBVIOUS
  <2> HIDE DEF m, g, h
  <2> QED
    BY <1>10, <2>1, <2>2 DEF Matches
<1>13. Total(g) = Total(h)
  <2> HIDE DEF m, g, h
  <2> QED
    BY <1>9, <1>11, <1>12, TotalMapped
<1>14. Total(g) = Scaled(r[q], 2^n)
  <2>1. q \in Masks(n)
    BY <1>1
  <2> QED
    BY <2>1, TransformTwice
<1>15. r[q] = At(op, p, q)
  <2>1. Xor(d, q) = p
    BY <1>1, XorIsGroup DEF XorLaws
  <2> QED
    BY <1>1, <1>2, <2>1 DEF RowAt
<1> QED
  BY <1>1, <1>6, <1>9, <1>13, <1>14, <1>15

\* Where nothing is dropped, every label is due with its trace.
LEMMA DueIsTrace ==
  ASSUME Ready, request.atol = 0, request.hermitian => IsHermitian(operator),
         NEW label \in Labels(operator.n)
  PROVE  Due(label) = Trace(label) /\ Trace(label) \in Complex
<1>1. PICK op : op = operator
  OBVIOUS
<1>2. IsOperator(op) /\ op.n \in Nat
  BY <1>1 DEF Ready, IsOperator
<1>3. PICK x \in Masks(op.n), z \in Masks(op.n) : label = Label(x, z, op.n)
  BY <1>1, <1>2, LabelOfMasks
<1>4. Trace(label) = TraceAt(op, x, z)
  BY <1>1, <1>3 DEF Trace, TraceAt
<1>5. TraceAt(op, x, z) \in Complex
  BY <1>2, CoefficientIsTrace, TraceTypes
<1>6. PICK a \in Int, b \in Int : Trace(label) = C(a, b)
  BY <1>4, <1>5, TwoParts
<1>7. Trace(label).re = a /\ Trace(label).im = b
  BY <1>6 DEF C
<1>8. request.hermitian => b = 0
  BY <1>1, <1>2, <1>4, <1>7, RealOfHermitian
<1>9. Square(Trace(label)) <= 0 * 0 => Trace(label) = Zero
  <2> SUFFICES ASSUME Square(Trace(label)) <= 0 * 0 PROVE Trace(label) = Zero
    OBVIOUS
  <2>1. a * a + b * b <= 0
    BY <1>7 DEF Square
  <2>2. \A c \in Int : c * c \in Nat /\ (c # 0 => c * c > 0)
    <3> TAKE c \in Int
    <3>1. CASE c > 0
      BY <3>1
    <3>2. CASE c = 0
      BY <3>2
    <3>3. CASE c < 0
      <4>1. PICK e \in Nat \ {0} : c = -e
        BY <3>3
      <4>2. c * c = e * e /\ e * e > 0
        BY <4>1
      <4> QED
        BY <4>2
    <3> QED
      BY <3>1, <3>2, <3>3
  <2>3. PICK u \in Nat, v \in Nat : u = a * a /\ v = b * b
    BY <2>2
  <2>4. u = 0 /\ v = 0
    BY <2>1, <2>3
  <2>5. a = 0 /\ b = 0
    BY <2>2, <2>3, <2>4
  <2> QED
    BY <1>6, <2>5 DEF Zero
<1>10. Due(label) = IF Thresholded /\ Square(Trace(label)) <= 0 * 0 THEN Zero
                    ELSE IF request.hermitian THEN C(Trace(label).re, 0) ELSE Trace(label)
  BY DEF Due
<1>11. request.hermitian => C(Trace(label).re, 0) = Trace(label)
  BY <1>6, <1>7, <1>8
<1> QED
  BY <1>4, <1>5, <1>9, <1>10, <1>11

\* A result that lists all coefficients adds up to the operator.
LEMMA RightReconstructs ==
  ASSUME Ready, request.entry \in {"terms", "stream", "arrays"}, request.atol = 0,
         request.hermitian => IsHermitian(operator),
         NEW s, Lists(s, AllRows, Thresholded), result = ResultOf(s),
         NEW p \in Masks(operator.n), NEW q \in Masks(operator.n),
         NEW terms,
         terms = [label \in {result[k].label : k \in DOMAIN result} |-> Listed(label)]
  PROVE  Reconstructed(terms, operator.n)[<<p, q>>] = Scaled(At(operator, p, q), Dim)
<1>1. PICK op : op = operator
  OBVIOUS
<1>2. IsOperator(op) /\ op.n \in Nat /\ p \in Masks(op.n) /\ q \in Masks(op.n)
  BY <1>1 DEF Ready, IsOperator
<1> DEFINE n == op.n
           L == {result[k].label : k \in DOMAIN result}
           f == [label \in Labels(n) |-> Times(TraceOf(op, label), StringEntry(label, p, q))]
           g == [label \in L |-> Times(terms[label], StringEntry(label, p, q))]
<1>3. \A label \in Labels(n) : Listed(label) = Trace(label)
  <2>1. Right
    BY RightIs
  <2> QED
    BY <1>1, <2>1, DueIsTrace DEF Right
<1>4. \A label : Trace(label) = TraceOf(op, label)
  BY <1>1 DEF Trace, TraceOf
<1>5. \A k \in DOMAIN result : /\ AsTerm(result[k]) = result[k]
                               /\ result[k].label \in Labels(n)
  <2> TAKE k \in DOMAIN result
  <2>1. result = Terms(s)
    BY DEF ResultOf
  <2>2. k \in DOMAIN s /\ result[k] = [label |-> LabelOf(s[k]), value |-> ValueOfTerm(s[k])]
    BY <2>1 DEF Terms, ValueOfTerm
  <2>3. "label" \in DOMAIN result[k]
    BY <2>2
  <2>4. AllRows \subseteq Masks(operator.n)
    BY ActiveIs DEF AllRows, Rising
  <2>5. s \in Seq(Entries(AllRows))
    BY DEF Lists
  <2>6. s[k] \in Entries(AllRows)
    BY <2>2, <2>5
  <2>7. PICK x \in Masks(n), z \in Masks(n) : LabelOf(s[k]) = Label(x, z, n)
    BY <1>1, <2>4, <2>6, EntriesAre
  <2>8. Label(x, z, n) \in Labels(n)
    BY <1>2, LabelParts
  <2> QED
    BY <2>2, <2>3, <2>7, <2>8 DEF AsTerm
<1>6. \A label \in Labels(n) \ L : TraceOf(op, label) = Zero
  <2> TAKE label \in Labels(n) \ L
  <2>1. {k \in DOMAIN result : AsTerm(result[k]).label = label} = {}
    BY <1>5
  <2>2. Listed(label) = Zero
    BY <2>1 DEF Listed
  <2> QED
    BY <1>3, <1>4, <2>2
<1>7. L \in SUBSET Labels(n)
  BY <1>5
<1>8. Numbers(f, Labels(n)) /\ Total(f) = Scaled(At(op, p, q), 2^n)
  BY <1>2, TracesRebuild
<1>9. \A label \in Labels(n) \ L : f[label] = Zero
  <2> TAKE label \in Labels(n) \ L
  <2>1. PICK x \in Masks(n), z \in Masks(n) : label = Label(x, z, n)
    BY <1>2, LabelOfMasks
  <2>2. StringEntry(label, p, q) \in Complex
    <3>1. StringEntry(label, p, q) = StringEntryIs(x, z, p, q)
      BY <1>2, <2>1, StringEntryClosed
    <3>2. IPower(Cardinality(x \cap z)) \in Complex /\ Sign(z \cap q) \in {1, -1}
      BY <1>2, PhasesAreNumbers DEF PhaseTypes
    <3>3. PICK v \in Complex, e \in Int : v = IPower(Cardinality(x \cap z)) /\ e = Sign(z \cap q)
      BY <3>2
    <3>4. Scaled(v, e) \in Complex /\ Zero \in Complex
      BY ComplexTypes
    <3> QED
      BY <3>1, <3>3, <3>4 DEF StringEntryIs
  <2>3. f[label] = Times(Zero, StringEntry(label, p, q))
    BY <1>6
  <2> QED
    BY <2>2, <2>3, TimesOne
<1>10. g = [label \in L |-> f[label]]
  <2>1. \A label \in L : terms[label] = TraceOf(op, label) /\ label \in Labels(n)
    BY <1>3, <1>4, <1>7
  <2> QED
    BY <2>1
<1> HIDE DEF f, L
<1>11. Total(f) = Total([label \in L |-> f[label]])
  BY <1>7, <1>8, <1>9, TotalWithin
<1>12. Reconstructed(terms, n)[<<p, q>>] = Total(g)
  <2>1. DOMAIN terms = L
    BY DEF L
  <2>2. <<p, q>> \in Masks(n) \X Masks(n) /\ <<p, q>>[1] = p /\ <<p, q>>[2] = q
    BY <1>2
  <2>3. Reconstructed(terms, n)[<<p, q>>] =
          Total([label \in DOMAIN terms |-> Times(terms[label], StringEntry(label, p, q))])
    BY <2>2 DEF Reconstructed
  <2> QED
    BY <2>1, <2>3
<1> QED
  BY <1>1, <1>8, <1>10, <1>11, <1>12 DEF Dim

\* It does so in every state that the invariant allows.
LEMMA InvariantReconstructs ==
  ASSUME IInv
  PROVE  Reconstructs
<1> SUFFICES ASSUME stage = "done", ~Blind, request.entry \in {"terms", "stream", "arrays"},
                    request.atol = 0, request.hermitian => IsHermitian(operator),
                    NEW pq \in Masks(operator.n) \X Masks(operator.n)
             PROVE  LET terms == [label \in {result[k].label : k \in DOMAIN result} |-> Listed(label)]
                    IN  Reconstructed(terms, operator.n)[pq] = Scaled(At(operator, pq[1], pq[2]), Dim)
  BY DEF Reconstructs
<1>1. Ready
  BY DEF IInv, Read
<1>2. PICK s : Lists(s, AllRows, Thresholded) /\ result = ResultOf(s)
  BY DEF IInv, Complete
<1>3. PICK p \in Masks(operator.n), q \in Masks(operator.n) : pq = <<p, q>>
  OBVIOUS
<1>4. PICK terms : terms = [label \in {result[k].label : k \in DOMAIN result} |-> Listed(label)]
  OBVIOUS
<1>5. Reconstructed(terms, operator.n)[<<p, q>>] = Scaled(At(operator, p, q), Dim)
  BY <1>1, <1>2, <1>4, RightReconstructs
<1> QED
  BY <1>3, <1>4, <1>5

\* The terms add up to the operator again (reconstruct_from_terms) when atol is
\* zero, unless the caller called an operator Hermitian that is not.
THEOREM TermsReconstruct == Spec => []Reconstructs
BY InvariantHolds, InvariantReconstructs, PTL
=============================================================================
