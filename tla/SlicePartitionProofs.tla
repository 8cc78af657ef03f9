------------------------ MODULE SlicePartitionProofs ------------------------
(***************************************************************************)
(* Proofs about the split of pending, for every number of pending chunks,  *)
(* workers and cores.  The split is right whatever the rounding does: the  *)
(* proofs use only that a rounded size is a natural number.                *)
(***************************************************************************)
EXTENDS SlicePartition, FiniteSetTheorems, FunctionTheorems, TLAPS

\* There is at least one slice, and their number never changes.
LEMMA Numbers ==
  ASSUME TypeOK
  PROVE  /\ nPending \in Nat /\ nPending > 0
         /\ NSlices \in Nat /\ NSlices > 0
BY PartitionAssumption DEF TypeOK, NSlices

\* Every worker is among those that share its core.
LEMMA DivisorIsPositive ==
  ASSUME TypeOK, NEW w \in Slices
  PROVE  Divisor(w) \in Nat /\ Divisor(w) > 0
<1>1. Sharing(w) \subseteq Slices /\ w \in Sharing(w)
  BY Numbers DEF Sharing, Slices
<1>2. IsFiniteSet(Slices)
  BY Numbers, FS_Interval DEF Slices
<1>3. IsFiniteSet(Sharing(w))
  BY <1>1, <1>2, FS_Subset
<1>4. Cardinality(Sharing(w)) \in Nat /\ Cardinality(Sharing(w)) # 0
  BY <1>1, <1>3, FS_CardinalityType, FS_EmptySet
<1>5. TotalCapacity \in Nat /\ TotalCapacity > 0
  BY Numbers DEF TotalCapacity, TypeOK
<1> QED
  BY <1>4, <1>5 DEF Divisor

\* A rounded size is a natural number.
LEMMA RoundedIsNat ==
  ASSUME TypeOK, NEW w \in Slices
  PROVE  Rounded(w) \subseteq Nat
<1>1. nPending \div Divisor(w) \in Nat
  BY DivisorIsPositive, Numbers
<1> QED
  BY <1>1 DEF Rounded

-----------------------------------------------------------------------------
(* The split.                                                              *)

\* The running totals never fall, except that of the corrected last slice.
TotalsRise ==
  /\ upTo[0] = 0
  /\ stage = "size" =>
       \A v, w \in 0 .. next - 1 : v <= w => upTo[v] <= upTo[w]
  /\ stage = "fill" =>
       /\ \A v, w \in 0 .. NSlices - 1 : v <= w => upTo[v] <= upTo[w]
       /\ upTo[NSlices] = nPending

\* A filled slice is what lies between two totals, and everything up to the
\* last total is in some slice.
FilledSoFar ==
  stage = "fill" =>
    /\ \A w \in 1 .. next - 1 :
         slices[w] = {i \in 1 .. nPending : upTo[w - 1] < i /\ i <= upTo[w]}
    /\ \A i \in 1 .. nPending :
         i <= upTo[next - 1] => \E w \in 1 .. next - 1 : i \in slices[w]

SplitInv == TypeOK /\ TotalsRise /\ FilledSoFar

LEMMA SplitInit == Init => SplitInv
<1> SUFFICES ASSUME Init PROVE SplitInv
  OBVIOUS
<1>1. nPending \in Nat /\ nPending > 0 /\ NSlices \in Nat /\ NSlices > 0
  BY PartitionAssumption DEF Init, NSlices
<1> QED
  BY <1>1 DEF Init, SplitInv, TypeOK, TotalsRise, FilledSoFar, Slices

LEMMA SplitStep == SplitInv /\ [Next]_vars => SplitInv'
<1> SUFFICES ASSUME SplitInv, [Next]_vars PROVE SplitInv'
  OBVIOUS
<1>t. TypeOK
  BY DEF SplitInv
<1>n. nPending \in Nat /\ nPending > 0 /\ NSlices \in Nat /\ NSlices > 0
  BY <1>t, Numbers
<1>1. CASE UNCHANGED vars
  BY <1>1 DEF vars, inputs, SplitInv, TypeOK, TotalsRise, FilledSoFar, NSlices, Slices
<1>2. CASE SizeSlice
  <2>1. next \in Slices /\ UNCHANGED <<NSlices, Slices>>
    BY <1>2, <1>t, <1>n DEF SizeSlice, inputs, NSlices, Slices, TypeOK
  <2>2. PICK s \in Nat : upTo' = [upTo EXCEPT ![next] = upTo[next - 1] + s]
    BY <1>2, <1>t, <2>1, RoundedIsNat DEF SizeSlice
  <2>3. TypeOK'
    BY <1>2, <1>t, <1>n, <2>1, <2>2 DEF SizeSlice, TypeOK, inputs, Slices
  <2>4. TotalsRise'
    BY <1>2, <1>t, <1>n, <2>1, <2>2 DEF SizeSlice, SplitInv, TypeOK, TotalsRise, Slices
  <2>5. FilledSoFar'
    BY <1>2 DEF SizeSlice, FilledSoFar
  <2> QED
    BY <2>3, <2>4, <2>5 DEF SplitInv
<1>3. CASE CorrectLast
  <2>1. UNCHANGED <<NSlices, Slices, nPending>> /\ next = NSlices + 1
    BY <1>3, <1>t, <1>n DEF CorrectLast, inputs, NSlices, Slices, TypeOK
  <2>2. TypeOK'
    BY <1>3, <1>t, <1>n, <2>1 DEF CorrectLast, TypeOK, inputs
  <2>3. TotalsRise'
    BY <1>3, <1>t, <1>n, <2>1 DEF CorrectLast, SplitInv, TypeOK, TotalsRise
  <2>4. FilledSoFar'
    BY <1>3, <1>t, <1>n, <2>1 DEF CorrectLast, SplitInv, TypeOK, TotalsRise, FilledSoFar
  <2> QED
    BY <2>2, <2>3, <2>4 DEF SplitInv
<1>4. CASE FillSlice
  <2>1. UNCHANGED <<NSlices, Slices, nPending>> /\ next \in Slices
    BY <1>4, <1>t, <1>n DEF FillSlice, inputs, NSlices, Slices, TypeOK
  <2>2. TypeOK'
    BY <1>4, <1>t, <1>n, <2>1 DEF FillSlice, TypeOK, inputs, Slices
  <2>3. TotalsRise'
    BY <1>4, <2>1 DEF FillSlice, SplitInv, TotalsRise
  <2>4. /\ slices'[next] = {i \in 1 .. nPending : upTo[next - 1] < i /\ i <= upTo[next]}
        /\ \A w \in 1 .. next - 1 : slices'[w] = slices[w]
    BY <1>4, <1>t, <2>1 DEF FillSlice, TypeOK, Slices
  <2>5. FilledSoFar'
    <3>1. next' = next + 1 /\ UNCHANGED upTo
      BY <1>4 DEF FillSlice
    <3>2. ASSUME NEW w \in 1 .. next
          PROVE  slices'[w] = {i \in 1 .. nPending : upTo[w - 1] < i /\ i <= upTo[w]}
      BY <1>4, <1>t, <2>4 DEF FillSlice, SplitInv, FilledSoFar, TypeOK
    <3>3. ASSUME NEW i \in 1 .. nPending, i <= upTo[next]
          PROVE  \E w \in 1 .. next : i \in slices'[w]
      <4>1. next \in Nat /\ next > 0 /\ upTo[next - 1] \in Nat
        BY <1>t, <1>n, <2>1 DEF TypeOK, Slices
      <4>2. CASE i <= upTo[next - 1]
        <5>1. PICK w \in 1 .. next - 1 : i \in slices[w]
          BY <1>4, <4>2 DEF FillSlice, SplitInv, FilledSoFar
        <5> QED
          BY <5>1, <2>4, <4>1
      <4>3. CASE upTo[next - 1] < i
        BY <4>1, <4>3, <3>3, <2>4
      <4> QED
        BY <4>1, <4>2, <4>3
    <3>4. next' - 1 = next
      BY <3>1, <1>t, <1>n DEF TypeOK
    <3> QED
      BY <3>1, <3>2, <3>3, <3>4, <2>1 DEF FilledSoFar
  <2> QED
    BY <2>2, <2>3, <2>5 DEF SplitInv
<1> QED
  BY <1>1, <1>2, <1>3, <1>4 DEF Next

LEMMA SplitAlways == Spec => []SplitInv
BY SplitInit, SplitStep, PTL DEF Spec

\* Every running total stays a natural number and every slice a set of
\* positions of pending.
THEOREM TypeCorrect == Spec => []TypeOK
<1>1. SplitInv => TypeOK
  BY DEF SplitInv
<1> QED
  BY <1>1, SplitAlways, PTL

-----------------------------------------------------------------------------
(* What the drain is given.                                                *)

LEMMA AllFilled ==
  ASSUME SplitInv, Filled
  PROVE  /\ next - 1 = NSlices
         /\ \A w \in Slices :
              slices[w] = {i \in 1 .. nPending : upTo[w - 1] < i /\ i <= upTo[w]}
         /\ \A i \in 1 .. nPending : \E w \in Slices : i \in slices[w]
<1>1. next \in Nat /\ next - 1 = NSlices /\ NSlices \in Nat
  BY Numbers DEF SplitInv, TypeOK, Filled
<1>2. \A i \in 1 .. nPending : i <= upTo[next - 1]
  BY <1>1 DEF SplitInv, TotalsRise, Filled
<1> QED
  BY <1>1, <1>2 DEF SplitInv, FilledSoFar, Filled, Slices

\* The split loses no chunk, repeats none and keeps their order, however the
\* sizes were rounded and corrected.
THEOREM SplitIsPartition == Spec => []SlicesPartition
<1>1. ASSUME SplitInv, Filled, NEW v \in Slices, NEW w \in Slices, v < w,
             NEW i \in slices[v], NEW j \in slices[w]
      PROVE  i < j
  <2>1. /\ NSlices \in Nat /\ v \in 0 .. NSlices - 1 /\ w - 1 \in 0 .. NSlices - 1
        /\ v <= w - 1
    BY <1>1, Numbers DEF Slices, SplitInv
  <2>2. upTo[v] \in Nat /\ upTo[w - 1] \in Nat /\ upTo[v] <= upTo[w - 1]
    BY <1>1, <2>1 DEF SplitInv, TypeOK, TotalsRise, Filled
  <2>3. i \in Nat /\ j \in Nat /\ i <= upTo[v] /\ upTo[w - 1] < j
    BY <1>1, AllFilled
  <2> QED
    BY <2>2, <2>3
<1>2. SplitInv => SlicesPartition
  BY <1>1, AllFilled DEF SlicesPartition
<1> QED
  BY <1>2, SplitAlways, PTL

\* The constant Cut of ThreadDrain that this split amounts to.
Cut == [w \in 1 .. NSlices + 1 |->
          IF upTo[w - 1] <= nPending THEN upTo[w - 1] + 1 ELSE nPending + 1]

\* DrainAssumption's clauses about the split.
DrainMayAssume ==
  Filled =>
    /\ NSlices \in Nat \ {0}
    /\ Cut \in [1 .. NSlices + 1 -> 1 .. nPending + 1]
    /\ \A v, w \in 1 .. NSlices + 1 : v <= w => Cut[v] <= Cut[w]
    /\ \A c \in 1 .. nPending : \E w \in Slices : Cut[w] <= c /\ c < Cut[w + 1]
    /\ \A w \in Slices : slices[w] = Cut[w] .. Cut[w + 1] - 1

\* What ThreadDrain assumes of its slices, this code establishes.
THEOREM SplitServesDrain == Spec => []DrainMayAssume
<1>1. ASSUME SplitInv, Filled PROVE DrainMayAssume
  <2>1. /\ nPending \in Nat /\ nPending > 0 /\ NSlices \in Nat /\ NSlices > 0
    BY <1>1, Numbers DEF SplitInv
  <2>2. /\ upTo \in [0 .. NSlices -> Nat] /\ upTo[NSlices] = nPending
        /\ \A v, w \in 0 .. NSlices - 1 : v <= w => upTo[v] <= upTo[w]
    BY <1>1 DEF SplitInv, TypeOK, TotalsRise, Filled
  <2>3. ASSUME NEW w \in 1 .. NSlices + 1
        PROVE  /\ upTo[w - 1] \in Nat
               /\ Cut[w] = IF upTo[w - 1] <= nPending THEN upTo[w - 1] + 1
                                                      ELSE nPending + 1
               /\ Cut[w] \in 1 .. nPending + 1
    BY <2>1, <2>2 DEF Cut
  <2>4. Cut \in [1 .. NSlices + 1 -> 1 .. nPending + 1]
    BY <2>1, <2>2 DEF Cut
  <2>5. ASSUME NEW v \in 1 .. NSlices + 1, NEW w \in 1 .. NSlices + 1, v <= w
        PROVE  Cut[v] <= Cut[w]
    <3>1. CASE w = NSlices + 1
      <4>1. Cut[w] = nPending + 1
        BY <3>1, <2>1, <2>2, <2>3
      <4> QED
        BY <4>1, <2>1, <2>3
    <3>2. CASE w # NSlices + 1
      <4>1. v - 1 \in 0 .. NSlices - 1 /\ w - 1 \in 0 .. NSlices - 1 /\ v - 1 <= w - 1
        BY <3>2, <2>1, <2>5
      <4>2. upTo[v - 1] <= upTo[w - 1]
        BY <4>1, <2>2
      <4> QED
        BY <4>2, <2>1, <2>3
    <3> QED
      BY <3>1, <3>2
  <2>6. ASSUME NEW w \in Slices
        PROVE  /\ w \in 1 .. NSlices + 1 /\ w + 1 \in 1 .. NSlices + 1
               /\ slices[w] = Cut[w] .. Cut[w + 1] - 1
    <3>1. w \in 1 .. NSlices + 1 /\ w + 1 \in 1 .. NSlices + 1 /\ (w + 1) - 1 = w
      BY <2>1 DEF Slices
    <3>2. slices[w] = {i \in 1 .. nPending : upTo[w - 1] < i /\ i <= upTo[w]}
      BY <1>1, AllFilled
    <3>3. /\ upTo[w - 1] \in Nat /\ upTo[w] \in Nat
          /\ Cut[w] = IF upTo[w - 1] <= nPending THEN upTo[w - 1] + 1 ELSE nPending + 1
          /\ Cut[w + 1] = IF upTo[w] <= nPending THEN upTo[w] + 1 ELSE nPending + 1
      BY <3>1, <2>3
    <3>4. slices[w] \subseteq Int /\ Cut[w] \in Int /\ Cut[w + 1] - 1 \in Int
      BY <3>2, <3>3, <2>1
    <3>5. ASSUME NEW i \in Int
          PROVE  i \in slices[w] <=> Cut[w] <= i /\ i <= Cut[w + 1] - 1
      <4>1. i \in slices[w] <=> /\ i \in Nat /\ 1 <= i /\ i <= nPending
                               /\ upTo[w - 1] < i /\ i <= upTo[w]
        BY <3>2, <2>1
      <4>2. CASE upTo[w - 1] <= nPending /\ upTo[w] <= nPending
        BY <4>1, <4>2, <3>3, <2>1
      <4>3. CASE upTo[w - 1] <= nPending /\ ~(upTo[w] <= nPending)
        BY <4>1, <4>3, <3>3, <2>1
      <4>4. CASE ~(upTo[w - 1] <= nPending)
        BY <4>1, <4>4, <3>3, <2>1
      <4> QED
        BY <4>2, <4>3, <4>4
    <3>6. \A i : i \in slices[w] <=> i \in Cut[w] .. Cut[w + 1] - 1
      BY <3>4, <3>5
    <3>7. slices[w] = Cut[w] .. Cut[w + 1] - 1
      BY <3>6, Zenon
    <3> QED
      BY <3>1, <3>7
  <2>7. ASSUME NEW c \in 1 .. nPending
        PROVE  \E w \in Slices : Cut[w] <= c /\ c < Cut[w + 1]
    <3>1. PICK w \in Slices : c \in slices[w]
      BY <1>1, AllFilled
    <3>2. c \in Cut[w] .. Cut[w + 1] - 1 /\ Cut[w] \in Int /\ Cut[w + 1] \in Int
      BY <3>1, <2>6, <2>3
    <3> QED
      BY <3>2
  <2> QED
    BY <2>1, <2>4, <2>5, <2>6, <2>7 DEF DrainMayAssume
<1>2. SplitInv => DrainMayAssume
  BY <1>1 DEF DrainMayAssume
<1> QED
  BY <1>2, SplitAlways, PTL

-----------------------------------------------------------------------------
(* The drift.  Over a common denominator, Unit, the exact size of a slice  *)
(* is nPending * Weight / Unit, and the weights of all slices add up to    *)
(* Unit.  Each rounding is off by at most one half of a chunk.             *)

LEMMA Division ==
  ASSUME NEW n \in Nat, NEW c \in Nat \ {0}
  PROVE  /\ n \div c \in Nat /\ n % c \in 0 .. c - 1
         /\ n = c * (n \div c) + (n % c)
<1>1. n \div c \in Nat /\ n % c \in Nat /\ n % c < c
  OBVIOUS
<1>2. n = c * (n \div c) + (n % c)
  OBVIOUS
<1> QED
  BY <1>1, <1>2

LEMMA QuotientIsUnique ==
  ASSUME NEW c \in Nat \ {0}, NEW a \in Nat, NEW b \in 0 .. c - 1,
         NEW n \in Nat, n = c * a + b
  PROVE  n \div c = a /\ n % c = b
<1> DEFINE q == n \div c
           r == n % c
<1>1. q \in Nat /\ r \in 0 .. c - 1 /\ n = c * q + r
  BY Division
<1> HIDE DEF q, r
<1>2. ASSUME NEW x \in Nat, NEW y \in Nat, NEW s \in 0 .. c - 1, NEW t \in 0 .. c - 1,
             c * x + s = c * y + t
      PROVE  ~(x < y)
  <2>1. SUFFICES ASSUME x < y PROVE FALSE
    OBVIOUS
  <2>2. PICK d \in Nat : y = x + 1 + d
    <3>1. y - x - 1 \in Nat /\ y = x + 1 + (y - x - 1)
      BY <2>1
    <3> QED
      BY <3>1
  <2>3. c * y = c * x + c + c * d /\ c * d \in Nat /\ c * x \in Nat
    BY <2>2
  <2> QED
    BY <1>2, <2>3
<1>3. ~(q < a) /\ ~(a < q)
  BY <1>1, <1>2
<1>4. q = a
  BY <1>1, <1>3
<1>5. r = b
  <2>1. c * a \in Nat
    OBVIOUS
  <2> QED
    BY <1>1, <1>4, <2>1
<1> QED
  BY <1>4, <1>5 DEF q, r

LEMMA NextQuotient ==
  ASSUME NEW n \in Nat, NEW c \in Nat \ {0}
  PROVE  IF n % c = c - 1
         THEN (n + 1) \div c = n \div c + 1 /\ (n + 1) % c = 0
         ELSE (n + 1) \div c = n \div c /\ (n + 1) % c = (n % c) + 1
<1> DEFINE q == n \div c
           r == n % c
<1>1. q \in Nat /\ r \in 0 .. c - 1 /\ n = c * q + r
  BY Division
<1> HIDE DEF q, r
<1>2. CASE r = c - 1
  <2>1. n + 1 = c * (q + 1) + 0 /\ q + 1 \in Nat /\ 0 \in 0 .. c - 1
    BY <1>1, <1>2
  <2>2. (n + 1) \div c = q + 1 /\ (n + 1) % c = 0
    <3>1. PICK x \in Nat, y \in Nat : x = n + 1 /\ y = q + 1
      BY <1>1
    <3>2. x = c * y + 0 /\ 0 \in 0 .. c - 1
      BY <2>1, <3>1
    <3>3. x \div c = y /\ x % c = 0
      BY <3>2, QuotientIsUnique
    <3> QED
      BY <3>1, <3>3
  <2> QED
    BY <1>2, <2>2 DEF q, r
<1>3. CASE r # c - 1
  <2>1. n + 1 = c * q + (r + 1) /\ r + 1 \in 0 .. c - 1
    BY <1>1, <1>3
  <2>2. (n + 1) \div c = q /\ (n + 1) % c = r + 1
    BY <1>1, <2>1, QuotientIsUnique
  <2> QED
    BY <1>3, <2>2 DEF q, r
<1> QED
  BY <1>2, <1>3 DEF r

\* Workers are handed round the cores: the first cores have one more.
LEMMA WorkersOnCore ==
  ASSUME NEW n \in Nat, NEW c \in Nat \ {0}, NEW core \in 0 .. c - 1
  PROVE  Cardinality({v \in 1 .. n : (v - 1) % c = core})
           = IF core < n % c THEN n \div c + 1 ELSE n \div c
<1> DEFINE q == n \div c
           r == n % c
           m == IF core < r THEN q + 1 ELSE q
           S == {v \in 1 .. n : (v - 1) % c = core}
           f == [j \in 1 .. m |-> c * (j - 1) + core + 1]
<1>1. q \in Nat /\ r \in 0 .. c - 1 /\ n = c * q + r
  BY Division
<1> HIDE DEF q, r
<1>2. m \in Nat
  BY <1>1
<1>3. ASSUME NEW j \in 1 .. m
      PROVE  f[j] \in S /\ (f[j] - 1) \div c = j - 1
  <2>1. f[j] = c * (j - 1) + core + 1 /\ j - 1 \in Nat
    BY <1>2
  <2>2. c * (j - 1) \in Nat
    BY <2>1
  <2>3. f[j] - 1 \in Nat /\ f[j] - 1 = c * (j - 1) + core
    BY <2>1, <2>2
  <2>4. (f[j] - 1) % c = core /\ (f[j] - 1) \div c = j - 1
    <3>1. PICK x \in Nat : x = f[j] - 1
      BY <2>3
    <3>2. PICK y \in Nat : y = j - 1
      BY <2>1
    <3>3. x = c * y + core
      BY <2>3, <3>1, <3>2
    <3> HIDE DEF f
    <3>4. x % c = core /\ x \div c = y
      BY <3>3, QuotientIsUnique
    <3> QED
      BY <3>1, <3>2, <3>4
  <2>5. f[j] \in 1 .. n
    <3>1. CASE j - 1 = q
      <4>1. core < r
        BY <1>1, <3>1
      <4> QED
        BY <1>1, <2>1, <2>2, <3>1, <4>1
    <3>2. CASE j - 1 # q
      <4>1. j - 1 + 1 <= q /\ j \in Nat
        BY <1>1, <3>2
      <4>2. PICK d \in Nat : q = j + d
        <5>1. q - j \in Nat /\ q = j + (q - j)
          BY <1>1, <4>1
        <5> QED
          BY <5>1
      <4>3. c * q = c * (j - 1) + c + c * d /\ c * d \in Nat
        BY <4>1, <4>2
      <4> QED
        BY <1>1, <2>1, <2>2, <4>3
    <3> QED
      BY <3>1, <3>2
  <2> QED
    BY <2>4, <2>5
<1>4. f \in [1 .. m -> S]
  BY <1>3
<1>5. \A i, j \in 1 .. m : f[i] = f[j] => i = j
  <2> TAKE i, j \in 1 .. m
  <2>1. f[i] = f[j] => i - 1 = j - 1
    BY <1>3
  <2> QED
    BY <1>2, <2>1
<1>6. ASSUME NEW v \in S PROVE \E j \in 1 .. m : f[j] = v
  <2> DEFINE k == (v - 1) \div c
  <2>1. v \in 1 .. n /\ v - 1 \in Nat /\ (v - 1) % c = core
    OBVIOUS
  <2>2. k \in Nat /\ v - 1 = c * k + core
    BY <2>1, Division
  <2> HIDE DEF k, S, f
  <2>3. k <= q
    <3>1. SUFFICES ASSUME k > q PROVE FALSE
      BY <1>1, <2>2
    <3>2. PICK d \in Nat : k = q + 1 + d
      <4>1. k - q - 1 \in Nat /\ k = q + 1 + (k - q - 1)
        BY <1>1, <2>2, <3>1
      <4> QED
        BY <4>1
    <3>3. c * k = c * q + c + c * d /\ c * d \in Nat /\ c * q \in Nat
      BY <1>1, <3>2
    <3> QED
      BY <1>1, <2>1, <2>2, <3>3
  <2>4. k = q => core < r
    <3>1. c * q \in Nat
      BY <1>1
    <3> QED
      BY <1>1, <2>1, <2>2, <3>1
  <2>5. k + 1 \in 1 .. m
    BY <1>1, <2>2, <2>3, <2>4
  <2>6. f[k + 1] = c * k + core + 1
    <3>1. PICK j \in 1 .. m : j = k + 1
      BY <2>5
    <3>2. f[j] = c * (j - 1) + core + 1
      BY DEF f
    <3>3. j - 1 = k
      BY <2>2, <3>1
    <3>4. f[j] = c * k + core + 1
      BY ONLY <3>2, <3>3
    <3> QED
      BY ONLY <3>1, <3>4
  <2>7. f[k + 1] = v
    <3>1. c * k \in Nat
      BY <2>2
    <3> QED
      BY <2>1, <2>2, <2>6, <3>1
  <2> QED
    BY <2>5, <2>7
<1>7. f \in Bijection(1 .. m, S)
  <2> HIDE DEF f, S, m
  <2> QED
    BY <1>4, <1>5, <1>6, Fun_IsBij
<1>8. ExistsBijection(1 .. m, S)
  BY <1>7 DEF ExistsBijection
<1>9. IsFiniteSet(1 .. m) /\ Cardinality(1 .. m) = m
  <2> HIDE DEF m
  <2> QED
    BY <1>2, FS_Interval
<1>10. Cardinality(S) = m
  <2> HIDE DEF m, S, f
  <2> QED
    BY <1>8, <1>9, FS_Bijection
<1> QED
  BY <1>10 DEF q, r

\* Has every slice a core of its own, or none of them one?
Alone == nCores = 0 \/ NSlices <= nCores

Fewer == NSlices \div nCores     \* the workers on the later cores
Longer == NSlices % nCores       \* the cores with one more

Unit == IF Alone THEN NSlices ELSE nCores * (Fewer * (Fewer + 1))

Weight(w) == IF Alone THEN 1
             ELSE IF (w - 1) % nCores < Longer THEN Fewer ELSE Fewer + 1

\* The weight of one worker on each of the first k cores, and of the first k
\* workers.
WeightOfCores(k) ==
  IF k <= Longer THEN k * Fewer
  ELSE Longer * Fewer + (k - Longer) * (Fewer + 1)

WeightUpTo(k) ==
  IF Alone THEN k
  ELSE (k \div nCores) * WeightOfCores(nCores) + WeightOfCores(k % nCores)

LEMMA Shared ==
  ASSUME TypeOK, ~Alone
  PROVE  /\ nCores \in Nat \ {0} /\ NSlices \in Nat /\ NSlices > nCores
         /\ Fewer \in Nat \ {0} /\ Longer \in 0 .. nCores - 1
         /\ NSlices = nCores * Fewer + Longer
<1>1. nCores \in Nat \ {0} /\ NSlices \in Nat /\ NSlices > nCores
  BY Numbers, PartitionAssumption DEF TypeOK, Alone
<1>2. /\ Fewer \in Nat /\ Longer \in 0 .. nCores - 1
      /\ NSlices = nCores * Fewer + Longer
  BY <1>1, Division DEF Fewer, Longer
<1>3. Fewer # 0
  BY <1>1, <1>2
<1> QED
  BY <1>1, <1>2, <1>3

LEMMA DivisorIs ==
  ASSUME TypeOK, NEW w \in Slices
  PROVE  Divisor(w) = IF Alone THEN NSlices
                      ELSE nCores * (IF (w - 1) % nCores < Longer
                                     THEN Fewer + 1 ELSE Fewer)
<1>0. /\ NSlices \in Nat \ {0} /\ nCores \in Nat
      /\ w \in Nat /\ w - 1 \in Nat /\ w - 1 < NSlices
  BY Numbers, PartitionAssumption DEF TypeOK, Slices
<1>1. CASE Alone
  <2>1. Sharing(w) = {w}
    <3>1. CASE nCores = 0
      BY <3>1 DEF Sharing
    <3>2. CASE nCores # 0
      <4>1. NSlices <= nCores /\ nCores \in Nat \ {0}
        BY <1>0, <1>1, <3>2 DEF Alone
      <4>2. \A v \in Slices : (v - 1) % nCores = v - 1
        <5> TAKE v \in Slices
        <5>1. v - 1 \in 0 .. nCores - 1 /\ v - 1 \in Nat
          BY <1>0, <4>1 DEF Slices
        <5>2. v - 1 = nCores * 0 + (v - 1)
          BY <4>1, <5>1
        <5> QED
          BY <4>1, <5>1, <5>2, QuotientIsUnique
      <4>3. \A v \in Slices : v \in Nat /\ ((v - 1) % nCores = (w - 1) % nCores <=> v = w)
        <5> TAKE v \in Slices
        <5>1. v \in Nat /\ (v - 1) % nCores = v - 1 /\ (w - 1) % nCores = w - 1
          BY <1>0, <4>2 DEF Slices
        <5> QED
          BY <1>0, <5>1
      <4> QED
        BY <3>2, <4>3 DEF Sharing
    <3> QED
      BY <3>1, <3>2
  <2>2. Cardinality(Sharing(w)) = 1
    BY <2>1, FS_Singleton
  <2>3. TotalCapacity = NSlices
    BY <1>1 DEF TotalCapacity, Alone
  <2> QED
    BY <1>0, <1>1, <2>2, <2>3 DEF Divisor
<1>2. CASE ~Alone
  <2>1. nCores \in Nat \ {0} /\ NSlices \in Nat
    BY <1>2, Shared
  <2>2. Sharing(w) = {v \in 1 .. NSlices : (v - 1) % nCores = (w - 1) % nCores}
    BY <2>1 DEF Sharing, Slices
  <2>3. (w - 1) % nCores \in 0 .. nCores - 1
    BY <1>0, <2>1, Division
  <2>4. Cardinality(Sharing(w)) = IF (w - 1) % nCores < Longer THEN Fewer + 1 ELSE Fewer
    BY <2>1, <2>2, <2>3, WorkersOnCore DEF Longer, Fewer
  <2>5. TotalCapacity = nCores
    BY <1>2 DEF TotalCapacity, Alone
  <2>6. Cardinality(Sharing(w)) * nCores = nCores * Cardinality(Sharing(w))
    <3>1. Fewer \in Nat
      BY <1>2, Shared
    <3> QED
      BY <2>1, <2>4, <3>1
  <2> QED
    BY <1>2, <2>4, <2>5, <2>6 DEF Divisor
<1> QED
  BY <1>1, <1>2

LEMMA WeightIs ==
  ASSUME TypeOK, NEW w \in Slices
  PROVE  /\ Weight(w) \in Nat \ {0}
         /\ Unit \in Nat \ {0}
         /\ Weight(w) * Divisor(w) = Unit
<1>1. CASE Alone
  BY <1>1, Numbers, DivisorIs DEF Weight, Unit
<1>2. CASE ~Alone
  <2>1. nCores \in Nat \ {0} /\ Fewer \in Nat \ {0}
    BY <1>2, Shared
  <2>2. /\ Fewer * (nCores * (Fewer + 1)) = nCores * (Fewer * (Fewer + 1))
        /\ (Fewer + 1) * (nCores * Fewer) = nCores * (Fewer * (Fewer + 1))
        /\ nCores * (Fewer * (Fewer + 1)) \in Nat \ {0}
    <3>1. PICK a \in Nat \ {0} : a = Fewer
      BY <2>1
    <3>2. PICK c \in Nat \ {0} : c = nCores
      BY <2>1
    <3>3. /\ a * (c * (a + 1)) = c * (a * (a + 1))
          /\ (a + 1) * (c * a) = c * (a * (a + 1))
      OBVIOUS
    <3>4. a * (a + 1) \in Nat \ {0}
      OBVIOUS
    <3>5. c * (a * (a + 1)) \in Nat \ {0}
      BY <3>4
    <3> QED
      BY <3>1, <3>2, <3>3, <3>5
  <2>3. Divisor(w) = nCores * (IF (w - 1) % nCores < Longer THEN Fewer + 1 ELSE Fewer)
    BY <1>2, DivisorIs
  <2> QED
    BY <1>2, <2>1, <2>2, <2>3 DEF Weight, Unit
<1> QED
  BY <1>1, <1>2

\* The weights add up, and to Unit.
LEMMA WeightsAddUp ==
  ASSUME TypeOK
  PROVE  /\ WeightUpTo(0) = 0
         /\ WeightUpTo(NSlices) = Unit
         /\ \A w \in Slices : /\ WeightUpTo(w - 1) \in Nat
                              /\ WeightUpTo(w) = WeightUpTo(w - 1) + Weight(w)
<1>1. CASE Alone
  <2>1. \A w \in Slices : w \in Nat /\ w - 1 \in Nat /\ w = (w - 1) + 1
    BY Numbers DEF Slices
  <2> QED
    BY <1>1, <2>1 DEF WeightUpTo, Weight, Unit
<1>2. CASE ~Alone
  <2>1. PICK c \in Nat \ {0}, a \in Nat \ {0}, b \in Nat :
          c = nCores /\ a = Fewer /\ b = Longer
    BY <1>2, Shared
  <2>2. b \in 0 .. c - 1 /\ NSlices = c * a + b /\ NSlices \in Nat
    BY <1>2, <2>1, Shared
  <2>3. \A k : WeightOfCores(k) = IF k <= b THEN k * a ELSE b * a + (k - b) * (a + 1)
    BY <2>1 DEF WeightOfCores
  <2>4. \A k : WeightUpTo(k) = (k \div c) * WeightOfCores(c) + WeightOfCores(k % c)
    BY <1>2, <2>1 DEF WeightUpTo
  <2>5. \A w : Weight(w) = IF (w - 1) % c < b THEN a ELSE a + 1
    BY <1>2, <2>1 DEF Weight
  <2>6. WeightOfCores(0) = 0
    BY <2>1, <2>3
  <2>7. \A k \in 0 .. c : WeightOfCores(k) \in Nat
    <3> TAKE k \in 0 .. c
    <3>1. CASE k <= b
      <4>1. k * a \in Nat
        OBVIOUS
      <4> QED
        BY <2>3, <3>1, <4>1
    <3>2. CASE ~(k <= b)
      <4>1. k - b \in Nat
        BY <3>2
      <4>2. b * a \in Nat /\ (k - b) * (a + 1) \in Nat
        BY <4>1
      <4> QED
        BY <2>3, <3>2, <4>2
    <3> QED
      BY <3>1, <3>2
  <2>8. \A k \in 0 .. c - 1 :
          WeightOfCores(k + 1) = WeightOfCores(k) + (IF k < b THEN a ELSE a + 1)
    <3> TAKE k \in 0 .. c - 1
    <3>1. CASE k < b
      <4>1. k + 1 <= b /\ (k + 1) * a = k * a + a
        BY <3>1
      <4> QED
        BY <2>3, <3>1, <4>1
    <3>2. CASE k = b
      <4>1. /\ WeightOfCores(k) = b * a
            /\ WeightOfCores(k + 1) = b * a + (k + 1 - b) * (a + 1)
        BY <2>3, <3>2
      <4>2. (k + 1 - b) * (a + 1) = a + 1
        <5>1. k + 1 - b = 1
          BY <3>2
        <5> QED
          BY <5>1
      <4> QED
        BY <3>2, <4>1, <4>2
    <3>3. CASE k > b
      <4>1. /\ WeightOfCores(k) = b * a + (k - b) * (a + 1)
            /\ WeightOfCores(k + 1) = b * a + (k + 1 - b) * (a + 1)
        BY <2>3, <3>3
      <4>2. (k + 1 - b) * (a + 1) = (k - b) * (a + 1) + (a + 1)
        <5>1. PICK d \in Nat : d = k - b
          BY <3>3
        <5>2. k + 1 - b = d + 1
          BY <5>1
        <5>3. (d + 1) * (a + 1) = d * (a + 1) + (a + 1)
          OBVIOUS
        <5> QED
          BY <5>1, <5>2, <5>3
      <4>3. b * a \in Int /\ (k - b) * (a + 1) \in Int
        BY <3>3
      <4> QED
        BY <3>3, <4>1, <4>2, <4>3
    <3> QED
      BY <3>1, <3>2, <3>3
  <2>9. WeightUpTo(0) = 0
    <3>1. 0 = c * 0 + 0 /\ 0 \in 0 .. c - 1
      OBVIOUS
    <3>2. 0 \div c = 0 /\ 0 % c = 0
      BY <3>1, QuotientIsUnique
    <3>3. 0 * WeightOfCores(c) = 0
      BY <2>7
    <3> QED
      BY <2>4, <2>6, <3>2, <3>3
  <2>10. WeightUpTo(NSlices) = Unit
    <3>1. NSlices \div c = a /\ NSlices % c = b
      BY <2>2, QuotientIsUnique
    <3>2. WeightOfCores(b) = b * a /\ WeightOfCores(c) = b * a + (c - b) * (a + 1)
      BY <2>2, <2>3
    <3>3. a * (b * a + (c - b) * (a + 1)) + b * a = c * (a * (a + 1))
      <4>1. PICK d \in Nat : c = b + d
        <5>1. c - b \in Nat /\ c = b + (c - b)
          BY <2>2
        <5> QED
          BY <5>1
      <4>2. c - b = d
        BY <4>1
      <4>3. a * (b * a + d * (a + 1)) + b * a = (b + d) * (a * (a + 1))
        OBVIOUS
      <4> QED
        BY <4>1, <4>2, <4>3
    <3>4. Unit = c * (a * (a + 1))
      BY <1>2, <2>1 DEF Unit
    <3> QED
      BY <2>4, <3>1, <3>2, <3>3, <3>4
  <2>11. ASSUME NEW w \in Slices
         PROVE  /\ WeightUpTo(w - 1) \in Nat
                /\ WeightUpTo(w) = WeightUpTo(w - 1) + Weight(w)
    <3>1. PICK n \in Nat : n = w - 1 /\ w = n + 1
      <4>1. w - 1 \in Nat /\ w = (w - 1) + 1
        BY Numbers DEF Slices
      <4> QED
        BY <4>1
    <3>2. PICK q \in Nat, r \in 0 .. c - 1 : q = n \div c /\ r = n % c
      BY Division
    <3>3. PICK full \in Nat : full = WeightOfCores(c)
      BY <2>7
    <3>4. PICK part \in Nat : part = WeightOfCores(r)
      BY <2>7
    <3>5. WeightUpTo(n) = q * full + part /\ q * full \in Nat
      BY <2>4, <3>2, <3>3, <3>4
    <3>6. Weight(w) = IF r < b THEN a ELSE a + 1
      BY <2>5, <3>1, <3>2
    <3>7. CASE r = c - 1
      <4>1. (n + 1) \div c = q + 1 /\ (n + 1) % c = 0
        BY <3>2, <3>7, NextQuotient
      <4>2. WeightUpTo(n + 1) = (q + 1) * full + 0
        BY <2>4, <2>6, <3>3, <4>1
      <4>3. full = part + Weight(w)
        BY <2>8, <3>3, <3>4, <3>6, <3>7
      <4>4. (q + 1) * full + 0 = q * full + full
        OBVIOUS
      <4> QED
        BY <3>1, <3>5, <3>6, <4>2, <4>3, <4>4
    <3>8. CASE r # c - 1
      <4>1. (n + 1) \div c = q /\ (n + 1) % c = r + 1
        BY <3>2, <3>8, NextQuotient
      <4>2. WeightOfCores(r + 1) = part + Weight(w)
        BY <2>8, <3>4, <3>6
      <4>3. WeightUpTo(n + 1) = q * full + (part + Weight(w))
        BY <2>4, <3>3, <4>1, <4>2
      <4> QED
        BY <3>1, <3>5, <3>6, <4>3
    <3> QED
      BY <3>1, <3>5, <3>7, <3>8
  <2> QED
    BY <2>9, <2>10, <2>11
<1> QED
  BY <1>1, <1>2

\* A size is off by at most one half.
LEMMA RoundingIsClose ==
  ASSUME TypeOK, NEW w \in Slices, NEW s \in Rounded(w)
  PROVE  /\ s \in Nat
         /\ 2 * (s * Divisor(w) - nPending) <= Divisor(w)
         /\ 2 * (nPending - s * Divisor(w)) <= Divisor(w)
<1>1. PICK d \in Nat \ {0} : d = Divisor(w)
  BY DivisorIsPositive
<1>2. PICK n \in Nat : n = nPending
  BY Numbers
<1>3. PICK q \in Nat, r \in 0 .. d - 1 :
        q = n \div d /\ r = n % d /\ n = d * q + r
  BY Division
<1>4. /\ s \in {q, q + 1}
      /\ 2 * r < d => s = q
      /\ 2 * r > d => s = q + 1
  BY <1>1, <1>2, <1>3 DEF Rounded
<1>5. CASE s = q
  <2>1. s * d = d * q /\ d * q \in Nat
    BY <1>5
  <2>2. 2 * r <= d
    BY <1>4, <1>5
  <2>3. s * d - n = -r /\ n - s * d = r
    BY <1>3, <2>1
  <2>4. 2 * (s * d - n) <= d /\ 2 * (n - s * d) <= d
    BY ONLY d \in Nat, r \in Nat, <2>2, <2>3
  <2> QED
    BY <1>1, <1>2, <1>3, <1>5, <2>4
<1>6. CASE s = q + 1
  <2>1. s * d = d * q + d /\ d * q \in Nat
    BY <1>6
  <2>2. 2 * r >= d
    BY <1>4, <1>6
  <2>3. s * d - n = d - r /\ n - s * d = r - d
    BY <1>3, <2>1
  <2>4. 2 * (s * d - n) <= d /\ 2 * (n - s * d) <= d
    BY ONLY d \in Nat, r \in Nat, r < d, <2>2, <2>3
  <2>5. s \in Nat
    BY <1>3, <1>6
  <2> QED
    BY ONLY <1>1, <1>2, <2>4, <2>5
<1> QED
  BY <1>4, <1>5, <1>6

\* One more slice, one more half.
LEMMA OneMoreHalf ==
  ASSUME NEW unit \in Nat, NEW u \in Nat, NEW n \in Nat, NEW sum \in Nat,
         NEW weight \in Nat, NEW d \in Nat, NEW s \in Nat, NEW k \in Nat,
         weight * d = unit,
         2 * (unit * u - n * sum) <= k * unit,
         2 * (n * sum - unit * u) <= k * unit,
         2 * (s * d - n) <= d,
         2 * (n - s * d) <= d
  PROVE  /\ 2 * (unit * (u + s) - n * (sum + weight)) <= (k + 1) * unit
         /\ 2 * (n * (sum + weight) - unit * (u + s)) <= (k + 1) * unit
<1>1. PICK e \in Int : e = s * d - n
  OBVIOUS
<1>2. 2 * e <= d /\ -(2 * e) <= d
  <2>1. s * d \in Int /\ 2 * (n - s * d) = -(2 * e)
    BY <1>1
  <2> QED
    BY <1>1, <2>1
<1>3. weight * e = unit * s - n * weight
  <2>1. weight * (s * d - n) = s * (weight * d) - n * weight
    OBVIOUS
  <2>2. s * (weight * d) = unit * s
    OBVIOUS
  <2> QED
    BY <1>1, <2>1, <2>2
<1>4. 2 * (weight * e) <= unit /\ -(2 * (weight * e)) <= unit
  <2>1. ASSUME NEW x \in Int, x <= d PROVE weight * x <= weight * d
    <3>1. PICK y \in Nat : d = x + y
      <4>1. d - x \in Nat /\ d = x + (d - x)
        BY <2>1
      <4> QED
        BY <4>1
    <3>2. weight * d = weight * x + weight * y /\ weight * y \in Nat
      BY <3>1
    <3> QED
      BY <3>2
  <2>2. weight * (2 * e) <= weight * d
    BY <1>2, <2>1
  <2>3. -(2 * e) \in Int
    OBVIOUS
  <2>4. weight * (-(2 * e)) <= weight * d
    BY <1>2, <2>1, <2>3
  <2>5. /\ weight * (2 * e) = 2 * (weight * e)
        /\ weight * (-(2 * e)) = -(2 * (weight * e))
    OBVIOUS
  <2> QED
    BY <2>2, <2>4, <2>5
<1>5. /\ unit * (u + s) = unit * u + unit * s
      /\ n * (sum + weight) = n * sum + n * weight
      /\ (k + 1) * unit = k * unit + unit
      /\ unit * u \in Int /\ unit * s \in Int /\ n * sum \in Int
      /\ n * weight \in Int /\ k * unit \in Int /\ weight * e \in Int
  OBVIOUS
<1> QED
  BY <1>3, <1>4, <1>5

\* The total u of the first k slices is off its share by at most k halves.
Close(k, u) ==
  /\ 2 * (Unit * u - nPending * WeightUpTo(k)) <= k * Unit
  /\ 2 * (nPending * WeightUpTo(k) - Unit * u) <= k * Unit

DriftInv == /\ SplitInv
            /\ stage = "size" =>
                 \A k \in {next - 1} : \A u \in {upTo[k]} : Close(k, u)

LEMMA DriftInit == Init => DriftInv
<1> SUFFICES ASSUME Init PROVE DriftInv
  OBVIOUS
<1>1. SplitInv /\ TypeOK
  BY SplitInit DEF SplitInv
<1>2. next - 1 = 0 /\ upTo[0] = 0
  BY <1>1, Numbers DEF Init
<1>3. Unit \in Nat /\ WeightUpTo(0) = 0
  <2>1. 1 \in Slices
    BY <1>1, Numbers DEF Slices
  <2> QED
    BY <1>1, <2>1, WeightIs, WeightsAddUp
<1>4. Close(0, 0)
  <2>1. nPending \in Nat
    BY <1>1, Numbers
  <2> QED
    BY <1>3, <2>1 DEF Close
<1> QED
  BY <1>1, <1>2, <1>4 DEF DriftInv

LEMMA DriftStep == DriftInv /\ [Next]_vars => DriftInv'
<1> SUFFICES ASSUME DriftInv, [Next]_vars PROVE DriftInv'
  OBVIOUS
<1>1. SplitInv' /\ SplitInv /\ TypeOK
  BY SplitStep DEF DriftInv, SplitInv
<1>2. \A k, u : Close(k, u) => Close(k, u)'
  BY DEF Next, SizeSlice, CorrectLast, FillSlice, vars, inputs, Close, Unit, Alone,
         Fewer, Longer, WeightUpTo, WeightOfCores, NSlices
<1>3. CASE SizeSlice
  <2>1. next \in Slices
    BY <1>1, <1>3, Numbers DEF SizeSlice, TypeOK, Slices
  <2>2. PICK s \in Rounded(next) : upTo' = [upTo EXCEPT ![next] = upTo[next - 1] + s]
    BY <1>3 DEF SizeSlice
  <2>3. PICK k \in Nat : k = next - 1 /\ next = k + 1
    <3>1. next - 1 \in Nat /\ next = (next - 1) + 1
      BY <1>1, <2>1, Numbers DEF Slices
    <3> QED
      BY <3>1
  <2>4. PICK u \in Nat : u = upTo[k]
    BY <1>1, <2>1, <2>3, Numbers DEF TypeOK, Slices
  <2>5. Close(k, u)
    BY <1>3, <2>3, <2>4 DEF DriftInv, SizeSlice
  <2>6. Close(k + 1, u + s)
    <3>1. /\ s \in Nat
          /\ 2 * (s * Divisor(next) - nPending) <= Divisor(next)
          /\ 2 * (nPending - s * Divisor(next)) <= Divisor(next)
      BY <1>1, <2>1, RoundingIsClose
    <3>2. /\ WeightUpTo(k) \in Nat
          /\ WeightUpTo(k + 1) = WeightUpTo(k) + Weight(next)
      BY <1>1, <2>1, <2>3, WeightsAddUp
    <3>3. Weight(next) \in Nat /\ Unit \in Nat /\ Weight(next) * Divisor(next) = Unit
      BY <1>1, <2>1, WeightIs
    <3>4. Divisor(next) \in Nat /\ nPending \in Nat
      BY <1>1, <2>1, DivisorIsPositive, Numbers
    <3>5. /\ 2 * (Unit * (u + s) - nPending * (WeightUpTo(k) + Weight(next)))
               <= (k + 1) * Unit
          /\ 2 * (nPending * (WeightUpTo(k) + Weight(next)) - Unit * (u + s))
               <= (k + 1) * Unit
      BY <2>5, <3>1, <3>2, <3>3, <3>4, OneMoreHalf DEF Close
    <3> QED
      BY <3>2, <3>5 DEF Close
  <2>7. next' - 1 = k + 1 /\ upTo'[k + 1] = u + s
    BY <1>1, <1>3, <2>1, <2>2, <2>3, <2>4 DEF SizeSlice, TypeOK, Slices
  <2>8. Close(k + 1, u + s)'
    BY <1>2, <2>6
  <2> QED
    BY <1>1, <2>7, <2>8 DEF DriftInv
<1>4. CASE CorrectLast \/ FillSlice
  <2>1. stage' # "size"
    BY <1>4 DEF CorrectLast, FillSlice
  <2> QED
    BY <1>1, <2>1 DEF DriftInv
<1>5. CASE UNCHANGED vars
  <2>1. stage' = stage /\ next' = next /\ upTo' = upTo
    BY <1>5 DEF vars
  <2> QED
    BY <1>1, <1>2, <2>1 DEF DriftInv
<1> QED
  BY <1>3, <1>4, <1>5 DEF Next

\* The sizes never add up to more than half a chunk per slice off the pending
\* ones, however many workers share a core and however ties are rounded: what
\* the last slice is corrected by is bounded.
THEOREM RoundingDriftIsBounded == Spec => []DriftIsBounded
<1>1. ASSUME DriftInv, stage = "size", next > NSlices
      PROVE  LET drift == nPending - upTo[NSlices]
             IN  2 * drift <= NSlices /\ -2 * drift <= NSlices
  <2>1. TypeOK
    BY <1>1 DEF DriftInv, SplitInv
  <2>2. next - 1 = NSlices /\ NSlices \in Slices
    BY <1>1, <2>1, Numbers DEF TypeOK, Slices
  <2>3. PICK m \in Nat, n \in Nat, u \in Nat :
          m = NSlices /\ n = nPending /\ u = upTo[NSlices]
    BY <2>1, Numbers DEF TypeOK
  <2>4. PICK unit \in Nat \ {0} : unit = Unit
    BY <2>1, <2>2, WeightIs
  <2>5. WeightUpTo(m) = unit
    BY <2>1, <2>3, <2>4, WeightsAddUp
  <2>6. Close(m, u)
    BY <1>1, <2>2, <2>3 DEF DriftInv
  <2>7. /\ 2 * (unit * u - n * unit) <= m * unit
        /\ 2 * (n * unit - unit * u) <= m * unit
    BY <2>3, <2>4, <2>5, <2>6 DEF Close
  <2>8. ASSUME NEW x \in Int, unit * x <= m * unit
        PROVE  x <= m
    <3>1. SUFFICES ASSUME x > m PROVE FALSE
      BY <2>8
    <3>2. PICK y \in Nat : x = m + 1 + y
      <4>1. x - m - 1 \in Nat /\ x = m + 1 + (x - m - 1)
        BY <3>1
      <4> QED
        BY <4>1
    <3>3. unit * x = m * unit + unit + unit * y /\ unit * y \in Nat /\ m * unit \in Nat
      BY <3>2
    <3> QED
      BY <2>8, <3>3
  <2>9. /\ unit * (2 * (u - n)) = 2 * (unit * u - n * unit)
        /\ unit * (2 * (n - u)) = 2 * (n * unit - unit * u)
    OBVIOUS
  <2>10. 2 * (u - n) <= m /\ 2 * (n - u) <= m
    <3>1. 2 * (u - n) \in Int /\ 2 * (n - u) \in Int
      OBVIOUS
    <3> QED
      BY <2>7, <2>8, <2>9, <3>1
  <2> QED
    BY <2>3, <2>10
<1>2. DriftInv => DriftIsBounded
  BY <1>1 DEF DriftIsBounded
<1> QED
  BY <1>2, DriftInit, DriftStep, PTL DEF Spec
=============================================================================
