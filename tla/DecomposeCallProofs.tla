------------------------ MODULE DecomposeCallProofs ------------------------
(***************************************************************************)
(* What every call holds to, whatever operators, machines and programs     *)
(* share the checkpoint: each row is yielded once if the sessions cut the  *)
(* rows alike, a row with a complex coefficient never passes the check,    *)
(* a call that leaves its sizes to the code is accepted, and what is       *)
(* delivered is what was promised.                                         *)
(***************************************************************************)
EXTENDS DecomposeCall, FiniteSetTheorems, WellFoundedInduction, TLAPS

\* Sixteen, thirty-two and sixty-four bits hold each index of the dimension
\* they are chosen for: _idx_dtype and the narrow frames, up to 64 qubits.
THEOREM IndicesFit ==
  \A qubits \in 0 .. 64 : qubits <= 8 * IndexBytes(qubits)
<1> TAKE qubits \in 0 .. 64
<1>1. CASE qubits <= 16
  BY <1>1 DEF IndexBytes
<1>2. CASE qubits \in 17 .. 32
  BY <1>2 DEF IndexBytes
<1>3. CASE qubits > 32
  BY <1>3 DEF IndexBytes
<1> QED
  BY <1>1, <1>2, <1>3

-----------------------------------------------------------------------------
(* The figures that every size is computed from.                           *)

LEMMA QuotientBound ==
  ASSUME NEW a \in Nat, NEW b \in Nat \ {0}
  PROVE  a \div b \in Nat /\ b * (a \div b) <= a
OBVIOUS

LEMMA LeastNatural ==
  ASSUME NEW T, T \subseteq Nat, T # {}
  PROVE  \E x \in T : \A y \in T : x <= y
<1> DEFINE below == {ss \in Nat \X Nat : ss[1] < ss[2]}
<1>1. IsWellFoundedOn(below, Nat)
  BY NatLessThanWellFounded DEF OpToRel
<1>2. PICK x \in T : \A y \in T : <<y, x>> \notin below
  <2> HIDE DEF below
  <2> QED
    BY <1>1, WFMin
<1>3. \A y \in T : ~(y < x)
  <2> TAKE y \in T
  <2>1. <<y, x>> \in Nat \X Nat
    OBVIOUS
  <2> QED
    BY <1>2, <2>1
<1>4. \A y \in T : x <= y
  BY <1>3
<1> QED
  BY <1>4

\* As many as a set of that size has subsets.
LEMMA PowerOfTwo == \A n \in Nat : 2^n \in Nat \ {0}
<1> TAKE n \in Nat
<1>1. IsFiniteSet(1 .. n) /\ Cardinality(1 .. n) = n
  BY FS_Interval
<1>2. IsFiniteSet(SUBSET (1 .. n)) /\ Cardinality(SUBSET (1 .. n)) = 2^n
  BY <1>1, FS_SUBSET
<1>3. SUBSET (1 .. n) # {}
  OBVIOUS
<1> QED
  BY <1>2, <1>3, FS_CardinalityType, FS_EmptySet

LEMMA SecondOfTwo ==
  ASSUME NEW S, S \subseteq Nat, IsFiniteSet(S), Cardinality(S) >= 2
  PROVE  \E j \in S : Cardinality({i \in S : i < j}) = 1
<1>1. S # {}
  BY FS_EmptySet
<1>2. PICK a \in S : \A i \in S : a <= i
  BY <1>1, LeastNatural
<1>3. S \ {a} # {}
  <2>1. IsFiniteSet(S \ {a}) /\ Cardinality(S \ {a}) = Cardinality(S) - 1
    BY FS_RemoveElement
  <2>2. Cardinality(S) \in Nat
    BY FS_CardinalityType
  <2> QED
    BY <2>1, <2>2, FS_EmptySet
<1>4. PICK b \in S \ {a} : \A i \in S \ {a} : b <= i
  <2>1. S \ {a} \subseteq Nat
    OBVIOUS
  <2> QED
    BY <1>3, <2>1, LeastNatural
<1>5. {i \in S : i < b} = {a}
  <2>1. a \in Nat /\ b \in Nat /\ b # a /\ a <= b
    BY <1>2, <1>4
  <2>2. \A i \in S : i < b => i = a
    BY <1>4, <2>1
  <2>3. a < b
    BY <2>1
  <2>4. \A i : i \in {j \in S : j < b} <=> i \in {a}
    BY <2>2, <2>3
  <2> QED
    BY <2>4
<1>6. Cardinality({a}) = 1
  BY FS_Singleton
<1> QED
  BY <1>5, <1>6

LEMMA ElementType ==
  ASSUME NEW R, NEW s \in Seq(R), NEW i \in 1 .. Len(s)
  PROVE  s[i] \in R
OBVIOUS

\* A probe that sees both edges names one of the sizes it measured.
LEMMA ProbedType ==
  ASSUME NEW samples \in Seq([bytes : Nat, cycles : Nat])
  PROVE  ProbedL2(samples) \in Nat \cup {NotThere}
<1> DEFINE jumps == Jumps(samples)
           second == CHOOSE j \in jumps : Cardinality({i \in jumps : i < j}) = 1
<1>1. Len(samples) \in Nat /\ jumps \subseteq 2 .. Len(samples)
  BY DEF Jumps
<1>2. IsFiniteSet(jumps) /\ Cardinality(jumps) \in Nat
  <2>1. IsFiniteSet(2 .. Len(samples))
    BY <1>1, FS_Interval
  <2> QED
    BY <1>1, <2>1, FS_Subset, FS_CardinalityType
<1>3. CASE Len(samples) < 3 \/ Cardinality(jumps) < 2
  BY <1>3 DEF ProbedL2
<1>4. CASE ~(Len(samples) < 3 \/ Cardinality(jumps) < 2)
  <2>1. jumps \subseteq Nat
    BY <1>1
  <2>2. \E j \in jumps : Cardinality({i \in jumps : i < j}) = 1
    <3>1. Cardinality(jumps) >= 2
      BY <1>2, <1>4
    <3> HIDE DEF jumps
    <3> QED
      BY <1>2, <2>1, <3>1, SecondOfTwo
  <2>3. second \in jumps
    <3> HIDE DEF jumps
    <3> QED
      BY <2>2
  <2>4. second - 1 \in 1 .. Len(samples)
    <3> HIDE DEF jumps, second
    <3> QED
      BY <1>1, <2>3
  <2>5. samples[second - 1].bytes \in Nat
    <3> HIDE DEF second
    <3>1. PICK i \in 1 .. Len(samples) : i = second - 1
      BY <2>4
    <3>2. samples[i] \in [bytes : Nat, cycles : Nat]
      BY ElementType
    <3> QED
      BY <3>1, <3>2
  <2>6. ProbedL2(samples) = samples[second - 1].bytes
    BY <1>4 DEF ProbedL2
  <2> QED
    BY <2>5, <2>6
<1> QED
  BY <1>3, <1>4

LEMMA L2Type == \A m \in Machines : L2Figure(m) \in Nat \cup {NotThere}
<1> TAKE m \in Machines
<1>1. m.declared \in Nat \cup {NotThere}
  BY MachinesAssumption
<1>2. m.samples # NotThere => ProbedL2(m.samples) \in Nat \cup {NotThere}
  BY MachinesAssumption, ProbedType
<1> QED
  BY <1>1, <1>2 DEF L2Figure

LEMMA AvailableType == \A m \in Machines : AvailableMemory(m) \in Nat
<1> TAKE m \in Machines
<1>1. /\ m.meminfo \in Nat \cup {NotThere} /\ m.avphys \in Nat \cup {NotThere}
      /\ m.cgroup1 \in Nat \cup {NotThere} /\ m.total \in Nat \cup {NotThere}
      /\ m.cgroup2 \in Nat \cup {NotThere, Unlimited}
  BY MachinesAssumption
<1>2. CgroupLimit(m) \in Nat \cup {NotThere}
  BY <1>1 DEF CgroupLimit
<1>3. Either(Either(m.meminfo, m.avphys), Fallback) \in Nat
  BY <1>1 DEF Either, Fallback
<1> QED
  BY <1>2, <1>3 DEF AvailableMemory, Smaller

\* Each step of the floor is a chunk of at least one row.
LEMMA FloorType == \A qubits \in Nat : MinChunkSizeFloor(qubits) \in Nat \ {0}
<1> TAKE qubits \in Nat
<1>1. /\ Anchors[1] = <<9, 8>> /\ Anchors[2] = <<11, 8>>
      /\ Anchors[3] = <<14, 2>> /\ Anchors[4] = <<15, 1>> /\ Len(Anchors) = 4
  BY DEF Anchors
<1>2. CASE qubits <= 9 \/ qubits >= 15
  BY <1>1, <1>2 DEF MinChunkSizeFloor
<1>3. CASE qubits \in 10 .. 14
  <2> DEFINE Here(i) == Anchors[i][1] <= qubits /\ qubits < Anchors[i + 1][1]
             s == CHOOSE i \in 1 .. Len(Anchors) - 1 : Here(i)
             from == Anchors[s]
             to == Anchors[s + 1]
             between == Between(from[2], to[2], qubits - from[1], to[1] - from[1])
  <2>1. s \in {1, 2, 3} /\ Here(s)
    <3>1. \E i \in {1, 2, 3} : Here(i)
      BY <1>1, <1>3
    <3>2. 1 .. Len(Anchors) - 1 = {1, 2, 3}
      BY <1>1
    <3> QED
      BY <3>1, <3>2
  <2>2. MinChunkSizeFloor(qubits) = IF from[2] = to[2] THEN from[2]
                                    ELSE Greater(1, between)
    BY <1>1, <1>3 DEF MinChunkSizeFloor
  <2> HIDE DEF s
  <2>3. CASE s = 1
    BY <1>1, <2>2, <2>3
  <2>4. CASE s = 2
    <3>1. qubits \in 11 .. 13
      BY <1>1, <1>3, <2>1, <2>4
    <3>2. between \in 2 .. 8
      <4>1. between = Between(8, 2, qubits - 11, 3)
        BY <1>1, <2>4
      <4>2. Between(8, 2, 0, 3) \in 2 .. 8
        <5>1. 2^3 * 8^(3 - 0) * 2^0 = 4096
          OBVIOUS
        <5>2. (2 * 8 - 1)^3 <= 4096 /\ 4096 < (2 * 8 + 1)^3
          OBVIOUS
        <5> QED
          BY <5>1, <5>2 DEF Between
      <4>3. Between(8, 2, 1, 3) \in 2 .. 8
        <5>1. 2^3 * 8^(3 - 1) * 2^1 = 1024
          OBVIOUS
        <5>2. (2 * 5 - 1)^3 <= 1024 /\ 1024 < (2 * 5 + 1)^3
          OBVIOUS
        <5> QED
          BY <5>1, <5>2 DEF Between
      <4>4. Between(8, 2, 2, 3) \in 2 .. 8
        <5>1. 2^3 * 8^(3 - 2) * 2^2 = 256
          OBVIOUS
        <5>2. (2 * 3 - 1)^3 <= 256 /\ 256 < (2 * 3 + 1)^3
          OBVIOUS
        <5> QED
          BY <5>1, <5>2 DEF Between
      <4> QED
        BY <3>1, <4>1, <4>2, <4>3, <4>4
    <3> HIDE DEF between
    <3> QED
      BY <1>1, <2>2, <2>4, <3>2 DEF Greater
  <2>5. CASE s = 3
    <3>1. qubits = 14
      BY <1>1, <1>3, <2>1, <2>5
    <3>2. between \in 1 .. 2
      <4>1. between = Between(2, 1, 0, 1)
        BY <1>1, <2>5, <3>1
      <4>2. 2^1 * 2^(1 - 0) * 1^0 = 4
        OBVIOUS
      <4>3. (2 * 2 - 1)^1 <= 4 /\ 4 < (2 * 2 + 1)^1
        OBVIOUS
      <4>4. 2 \in 1 .. 2
        OBVIOUS
      <4>5. Between(2, 1, 0, 1) \in 1 .. 2
        BY <4>2, <4>3, <4>4 DEF Between
      <4> QED
        BY <4>1, <4>5
    <3> HIDE DEF between
    <3> QED
      BY <1>1, <2>2, <2>5, <3>2 DEF Greater
  <2> QED
    BY <2>1, <2>3, <2>4, <2>5
<1> QED
  BY <1>2, <1>3

LEMMA RowType == \A qubits \in Nat : RowBytes(qubits) \in Nat \ {0}
BY PowerOfTwo DEF RowBytes

LEMMA ResidentType == \A o \in Operators : ResidentBytes(o) \in Nat
<1> TAKE o \in Operators
<1>1. o.nnz \in Nat /\ o.qubits \in Nat
  BY OperatorsAssumption
<1>2. PICK d \in Nat : d = 2^o.qubits
  BY <1>1, PowerOfTwo
<1>3. 16 * d * d \in Nat /\ 3 * 8 * o.nnz \in Nat
  BY <1>1
<1> QED
  BY <1>1, <1>2, <1>3 DEF ResidentBytes

LEMMA RecommendedType ==
  \A o \in Operators, m \in Machines :
     RecommendedChunkSize(o.qubits, L2Figure(m)) \in Nat \ {0}
<1> TAKE o \in Operators, m \in Machines
<1> DEFINE l2 == L2Figure(m)
<1>1. l2 \in Nat \cup {NotThere} /\ o.qubits \in Nat
  BY L2Type, OperatorsAssumption
<1>2. /\ MinChunkSizeFloor(o.qubits) \in Nat \ {0}
      /\ RowBytes(o.qubits) \in Nat \ {0}
  BY <1>1, FloorType, RowType
<1> HIDE DEF l2
<1>3. l2 # NotThere => l2 \div RowBytes(o.qubits) \in Nat
  BY <1>1, <1>2, QuotientBound
<1> QED
  BY <1>1, <1>2, <1>3 DEF RecommendedChunkSize, Greater, l2

\* The sizes of an operator and of a machine are numbers, and a chunk size
\* that is recommended is positive.
LEMMA Figures ==
  /\ \A o \in Operators : /\ o.active \in Nat
                          /\ ResidentBytes(o) \in Nat
                          /\ RowBytes(o.qubits) \in Nat \ {0}
  /\ \A m \in Machines :
       /\ IsFiniteSet(m.allowed)
       /\ AvailableMemory(m) \in Nat
       /\ \A o \in Operators :
            RecommendedChunkSize(o.qubits, L2Figure(m)) \in Nat \ {0}
<1>1. \A o \in Operators : o.active \in Nat /\ o.qubits \in Nat
  BY OperatorsAssumption
<1>2. \A m \in Machines : IsFiniteSet(m.allowed)
  BY MachinesAssumption
<1> QED
  BY <1>1, <1>2, RowType, ResidentType, AvailableType, RecommendedType

-----------------------------------------------------------------------------
(* A row that is not Hermitian.                                            *)

\* A row that violates is counted for a collected result alone, and only as
\* long as the result is not handed over.
NoneIn(rows) == \A row \in bad \cap Rows : row \in rows => got[row] = 0

CleanInv ==
  /\ got \in [Rows -> Nat]
  /\ plan.check /\ ~plan.collect => NoneIn(Rows)
  /\ plan.check /\ plan.collect /\ delivered # <<>> => NoneIn(Rows)
  /\ plan.collect /\ delivered # <<>> => replay = {} /\ todo = {}

LEMMA CleanInit == Init => CleanInv
BY DEF Init, CleanInv, NoneIn, Rows

\* Counting the rows of a chunk that passed leaves the others as they were.
LEMMA CleanHand ==
  ASSUME CleanInv, NEW label, NEW rows, Hand(label, rows),
         UNCHANGED <<input, call>>, delivered = <<>> \/ ~plan.collect
  PROVE  /\ got' \in [Rows' -> Nat]
         /\ plan'.check /\ ~plan'.collect => NoneIn(Rows)'
         /\ plan'.collect => delivered' = <<>>
<1> USE DEF CleanInv, NoneIn, Rows, input, call
<1>1. CASE plan.check /\ ~plan.collect /\ rows \cap bad # {}
  BY <1>1 DEF Hand, Raise
<1>2. CASE ~(plan.check /\ ~plan.collect /\ rows \cap bad # {})
  <2>1. got' = [row \in Rows |-> IF row \in rows THEN got[row] + 1 ELSE got[row]]
    BY <1>2 DEF Hand
  <2>2. delivered' = IF plan.collect THEN delivered ELSE Append(delivered, label)
    BY <1>2 DEF Hand
  <2>3. ASSUME plan.check, ~plan.collect, NEW row \in bad \cap Rows
        PROVE  got'[row] = 0
    BY <1>2, <2>1, <2>3
  <2>4. bad' = bad /\ plan' = plan /\ Rows' = Rows
    OBVIOUS
  <2>5. got' \in [Rows -> Nat]
    BY <2>1
  <2> QED
    BY <2>2, <2>3, <2>4, <2>5
<1> QED
  BY <1>1, <1>2

LEMMA CleanStep == CleanInv /\ [Next]_vars => CleanInv'
<1> SUFFICES ASSUME CleanInv, [Next]_vars PROVE CleanInv'
  OBVIOUS
<1> USE DEF CleanInv, NoneIn, Rows
<1>1. CASE \E program \in Programs : Run(program)
  BY <1>1 DEF Run, input
<1>2. CASE Start
  BY <1>2 DEF Start, input
<1>3. CASE \E f \in replay : Replay(f)
  <2> PICK f \in replay : Replay(f)
    BY <1>3
  <2> QED
    BY CleanHand DEF Replay, call
<1>4. CASE \E k \in todo : Compute(k)
  <2> PICK k \in todo : Compute(k)
    BY <1>4
  <2>1. delivered = <<>> \/ ~plan.collect
    OBVIOUS
  <2>2. Hand(<<"new", k>>, RowsOf(plan, k)) /\ UNCHANGED <<input, call>>
    BY DEF Compute
  <2> HIDE DEF CleanInv, NoneIn, Rows
  <2>3. /\ got' \in [Rows' -> Nat]
        /\ plan'.check /\ ~plan'.collect => NoneIn(Rows)'
        /\ plan'.collect => delivered' = <<>>
    BY <2>1, <2>2, CleanHand
  <2> QED
    BY <2>3 DEF CleanInv, NoneIn, Rows
<1>5. CASE Return
  <2>1. CASE plan.check /\ \E row \in bad \cap Rows : got[row] > 0
    BY <1>5, <2>1 DEF Return, Raise, input, call
  <2>2. CASE ~(plan.check /\ \E row \in bad \cap Rows : got[row] > 0)
    <3>1. /\ got' = got /\ plan' = plan /\ bad' = bad /\ Rows' = Rows
          /\ replay' = {} /\ todo' = {}
      BY <1>5, <2>2 DEF Return, Exhausted, input, call
    <3>2. plan.check => \A row \in bad \cap Rows : got[row] = 0
      BY <2>2
    <3> QED
      BY <3>1, <3>2
  <2> QED
    BY <2>1, <2>2
<1>6. CASE Finish
  BY <1>6 DEF Finish, input, call
<1>7. CASE Close
  BY <1>7 DEF Close, input, call
<1>8. CASE UNCHANGED vars
  BY <1>8 DEF vars, input, call
<1> QED
  BY <1>1, <1>2, <1>3, <1>4, <1>5, <1>6, <1>7, <1>8 DEF Next

\* With assume_hermitian the caller is never given a row with a complex
\* coefficient, whichever session recorded it, checked or not.
THEOREM ViolatingRowNeverPasses == Spec => []ViolationNeverPasses
<1>1. CleanInv => ViolationNeverPasses
  BY DEF CleanInv, NoneIn, ViolationNeverPasses
<1> QED
  BY <1>1, CleanInit, CleanStep, PTL DEF Spec

-----------------------------------------------------------------------------
(* The workers of a pool and its chunks.                                   *)

LEMMA ProductMonotone ==
  ASSUME NEW a \in Nat, NEW b \in Nat, NEW c \in Nat, a <= b
  PROVE  a * c <= b * c
OBVIOUS

LEMMA ResolvedType ==
  ASSUME NEW m \in Machines, NEW w \in Int \cup {NotThere}
  PROVE  ResolvedWorkers(w, m) \in Int
<1>1. IsFiniteSet(m.allowed)
  BY Figures
<1>2. Cardinality(m.allowed) \in Nat
  BY <1>1, FS_CardinalityType
<1>3. ASSUME RepresentativeCpus(m) # NotThere
      PROVE  Cardinality(RepresentativeCpus(m)) \in Nat
  <2>1. RepresentativeCpus(m) \subseteq m.allowed
    BY <1>3 DEF RepresentativeCpus
  <2> QED
    BY <1>1, <2>1, FS_Subset, FS_CardinalityType
<1> QED
  BY <1>2, <1>3 DEF ResolvedWorkers

\* A program makes no other calls than those it was given.
PlannedInv ==
  /\ op \in Operators /\ machine \in Machines
  /\ script \in Seq(Requests)
  /\ outcome = "running" => request \in Requests

LEMMA PlannedInit == Init => PlannedInv
<1> SUFFICES ASSUME Init PROVE PlannedInv
  OBVIOUS
<1>1. script \in Seq(Requests)
  BY DEF Init
<1> QED
  BY <1>1 DEF Init, PlannedInv

LEMMA PlannedStep == PlannedInv /\ [Next]_vars => PlannedInv'
<1> SUFFICES ASSUME PlannedInv, [Next]_vars PROVE PlannedInv'
  OBVIOUS
<1> USE DEF PlannedInv
<1>1. CASE \E program \in Programs : Run(program)
  <2> PICK program \in Programs : Run(program)
    BY <1>1
  <2> QED
    BY ProgramsAssumption DEF Run, input, Ended
<1>2. CASE Start
  <2>1. request' \in Requests /\ script' \in Seq(Requests)
    BY <1>2 DEF Start
  <2>2. op' = op /\ machine' = machine
    BY <1>2 DEF Start, input
  <2> QED
    BY <2>1, <2>2
<1>3. ASSUME UNCHANGED <<input, call>>, script' \in {script, <<>>},
             outcome' = "running" => outcome = "running"
      PROVE  PlannedInv'
  <2>1. script' \in Seq(Requests)
    <3>1. CASE script' = script
      BY <3>1
    <3>2. CASE script' = <<>>
      BY <3>2
    <3> QED
      BY <1>3, <3>1, <3>2
  <2>2. op' = op /\ machine' = machine /\ request' = request
    BY <1>3 DEF input, call
  <2> QED
    BY <1>3, <2>1, <2>2
<1>4. CASE \E f \in replay : Replay(f)
  BY <1>3, <1>4 DEF Replay, Hand, Raise
<1>5. CASE \E k \in todo : Compute(k)
  BY <1>3, <1>5 DEF Compute, Hand, Raise
<1>6. CASE Return
  BY <1>3, <1>6 DEF Return, Raise
<1>7. CASE Finish
  BY <1>3, <1>7 DEF Finish
<1>8. CASE Close
  BY <1>3, <1>8 DEF Close
<1>9. CASE UNCHANGED vars
  BY <1>3, <1>9 DEF vars
<1> QED
  BY <1>1, <1>2, <1>4, <1>5, <1>6, <1>7, <1>8, <1>9 DEF Next

LEMMA ChunkTypes ==
  ASSUME NEW o \in Operators, NEW m \in Machines, NEW asked \in Nat \ {0}
  PROVE  ParallelChunkSize(o, asked, m) \in Int
<1> DEFINE share == AvailableMemory(m) \div asked
           free == Greater(0, share - ResidentBytes(o))
           row == RowBytes(o.qubits)
<1>1. /\ row \in Nat \ {0} /\ ResidentBytes(o) \in Nat /\ share \in Nat
      /\ RecommendedChunkSize(o.qubits, L2Figure(m)) \in Nat
  BY Figures, QuotientBound
<1>2. free \in Nat
  BY <1>1 DEF Greater
<1>3. MemoryBound(o, asked, m) = Greater(1, free \div row)
  BY DEF MemoryBound, PerWorkerBudget
<1> HIDE DEF free, row, share
<1>4. free \div row \in Nat
  BY <1>1, <1>2, QuotientBound
<1> QED
  BY <1>1, <1>3, <1>4 DEF ParallelChunkSize, Greater, Smaller

-----------------------------------------------------------------------------
(* The file of the checkpoint.                                             *)

LEMMA Appended ==
  ASSUME NEW S, NEW s \in Seq(S), NEW e
  PROVE  /\ {Append(s, e)[i] : i \in 1 .. Len(Append(s, e))}
              = {s[i] : i \in 1 .. Len(s)} \cup {e}
         /\ Append(s, e) \in Seq(S \cup {e})
<1>1. /\ Len(s) \in Nat /\ Len(Append(s, e)) = Len(s) + 1
      /\ Append(s, e)[Len(s) + 1] = e
      /\ \A i \in 1 .. Len(s) : Append(s, e)[i] = s[i]
  OBVIOUS
<1>2. 1 .. Len(s) + 1 = (1 .. Len(s)) \cup {Len(s) + 1}
  BY <1>1
<1>3. s \in Seq(S \cup {e})
  OBVIOUS
<1>4. Append(s, e) \in Seq(S \cup {e})
  BY <1>3
<1> QED
  BY <1>1, <1>2, <1>4

LEMMA FramesKept == UNCHANGED data => Frames' = Frames
BY DEF Frames

LEMMA FramesAppended ==
  ASSUME NEW S, data \in Seq(S), NEW f, data' = Append(data, f)
  PROVE  /\ Frames' = Frames \cup {f}
         /\ data' \in Seq(S \cup {f})
<1>1. Frames' = {Append(data, f)[i] : i \in 1 .. Len(Append(data, f))}
  BY DEF Frames
<1> QED
  BY <1>1, Appended DEF Frames

\* No frame is replayed but recorded ones, and if all are recorded, each is.
LEMMA ReplayableIs ==
  ASSUME NEW p
  PROVE  /\ Replayable(p) \subseteq {f \in Frames : f.index \in Completed(p)}
         /\ (\A f \in Frames : f.index \in Completed(p)) => Replayable(p) = Frames
<1> DEFINE Vouched(n) == \A j \in 1 .. n : data[j].index \in Completed(p)
<1>1. Replayable(p) = {data[i] : i \in {n \in 1 .. Len(data) : Vouched(n)}}
  BY DEF Replayable
<1>2. ASSUME NEW n \in 1 .. Len(data), Vouched(n)
      PROVE  data[n] \in Frames /\ data[n].index \in Completed(p)
  <2>1. n \in 1 .. n
    OBVIOUS
  <2> QED
    BY <1>2, <2>1 DEF Frames
<1>3. ASSUME \A f \in Frames : f.index \in Completed(p), NEW n \in 1 .. Len(data)
      PROVE  Vouched(n)
  <2>1. \A j \in 1 .. n : j \in 1 .. Len(data)
    OBVIOUS
  <2> QED
    BY <1>3, <2>1 DEF Frames
<1> HIDE DEF Vouched
<1>4. Replayable(p) \subseteq {f \in Frames : f.index \in Completed(p)}
  BY <1>1, <1>2
<1>5. ASSUME \A f \in Frames : f.index \in Completed(p)
      PROVE  Replayable(p) = Frames
  BY <1>1, <1>3, <1>5 DEF Frames
<1> QED
  BY <1>4, <1>5

-----------------------------------------------------------------------------
(* Every row once.                                                         *)

LEMMA PlanShape ==
  ASSUME NEW r \in Requests, NEW m \in Machines, op \in Operators,
         Plan(r, m).path # "refused"
  PROVE  /\ Plan(r, m).path \in {"whole", "sequential", "pool"}
         /\ Plan(r, m).chunk \in Int
         /\ Plan(r, m).ckpt \in BOOLEAN
         /\ Plan(r, m).ckpt => Plan(r, m).path # "whole"
<1> DEFINE Shape(p) == p.path # "refused" =>
                         /\ p.path \in {"whole", "sequential", "pool"}
                         /\ p.chunk \in Int
                         /\ p.ckpt \in BOOLEAN
                         /\ p.ckpt => p.path # "whole"
<1>1. /\ r.ckpt \in BOOLEAN /\ r.chunk \in Int \cup {NotThere}
      /\ r.workers \in Int \cup {NotThere}
      /\ r.entry = "iter" => r.chunk # NotThere
      /\ r.entry \in {"terms", "coefficients", "iter", "auto", "dicts", "arrays"}
  BY DEF Requests
<1>2. /\ op.active \in Nat
      /\ RecommendedChunkSize(op.qubits, L2Figure(m)) \in Nat
  BY Figures
<1>3. ASSUME NEW c \in Int PROVE Shape(Sequential(r, c))
  BY <1>1, <1>3 DEF Sequential, Refused, Path
<1>4. Shape(Whole(r))
  BY <1>2 DEF Whole, Path
<1>5. Shape(Collected(r)) /\ Shape(DecomposeAuto(r, m))
  BY <1>1, <1>2, <1>3, <1>4 DEF Collected, DecomposeAuto
<1>6. Shape(Pool(r, m))
  <2> DEFINE asked == ResolvedWorkers(r.workers, m)
             chunk == ChunkSize(r, asked, m)
             workers == CappedWorkers(asked, op.active, chunk)
  <2>1. CASE BadArguments(r, asked) \/ chunk = 0
    BY <2>1 DEF Pool, Refused, Path
  <2>2. CASE ~BadArguments(r, asked) /\ chunk # 0
    <3>1. chunk \in Int
      <4>1. CASE r.chunk # NotThere
        BY <1>1, <4>1 DEF ChunkSize
      <4>2. CASE r.chunk = NotThere
        <5>1. asked \in Nat \ {0}
          <6>1. asked \in Int
            BY <1>1, ResolvedType
          <6> QED
            BY <2>2, <4>2, <6>1 DEF BadArguments
        <5> HIDE DEF asked
        <5>2. ParallelChunkSize(op, asked, m) \in Int
          BY <5>1, ChunkTypes
        <5> QED
          BY <4>2, <5>2 DEF ChunkSize
      <4> QED
        BY <4>1, <4>2
    <3>2. CASE r.entry = "arrays" /\ workers = 1 /\ ~r.ckpt
      <4>1. Pool(r, m) = Sequential(r, chunk)
        BY <2>2, <3>2 DEF Pool
      <4> HIDE DEF chunk, Shape
      <4> QED
        BY <1>3, <3>1, <4>1
    <3>3. CASE ~(r.entry = "arrays" /\ workers = 1 /\ ~r.ckpt)
      <4>1. Pool(r, m) = [Path("pool", r, chunk, workers) EXCEPT !.drain = Drain(r, m)]
        BY <2>2, <3>3 DEF Pool
      <4> HIDE DEF chunk, workers
      <4> QED
        BY <1>1, <3>1, <4>1 DEF Path
    <3> QED
      BY <3>2, <3>3
  <2> QED
    BY <2>1, <2>2
<1>7. CASE r.entry \in {"terms", "coefficients"}
  BY <1>5, <1>7 DEF Plan
<1>8. CASE r.entry = "iter"
  BY <1>1, <1>3, <1>8 DEF Plan
<1>9. CASE r.entry = "auto"
  BY <1>5, <1>9 DEF Plan
<1>10. CASE r.entry \notin {"terms", "coefficients", "iter", "auto"}
  BY <1>6, <1>10 DEF Plan
<1> QED
  BY <1>7, <1>8, <1>9, <1>10

\* The chunk of an active row is among those of the call.
LEMMA RowHasIndex ==
  ASSUME NEW active \in Nat, NEW c \in Nat \ {0}, NEW row \in 0 .. active - 1
  PROVE  row \div c \in 0 .. CeilDiv(active, c) - 1
<1> DEFINE q == row \div c
           n == (active + c - 1) \div c
<1>1. q \in Nat /\ c * q <= row
  BY QuotientBound
<1>2. active + c - 1 \in Nat /\ n \in Nat
  OBVIOUS
<1>3. active + c - 1 < c * n + c
  BY <1>2
<1>4. c * q < c * n
  <2>1. c * q \in Int /\ c * n \in Int
    BY <1>1, <1>2
  <2> HIDE DEF q, n
  <2> QED
    BY <1>1, <1>3, <2>1
<1>5. q < n
  <2> HIDE DEF q, n
  <2>1. CASE n <= q
    <3>1. n * c <= q * c
      BY <1>1, <1>2, <2>1, ProductMonotone
    <3>2. n * c = c * n /\ q * c = c * q /\ c * n \in Int /\ c * q \in Int
      BY <1>1, <1>2
    <3> QED
      BY <1>4, <3>1, <3>2
  <2> QED
    BY <1>1, <1>2, <2>1
<1> QED
  BY <1>1, <1>2, <1>5 DEF CeilDiv, FloorDiv

\* The frame that a session on this path and with these chunks writes.
Cut(path, chunk, k) ==
  [by |-> path, index |-> k, rows |-> {row \in Rows : row \div chunk = k}]

Kinds == {"sequential", "pool"}

\* Each frame was cut by one of the calls on the path, frames and records go
\* together, and a sequential session has recorded a prefix of its chunks.
FramesHaveCalls == \A f \in Frames : \E u \in used : f = Cut(u[2], u[3], f.index)
RecordsHaveFrames ==
  \A path \in Kinds : \A k \in progress[path] :
     \E f \in Frames : f.by = path /\ f.index = k
FramesAreRecorded ==
  \A f \in Frames : f.by \in Kinds /\ f.index \in progress[f.by]
RecordsAreAPrefix ==
  \A k \in progress["sequential"] : 0 .. k \subseteq progress["sequential"]

FileInv == /\ progress \in [Kinds -> SUBSET Nat]
           /\ \E S : data \in Seq(S)
           /\ FramesAreRecorded
           /\ FramesHaveCalls
           /\ RecordsHaveFrames
           /\ RecordsAreAPrefix

\* The sessions on the path cut the rows as this call does.
Coherent == plan.ckpt => \A u \in used : u[2] = plan.path /\ u[3] = plan.chunk

ShapeInv ==
  /\ plan.path \in {"whole", "sequential", "pool"}
  /\ plan.chunk \in Int
  /\ plan.ckpt \in BOOLEAN
  /\ plan.ckpt => plan.path \in Kinds
  /\ plan.ckpt => \E u \in used : u[2] = plan.path /\ u[3] = plan.chunk

\* What is still to compute was not recorded, what is still to replay was.
LeftInv ==
  /\ todo \subseteq Indices(plan)
  /\ plan.ckpt => todo = Indices(plan) \ progress[plan.path]
  /\ \A f \in replay : f \in Frames /\ plan.ckpt /\ f.index \in progress[plan.path]

\* A row is counted once its chunk is no longer due.
CountInv ==
  \A row \in Rows :
    got[row] = IF \/ row \div plan.chunk \in todo
                  \/ \E f \in replay : row \in f.rows
               THEN 0 ELSE 1

CallInv == /\ ShapeInv
           /\ LeftInv
           /\ Coherent /\ plan.chunk > 0 => CountInv

RowsInv == /\ PlannedInv
           /\ FileInv
           /\ outcome \in {"running", "complete"} => CallInv
           /\ outcome = "complete" => Exhausted

LEMMA RowsInit == Init => RowsInv
<1> SUFFICES ASSUME Init PROVE RowsInv
  OBVIOUS
<1>1. progress \in [Kinds -> SUBSET Nat] /\ \A path \in Kinds : progress[path] = {}
  BY DEF Init, Kinds
<1>2. data = <<>> /\ outcome = "closed"
  BY DEF Init
<1>3. Frames = {} /\ data \in Seq({})
  BY <1>2 DEF Frames
<1> QED
  BY <1>1, <1>2, <1>3, PlannedInit
     DEF RowsInv, FileInv, FramesHaveCalls, RecordsHaveFrames, FramesAreRecorded,
         RecordsAreAPrefix, Kinds

\* The frames of coherent sessions are those of this call.
LEMMA CoherentFrame ==
  ASSUME FramesHaveCalls, Coherent, plan.ckpt, NEW f \in Frames
  PROVE  f = Cut(plan.path, plan.chunk, f.index)
BY DEF FramesHaveCalls, Coherent

LEMMA CutFields ==
  ASSUME NEW path, NEW chunk, NEW k
  PROVE  /\ Cut(path, chunk, k).by = path
         /\ Cut(path, chunk, k).index = k
         /\ Cut(path, chunk, k).rows = {row \in Rows : row \div chunk = k}
BY DEF Cut

\* A chunk that was due is counted, and no other.
LEMMA CountOnce ==
  ASSUME CountInv, NEW rows, NEW label, Hand(label, rows), outcome' = "running",
         UNCHANGED <<op, bad, plan>>, outcome = "running",
         \A row \in Rows :
            LET due == \/ row \div plan.chunk \in todo
                       \/ \E f \in replay : row \in f.rows
                after == \/ row \div plan.chunk \in todo'
                         \/ \E f \in replay' : row \in f.rows
            IN  /\ row \in rows => due /\ ~after
                /\ row \notin rows => (due <=> after)
  PROVE  CountInv'
<1>1. got' = [row \in Rows |-> IF row \in rows THEN got[row] + 1 ELSE got[row]]
  BY DEF Hand, Raise
<1>2. Rows' = Rows /\ plan' = plan
  BY DEF Rows
<1> SUFFICES ASSUME NEW row \in Rows
             PROVE  got'[row] = IF \/ row \div plan.chunk \in todo'
                                   \/ \E f \in replay' : row \in f.rows
                                THEN 0 ELSE 1
  BY <1>2 DEF CountInv
<1>3. CASE row \in rows
  BY <1>1, <1>3 DEF CountInv
<1>4. CASE row \notin rows
  BY <1>1, <1>4 DEF CountInv
<1> QED
  BY <1>3, <1>4

LEMMA FileKept ==
  ASSUME FileInv, UNCHANGED <<op, data, progress>>, used \subseteq used'
  PROVE  FileInv'
<1>1. Rows' = Rows /\ Frames' = Frames
  BY FramesKept DEF Rows
<1>2. FramesHaveCalls'
  BY <1>1 DEF FileInv, FramesHaveCalls, Cut
<1> QED
  BY <1>1, <1>2
     DEF FileInv, RecordsHaveFrames, FramesAreRecorded, RecordsAreAPrefix

LEMMA CompletedIs ==
  ASSUME FileInv, NEW p, p.ckpt \in BOOLEAN, p.ckpt => p.path \in Kinds
  PROVE  Completed(p) = IF p.ckpt THEN progress[p.path] ELSE {}
<1>1. CASE ~p.ckpt
  BY <1>1 DEF Completed
<1>2. CASE p.ckpt /\ p.path = "pool"
  BY <1>2 DEF Completed
<1>3. CASE p.ckpt /\ p.path = "sequential"
  <2> DEFINE done == progress["sequential"]
  <2>1. Completed(p) = UNION {0 .. j : j \in done}
    BY <1>3 DEF Completed
  <2>2. \A j \in done : j \in Nat /\ 0 .. j \subseteq done
    BY DEF FileInv, RecordsAreAPrefix, Kinds
  <2>3. UNION {0 .. j : j \in done} \subseteq done
    BY <2>2
  <2>4. \A j \in done : j \in 0 .. j
    BY <2>2
  <2>5. done \subseteq UNION {0 .. j : j \in done}
    BY <2>4
  <2> QED
    BY <1>3, <2>1, <2>3, <2>5
<1> QED
  BY <1>1, <1>2, <1>3 DEF Kinds

LEMMA RowsStart ==
  ASSUME RowsInv, Start, PlannedInv'
  PROVE  RowsInv'
<1>1. /\ op' = op /\ data' = data /\ progress' = progress /\ machine' = machine
      /\ plan' = Plan(request', machine)
      /\ used \subseteq used'
      /\ got' = [row \in Rows |-> 0]
  BY DEF Start, input, file
<1>2. FileInv'
  BY <1>1, FileKept DEF RowsInv
<1>3. CASE plan'.path = "refused"
  BY <1>2, <1>3 DEF Start, RowsInv
<1>4. CASE plan'.path # "refused"
  <2>1. /\ outcome' = "running"
        /\ replay' = Replayable(plan') /\ todo' = Pending(plan')
        /\ plan'.ckpt => used' = used \cup {<<request', plan'.path, plan'.chunk>>}
    BY <1>4 DEF Start
  <2>2. /\ plan'.path \in {"whole", "sequential", "pool"}
        /\ plan'.chunk \in Int
        /\ plan'.ckpt \in BOOLEAN
        /\ plan'.ckpt => plan'.path \in Kinds
    <3>1. request' \in Requests /\ machine \in Machines /\ op \in Operators
      BY DEF Start, RowsInv, PlannedInv
    <3> QED
      BY <1>1, <1>4, <3>1, PlanShape DEF Kinds
  <2>3. ShapeInv'
    <3>1. ASSUME plan'.ckpt
          PROVE  \E u \in used' : u[2] = plan'.path /\ u[3] = plan'.chunk
      <4> DEFINE u == <<request', plan'.path, plan'.chunk>>
      <4>1. u \in used' /\ u[2] = plan'.path /\ u[3] = plan'.chunk
        BY <2>1, <3>1
      <4> QED
        BY <4>1
    <3> QED
      BY <2>2, <3>1 DEF ShapeInv
  <2>4. Completed(plan') = IF plan'.ckpt THEN progress[plan'.path] ELSE {}
    BY <2>2, CompletedIs DEF RowsInv
  <2>5. Indices(plan)' = Indices(plan')
    BY <1>1 DEF Indices
  <2>6. LeftInv'
    <3>1. Frames' = Frames
      BY <1>1, FramesKept
    <3>2. \A f \in replay' : f \in Frames /\ f.index \in Completed(plan')
      BY <2>1, ReplayableIs
    <3> QED
      BY <1>1, <2>1, <2>2, <2>4, <2>5, <3>1, <3>2 DEF LeftInv, Pending
  <2>7. ASSUME Coherent', plan'.chunk > 0
        PROVE  CountInv'
    <3>1. Rows' = Rows
      BY <1>1 DEF Rows
    <3> SUFFICES ASSUME NEW row \in Rows
                 PROVE  \/ row \div plan'.chunk \in todo'
                        \/ \E f \in replay' : row \in f.rows
      BY <1>1, <3>1 DEF CountInv
    <3> DEFINE k == row \div plan'.chunk
    <3>2. k \in Indices(plan')
      <4>1. op.active \in Nat
        BY Figures DEF RowsInv, PlannedInv
      <4>2. plan'.chunk \in Nat \ {0}
        BY <2>2, <2>7
      <4>3. row \in 0 .. op.active - 1
        BY DEF Rows
      <4>4. k \in 0 .. CeilDiv(op.active, plan'.chunk) - 1
        BY <4>1, <4>2, <4>3, RowHasIndex
      <4> HIDE DEF k
      <4> QED
        BY <2>2, <4>2, <4>4 DEF Indices
    <3>3. CASE k \in todo'
      BY <3>3
    <3>4. CASE k \notin todo'
      <4>1. plan'.ckpt /\ k \in progress[plan'.path]
        BY <2>1, <2>2, <2>4, <3>2, <3>4 DEF Pending
      <4>2. PICK f \in Frames : f.by = plan'.path /\ f.index = k
        BY <2>2, <4>1 DEF RowsInv, FileInv, RecordsHaveFrames
      <4>3. f \in replay'
        <5>1. ASSUME NEW g \in Frames
              PROVE  g.index \in Completed(plan')
          <6>1. PICK u \in used : g = Cut(u[2], u[3], g.index)
            BY DEF RowsInv, FileInv, FramesHaveCalls
          <6>2. g.by = plan'.path
            BY <1>1, <2>7, <4>1, <6>1, CutFields DEF Coherent
          <6> QED
            BY <2>4, <4>1, <6>2 DEF RowsInv, FileInv, FramesAreRecorded
        <5> QED
          BY <2>1, <4>2, <5>1, ReplayableIs
      <4>4. PICK u \in used : f = Cut(u[2], u[3], f.index)
        BY <4>2 DEF RowsInv, FileInv, FramesHaveCalls
      <4>5. u[3] = plan'.chunk
        BY <1>1, <2>7, <4>1, <4>4 DEF Coherent
      <4>6. f.rows = {x \in Rows : x \div plan'.chunk = k}
        BY <4>2, <4>4, <4>5, CutFields
      <4> QED
        BY <4>3, <4>6
    <3> QED
      BY <3>3, <3>4
  <2> QED
    BY <1>2, <2>1, <2>3, <2>6, <2>7 DEF RowsInv, CallInv
<1> QED
  BY <1>3, <1>4

LEMMA RowsReplay ==
  ASSUME RowsInv, NEW f \in replay, Replay(f), PlannedInv'
  PROVE  RowsInv'
<1>1. /\ UNCHANGED <<op, bad, plan, data, progress, used, todo>>
      /\ replay' = replay \ {f}
      /\ outcome = "running"
      /\ Hand(<<f.by, f.index>>, f.rows)
  BY DEF Replay, input, call, file
<1>2. FileInv'
  BY <1>1, FileKept DEF RowsInv
<1>3. CallInv
  BY <1>1 DEF RowsInv
<1>4. CASE outcome' # "running"
  <2>1. outcome' = "raised"
    BY <1>1, <1>4 DEF Hand, Raise
  <2> QED
    BY <1>2, <2>1 DEF RowsInv
<1>5. CASE outcome' = "running"
  <2>1. ShapeInv'
    BY <1>1, <1>3 DEF CallInv, ShapeInv
  <2>2. LeftInv'
    <3>1. Frames' = Frames
      BY <1>1, FramesKept
    <3> QED
      BY <1>1, <1>3, <3>1 DEF CallInv, LeftInv, Indices
  <2>3. ASSUME Coherent', plan'.chunk > 0
        PROVE  CountInv'
    <3>1. Coherent /\ CountInv
      BY <1>1, <1>3, <2>3 DEF Coherent, CallInv
    <3>2. /\ \A g \in replay : g \in Frames /\ plan.ckpt
          /\ f.index \notin todo
      BY <1>3 DEF CallInv, LeftInv
    <3>3. \A g \in replay : g = Cut(plan.path, plan.chunk, g.index)
      BY <3>1, <3>2, CoherentFrame DEF RowsInv, FileInv
    <3>4. \A g \in replay : g.rows = {row \in Rows : row \div plan.chunk = g.index}
      BY <3>3, CutFields
    <3>5. ASSUME NEW row \in Rows, row \in f.rows
          PROVE  /\ row \div plan.chunk \notin todo
                 /\ ~ \E g \in replay' : row \in g.rows
      <4>1. row \div plan.chunk = f.index
        BY <3>4, <3>5
      <4>2. ASSUME NEW g \in replay, row \in g.rows
            PROVE  g = f
        <5>1. g.index = f.index
          BY <3>4, <4>1, <4>2
        <5> QED
          BY <3>3, <5>1
      <4> QED
        BY <1>1, <3>2, <4>1, <4>2
    <3>6. ASSUME NEW row \in Rows, row \notin f.rows
          PROVE  (\E g \in replay : row \in g.rows)
                   <=> (\E g \in replay' : row \in g.rows)
      BY <1>1, <3>6
    <3> QED
      BY <1>1, <1>5, <3>1, <3>5, <3>6, CountOnce
  <2> QED
    BY <1>2, <1>5, <2>1, <2>2, <2>3 DEF RowsInv, CallInv
<1> QED
  BY <1>4, <1>5

\* The frame and the record of a chunk keep the file in order.
LEMMA FileRecorded ==
  ASSUME FileInv, ShapeInv, LeftInv, plan.ckpt, NEW k \in todo, Recorded(k),
         plan.path = "pool" \/ \A j \in todo : k <= j,
         op \in Operators, UNCHANGED <<op, used>>
  PROVE  FileInv'
<1> DEFINE new == Frame(plan, k)
<1>1. /\ Frames' = Frames \cup {new} /\ \E S : data' \in Seq(S)
      /\ progress' = [progress EXCEPT ![plan.path] = @ \cup {k}]
      /\ Rows' = Rows
  <2>1. /\ data' = Append(data, new)
        /\ progress' = [progress EXCEPT ![plan.path] = @ \cup {k}]
        /\ Rows' = Rows
    BY DEF Recorded, Rows
  <2>2. PICK S : data \in Seq(S)
    BY DEF FileInv
  <2> HIDE DEF new
  <2>3. Frames' = Frames \cup {new} /\ data' \in Seq(S \cup {new})
    BY <2>1, <2>2, FramesAppended
  <2> QED
    BY <2>1, <2>3
<1>2. new = Cut(plan.path, plan.chunk, k)
  BY DEF Frame, RowsOf, Cut
<1>3. new.by = plan.path /\ new.index = k
  BY <1>2, CutFields
<1>4. k \in Nat /\ 0 .. k \subseteq Indices(plan)
  <2>1. k \in Indices(plan)
    BY DEF LeftInv
  <2>2. PICK n \in Int : Indices(plan) = 0 .. n
    <3>1. plan.chunk \in Nat \ {0}
      BY <2>1 DEF Indices, ShapeInv
    <3>2. CeilDiv(op.active, plan.chunk) - 1 \in Int
      BY <3>1, Figures DEF CeilDiv, FloorDiv
    <3> QED
      BY <3>1, <3>2 DEF Indices
  <2> QED
    BY <2>1, <2>2
<1>5. /\ plan.path \in Kinds
      /\ progress \in [Kinds -> SUBSET Nat]
      /\ progress'[plan.path] = progress[plan.path] \cup {k}
      /\ \A path \in Kinds : path # plan.path => progress'[path] = progress[path]
  BY <1>1 DEF ShapeInv, FileInv
<1>6. progress' \in [Kinds -> SUBSET Nat]
  BY <1>1, <1>4, <1>5
<1>7. FramesHaveCalls'
  <2>1. \A x, y, z : Cut(x, y, z)' = Cut(x, y, z)
    BY <1>1 DEF Cut
  <2> SUFFICES ASSUME NEW f \in Frames'
               PROVE  \E u \in used : f = Cut(u[2], u[3], f.index)
    BY <2>1 DEF FramesHaveCalls
  <2>2. CASE f \in Frames
    BY <2>2 DEF FileInv, FramesHaveCalls
  <2>3. CASE f = new
    BY <1>2, <1>3, <2>3 DEF ShapeInv
  <2> QED
    BY <1>1, <2>2, <2>3
<1>8. RecordsHaveFrames'
  <2> SUFFICES ASSUME NEW path \in Kinds, NEW j \in progress'[path]
               PROVE  \E f \in Frames' : f.by = path /\ f.index = j
    BY DEF RecordsHaveFrames
  <2>1. CASE path = plan.path /\ j = k
    BY <1>1, <1>3, <2>1
  <2>2. CASE j \in progress[path]
    BY <1>1, <2>2 DEF FileInv, RecordsHaveFrames
  <2> QED
    BY <1>5, <2>1, <2>2
<1>9. RecordsAreAPrefix'
  <2>1. CASE plan.path = "pool"
    <3>1. progress'["sequential"] = progress["sequential"]
      BY <1>5, <2>1 DEF Kinds
    <3> QED
      BY <3>1 DEF FileInv, RecordsAreAPrefix
  <2>2. CASE plan.path = "sequential"
    <3>1. ASSUME NEW j \in 0 .. k, j # k
          PROVE  j \in progress["sequential"]
      <4>1. j \notin todo
        BY <1>4, <2>2, <3>1
      <4> QED
        BY <1>4, <2>2, <3>1, <4>1 DEF LeftInv
    <3>2. 0 .. k \subseteq progress'["sequential"]
      BY <1>5, <2>2, <3>1
    <3> QED
      BY <1>5, <2>2, <3>2 DEF FileInv, RecordsAreAPrefix
  <2> QED
    BY <1>5, <2>1, <2>2 DEF Kinds
<1>10. FramesAreRecorded'
  <2> HIDE DEF new
  <2> SUFFICES ASSUME NEW f \in Frames'
               PROVE  f.by \in Kinds /\ f.index \in progress'[f.by]
    BY DEF FramesAreRecorded
  <2>1. CASE f = new
    BY <1>3, <1>5, <2>1
  <2>2. CASE f \in Frames
    BY <1>5, <2>2 DEF FileInv, FramesAreRecorded
  <2> QED
    BY <1>1, <2>1, <2>2
<1> QED
  BY <1>1, <1>6, <1>7, <1>8, <1>9, <1>10 DEF FileInv

LEMMA RowsCompute ==
  ASSUME RowsInv, NEW k \in todo, Compute(k), PlannedInv'
  PROVE  RowsInv'
<1>1. /\ UNCHANGED <<op, bad, plan, used, replay>>
      /\ replay = {} /\ outcome = "running"
      /\ plan.path = "pool" \/ \A j \in todo : k <= j
      /\ todo' = todo \ {k}
      /\ IF plan.ckpt THEN Recorded(k) ELSE UNCHANGED file
      /\ Hand(<<"new", k>>, RowsOf(plan, k))
  BY DEF Compute, input, call
<1>2. CallInv
  BY <1>1 DEF RowsInv
<1>3. FileInv'
  <2>1. CASE plan.ckpt
    BY <1>1, <1>2, <2>1, FileRecorded DEF RowsInv, CallInv, PlannedInv
  <2>2. CASE ~plan.ckpt
    BY <1>1, <2>2, FileKept DEF RowsInv, file
  <2> QED
    BY <2>1, <2>2
<1>4. CASE outcome' # "running"
  <2>1. outcome' = "raised"
    BY <1>1, <1>4 DEF Hand, Raise
  <2> QED
    BY <1>3, <2>1 DEF RowsInv
<1>5. CASE outcome' = "running"
  <2>1. ShapeInv'
    BY <1>1, <1>2 DEF CallInv, ShapeInv
  <2>2. LeftInv'
    <3>1. Indices(plan)' = Indices(plan)
      BY <1>1 DEF Indices
    <3>2. CASE plan.ckpt
      <4>1. progress'[plan.path] = progress[plan.path] \cup {k}
        BY <1>1, <1>2, <3>2
           DEF Recorded, CallInv, ShapeInv, RowsInv, FileInv
      <4> QED
        BY <1>1, <1>2, <3>1, <3>2, <4>1 DEF CallInv, LeftInv
    <3>3. CASE ~plan.ckpt
      BY <1>1, <1>2, <3>1, <3>3 DEF CallInv, LeftInv
    <3> QED
      BY <3>2, <3>3
  <2>3. ASSUME Coherent', plan'.chunk > 0
        PROVE  CountInv'
    <3>1. CountInv
      BY <1>1, <1>2, <2>3 DEF Coherent, CallInv
    <3>2. \A row \in Rows : row \in RowsOf(plan, k) <=> row \div plan.chunk = k
      BY DEF RowsOf
    <3> QED
      BY <1>1, <1>5, <3>1, <3>2, CountOnce
  <2> QED
    BY <1>3, <1>5, <2>1, <2>2, <2>3 DEF RowsInv, CallInv
<1> QED
  BY <1>4, <1>5

LEMMA RowsStep == RowsInv /\ [Next]_vars => RowsInv'
<1> SUFFICES ASSUME RowsInv, [Next]_vars PROVE RowsInv'
  OBVIOUS
<1>1. PlannedInv'
  BY PlannedStep DEF RowsInv
<1>2. ASSUME UNCHANGED <<op, plan, data, progress, used, todo, replay, got>>,
             \/ outcome' = outcome
             \/ outcome' \in {"closed", "raised"}
             \/ outcome' = "complete" /\ outcome = "running" /\ Exhausted
      PROVE  RowsInv'
  <2>1. FileInv'
    BY <1>2, FileKept DEF RowsInv
  <2>2. CallInv => CallInv'
    <3>1. Frames' = Frames
      BY <1>2, FramesKept
    <3> QED
      BY <1>2, <3>1
         DEF CallInv, ShapeInv, LeftInv, CountInv, Coherent, Indices, Rows
  <2>3. Exhausted => Exhausted'
    BY <1>2 DEF Exhausted
  <2> QED
    BY <1>1, <1>2, <2>1, <2>2, <2>3 DEF RowsInv
<1>3. CASE \E program \in Programs : Run(program)
  BY <1>2, <1>3 DEF Run, input, file
<1>4. CASE Start
  BY <1>1, <1>4, RowsStart
<1>5. CASE \E f \in replay : Replay(f)
  BY <1>1, <1>5, RowsReplay
<1>6. CASE \E k \in todo : Compute(k)
  BY <1>1, <1>6, RowsCompute
<1>7. CASE Return
  BY <1>2, <1>7 DEF Return, Raise, input, call, file
<1>8. CASE Finish
  BY <1>2, <1>8 DEF Finish, input, call, file
<1>9. CASE Close
  BY <1>2, <1>9 DEF Close, input, call, file
<1>10. CASE UNCHANGED vars
  BY <1>2, <1>10 DEF vars, input, call, file
<1> QED
  BY <1>3, <1>4, <1>5, <1>6, <1>7, <1>8, <1>9, <1>10 DEF Next

\* A call that ends normally has yielded each active row exactly once, however
\* many sessions, of either kind, it took and wherever each of them stopped, if
\* they cut the rows alike.
THEOREM RowsComeOnce == Spec => []EveryRowOnce
<1>1. RowsInv => EveryRowOnce
  BY DEF RowsInv, CallInv, Coherent, CountInv, Exhausted, EveryRowOnce
<1> QED
  BY <1>1, RowsInit, RowsStep, PTL DEF Spec

-----------------------------------------------------------------------------
(* The contract of every call.                                             *)

Name(f) == <<f.by, f.index>>
New(k) == <<"new", k>>
YieldedSoFar == {delivered[i] : i \in 1 .. Len(delivered)}

\* No two frames have one kind and one index: what was recorded is not computed
\* again.
FramesHaveNames == \A f, g \in Frames : Name(f) = Name(g) => f = g

\* What was promised was yielded, or is still to be replayed or computed.
StreamInv ==
  /\ promised = YieldedSoFar \cup {Name(f) : f \in replay}
                             \cup {New(k) : k \in todo}
  /\ \A f \in replay : Name(f) \notin YieldedSoFar
  /\ \A k \in todo : New(k) \notin YieldedSoFar

CollectInv == /\ promised = {<<"result", 0>>}
              /\ delivered \in {<<>>, <<<<"result", 0>>>>}

ContractInv == /\ RowsInv
               /\ FramesHaveNames
               /\ outcome = "running" =>
                    /\ \E S : delivered \in Seq(S)
                    /\ IF plan.collect THEN CollectInv ELSE StreamInv

LEMMA ContractInit == Init => ContractInv
<1> SUFFICES ASSUME Init PROVE ContractInv
  OBVIOUS
<1>1. Frames = {}
  BY DEF Init, Frames
<1> QED
  BY <1>1, RowsInit DEF Init, ContractInv, FramesHaveNames

LEMMA ContractStart ==
  ASSUME ContractInv, Start, RowsInv'
  PROVE  ContractInv'
<1>1. /\ UNCHANGED <<op, Frames, progress>>
      /\ delivered' = <<>> /\ plan' = Plan(request', machine)
  BY DEF Start, input, file, Frames
<1>2. FramesHaveNames'
  BY <1>1 DEF ContractInv, FramesHaveNames, Name
<1>3. CASE outcome' # "running"
  BY <1>2, <1>3 DEF ContractInv
<1>4. CASE outcome' = "running"
  <2>1. /\ replay' = Replayable(plan') /\ todo' = Pending(plan')
        /\ promised' = Promised(plan')
    BY <1>4 DEF Start
  <2>3. YieldedSoFar' = {}
    BY <1>1 DEF YieldedSoFar
  <2>4. ASSUME plan'.collect
        PROVE  CollectInv'
    BY <1>1, <2>1, <2>4 DEF Promised, CollectInv
  <2>5. ASSUME ~plan'.collect
        PROVE  StreamInv'
    <3>1. promised' = {Name(f) : f \in replay'} \cup {New(k) : k \in todo'}
      BY <2>1, <2>5 DEF Promised, Name, New
    <3> QED
      BY <2>3, <3>1 DEF StreamInv, Name, New
  <2>6. delivered' \in Seq({})
    BY <1>1
  <2> QED
    BY <1>2, <2>4, <2>5, <2>6 DEF ContractInv
<1> QED
  BY <1>3, <1>4

\* A step that the contract allows, or that the caller does not see.
Allowed ==
  \/ UNCHANGED <<delivered, outcome>>
  \/ outcome # "running"
  \/ /\ outcome' = outcome
     /\ \E c \in promised : c \notin YieldedSoFar /\ delivered' = Append(delivered, c)
  \/ outcome' = "complete" /\ delivered' = delivered /\ YieldedSoFar = promised
  \/ outcome' \in {"raised", "closed"} /\ delivered' = delivered

LEMMA HandAllowed ==
  ASSUME ContractInv, outcome = "running", NEW label, NEW rows, Hand(label, rows),
         ~plan.collect => label \in promised /\ label \notin YieldedSoFar
  PROVE  /\ Allowed
         /\ outcome' \in {"running", "raised"}
         /\ \E S : delivered' \in Seq(S)
         /\ outcome' = "running" =>
              IF plan.collect THEN delivered' = delivered
              ELSE YieldedSoFar' = YieldedSoFar \cup {label}
<1>1. PICK S : delivered \in Seq(S)
  BY DEF ContractInv
<1>2. CASE outcome' = "raised" /\ delivered' = delivered
  BY <1>1, <1>2 DEF Allowed
<1>3. CASE outcome' = outcome /\ plan.collect /\ delivered' = delivered
  BY <1>1, <1>3 DEF Allowed
<1>4. CASE outcome' = outcome /\ ~plan.collect /\ delivered' = Append(delivered, label)
  <2>1. YieldedSoFar' = YieldedSoFar \cup {label}
    BY <1>1, <1>4, Appended DEF YieldedSoFar
  <2>2. delivered' \in Seq(S \cup {label})
    BY <1>1, <1>4, Appended
  <2> QED
    BY <1>4, <2>1, <2>2 DEF Allowed
<1> QED
  BY <1>2, <1>3, <1>4 DEF Hand, Raise

LEMMA ContractReplay ==
  ASSUME ContractInv, NEW f \in replay, Replay(f), RowsInv'
  PROVE  ContractInv' /\ Allowed
<1>1. /\ UNCHANGED <<plan, promised, Frames, progress, todo>>
      /\ replay' = replay \ {f}
      /\ outcome = "running"
      /\ Hand(Name(f), f.rows)
  BY DEF Replay, call, file, Name, Frames
<1>2. FramesHaveNames'
  BY <1>1 DEF ContractInv, FramesHaveNames, Name
<1>3. \A g \in replay : g \in Frames /\ g.by # "new"
  BY <1>1
     DEF ContractInv, RowsInv, CallInv, LeftInv, FileInv, FramesAreRecorded, Kinds
<1>4. \A g \in replay' : g \in replay /\ Name(g) # Name(f)
  BY <1>1, <1>3 DEF ContractInv, FramesHaveNames
<1>5. \A k \in todo : New(k) # Name(f)
  BY <1>3 DEF New, Name
<1>6. ~plan.collect => StreamInv
  BY <1>1 DEF ContractInv
<1>7. ~plan.collect => Name(f) \in promised /\ Name(f) \notin YieldedSoFar
  BY <1>6 DEF StreamInv
<1>8. /\ Allowed
      /\ outcome' \in {"running", "raised"}
      /\ \E S : delivered' \in Seq(S)
      /\ outcome' = "running" =>
           IF plan.collect THEN delivered' = delivered
           ELSE YieldedSoFar' = YieldedSoFar \cup {Name(f)}
  BY <1>1, <1>7, HandAllowed
<1>9. CASE outcome' # "running"
  BY <1>2, <1>8, <1>9 DEF ContractInv
<1>10. CASE outcome' = "running" /\ plan.collect
  <2>1. CollectInv'
    BY <1>1, <1>8, <1>10 DEF ContractInv, CollectInv
  <2> QED
    BY <1>1, <1>2, <1>8, <1>10, <2>1 DEF ContractInv
<1>11. CASE outcome' = "running" /\ ~plan.collect
  <2>1. YieldedSoFar' = YieldedSoFar \cup {Name(f)}
    BY <1>8, <1>11
  <2>2. {Name(g) : g \in replay} = {Name(g) : g \in replay'} \cup {Name(f)}
    BY <1>1
  <2>3. StreamInv'
    BY <1>1, <1>4, <1>5, <1>6, <1>11, <2>1, <2>2 DEF StreamInv, Name, New
  <2> QED
    BY <1>1, <1>2, <1>8, <1>11, <2>3 DEF ContractInv
<1> QED
  BY <1>8, <1>9, <1>10, <1>11

LEMMA ContractCompute ==
  ASSUME ContractInv, NEW k \in todo, Compute(k), RowsInv'
  PROVE  ContractInv' /\ Allowed
<1>1. /\ UNCHANGED <<plan, promised, replay>>
      /\ replay = {} /\ outcome = "running"
      /\ todo' = todo \ {k}
      /\ IF plan.ckpt THEN Recorded(k) ELSE UNCHANGED file
      /\ Hand(New(k), RowsOf(plan, k))
  BY DEF Compute, call, New
<1>2. CallInv
  BY <1>1 DEF ContractInv, RowsInv
<1>3. FramesHaveNames'
  <2>1. CASE ~plan.ckpt
    BY <1>1, <2>1 DEF ContractInv, FramesHaveNames, Name, file, Frames
  <2>2. CASE plan.ckpt
    <3> DEFINE new == Frame(plan, k)
    <3>1. /\ data' = Append(data, new)
          /\ new.by = plan.path /\ new.index = k
          /\ plan.path \in Kinds /\ k \notin progress[plan.path]
      BY <1>1, <1>2, <2>2 DEF Recorded, Frame, CallInv, ShapeInv, LeftInv
    <3> HIDE DEF new
    <3>2. PICK S : data \in Seq(S)
      BY DEF ContractInv, RowsInv, FileInv
    <3>3. Frames' = Frames \cup {new}
      BY <3>1, <3>2, FramesAppended
    <3>4. \A f \in Frames : Name(f) # Name(new)
      BY <3>1 DEF ContractInv, RowsInv, FileInv, FramesAreRecorded, Name
    <3>5. \A f, g \in Frames' : Name(f) = Name(g) => f = g
      BY <3>3, <3>4 DEF ContractInv, FramesHaveNames
    <3> QED
      BY <3>5 DEF FramesHaveNames, Name
  <2> QED
    BY <2>1, <2>2
<1>4. \A j \in todo' : j \in todo /\ New(j) # New(k)
  BY <1>1 DEF New
<1>5. ~plan.collect => StreamInv
  BY <1>1 DEF ContractInv
<1>6. ~plan.collect => New(k) \in promised /\ New(k) \notin YieldedSoFar
  BY <1>5 DEF StreamInv
<1>7. /\ Allowed
      /\ outcome' \in {"running", "raised"}
      /\ \E S : delivered' \in Seq(S)
      /\ outcome' = "running" =>
           IF plan.collect THEN delivered' = delivered
           ELSE YieldedSoFar' = YieldedSoFar \cup {New(k)}
  BY <1>1, <1>6, HandAllowed
<1>8. CASE outcome' # "running"
  BY <1>3, <1>7, <1>8 DEF ContractInv
<1>9. CASE outcome' = "running" /\ plan.collect
  <2>1. CollectInv'
    BY <1>1, <1>7, <1>9 DEF ContractInv, CollectInv
  <2> QED
    BY <1>1, <1>3, <1>7, <1>9, <2>1 DEF ContractInv
<1>10. CASE outcome' = "running" /\ ~plan.collect
  <2>1. YieldedSoFar' = YieldedSoFar \cup {New(k)}
    BY <1>7, <1>10
  <2>2. {New(j) : j \in todo} = {New(j) : j \in todo'} \cup {New(k)}
    BY <1>1
  <2>3. StreamInv'
    BY <1>1, <1>4, <1>5, <1>10, <2>1, <2>2 DEF StreamInv, Name, New
  <2> QED
    BY <1>1, <1>3, <1>7, <1>10, <2>3 DEF ContractInv
<1> QED
  BY <1>7, <1>8, <1>9, <1>10

LEMMA ContractReturn ==
  ASSUME ContractInv, Return, RowsInv'
  PROVE  ContractInv' /\ Allowed
<1> DEFINE r == <<"result", 0>>
<1>1. /\ UNCHANGED <<plan, promised, Frames, progress>>
      /\ outcome = "running" /\ plan.collect /\ delivered = <<>>
      /\ \/ outcome' = "raised" /\ delivered' = delivered
         \/ outcome' = outcome /\ delivered' = <<r>>
  BY DEF Return, Raise, call, file, Frames
<1>2. FramesHaveNames'
  BY <1>1 DEF ContractInv, FramesHaveNames, Name
<1>3. CASE outcome' = "raised" /\ delivered' = delivered
  BY <1>2, <1>3 DEF ContractInv, Allowed
<1>4. CASE outcome' = outcome /\ delivered' = <<r>>
  <2>1. promised = {r}
    BY <1>1 DEF ContractInv, CollectInv
  <2>2. r \notin YieldedSoFar
    BY <1>1 DEF YieldedSoFar
  <2>3. delivered' = Append(delivered, r)
    BY <1>1, <1>4
  <2>4. Allowed
    BY <1>4, <2>1, <2>2, <2>3 DEF Allowed
  <2>5. delivered' \in Seq({r})
    BY <1>4
  <2>6. CollectInv'
    BY <1>1, <1>4, <2>1 DEF CollectInv
  <2> QED
    BY <1>1, <1>2, <2>4, <2>5, <2>6 DEF ContractInv
<1> QED
  BY <1>1, <1>3, <1>4

LEMMA ContractFinish ==
  ASSUME ContractInv, Finish, RowsInv'
  PROVE  ContractInv' /\ Allowed
<1>1. /\ UNCHANGED <<Frames, progress, delivered>>
      /\ outcome = "running" /\ outcome' = "complete" /\ Exhausted
      /\ plan.collect => delivered # <<>>
  BY DEF Finish, file, Frames
<1>2. FramesHaveNames'
  BY <1>1 DEF ContractInv, FramesHaveNames, Name
<1>3. YieldedSoFar = promised
  <2>1. CASE plan.collect
    <3>1. promised = {<<"result", 0>>} /\ delivered = <<<<"result", 0>>>>
      BY <1>1, <2>1 DEF ContractInv, CollectInv
    <3> QED
      BY <3>1 DEF YieldedSoFar
  <2>2. CASE ~plan.collect
    BY <1>1, <2>2 DEF ContractInv, StreamInv, Exhausted
  <2> QED
    BY <2>1, <2>2
<1> QED
  BY <1>1, <1>2, <1>3 DEF ContractInv, Allowed

LEMMA ContractStep == ContractInv /\ [Next]_vars => ContractInv' /\ Allowed
<1> SUFFICES ASSUME ContractInv, [Next]_vars PROVE ContractInv' /\ Allowed
  OBVIOUS
<1>1. RowsInv'
  BY RowsStep DEF ContractInv
<1>2. CASE \E program \in Programs : Run(program)
  <2>1. /\ UNCHANGED <<Frames, progress, delivered, outcome>>
        /\ outcome # "running"
    BY <1>2 DEF Run, Ended, file, Frames
  <2>2. FramesHaveNames'
    BY <2>1 DEF ContractInv, FramesHaveNames, Name
  <2> QED
    BY <1>1, <2>1, <2>2 DEF ContractInv, Allowed
<1>3. CASE Start
  BY <1>1, <1>3, ContractStart DEF Allowed, Start, Ended
<1>4. CASE \E f \in replay : Replay(f)
  BY <1>1, <1>4, ContractReplay
<1>5. CASE \E k \in todo : Compute(k)
  BY <1>1, <1>5, ContractCompute
<1>6. CASE Return
  BY <1>1, <1>6, ContractReturn
<1>7. CASE Finish
  BY <1>1, <1>7, ContractFinish
<1>8. CASE Close
  <2>1. /\ UNCHANGED <<Frames, progress, delivered>>
        /\ outcome' = "closed"
    BY <1>8 DEF Close, file, Frames
  <2>2. FramesHaveNames'
    BY <2>1 DEF ContractInv, FramesHaveNames, Name
  <2> QED
    BY <1>1, <2>1, <2>2 DEF ContractInv, Allowed
<1>9. CASE UNCHANGED vars
  <2>1. UNCHANGED <<Frames, progress, delivered, outcome, plan, promised, replay, todo>>
    BY <1>9 DEF vars, file, call, Frames
  <2>2. FramesHaveNames'
    BY <2>1 DEF ContractInv, FramesHaveNames, Name
  <2>3. (CollectInv => CollectInv') /\ (StreamInv => StreamInv')
    BY <2>1 DEF CollectInv, StreamInv, YieldedSoFar, Name, New
  <2> QED
    BY <1>1, <2>1, <2>2, <2>3 DEF ContractInv, Allowed
<1> QED
  BY <1>2, <1>3, <1>4, <1>5, <1>6, <1>7, <1>8, <1>9 DEF Next

\* Every call keeps the contract of ChunkDelivery from its first chunk to its
\* end, on every path and however much of it comes from the checkpoint.
THEOREM CallsKeepTheContract == Spec => EachCallDelivers
<1>1. ASSUME Allowed
      PROVE  [outcome = "running" => \A P \in {promised} : Contract(P)!Next]_<<delivered, outcome>>
  <2> SUFFICES ASSUME outcome = "running", ~UNCHANGED <<delivered, outcome>>
               PROVE  \A P \in {promised} : Contract(P)!Next
    OBVIOUS
  <2> SUFFICES ASSUME NEW P, P = promised
               PROVE  Contract(P)!Next
    OBVIOUS
  <2>1. Contract(P)!Yielded = YieldedSoFar
    BY DEF Contract!Yielded, YieldedSoFar
  <2>2. CASE /\ outcome' = outcome
             /\ \E c \in promised : c \notin YieldedSoFar
                                    /\ delivered' = Append(delivered, c)
    <3> PICK c \in promised : c \notin YieldedSoFar /\ delivered' = Append(delivered, c)
      BY <2>2
    <3>1. Contract(P)!Deliver(c)
      BY <2>1, <2>2 DEF Contract!Deliver
    <3> QED
      BY <3>1 DEF Contract!Next
  <2>3. CASE outcome' = "complete" /\ delivered' = delivered /\ YieldedSoFar = promised
    BY <2>1, <2>3 DEF Contract!Finish, Contract!Next
  <2>4. CASE outcome' \in {"raised", "closed"} /\ delivered' = delivered
    BY <2>4 DEF Contract!Abort, Contract!Next
  <2> QED
    BY <1>1, <2>2, <2>3, <2>4 DEF Allowed
<1>2. ContractInv /\ [Next]_vars
        => [outcome = "running" => \A P \in {promised} : Contract(P)!Next]_<<delivered, outcome>>
  BY <1>1, ContractStep
<1>3. ContractInv /\ [Next]_vars => ContractInv'
  BY ContractStep
<1> QED
  BY <1>2, <1>3, ContractInit, PTL DEF Spec, EachCallDelivers

-----------------------------------------------------------------------------
(* Calls that leave their sizes to the code, and type correctness.         *)

LEMMA WorkersOfMachine ==
  \A m \in Machines : ResolvedWorkers(NotThere, m) \in Nat \ {0}
<1> TAKE m \in Machines
<1>1. IsFiniteSet(m.allowed) /\ m.allowed # {}
  BY MachinesAssumption
<1>2. Cardinality(m.allowed) \in Nat \ {0}
  BY <1>1, FS_CardinalityType, FS_EmptySet
<1>3. ASSUME RepresentativeCpus(m) \notin {NotThere, {}}
      PROVE  Cardinality(RepresentativeCpus(m)) \in Nat \ {0}
  <2> DEFINE cpus == RepresentativeCpus(m)
  <2>1. cpus \subseteq m.allowed
    BY <1>3 DEF RepresentativeCpus
  <2>2. IsFiniteSet(cpus) /\ cpus # {}
    BY <1>1, <1>3, <2>1, FS_Subset
  <2> HIDE DEF cpus
  <2>3. Cardinality(cpus) \in Nat \ {0}
    BY <2>2, FS_CardinalityType, FS_EmptySet
  <2> QED
    BY <2>3 DEF cpus
<1> QED
  BY <1>2, <1>3 DEF ResolvedWorkers

\* A worker's share may have no room for a row: one row it is then.
LEMMA ChunkPositive ==
  ASSUME NEW o \in Operators, NEW m \in Machines, NEW asked \in Nat \ {0}
  PROVE  ParallelChunkSize(o, asked, m) \in Nat \ {0}
<1> DEFINE free == Greater(0, PerWorkerBudget(m, asked) - ResidentBytes(o))
           row == RowBytes(o.qubits)
           rows == free \div row
<1>1. /\ row \in Nat \ {0} /\ ResidentBytes(o) \in Nat
      /\ PerWorkerBudget(m, asked) \in Nat
      /\ RecommendedChunkSize(o.qubits, L2Figure(m)) \in Nat \ {0}
  BY Figures, QuotientBound DEF PerWorkerBudget
<1>2. free \in Nat
  BY <1>1 DEF Greater
<1>3. rows \in Nat
  <2> HIDE DEF free, row
  <2> QED
    BY <1>1, <1>2, QuotientBound
<1>4. MemoryBound(o, asked, m) = Greater(1, rows)
  BY DEF MemoryBound
<1> HIDE DEF rows
<1> QED
  BY <1>1, <1>3, <1>4 DEF ParallelChunkSize, Greater, Smaller

LEMMA AutomaticPlan ==
  ASSUME NEW r \in Requests, NEW m \in Machines, op \in Operators,
         r.chunk = NotThere, r.workers = NotThere,
         r.executor \in {"auto", "process", "thread"}
  PROVE  Plan(r, m).path # "refused"
<1>1. r.entry # "iter"
  BY DEF Requests
<1>2. Whole(r).path = "whole"
  BY DEF Whole, Path
<1>3. ASSUME NEW c \in Nat \ {0}
      PROVE  Sequential(r, c).path = "sequential"
  BY <1>3 DEF Sequential, Path
<1>4. Collected(r).path # "refused"
  BY <1>2 DEF Collected
<1>5. DecomposeAuto(r, m).path # "refused"
  BY <1>2, <1>3, Figures DEF DecomposeAuto
<1>6. Pool(r, m).path # "refused"
  <2> DEFINE asked == ResolvedWorkers(r.workers, m)
             chunk == ChunkSize(r, asked, m)
             workers == CappedWorkers(asked, op.active, chunk)
  <2>1. asked \in Nat \ {0}
    BY WorkersOfMachine
  <2>2. chunk \in Nat \ {0}
    <3> HIDE DEF asked
    <3> QED
      BY <2>1, ChunkPositive DEF ChunkSize
  <2>3. ~BadArguments(r, asked) /\ chunk # 0
    <3> HIDE DEF asked, chunk
    <3> QED
      BY <2>1, <2>2 DEF BadArguments
  <2>4. CASE r.entry = "arrays" /\ workers = 1 /\ ~r.ckpt
    <3>1. Pool(r, m) = Sequential(r, chunk)
      BY <2>3, <2>4 DEF Pool
    <3> HIDE DEF chunk
    <3> QED
      BY <1>3, <2>2, <3>1
  <2>5. CASE ~(r.entry = "arrays" /\ workers = 1 /\ ~r.ckpt)
    <3>1. Pool(r, m) = [Path("pool", r, chunk, workers) EXCEPT !.drain = Drain(r, m)]
      BY <2>3, <2>5 DEF Pool
    <3> HIDE DEF chunk, workers
    <3> QED
      BY <3>1 DEF Path
  <2> QED
    BY <2>4, <2>5
<1> QED
  BY <1>1, <1>4, <1>5, <1>6 DEF Plan

\* The parts of TypeOK that an entry point decides.
PlanType(p) ==
  /\ p.path \in {"refused", "whole", "sequential", "pool"}
  /\ p.workers \in Nat \ {0}
  /\ p.drain \in IF p.path = "pool" THEN {"thread", "process"} ELSE {"none"}

LEMMA PlanTyped ==
  ASSUME NEW r \in Requests, NEW m \in Machines, op \in Operators
  PROVE  PlanType(Plan(r, m))
<1>1. /\ r.chunk \in Int \cup {NotThere} /\ r.workers \in Int \cup {NotThere}
      /\ r.entry \in {"terms", "coefficients", "iter", "auto", "dicts", "arrays"}
  BY DEF Requests
<1>2. PlanType(Refused(r)) /\ PlanType(Whole(r))
  BY DEF PlanType, Refused, Whole, Path
<1>3. \A c : PlanType(Sequential(r, c))
  BY <1>2 DEF PlanType, Sequential, Path
<1>4. PlanType(Collected(r)) /\ PlanType(DecomposeAuto(r, m))
  BY <1>2, <1>3 DEF Collected, DecomposeAuto
<1>5. ASSUME r.entry \in {"dicts", "arrays"}
      PROVE  PlanType(Pool(r, m))
  <2> DEFINE asked == ResolvedWorkers(r.workers, m)
             chunk == ChunkSize(r, asked, m)
             workers == CappedWorkers(asked, op.active, chunk)
  <2>1. CASE BadArguments(r, asked) \/ chunk = 0
    BY <1>2, <2>1 DEF Pool
  <2>2. CASE /\ ~BadArguments(r, asked) /\ chunk # 0
             /\ r.entry = "arrays" /\ workers = 1 /\ ~r.ckpt
    <3>1. Pool(r, m) = Sequential(r, chunk)
      BY <2>2 DEF Pool
    <3> HIDE DEF chunk
    <3> QED
      BY <1>3, <3>1
  <2>3. CASE /\ ~BadArguments(r, asked) /\ chunk # 0
             /\ ~(r.entry = "arrays" /\ workers = 1 /\ ~r.ckpt)
    <3>1. Pool(r, m) = [Path("pool", r, chunk, workers) EXCEPT !.drain = Drain(r, m)]
      BY <2>3 DEF Pool
    <3>2. asked \in Int
      BY <1>1, ResolvedType
    <3>3. chunk \in Int
      <4>1. CASE r.chunk # NotThere
        BY <1>1, <4>1 DEF ChunkSize
      <4>2. CASE r.chunk = NotThere
        <5>1. asked \in Nat \ {0}
          BY <2>3, <3>2, <4>2 DEF BadArguments
        <5> HIDE DEF asked
        <5> QED
          BY <4>2, <5>1, ChunkPositive DEF ChunkSize
      <4> QED
        BY <4>1, <4>2
    <3>4. Drain(r, m) \in {"thread", "process"}
      <4>1. r.entry = "arrays" => r.executor \in {"auto", "process", "thread"}
        BY <2>3 DEF BadArguments
      <4> QED
        BY <1>5, <4>1 DEF Drain
    <3>5. op.active \in Nat
      BY OperatorsAssumption
    <3>6. workers \in Nat \ {0}
      <4>0. chunk # 0
        BY <2>3
      <4> HIDE DEF asked, chunk
      <4>1. CeilDiv(op.active, chunk) \in Int
        <5>1. CASE chunk > 0
          BY <3>3, <3>5, <5>1 DEF CeilDiv, FloorDiv
        <5>2. CASE ~(chunk > 0)
          <6>1. -chunk \in Nat \ {0} /\ -(op.active + chunk - 1) \in Int
            BY <3>3, <3>5, <4>0, <5>2
          <6> QED
            BY <5>2, <6>1 DEF CeilDiv, FloorDiv
        <5> QED
          BY <5>1, <5>2
      <4> QED
        BY <3>2, <4>1 DEF CappedWorkers, Greater, Smaller
    <3> HIDE DEF chunk, workers
    <3> QED
      BY <3>1, <3>4, <3>6 DEF PlanType, Path
  <2> QED
    BY <2>1, <2>2, <2>3
<1> QED
  BY <1>1, <1>3, <1>4, <1>5 DEF Plan

LEMMA IndicesType ==
  ASSUME op \in Operators, NEW p, p.chunk \in Int
  PROVE  Indices(p) \subseteq Nat
<1>1. op.active \in Nat
  BY OperatorsAssumption
<1>2. CASE p.chunk < 1
  BY <1>2 DEF Indices
<1>3. CASE p.chunk >= 1
  <2>1. CeilDiv(op.active, p.chunk) \in Int
    BY <1>1, <1>3 DEF CeilDiv, FloorDiv
  <2> QED
    BY <1>3, <2>1 DEF Indices
<1> QED
  BY <1>2, <1>3

\* Nothing is promised but results, recorded frames and new chunks.
LEMMA PromisedType ==
  ASSUME FileInv, op \in Operators, NEW p, p.chunk \in Int
  PROVE  Promised(p) \subseteq Labels
<1>1. Indices(p) \subseteq Nat
  BY IndicesType
<1>2. \A f \in Frames : f.by \in Kinds /\ f.index \in Nat
  BY DEF FramesAreRecorded, FileInv
<1>3. \A f \in Frames : <<f.by, f.index>> \in Labels
  BY <1>2 DEF Labels, Kinds
<1>4. \A k \in Nat : <<"new", k>> \in Labels
  BY DEF Labels
<1>5. <<"result", 0>> \in Labels
  BY DEF Labels
<1> QED
  BY <1>1, <1>3, <1>4, <1>5, ReplayableIs DEF Promised, Pending

TypeInv == /\ ContractInv
           /\ CleanInv
           /\ PlanType(plan)
           /\ todo \subseteq Nat /\ replay \subseteq Frames
           /\ promised \subseteq Labels /\ delivered \in Seq(Labels)
           /\ AutomaticNeverRefused

LEMMA TypeInit == Init => TypeInv
<1> SUFFICES ASSUME Init PROVE TypeInv
  OBVIOUS
<1>1. /\ todo = {} /\ replay = {} /\ promised = {} /\ delivered = <<>>
      /\ plan = Idle /\ request.entry = "none"
  BY DEF Init, Request
<1>2. PlanType(plan)
  BY <1>1 DEF PlanType, Idle, Refused, Path
<1> QED
  BY <1>1, <1>2, ContractInit, CleanInit DEF TypeInv, AutomaticNeverRefused

LEMMA TypeStart ==
  ASSUME TypeInv, Start
  PROVE  /\ PlanType(plan)'
         /\ todo' \subseteq Nat /\ replay' \subseteq Frames'
         /\ promised' \subseteq Labels /\ delivered' \in Seq(Labels)
         /\ AutomaticNeverRefused'
<1>1. /\ request' \in Requests /\ machine \in Machines /\ op \in Operators
      /\ plan' = Plan(request', machine)
      /\ Frames' = Frames /\ delivered' = <<>> /\ FileInv
  BY DEF Start, file, Frames, TypeInv, ContractInv, RowsInv, PlannedInv
<1>2. PlanType(plan)'
  <2>1. PlanType(plan')
    BY <1>1, PlanTyped
  <2> QED
    BY <2>1 DEF PlanType
<1>3. AutomaticNeverRefused'
  BY <1>1, AutomaticPlan DEF AutomaticNeverRefused
<1>4. todo' \subseteq Nat /\ replay' \subseteq Frames' /\ promised' \subseteq Labels
  <2>1. CASE plan'.path = "refused"
    BY <2>1 DEF Start
  <2>2. CASE plan'.path # "refused"
    <3>1. plan'.chunk \in Int
      BY <1>1, <2>2, PlanShape
    <3>2. /\ todo' = Pending(plan') /\ replay' = Replayable(plan')
          /\ promised' = Promised(plan')
      BY <2>2 DEF Start
    <3>3. Indices(plan') \subseteq Nat
      BY <1>1, <3>1, IndicesType
    <3>4. Promised(plan') \subseteq Labels
      BY <1>1, <3>1, PromisedType
    <3> QED
      BY <1>1, <3>2, <3>3, <3>4, ReplayableIs DEF Pending
  <2> QED
    BY <2>1, <2>2
<1>5. delivered' \in Seq(Labels)
  BY <1>1
<1> QED
  BY <1>2, <1>3, <1>4, <1>5

\* No other step makes a plan, adds to what is left or takes a frame away.
LEMMA TypeOther ==
  ASSUME TypeInv, [Next]_vars, ~Start
  PROVE  /\ UNCHANGED <<plan, request, promised>>
         /\ todo' \subseteq todo /\ replay' \subseteq replay /\ Frames \subseteq Frames'
         /\ delivered' = delivered \/ outcome = "running"
<1> USE DEF Frames
<1>1. CASE \E program \in Programs : Run(program)
  BY <1>1 DEF Run, file
<1>2. CASE \E f \in replay : Replay(f)
  BY <1>2 DEF Replay, call, file
<1>3. CASE \E k \in todo : Compute(k)
  <2> PICK k \in todo : Compute(k)
    BY <1>3
  <2> HIDE DEF Frames
  <2>1. PICK S : data \in Seq(S)
    BY DEF TypeInv, ContractInv, RowsInv, FileInv
  <2>2. data' = data \/ data' = Append(data, Frame(plan, k))
    BY DEF Compute, Recorded, file
  <2>3. Frames \subseteq Frames'
    BY <2>1, <2>2, FramesKept, FramesAppended
  <2> QED
    BY <2>3 DEF Compute, call
<1>4. CASE Return
  BY <1>4 DEF Return, call, file
<1>5. CASE Finish
  BY <1>5 DEF Finish, call, file
<1>6. CASE Close
  BY <1>6 DEF Close, call, file
<1>7. CASE UNCHANGED vars
  BY <1>7 DEF vars, call, file
<1> QED
  BY <1>1, <1>2, <1>3, <1>4, <1>5, <1>6, <1>7 DEF Next

LEMMA TypeStep == TypeInv /\ [Next]_vars => TypeInv'
<1> SUFFICES ASSUME TypeInv, [Next]_vars PROVE TypeInv'
  OBVIOUS
<1>1. ContractInv' /\ CleanInv' /\ Allowed
  BY ContractStep, CleanStep DEF TypeInv
<1>2. CASE Start
  BY <1>1, <1>2, TypeStart DEF TypeInv
<1>3. CASE ~Start
  <2>1. /\ UNCHANGED <<plan, request, promised>>
        /\ todo' \subseteq todo /\ replay' \subseteq replay /\ Frames \subseteq Frames'
        /\ delivered' = delivered \/ outcome = "running"
    BY <1>3, TypeOther
  <2>2. PlanType(plan)' /\ AutomaticNeverRefused'
    BY <2>1 DEF TypeInv, PlanType, AutomaticNeverRefused
  <2>3. delivered' \in Seq(Labels)
    <3>1. CASE delivered' = delivered
      BY <3>1 DEF TypeInv
    <3>2. CASE \E c \in promised : delivered' = Append(delivered, c)
      <4> PICK c \in promised : delivered' = Append(delivered, c)
        BY <3>2
      <4>1. c \in Labels /\ delivered \in Seq(Labels)
        BY DEF TypeInv
      <4> HIDE DEF Labels
      <4> QED
        BY <4>1
    <3> QED
      BY <1>1, <2>1, <3>1, <3>2 DEF Allowed
  <2> QED
    BY <1>1, <2>1, <2>2, <2>3 DEF TypeInv
<1> QED
  BY <1>2, <1>3

\* A call that leaves its chunk size and its workers to the code is accepted,
\* for every operator and every machine with a CPU: the floor of the recommended
\* chunk size, the one row that a share has room for and the workers that are
\* found are never zero.
THEOREM AutomaticCallIsAccepted == Spec => []AutomaticNeverRefused
<1>1. TypeInv => AutomaticNeverRefused
  BY DEF TypeInv
<1> QED
  BY <1>1, TypeInit, TypeStep, PTL DEF Spec

\* Type correctness, and no record without its frame, for every operator,
\* machine, program and number of runs.
THEOREM TypeCorrect == Spec => []TypeOK
<1>1. TypeInv => TypeOK
  <2> SUFFICES ASSUME TypeInv PROVE TypeOK
    OBVIOUS
  <2>1. /\ script \in Seq(Requests) /\ got \in [Rows -> Nat]
        /\ progress \in [Kinds -> SUBSET Nat] /\ RecordsHaveFrames
    BY DEF TypeInv, ContractInv, RowsInv, PlannedInv, CleanInv, FileInv
  <2>2. \A path \in DOMAIN progress :
          progress[path] \subseteq {f.index : f \in {g \in Frames : g.by = path}}
    BY <2>1 DEF RecordsHaveFrames
  <2> QED
    BY <2>1, <2>2 DEF TypeInv, TypeOK, PlanType
<1> QED
  BY <1>1, TypeInit, TypeStep, PTL DEF Spec
=============================================================================
