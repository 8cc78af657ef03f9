------------------------------- MODULE Sizing -------------------------------
(***************************************************************************)
(* What a call decides from the machine before it starts: autotune.py, and *)
(* the sizing functions of fwht.py.  Sizes are in bytes, dimensions are     *)
(* powers of two.  A machine is a record of what the probes of the code    *)
(* would read: NotThere stands for a file, a function or a field that is   *)
(* missing.                                                                *)
(***************************************************************************)
EXTENDS Integers, Sequences, FiniteSets

CONSTANTS NotThere,  \* the probe reads nothing
          Unlimited  \* what cgroup v2 says where there is no limit

ASSUME SizingAssumption == NotThere \notin Int /\ Unlimited \notin Int

Greater(a, b) == IF a >= b THEN a ELSE b
Smaller(a, b) == IF a <= b THEN a ELSE b
Either(a, b) == IF a # NotThere THEN a ELSE b

\* Python's //, which takes a negative divisor too.
FloorDiv(a, b) == IF b > 0 THEN a \div b ELSE (-a) \div (-b)
CeilDiv(a, b) == FloorDiv(a + b - 1, b)

-----------------------------------------------------------------------------
(* The L2 figure.                                                          *)

\* The steps at which the latency grows by more than 1.3; a sample that took
\* no time at all is no reference.
Jumps(samples) == {i \in 2 .. Len(samples) :
                     /\ samples[i - 1].cycles > 0
                     /\ 10 * samples[i].cycles > 13 * samples[i - 1].cycles}

\* The size before the second jump: the first one is the edge of L1.
ProbedL2(samples) ==
  LET jumps == Jumps(samples)
      second == CHOOSE j \in jumps : Cardinality({i \in jumps : i < j}) = 1
  IN  IF Len(samples) < 3 \/ Cardinality(jumps) < 2
      THEN NotThere
      ELSE samples[second - 1].bytes

\* Within a factor of 1.5 of what /sys says.
Plausible(probed, declared) == /\ 2 * declared <= 3 * probed
                               /\ 2 * probed <= 3 * declared

\* A probe without a cycle counter raises, and without the extension there is
\* no probe: m.samples is NotThere in both cases.
L2Figure(m) ==
  LET probed == IF m.samples = NotThere THEN NotThere ELSE ProbedL2(m.samples)
  IN  IF /\ probed # NotThere
         /\ m.declared # NotThere => Plausible(probed, m.declared)
      THEN probed
      ELSE m.declared

-----------------------------------------------------------------------------
(* The chunk size that suits one process.                                  *)

\* _FLOOR_ANCHORS_DIM_TO_CHUNK_SIZE, the dimensions by their logarithm.
Anchors == << <<9, 8>>, <<11, 8>>, <<14, 2>>, <<15, 1>> >>

\* round() of the value at k of n steps on the geometric line from lo to hi.
Between(lo, hi, k, n) ==
  LET target == 2^n * lo^(n - k) * hi^k
  IN  CHOOSE c \in hi .. lo : (2 * c - 1)^n <= target /\ target < (2 * c + 1)^n

MinChunkSizeFloor(qubits) ==
  IF qubits <= Anchors[1][1] THEN Anchors[1][2]
  ELSE IF qubits >= Anchors[Len(Anchors)][1] THEN Anchors[Len(Anchors)][2]
  ELSE LET s == CHOOSE i \in 1 .. Len(Anchors) - 1 :
                  /\ Anchors[i][1] <= qubits
                  /\ qubits < Anchors[i + 1][1]
           from == Anchors[s]
           to == Anchors[s + 1]
       IN  IF from[2] = to[2] THEN from[2]
           ELSE Greater(1, Between(from[2], to[2],
                                   qubits - from[1], to[1] - from[1]))

\* One row of complex128.
RowBytes(qubits) == 16 * 2^qubits

\* Fault: no floor under what fits into L2.
ChunkSizeWithoutFloor(qubits, l2) ==
  IF l2 = NotThere THEN 32 ELSE l2 \div RowBytes(qubits)

RecommendedChunkSize(qubits, l2) ==
  IF l2 = NotThere
  THEN 32
  ELSE Greater(MinChunkSizeFloor(qubits), l2 \div RowBytes(qubits))

-----------------------------------------------------------------------------
(* Memory.                                                                 *)

\* cgroup v2, which may say that there is no limit; else v1, where a limit that
\* is not below the physical memory is the kernel's way of saying none.
CgroupLimit(m) ==
  IF m.cgroup2 # NotThere
  THEN IF m.cgroup2 = Unlimited THEN NotThere ELSE m.cgroup2
  ELSE IF /\ m.cgroup1 # NotThere /\ m.total # NotThere
          /\ m.cgroup1 >= m.total
       THEN NotThere
       ELSE m.cgroup1

Fallback == 512 * 1024 * 1024

AvailableMemory(m) ==
  LET physical == Either(Either(m.meminfo, m.avphys), Fallback)
      limit == CgroupLimit(m)
  IN  IF limit = NotThere THEN physical ELSE Smaller(physical, limit)

PerWorkerBudget(m, workers) == AvailableMemory(m) \div workers

\* What the code takes a worker to hold for good: a copy of the operator (CSR
\* if it is sparse) and three index arrays.
ResidentBytes(op) ==
  3 * 8 * op.nnz + IF op.sparse
                   THEN 16 * op.nnz + 4 * op.nnz + 4 * (2^op.qubits + 1)
                   ELSE 16 * 2^op.qubits * 2^op.qubits

\* What a worker of an operator with zeros does hold: the values of the
\* nonzero cells as well (sorted_values).
HeldBytes(op) == ResidentBytes(op) + 16 * op.nnz

\* The rows that fit into a worker's share beside what it holds for good.
MemoryBound(op, workers, m) ==
  Greater(1, Greater(0, PerWorkerBudget(m, workers) - ResidentBytes(op))
               \div RowBytes(op.qubits))

ParallelChunkSize(op, workers, m) ==
  Smaller(RecommendedChunkSize(op.qubits, L2Figure(m)), MemoryBound(op, workers, m))

\* dim * dim * 16 * 6.0 <= budget * 0.2
DenseFits(op, m) == 2^op.qubits * 2^op.qubits <= AvailableMemory(m) \div 480

-----------------------------------------------------------------------------
(* Kernels, workers and widths.                                            *)

\* The kernels that the import found: the one for AVX2 where the CPU has it and
\* it was built, else the baseline, else none.
Loaded(m) ==
  {name \in {"wht", "coeffs"} :
     \/ {"avx2", "bmi2", "fma", "popcnt"} \subseteq m.flags /\ <<name, "v3">> \in m.built
     \/ <<name, "baseline">> \in m.built}

\* The lowest allowed CPU of each physical core, or nothing if a file of the
\* topology cannot be read.
RepresentativeCpus(m) ==
  LET core(cpu) == CHOOSE s \in m.siblings[cpu] : \A t \in m.siblings[cpu] : s <= t
  IN  IF \E cpu \in m.allowed : m.siblings[cpu] = NotThere
      THEN NotThere
      ELSE {cpu \in m.allowed :
              \A other \in m.allowed : core(other) = core(cpu) => cpu <= other}

ResolvedWorkers(requested, m) ==
  LET cpus == RepresentativeCpus(m)
  IN  IF requested # NotThere THEN requested
      ELSE IF cpus \in {NotThere, {}} THEN Cardinality(m.allowed)
      ELSE Cardinality(cpus)

\* No more workers than chunks, and at least one.
CappedWorkers(workers, active, chunk) ==
  Greater(1, Smaller(workers, Greater(1, CeilDiv(active, chunk))))

\* The width in bytes of the indices of one chunk or frame.
IndexBytes(qubits) == CASE qubits <= 16 -> 2
                        [] qubits \in 17 .. 32 -> 4
                        [] OTHER -> 8
=============================================================================
