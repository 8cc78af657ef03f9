# paulikit in TLA+

TLA+ models of [paulikit](../src/README.md): what is modelled, what TLC checks
on small instances, and what TLAPS proves for every instance. All line numbers
refer to `src/src/paulikit/algorithms/fwht.py` unless another file is named.

paulikit decomposes a `2^n x 2^n` operator into Pauli terms. The rows of the
transform that can be nonzero are cut into *chunks*; each chunk is gathered,
transformed, thresholded and yielded on its own. Chunks are independent, so
they can be computed one after the other, in a pool of threads or in a pool of
processes, and completed chunks can be kept in a checkpoint file from which an
interrupted run resumes. What can go wrong is mostly a matter of who does which
chunk, when it is handed on, what is on disk when something stops, what survives
of shared state, and which sizes and paths a call chooses; and underneath,
whether the many ways to compute a chunk give the same numbers.

## Inventory

| Part | State it keeps | Operations | Where it is hard |
|---|---|---|---|
| Threaded drain (3007-3330) | one deque per worker, results queue, sentinel count, futures | pop, steal, compute, put, get, yield, close, join | threads interleave between any two deque operations; the caller may close the generator; a chunk may raise |
| Slice split (3142-3223) | sizes, positions | weigh, round, correct, slice | rounding misses the total; the last size can be negative |
| Worker state and eager barrier (1998-2056, 3073-3140, 3325-3330) | the module global `_parallel_worker_state`, the barrier | save, set, prime, read per chunk, restore | several calls share one global; a broken barrier; nested use in a worker process |
| Process drain (2614-2674, 2992, 3332-3375) | `in_flight` futures, the pool's queue, the shared pin index | submit, wait, result, resubmit, yield, close | completion order, dying workers, exceptions, early close |
| Checkpoint files (506-881) | data file, one progress file per entry point | append frame, append record, load, replay | death between and inside writes, several sessions, two formats of progress |
| Sequential generator (884-1014) | chunk index | compute in order, checkpoint, yield | resume point |
| Entry points (1709-1990, 2404-3375) | none of their own | choose executor, sizes, path; replay, check, yield or collect | one-worker shortcut with a different checkpoint format; a resume on a machine that chooses other sizes |
| Preparation, terms, labels (1017-1710, 3381-3438) | the growing accumulator | pure functions over arrays | two formats, a shortcut for dense operators, `assume_dense`, thresholds, Hermiticity |
| Kernels (257-502, `_native/*.c`) | none | transform, phase, gather, check | tiling and radix-8 must equal the plain butterfly |
| Lazy caches (183-255, `autotune.py`) | tile of each dimension, L2 figure, memory budget, scipy module and its flag | get or fill | double-checked locking; a fork between; a flag set before its import ends; a warning that raises inside the lock |
| Sizing (2059-2083, 2216-2403, `autotune.py`) | none | probe, bound, divide | figures that cannot be read; bounds that do not hold at the edge; index widths at 2^16 and 2^32 |
| Hamiltonian builder, Pauli utilities | none | assemble sparse or dense, pad, reconstruct | cells assigned twice, order of the spring constants |
| Command line (`cli.py`) | none | calls of `decompose` and `benchmark` | two calls of one command share a checkpoint path; zero counts as missing |
| Verification oracle (`verification/`) | none | project, compare, perturb | must not share what it checks |
| Cache probe, fixtures, build | none | | not modelled, see below |

How they interact: an entry point asks the lazy caches for the machine's
figures, sizes the chunks and the pool, prepares the operator, *loads and
replays the checkpoint*, computes the list of pending chunks, and then runs one
of three drains over it; the drain appends every finished chunk to the
checkpoint before it checks and yields it. The threaded drain splits the
pending list into slices and passes the operator through the module global; the
process drain ships the same state to each worker once. Every chunk goes through
the same gather, transform, threshold and check.

## Modules

| Module | Models | Composition |
|---|---|---|
| `ChunkDelivery` | abstract contract of an entry point: chunks are yielded at most once each; a normal end means all were yielded, a raised end has a cause | implemented by both drains (refinement mapping `Delivery`) and by every call of `DecomposeCall` |
| `DecomposeCall` | the entry points as their caller sees them, the commands, and several runs on one checkpoint path | extends `Sizing`; `Contract(chunks) == INSTANCE ChunkDelivery`; abstracts `Checkpoint` and the drains |
| `Sizing` | what a call decides from the machine: L2 figure, chunk sizes, memory, workers, kernels, index width | pure; used by `DecomposeCall` |
| `ThreadDrain` | the thread branch | `INSTANCE ChunkDelivery`; takes the split as the constant `Cut` |
| `SlicePartition` | the split | its theorem `SplitServesDrain` is `ThreadDrain`'s assumption about `Cut` |
| `WorkerState` | the module global around threaded calls, the barrier | abstracts `ThreadDrain` to a count of chunks |
| `ProcessDrain` | the process branch, and `parallel_decompose`, whose loop is the same | `INSTANCE ChunkDelivery` |
| `Checkpoint` | files and sessions of both entry points: the data file in cells of eight bytes, the progress files byte by byte | the drains' `completed` is its append |
| `LazyCaches` | what a process keeps about its machine and imports | what it returns is what `Sizing` is given, once per run |
| `PauliDecomposition` | one decomposition as numbers, from the operator to the terms, and the oracle | extends `Hamiltonian`, which extends `Pauli` |
| `Hamiltonian` | both builders, padding, the perturbation | |
| `Pauli` | masks, phases, the transform plain and tiled, labels, Kronecker products | |
| `*Proofs` | the theorems about the module they are named for | |
| `MC*` | constants for TLC | |

In each module the definitions named *Fault* are plausible bugs of one
definition; each property is known to fail when its definition is replaced by
its fault, so no property holds by the shape of the model. They take no part in
the specification.

### ThreadDrain

`front[w]` and `back[w]` bound worker `w`'s deque: a deque is filled once and
only popped, so its contents are always a run of the pending list. `pc` is the
place in `_run_slice`/`_steal`. One step is one deque operation, one length
read, one queue operation: each is atomic under the GIL and no lock is taken
around two of them. `_steal` is a scan (`ReadLength` once per other deque, in
index order, each length possibly stale when used), the choice of an order
(`ScanDone`, which lets equal lengths come in index order as `sorted` does)
and one `pop` per victim (`Steal`, `LostRace`), or `GiveUp`. The consumer
submits slices, takes messages (`GetSentinel`, `GetChunk`, `GetViolation`), is
suspended at a yield, may be closed there (`Close`), re-raises worker
exceptions at the end (`Join`) and leaves the `with` block only when every
thread has returned (`Leave`). A chunk in `MayFail` may raise in the worker
(`Raise`), which puts no sentinel.

### SlicePartition

`upTo` holds the running totals of `slice_sizes`; `_pos` is the total before
the slice. Python's `round` is to even on ties; the capacities are binary
fractions, so where a core is shared by a number of workers that is not a power
of two a tie may fall to either side, and the model allows both. The sizes the
model allows were compared with the code's expression for every combination of
up to 200 chunks, 64 workers and 40 cores.

### WorkerState

`Save`, `Set`, `Release`/`PrimingFails`, `DrainEnds`/`LeaveEarly`, `Join`,
`Restore` are the statements of the thread branch in order. With `eager_threads`
the pool takes `n_workers` primers (`Spawn`), each of which waits at the barrier
until all have come (`BarrierOpens`) or 30 seconds are over (`BarrierBreaks`).
Time has no length in the model, so both waits of 30 seconds (3134, 3140) may end
whenever something is still waited for: `BarrierBreaks` lets the threads at the
barrier go with an error, `PrimingFails` is the `result()` that timed out or met
that error, and leads to `broken`, where the pool shuts down and still runs
the primers that were submitted. The system may refuse a thread (`StartRefused`).
A thread's `Begin` reads the global, `End` computes with what it read; a global
that is `None` fails the assertion of `_parallel_worker_chunk`, and a chunk of a call
in `MayRaise` may raise (`Raise`): its thread then puts no sentinel. `initial` is `None` or
`Outer`, the state of a worker process in which the calls are made.
`MayOverlap` says whether a call may begin while another generator is still
alive.

### ProcessDrain

The pool is external: a FIFO of call items, workers that take, compute and
settle them, and a death that breaks the pool and fails every unsettled future.
`Prime`, `Wait`, `Deliver` (result, resubmission, checkpoint, yield),
`Violation`, `Close`, `Leave` are the generator's. A worker's start reads and
claims the shared pin index under its lock.

### Checkpoint

The data file is a sequence of cells of eight bytes, so that an append can be
torn inside a header and inside a payload: three header cells, `TermCells` cells
per term. The reader is the code's reader, cell by cell: it takes what stands at
its position for a header, whatever it is. A cell that is not a number reads as
`Huge`, beyond every index and length; the head of the module says why a cut
inside a cell ends in nothing else.

A progress file is a sequence of bytes. A record is the eight of `<Q`
(`Record`, `Unpacked`), low byte first, in the base `Radix`: 256 in the code, 2
for TLC. It can be cut after any byte (`Cuts`), and what is appended next
completes it, so that bytes of two appends are read as one number, which may be a
valid index: a one-byte remnant of 5 and the record of chunk 3 read as 5 + 3·256
= 773. The code neither notices nor mends it, and no property promises what such
a record says; `OnlyTheTailIsTorn` is the witness. `spliced` names these records;
it, `left` and `torn` record what interruptions left behind and appear in
properties only.

The same operator, chunk size and tolerance are used in every session; the file
does not record them and the code does not check them.

### LazyCaches

Two memories, the parent's and that of a forked worker, which inherits the
caches *and the locks* as they stand (`Fork`). A lookup of a tile, of the L2
figure or of the memory budget is the code's double-checked locking, statement
by statement: `Check` and `Read` without the lock, `Acquire`, `Recheck`,
`Measure`, `Store`, `Release`. A measurement may say anything (two measurements
may differ), and the warning about a missing probe raises inside the lock where
warnings are errors (`WarningRaised`). The scipy import has no lock: the flag is
set first (`Claim`), the module is there only when the import has ended, and the
import may be cut short by an exception (`_scipy_sparse_module`, 246).

### Sizing

A machine is a record of what the probes would read, `NotThere` where a file or
a field is missing; each operator is one function of `autotune.py` or one sizing
function of `fwht.py`, with integers for bytes. Geometric interpolation of the
floor anchors is the integer that satisfies the rounded equation. `//` is Python's
(`FloorDiv`), since the number of workers is divided by a chunk size that a caller may
give as a negative number.

### DecomposeCall

A run is a new process on one of `Machines`, which makes the calls of a program
in order: library calls, or those that a command line of `decompose` or
`benchmark` leads to (`CommandLine`, `Benchmark`). `Start` is everything up to
the first chunk: the path (`Plan`), what is replayed (`Replayable`) and what is
pending (`Pending`). A chunk is the set of rows it stands for. `Compute` appends
frame and record, *then* checks and yields, as the code does; `Replay` checks
and yields; a collected result is checked and returned at once (`Return`). The
caller may close, and the program may be interrupted, between any two steps.
`used` is history: the calls that opened the checkpoint and how they cut the
rows. `data` keeps the frames of both kinds of session in the order of the file,
and the reader stops at the first that no record vouches for (`Replayable`): on a
file that sequential and parallel sessions share it may stop before frames of its
own kind.

What is on disk is abstracted to frames and records: frames and records are
written together here. A death between the two, and what the reader makes of
it, is the subject of `Checkpoint`; so `EveryRowOnce` speaks of runs that are
interrupted between chunks, and `checkpoint_loss` of those that are not.

### Pauli, Hamiltonian, PauliDecomposition

A mask is the set of its bits: XOR is the symmetric difference, popcount the
cardinality. Complex numbers have integer parts and everything the code divides
by the dimension is kept multiplied by it, so the arithmetic is exact and an
equality is an equality; the tolerance is scaled alike. The plain transform and
the kernels' are modelled stage by stage in the order of their passes over
tiles; radix 8 is three stages on one block. `Build`, `Prepare`, `Block`,
`Whole`, `Finish` and `Verify` are the phases of a call: the nonzero cells, the
active rows, the chunks with their accumulator or their yields, thresholds, the
Hermiticity check, labels, and the projection of `verification/`. The
definition they are compared with is not taken from the code: it is the trace
of the operator with the Kronecker product of the label.

The tolerance for imaginary parts is the code's, `max(atol, 1e-6 * abs(c))`. The
code tests it in three places: twice in Python with the same text (1498-1500,
1551-1553; `Unreal`) and once compiled, with squares against the greater of two
squares (`_native/hermitian_check.c`; `UnrealSquared`). `Judge` is the one that a call
uses, and the properties speak of `Unreal`, whichever that was. So what `assume_hermitian` accepts need not be Hermitian to the last
digit: `AcceptedIsReal` says that it is real within that tolerance in every label,
`OracleAgrees` allows the projection to differ only by what was so taken away, and
`Reconstructs` asks of a caller who calls an operator Hermitian that it is.
`Blind` are the calls of the finding `assume_dense`, which see no cell at all.

## Runs

| Run | Instance | Result |
|---|---|---|
| `thread_drain` | 3 workers with slices of 2, 1, 0 chunks; one chunk may raise, one may violate | passes: `NothingLost`, `NothingTwice`, `ExitOnlyWhenDry`, `CompleteMeansAll`, `EarlyExitStillComputesAll`, refinement `DeliverySpec`, `EndsUnlessWorkerRaises` |
| `thread_drain_raise` | 2 workers, 3 chunks | **violated** `AlwaysEnds`: a raising chunk leaves the consumer in `get()` for good |
| `process_drain` | 2 workers, 6 chunks, window 4; raising, violating, dying | passes: `BacklogBounded`, `WindowFull`, `DistinctPins`, `NothingRunsAfterEnd`, refinement `DeliverySpec`, `AlwaysEnds` |
| `checkpoint` | 3 chunks, one of them empty, 4 sessions of one mode, torn writes, records cut after 1 or 7 bytes | passes: `RecordedHasFrame`, `ResumeIsExact`, `AlignedUnlessTorn`, `SequentialLosesNothing`, `SequentialInOrder` |
| `checkpoint_loss` | parallel, no torn writes | **violated** `CompletedWorkReplays`: recorded frames behind an unrecorded one are neither replayed nor recomputed |
| `worker_state` | 2 calls, 3 threads, 3 chunks, one call after the other; a chunk of the first may raise; threads come late to the barrier or are refused | passes: `OwnOperator`, `StateRestored`, `ThreadsBeforeChunks`, `CallsEnd` |
| `slice_partition` | up to 24 chunks, 9 workers, 5 cores | passes: `SlicesPartition`, `DriftIsBounded` |
| `lazy_caches` | 2 threads, a forked worker, 1 dimension, 4 lookups, warnings raise | passes: `FilledOnce`, `ReadersAgree`, `BlindOnlyDuringImport`, `LookupsReturn` |
| `decompose_call` | 4 machines, 2 operators, every entry point and command line, 3 runs on one path | passes: type, `EveryRowOnce`, `ViolationNeverPasses`, `AutomaticNeverRefused`, `EachCallDelivers` |
| `decompose_resume` | the same, 2 runs | **violated** `SameCallResumes`: the same call resumed where the machine has other figures cuts other chunks, and rows are lost or come twice |
| `arithmetic` | all operators of 1 qubit over 1, i, -i, and almost real ones of two sizes; those of 2 qubits with two cells, and full ones; 1 to 3 oscillators; every entry point, format, chunking and tile | passes: `ResultIsTheDecomposition`, `Reconstructs`, `RefusedIsNotHermitian`, `AcceptedIsReal`, `OracleAgrees`, `BuildersAgree` |
| `assume_dense` | the same | **violated** `AssumeDenseIsSafe`: without a chunk size the empty placeholders are scattered, and every coefficient is zero |

The violated ones are statements of the repository's own comments, docs or
tests that the code does not keep; `PROJECT.json` quotes each. What would mend
them: put the sentinel in a `finally`; let the parallel reader skip an
unrecorded frame instead of stopping there, and keep one frame per chunk; record
the chunk size in the checkpoint and refuse or adopt it; detect the nonzero
cells, or gather directly, whenever `assume_dense` meets no chunk size.

A type invariant is run where no theorem covers it. `TypeOK` of `ThreadDrain`,
`ProcessDrain`, `Checkpoint`, `WorkerState`, `SlicePartition`, `LazyCaches` and
`PauliDecomposition` is proved for every value of their constants, so no run repeats it; the same
holds for `EarlyEndIsBounded` of `ProcessDrain`. `TypeOK` of `DecomposeCall` is
both: it says that frames and records agree, besides types.

### Further witnesses

These configurations show other disagreements; each is one
`tlc -config <cfg> <module>` away (the module is the one whose name begins that of the
configuration) and ends in a counterexample.

| Configuration | Property it violates | What it shows |
|---|---|---|
| `MCThreadDrainBacklog` | `StreamBounded` | the results queue of the threaded drain grows to the whole output |
| `MCCheckpointDuplicate` | `NoDuplicate` | an unrecorded frame counts once its chunk is recorded later |
| `MCCheckpointMixed` | `ModesNeverCollide` | sequential and parallel sessions share one data file |
| `MCCheckpointTorn` | `TornTailMeansNotRecorded` | nothing cuts a torn tail off before the next append |
| `MCCheckpointMisread` | `OnlyTheTailIsTorn` | "only the final record can ever be torn" (548-549): a torn record is completed by the next one and read as the index of a chunk that has no frame |
| `MCDecomposeCallMemory` | `ProcessesFitMemory` | the docstring of `_recommended_parallel_chunk_size` (2384-2390) says that the chunk fits beside what a worker holds; the estimate of that leaves out `sorted_values` (2043, 2637), 16 bytes per nonzero cell of each process; it counts the other arrays once per process, as the docstring has it, though forked processes may share pages |
| `MCWorkerStateOverlap` | `OwnOperator` | of two threaded calls alive at once, chunks of one use the other's operator |
| `MCPauliDecompositionPerturbed` | `PerturbedIsNotHermitian` | `make_non_hermitian` (`src/verification/run_verification.py:54-65`) adds an antisymmetric *imaginary* part, which is Hermitian; `src/verification/FINDINGS.md:150-155` relies on it as a non-Hermitian case |
| `MCPauliDecompositionWithinAtol` | `RealWithinAtol` | `assume_hermitian` lets an imaginary part pass up to `max(atol, 1e-6 * abs(c))` (1500, 1554); the docstring of `fwht_pauli_terms` (1646-1648) says that it "asserts every returned coefficient's imaginary part is within ``atol`` of zero" |

Read while modelling, without a configuration of their own: the docstring of
`fwht_pauli_terms` calls `False` the default of `assume_hermitian`, which is
`True`; `verify_terms` fails over an empty list of terms, while its streaming
form passes it; the oracle checks the labels that are listed and cannot miss one
that is not; a negative `chunk_size` on a parallel path yields nothing and ends
normally.

### Why the bounds are enough

- *Thread drain.* Two thieves can race for one victim's last chunk only with
  three workers; a slice of two chunks lets owner and thief meet on one deque
  with work left, and an empty slice starts as a thief. The invariants are
  proved for all numbers.
- *Process drain.* Six chunks against a window of four: the window fills,
  refills twice and drains with nothing pending. Two workers are enough for
  out-of-order completion and for a race on the pin index.
- *Checkpoint.* The losses need three sessions; a fourth sees what the third
  wrote. Three chunks let a frame be first, between and last; an empty chunk is
  a frame without payload. With `Radix` 2 the three indices take one byte and two,
  and a record cut after its first byte or its seventh makes, with the next one,
  every kind of number: a chunk's own, another chunk's, and one of no chunk. The
  theorems hold for every `Radix` and every set of `Cuts`.
- *Worker state.* Two calls suffice for one to see the other's state; with three
  threads one can wait at the barrier, one be late and one be refused.
- *Slices.* Five cores and nine workers contain uneven sharing (1 and 2 per
  core), cores shared by three (9 on 3) and negative corrections (6 on 5 workers
  and 4 cores).
- *Caches.* Double-checked locking fails with two threads if it fails; the
  worker is a third. `MaxLookups` = 4 lets each thread look up, come back to a
  filled cell, and a fork fall before, between and after.
- *Calls.* Three runs: one writes, one resumes in part, one finds the rest. Four
  machines tell the branches of the sizing apart: plenty, one row short, a job
  limit with a probe, and nothing readable. Three active rows cut into chunks of
  one, two, three and 32. Rows, machines, operators and programs are unbounded
  in the theorems.
- *Arithmetic.* Two qubits have every pair of one-bit phases; three oscillators
  need four qubits and fill tiles of two, four and eight entries. `MinCapacity`
  is 2 instead of 1024 and `Relative` 1000 instead of 10^6, so that the
  accumulator grows and the relative tolerance decides with small integers.
  `MCRoot` gives each square root a number of its own.

### Fairness

Weak fairness of every thread, process or pool step says that the operating
system and the interpreter keep scheduling what can run. Weak fairness of the
generator's steps says that its caller keeps iterating it or closes it; nothing
is assumed about whether it closes. A worker's death, a torn write, a raising or
violating chunk, a refused thread and a generator closed early are never required to happen
or not to. In `WorkerState` a wait at the barrier is fair, because its 30 seconds
pass: it ends either way.
In `LazyCaches` each thread's own step is fair once it is inside a lookup, and
nobody has to ask or to fork. No strong fairness is used. `Checkpoint`,
`SlicePartition`, `DecomposeCall` and `PauliDecomposition` claim no liveness:
their steps follow each other without anybody to wait for.

## Theorems

All are checked by TLAPS without further assumptions than the named `ASSUME`s
on the constants, and hold for every number of chunks, workers, threads, calls
and sessions, every split, every operator and machine, and every set of raising or
violating chunks.

- `ThreadDrainProofs`. The inductive invariant says where chunks are: each
  deque stays inside its own slice, a worker holds a chunk exactly while it
  computes (or after it raised), everything of a slice outside its deque was
  taken once, and results are in one-to-one correspondence with what was
  taken. `ExitOnlyWhenDry` needs more than it says: a thief that has probed
  some victims relies on deques never growing, so what it found empty stays
  empty. Sentinels are tied to returned workers one to one, which gives
  `CompleteMeansAll` by counting, and the refinement of `ChunkDelivery`.
  `NothingLost` and `NothingTwice` follow from the same invariant.
- `SlicePartitionProofs`. The running totals rise except at the corrected last
  slice; what is filled so far covers everything up to the last total.
  `SplitServesDrain` is the assumption that `ThreadDrain` makes of `Cut`. It
  uses of the rounding only that sizes are natural numbers, so the split is
  right whatever the floating point does. That it is *fair* (`DriftIsBounded`) is
  an argument about fractions without fractions: over the common denominator
  `Unit` of all sharings each slice has a whole `Weight`, and the weights of all
  slices add up to `Unit`, since the workers of one core share its capacity
  exactly (`WorkersOnCore`). Each rounding is off by a half at most, so after `k`
  slices the running total is off by at most `k` halves, whichever way ties fall.
- `WorkerStateProofs`. For calls that do not overlap: at most one call is
  alive, what it saved is the initial value, and from `Set` to `Restore` the
  global is its own; its threads live only in between. `BarrierFirst` needs no
  such assumption.
- `ProcessDrainProofs`. Futures are partitioned into in flight, done and
  handled; submitted chunks are an initial segment of pending; window sizes
  follow by counting. Pins: between `ReadIndex` and `ClaimIndex` one worker
  holds the lock. The refinement of `ChunkDelivery` is proved from the same
  invariant.
- `CheckpointProofs`. A record is only ever appended for the chunk whose frame
  was appended just before, and files only grow: `RecordedHasFrame`, for every
  record whose eight bytes are of one append. That those read back as the chunk
  they were written for, in every base, is `CheckpointAssumption`'s
  `NChunks <= Capacity`: an index fits into a record.
  The data file is a row of whole frames: the chunks
  `ks` they are of, and `at`, where each begins. As long as nothing is torn the reader
  is always at one of these places (`AlignedUnlessTorn`, for both kinds of
  session on one file too). `ResumeIsExact` and `SequentialInOrder` need in addition what may
  stand behind the last recorded frame (`TailOf`): nothing, the frame whose
  record is due, or what one interruption left of a chunk that no record names. The
  records name the chunks of the frames in their order, so a reader that meets
  a name that is not recorded, or too few cells, is at that tail; and a session
  that appends behind a tail buries it, which is where these two properties end.
  `SequentialLosesNothing` goes on after that: the indices of the frames still
  count up, perhaps with repetitions, and each record has a frame (`Superseded`).
  These three have the hypothesis `MayMix = FALSE`, that all sessions on a file
  are of one kind: the code does not enforce it, and without it they are false
  (`MCCheckpointMixed`).
- `LazyCachesProofs`. Whoever is between `Acquire` and `Release` holds the lock of
  its cell. A figure that was measured and is not in its cell is on its way
  there, with the lock held, or was when the parent forked: then the lock was
  copied as held by a thread that the worker does not have, and nobody measures
  again. That gives one measurement and one figure per process, for every number
  of threads and dimensions and wherever the fork falls. The scipy theorem is an
  action property: the flag is set and the module missing only while its setter
  is inside the import or was interrupted there.
- `DecomposeCallProofs`. For `EveryRowOnce`: each frame was cut by one of the
  calls in `used`, each record has its frame, and the records of sequential
  sessions are a prefix (that is why "up to the last one" and "the recorded
  ones" mean the same); what is still to compute was not recorded, and if the
  sessions cut alike, a row is counted exactly when its chunk is neither due nor
  to be replayed. For `ViolationNeverPasses`: a row that violates is counted for
  a collected result alone, and only until it is returned. For `EachCallDelivers`:
  what was promised is what was yielded, what is
  still to be replayed and what is still to be computed, three disjoint sets of
  names; no two frames share kind and index, since what was recorded is not
  computed again; and every frame has its record, so the reader, which stops at
  the first that has none, stops nowhere (`ReplayableIs`). `IndicesFit` says the index widths hold every index up to 64 qubits.
  The assumptions are about inputs alone: an operator has some number of qubits,
  nonzero cells and active rows, and what the probes of a machine read are
  natural numbers or nothing, with finitely many allowed CPUs and at least one.
  That the figures computed from them (`Figures`: L2 size, available
  memory, chunk sizes, floors, workers) are again numbers in their ranges is proved,
  through the jumps of the probe's latencies, the powers of two and the interpolation
  between the anchors, whose integer is a least number (`LeastNatural`). From it
  follow `TypeCorrect` and `AutomaticCallIsAccepted`: what the code chooses by itself is never
  what it refuses.

- `PauliDecompositionProofs`. For every operator, number of qubits, chunk size,
  tile, tolerance, format and order of chunks. It rests on four closed forms. *The
  transform* (`TransformIsTheDefinition`): after `k` stages an entry is the signed sum
  over the entries that differ from it in the bits below `k` (`AfterStages`); a stage
  on a set of columns that it does not leave (`Closed`) does to them what it does to
  all, so tiles may be finished one after the other, and the kernel gives what the
  butterfly gives. *Kronecker products* (`StringEntryClosed`): an entry is zero unless
  row and column differ by `x`, and otherwise a sign times a power of i, factor by
  factor over the bits. *The coefficient* (`CoefficientIsTrace`): signed sum times
  phase is the trace. *Labels* name masks one to one and read back the same. What
  of it is an induction is over explicit sets of numbers or of subsets of a finite
  set (`NaturalsFrom`, `FiniteFrom`), and a fold is compared with a recursion on
  subsets (`FoldExists`).
  The inductive invariant `IInv` says what each stage has computed (`Read`), and that
  what was gathered or yielded so far lists, each once, the coefficients above atol
  of the rows whose chunks are done (`Listing`). It is stronger than
  `ResultIsTheDecomposition`, which speaks of the end alone: a chunk adds rows that
  are none of those done (`OneMoreChunk`), so lists may be put together in any
  order, and no row is missing when no chunk is left (`ChunksCover`). Rows
  that are not active have no trace (`TraceOutside`), so what is not listed is zero.
  That gives `TypeCorrect` and `DecompositionIsRight`.
  The second invariant `Judged` says what the Hermiticity check has seen: until it
  raises, no coefficient of the rows done is `Unreal`, and what it names when
  it raises is. `TestsAgree` makes that one statement for both tests: the compiled one
  refuses exactly what the other does. A Hermitian operator has real traces (`RealOfHermitian`): from both
  follow `RefusedAreNotHermitian` and `AcceptedAreReal`; with the projection equal to
  the trace (`ProjectionIs`) also `OracleAlwaysAgrees`.
  `TermsReconstruct`: the transform of the transform is the row times the dimension
  (`WalshTwice`, by halves of the row), so the traces rebuild the operator
  (`TracesRebuild`), and with atol zero and a Hermitian operator nothing was
  taken from them. `BuildersAlwaysAgree`: the assignments of the loops are to
  different cells (`MirroredTriples`), which needs the number of couplings.
  The assumptions: `DecompositionAssumption`, that the perturbation, the least
  capacity and the inverse of the relative tolerance are positive; and
  `CallsAssumption`, that calls pass matrices of complex numbers on some number of
  qubits, numbers for the square roots, and arguments that their entry point has.

Only model-checked: everything about liveness (`EndsUnlessWorkerRaises`,
`AlwaysEnds`, `CallsEnd`, `LookupsReturn`), which is beyond the prover. Every
invariant and every other property of a passing run is a theorem too.

### What the properties exclude

Each of these does happen in the code; no property claims otherwise.

- *A torn append that was appended to* (`left = "buried"`). `ResumeIsExact` and
  `SequentialInOrder` end with the session that buried it, `AlignedUnlessTorn` and
  `SequentialLosesNothing` with the tear, and `RecordedHasFrame` leaves out the
  records in `spliced`: witnesses `MCCheckpointTorn` and `MCCheckpointMisread`.
- *Both kinds of session on one path, another chunk size on resume, and a negative
  chunk size.* `EveryRowOnce` speaks of sessions that cut the rows alike and are of
  one kind, with a positive chunk size: witness `MCCheckpointMixed`, run
  `decompose_resume`.
- *A row that does not fit the memory.* `_recommended_parallel_chunk_size`
  then chooses 1 (2400) and the call goes on; nothing says how much memory a
  worker takes, only how the code estimates it (`Sizing.ResidentBytes`): witness
  `MCDecomposeCallMemory`.
- *Two calls alive at once*, for `OwnOperator` and `StateRestored`: witness
  `MCWorkerStateOverlap`.
- *A chunk that raises in a thread*, for `CallsEnd`: run `thread_drain_raise`.

## Not modelled

- *Rounding.* All arithmetic is exact; the order of floating-point additions,
  vector instructions, buffers and overflow of doubles are not modelled. Where
  rounding decides control (`round` of the slice sizes, the anchors) it is.
- *The machine.* Reading `/sys`, `/proc` and cgroup files is the record
  `machine`: what they may give is enumerated, how they are parsed is not. The
  cache probe (`_native/cache_probe.*`) measures time; what it may return is the
  field `samples`. Of pinning by `sched_setaffinity` only the choice of the
  index is modelled.
- *Arguments.* Refusal of malformed operators (not square, not a power of two),
  parsing of the command line, its printing and exit codes, and
  `regenerate-fixtures`.
- *Labels beyond 32 qubits.* 3410 cuts masks to 32 bits; small dimensions never
  get there.
- *Pickling, logging, progress output.*
- *Verification.* The comparison with PennyLane and the report; the fixtures
  are constants.
- *Build and packaging*, `docs/conf.py`.

## Plan

1. *Done*: the drains and their contract, the split, the worker state, the
   checkpoint; the caches; sizing and the calls over several runs; the
   arithmetic against its definition; the theorems above.
2. *Done*: the reader of the checkpoint and its four properties, the figures of
   `Sizing` and what rests on them, the fairness of the split.
3. *Done*: the arithmetic for every dimension, and all invariants of
   `PauliDecomposition`.
4. That `Checkpoint` implements what `DecomposeCall` assumes of frames and records
   when interruptions fall between chunks; that `PauliDecomposition`'s rows are what
   `DecomposeCall` counts as rows.
