--------------------------- MODULE SlicePartition ---------------------------
(***************************************************************************)
(* How the threaded drain splits pending into one slice per worker: sizes  *)
(* in proportion to each worker's share of its physical core, rounded, the *)
(* drift corrected on the last slice, and then cut off one after another.  *)
(* What results is what ThreadDrain takes as the constant Cut.             *)
(*                                                                         *)
(* A list of sizes is represented by its running totals, and a slice by    *)
(* the positions of pending it holds.  Sizes may come out negative and     *)
(* totals may pass the end of the list: Python's slicing copes with both.  *)
(***************************************************************************)
EXTENDS Integers, FiniteSets

CONSTANTS
  MaxPending,   \* bound on len(pending)
  MaxWorkers,   \* bound on n_workers
  MaxCores      \* bound on len(pin_cpus)

ASSUME PartitionAssumption ==
  /\ MaxPending \in Nat \ {0}
  /\ MaxWorkers \in Nat \ {0}
  /\ MaxCores \in Nat

VARIABLES
  nPending,   \* len(pending)
  nWorkers,   \* n_workers
  nCores,     \* len(pin_cpus), 0 where it is None
  stage,      \* which of the three statements runs
  next,       \* the slice it is at
  upTo,       \* w -> the total of slice_sizes[0 .. w - 1]
  slices      \* slices

inputs == <<nPending, nWorkers, nCores>>
vars   == <<inputs, stage, next, upTo, slices>>

\* n_slices
NSlices == IF nWorkers <= nPending THEN nWorkers ELSE nPending
Slices  == 1 .. NSlices

Init ==
  /\ nPending \in 1 .. MaxPending
  /\ nWorkers \in 1 .. MaxWorkers
  /\ nCores \in 0 .. MaxCores
  /\ stage = "size"
  /\ next = 1
  /\ upTo = [w \in 0 .. NSlices |-> 0]
  /\ slices = [w \in Slices |-> {}]

-----------------------------------------------------------------------------
\* The workers that share the core of worker w: _workers_per_core.
Sharing(w) ==
  IF nCores = 0 THEN {w}
  ELSE {v \in Slices : (v - 1) % nCores = (w - 1) % nCores}

\* _total_capacity: every core in use counts one.
TotalCapacity ==
  IF nCores = 0 \/ NSlices <= nCores THEN NSlices ELSE nCores

\* The exact size of slice w is nPending over this.
Divisor(w) == Cardinality(Sharing(w)) * TotalCapacity

\* Are all capacities, and so the quotients that are ties, exact in binary?
PowersOfTwo == {1, 2, 4, 8, 16, 32, 64}
Exact == \A w \in Slices : Cardinality(Sharing(w)) \in PowersOfTwo

\* Fault: int() instead of round().
RoundedDown(w) == {nPending \div Divisor(w)}

\* round(len(pending) * c / _total_capacity): to even on a tie, and to either
\* side of it when the capacities carry a rounding error.
Rounded(w) ==
  LET d     == Divisor(w)
      below == nPending \div d
      twice == 2 * (nPending % d)
  IN  {s \in {below, below + 1} :
         /\ twice < d => s = below
         /\ twice > d => s = below + 1
         /\ twice = d /\ Exact => s % 2 = 0}

\* One element of slice_sizes.
SizeSlice ==
  /\ stage = "size" /\ next <= NSlices
  /\ \E s \in Rounded(next) : upTo' = [upTo EXCEPT ![next] = upTo[next - 1] + s]
  /\ next' = next + 1
  /\ UNCHANGED <<inputs, stage, slices>>

\* Fault: the drift is left where it is.
LeaveLast ==
  /\ stage = "size" /\ next > NSlices
  /\ stage' = "fill"
  /\ next' = 1
  /\ UNCHANGED <<inputs, upTo, slices>>

\* slice_sizes[-1] += len(pending) - sum(slice_sizes)
CorrectLast ==
  /\ stage = "size" /\ next > NSlices
  /\ upTo' = [upTo EXCEPT ![NSlices] = nPending]
  /\ stage' = "fill"
  /\ next' = 1
  /\ UNCHANGED <<inputs, slices>>

\* pending[_pos:_pos + _size]
FillSlice ==
  /\ stage = "fill" /\ next <= NSlices
  /\ slices' = [slices EXCEPT ![next] =
                  {i \in 1 .. nPending : upTo[next - 1] < i /\ i <= upTo[next]}]
  /\ next' = next + 1
  /\ UNCHANGED <<inputs, stage, upTo>>

Next == SizeSlice \/ CorrectLast \/ FillSlice

Spec == Init /\ [][Next]_vars

-----------------------------------------------------------------------------
(* Properties.                                                             *)

TypeOK ==
  /\ nPending \in 1 .. MaxPending
  /\ nWorkers \in 1 .. MaxWorkers
  /\ nCores \in 0 .. MaxCores
  /\ stage \in {"size", "fill"}
  /\ next \in 1 .. NSlices + 1
  /\ upTo \in [0 .. NSlices -> Nat]
  /\ slices \in [Slices -> SUBSET (1 .. nPending)]

Filled == stage = "fill" /\ next > NSlices

\* However the sizes were rounded, and even when the correction makes the
\* last one negative, the slices hold every pending chunk exactly once and in
\* order.
SlicesPartition ==
  Filled =>
    /\ \A i \in 1 .. nPending : \E w \in Slices : i \in slices[w]
    /\ \A v, w \in Slices : v < w =>
         \A i \in slices[v], j \in slices[w] : i < j

\* "Rounding can drift the total off len(pending) by a few items": by at most
\* one for every two slices, so the last slice is off its share by no more.
DriftIsBounded ==
  stage = "size" /\ next > NSlices =>
    LET drift == nPending - upTo[NSlices]
    IN  2 * drift <= NSlices /\ -2 * drift <= NSlices
=============================================================================
