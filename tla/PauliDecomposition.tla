------------------------- MODULE PauliDecomposition -------------------------
(***************************************************************************)
(* One decomposition, from the operator to the terms its caller gets: the  *)
(* entry points of fwht.py that need no pool, one worker's share of those  *)
(* that do, and the check of verification/ against a projection that is    *)
(* derived another way.  Every value is kept multiplied by dim, and atol   *)
(* with it.                                                                *)
(*                                                                         *)
(* A request is a call:                                                    *)
(*   entry "matrix", "rows", "triples"  fwht_pauli_coefficients            *)
(*         "terms", "stream"            fwht_pauli_terms and ..._iter      *)
(*         "arrays"                     parallel_decompose_arrays, then    *)
(*                                      terms_from_arrays in the caller    *)
(*   input, chunk (0 for None), dense (assume_dense), hermitian, atol      *)
(*   kernel  log2 of the tile, or NoKernel where nothing was compiled.     *)
(* An origin is what the operator is made of: a given one, or as many      *)
(* oscillators, perturbed or not.                                          *)
(***************************************************************************)
EXTENDS Hamiltonian

CONSTANTS Calls,        \* pairs of an origin and a request
          Perturbation, \* the size of make_non_hermitian's values
          MinCapacity,  \* what an accumulator holds at least, 1024
          Relative      \* 10^6, of the tolerance for imaginary parts

ASSUME DecompositionAssumption ==
  {Perturbation, MinCapacity, Relative} \subseteq Nat \ {0}

\* What a caller may pass: only terms can be asked to be real, some entry
\* points have no way to do without chunks, and two no use for them.
IsRequest(r) ==
  /\ r.entry \in {"matrix", "rows", "triples", "terms", "stream", "arrays"}
  /\ r.input \in {"dense", "sparse"}
  /\ r.dense \in BOOLEAN /\ r.hermitian \in BOOLEAN
  /\ r.chunk \in Nat /\ r.atol \in Nat /\ r.kernel \in Nat \cup {NoKernel}
  /\ r.hermitian => r.entry \in {"terms", "stream", "arrays"}
  /\ r.entry \in {"triples", "stream", "arrays"} => r.chunk > 0
  /\ r.entry \in {"matrix", "rows"} => r.chunk = 0

IsOrigin(o) ==
  /\ o.oscillators \in Nat /\ o.perturbed \in BOOLEAN
  /\ o.oscillators = 0 => IsOperator(o.matrix)
  /\ \A i, j, l \in 0 .. o.oscillators - 1 : Root(i, j, l) \in Int

ASSUME CallsAssumption ==
  \A call \in Calls : IsOrigin(call.origin) /\ IsRequest(call.request)

VARIABLES origin, request,
          stage,     \* "new", "built", "blocks", "whole", "done" or "raised"
          operator,
          cells,     \* p_nz and q_nz
          active,    \* active_x
          left,      \* first rows of the chunks not computed yet
          grown,     \* the accumulator
          result,    \* what the caller got so far
          named,     \* the label in the ValueError
          verdict    \* of the check against the projection

vars == <<origin, request, stage, operator, cells, active, left, grown, result,
          named, verdict>>

Chunked == request.chunk > 0
Dim == 2^operator.n
InOrder == [k \in 1 .. Dim |-> MaskOf(k - 1, operator.n)]
Smaller(a, b) == IF a <= b THEN a ELSE b

-----------------------------------------------------------------------------
(* The accumulator: room is doubled when it runs out.                      *)

Junk == [unwritten |-> TRUE]
Empty(capacity) == [data |-> [k \in 1 .. capacity |-> Junk], size |-> 0]

Placed(grow, values, data) ==
  [data |-> [k \in DOMAIN data |->
               IF k \in grow.size + 1 .. grow.size + Len(values)
               THEN values[k - grow.size] ELSE data[k]],
   size |-> grow.size + Len(values)]

Room(grow, values) ==
  LET needed == grow.size + Len(values)
  IN  IF needed > Len(grow.data) THEN Greatest(needed, 2 * Len(grow.data))
      ELSE Len(grow.data)

Extended(grow, values) ==
  Placed(grow, values, [k \in 1 .. Room(grow, values) |->
                          IF k <= Len(grow.data) THEN grow.data[k] ELSE Junk])

Finalized(grow) == SubSeq(grow.data, 1, grow.size)

-----------------------------------------------------------------------------
(* From the operator to rows, and from rows to coefficients.               *)

\* assume_dense counts only for an ndarray.
Assumed == request.dense /\ request.input = "dense"

FullyDense == request.input = "dense" /\ Len(active) = Dim

RowOf(cell) == CHOOSE i \in DOMAIN active : active[i] = Xor(cell[1], cell[2])

\* Row i, counted from 1, scattered from the nonzero cells.
Scattered(i) ==
  LET mine == {cell \in cells : RowOf(cell) = i}
  IN  [q \in Masks(operator.n) |->
         Total([cell \in {c \in mine : c[2] = q} |-> operator.at[cell]])]

\* Row i read from the operator: entry q is operator[(i - 1) ^ q, q].
ReadDirectly(i) ==
  [q \in Masks(operator.n) |->
     At(operator, Xor(MaskOf(i - 1, operator.n), q), q)]

Gathered(i) == IF Chunked /\ FullyDense THEN ReadDirectly(i) ELSE Scattered(i)

Coefficients(i) ==
  LET row == Transform(Gathered(i), operator.n, request.kernel)
  IN  [k \in 1 .. Dim |->
         [x |-> active[i], z |-> InOrder[k],
          value |-> Times(row[InOrder[k]], ConjPhase(active[i], InOrder[k]))]]

\* The block of rows from + 1 .. to, row after row.
AllOf(from, to) ==
  LET rows == [i \in from + 1 .. to |-> Coefficients(i)]
  IN  [k \in 1 .. (to - from) * Dim |->
         rows[from + 1 + (k - 1) \div Dim][((k - 1) % Dim) + 1]]

Survives(entry) == Square(entry.value) > request.atol * request.atol

\* np.nonzero gives the places of those that survive in their order.
Kept(entries) ==
  LET places == {k \in DOMAIN entries : Survives(entries[k])}
      at == Ascending(places, [k \in places |-> k])
  IN  [m \in DOMAIN at |-> entries[at[m]]]

Emitted(from, to) == Kept(AllOf(from, to))

\* _build_real_terms, and the check of a chunk where nothing was compiled.
Unreal(v) == /\ v.im * v.im > request.atol * request.atol
             /\ Relative * Relative * (v.im * v.im) > Square(v)

\* Fault: the relative tolerance is not squared as all else is.
UnrealNotSquared(v) ==
  Relative * (v.im * v.im) > Greatest(Relative * (request.atol * request.atol),
                                      Square(v))

\* The compiled check, which takes no root: squares against the greater square.
UnrealSquared(v) ==
  LET scale == Relative * Relative
  IN  scale * (v.im * v.im) > Greatest(scale * (request.atol * request.atol),
                                       Square(v))

\* Chunks of arrays are checked by compiled code where there is any.
Judge(v) == IF request.entry = "arrays" /\ request.kernel # NoKernel
            THEN UnrealSquared(v) ELSE Unreal(v)

\* The coefficients that are not real enough, in the order of the arrays.
Violations(entries) == {k \in DOMAIN entries : Judge(entries[k].value)}

Refused(entries) == request.hermitian /\ Violations(entries) # {}

LabelOf(entry) == Label(entry.x, entry.z, operator.n)

\* _build_real_terms, or the complex terms as they are.
Terms(entries) ==
  [k \in DOMAIN entries |->
     [label |-> LabelOf(entries[k]),
      value |-> IF request.hermitian THEN C(entries[k].value.re, 0)
                ELSE entries[k].value]]

-----------------------------------------------------------------------------
Init ==
  /\ \E call \in Calls : origin = call.origin /\ request = call.request
  /\ stage = "new"
  /\ operator = [n |-> 0, at |-> [pq \in {} |-> Zero]]
  /\ cells = {}
  /\ active = <<>>
  /\ left = {}
  /\ grown = Empty(0)
  /\ result = <<>>
  /\ named = <<>>
  /\ verdict = "none"

\* The verification script builds sparse for a Hermitian operator, and dense
\* to perturb it.
Build ==
  /\ stage = "new"
  /\ operator' = IF origin.oscillators = 0 THEN origin.matrix
                 ELSE IF origin.perturbed
                 THEN Perturbed(Oscillators(origin.oscillators, "dense"), Perturbation)
                 ELSE Oscillators(origin.oscillators, request.input)
  /\ stage' = "built"
  /\ UNCHANGED <<origin, request, cells, active, left, grown, result, named, verdict>>

\* _prepare_operator_for_fwht and _active_x_and_inverse.
Prepare ==
  /\ stage = "built"
  /\ cells' = IF Assumed THEN {} ELSE DOMAIN operator.at
  /\ active' = IF Assumed THEN InOrder
               ELSE LET x_nz == {Xor(cell[1], cell[2]) : cell \in cells'}
                    IN  Ascending(x_nz, [x \in x_nz |-> ValueOf(x)])
  /\ left' = IF Chunked
             THEN {i \in 0 .. Len(active') - 1 : i % request.chunk = 0} ELSE {}
  /\ grown' = IF Chunked /\ request.entry \in {"triples", "terms"}
              THEN Empty(Greatest(MinCapacity, (Len(active') * Dim) \div 2))
              ELSE grown
  /\ stage' = IF Chunked THEN "blocks" ELSE "whole"
  /\ UNCHANGED <<origin, request, operator, result, named, verdict>>

\* Fault: the first coefficient is named, real or not.
RaiseFirst(entries) ==
  /\ named' = LabelOf(entries[1])
  /\ stage' = "raised"
  /\ UNCHANGED <<grown, result>>

\* ValueError for the first coefficient that is not real.
Raise(entries) ==
  /\ named' = LabelOf(entries[Min(Violations(entries))])
  /\ stage' = "raised"
  /\ UNCHANGED <<grown, result>>

\* One chunk.  A pool computes them in any order, one process in theirs.
Block ==
  /\ stage = "blocks"
  /\ \E start \in left :
       LET entries == Emitted(start, Smaller(start + request.chunk, Len(active)))
       IN  /\ request.entry # "arrays" => start = Min(left)
           /\ left' = left \ {start}
           /\ \/ /\ request.entry \in {"triples", "terms"}
                 /\ grown' = Extended(grown, entries)
                 /\ UNCHANGED <<stage, result, named>>
              \/ /\ request.entry \in {"stream", "arrays"}
                 /\ ~Refused(entries)
                 /\ result' = result \o Terms(entries)
                 /\ UNCHANGED <<stage, grown, named>>
              \/ /\ request.entry \in {"stream", "arrays"}
                 /\ Refused(entries)
                 /\ Raise(entries)
  /\ UNCHANGED <<origin, request, operator, cells, active, verdict>>

Deliver(entries) ==
  \/ /\ request.entry # "terms"
     /\ result' = entries
     /\ stage' = "done"
     /\ UNCHANGED <<grown, named>>
  \/ /\ request.entry = "terms"
     /\ ~Refused(entries)
     /\ result' = Terms(entries)
     /\ stage' = "done"
     /\ UNCHANGED <<grown, named>>
  \/ /\ request.entry = "terms"
     /\ Refused(entries)
     /\ Raise(entries)

\* All rows at once.  Only fwht_pauli_terms drops the small ones.
Whole ==
  /\ stage = "whole"
  /\ LET all == AllOf(0, Len(active))
     IN  Deliver(IF request.entry = "terms" THEN Kept(all) ELSE all)
  /\ UNCHANGED <<origin, request, operator, cells, active, left, verdict>>

Finish ==
  /\ stage = "blocks"
  /\ left = {}
  /\ \/ request.entry \in {"triples", "terms"} /\ Deliver(Finalized(grown))
     \/ /\ request.entry \in {"stream", "arrays"}
        /\ stage' = "done"
        /\ UNCHANGED <<grown, result, named>>
  /\ UNCHANGED <<origin, request, operator, cells, active, left, verdict>>

-----------------------------------------------------------------------------
(* The oracle.                                                             *)

\* project_labels, for one label.
Projection(label) ==
  LET mask == LabelToMasks(label)
      mine == {cell \in DOMAIN operator.at : Xor(cell[1], cell[2]) = mask.x}
  IN  Times(Total([cell \in mine |-> Scaled(operator.at[cell],
                                           Sign(cell[1] \cap mask.z))]),
            IPower(Cardinality(mask.x \cap mask.z)))

\* verify_terms fails over nothing; its streaming form passes it.
Verify ==
  /\ stage = "done"
  /\ verdict = "none"
  /\ request.entry \in {"terms", "stream"}
  /\ verdict' = IF request.entry = "terms" /\ result = <<>> THEN "error"
                ELSE IF \A k \in DOMAIN result :
                          Square(Minus(Projection(result[k].label), result[k].value))
                            <= request.atol * request.atol
                THEN "passed" ELSE "failed"
  /\ UNCHANGED <<origin, request, stage, operator, cells, active, left, grown,
                 result, named>>

Next == Build \/ Prepare \/ Block \/ Whole \/ Finish \/ Verify

Spec == Init /\ [][Next]_vars

-----------------------------------------------------------------------------
(* What a decomposition is, from the Kronecker products alone.             *)

Labels(n) == [1 .. n -> {"I", "X", "Y", "Z"}]

\* dim times the coefficient of a label: Tr(P^dagger operator).
Trace(label) ==
  Total([pq \in DOMAIN operator.at |->
           Times(Conj(StringEntry(label, pq[1], pq[2])), operator.at[pq])])

AsTerm(entry) ==
  IF "label" \in DOMAIN entry THEN entry
  ELSE [label |-> LabelOf(entry), value |-> entry.value]

\* The result as a function: what is not listed is zero.
Listed(label) ==
  LET at == {k \in DOMAIN result : AsTerm(result[k]).label = label}
  IN  IF at = {} THEN Zero ELSE AsTerm(result[CHOOSE k \in at : TRUE]).value

Thresholded == request.entry \notin {"matrix", "rows"}

Due(label) ==
  LET c == Trace(label)
  IN  IF Thresholded /\ Square(c) <= request.atol * request.atol THEN Zero
      ELSE IF request.hermitian THEN C(c.re, 0) ELSE c

Right ==
  /\ \A j, k \in DOMAIN result :
       AsTerm(result[j]).label = AsTerm(result[k]).label => j = k
  /\ \A label \in Labels(operator.n) : Listed(label) = Due(label)

\* The calls that answer with zeros whatever the operator (see AssumeDenseIsSafe).
Blind == Assumed /\ ~Chunked

-----------------------------------------------------------------------------
\* Type invariant.  The accumulator (class _GrowableArray) has room for what
\* it holds, and no cell it gives out was never written.
TypeOK ==
  /\ stage \in {"new", "built", "blocks", "whole", "done", "raised"}
  /\ cells \subseteq Masks(operator.n) \X Masks(operator.n)
  /\ \A i, j \in DOMAIN active : i < j => ValueOf(active[i]) < ValueOf(active[j])
  /\ left \subseteq 0 .. Len(active) - 1
  /\ grown.size <= Len(grown.data)
  /\ \A k \in 1 .. grown.size : grown.data[k] # Junk
  /\ verdict \in {"none", "passed", "failed", "error"}

\* Whatever the entry point, the chunk size, the input's format, the shortcut
\* for dense operators and the kernel, the caller gets the coefficients that
\* the Kronecker products define, each label once, less those not above atol.
ResultIsTheDecomposition == stage = "done" /\ ~Blind => Right

\* The terms add up to the operator again (pauli_utils.reconstruct_from_terms)
\* when nothing was dropped.
Reconstructs ==
  stage = "done" /\ ~Blind /\ request.entry \in {"terms", "stream", "arrays"}
    /\ request.atol = 0 /\ (request.hermitian => IsHermitian(operator))
    => LET terms == [label \in {result[k].label : k \in DOMAIN result} |-> Listed(label)]
       IN  \A pq \in Masks(operator.n) \X Masks(operator.n) :
             Reconstructed(terms, operator.n)[pq] = Scaled(At(operator, pq[1], pq[2]), Dim)

\* assume_hermitian refuses no Hermitian operator, and the label it names is
\* one whose coefficient is not real, found however the rows are chunked.
RefusedIsNotHermitian ==
  stage = "raised" => /\ request.hermitian /\ ~IsHermitian(operator)
                      /\ Unreal(Trace(named))

\* And what it lets pass is as good as real in every label, those of chunks
\* long delivered and those dropped as too small included: also what compiled
\* code let pass, which terms_from_arrays will look at once more.
AcceptedIsReal ==
  stage = "done" /\ request.hermitian /\ ~Blind =>
    \A label \in Labels(operator.n) : ~Unreal(Trace(label))

\* The projection of verification/, which goes by rows and not by transforms,
\* contradicts a result only where assume_hermitian took away an imaginary
\* part above atol, which the relative tolerance lets pass.
OracleAgrees ==
  verdict = "failed" =>
    /\ request.hermitian
    /\ \E label \in Labels(operator.n) :
         Trace(label).im * Trace(label).im > request.atol * request.atol

\* build_hamiltonian gives the same symmetric operator sparse and dense: no
\* cell is assigned twice, which the dense builder would overwrite and the
\* sparse one add up; and padding moves none.
BuildersAgree ==
  stage # "new" /\ origin.oscillators > 0 /\ ~origin.perturbed =>
    /\ IsHermitian(operator)
    /\ \A input \in {"dense", "sparse"} : operator = Oscillators(origin.oscillators, input)

\* What the docstring of assume_dense says: correct for any actual sparsity
\* pattern.
AssumeDenseIsSafe == stage = "done" => Right

\* What make_non_hermitian says of its result.
PerturbedIsNotHermitian ==
  stage # "new" /\ origin.perturbed => ~IsHermitian(operator)

\* What fwht_pauli_terms says of assume_hermitian: every coefficient returned
\* has an imaginary part within atol of zero.
RealWithinAtol ==
  stage = "done" /\ request.hermitian =>
    \A k \in DOMAIN result :
      Trace(result[k].label).im * Trace(result[k].label).im <= request.atol * request.atol
=============================================================================
