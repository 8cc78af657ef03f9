----------------------------- MODULE Hamiltonian -----------------------------
(***************************************************************************)
(* The operators that paulikit's own commands and its verification script  *)
(* decompose: hamiltonian.py, and the perturbation of run_verification.py. *)
(* An operator is the number of its qubits and a function from its nonzero *)
(* positions to their values.  The square roots of the spring constants    *)
(* over the masses are a constant; only which goes where matters.          *)
(***************************************************************************)
EXTENDS Pauli

CONSTANT Root(_, _, _)   \* sqrt(k_ij / m_l) for i, j and l

\* pairs: i < j in the order of the two loops.
Pairs(n) ==
  LET pairs == {ij \in (0 .. n - 1) \X (0 .. n - 1) : ij[1] < ij[2]}
  IN  Ascending(pairs, [ij \in pairs |-> n * ij[1] + ij[2]])

Size(n) == n + (n * (n + 1)) \div 2

\* The assignments of the loop over the oscillators, above the diagonal: the
\* on-site ones, and for the first two the couplings with alternating sign.
OnSite(n) == {<<i, n + i, -Root(i, i, i)>> : i \in 0 .. n - 1}

Coupling(n) ==
  {<<i, 2 * n + c - 1,
     (IF i = 0 THEN -1 ELSE 1) * Root(Pairs(n)[c][1], Pairs(n)[c][2], i)>> :
     i \in {0, 1} \cap (0 .. n - 1), c \in DOMAIN Pairs(n)}

\* Fault: the entry below the diagonal is forgotten.
UpperOnly(triples) == triples

Mirrored(triples) == triples \cup {<<t[2], t[1], t[3]>> : t \in triples}

\* build_hamiltonian(sparse=False): the last assignment to a cell stays.
BuiltDense(n) ==
  LET triples == Mirrored(OnSite(n) \cup Coupling(n))
  IN  [at \in {<<t[1], t[2]>> : t \in triples} |->
         (CHOOSE t \in triples : <<t[1], t[2]>> = at)[3]]

\* build_hamiltonian(sparse=True): entries of one cell add up.
BuiltSparse(n) ==
  LET triples == Mirrored(OnSite(n) \cup Coupling(n))
  IN  [at \in {<<t[1], t[2]>> : t \in triples} |->
         SumFunction([t \in {u \in triples : <<u[1], u[2]>> = at} |-> t[3]])]

\* pad_to_power_of_two: ceil(log2(size)) qubits, the same cells.
QubitsFor(size) == CHOOSE q \in 0 .. size : /\ 2^q >= size
                                            /\ \A r \in 0 .. q - 1 : 2^r < size

Padded(cells, size) ==
  LET n == QubitsFor(size)
  IN  [n |-> n,
       at |-> [pq \in {<<MaskOf(c[1], n), MaskOf(c[2], n)>> : c \in DOMAIN cells} |->
                 C(cells[<<ValueOf(pq[1]), ValueOf(pq[2])>>], 0)]]

Oscillators(n, input) ==
  Padded(IF input = "sparse" THEN BuiltSparse(n) ELSE BuiltDense(n), Size(n))

\* make_non_hermitian: an imaginary value at each nonzero cell above the
\* diagonal, and its negative below.
Perturbed(op, value) ==
  [op EXCEPT !.at =
     [pq \in DOMAIN op.at |->
        Plus(op.at[pq],
             C(0, IF ValueOf(pq[1]) < ValueOf(pq[2]) THEN value
                  ELSE IF ValueOf(pq[1]) > ValueOf(pq[2]) THEN -value ELSE 0))]]

IsOperator(op) ==
  /\ op.n \in Nat
  /\ DOMAIN op.at \subseteq Masks(op.n) \X Masks(op.n)
  /\ \A pq \in DOMAIN op.at : op.at[pq] \in Complex

At(op, p, q) == IF <<p, q>> \in DOMAIN op.at THEN op.at[<<p, q>>] ELSE Zero

IsHermitian(op) ==
  \A pq \in DOMAIN op.at : At(op, pq[2], pq[1]) = Conj(op.at[pq])
=============================================================================
