------------------------ MODULE MCPauliDecomposition ------------------------
(***************************************************************************)
(* Small operators of one and two qubits, two oscillators on three qubits  *)
(* and three on four, and the calls that tell the code's paths apart.      *)
(***************************************************************************)
EXTENDS PauliDecomposition

\* sqrt(k_ij / m_l) is taken for a number of its own for each i, j and l.
MCRoot(i, j, l) == 1 + i + 2 * j + 3 * l

Call(entry, input, chunk, dense, hermitian, kernel, atol) ==
  [entry |-> entry, input |-> input, chunk |-> chunk, dense |-> dense,
   hermitian |-> hermitian, kernel |-> kernel, atol |-> atol]

Given(op) == [oscillators |-> 0, perturbed |-> FALSE, matrix |-> op]

Made(n, perturbed) ==
  [oscillators |-> n, perturbed |-> perturbed,
   matrix |-> [n |-> 0, at |-> [pq \in {} |-> Zero]]]

Values == {C(1, 0), C(0, 1)}
Cells(n) == Masks(n) \X Masks(n)

\* Every operator on a qubit over Values and -i, and those on two qubits with
\* few cells.
OneQubit ==
  UNION {{[n |-> 1, at |-> f] : f \in [S -> Values \cup {C(0, -1)}]} :
         S \in SUBSET Cells(1)}

TwoCells ==
  UNION {{[n |-> 2, at |-> f] : f \in [S -> Values]} : S \in kSubset(2, Cells(2))}

\* Almost real: within the relative tolerance of assume_hermitian, not atol;
\* and not quite.
Near ==
  {[n |-> 1, at |-> [pq \in {<<{}, {}>>, <<{0}, {0}>>} |-> C(re, 1)]] :
   re \in {100, 1000}}

\* Without a zero, and with a row and a column of zeros.
Full ==
  {[n |-> 2, at |-> [pq \in S |-> C(1 + ValueOf(pq[1]) * ValueOf(pq[2]),
                                    ValueOf(pq[1]) - ValueOf(pq[2]))]] :
   S \in {Cells(2), {pq \in Cells(2) : {1} \notin {pq[1], pq[2]}}}}

Few(n) ==
  {Call("matrix", "dense", 0, dense, FALSE, NoKernel, 0) : dense \in BOOLEAN}
  \cup {Call("rows", "sparse", 0, FALSE, FALSE, n, 0)}
  \cup {Call("triples", input, 1, dense, FALSE, 1, 0) :
          input \in {"dense", "sparse"}, dense \in BOOLEAN}
  \cup {Call("terms", "sparse", chunk, FALSE, hermitian, NoKernel, atol) :
          chunk \in {0, 3}, hermitian \in BOOLEAN, atol \in {0, 1}}
  \cup {Call("stream", "dense", 1, dense, hermitian, NoKernel, 0) :
          dense \in BOOLEAN, hermitian \in BOOLEAN}
  \cup {Call("arrays", "dense", 1, FALSE, TRUE, 1, atol) : atol \in {0, 1}}
  \cup {Call("arrays", "dense", 1, FALSE, TRUE, NoKernel, 0)}

Large ==
  {Call("matrix", "dense", 0, FALSE, FALSE, 2, 0),
   Call("triples", "dense", 3, TRUE, FALSE, 3, 0),
   Call("terms", "sparse", 0, FALSE, TRUE, NoKernel, 0),
   Call("stream", "sparse", 2, FALSE, TRUE, 3, 0),
   Call("arrays", "sparse", 4, FALSE, FALSE, 1, 2)}

MCCalls ==
  {[origin |-> Given(op), request |-> r] : op \in OneQubit \cup Near, r \in Few(1)}
  \cup {[origin |-> Given(op), request |-> r] : op \in TwoCells \cup Full, r \in Few(2)}
  \cup {[origin |-> Made(n, perturbed), request |-> r] :
          n \in {1, 2, 3}, perturbed \in BOOLEAN, r \in Large}
=============================================================================
