-------------------------------- MODULE Pauli --------------------------------
(***************************************************************************)
(* The arithmetic that fwht.py and its kernels are built from.  A mask of  *)
(* n bits, and so a row or a column of an operator on n qubits, is the set *)
(* of its bits: XOR is the symmetric difference, AND the intersection, and *)
(* popcount the cardinality.  Complex numbers have integer parts; whatever *)
(* the code divides by dim is kept multiplied by it.                       *)
(***************************************************************************)
EXTENDS Integers, Sequences, FiniteSetsExt

\* 0 .. dim - 1
Masks(n) == SUBSET (0 .. n - 1)

Xor(a, b) == SymDiff(a, b)

ValueOf(mask) == SumFunction([k \in mask |-> 2^k])
MaskOf(value, n) == {k \in 0 .. n - 1 : (value \div 2^k) % 2 = 1}

Complex == [re : Int, im : Int]
C(re, im) == [re |-> re, im |-> im]
Zero == C(0, 0)
Plus(a, b) == C(a.re + b.re, a.im + b.im)
Minus(a, b) == C(a.re - b.re, a.im - b.im)
Scaled(a, factor) == C(factor * a.re, factor * a.im)
Conj(a) == C(a.re, -a.im)
Times(a, b) == C(a.re * b.re - a.im * b.im, a.re * b.im + a.im * b.re)
Square(a) == a.re * a.re + a.im * a.im
Total(f) == C(SumFunction([e \in DOMAIN f |-> f[e].re]),
              SumFunction([e \in DOMAIN f |-> f[e].im]))

\* -1 to the power of popcount.
Sign(common) == 1 - 2 * (Cardinality(common) % 2)

\* The elements of S by the size of their keys, no two of which are equal.
Ascending(S, key) ==
  [k \in 1 .. Cardinality(S) |->
     CHOOSE e \in S : Cardinality({d \in S : key[d] < key[e]}) = k - 1]

\* i^k, of which only k % 4 matters: the table of four.
IPower(k) == << C(1, 0), C(0, 1), C(-1, 0), C(0, -1) >>[(k % 4) + 1]

\* Fault: the phase is not conjugated.
PlainPhase(x, z) == IPower(Cardinality(x \cap z))

\* conj(i^popcount(x & z))
ConjPhase(x, z) == Conj(IPower(Cardinality(x \cap z)))

-----------------------------------------------------------------------------
(* The Walsh-Hadamard transform of a row, without NumPy and with it.       *)

Greatest(a, b) == IF a >= b THEN a ELSE b

\* Stage k for the columns in cols: each pair that differs in bit k becomes
\* its sum and its difference.
StageOn(row, cols, k) ==
  [q \in DOMAIN row |->
     IF q \notin cols THEN row[q]
     ELSE IF k \in q THEN Minus(row[q \ {k}], row[q])
     ELSE Plus(row[q], row[q \cup {k}])]

\* The stages from .. to - 1, in this order.
Stages(row, cols, from, to) ==
  LET after[k \in from .. Greatest(from, to)] ==
        IF k = from THEN row ELSE StageOn(after[k - 1], cols, k - 1)
  IN  after[Greatest(from, to)]

\* The tiles of 2^b neighbouring columns, one after the other.
OnTiles(row, n, b, from) ==
  FoldSet(LAMBDA high, done :
            Stages(done, {low \cup high : low \in Masks(b)}, from, b),
          row, SUBSET (b .. n - 1))

\* The kernel: blocks of eight in registers where a tile holds one, the rest
\* of each tile while it is in the cache, then the spans from a tile upwards.
Tiled(row, n, b) ==
  LET first == IF b >= 3 THEN 3 ELSE 0
      blocks == IF b >= 3 THEN OnTiles(row, n, 3, 0) ELSE row
  IN  Stages(OnTiles(blocks, n, b, first), Masks(n), b, n)

\* Without the kernel: the difference goes to scratch, the sum in place, and
\* the difference back, for all pairs of one stage at a time.
Subtract(m, k) ==
  [m EXCEPT !.scratch = [q \in {c \in DOMAIN m.row : k \notin c} |->
                           Minus(m.row[q], m.row[q \cup {k}])]]

Add(m, k) ==
  [m EXCEPT !.row = [q \in DOMAIN m.row |->
                       IF k \in q THEN m.row[q]
                       ELSE Plus(m.row[q], m.row[q \cup {k}])]]

Return(m, k) ==
  [m EXCEPT !.row = [q \in DOMAIN m.row |->
                       IF k \in q THEN m.scratch[q \ {k}] ELSE m.row[q]]]

\* Fault: left is overwritten before the difference is taken.
AddFirst(m, k) == Return(Subtract(Add(m, k), k), k)

Stage(m, k) == Return(Add(Subtract(m, k), k), k)

Butterfly(row, n) ==
  LET after[k \in 0 .. n] ==
        IF k = 0 THEN [row |-> row, scratch |-> [q \in {} |-> Zero]]
        ELSE Stage(after[k - 1], k - 1)
  IN  after[n].row

\* The kernel with tiles of 2^kernel columns, or NumPy if there is none; a
\* single column is left as it is by both.
NoKernel == -1
Transform(row, n, kernel) ==
  IF kernel = NoKernel THEN Butterfly(row, n)
  ELSE Tiled(row, n, IF kernel <= n THEN kernel ELSE n)

-----------------------------------------------------------------------------
(* Labels, and the matrices they stand for.                                *)

\* The letter of qubit j of n: qubit 0 is the leftmost, and the highest bit.
Letter(x, z, n, j) ==
  LET bit == n - 1 - j
  IN  CASE bit \in x /\ bit \in z -> "Y"
        [] bit \in x /\ bit \notin z -> "X"
        [] bit \notin x /\ bit \in z -> "Z"
        [] OTHER -> "I"

\* Fault: qubit 0 is taken for the lowest bit.
ReversedLabel(x, z, n) == [i \in 1 .. n |-> Letter(x, z, n, n - i)]

Label(x, z, n) == [i \in 1 .. n |-> Letter(x, z, n, i - 1)]

\* label_to_masks of the oracle.
LabelToMasks(label) ==
  LET bit(i) == Len(label) - i
  IN  [x |-> {bit(i) : i \in {j \in DOMAIN label : label[j] \in {"X", "Y"}}},
       z |-> {bit(i) : i \in {j \in DOMAIN label : label[j] \in {"Z", "Y"}}}]

\* _PAULI_MATRICES: row and column of the matrix of one letter.
Entry(letter, row, column) ==
  CASE letter = "I" -> IF row = column THEN C(1, 0) ELSE Zero
    [] letter = "X" -> IF row # column THEN C(1, 0) ELSE Zero
    [] letter = "Y" -> IF row = column THEN Zero ELSE C(0, IF row THEN 1 ELSE -1)
    [] letter = "Z" -> IF row # column THEN Zero ELSE C(IF row THEN -1 ELSE 1, 0)

\* pauli_string_to_matrix: an entry of a Kronecker product is the product of
\* the entries of its factors.
StringEntry(label, p, q) ==
  LET bit(i) == Len(label) - i
      upTo[i \in 0 .. Len(label)] ==
        IF i = 0 THEN C(1, 0)
        ELSE Times(upTo[i - 1], Entry(label[i], bit(i) \in p, bit(i) \in q))
  IN  upTo[Len(label)]

\* reconstruct_from_terms
Reconstructed(terms, n) ==
  [at \in Masks(n) \X Masks(n) |->
     Total([label \in DOMAIN terms |->
              Times(terms[label], StringEntry(label, at[1], at[2]))])]
=============================================================================
