--------------------------- MODULE CheckpointProofs ---------------------------
(***************************************************************************)
(* Proofs about the checkpoint files, for every number of chunks and       *)
(* terms, every mix of modes, any number of sessions and interruptions:    *)
(* what is on disk, and what a resumed session replays of it.              *)
(*                                                                         *)
(* The last four theorems share one notion: the cells of the data file are *)
(* those of the frames of the chunks ks[1], ks[2], ..., and at[i] is how   *)
(* many cells lie before the i-th of them.                                 *)
(***************************************************************************)
EXTENDS Checkpoint, FiniteSetTheorems, TLAPS

LEMMA ZeroIsChunk == 0 \in Chunks /\ NChunks \in Nat
BY CheckpointAssumption DEF Chunks

\* A function on 1 .. n is a sequence of length n.
LEMMA LenOf ==
  ASSUME NEW S, NEW n \in Nat, NEW f \in [1 .. n -> S]
  PROVE  f \in Seq(S) /\ Len(f) = n
OBVIOUS

\* What an append does to a file: the old cells stay, the new ones follow.
LEMMA Concat ==
  ASSUME NEW S, NEW s \in Seq(S), NEW t \in Seq(S)
  PROVE  /\ s \o t \in Seq(S) /\ Len(s \o t) = Len(s) + Len(t)
         /\ \A i \in 1 .. Len(s) : (s \o t)[i] = s[i]
         /\ \A i \in 1 .. Len(t) : (s \o t)[Len(s) + i] = t[i]
OBVIOUS

\* A payload is a whole number of cells.
LEMMA PayloadLength == ASSUME NEW n \in Nat PROVE PayloadCells(n) \in Nat
<1>1. TermCells \in Nat
  BY CheckpointAssumption
<1> QED
  BY <1>1 DEF PayloadCells

LEMMA PayloadType ==
  ASSUME NEW k \in Chunks
  PROVE  Payload(k) \in Seq(Cells) /\ Len(Payload(k)) \in Nat
<1> DEFINE n == PayloadCells(Terms[k])
           c == Cell("term", k)
<1>1. n \in Nat /\ c \in Cells
  <2>1. Terms[k] \in Nat /\ k \in Nat
    BY CheckpointAssumption DEF Chunks
  <2> QED
    BY <2>1, PayloadLength DEF Cell, Cells
<1>2. Payload(k) = [i \in 1 .. n |-> c]
  BY DEF Payload
<1> HIDE DEF n, c
<1>3. Payload(k) \in [1 .. n -> Cells]
  BY <1>1, <1>2
<1> QED
  BY <1>1, <1>3, LenOf

\* A frame is a nonempty sequence of cells.
LEMMA FrameType ==
  ASSUME NEW k \in Chunks
  PROVE  /\ Frame(k) \in Seq(Cells) /\ Len(Frame(k)) \in Nat
         /\ Len(Frame(k)) >= HeaderCells
<1>1. Terms[k] \in Nat /\ k \in Nat
  BY CheckpointAssumption DEF Chunks
<1>2. Header(k) \in Seq(Cells) /\ Len(Header(k)) = 3
  BY <1>1 DEF Header, Magic, Cell, Cells
<1>3. Payload(k) \in Seq(Cells) /\ Len(Payload(k)) \in Nat
  BY PayloadType
<1>4. /\ Header(k) \o Payload(k) \in Seq(Cells)
      /\ Len(Header(k) \o Payload(k)) = Len(Header(k)) + Len(Payload(k))
  BY <1>2, <1>3, Concat
<1> QED
  BY <1>2, <1>3, <1>4 DEF Frame, HeaderCells


-----------------------------------------------------------------------------
(* Records.                                                                *)

LEMMA RadixType == Radix \in Nat /\ Radix > 1 /\ 0 \in Bytes
BY CheckpointAssumption DEF Bytes

\* Quotient and last byte.
LEMMA Division ==
  ASSUME NEW n \in Nat
  PROVE  /\ n \div Radix \in Nat /\ n % Radix \in Bytes
         /\ n = (n % Radix) + Radix * (n \div Radix)
<1>1. Radix \in Nat /\ Radix > 1
  BY RadixType
<1>2. n \div Radix \in Nat /\ n % Radix \in 0 .. Radix - 1
  BY <1>1
<1>3. n = (n % Radix) + Radix * (n \div Radix)
  BY <1>1
<1> QED
  BY <1>2, <1>3 DEF Bytes

LEMMA QuotientBelow ==
  ASSUME NEW n \in Nat, NEW c \in Nat, n < Radix * c
  PROVE  n \div Radix < c
<1> DEFINE q == n \div Radix
<1>1. /\ Radix \in Nat /\ Radix > 1 /\ q \in Nat
      /\ n % Radix \in Nat /\ n = (n % Radix) + Radix * q
  BY RadixType, Division DEF Bytes
<1> HIDE DEF q
<1>2. SUFFICES ASSUME q >= c PROVE FALSE
  BY <1>1 DEF q
<1>3. PICK d \in Nat : q = c + d
  <2>1. q - c \in Nat /\ q = c + (q - c)
    BY <1>1, <1>2
  <2> QED
    BY <2>1
<1>4. Radix * q = Radix * c + Radix * d /\ Radix * d \in Nat /\ Radix * c \in Nat
  BY <1>1, <1>3
<1> QED
  BY <1>1, <1>4

\* A number is its last byte where it is less than one.
LEMMA LastByte ==
  ASSUME NEW n \in Nat, n < Radix
  PROVE  n % Radix = n
BY RadixType

\* A record is eight bytes of the progress file, and they are the ones its
\* chunk is put together from.
LEMMA RecordIs ==
  ASSUME NEW k \in Chunks
  PROVE  /\ Record(k) \in Seq(Bytes) /\ Len(Record(k)) = 8
         /\ LET b == Record(k)
            IN  k = b[1] + Radix * (b[2] + Radix * (b[3] + Radix * (b[4] + Radix *
                      (b[5] + Radix * (b[6] + Radix * (b[7] + Radix * b[8]))))))
<1> DEFINE k1 == k \div Radix
           k2 == k1 \div Radix
           k3 == k2 \div Radix
           k4 == k3 \div Radix
           k5 == k4 \div Radix
           k6 == k5 \div Radix
           k7 == k6 \div Radix
           r2 == Radix * Radix
           r3 == Radix * r2
           r4 == Radix * r3
           r5 == Radix * r4
           r6 == Radix * r5
           r7 == Radix * r6
           b == << k % Radix, k1 % Radix, k2 % Radix, k3 % Radix,
                   k4 % Radix, k5 % Radix, k6 % Radix, k7 % Radix >>
<1>1. Record(k) = b
  BY DEF Record
<1>2. Capacity = Radix * r7
  BY DEF Capacity
<1>3. k \in Nat /\ k < Capacity
  <2>1. Capacity \in Int
    <3>1. Radix \in Nat
      BY RadixType
    <3> QED
      BY <3>1 DEF Capacity
  <2> QED
    BY <2>1, CheckpointAssumption DEF Chunks
<1>4. /\ r2 \in Nat /\ r3 \in Nat /\ r4 \in Nat /\ r5 \in Nat
      /\ r6 \in Nat /\ r7 \in Nat
  <2>1. Radix \in Nat /\ \A r \in Nat : Radix * r \in Nat
    BY RadixType
  <2> QED
    BY ONLY <2>1
<1>5. k = (k % Radix) + Radix * k1 /\ k % Radix \in Bytes /\ k1 \in Nat /\ k1 < r7
  <2> HIDE DEF r7
  <2> QED
    BY <1>2, <1>3, <1>4, Division, QuotientBelow
<1> DEFINE Step(n, q, r) == /\ n = (n % Radix) + Radix * q
                            /\ n % Radix \in Bytes /\ q \in Nat /\ q < r
<1> HIDE DEF k1
<1>6. Step(k1, k2, r6)
  <2> HIDE DEF r6
  <2> QED
    BY <1>4, <1>5, Division, QuotientBelow
<1> HIDE DEF k2
<1>7. Step(k2, k3, r5)
  <2> HIDE DEF r5
  <2> QED
    BY <1>4, <1>6, Division, QuotientBelow
<1> HIDE DEF k3
<1>8. Step(k3, k4, r4)
  <2> HIDE DEF r4
  <2> QED
    BY <1>4, <1>7, Division, QuotientBelow
<1> HIDE DEF k4
<1>9. Step(k4, k5, r3)
  <2> HIDE DEF r3
  <2> QED
    BY <1>4, <1>8, Division, QuotientBelow
<1> HIDE DEF k5
<1>10. Step(k5, k6, r2)
  <2> HIDE DEF r2
  <2> QED
    BY <1>4, <1>9, Division, QuotientBelow
<1> HIDE DEF k6
<1>11. Step(k6, k7, Radix)
  BY <1>10, RadixType, Division, QuotientBelow
<1> HIDE DEF k7
<1>12. k7 % Radix = k7 /\ k7 % Radix \in Bytes
  BY <1>11, Division, LastByte
<1>13. /\ k = (k % Radix) + Radix * k1    /\ k1 = (k1 % Radix) + Radix * k2
       /\ k2 = (k2 % Radix) + Radix * k3  /\ k3 = (k3 % Radix) + Radix * k4
       /\ k4 = (k4 % Radix) + Radix * k5  /\ k5 = (k5 % Radix) + Radix * k6
       /\ k6 = (k6 % Radix) + Radix * (k7 % Radix)
  BY <1>5, <1>6, <1>7, <1>8, <1>9, <1>10, <1>11, <1>12
<1>14. k = (k % Radix) + Radix * ((k1 % Radix) + Radix * ((k2 % Radix) + Radix *
             ((k3 % Radix) + Radix * ((k4 % Radix) + Radix * ((k5 % Radix) + Radix *
             ((k6 % Radix) + Radix * (k7 % Radix)))))))
  BY ONLY <1>13, Zenon
<1>15. b \in Seq(Bytes) /\ Len(b) = 8
  BY <1>5, <1>6, <1>7, <1>8, <1>9, <1>10, <1>11, <1>12
<1> QED
  BY <1>1, <1>14, <1>15

\* Where the file p names chunk k in its i-th whole record.
Holds(p, i, k) == /\ i \in 1 .. WholeRecords(p)
                  /\ \A j \in 1 .. 8 : p[8 * (i - 1) + j] = Record(k)[j]

\* It is read as k.
LEMMA HoldsRead ==
  ASSUME NEW p, NEW i, NEW k \in Chunks, Holds(p, i, k)
  PROVE  Unpacked(p, i) = k
<1>1. \A j \in 1 .. 8 : p[8 * (i - 1) + j] = Record(k)[j]
  BY DEF Holds
<1>2. /\ p[8 * (i - 1) + 1] = Record(k)[1] /\ p[8 * (i - 1) + 2] = Record(k)[2]
      /\ p[8 * (i - 1) + 3] = Record(k)[3] /\ p[8 * (i - 1) + 4] = Record(k)[4]
      /\ p[8 * (i - 1) + 5] = Record(k)[5] /\ p[8 * (i - 1) + 6] = Record(k)[6]
      /\ p[8 * (i - 1) + 7] = Record(k)[7] /\ p[8 * (i - 1) + 8] = Record(k)[8]
  BY <1>1
<1> QED
  BY <1>2, RecordIs, Zenon DEF Unpacked, RecordSize

LEMMA UnpackedType ==
  ASSUME NEW p \in Seq(Bytes), NEW i \in 1 .. WholeRecords(p)
  PROVE  Unpacked(p, i) \in Nat
<1>1. \A j \in 1 .. 8 : 8 * (i - 1) + j \in 1 .. Len(p)
  BY DEF WholeRecords, RecordSize
<1>2. \A j \in 1 .. 8 : p[8 * (i - 1) + j] \in Nat
  <2>1. Bytes \subseteq Nat
    BY RadixType DEF Bytes
  <2>2. \A j \in 1 .. Len(p) : p[j] \in Bytes
    OBVIOUS
  <2> QED
    BY <1>1, <2>1, <2>2
<1>3. \A x, y \in Nat : x + Radix * y \in Nat
  BY RadixType
<1> DEFINE b(j) == p[8 * (i - 1) + j]
<1>4. /\ b(1) \in Nat /\ b(2) \in Nat /\ b(3) \in Nat /\ b(4) \in Nat
      /\ b(5) \in Nat /\ b(6) \in Nat /\ b(7) \in Nat /\ b(8) \in Nat
  BY <1>2
<1> HIDE DEF b
<1>5. b(1) + Radix * (b(2) + Radix * (b(3) + Radix * (b(4) + Radix *
        (b(5) + Radix * (b(6) + Radix * (b(7) + Radix * b(8))))))) \in Nat
  BY ONLY <1>3, <1>4
<1> QED
  BY <1>5 DEF Unpacked, RecordSize, b

LEMMA WholeType ==
  ASSUME NEW p \in Seq(Bytes)
  PROVE  WholeRecords(p) \in Nat
<1> DEFINE n == Len(p)
<1>1. n \in Nat
  OBVIOUS
<1> HIDE DEF n
<1>2. n \div 8 \in Nat
  BY <1>1
<1> QED
  BY <1>2 DEF WholeRecords, RecordSize, n

\* What is appended completes no record before it ...
LEMMA WholeMore ==
  ASSUME NEW p \in Seq(Bytes), NEW t \in Seq(Bytes), Len(t) \in 1 .. 8
  PROVE  /\ Len(p \o t) = Len(p) + Len(t) /\ WholeRecords(p) \in Nat
         /\ 8 * WholeRecords(p) <= Len(p)
         /\ WholeRecords(p \o t) \in WholeRecords(p) .. WholeRecords(p) + 1
         /\ Len(p) % RecordSize = 0 =>
              /\ Len(p) = 8 * WholeRecords(p)
              /\ Len(t) < 8 => WholeRecords(p \o t) = WholeRecords(p)
              /\ Len(t) = 8 => WholeRecords(p \o t) = WholeRecords(p) + 1
<1> DEFINE n == Len(p)
           m == Len(t)
<1>1. Len(p \o t) = n + m /\ n \in Nat /\ m \in 1 .. 8
  BY Concat
<1> HIDE DEF n, m
<1>2. /\ n \div 8 \in Nat /\ 8 * (n \div 8) <= n
      /\ (n + m) \div 8 \in (n \div 8) .. (n \div 8) + 1
  BY <1>1
<1>3. n % 8 = 0 => /\ n = 8 * (n \div 8)
                   /\ m < 8 => (n + m) \div 8 = n \div 8
                   /\ m = 8 => (n + m) \div 8 = n \div 8 + 1
  BY <1>1
<1> QED
  BY <1>1, <1>2, <1>3 DEF WholeRecords, RecordSize, n, m

LEMMA AlignedMore ==
  ASSUME NEW p \in Seq(Bytes), NEW t \in Seq(Bytes), Len(t) \in 1 .. 8,
         Len(p) % RecordSize = 0
  PROVE  /\ Len(p \o t) = Len(p) + Len(t)
         /\ Len(t) < 8 => WholeRecords(p \o t) = WholeRecords(p)
         /\ Len(t) = 8 => WholeRecords(p \o t) = WholeRecords(p) + 1
BY WholeMore

\* ... and changes none.
LEMMA HoldsStays ==
  ASSUME NEW p \in Seq(Bytes), NEW t \in Seq(Bytes), Len(t) \in 1 .. 8,
         NEW i, NEW k, Holds(p, i, k)
  PROVE  Holds(p \o t, i, k)
<1> DEFINE q == p \o t
<1>1. /\ Len(p) \in Nat /\ \A j \in 1 .. Len(p) : q[j] = p[j]
      /\ WholeRecords(p) \in Nat /\ 8 * WholeRecords(p) <= Len(p)
      /\ WholeRecords(q) \in WholeRecords(p) .. WholeRecords(p) + 1
  BY Concat, WholeMore
<1> HIDE DEF q
<1>2. i \in 1 .. WholeRecords(p) /\ \A j \in 1 .. 8 : p[8 * (i - 1) + j] = Record(k)[j]
  BY DEF Holds
<1>3. \A j \in 1 .. 8 : 8 * (i - 1) + j \in 1 .. Len(p)
  <2> DEFINE w == WholeRecords(p)
             n == Len(p)
  <2>1. n \in Nat /\ w \in Nat /\ 8 * w <= n /\ i \in 1 .. w
    BY <1>1, <1>2
  <2> HIDE DEF w, n
  <2>2. \A j \in 1 .. 8 : 8 * (i - 1) + j \in 1 .. n
    BY <2>1
  <2> QED
    BY <2>2 DEF n
<1>4. Holds(q, i, k)
  BY <1>1, <1>2, <1>3 DEF Holds
<1> QED
  BY <1>4 DEF q

\* A record written where one may begin is there.
LEMMA HoldsNew ==
  ASSUME NEW p \in Seq(Bytes), NEW k \in Chunks, Len(p) % RecordSize = 0
  PROVE  Holds(p \o Record(k), WholeRecords(p) + 1, k)
<1> DEFINE q == p \o Record(k)
           n == WholeRecords(p)
<1>1. Record(k) \in Seq(Bytes) /\ Len(Record(k)) = 8
  BY RecordIs
<1>2. n \in Nat /\ Len(p) = 8 * n /\ WholeRecords(q) = n + 1
  BY <1>1, WholeMore
<1>3. \A j \in 1 .. 8 : q[Len(p) + j] = Record(k)[j]
  <2>1. ASSUME NEW t \in Seq(Bytes), NEW l, Len(t) = l
        PROVE  \A j \in 1 .. l : (p \o t)[Len(p) + j] = t[j]
    BY <2>1, Concat
  <2> QED
    BY <1>1, <2>1
<1> HIDE DEF q, n
<1>4. 8 * ((n + 1) - 1) = Len(p) /\ n + 1 \in 1 .. n + 1
  BY <1>2
<1>5. Holds(q, n + 1, k)
  BY <1>2, <1>3, <1>4 DEF Holds
<1> QED
  BY <1>5 DEF q, n

\* A torn record.
LEMMA CutIs ==
  ASSUME NEW k \in Chunks, NEW t \in Cuts
  PROVE  /\ SubSeq(Record(k), 1, t) \in Seq(Bytes)
         /\ Len(SubSeq(Record(k), 1, t)) \in 1 .. 7
         /\ Len(SubSeq(Record(k), 1, t)) \in 1 .. 8
         /\ Len(SubSeq(Record(k), 1, t)) < 8
<1>1. t \in 1 .. 7
  BY CheckpointAssumption
<1> QED
  BY <1>1, RecordIs

-----------------------------------------------------------------------------
(* Type correctness.                                                       *)

LEMMA TypeInit == Init => TypeOK
<1> SUFFICES ASSUME Init PROVE TypeOK
  OBVIOUS
<1> USE DEF Init
<1>1. data \in Seq(Cells) /\ pos \in 0 .. Len(data) /\ delivered \in Seq(Yield)
  OBVIOUS
<1>2. progress \in [Modes -> Seq(Bytes)] /\ spliced \in [Modes -> SUBSET Nat]
  OBVIOUS
<1>3. held \in Chunks /\ sessions \in 0 .. MaxSessions
  BY ZeroIsChunk, CheckpointAssumption
<1> QED
  BY <1>1, <1>2, <1>3 DEF TypeOK, Leaving

\* A field is a cell of the file, and reads as a number or as Huge.
LEMMA FieldType ==
  ASSUME TypeOK, HeaderThere, NEW i \in 1 .. HeaderCells
  PROVE  Field(i) \in Cells /\ Number(Field(i)) \in Nat \cup {Huge}
<1>1. pos + i \in 1 .. Len(data)
  BY DEF TypeOK, HeaderThere, Rest, HeaderCells
<1>2. data[pos + i] \in Cells
  BY <1>1 DEF TypeOK
<1> QED
  BY <1>2 DEF Field, Number, Cells, Huge

LEMMA CompletedType ==
  ASSUME TypeOK, NEW m \in Modes
  PROVE  Completed(m) \subseteq Nat
<1>1. progress[m] \in Seq(Bytes)
  BY DEF TypeOK
<1>2. Recorded(m) \subseteq Nat
  BY <1>1, UnpackedType DEF Recorded
<1>3. UpToLast(Recorded(m)) \subseteq Nat
  BY <1>2 DEF UpToLast
<1> QED
  BY <1>2, <1>3 DEF Completed

\* An append marks at most one more record as spliced.
LEMMA SpliceType == TypeOK /\ Splice => spliced' \in [Modes -> SUBSET Nat]
<1> SUFFICES ASSUME TypeOK, Splice PROVE spliced' \in [Modes -> SUBSET Nat]
  OBVIOUS
<1>1. progress[mode] \in Seq(Bytes) /\ spliced \in [Modes -> SUBSET Nat]
  BY DEF TypeOK
<1>2. WholeRecords(progress[mode]) + 1 \in Nat
  BY <1>1, WholeType
<1> QED
  BY <1>1, <1>2 DEF Splice

LEMMA TypeStep == TypeOK /\ [Next]_vars => TypeOK'
<1> SUFFICES ASSUME TypeOK, [Next]_vars PROVE TypeOK'
  OBVIOUS
<1> USE DEF TypeOK
<1>1. CASE UNCHANGED vars
  BY <1>1 DEF vars, files, session, watched
<1>2. ASSUME NEW m \in Modes, Start(m) PROVE TypeOK'
  <2>1. Completed(m) \subseteq Nat
    BY CompletedType
  <2> QED
    BY <1>2, <2>1, CheckpointAssumption DEF Start, MayStart, files, Leaving
<1>3. ASSUME NEW m \in Modes, StartExhausted(m) PROVE TypeOK'
  BY <1>3, CheckpointAssumption DEF StartExhausted, MayStart, files, Leaving
<1>4. CASE ReplayFrame
  <2>1. HeaderThere /\ Count # Huge /\ Index \in skip
    BY <1>4 DEF ReplayFrame, PayloadThere, GoodMagic, Valid
  <2>2. Count \in Nat
    BY <2>1, FieldType DEF Count, HeaderCells
  <2>3. PayloadCells(Count) \in Nat
    BY <2>2, PayloadLength
  <2>4. HeaderCells + PayloadCells(Count) <= Len(data) - pos
    BY <1>4 DEF ReplayFrame, PayloadThere, Rest
  <2>5. pos' \in 0 .. Len(data)
    BY <1>4, <2>3, <2>4 DEF ReplayFrame, NextFrame, HeaderCells
  <2>6. Intact \in BOOLEAN
    BY DEF Intact
  <2>7. [chunk |-> Index, intact |-> Intact] \in Yield
    BY <2>1, <2>6, Zenon DEF Yield, TypeOK
  <2>8. delivered' \in Seq(Yield)
    BY <1>4, <2>7 DEF ReplayFrame
  <2> QED
    BY <1>4, <2>5, <2>8 DEF ReplayFrame, files
<1>5. CASE ReplayEnds \/ ReplayRaises \/ Finish \/ Abandon
  BY <1>5 DEF ReplayEnds, ReplayRaises, Finish, Abandon, files, watched
<1>6. ASSUME NEW k \in Chunks, AppendFrame(k) PROVE TypeOK'
  <2>1. data' \in Seq(Cells) /\ Len(data') = Len(data) + Len(Frame(k))
    BY <1>6, FrameType DEF AppendFrame
  <2>2. pos \in 0 .. Len(data')
    BY <2>1, FrameType
  <2> QED
    BY <1>6, <2>1, <2>2 DEF AppendFrame, Bury, Leaving
<1>7. ASSUME NEW k \in Chunks, TearFrame(k) PROVE TypeOK'
  <2>1. PICK t \in 1 .. Len(Frame(k)) - 1 :
          data' = data \o SubSeq(Frame(k), 1, t)
    BY <1>7 DEF TearFrame
  <2>2. SubSeq(Frame(k), 1, t) \in Seq(Cells) /\ Len(SubSeq(Frame(k), 1, t)) = t
    BY FrameType
  <2>3. data' \in Seq(Cells) /\ Len(data') = Len(data) + t
    BY <2>1, <2>2
  <2>4. pos \in 0 .. Len(data')
    BY <2>3
  <2> QED
    BY <1>7, <2>3, <2>4 DEF TearFrame, Leaving
<1>8. CASE AppendRecord
  <2>1. progress[mode] \o Record(held) \in Seq(Bytes)
    BY RecordIs
  <2>2. progress' \in [Modes -> Seq(Bytes)]
    BY <1>8, <2>1 DEF AppendRecord
  <2>3. delivered' \in Seq(Yield)
    BY <1>8 DEF AppendRecord, Yield, Chunks
  <2>4. spliced' \in [Modes -> SUBSET Nat]
    BY <1>8, SpliceType DEF AppendRecord
  <2> QED
    BY <1>8, <2>2, <2>3, <2>4 DEF AppendRecord
<1>9. CASE DieUnmarked
  BY <1>9 DEF DieUnmarked, files, Leaving
<1>10. CASE TearRecord
  <2>1. PICK t \in Cuts :
          progress' = [progress EXCEPT ![mode] = @ \o SubSeq(Record(held), 1, t)]
    BY <1>10 DEF TearRecord
  <2>2. progress[mode] \o SubSeq(Record(held), 1, t) \in Seq(Bytes)
    BY CutIs
  <2>3. progress' \in [Modes -> Seq(Bytes)]
    BY <2>1, <2>2
  <2>4. spliced' \in [Modes -> SUBSET Nat]
    BY <1>10, SpliceType DEF TearRecord
  <2> QED
    BY <1>10, <2>3, <2>4 DEF TearRecord, Leaving
<1> QED
  BY <1>1, <1>2, <1>3, <1>4, <1>5, <1>6, <1>7, <1>8, <1>9, <1>10 DEF Next

\* The type invariant of the checkpoint files and of the sessions on them.
THEOREM TypeCorrect == Spec => []TypeOK
BY TypeInit, TypeStep, PTL DEF Spec

-----------------------------------------------------------------------------
(* A record vouches only for a chunk whose frame is in the file.           *)

\* The chunks whose frame is in the data file.
Framed == {k \in Chunks : HasFrame(k)}

\* The i-th whole record is one of theirs, unless bytes of two appends met
\* in it.
Vouched(p, met, framed) ==
  \A i \in 1 .. WholeRecords(p) :
    i \in met \/ \E k \in framed : Holds(p, i, k)

RecordsVouched == \A m \in Modes : Vouched(progress[m], spliced[m], Framed)

\* Between its two writes a chunk has its frame already.
HeldHasFrame == phase = "marking" => held \in Framed

FilesInv == RecordsVouched /\ HeldHasFrame

\* Appending to the data file keeps every frame in it.
LEMMA FramesStay ==
  ASSUME TypeOK, NEW t \in Seq(Cells), data' = data \o t,
         NEW k \in Chunks, HasFrame(k)
  PROVE  HasFrame(k)'
<1> DEFINE n == Len(Frame(k))
<1>1. n \in Nat /\ data \in Seq(Cells)
  BY FrameType DEF TypeOK
<1>2. /\ Len(data') = Len(data) + Len(t) /\ Len(data) \in Nat /\ Len(t) \in Nat
      /\ \A i \in 1 .. Len(data) : data'[i] = data[i]
  BY <1>1
<1>3. PICK p \in 0 .. Len(data) - n : \A i \in 1 .. n : data[p + i] = Frame(k)[i]
  BY DEF HasFrame
<1>4. p \in 0 .. Len(data') - n
  BY <1>1, <1>2, <1>3
<1>5. \A i \in 1 .. n : p + i \in 1 .. Len(data)
  BY <1>1, <1>2, <1>3
<1>6. \A i \in 1 .. n : data'[p + i] = Frame(k)[i]
  BY <1>2, <1>3, <1>5
<1> QED
  BY <1>4, <1>6 DEF HasFrame

\* The frame just appended is at the end of the file.
LEMMA FrameArrives ==
  ASSUME TypeOK, NEW k \in Chunks, data' = data \o Frame(k)
  PROVE  HasFrame(k)'
<1> DEFINE n == Len(Frame(k))
<1>1. n \in Nat /\ data \in Seq(Cells) /\ Frame(k) \in Seq(Cells)
  BY FrameType DEF TypeOK
<1>2. /\ Len(data') = Len(data) + n /\ Len(data) \in Nat
      /\ \A i \in 1 .. n : data'[Len(data) + i] = Frame(k)[i]
  BY <1>1
<1>3. Len(data) \in 0 .. Len(data') - n
  BY <1>1, <1>2
<1> QED
  BY <1>2, <1>3 DEF HasFrame

\* Steps that append to the data file, or leave it alone.
LEMMA VouchedFrame ==
  ASSUME RecordsVouched, UNCHANGED <<progress, spliced>>, Framed \subseteq Framed'
  PROVE  RecordsVouched'
BY DEF RecordsVouched, Vouched

\* Steps that append to a progress file: the whole record of a chunk whose
\* frame is there, or a part of it.
LEMMA VouchedMore ==
  ASSUME NEW p \in Seq(Bytes), NEW t \in Seq(Bytes), NEW met, NEW framed,
         framed \subseteq Chunks, NEW h \in framed,
         t = Record(h) \/ Len(t) \in 1 .. 7,
         Vouched(p, met, framed),
         NEW more, more = IF Len(p) % RecordSize = 0 THEN met
                          ELSE met \cup {WholeRecords(p) + 1}
  PROVE  Vouched(p \o t, more, framed)
<1> DEFINE n == WholeRecords(p)
           q == p \o t
<1>1. Len(t) \in 1 .. 8 /\ (t = Record(h) \/ Len(t) < 8)
  BY RecordIs
<1>2. /\ n \in Nat /\ WholeRecords(q) \in n .. n + 1
      /\ Len(p) % RecordSize = 0 /\ Len(t) < 8 => WholeRecords(q) = n
  BY <1>1, WholeMore
<1>3. \A i \in 1 .. n : \A k : Holds(p, i, k) => Holds(q, i, k)
  BY <1>1, HoldsStays
<1>4. Len(p) % RecordSize = 0 /\ t = Record(h) => Holds(q, n + 1, h)
  BY HoldsNew
<1> SUFFICES ASSUME NEW i \in 1 .. WholeRecords(q)
             PROVE  i \in more \/ \E k \in framed : Holds(q, i, k)
  BY DEF Vouched
<1> HIDE DEF n, q
<1>5. CASE i \in 1 .. n
  BY <1>3, <1>5 DEF Vouched, n
<1>6. CASE i \notin 1 .. n
  <2>1. i = n + 1 /\ WholeRecords(q) # n
    BY <1>2, <1>6
  <2>2. CASE Len(p) % RecordSize = 0
    <3>1. t = Record(h)
      BY <1>1, <1>2, <2>1, <2>2
    <3> QED
      BY <1>4, <2>1, <2>2, <3>1
  <2>3. CASE Len(p) % RecordSize # 0
    BY <2>1, <2>3 DEF n
  <2> QED
    BY <2>2, <2>3
<1> QED
  BY <1>5, <1>6

LEMMA VouchedRecord ==
  ASSUME TypeOK, RecordsVouched, held \in Framed, UNCHANGED data, Splice,
         NEW t \in Seq(Bytes), t = Record(held) \/ Len(t) \in 1 .. 7,
         progress' = [progress EXCEPT ![mode] = @ \o t]
  PROVE  RecordsVouched'
<1>1. Framed' = Framed /\ Framed \subseteq Chunks
  BY DEF Framed, HasFrame
<1>2. PICK m \in Modes : m = mode
  BY DEF TypeOK
<1>3. /\ progress'[m] = progress[m] \o t
      /\ spliced'[m] = IF Len(progress[m]) % RecordSize = 0 THEN spliced[m]
                       ELSE spliced[m] \cup {WholeRecords(progress[m]) + 1}
      /\ \A l \in Modes \ {m} : progress'[l] = progress[l] /\ spliced'[l] = spliced[l]
  BY <1>2 DEF TypeOK, Splice
<1>4. progress[m] \in Seq(Bytes)
  BY DEF TypeOK
<1>5. Vouched(progress[m] \o t, spliced'[m], Framed)
  <2>1. Vouched(progress[m], spliced[m], Framed)
    BY DEF RecordsVouched
  <2> QED
    BY <1>1, <1>3, <1>4, <2>1, VouchedMore
<1>6. \A l \in Modes : Vouched(progress'[l], spliced'[l], Framed)
  BY <1>3, <1>5 DEF RecordsVouched
<1> QED
  BY <1>1, <1>6 DEF RecordsVouched

LEMMA FilesInit == Init => FilesInv
<1> SUFFICES ASSUME Init PROVE FilesInv
  OBVIOUS
<1>1. \A m \in Modes : WholeRecords(progress[m]) = 0
  BY DEF Init, WholeRecords, RecordSize
<1> QED
  BY <1>1 DEF Init, FilesInv, RecordsVouched, Vouched, HeldHasFrame

LEMMA FilesStep == TypeOK /\ FilesInv /\ [Next]_vars => FilesInv'
<1> SUFFICES ASSUME TypeOK, FilesInv, [Next]_vars PROVE FilesInv'
  OBVIOUS
<1> USE DEF FilesInv
<1>1. ASSUME UNCHANGED <<files, spliced>>, phase' = "marking" => phase = "marking" /\ held' = held
      PROVE  FilesInv'
  <2>1. Framed' = Framed
    BY <1>1 DEF files, Framed, HasFrame
  <2>2. RecordsVouched'
    BY <1>1, <2>1, VouchedFrame DEF files
  <2> QED
    BY <1>1, <2>1, <2>2 DEF HeldHasFrame
<1>2. ASSUME NEW k \in Chunks, AppendFrame(k) PROVE FilesInv'
  <2>1. /\ Frame(k) \in Seq(Cells) /\ data' = data \o Frame(k)
        /\ UNCHANGED <<progress, spliced>> /\ held' = k
    BY <1>2, FrameType DEF AppendFrame
  <2>2. Framed \subseteq Framed'
    BY <2>1, FramesStay DEF Framed
  <2>3. RecordsVouched'
    BY <2>1, <2>2, VouchedFrame
  <2>4. k \in Framed'
    BY <2>1, FrameArrives DEF Framed
  <2> QED
    BY <2>1, <2>3, <2>4 DEF HeldHasFrame
<1>3. ASSUME NEW k \in Chunks, TearFrame(k) PROVE FilesInv'
  <2>1. PICK t \in 1 .. Len(Frame(k)) - 1 :
          data' = data \o SubSeq(Frame(k), 1, t)
    BY <1>3 DEF TearFrame
  <2>2. SubSeq(Frame(k), 1, t) \in Seq(Cells)
    BY FrameType
  <2>3. Framed \subseteq Framed'
    BY <2>1, <2>2, FramesStay DEF Framed
  <2>4. RecordsVouched'
    BY <1>3, <2>3, VouchedFrame DEF TearFrame
  <2> QED
    BY <1>3, <2>4 DEF TearFrame, HeldHasFrame
<1>4. CASE AppendRecord
  <2>1. held \in Framed /\ held \in Chunks
    BY <1>4 DEF AppendRecord, HeldHasFrame, TypeOK
  <2>2. Record(held) \in Seq(Bytes)
    BY <2>1, RecordIs
  <2>3. RecordsVouched'
    BY <1>4, <2>1, <2>2, VouchedRecord DEF AppendRecord
  <2> QED
    BY <1>4, <2>3 DEF AppendRecord, HeldHasFrame
<1>5. CASE TearRecord
  <2>1. held \in Framed /\ held \in Chunks
    BY <1>5 DEF TearRecord, HeldHasFrame, TypeOK
  <2>2. PICK t \in Cuts :
          progress' = [progress EXCEPT ![mode] = @ \o SubSeq(Record(held), 1, t)]
    BY <1>5 DEF TearRecord
  <2>3. /\ SubSeq(Record(held), 1, t) \in Seq(Bytes)
        /\ Len(SubSeq(Record(held), 1, t)) \in 1 .. 7
    BY <2>1, CutIs
  <2>4. RecordsVouched'
    BY <1>5, <2>1, <2>2, <2>3, VouchedRecord DEF TearRecord
  <2> QED
    BY <1>5, <2>4 DEF TearRecord, HeldHasFrame
<1>6. ASSUME NEW m \in Modes, Start(m) \/ StartExhausted(m) PROVE FilesInv'
  BY <1>1, <1>6 DEF Start, StartExhausted
<1>7. CASE \/ ReplayFrame \/ ReplayEnds \/ ReplayRaises \/ Finish
           \/ Abandon \/ DieUnmarked
  BY <1>1, <1>7 DEF ReplayFrame, ReplayEnds, ReplayRaises, Finish, Abandon,
                    DieUnmarked, watched
<1>8. CASE UNCHANGED vars
  BY <1>1, <1>8 DEF vars, session, watched
<1> QED
  BY <1>2, <1>3, <1>4, <1>5, <1>6, <1>7, <1>8 DEF Next

\* Wherever the processes died, in whatever order the modes alternate: a
\* record vouches only for a chunk whose frame is in the file, the records
\* excepted in which bytes of two appends met.
THEOREM FrameBeforeRecord == Spec => []RecordedHasFrame
<1>1. TypeOK /\ FilesInv => RecordedHasFrame
  <2> SUFFICES ASSUME TypeOK, FilesInv, NEW m \in Modes,
                      NEW i \in 1 .. WholeRecords(progress[m]) \ spliced[m]
               PROVE  /\ Unpacked(progress[m], i) \in Chunks
                      /\ HasFrame(Unpacked(progress[m], i))
    BY DEF RecordedHasFrame
  <2>1. PICK k \in Framed : Holds(progress[m], i, k)
    BY DEF FilesInv, RecordsVouched, Vouched
  <2>2. k \in Chunks /\ HasFrame(k)
    BY DEF Framed
  <2>3. Unpacked(progress[m], i) = k
    BY <2>1, <2>2, HoldsRead
  <2> QED
    BY <2>2, <2>3
<1> QED
  BY <1>1, FilesInit, FilesStep, TypeCorrect, PTL DEF Spec

-----------------------------------------------------------------------------
(* Where the frames lie, and where the reader stands.                      *)

\* As far as the file d reaches, the cells after the first p are those of the
\* frame of k ...
Begins(d, k, p) ==
  \A j \in 1 .. Len(Frame(k)) : p + j <= Len(d) => d[p + j] = Frame(k)[j]

\* ... and it reaches to the frame's end.
FrameAt(d, k, p) == Begins(d, k, p) /\ p + Len(Frame(k)) <= Len(d)

\* The file d begins with the frames of the chunks ks, and at tells where.
Laid(d, ks, at) ==
  /\ Len(at) = Len(ks) + 1 /\ at[1] = 0
  /\ \A i \in 1 .. Len(ks) : /\ FrameAt(d, ks[i], at[i])
                             /\ at[i + 1] = at[i] + Len(Frame(ks[i]))

\* Where the last of them ends.
End(ks, at) == at[Len(ks) + 1]

\* The reader stands at the end of one of them.
Placed(ks, at) == \E i \in 1 .. Len(ks) + 1 : pos = at[i]

RowOfFrames == \E ks \in Seq(Chunks), at \in Seq(Nat) :
                 /\ Laid(data, ks, at) /\ End(ks, at) = Len(data)
                 /\ phase = "replay" => Placed(ks, at)

\* The progress file p names the chunks ks in order, and may end in a part of
\* a record more.
Records(p, ks) == /\ WholeRecords(p) = Len(ks)
                  /\ \A i \in 1 .. Len(ks) : Holds(p, i, ks[i])

\* It consists of whole records.
AllRecords(p) == \E ks \in Seq(Chunks) : Records(p, ks) /\ Len(p) = 8 * Len(ks)

\* While nothing was cut short.
AlignedInv == ~torn => /\ RowOfFrames
                       /\ \A m \in Modes : AllRecords(progress[m])
                       /\ AllIntact
                       /\ phase # "raised"

-----------------------------------------------------------------------------
(* Sequences and frames.                                                   *)

LEMMA AppendIs ==
  ASSUME NEW S, NEW s \in Seq(S), NEW e \in S
  PROVE  /\ Append(s, e) \in Seq(S)
         /\ Len(Append(s, e)) = Len(s) + 1 /\ Len(s) \in Nat
         /\ \A i \in 1 .. Len(s) : Append(s, e)[i] = s[i]
         /\ Append(s, e)[Len(s) + 1] = e
OBVIOUS

LEMMA ChunksAreNat == Chunks \subseteq Nat
BY DEF Chunks

\* The fields and the payload of a frame.
LEMMA FrameCells ==
  ASSUME NEW k \in Chunks
  PROVE  /\ PayloadCells(Terms[k]) \in Nat /\ Terms[k] \in Nat
         /\ Len(Frame(k)) = 3 + PayloadCells(Terms[k])
         /\ Frame(k)[1] = Magic
         /\ Frame(k)[2] = Cell("index", k)
         /\ Frame(k)[3] = Cell("count", Terms[k])
         /\ \A j \in 1 .. PayloadCells(Terms[k]) : Frame(k)[3 + j] = Cell("term", k)
<1> DEFINE n == PayloadCells(Terms[k])
           c == Cell("term", k)
           h == Header(k)
           f == h \o Payload(k)
<1>1. Terms[k] \in Nat /\ k \in Nat
  BY CheckpointAssumption DEF Chunks
<1>2. n \in Nat /\ c \in Cells
  BY <1>1, PayloadLength DEF Cell, Cells
<1>3. /\ h \in Seq(Cells) /\ Len(h) = 3
      /\ h[1] = Magic /\ h[2] = Cell("index", k) /\ h[3] = Cell("count", Terms[k])
  BY <1>1 DEF Header, Magic, Cell, Cells
<1>4. Payload(k) = [i \in 1 .. n |-> c] /\ Frame(k) = f
  BY DEF Payload, Frame
<1> HIDE DEF n, c, h
<1>5. Payload(k) \in [1 .. n -> Cells] /\ \A i \in 1 .. n : Payload(k)[i] = c
  BY <1>2, <1>4
<1>6. Payload(k) \in Seq(Cells) /\ Len(Payload(k)) = n
  BY <1>2, <1>5, LenOf
<1>7. /\ Len(f) = Len(h) + Len(Payload(k))
      /\ \A i \in 1 .. Len(h) : f[i] = h[i]
      /\ \A i \in 1 .. Len(Payload(k)) : f[Len(h) + i] = Payload(k)[i]
  <2>1. h \in Seq(Cells) /\ Payload(k) \in Seq(Cells)
    BY <1>3, <1>6
  <2> HIDE DEF f
  <2>2. f = h \o Payload(k)
    BY DEF f
  <2> QED
    BY ONLY <2>1, <2>2, Concat
<1> HIDE DEF f
<1>8. /\ Len(f) = 3 + n
      /\ f[1] = h[1] /\ f[2] = h[2] /\ f[3] = h[3]
  BY <1>3, <1>6, <1>7
<1>9. \A j \in 1 .. n : f[3 + j] = c
  BY <1>3, <1>5, <1>6, <1>7
<1>10. /\ n \in Nat /\ Terms[k] \in Nat /\ Len(Frame(k)) = 3 + n
       /\ Frame(k)[1] = Magic /\ Frame(k)[2] = Cell("index", k)
       /\ Frame(k)[3] = Cell("count", Terms[k])
       /\ \A j \in 1 .. n : Frame(k)[3 + j] = c
  BY <1>1, <1>2, <1>3, <1>4, <1>8, <1>9
<1> QED
  BY <1>10 DEF n, c

\* A field that holds a number reads as that number.
LEMMA NumberRead ==
  ASSUME NEW v
  PROVE  Number(Cell("index", v)) = v /\ Number(Cell("count", v)) = v
BY DEF Number, Cell

LEMMA Positions == TypeOK => /\ pos \in Nat /\ Len(data) \in Nat
                             /\ data \in Seq(Cells) /\ delivered \in Seq(Yield)
                             /\ Len(delivered) \in Nat
BY DEF TypeOK

\* A header read where a frame begins is the header of that frame.
LEMMA HeaderRead ==
  ASSUME TypeOK, NEW k \in Chunks, Begins(data, k, pos), HeaderThere
  PROVE  GoodMagic /\ Index = k /\ Count = Terms[k] /\ Count \in Nat /\ Count # Huge
<1>1. pos \in Nat /\ Len(data) \in Nat /\ pos + 3 <= Len(data)
  BY Positions DEF HeaderThere, Rest, HeaderCells
<1>2. Len(Frame(k)) \in Nat /\ Len(Frame(k)) >= 3
  BY FrameType DEF HeaderCells
<1>3. \A j \in {1, 2, 3} : data[pos + j] = Frame(k)[j]
  BY <1>1, <1>2 DEF Begins
<1>4. /\ Field(1) = Magic /\ Field(2) = Cell("index", k)
      /\ Field(3) = Cell("count", Terms[k])
  BY <1>3, FrameCells DEF Field
<1>5. Index = k /\ Count = Terms[k] /\ Terms[k] \in Nat
  <2>1. Index = Number(Cell("index", k)) /\ Count = Number(Cell("count", Terms[k]))
    BY <1>4 DEF Index, Count
  <2> QED
    BY <2>1, NumberRead, FrameCells
<1> QED
  BY <1>4, <1>5 DEF GoodMagic, Huge

\* A whole frame is read as it was written.
LEMMA FrameRead ==
  ASSUME TypeOK, NEW k \in Chunks, FrameAt(data, k, pos)
  PROVE  /\ HeaderThere /\ PayloadThere /\ Index = k /\ Intact
         /\ NextFrame = pos + Len(Frame(k))
<1> DEFINE n == PayloadCells(Terms[k])
<1>1. /\ pos \in Nat /\ Len(data) \in Nat /\ n \in Nat
      /\ Len(Frame(k)) = 3 + n /\ pos + (3 + n) <= Len(data)
  BY Positions, FrameCells DEF FrameAt
<1>2. HeaderThere
  BY <1>1 DEF HeaderThere, Rest, HeaderCells
<1>3. GoodMagic /\ Index = k /\ Count = Terms[k] /\ Count # Huge
  BY <1>2, HeaderRead DEF FrameAt
<1> HIDE DEF n
<1>4. \A j \in 1 .. n : data[pos + (3 + j)] = Frame(k)[3 + j]
  BY <1>1 DEF FrameAt, Begins
<1>5. \A j \in 1 .. n : Field(3 + j) = Cell("term", k)
  BY <1>4, FrameCells DEF Field, n
<1>6. Intact
  BY <1>3, <1>5 DEF Intact, HeaderCells, n
<1>7. PayloadThere
  BY <1>1, <1>3 DEF PayloadThere, Rest, HeaderCells, n
<1>8. NextFrame = pos + Len(Frame(k))
  BY <1>1, <1>3 DEF NextFrame, HeaderCells, n
<1> QED
  BY <1>2, <1>3, <1>6, <1>7, <1>8

-----------------------------------------------------------------------------
(* The frames laid out in the file.                                        *)

LEMMA LaidTypes ==
  ASSUME NEW d, NEW ks \in Seq(Chunks), NEW at \in Seq(Nat), Laid(d, ks, at)
  PROVE  /\ Len(ks) \in Nat /\ Len(at) = Len(ks) + 1
         /\ \A i \in 1 .. Len(ks) + 1 : at[i] \in Nat
         /\ \A i \in 1 .. Len(ks) : ks[i] \in Chunks
         /\ End(ks, at) \in Nat
<1>1. Len(ks) \in Nat /\ Len(at) = Len(ks) + 1
  BY DEF Laid
<1>2. \A i \in 1 .. Len(at) : at[i] \in Nat
  OBVIOUS
<1>3. \A i \in 1 .. Len(ks) : ks[i] \in Chunks
  OBVIOUS
<1> QED
  BY <1>1, <1>2, <1>3 DEF End

\* The file before anything is written.
LEMMA LaidEmpty == Laid(<<>>, <<>>, <<0>>) /\ End(<<>>, <<0>>) = 0
BY DEF Laid, End

\* Appending to the file moves no frame.
LEMMA FrameAtStays ==
  ASSUME NEW d \in Seq(Cells), NEW t \in Seq(Cells),
         NEW k \in Chunks, NEW p \in Nat, FrameAt(d, k, p)
  PROVE  FrameAt(d \o t, k, p)
<1> DEFINE e == d \o t
<1>1. /\ Len(e) = Len(d) + Len(t) /\ Len(t) \in Nat /\ Len(d) \in Nat
      /\ \A i \in 1 .. Len(d) : e[i] = d[i]
  BY Concat
<1> HIDE DEF e
<1>2. Len(Frame(k)) \in Nat /\ p + Len(Frame(k)) <= Len(d)
  BY FrameType DEF FrameAt
<1>3. \A j \in 1 .. Len(Frame(k)) : p + j \in 1 .. Len(d) /\ d[p + j] = Frame(k)[j]
  BY <1>1, <1>2 DEF FrameAt, Begins
<1>4. \A j \in 1 .. Len(Frame(k)) : e[p + j] = Frame(k)[j]
  BY <1>1, <1>3
<1>5. p + Len(Frame(k)) <= Len(e)
  BY <1>1, <1>2
<1>6. FrameAt(e, k, p)
  BY <1>4, <1>5 DEF FrameAt, Begins
<1> QED
  BY <1>6 DEF e

LEMMA LaidStays ==
  ASSUME NEW d \in Seq(Cells), NEW t \in Seq(Cells),
         NEW ks \in Seq(Chunks), NEW at \in Seq(Nat), Laid(d, ks, at)
  PROVE  Laid(d \o t, ks, at)
<1> DEFINE e == d \o t
<1>1. \A i \in 1 .. Len(ks) : ks[i] \in Chunks /\ at[i] \in Nat
  <2>1. Len(ks) \in Nat /\ \A i \in 1 .. Len(ks) + 1 : at[i] \in Nat
    BY LaidTypes
  <2> QED
    BY <2>1
<1>2. \A i \in 1 .. Len(ks) : FrameAt(e, ks[i], at[i])
  BY <1>1, FrameAtStays DEF Laid
<1> HIDE DEF e
<1>3. Laid(e, ks, at)
  BY <1>2 DEF Laid
<1> QED
  BY <1>3 DEF e

\* What is appended where the file ends begins there.
LEMMA TailBegins ==
  ASSUME NEW d \in Seq(Cells), NEW k \in Chunks, NEW t \in 1 .. Len(Frame(k))
  PROVE  LET e == d \o SubSeq(Frame(k), 1, t)
         IN  Begins(e, k, Len(d)) /\ Len(e) = Len(d) + t
<1> DEFINE u == SubSeq(Frame(k), 1, t)
           e == d \o u
<1>1. Frame(k) \in Seq(Cells) /\ Len(Frame(k)) \in Nat /\ Len(d) \in Nat
  BY FrameType
<1>2. u \in Seq(Cells) /\ Len(u) = t /\ \A j \in 1 .. t : u[j] = Frame(k)[j]
  BY <1>1
<1> HIDE DEF u
<1>3. /\ Len(e) = Len(d) + Len(u)
      /\ \A j \in 1 .. Len(u) : e[Len(d) + j] = u[j]
  <2> HIDE DEF e
  <2>1. d \in Seq(Cells) /\ u \in Seq(Cells) /\ e = d \o u
    BY <1>2 DEF e
  <2> QED
    BY ONLY <2>1, Concat
<1> HIDE DEF e
<1>4. Len(e) = Len(d) + t /\ Begins(e, k, Len(d))
  BY <1>1, <1>2, <1>3 DEF Begins
<1> QED
  BY <1>4 DEF e, u

LEMMA FrameArrivesWhole ==
  ASSUME NEW d \in Seq(Cells), NEW k \in Chunks
  PROVE  FrameAt(d \o Frame(k), k, Len(d)) /\ Len(d \o Frame(k)) = Len(d) + Len(Frame(k))
<1> DEFINE e == d \o Frame(k)
<1>1. Frame(k) \in Seq(Cells) /\ Len(Frame(k)) \in Nat /\ Len(d) \in Nat
  BY FrameType
<1>2. /\ Len(e) = Len(d) + Len(Frame(k))
      /\ \A j \in 1 .. Len(Frame(k)) : e[Len(d) + j] = Frame(k)[j]
  BY <1>1, Concat
<1> HIDE DEF e
<1>3. FrameAt(e, k, Len(d))
  BY <1>1, <1>2 DEF FrameAt, Begins
<1> QED
  BY <1>2, <1>3 DEF e

\* A frame where the last one ends extends the row.
LEMMA LaidMore ==
  ASSUME NEW d \in Seq(Cells), NEW k \in Chunks,
         NEW ks \in Seq(Chunks), NEW at \in Seq(Nat), Laid(d, ks, at),
         FrameAt(d, k, End(ks, at))
  PROVE  \E ks2 \in Seq(Chunks), at2 \in Seq(Nat) :
           /\ ks2 = Append(ks, k)
           /\ Laid(d, ks2, at2)
           /\ End(ks2, at2) = End(ks, at) + Len(Frame(k))
<1> DEFINE ks2 == Append(ks, k)
           n == Len(ks)
           e == End(ks, at)
           at2 == Append(at, e + Len(Frame(k)))
<1>1. Frame(k) \in Seq(Cells) /\ Len(Frame(k)) \in Nat
  BY FrameType
<1>2. /\ n \in Nat /\ Len(at) = n + 1
      /\ \A i \in 1 .. n + 1 : at[i] \in Nat
      /\ at[n + 1] = e /\ e \in Nat /\ e + Len(Frame(k)) \in Nat
  BY <1>1, LaidTypes DEF End
<1>3. /\ ks2 \in Seq(Chunks) /\ Len(ks2) = n + 1
      /\ \A i \in 1 .. n : ks2[i] = ks[i]
      /\ ks2[n + 1] = k
  BY AppendIs
<1>4. /\ at2 \in Seq(Nat) /\ Len(at2) = n + 2
      /\ \A i \in 1 .. n + 1 : at2[i] = at[i]
      /\ at2[n + 2] = e + Len(Frame(k))
  <2>1. /\ at2 \in Seq(Nat) /\ Len(at2) = Len(at) + 1
        /\ \A i \in 1 .. Len(at) : at2[i] = at[i]
        /\ at2[Len(at) + 1] = e + Len(Frame(k))
    BY <1>2, AppendIs
  <2> QED
    BY <1>2, <2>1
<1> HIDE DEF ks2, at2, n, e
<1>5. ASSUME NEW i \in 1 .. n + 1
      PROVE  FrameAt(d, ks2[i], at2[i]) /\ at2[i + 1] = at2[i] + Len(Frame(ks2[i]))
  <2>1. CASE i \in 1 .. n
    <3>1. i + 1 \in 1 .. n + 1 /\ i \in 1 .. n + 1
      BY <1>2, <2>1
    <3>2. ks2[i] = ks[i] /\ at2[i] = at[i] /\ at2[i + 1] = at[i + 1]
      BY <1>3, <1>4, <2>1, <3>1
    <3>3. FrameAt(d, ks[i], at[i]) /\ at[i + 1] = at[i] + Len(Frame(ks[i]))
      BY <2>1 DEF Laid, n
    <3> QED
      BY <3>2, <3>3
  <2>2. CASE i = n + 1
    <3>1. ks2[i] = k /\ at2[i] = e /\ at2[i + 1] = e + Len(Frame(k))
      BY <1>2, <1>3, <1>4, <2>2
    <3>2. FrameAt(d, k, e)
      BY DEF e
    <3> QED
      BY <3>1, <3>2
  <2> QED
    BY <1>2, <2>1, <2>2
<1>6. Len(at2) = Len(ks2) + 1 /\ at2[1] = 0
  <2>1. at[1] = 0
    BY DEF Laid
  <2> QED
    BY <1>2, <1>3, <1>4, <2>1
<1>7. Laid(d, ks2, at2)
  BY <1>3, <1>5, <1>6 DEF Laid
<1>8. End(ks2, at2) = e + Len(Frame(k))
  BY <1>2, <1>3, <1>4 DEF End
<1> QED
  BY <1>3, <1>4, <1>7, <1>8 DEF ks2, e

\* Every frame of the row lies before its end.
LEMMA LaidFrame ==
  ASSUME NEW ks \in Seq(Chunks), NEW at \in Seq(Nat), NEW d, Laid(d, ks, at),
         NEW i \in 1 .. Len(ks) + 1, i # Len(ks) + 1
  PROVE  /\ i \in 1 .. Len(ks) /\ i + 1 \in 1 .. Len(ks) + 1
         /\ ks[i] \in Chunks /\ FrameAt(d, ks[i], at[i])
         /\ at[i + 1] = at[i] + Len(Frame(ks[i]))
<1>1. Len(ks) \in Nat
  OBVIOUS
<1>2. i \in 1 .. Len(ks) /\ i + 1 \in 1 .. Len(ks) + 1
  BY <1>1
<1> QED
  BY <1>2, LaidTypes DEF Laid

-----------------------------------------------------------------------------
(* While nothing was cut short, the reader stays on frame boundaries.      *)

\* A record more, behind whole ones.
LEMMA RecordsMore ==
  ASSUME NEW p \in Seq(Bytes), NEW ks \in Seq(Chunks), NEW k \in Chunks,
         Records(p, ks), Len(p) = 8 * Len(ks)
  PROVE  /\ Records(p \o Record(k), Append(ks, k))
         /\ Len(p \o Record(k)) = 8 * Len(Append(ks, k))
<1> DEFINE e == Append(ks, k)
           n == Len(ks)
           q == p \o Record(k)
<1>1. /\ Len(e) = n + 1 /\ n \in Nat
      /\ \A i \in 1 .. n : e[i] = ks[i]
      /\ e[n + 1] = k
  BY AppendIs
<1>2. Record(k) \in Seq(Bytes) /\ Len(Record(k)) = 8
  BY RecordIs
<1>3. WholeRecords(p) = n /\ \A i \in 1 .. n : Holds(p, i, ks[i])
  BY DEF Records
<1>4. Len(p) % RecordSize = 0
  <2> HIDE DEF n
  <2>1. (8 * n) % 8 = 0
    BY <1>1
  <2> QED
    BY <2>1 DEF RecordSize, n
<1>5. Len(q) = Len(p) + 8 /\ WholeRecords(q) = n + 1
  <2>1. PICK u \in Seq(Bytes) : u = Record(k) /\ Len(u) = 8
    BY <1>2
  <2>2. Len(u) \in 1 .. 8
    BY <2>1
  <2>3. /\ Len(p \o u) = Len(p) + Len(u)
        /\ WholeRecords(p \o u) = WholeRecords(p) + 1
    BY <1>4, <2>1, <2>2, AlignedMore
  <2> QED
    BY <1>3, <2>1, <2>2, <2>3
<1>6. Holds(q, n + 1, k)
  BY <1>3, <1>4, HoldsNew
<1>7. \A i \in 1 .. n : Holds(q, i, ks[i])
  BY <1>2, <1>3, HoldsStays
<1>8. Len(p) = 8 * n
  OBVIOUS
<1> HIDE DEF e, n, q
<1>9. ASSUME NEW i \in 1 .. n + 1 PROVE Holds(q, i, e[i])
  <2>1. i \in 1 .. n \/ i = n + 1
    BY <1>1
  <2> QED
    BY <1>1, <1>6, <1>7, <2>1
<1>10. Len(q) = 8 * Len(e) /\ WholeRecords(q) = Len(e)
  BY <1>1, <1>5, <1>8
<1>11. Records(q, e)
  BY <1>1, <1>9, <1>10 DEF Records
<1> QED
  BY <1>10, <1>11 DEF q, e

\* A part of one.
LEMMA RecordsTorn ==
  ASSUME NEW p \in Seq(Bytes), NEW ks \in Seq(Chunks), NEW k \in Chunks,
         NEW t \in Cuts, Records(p, ks), Len(p) = 8 * Len(ks)
  PROVE  Records(p \o SubSeq(Record(k), 1, t), ks)
<1> DEFINE n == Len(ks)
<1>1. PICK u \in Seq(Bytes) :
        u = SubSeq(Record(k), 1, t) /\ Len(u) \in 1 .. 8 /\ Len(u) < 8
  BY CutIs, Zenon
<1>2. n \in Nat /\ WholeRecords(p) = n /\ \A i \in 1 .. n : Holds(p, i, ks[i])
  BY DEF Records
<1>3. Len(p) % RecordSize = 0
  <2> HIDE DEF n
  <2>1. (8 * n) % 8 = 0
    BY <1>2
  <2> QED
    BY <2>1 DEF RecordSize, n
<1>4. WholeRecords(p \o u) = n
  BY <1>1, <1>2, <1>3, AlignedMore
<1>5. \A i \in 1 .. n : Holds(p \o u, i, ks[i])
  BY <1>1, <1>2, HoldsStays
<1>6. Records(p \o u, ks)
  BY <1>4, <1>5 DEF Records
<1> QED
  BY <1>1, <1>6

\* What is read of the records is what they name.
LEMMA RecordsRead ==
  ASSUME NEW m, NEW ks \in Seq(Chunks), Records(progress[m], ks)
  PROVE  Recorded(m) = {ks[i] : i \in 1 .. Len(ks)} /\ Recorded(m) \subseteq Chunks
<1> DEFINE p == progress[m]
           n == Len(ks)
<1>1. n \in Nat /\ \A i \in 1 .. n : ks[i] \in Chunks
  OBVIOUS
<1>2. WholeRecords(p) = n /\ \A i \in 1 .. n : Holds(p, i, ks[i])
  BY DEF Records
<1> HIDE DEF p, n
<1>3. \A i \in 1 .. n : Unpacked(p, i) = ks[i]
  BY <1>1, <1>2, HoldsRead
<1>4. Recorded(m) = {ks[i] : i \in 1 .. n}
  BY <1>2, <1>3 DEF Recorded, p
<1> QED
  BY <1>1, <1>4 DEF n

LEMMA AllAppend ==
  ASSUME NEW p \in Seq(Bytes), NEW k \in Chunks, AllRecords(p)
  PROVE  AllRecords(p \o Record(k))
<1>1. PICK ks \in Seq(Chunks) : Records(p, ks) /\ Len(p) = 8 * Len(ks)
  BY DEF AllRecords
<1>2. PICK ks2 \in Seq(Chunks) : ks2 = Append(ks, k)
  BY AppendIs
<1>3. Records(p \o Record(k), ks2) /\ Len(p \o Record(k)) = 8 * Len(ks2)
  BY <1>1, <1>2, RecordsMore
<1> QED
  BY <1>3 DEF AllRecords

\* The files before anything is written.
LEMMA RecordsEmpty == Records(<<>>, <<>>) /\ AllRecords(<<>>)
<1>1. WholeRecords(<<>>) = 0
  BY DEF WholeRecords, RecordSize
<1>2. Records(<<>>, <<>>)
  BY <1>1 DEF Records
<1>3. <<>> \in Seq(Chunks) /\ Len(<<>>) = 8 * Len(<<>>)
  OBVIOUS
<1> QED
  BY <1>2, <1>3 DEF AllRecords

LEMMA IntactAppend ==
  ASSUME TypeOK, AllIntact, NEW y \in Yield, y.intact, delivered' = Append(delivered, y)
  PROVE  AllIntact'
<1>1. delivered \in Seq(Yield)
  BY Positions
<1>2. /\ Len(delivered') = Len(delivered) + 1 /\ Len(delivered) \in Nat
      /\ \A i \in 1 .. Len(delivered) : delivered'[i] = delivered[i]
      /\ delivered'[Len(delivered) + 1] = y
  BY <1>1, AppendIs
<1> QED
  BY <1>2 DEF AllIntact

LEMMA AlignedInit == Init => AlignedInv
<1> SUFFICES ASSUME Init PROVE AlignedInv
  OBVIOUS
<1>1. RowOfFrames
  <2>1. Laid(data, <<>>, <<0>>) /\ End(<<>>, <<0>>) = Len(data)
    BY LaidEmpty DEF Init
  <2>2. <<>> \in Seq(Chunks) /\ <<0>> \in Seq(Nat) /\ phase = "down"
    BY DEF Init
  <2> QED
    BY <2>1, <2>2 DEF RowOfFrames
<1>2. \A m \in Modes : AllRecords(progress[m])
  BY RecordsEmpty DEF Init
<1>3. AllIntact /\ phase # "raised"
  BY DEF Init, AllIntact
<1> QED
  BY <1>1, <1>2, <1>3 DEF AlignedInv

LEMMA AlignedStep == TypeOK /\ AlignedInv /\ [Next]_vars => AlignedInv'
<1> SUFFICES ASSUME TypeOK, AlignedInv, [Next]_vars, ~torn'
             PROVE  (/\ RowOfFrames
                     /\ \A m \in Modes : AllRecords(progress[m])
                     /\ AllIntact
                     /\ phase # "raised")'
  BY DEF AlignedInv
<1> DEFINE Goal == (/\ RowOfFrames
                    /\ \A m \in Modes : AllRecords(progress[m])
                    /\ AllIntact
                    /\ phase # "raised")'
<1>1. ~torn
  BY DEF Next, Start, StartExhausted, ReplayFrame, ReplayEnds, ReplayRaises,
         AppendFrame, TearFrame, AppendRecord, Finish, Abandon, DieUnmarked,
         TearRecord, vars, watched
<1>2. /\ RowOfFrames /\ AllIntact /\ phase # "raised"
      /\ \A m \in Modes : AllRecords(progress[m])
  BY <1>1 DEF AlignedInv
<1>3. PICK ks \in Seq(Chunks), at \in Seq(Nat) :
        /\ Laid(data, ks, at) /\ End(ks, at) = Len(data)
        /\ phase = "replay" => Placed(ks, at)
  BY <1>2 DEF RowOfFrames
<1>4. ASSUME UNCHANGED files, phase' # "raised", AllIntact',
             phase' = "replay" => Placed(ks, at)'
      PROVE  Goal
  <2>1. Laid(data', ks, at) /\ End(ks, at) = Len(data')
    BY <1>3, <1>4 DEF files
  <2>2. RowOfFrames'
    BY <1>4, <2>1 DEF RowOfFrames, End
  <2> QED
    BY <1>2, <1>4, <2>2 DEF files
<1>5. ASSUME NEW m \in Modes, Start(m) PROVE Goal
  <2>1. pos' = at[1] /\ 1 \in 1 .. Len(ks) + 1
    BY <1>3, <1>5 DEF Start, Laid
  <2>2. Placed(ks, at)'
    BY <2>1 DEF Placed
  <2>3. AllIntact' /\ phase' # "raised"
    BY <1>5 DEF Start, AllIntact
  <2> QED
    BY <1>4, <1>5, <2>2, <2>3 DEF Start
<1>6. ASSUME NEW m \in Modes, StartExhausted(m) PROVE Goal
  <2>1. PICK rs \in Seq(Chunks) : Records(progress[m], rs)
    BY <1>2 DEF AllRecords
  <2>2. Recorded(m) \subseteq Chunks
    BY <2>1, RecordsRead
  <2> QED
    BY <1>6, <2>2 DEF StartExhausted
<1>7. ASSUME phase = "replay"
      PROVE  \/ pos = Len(data)
             \/ \E i \in 1 .. Len(ks) :
                  /\ i + 1 \in 1 .. Len(ks) + 1 /\ ks[i] \in Chunks
                  /\ FrameAt(data, ks[i], pos) /\ at[i + 1] = pos + Len(Frame(ks[i]))
  <2>1. PICK i \in 1 .. Len(ks) + 1 : pos = at[i]
    BY <1>3, <1>7 DEF Placed
  <2>2. CASE i = Len(ks) + 1
    BY <1>3, <2>1, <2>2 DEF End
  <2>3. CASE i # Len(ks) + 1
    BY <1>3, <2>1, <2>3, LaidFrame
  <2> QED
    BY <2>2, <2>3
<1>8. pos = Len(data) => ~HeaderThere
  BY Positions DEF HeaderThere, Rest, HeaderCells
<1>9. CASE ReplayFrame
  <2>1. HeaderThere /\ phase = "replay" /\ Index \in skip
    BY <1>9 DEF ReplayFrame, PayloadThere, GoodMagic, Valid
  <2>2. PICK i \in 1 .. Len(ks) :
          /\ i + 1 \in 1 .. Len(ks) + 1 /\ ks[i] \in Chunks
          /\ FrameAt(data, ks[i], pos) /\ at[i + 1] = pos + Len(Frame(ks[i]))
    BY <1>7, <1>8, <2>1
  <2>3. Intact /\ NextFrame = at[i + 1] /\ Index \in Chunks
    BY <2>2, FrameRead
  <2>4. Placed(ks, at)'
    BY <1>9, <2>2, <2>3 DEF ReplayFrame, Placed
  <2> DEFINE y == [chunk |-> Index, intact |-> Intact]
  <2>5. y \in Yield /\ y.intact
    BY <2>3, ChunksAreNat DEF Yield
  <2>6. delivered' = Append(delivered, y)
    BY <1>9 DEF ReplayFrame
  <2> HIDE DEF y
  <2>7. AllIntact'
    BY <1>2, <2>5, <2>6, IntactAppend
  <2> QED
    BY <1>4, <1>9, <2>1, <2>4, <2>7 DEF ReplayFrame
<1>10. CASE ReplayRaises
  <2>1. HeaderThere /\ phase = "replay"
    BY <1>10 DEF ReplayRaises
  <2>2. PICK i \in 1 .. Len(ks) : ks[i] \in Chunks /\ FrameAt(data, ks[i], pos)
    BY <1>7, <1>8, <2>1
  <2>3. GoodMagic /\ Count # Huge
    BY <2>1, <2>2, HeaderRead DEF FrameAt
  <2> QED
    BY <1>10, <2>3 DEF ReplayRaises, GoodMagic
<1>11. CASE ReplayEnds \/ Finish \/ Abandon
  <2>1. UNCHANGED <<files, delivered>> /\ phase' \notin {"raised", "replay"}
    BY <1>11 DEF ReplayEnds, Finish, Abandon, watched
  <2>2. AllIntact'
    BY <1>2, <2>1 DEF AllIntact
  <2> QED
    BY <1>4, <2>1, <2>2
<1>12. CASE DieUnmarked
  <2>1. UNCHANGED <<files, delivered>> /\ phase' = "down"
    BY <1>12 DEF DieUnmarked
  <2>2. AllIntact'
    BY <1>2, <2>1 DEF AllIntact
  <2> QED
    BY <1>4, <2>1, <2>2
<1>13. ASSUME NEW k \in Chunks, AppendFrame(k) PROVE Goal
  <2>1. /\ data' = data \o Frame(k) /\ phase' = "marking"
        /\ UNCHANGED <<progress, delivered>>
    BY <1>13 DEF AppendFrame
  <2>2. data \in Seq(Cells) /\ Frame(k) \in Seq(Cells)
    BY Positions, FrameType
  <2>3. /\ Laid(data', ks, at) /\ FrameAt(data', k, End(ks, at))
        /\ Len(data') = End(ks, at) + Len(Frame(k)) /\ data' \in Seq(Cells)
    BY <1>3, <2>1, <2>2, LaidStays, FrameArrivesWhole
  <2>4. PICK ks2 \in Seq(Chunks), at2 \in Seq(Nat) :
          Laid(data', ks2, at2) /\ End(ks2, at2) = Len(data')
    BY <2>3, LaidMore
  <2>6. RowOfFrames'
    BY <2>1, <2>4 DEF RowOfFrames
  <2>5. AllIntact'
    BY <1>2, <2>1 DEF AllIntact
  <2> QED
    BY <1>2, <2>1, <2>5, <2>6
<1>14. CASE AppendRecord
  <2>1. /\ UNCHANGED data /\ phase' = "run"
        /\ progress' = [progress EXCEPT ![mode] = @ \o Record(held)]
        /\ delivered' = Append(delivered, [chunk |-> held, intact |-> TRUE])
    BY <1>14 DEF AppendRecord
  <2>2. held \in Chunks /\ mode \in Modes /\ progress \in [Modes -> Seq(Bytes)]
    BY DEF TypeOK
  <2>3. [chunk |-> held, intact |-> TRUE] \in Yield
    BY <2>2, ChunksAreNat DEF Yield
  <2>4. AllIntact'
    BY <1>2, <2>1, <2>3, IntactAppend
  <2>5. Laid(data', ks, at) /\ End(ks, at)' = Len(data')
    BY <1>3, <2>1 DEF End
  <2>6. RowOfFrames'
    BY <2>1, <2>5 DEF RowOfFrames
  <2>7. ASSUME NEW m \in Modes PROVE AllRecords(progress'[m])
    <3>1. CASE m = mode
      <4>1. progress'[m] = progress[m] \o Record(held)
        BY <2>1, <2>2, <3>1
      <4> QED
        BY <1>2, <2>2, <4>1, AllAppend
    <3>2. CASE m # mode
      <4>1. progress'[m] = progress[m]
        BY <2>1, <2>2, <3>2
      <4> QED
        BY <1>2, <4>1
    <3> QED
      BY <3>1, <3>2
  <2> QED
    BY <2>1, <2>4, <2>6, <2>7
<1>15. CASE UNCHANGED vars
  <2>1. AllIntact'
    BY <1>2, <1>15 DEF AllIntact, vars, watched
  <2>2. phase' = "replay" => Placed(ks, at)'
    BY <1>3, <1>15 DEF Placed, vars, session
  <2> QED
    BY <1>2, <1>4, <1>15, <2>1, <2>2 DEF vars, session
<1>16. ASSUME NEW k \in Chunks, TearFrame(k) PROVE Goal
  BY <1>16 DEF TearFrame
<1>17. CASE TearRecord
  BY <1>17 DEF TearRecord
<1> QED
  BY <1>5, <1>6, <1>9, <1>10, <1>11, <1>12, <1>13, <1>14, <1>15, <1>16, <1>17
     DEF Next

\* As long as every interruption fell between two writes, however many there
\* were, in whatever order the modes alternate: the reader stays on frame
\* boundaries, yields every frame as it was written and reports no damage.
THEOREM ReaderStaysAligned == Spec => []AlignedUnlessTorn
<1>1. AlignedInv => AlignedUnlessTorn
  BY DEF AlignedInv, AlignedUnlessTorn
<1> QED
  BY <1>1, AlignedInit, AlignedStep, TypeCorrect, PTL DEF Spec

-----------------------------------------------------------------------------
(* One mode, and nothing in the middle of the files that no record names.  *)

Members(ks) == {ks[i] : i \in 1 .. Len(ks)}
Distinct(ks) == \A i, j \in 1 .. Len(ks) : ks[i] = ks[j] => i = j

\* What was yielded, d, is the first n of the chunks ks.
YieldedFirst(d, ks, n) ==
  /\ Len(d) = n
  /\ \A i \in 1 .. n : d[i].chunk = ks[i]

Names(d) == {d[i].chunk : i \in 1 .. Len(d)}
NoneTwice(d) == \A i, j \in 1 .. Len(d) : d[i].chunk = d[j].chunk => i = j
CountsFromZero(d) == \A i \in 1 .. Len(d) : d[i].chunk = i - 1

\* What lies behind the recorded frames: nothing; the frame whose record is
\* due; or what an interrupted append left of a chunk no record names.
TailOf(ks, at) ==
  \/ Len(data) = End(ks, at) /\ Len(progress[mode]) = 8 * Len(ks) /\ phase # "marking"
  \/ /\ phase = "marking" /\ held \notin Members(ks)
     /\ Begins(data, held, End(ks, at))
     /\ Len(data) = End(ks, at) + Len(Frame(held))
     /\ Len(progress[mode]) = 8 * Len(ks)
  \/ /\ left = "tail" /\ phase # "marking"
     /\ \E k \in Chunks \ Members(ks) :
          /\ Begins(data, k, End(ks, at))
          /\ Len(data) \in End(ks, at) .. End(ks, at) + Len(Frame(k))

\* Where the session stands with respect to the recorded frames.
ReadSoFar(ks, at) ==
  /\ phase = "replay" =>
       /\ skip = Members(ks) /\ todo = Chunks \ skip
       /\ \E i \in 1 .. Len(ks) + 1 : pos = at[i] /\ YieldedFirst(delivered, ks, i - 1)
  /\ phase \in {"run", "marking"} /\ left = "nothing" => YieldedFirst(delivered, ks, Len(ks))

FilesOf(ks, at) ==
  /\ Laid(data, ks, at) /\ Distinct(ks)
  /\ mode = "sequential" => \A i \in 1 .. Len(ks) : ks[i] = i - 1
  /\ Records(progress[mode], ks)
  /\ TailOf(ks, at)
  /\ ReadSoFar(ks, at)

\* What was left behind is only ever buried deeper.
LeftInv ==
  /\ left = "nothing" => leftAtStart = "nothing"
  /\ leftAtStart = "buried" => left = "buried"
  /\ phase = "replay" => left = leftAtStart
  /\ phase = "marking" => left # "tail"

\* The chunks a session does not owe any more.
Settled == Chunks \ (todo \cup (IF phase = "marking" THEN {held} ELSE {}))

SessionInv ==
  /\ phase # "raised" /\ AllIntact /\ NoneTwice(delivered)
  /\ phase \in {"run", "marking", "complete"} => Names(delivered) = Settled
  /\ phase = "marking" => held \notin todo
  /\ phase = "complete" => todo = {}
  /\ mode = "sequential" =>
       /\ CountsFromZero(delivered)
       /\ phase = "marking" => held = Len(delivered)

ResumeInv ==
  /\ LeftInv
  /\ left # "buried" => \E ks \in Seq(Chunks), at \in Seq(Nat) : FilesOf(ks, at)
  /\ leftAtStart # "buried" => SessionInv

\* Facts about what was yielded.
LEMMA NamesAppend ==
  ASSUME NEW d \in Seq(Yield), NEW y \in Yield
  PROVE  /\ Append(d, y) \in Seq(Yield)
         /\ Names(Append(d, y)) = Names(d) \cup {y.chunk}
         /\ NoneTwice(d) /\ y.chunk \notin Names(d) => NoneTwice(Append(d, y))
         /\ CountsFromZero(d) /\ y.chunk = Len(d) => CountsFromZero(Append(d, y))
<1> DEFINE e == Append(d, y)
           n == Len(d)
<1>1. /\ e \in Seq(Yield) /\ Len(e) = n + 1 /\ n \in Nat
      /\ \A i \in 1 .. n : e[i] = d[i]
      /\ e[n + 1] = y
  BY AppendIs
<1> HIDE DEF e, n
<1>2. \A i \in 1 .. n + 1 : i \in 1 .. n \/ i = n + 1
  BY <1>1
<1>3. Names(e) = Names(d) \cup {y.chunk}
  <2>1. \A i \in 1 .. n : i \in 1 .. n + 1
    BY <1>1
  <2>2. n + 1 \in 1 .. n + 1
    BY <1>1
  <2> QED
    BY <1>1, <1>2, <2>1, <2>2 DEF Names, n
<1>4. NoneTwice(d) /\ y.chunk \notin Names(d) => NoneTwice(e)
  BY <1>1, <1>2 DEF NoneTwice, Names, n
<1>5. CountsFromZero(d) /\ y.chunk = n => CountsFromZero(e)
  <2> SUFFICES ASSUME CountsFromZero(d), y.chunk = n, NEW i \in 1 .. n + 1
               PROVE  e[i].chunk = i - 1
    BY <1>1 DEF CountsFromZero
  <2>1. CASE i \in 1 .. n
    BY <1>1, <2>1 DEF CountsFromZero, n
  <2>2. CASE i = n + 1
    BY <1>1, <2>2
  <2> QED
    BY <1>2, <2>1, <2>2
<1> QED
  BY <1>1, <1>3, <1>4, <1>5 DEF e, n

LEMMA FirstAppend ==
  ASSUME NEW d \in Seq(Yield), NEW y \in Yield, NEW ks \in Seq(Chunks),
         NEW n \in Nat, YieldedFirst(d, ks, n), y.chunk = ks[n + 1]
  PROVE  YieldedFirst(Append(d, y), ks, n + 1)
<1> DEFINE e == Append(d, y)
<1>1. /\ Len(e) = n + 1
      /\ \A i \in 1 .. n : e[i] = d[i]
      /\ e[n + 1] = y
  BY AppendIs DEF YieldedFirst
<1> HIDE DEF e
<1>2. \A i \in 1 .. n + 1 : i \in 1 .. n \/ i = n + 1
  OBVIOUS
<1>3. YieldedFirst(e, ks, n + 1)
  BY <1>1, <1>2 DEF YieldedFirst
<1> QED
  BY <1>3 DEF e

\* The same against more chunks.
LEMMA FirstOfMore ==
  ASSUME NEW d, NEW ks \in Seq(Chunks), NEW k \in Chunks,
         NEW n \in 0 .. Len(ks), YieldedFirst(d, ks, n)
  PROVE  YieldedFirst(d, Append(ks, k), n)
<1>1. \A i \in 1 .. Len(ks) : Append(ks, k)[i] = ks[i]
  BY AppendIs
<1>2. \A i \in 1 .. n : i \in 1 .. Len(ks)
  OBVIOUS
<1> QED
  BY <1>1, <1>2 DEF YieldedFirst

LEMMA FirstFacts ==
  ASSUME NEW d \in Seq(Yield), NEW ks \in Seq(Chunks), Distinct(ks),
         NEW n \in 0 .. Len(ks), YieldedFirst(d, ks, n)
  PROVE  /\ NoneTwice(d)
         /\ Names(d) \subseteq Members(ks)
         /\ n = Len(ks) => Names(d) = Members(ks)
         /\ (\A i \in 1 .. Len(ks) : ks[i] = i - 1) => CountsFromZero(d)
<1>1. Len(ks) \in Nat /\ \A i \in 1 .. n : i \in 1 .. Len(ks)
  OBVIOUS
<1>2. NoneTwice(d)
  BY <1>1 DEF NoneTwice, YieldedFirst, Distinct
<1>3. Names(d) \subseteq Members(ks)
  BY <1>1 DEF Names, Members, YieldedFirst
<1>4. n = Len(ks) => Names(d) = Members(ks)
  BY <1>1 DEF Names, Members, YieldedFirst
<1>5. (\A i \in 1 .. Len(ks) : ks[i] = i - 1) => CountsFromZero(d)
  BY <1>1 DEF CountsFromZero, YieldedFirst
<1> QED
  BY <1>2, <1>3, <1>4, <1>5

\* Facts about the chunks recorded.
LEMMA DistinctMore ==
  ASSUME NEW ks \in Seq(Chunks), NEW k \in Chunks \ Members(ks), Distinct(ks)
  PROVE  Distinct(Append(ks, k))
<1> DEFINE e == Append(ks, k)
           n == Len(ks)
<1>1. /\ Len(e) = n + 1 /\ n \in Nat
      /\ \A i \in 1 .. n : e[i] = ks[i]
      /\ e[n + 1] = k
  BY AppendIs
<1>2. \A i \in 1 .. n : ks[i] # k
  BY DEF Members
<1> HIDE DEF e
<1>3. \A i \in 1 .. n + 1 : i \in 1 .. n \/ i = n + 1
  BY <1>1
<1>4. Distinct(e)
  BY <1>1, <1>2, <1>3 DEF Distinct
<1> QED
  BY <1>4 DEF e

LEMMA ModeIs == ASSUME TypeOK PROVE mode \in Modes /\ mode \in {"sequential", "parallel"}
BY CheckpointAssumption DEF TypeOK

\* A session takes for completed exactly the chunks recorded.
LEMMA CompletedIs ==
  ASSUME TypeOK, NEW ks \in Seq(Chunks), Records(progress[mode], ks),
         mode = "sequential" => \A i \in 1 .. Len(ks) : ks[i] = i - 1
  PROVE  /\ Recorded(mode) \subseteq Chunks
         /\ Recorded(mode) = Members(ks)
         /\ Completed(mode) = Members(ks)
         /\ Members(ks) \subseteq Chunks
<1> DEFINE n == Len(ks)
<1>1. n \in Nat /\ \A i \in 1 .. n : ks[i] \in Chunks
  OBVIOUS
<1>4. Recorded(mode) = Members(ks)
  BY RecordsRead DEF Members
<1>5. Members(ks) \subseteq Chunks
  BY <1>1 DEF Members
<1> HIDE DEF n
<1>7. CASE mode = "parallel"
  BY <1>4, <1>5, <1>7 DEF Completed
<1>8. CASE mode = "sequential"
  <2>1. \A i \in 1 .. n : ks[i] = i - 1
    BY <1>8 DEF n
  <2>2. UpToLast(Members(ks)) = Members(ks)
    <3>1. ASSUME NEW k \in Members(ks) PROVE k \in UpToLast(Members(ks))
      <4>1. k \in Nat
        BY <1>5, ChunksAreNat
      <4>2. k \in 0 .. k
        BY <4>1
      <4> QED
        BY <4>2 DEF UpToLast
    <3>2. ASSUME NEW k \in UpToLast(Members(ks)) PROVE k \in Members(ks)
      <4>1. PICK l \in Members(ks) : k \in 0 .. l
        BY <3>2 DEF UpToLast
      <4>2. PICK i \in 1 .. n : l = ks[i]
        BY DEF Members, n
      <4>3. k + 1 \in 1 .. n /\ ks[k + 1] = k
        BY <1>1, <2>1, <4>1, <4>2
      <4> QED
        BY <4>3 DEF Members, n
    <3> QED
      BY <3>1, <3>2
  <2> QED
    <3>1. Completed(mode) = UpToLast(Recorded(mode))
      BY <1>8 DEF Completed
    <3> QED
      BY <1>4, <1>5, <2>2, <3>1
<1> QED
  BY <1>4, <1>5, <1>7, <1>8, ModeIs

\* A sequential session that has yielded 0, 1, ... computes the next chunk.
LEMMA NextIsNext ==
  ASSUME TypeOK, NEW k \in Chunks, NextUp(k), mode = "sequential",
         CountsFromZero(delivered), Names(delivered) = Chunks \ todo
  PROVE  k = Len(delivered)
<1> DEFINE n == Len(delivered)
<1>1. n \in Nat /\ k \in todo /\ todo \subseteq Chunks /\ k \in Nat /\ NChunks \in Nat
  BY Positions, ZeroIsChunk, ChunksAreNat DEF NextUp, TypeOK
<1>2. \A c \in Chunks : c \in Names(delivered) <=> c < n
  <2> SUFFICES ASSUME NEW c \in Chunks PROVE c \in Names(delivered) <=> c < n
    OBVIOUS
  <2>1. c \in Nat
    BY ChunksAreNat
  <2>2. ASSUME c \in Names(delivered) PROVE c < n
    BY <1>1, <2>1, <2>2 DEF Names, CountsFromZero
  <2>3. ASSUME c < n PROVE c \in Names(delivered)
    <3>1. c + 1 \in 1 .. n /\ delivered[c + 1].chunk = c
      BY <1>1, <2>1, <2>3 DEF CountsFromZero
    <3> QED
      BY <3>1 DEF Names
  <2> QED
    BY <2>2, <2>3
<1>3. ~(k < n)
  BY <1>1, <1>2
<1>4. ASSUME k > n PROVE FALSE
  <2>1. n \in Chunks
    BY <1>1, <1>4 DEF Chunks
  <2>2. n \in todo
    BY <1>1, <1>2, <2>1
  <2> QED
    BY <1>1, <1>4, <2>2 DEF NextUp
<1> QED
  BY <1>1, <1>3, <1>4

-----------------------------------------------------------------------------
(* The invariant of resumed sessions.                                      *)

LEMMA ResumeInit == Init => ResumeInv
<1> SUFFICES ASSUME Init PROVE ResumeInv
  OBVIOUS
<1> USE DEF Init
<1>1. LeftInv
  BY DEF LeftInv
<1>2. SessionInv
  <2>1. AllIntact /\ NoneTwice(delivered) /\ CountsFromZero(delivered)
    BY DEF AllIntact, NoneTwice, CountsFromZero
  <2> QED
    BY <2>1 DEF SessionInv
<1>3. FilesOf(<<>>, <<0>>)
  <2>1. Laid(data, <<>>, <<0>>) /\ End(<<>>, <<0>>) = Len(data)
    BY LaidEmpty
  <2>2. Distinct(<<>>) /\ mode \in Modes
    BY DEF Distinct
  <2>3. progress[mode] = <<>>
    BY <2>2
  <2>4. Records(progress[mode], <<>>)
    BY <2>3, RecordsEmpty
  <2>5. TailOf(<<>>, <<0>>)
    BY <2>1, <2>3 DEF TailOf
  <2>6. ReadSoFar(<<>>, <<0>>)
    BY DEF ReadSoFar
  <2> QED
    BY <2>1, <2>2, <2>4, <2>5, <2>6 DEF FilesOf
<1>4. <<>> \in Seq(Chunks) /\ <<0>> \in Seq(Nat)
  OBVIOUS
<1> QED
  BY <1>1, <1>2, <1>3, <1>4 DEF ResumeInv

LEMMA LeftStep == LeftInv /\ [Next]_vars => LeftInv'
<1> SUFFICES ASSUME LeftInv, [Next]_vars PROVE LeftInv'
  OBVIOUS
<1> USE DEF LeftInv
<1>1. ASSUME NEW m \in Modes, Start(m) \/ StartExhausted(m) PROVE LeftInv'
  BY <1>1 DEF Start, StartExhausted
<1>2. CASE \/ ReplayFrame \/ ReplayEnds \/ ReplayRaises
           \/ AppendRecord \/ Finish \/ Abandon
  BY <1>2 DEF ReplayFrame, ReplayEnds, ReplayRaises, AppendRecord, Finish,
              Abandon, watched
<1>3. ASSUME NEW k \in Chunks, AppendFrame(k) \/ TearFrame(k) PROVE LeftInv'
  BY <1>3 DEF AppendFrame, TearFrame, Bury
<1>4. CASE DieUnmarked \/ TearRecord
  BY <1>4 DEF DieUnmarked, TearRecord
<1>5. CASE UNCHANGED vars
  BY <1>5 DEF vars, watched, session
<1> QED
  BY <1>1, <1>2, <1>3, <1>4, <1>5 DEF Next

\* Where the reader stands: in front of a recorded frame, or behind the last
\* one, with the whole row yielded.
LEMMA ReaderStands ==
  ASSUME TypeOK, NEW ks \in Seq(Chunks), NEW at \in Seq(Nat), FilesOf(ks, at),
         phase = "replay"
  PROVE  \/ \E i \in 1 .. Len(ks) :
              /\ i + 1 \in 1 .. Len(ks) + 1 /\ ks[i] \in Chunks
              /\ FrameAt(data, ks[i], pos) /\ at[i + 1] = pos + Len(Frame(ks[i]))
              /\ YieldedFirst(delivered, ks, i - 1)
              /\ ks[i] \in skip
         \/ pos = End(ks, at) /\ YieldedFirst(delivered, ks, Len(ks))
<1>1. PICK i \in 1 .. Len(ks) + 1 : pos = at[i] /\ YieldedFirst(delivered, ks, i - 1)
  BY DEF FilesOf, ReadSoFar
<1>2. skip = Members(ks) /\ Laid(data, ks, at) /\ Len(ks) \in Nat
  BY DEF FilesOf, ReadSoFar
<1>3. CASE i = Len(ks) + 1
  BY <1>1, <1>2, <1>3 DEF End
<1>4. CASE i # Len(ks) + 1
  <2>1. /\ i \in 1 .. Len(ks) /\ i + 1 \in 1 .. Len(ks) + 1
        /\ ks[i] \in Chunks /\ FrameAt(data, ks[i], at[i])
        /\ at[i + 1] = at[i] + Len(Frame(ks[i]))
    BY <1>2, <1>4, LaidFrame
  <2>2. ks[i] \in skip
    BY <1>2, <2>1 DEF Members
  <2> QED
    BY <1>1, <2>1, <2>2
<1> QED
  BY <1>3, <1>4

\* Behind the recorded frames the reader finds nothing it takes, and nothing
\* it complains of.
LEMMA ReaderAtTail ==
  ASSUME TypeOK, NEW ks \in Seq(Chunks), NEW at \in Seq(Nat), FilesOf(ks, at),
         phase = "replay", pos = End(ks, at)
  PROVE  /\ ~(PayloadThere /\ Valid)
         /\ HeaderThere => GoodMagic /\ Count # Huge
<1>1. CASE Len(data) = End(ks, at)
  <2>1. ~HeaderThere
    BY <1>1, Positions DEF HeaderThere, Rest, HeaderCells
  <2> QED
    BY <2>1 DEF PayloadThere, GoodMagic
<1>2. CASE Len(data) # End(ks, at)
  <2>1. PICK k \in Chunks \ Members(ks) : Begins(data, k, pos)
    BY <1>2 DEF FilesOf, TailOf
  <2>2. HeaderThere => GoodMagic /\ Count # Huge /\ Index = k
    BY <2>1, HeaderRead
  <2>3. skip = Members(ks)
    BY DEF FilesOf, ReadSoFar
  <2>4. PayloadThere => ~Valid
    BY <2>1, <2>2, <2>3 DEF PayloadThere, GoodMagic, Valid
  <2> QED
    BY <2>2, <2>4
<1> QED
  BY <1>1, <1>2

\* While nothing or a tail is left behind, a session that has not appended
\* yet owes exactly the chunks that are not recorded.
LEMMA NotRecorded ==
  ASSUME TypeOK, NEW ks \in Seq(Chunks), NEW at \in Seq(Nat), FilesOf(ks, at),
         SessionInv, phase = "run", left = "nothing"
  PROVE  Members(ks) = Chunks \ todo
<1>1. YieldedFirst(delivered, ks, Len(ks)) /\ Distinct(ks)
  BY DEF FilesOf, ReadSoFar
<1>2. Names(delivered) = Members(ks)
  <2>1. Len(ks) \in 0 .. Len(ks) /\ delivered \in Seq(Yield)
    BY Positions
  <2> QED
    BY <1>1, <2>1, FirstFacts
<1> QED
  BY <1>2 DEF SessionInv, Settled

LEMMA ResumeStep ==
  ASSUME MayMix = FALSE
  PROVE  TypeOK /\ ResumeInv /\ [Next]_vars => ResumeInv'
<1> SUFFICES ASSUME TypeOK, ResumeInv, [Next]_vars PROVE ResumeInv'
  OBVIOUS
<1> DEFINE FilesKept == left' # "buried" =>
                          \E ks \in Seq(Chunks), at \in Seq(Nat) : FilesOf(ks, at)'
           SessionKept == leftAtStart' # "buried" => SessionInv'
<1>1. LeftInv /\ LeftInv'
  BY LeftStep DEF ResumeInv
<1> SUFFICES FilesKept /\ SessionKept
  BY <1>1 DEF ResumeInv
<1>2. leftAtStart # "buried" => SessionInv
  BY DEF ResumeInv
<1>3. ASSUME left # "buried"
      PROVE  \E ks \in Seq(Chunks), at \in Seq(Nat) : FilesOf(ks, at)
  BY <1>3 DEF ResumeInv
\* Steps that leave the files and the mode alone, outside the two writes.
<1>4. ASSUME UNCHANGED <<files, mode, left>>, phase # "marking", phase' # "marking",
             NEW ks \in Seq(Chunks), NEW at \in Seq(Nat), FilesOf(ks, at),
             ReadSoFar(ks, at)'
      PROVE  FilesOf(ks, at)'
  BY <1>4 DEF files, FilesOf, TailOf, End
<1>5. ASSUME NEW m \in Modes, Start(m) PROVE FilesKept /\ SessionKept
  <2>1. /\ m = mode /\ UNCHANGED <<files, mode, left>>
        /\ phase # "marking" /\ phase' \in {"run", "replay"}
        /\ pos' = 0 /\ delivered' = <<>> /\ leftAtStart' = left
        /\ skip' = Completed(mode) /\ todo' = Chunks \ skip'
        /\ phase' = IF Recorded(mode) = {} THEN "run" ELSE "replay"
    BY <1>5 DEF Start, MayStart
  <2> SUFFICES ASSUME left # "buried" PROVE FilesKept /\ SessionKept
    BY <2>1
  <2>2. PICK ks \in Seq(Chunks), at \in Seq(Nat) : FilesOf(ks, at)
    BY <1>3
  <2>3. /\ Recorded(mode) = Members(ks) /\ Completed(mode) = Members(ks)
        /\ Members(ks) \subseteq Chunks
    BY <2>2, CompletedIs DEF FilesOf
  <2>4. at[1] = 0 /\ Len(ks) \in Nat
    BY <2>2 DEF FilesOf, Laid
  <2>5. phase' = "run" => Members(ks) = {} /\ Len(ks) = 0
    <3>1. phase' = "run" => Members(ks) = {}
      BY <2>1, <2>3
    <3>2. Len(ks) # 0 => ks[1] \in Members(ks)
      BY <2>4 DEF Members
    <3> QED
      BY <3>1, <3>2
  <2>6. YieldedFirst(delivered', ks, 0)
    BY <2>1 DEF YieldedFirst
  <2>7. ReadSoFar(ks, at)'
    <3>1. phase' = "replay" =>
            \E i \in 1 .. Len(ks) + 1 : pos' = at[i] /\ YieldedFirst(delivered', ks, i - 1)
      <4>1. 1 \in 1 .. Len(ks) + 1 /\ 1 - 1 = 0
        BY <2>4
      <4> QED
        BY <2>1, <2>4, <2>6, <4>1
    <3> QED
      BY <2>1, <2>3, <2>5, <2>6, <3>1 DEF ReadSoFar
  <2>8. FilesOf(ks, at)'
    BY <1>4, <2>1, <2>2, <2>7
  <2>9. Names(delivered') = {} /\ NoneTwice(delivered') /\ CountsFromZero(delivered')
        /\ AllIntact'
    BY <2>1 DEF Names, NoneTwice, CountsFromZero, AllIntact
  <2>10. SessionInv'
    BY <2>1, <2>3, <2>5, <2>9 DEF SessionInv, Settled
  <2> QED
    BY <2>8, <2>10
<1>6. ASSUME NEW m \in Modes, StartExhausted(m) PROVE FilesKept /\ SessionKept
  <2>1. m = mode /\ ~(Recorded(mode) \subseteq Chunks) /\ left' = left /\ leftAtStart' = left
    BY <1>6 DEF StartExhausted, MayStart
  <2>2. left = "buried"
    <3> SUFFICES ASSUME left # "buried" PROVE FALSE
      OBVIOUS
    <3>1. PICK ks \in Seq(Chunks), at \in Seq(Nat) : FilesOf(ks, at)
      BY <1>3
    <3> QED
      BY <2>1, <3>1, CompletedIs DEF FilesOf
  <2> QED
    BY <2>1, <2>2
<1>7. CASE ReplayFrame
  <2>1. /\ UNCHANGED <<files, mode, phase, skip, todo, left, leftAtStart>>
        /\ phase = "replay" /\ PayloadThere /\ Valid /\ pos' = NextFrame
        /\ delivered' = Append(delivered, [chunk |-> Index, intact |-> Intact])
    BY <1>7 DEF ReplayFrame
  <2> SUFFICES ASSUME left # "buried" PROVE FilesKept /\ SessionKept
    BY <1>1, <2>1 DEF LeftInv
  <2>2. PICK ks \in Seq(Chunks), at \in Seq(Nat) : FilesOf(ks, at)
    BY <1>3
  <2>3. PICK i \in 1 .. Len(ks) :
          /\ i + 1 \in 1 .. Len(ks) + 1 /\ ks[i] \in Chunks
          /\ FrameAt(data, ks[i], pos) /\ at[i + 1] = pos + Len(Frame(ks[i]))
          /\ YieldedFirst(delivered, ks, i - 1)
    BY <2>1, <2>2, ReaderStands, ReaderAtTail
  <2>4. Intact /\ Index = ks[i] /\ pos' = at[i + 1]
    BY <2>1, <2>3, FrameRead
  <2> DEFINE y == [chunk |-> Index, intact |-> Intact]
  <2>5. y \in Yield /\ y.intact /\ y.chunk = ks[i]
    BY <2>3, <2>4, ChunksAreNat DEF Yield
  <2>6. delivered' = Append(delivered, y) /\ delivered \in Seq(Yield)
    BY <2>1, Positions
  <2> HIDE DEF y
  <2>7. YieldedFirst(delivered', ks, i)
    <3>1. i - 1 \in Nat /\ (i - 1) + 1 = i
      OBVIOUS
    <3>2. YieldedFirst(Append(delivered, y), ks, (i - 1) + 1)
      BY <2>3, <2>5, <2>6, <3>1, FirstAppend
    <3> QED
      BY <2>6, <3>1, <3>2
  <2>8. ReadSoFar(ks, at)'
    <3>1. skip = Members(ks) /\ todo = Chunks \ skip
      BY <2>1, <2>2 DEF FilesOf, ReadSoFar
    <3>2. (i + 1) - 1 = i
      OBVIOUS
    <3>3. \E j \in 1 .. Len(ks) + 1 : pos' = at[j] /\ YieldedFirst(delivered', ks, j - 1)
      BY <2>3, <2>4, <2>7, <3>2
    <3> QED
      BY <2>1, <3>1, <3>3 DEF ReadSoFar
  <2>9. FilesOf(ks, at)'
    BY <1>4, <2>1, <2>2, <2>8
  <2>10. AllIntact'
    BY <1>1, <1>2, <2>1, <2>5, <2>6, IntactAppend DEF LeftInv, SessionInv
  <2>11. NoneTwice(delivered') /\ (mode = "sequential" => CountsFromZero(delivered'))
    <3>1. delivered' \in Seq(Yield) /\ i \in 0 .. Len(ks)
      BY <2>5, <2>6, AppendIs
    <3>2. Distinct(ks) /\ (mode = "sequential" => \A j \in 1 .. Len(ks) : ks[j] = j - 1)
      BY <2>2 DEF FilesOf
    <3> QED
      BY <2>7, <3>1, <3>2, FirstFacts
  <2>12. SessionInv'
    BY <2>1, <2>10, <2>11 DEF SessionInv
  <2> QED
    BY <2>9, <2>12
<1>8. CASE ReplayEnds
  <2>1. /\ UNCHANGED <<files, mode, skip, todo, delivered, left, leftAtStart>>
        /\ phase = "replay" /\ phase' = "run"
        /\ \/ ~HeaderThere
           \/ GoodMagic /\ ~PayloadThere
           \/ PayloadThere /\ ~Valid
    BY <1>8 DEF ReplayEnds, watched
  <2> SUFFICES ASSUME left # "buried" PROVE FilesKept /\ SessionKept
    BY <1>1, <2>1 DEF LeftInv
  <2>2. PICK ks \in Seq(Chunks), at \in Seq(Nat) : FilesOf(ks, at)
    BY <1>3
  <2>3. YieldedFirst(delivered, ks, Len(ks))
    <3>1. ASSUME NEW i \in 1 .. Len(ks), ks[i] \in Chunks, ks[i] \in skip,
                 FrameAt(data, ks[i], pos)
          PROVE  FALSE
      BY <2>1, <3>1, FrameRead DEF Valid
    <3> QED
      BY <2>1, <2>2, <3>1, ReaderStands
  <2>4. ReadSoFar(ks, at)'
    BY <2>1, <2>3 DEF ReadSoFar
  <2>5. FilesOf(ks, at)'
    BY <1>4, <2>1, <2>2, <2>4
  <2>6. Names(delivered) = Members(ks) /\ Members(ks) = skip /\ todo = Chunks \ skip
    <3>1. delivered \in Seq(Yield) /\ Len(ks) \in 0 .. Len(ks) /\ Distinct(ks)
      BY <2>2, Positions DEF FilesOf
    <3>2. Names(delivered) = Members(ks)
      BY <2>3, <3>1, FirstFacts
    <3> QED
      BY <2>1, <2>2, <3>2 DEF FilesOf, ReadSoFar
  <2>7. SessionInv'
    <3>1. SessionInv /\ skip \subseteq Chunks
      <4>1. Members(ks) \subseteq Chunks
        BY DEF Members
      <4> QED
        BY <1>1, <1>2, <2>1, <2>6, <4>1 DEF LeftInv
    <3>2. Names(delivered) = Settled'
      BY <2>1, <2>6, <3>1 DEF Settled
    <3> QED
      BY <2>1, <3>1, <3>2 DEF SessionInv, AllIntact
  <2> QED
    BY <2>5, <2>7
<1>9. CASE ReplayRaises
  <2>1. /\ UNCHANGED <<left, leftAtStart>> /\ phase = "replay" /\ HeaderThere
        /\ Field(1) # Magic \/ Count = Huge
    BY <1>9 DEF ReplayRaises, watched
  <2> SUFFICES ASSUME left # "buried" PROVE FALSE
    BY <1>1, <2>1 DEF LeftInv
  <2>2. PICK ks \in Seq(Chunks), at \in Seq(Nat) : FilesOf(ks, at)
    BY <1>3
  <2>3. GoodMagic /\ Count # Huge
    <3>1. ASSUME NEW i \in 1 .. Len(ks), ks[i] \in Chunks,
                 FrameAt(data, ks[i], pos)
          PROVE  GoodMagic /\ Count # Huge
      BY <2>1, <3>1, HeaderRead DEF FrameAt
    <3> QED
      BY <2>1, <2>2, <3>1, ReaderStands, ReaderAtTail
  <2> QED
    BY <2>1, <2>3 DEF GoodMagic
<1>10. ASSUME NEW k \in Chunks, AppendFrame(k) PROVE FilesKept /\ SessionKept
  <2>1. /\ phase = "run" /\ NextUp(k) /\ k \in todo
        /\ data' = data \o Frame(k) /\ todo' = todo \ {k} /\ held' = k
        /\ phase' = "marking"
        /\ left' = IF left = "nothing" THEN "nothing" ELSE "buried"
        /\ UNCHANGED <<progress, mode, delivered, leftAtStart>>
    BY <1>10 DEF AppendFrame, NextUp, Bury
  <2>2. ASSUME left' # "buried" PROVE FilesKept
    <3>1. left = "nothing" /\ leftAtStart # "buried" /\ SessionInv
      BY <1>1, <1>2, <2>1, <2>2 DEF LeftInv
    <3>2. PICK ks \in Seq(Chunks), at \in Seq(Nat) : FilesOf(ks, at)
      BY <1>3, <3>1
    <3>3. Len(data) = End(ks, at) /\ Len(progress[mode]) = 8 * Len(ks)
      BY <2>1, <3>1, <3>2 DEF FilesOf, TailOf
    <3>4. /\ Laid(data', ks, at) /\ FrameAt(data', k, End(ks, at))
          /\ Len(data') = End(ks, at) + Len(Frame(k))
      <4>1. data \in Seq(Cells) /\ Frame(k) \in Seq(Cells)
        BY Positions, FrameType
      <4> QED
        BY <2>1, <3>2, <3>3, <4>1, LaidStays, FrameArrivesWhole DEF FilesOf
    <3>5. k \notin Members(ks)
      BY <2>1, <3>1, <3>2, NotRecorded
    <3>6. TailOf(ks, at)'
      BY <2>1, <3>3, <3>4, <3>5 DEF TailOf, FrameAt, End
    <3>7. ReadSoFar(ks, at)'
      BY <2>1, <3>1, <3>2 DEF FilesOf, ReadSoFar
    <3>8. FilesOf(ks, at)'
      BY <2>1, <3>2, <3>4, <3>6, <3>7 DEF FilesOf
    <3> QED
      BY <3>8
  <2>3. ASSUME leftAtStart' # "buried" PROVE SessionInv'
    <3>1. SessionInv /\ Names(delivered) = Chunks \ todo
      BY <1>2, <2>1, <2>3 DEF SessionInv, Settled
    <3>2. Names(delivered) = Settled'
      BY <2>1, <3>1 DEF Settled
    <3>3. mode = "sequential" => k = Len(delivered)
      BY <2>1, <3>1, NextIsNext DEF SessionInv
    <3> QED
      BY <2>1, <3>1, <3>2, <3>3 DEF SessionInv, AllIntact
  <2> QED
    BY <2>2, <2>3
<1>11. CASE AppendRecord
  <2> DEFINE y == [chunk |-> held, intact |-> TRUE]
  <2>1. /\ phase = "marking" /\ phase' = "run"
        /\ progress' = [progress EXCEPT ![mode] = @ \o Record(held)]
        /\ delivered' = Append(delivered, y)
        /\ UNCHANGED <<data, mode, todo, left, leftAtStart>>
    BY <1>11 DEF AppendRecord
  <2>2. /\ held \in Chunks /\ y \in Yield /\ y.intact /\ y.chunk = held
        /\ delivered \in Seq(Yield)
        /\ mode \in Modes /\ progress[mode] \in Seq(Bytes)
        /\ progress'[mode] = progress[mode] \o Record(held)
    BY <2>1, ChunksAreNat DEF TypeOK, Yield
  <2> HIDE DEF y
  <2>3. ASSUME left' # "buried" PROVE FilesKept
    <3>1. left = "nothing" /\ leftAtStart # "buried" /\ SessionInv
      BY <1>1, <1>2, <2>1, <2>3 DEF LeftInv, TypeOK, Leaving
    <3>2. PICK ks \in Seq(Chunks), at \in Seq(Nat) : FilesOf(ks, at)
      BY <1>3, <3>1
    <3>3. /\ held \notin Members(ks) /\ Begins(data, held, End(ks, at))
          /\ Len(data) = End(ks, at) + Len(Frame(held))
          /\ Len(progress[mode]) = 8 * Len(ks)
      BY <2>1, <3>2 DEF FilesOf, TailOf
    <3>4. /\ Laid(data, ks, at) /\ Distinct(ks) /\ Records(progress[mode], ks)
          /\ mode = "sequential" => \A i \in 1 .. Len(ks) : ks[i] = i - 1
          /\ YieldedFirst(delivered, ks, Len(ks)) /\ Len(ks) \in Nat
      BY <2>1, <3>1, <3>2 DEF FilesOf, ReadSoFar
    <3>5. FrameAt(data, held, End(ks, at)) /\ data \in Seq(Cells)
      BY <3>3, FrameType, LaidTypes, <3>4, Positions DEF FrameAt
    <3>6. PICK ks2 \in Seq(Chunks), at2 \in Seq(Nat) :
            /\ ks2 = Append(ks, held) /\ Laid(data, ks2, at2)
            /\ End(ks2, at2) = Len(data)
      BY <2>2, <3>3, <3>4, <3>5, LaidMore
    <3>7. /\ Len(ks2) = Len(ks) + 1
          /\ \A i \in 1 .. Len(ks) : ks2[i] = ks[i]
          /\ ks2[Len(ks) + 1] = held
      BY <2>2, <3>6, AppendIs
    <3>8. Distinct(ks2)
      BY <2>2, <3>3, <3>4, <3>6, DistinctMore
    <3>9. Records(progress'[mode], ks2) /\ Len(progress'[mode]) = 8 * Len(ks2)
      BY <2>2, <3>3, <3>4, <3>6, RecordsMore
    <3>10. mode = "sequential" => \A i \in 1 .. Len(ks2) : ks2[i] = i - 1
      <4> SUFFICES ASSUME mode = "sequential", NEW i \in 1 .. Len(ks) + 1
                   PROVE  ks2[i] = i - 1
        BY <3>7
      <4>1. held = Len(delivered) /\ Len(delivered) = Len(ks)
        BY <2>1, <3>1, <3>4 DEF SessionInv, YieldedFirst
      <4>2. CASE i = Len(ks) + 1
        BY <3>4, <3>7, <4>1, <4>2
      <4>3. CASE i # Len(ks) + 1
        <5>1. i \in 1 .. Len(ks)
          BY <3>4, <4>3
        <5> QED
          BY <3>4, <3>7, <5>1
      <4> QED
        BY <4>2, <4>3
    <3>11. YieldedFirst(delivered', ks2, Len(ks2))
      <4>1. YieldedFirst(delivered, ks2, Len(ks))
        BY <2>2, <3>4, <3>6, FirstOfMore
      <4> QED
        BY <2>1, <2>2, <3>4, <3>7, <4>1, FirstAppend
    <3>12. TailOf(ks2, at2)' /\ ReadSoFar(ks2, at2)'
      BY <2>1, <3>6, <3>9, <3>11 DEF TailOf, ReadSoFar, End
    <3>13. FilesOf(ks2, at2)'
      BY <2>1, <3>6, <3>8, <3>9, <3>10, <3>12 DEF FilesOf
    <3> QED
      BY <3>13
  <2>4. ASSUME leftAtStart' # "buried" PROVE SessionInv'
    <3>1. SessionInv /\ held \notin todo /\ todo \subseteq Chunks
          /\ Names(delivered) = Chunks \ (todo \cup {held})
      BY <1>2, <2>1, <2>4 DEF SessionInv, Settled, TypeOK
    <3>2. /\ Names(delivered') = Names(delivered) \cup {held}
          /\ NoneTwice(delivered')
          /\ mode = "sequential" => CountsFromZero(delivered')
      BY <2>1, <2>2, <3>1, NamesAppend DEF SessionInv
    <3>3. Names(delivered') = Settled'
      BY <2>1, <2>2, <3>1, <3>2 DEF Settled
    <3>4. AllIntact'
      BY <2>1, <2>2, <3>1, IntactAppend DEF SessionInv
    <3> QED
      BY <2>1, <3>2, <3>3, <3>4 DEF SessionInv
  <2> QED
    BY <2>3, <2>4
<1>12. CASE Finish \/ Abandon
  <2>1. /\ UNCHANGED <<files, mode, skip, todo, delivered, left, leftAtStart>>
        /\ phase \in {"replay", "run"} /\ phase' \in {"down", "complete"}
        /\ phase' = "complete" => phase = "run" /\ todo = {}
    BY <1>12 DEF Finish, Abandon, watched
  <2>2. FilesKept
    <3> SUFFICES ASSUME left # "buried" PROVE FilesKept
      BY <2>1
    <3>1. PICK ks \in Seq(Chunks), at \in Seq(Nat) : FilesOf(ks, at)
      BY <1>3
    <3>2. ReadSoFar(ks, at)'
      BY <2>1 DEF ReadSoFar
    <3>3. FilesOf(ks, at)'
      BY <1>4, <2>1, <3>1, <3>2
    <3> QED
      BY <3>3
  <2>3. SessionKept
    BY <1>2, <2>1 DEF SessionInv, Settled, AllIntact
  <2> QED
    BY <2>2, <2>3
\* A session that ends between or inside the two writes of a chunk.
<1>13. ASSUME phase \in {"run", "marking"}, phase' = "down",
              UNCHANGED <<mode, delivered, leftAtStart>>
       PROVE  SessionKept
  BY <1>2, <1>13 DEF SessionInv, AllIntact
<1>14. CASE DieUnmarked \/ TearRecord
  <2>1. /\ phase = "marking" /\ phase' = "down"
        /\ UNCHANGED <<data, mode, held, delivered, leftAtStart>>
        /\ left' = IF left = "buried" THEN "buried" ELSE "tail"
        /\ \/ UNCHANGED progress
           \/ \E t \in Cuts :
                progress' = [progress EXCEPT ![mode] = @ \o SubSeq(Record(held), 1, t)]
    BY <1>14 DEF DieUnmarked, TearRecord, files
  <2>2. FilesKept
    <3> SUFFICES ASSUME left # "buried" PROVE FilesKept
      BY <2>1
    <3>1. PICK ks \in Seq(Chunks), at \in Seq(Nat) : FilesOf(ks, at)
      BY <1>3
    <3>2. /\ held \notin Members(ks) /\ Begins(data, held, End(ks, at))
          /\ Len(data) = End(ks, at) + Len(Frame(held))
          /\ Len(progress[mode]) = 8 * Len(ks) /\ Records(progress[mode], ks)
      BY <2>1, <3>1 DEF FilesOf, TailOf
    <3>3. /\ held \in Chunks /\ End(ks, at) \in Nat /\ Len(Frame(held)) \in Nat
          /\ mode \in Modes /\ progress[mode] \in Seq(Bytes)
      BY <3>1, LaidTypes, FrameType DEF FilesOf, TypeOK
    <3>4. Records(progress'[mode], ks)
      <4>1. CASE UNCHANGED progress
        BY <3>2, <4>1
      <4>2. ASSUME NEW t \in Cuts,
                   progress' = [progress EXCEPT ![mode] = @ \o SubSeq(Record(held), 1, t)]
            PROVE  Records(progress'[mode], ks)
        <5>1. progress'[mode] = progress[mode] \o SubSeq(Record(held), 1, t)
          BY <3>3, <4>2 DEF TypeOK
        <5> QED
          BY <3>2, <3>3, <5>1, RecordsTorn
      <4> QED
        BY <2>1, <4>1, <4>2
    <3>5. Len(data) \in End(ks, at) .. End(ks, at) + Len(Frame(held))
      BY <3>2, <3>3
    <3>6. TailOf(ks, at)' /\ ReadSoFar(ks, at)'
      BY <2>1, <3>2, <3>3, <3>5 DEF TailOf, ReadSoFar, End
    <3>7. FilesOf(ks, at)'
      BY <2>1, <3>1, <3>4, <3>6 DEF FilesOf
    <3> QED
      BY <3>7
  <2> QED
    BY <1>13, <2>1, <2>2
<1>15. ASSUME NEW k \in Chunks, TearFrame(k) PROVE FilesKept /\ SessionKept
  <2>1. /\ phase = "run" /\ phase' = "down" /\ k \in todo
        /\ UNCHANGED <<progress, mode, delivered, leftAtStart>>
        /\ left' = IF left = "nothing" THEN "tail" ELSE "buried"
    BY <1>15 DEF TearFrame, NextUp
  <2>2. PICK t \in 1 .. Len(Frame(k)) - 1 : data' = data \o SubSeq(Frame(k), 1, t)
    BY <1>15 DEF TearFrame
  <2>3. FilesKept
    <3> SUFFICES ASSUME left = "nothing" PROVE FilesKept
      BY <2>1
    <3>1. PICK ks \in Seq(Chunks), at \in Seq(Nat) : FilesOf(ks, at)
      BY <1>3
    <3>2. SessionInv
      BY <1>1, <1>2 DEF LeftInv
    <3>3. k \notin Members(ks)
      BY <2>1, <3>1, <3>2, NotRecorded
    <3>4. Len(data) = End(ks, at) /\ End(ks, at) \in Nat
      BY <2>1, <3>1, LaidTypes DEF FilesOf, TailOf
    <3>5. /\ Len(Frame(k)) \in Nat /\ t \in 1 .. Len(Frame(k)) /\ data \in Seq(Cells)
          /\ SubSeq(Frame(k), 1, t) \in Seq(Cells)
      BY Positions, FrameType
    <3>6. Laid(data', ks, at)
      BY <2>2, <3>1, <3>5, LaidStays DEF FilesOf
    <3>7. Begins(data', k, End(ks, at)) /\ Len(data') = End(ks, at) + t
      BY <2>2, <3>4, <3>5, TailBegins
    <3>8. Len(data') \in End(ks, at) .. End(ks, at) + Len(Frame(k))
      BY <3>4, <3>5, <3>7
    <3>9. TailOf(ks, at)' /\ ReadSoFar(ks, at)'
      BY <2>1, <3>3, <3>7, <3>8 DEF TailOf, ReadSoFar, End
    <3>10. FilesOf(ks, at)'
      BY <2>1, <3>1, <3>6, <3>9 DEF FilesOf
    <3> QED
      BY <3>10
  <2> QED
    BY <1>13, <2>1, <2>3
<1>16. CASE UNCHANGED vars
  <2>1. ASSUME NEW ks, NEW at, FilesOf(ks, at) PROVE FilesOf(ks, at)'
    BY <1>16, <2>1 DEF vars, files, session, watched, FilesOf, TailOf, ReadSoFar, End
  <2>2. SessionInv => SessionInv'
    BY <1>16 DEF vars, session, watched, SessionInv, Settled, AllIntact
  <2> QED
    BY <1>2, <1>3, <1>16, <2>1, <2>2 DEF vars, watched
<1> QED
  BY <1>5, <1>6, <1>7, <1>8, <1>9, <1>10, <1>11, <1>12, <1>14, <1>15, <1>16
     DEF Next

-----------------------------------------------------------------------------
(* How often a chunk was yielded.                                          *)

LEMMA TimesBounds ==
  ASSUME TypeOK, NEW k
  PROVE  /\ NoneTwice(delivered) => Times(k) <= 1
         /\ k \in Names(delivered) => Times(k) >= 1
         /\ Times(k) \in Nat
<1> DEFINE S == {i \in 1 .. Len(delivered) : delivered[i].chunk = k}
<1>1. Len(delivered) \in Nat
  BY Positions
<1>2. IsFiniteSet(1 .. Len(delivered)) /\ S \in SUBSET (1 .. Len(delivered))
  BY <1>1, FS_Interval
<1>3. IsFiniteSet(S)
  BY <1>2, FS_Subset
<1>4. Times(k) = Cardinality(S)
  BY DEF Times
<1>5. NoneTwice(delivered) => S = {} \/ \E i : S = {i}
  BY DEF NoneTwice
<1>6. k \in Names(delivered) => S # {}
  BY DEF Names
<1> HIDE DEF S
<1>7. Cardinality(S) \in Nat /\ (S # {} => Cardinality(S) # 0)
  BY <1>3, FS_CardinalityType, FS_EmptySet
<1>8. NoneTwice(delivered) => Cardinality(S) <= 1
  <2>1. Cardinality({}) = 0 /\ \A i : Cardinality({i}) = 1
    BY FS_EmptySet, FS_Singleton
  <2> QED
    BY <1>5, <2>1
<1> QED
  BY <1>4, <1>6, <1>7, <1>8

LEMMA ResumeAlways == ASSUME MayMix = FALSE PROVE Spec => [](TypeOK /\ ResumeInv)
<1>1. Init => TypeOK /\ ResumeInv
  BY TypeInit, ResumeInit
<1>2. TypeOK /\ ResumeInv /\ [Next]_vars => (TypeOK /\ ResumeInv)'
  BY TypeStep, ResumeStep
<1> QED
  BY <1>1, <1>2, PTL DEF Spec

\* Where the caller keeps to one mode: after any number of sessions abandoned
\* at a yield, and in the first run after an append was cut short, no chunk is
\* yielded twice or with wrong terms, the files are never taken for damaged,
\* and a run that ends normally has yielded every chunk once.
THEOREM ResumedRunIsExact ==
  ASSUME MayMix = FALSE PROVE Spec => []ResumeIsExact
<1>1. TypeOK /\ ResumeInv => ResumeIsExact
  <2> SUFFICES ASSUME TypeOK, ResumeInv, leftAtStart # "buried"
               PROVE  /\ \A k \in Chunks : Times(k) <= 1
                      /\ AllIntact
                      /\ phase # "raised"
                      /\ phase = "complete" => \A k \in Chunks : Times(k) = 1
    BY DEF ResumeIsExact
  <2>1. SessionInv
    BY DEF ResumeInv
  <2>2. \A k \in Chunks : Times(k) <= 1 /\ Times(k) \in Nat
    BY <2>1, TimesBounds DEF SessionInv
  <2>3. ASSUME phase = "complete", NEW k \in Chunks PROVE Times(k) = 1
    <3>1. k \in Names(delivered)
      BY <2>1, <2>3 DEF SessionInv, Settled
    <3>2. Times(k) >= 1
      BY <3>1, TimesBounds
    <3> QED
      BY <2>2, <3>2
  <2> QED
    BY <2>1, <2>2, <2>3 DEF SessionInv
<1> QED
  BY <1>1, ResumeAlways, PTL

\* The same for the order of a sequential run: what is replayed and what is
\* computed are 0, 1, 2, ... without a gap.
THEOREM SequentialKeepsOrder ==
  ASSUME MayMix = FALSE PROVE Spec => []SequentialInOrder
<1>1. ResumeInv => SequentialInOrder
  BY DEF ResumeInv, SessionInv, CountsFromZero, SequentialInOrder
<1> QED
  BY <1>1, ResumeAlways, PTL

-----------------------------------------------------------------------------
(* Sequential sessions between whole appends: a frame that nobody recorded *)
(* is followed, sooner or later, by another frame of the same chunk, and   *)
(* the frames still count up.                                              *)

Below(r) == {c \in Chunks : c < r}

\* Before a chunk every smaller one has its frame.
CountsUp(ks) == \A i \in 1 .. Len(ks) : \A c \in 0 .. ks[i] :
                  \E j \in 1 .. i : ks[j] = c

\* The records are those of rs, which is 0, 1, 2, ..., and each of these
\* chunks has a frame.
Superseded(rs, ks, at) ==
  /\ Laid(data, ks, at) /\ End(ks, at) = Len(data)
  /\ CountsUp(ks)
  /\ Members(rs) \subseteq Members(ks)
  /\ Records(progress[mode], rs) /\ Len(progress[mode]) = 8 * Len(rs)
  /\ \A i \in 1 .. Len(rs) : rs[i] = i - 1

\* What the session owes, and what it has yielded.
SequentialSession(rs, ks, at) ==
  /\ phase = "replay" =>
       /\ skip = Members(rs) /\ todo = Chunks \ Members(rs)
       /\ \E i \in 1 .. Len(ks) + 1 :
            pos = at[i] /\ \A j \in 1 .. i - 1 : ks[j] \in Names(delivered)
  /\ phase = "run" => todo = Chunks \ Members(rs)
  /\ phase = "marking" =>
       /\ held = Len(rs) /\ held \in Members(ks)
       /\ todo = Chunks \ (Members(rs) \cup {held})
  /\ phase \in {"run", "marking"} => Members(rs) \subseteq Names(delivered)

SequentialInv ==
  ~torn /\ mode = "sequential" =>
    /\ \E rs \in Seq(Chunks), ks \in Seq(Chunks), at \in Seq(Nat) :
         Superseded(rs, ks, at) /\ SequentialSession(rs, ks, at)
    /\ phase = "complete" => Chunks \subseteq Names(delivered)

LEMMA MembersAre ==
  ASSUME NEW rs \in Seq(Chunks), \A i \in 1 .. Len(rs) : rs[i] = i - 1
  PROVE  Members(rs) = Below(Len(rs))
<1>1. Len(rs) \in Nat /\ \A i \in 1 .. Len(rs) : rs[i] \in Chunks
  OBVIOUS
<1>2. ASSUME NEW c \in Members(rs) PROVE c \in Below(Len(rs))
  BY <1>1, <1>2 DEF Members, Below
<1>3. ASSUME NEW c \in Below(Len(rs)) PROVE c \in Members(rs)
  <2>1. c \in Nat /\ c < Len(rs)
    BY <1>3, ChunksAreNat DEF Below
  <2>2. c + 1 \in 1 .. Len(rs) /\ rs[c + 1] = c
    BY <1>1, <2>1
  <2> QED
    BY <2>2 DEF Members
<1> QED
  BY <1>2, <1>3

LEMMA MembersAppend ==
  ASSUME NEW ks \in Seq(Chunks), NEW k \in Chunks
  PROVE  Members(Append(ks, k)) = Members(ks) \cup {k}
<1> DEFINE e == Append(ks, k)
           n == Len(ks)
<1>1. /\ Len(e) = n + 1 /\ n \in Nat
      /\ \A i \in 1 .. n : e[i] = ks[i]
      /\ e[n + 1] = k
  BY AppendIs
<1> HIDE DEF e, n
<1>2. /\ \A i \in 1 .. n + 1 : i \in 1 .. n \/ i = n + 1
      /\ \A i \in 1 .. n : i \in 1 .. n + 1
      /\ n + 1 \in 1 .. n + 1
  BY <1>1
<1>3. Members(e) = Members(ks) \cup {k}
  BY <1>1, <1>2 DEF Members, n
<1> QED
  BY <1>3 DEF e

\* The first chunk not recorded is the next number.
LEMMA FirstDue ==
  ASSUME TypeOK, NEW rs \in Seq(Chunks), \A i \in 1 .. Len(rs) : rs[i] = i - 1,
         NEW k \in Chunks, NextUp(k), mode = "sequential", todo = Chunks \ Members(rs)
  PROVE  k = Len(rs)
<1> DEFINE r == Len(rs)
<1>1. k \in Nat /\ r \in Nat /\ NChunks \in Nat /\ k < NChunks
  BY ChunksAreNat, ZeroIsChunk DEF Chunks
<1>2. todo = Chunks \ Below(r)
  BY MembersAre
<1> HIDE DEF r
<1>3. ~(k < r)
  BY <1>2 DEF NextUp, Below
<1>4. ASSUME k > r PROVE FALSE
  <2>1. r \in Chunks
    BY <1>1, <1>4 DEF Chunks
  <2>2. r \in todo
    BY <1>1, <1>2, <2>1 DEF Below
  <2> QED
    BY <1>1, <1>4, <2>2 DEF NextUp
<1> QED
  BY <1>1, <1>3, <1>4 DEF r

LEMMA CountsMore ==
  ASSUME NEW ks \in Seq(Chunks), NEW k \in Chunks, CountsUp(ks),
         Below(k) \subseteq Members(ks)
  PROVE  CountsUp(Append(ks, k))
<1> DEFINE e == Append(ks, k)
           n == Len(ks)
<1>1. /\ Len(e) = n + 1 /\ n \in Nat
      /\ \A i \in 1 .. n : e[i] = ks[i]
      /\ e[n + 1] = k
  BY AppendIs
<1> HIDE DEF e
<1>2. ASSUME NEW i \in 1 .. n + 1, NEW c \in 0 .. e[i]
      PROVE  \E j \in 1 .. i : e[j] = c
  <2>1. CASE i \in 1 .. n
    <3>1. PICK j \in 1 .. i : ks[j] = c
      BY <1>1, <1>2, <2>1 DEF CountsUp
    <3> QED
      BY <1>1, <2>1, <3>1
  <2>2. CASE i = n + 1
    <3>1. c \in 0 .. k /\ k \in Nat /\ NChunks \in Nat /\ k < NChunks
      BY <1>1, <1>2, <2>2, ChunksAreNat, ZeroIsChunk DEF Chunks
    <3>2. CASE c = k
      BY <1>1, <2>2, <3>2
    <3>3. CASE c # k
      <4>1. c \in Below(k)
        BY <3>1, <3>3 DEF Below, Chunks
      <4>2. PICK j \in 1 .. n : ks[j] = c
        BY <4>1 DEF Members
      <4> QED
        BY <1>1, <2>2, <4>2
    <3> QED
      BY <3>2, <3>3
  <2> QED
    BY <1>1, <2>1, <2>2
<1>3. CountsUp(e)
  BY <1>1, <1>2 DEF CountsUp
<1> QED
  BY <1>3 DEF e

LEMMA SequentialInit == Init => SequentialInv
<1> SUFFICES ASSUME Init PROVE SequentialInv
  OBVIOUS
<1>1. Laid(data, <<>>, <<0>>) /\ End(<<>>, <<0>>) = Len(data)
  BY LaidEmpty DEF Init
<1>2. mode \in Modes /\ progress[mode] = <<>> /\ phase = "down"
  BY DEF Init
<1>3. CountsUp(<<>>) /\ Members(<<>>) = {} /\ Records(progress[mode], <<>>)
  BY <1>2, RecordsEmpty DEF CountsUp, Members
<1>4. Superseded(<<>>, <<>>, <<0>>)
  BY <1>1, <1>2, <1>3 DEF Superseded
<1>5. SequentialSession(<<>>, <<>>, <<0>>)
  BY <1>2 DEF SequentialSession
<1>6. <<>> \in Seq(Chunks) /\ <<0>> \in Seq(Nat)
  OBVIOUS
<1> QED
  BY <1>2, <1>4, <1>5, <1>6 DEF SequentialInv

\* What a replaying session has yielded when the reader stops.
LEMMA ReplayedAll ==
  ASSUME TypeOK, NEW rs \in Seq(Chunks), NEW ks \in Seq(Chunks), NEW at \in Seq(Nat),
         Superseded(rs, ks, at), SequentialSession(rs, ks, at),
         phase = "replay", ~(PayloadThere /\ Valid)
  PROVE  Members(rs) \subseteq Names(delivered)
<1>1. PICK i \in 1 .. Len(ks) + 1 :
        pos = at[i] /\ \A j \in 1 .. i - 1 : ks[j] \in Names(delivered)
  BY DEF SequentialSession
<1>2. /\ Laid(data, ks, at) /\ Len(ks) \in Nat
      /\ Members(rs) \subseteq Members(ks)
  BY DEF Superseded
<1>3. CASE i = Len(ks) + 1
  <2>1. \A j \in 1 .. Len(ks) : j \in 1 .. i - 1
    BY <1>2, <1>3
  <2>2. Members(ks) \subseteq Names(delivered)
    BY <1>1, <2>1 DEF Members
  <2> QED
    BY <1>2, <2>2
<1>4. CASE i # Len(ks) + 1
  <2>1. i \in 1 .. Len(ks) /\ ks[i] \in Chunks /\ FrameAt(data, ks[i], pos)
    BY <1>1, <1>2, <1>4, LaidFrame
  <2>2. ks[i] \notin Members(rs)
    BY <2>1, FrameRead DEF Valid, SequentialSession
  <2>3. Members(rs) = Below(Len(rs)) /\ Len(rs) \in Nat
    BY MembersAre DEF Superseded
  <2>4. ks[i] \in Nat /\ ~(ks[i] < Len(rs))
    BY <2>1, <2>2, <2>3, ChunksAreNat DEF Below
  <2>5. ASSUME NEW c \in Members(rs) PROVE c \in Names(delivered)
    <3>1. c \in Nat /\ c < Len(rs)
      BY <2>3, <2>5, ChunksAreNat DEF Below
    <3>2. c \in 0 .. ks[i] /\ c # ks[i]
      BY <2>3, <2>4, <3>1
    <3>3. PICK j \in 1 .. i : ks[j] = c
      BY <2>1, <3>2 DEF Superseded, CountsUp
    <3>4. j \in 1 .. i - 1
      BY <3>2, <3>3
    <3> QED
      BY <1>1, <3>3, <3>4
  <2> QED
    BY <2>5
<1> QED
  BY <1>3, <1>4

LEMMA SequentialStep ==
  ASSUME MayMix = FALSE
  PROVE  TypeOK /\ SequentialInv /\ [Next]_vars => SequentialInv'
<1> SUFFICES ASSUME TypeOK, SequentialInv, [Next]_vars, ~torn', mode' = "sequential"
             PROVE  (/\ \E rs \in Seq(Chunks), ks \in Seq(Chunks), at \in Seq(Nat) :
                          Superseded(rs, ks, at) /\ SequentialSession(rs, ks, at)
                     /\ phase = "complete" => Chunks \subseteq Names(delivered))'
  BY DEF SequentialInv
<1> DEFINE Goal == (/\ \E rs \in Seq(Chunks), ks \in Seq(Chunks), at \in Seq(Nat) :
                         Superseded(rs, ks, at) /\ SequentialSession(rs, ks, at)
                    /\ phase = "complete" => Chunks \subseteq Names(delivered))'
<1>1. ~torn /\ mode = "sequential"
  BY DEF Next, Start, MayStart, StartExhausted, ReplayFrame, ReplayEnds,
         ReplayRaises, AppendFrame, TearFrame, AppendRecord, Finish, Abandon,
         DieUnmarked, TearRecord, vars, session, watched
<1>2. PICK rs \in Seq(Chunks), ks \in Seq(Chunks), at \in Seq(Nat) :
        Superseded(rs, ks, at) /\ SequentialSession(rs, ks, at)
  BY <1>1 DEF SequentialInv
<1>3. /\ Laid(data, ks, at) /\ End(ks, at) = Len(data) /\ CountsUp(ks)
      /\ Members(rs) \subseteq Members(ks) /\ Records(progress[mode], rs)
      /\ Len(progress[mode]) = 8 * Len(rs) /\ \A i \in 1 .. Len(rs) : rs[i] = i - 1
      /\ Len(ks) \in Nat /\ Len(rs) \in Nat
  BY <1>2 DEF Superseded
<1>4. ASSUME UNCHANGED <<files, mode>>, SequentialSession(rs, ks, at)',
             phase' = "complete" => Chunks \subseteq Names(delivered')
      PROVE  Goal
  <2>1. Superseded(rs, ks, at)'
    BY <1>3, <1>4 DEF Superseded, files, End
  <2> QED
    BY <1>4, <2>1
<1>5. ASSUME NEW m \in Modes, Start(m) PROVE Goal
  <2>1. /\ m = mode /\ UNCHANGED <<files, mode>>
        /\ phase' \in {"run", "replay"} /\ pos' = 0 /\ delivered' = <<>>
        /\ skip' = Completed(mode) /\ todo' = Chunks \ skip'
        /\ phase' = "run" => Recorded(mode) = {}
    BY <1>5 DEF Start, MayStart
  <2>2. Recorded(mode) = Members(rs) /\ Completed(mode) = Members(rs)
    BY <1>3, CompletedIs
  <2>3. 1 \in 1 .. Len(ks) + 1 /\ at[1] = 0 /\ \A j \in 1 .. 1 - 1 : FALSE
    BY <1>3 DEF Laid
  <2>4. phase' = "replay" =>
          \E i \in 1 .. Len(ks) + 1 :
             pos' = at[i] /\ \A j \in 1 .. i - 1 : ks[j] \in Names(delivered')
    BY <2>1, <2>3
  <2>5. SequentialSession(rs, ks, at)'
    BY <2>1, <2>2, <2>4 DEF SequentialSession
  <2> QED
    BY <1>4, <2>1, <2>5
<1>6. ASSUME NEW m \in Modes, StartExhausted(m) PROVE Goal
  <2>1. m = mode /\ ~(Recorded(mode) \subseteq Chunks)
    BY <1>6 DEF StartExhausted, MayStart
  <2> QED
    BY <1>3, <2>1, CompletedIs
<1>7. CASE ReplayFrame
  <2> DEFINE y == [chunk |-> Index, intact |-> Intact]
  <2>1. /\ UNCHANGED <<files, mode, phase, skip, todo>>
        /\ phase = "replay" /\ PayloadThere /\ Valid /\ pos' = NextFrame
        /\ delivered' = Append(delivered, y)
    BY <1>7 DEF ReplayFrame
  <2>2. PICK i \in 1 .. Len(ks) + 1 :
          pos = at[i] /\ \A j \in 1 .. i - 1 : ks[j] \in Names(delivered)
    BY <1>2, <2>1 DEF SequentialSession
  <2>3. i # Len(ks) + 1
    <3>1. HeaderThere
      BY <2>1 DEF PayloadThere, GoodMagic
    <3>2. pos # Len(data)
      BY <3>1, Positions DEF HeaderThere, Rest, HeaderCells
    <3> QED
      BY <1>3, <2>2, <3>2 DEF End
  <2>4. /\ i + 1 \in 1 .. Len(ks) + 1 /\ ks[i] \in Chunks
        /\ FrameAt(data, ks[i], pos) /\ at[i + 1] = pos + Len(Frame(ks[i]))
    BY <1>3, <2>2, <2>3, LaidFrame
  <2>5. Intact /\ Index = ks[i] /\ pos' = at[i + 1]
    BY <2>1, <2>4, FrameRead
  <2>6. y \in Yield /\ y.chunk = ks[i] /\ delivered \in Seq(Yield)
    BY <2>4, <2>5, Positions, ChunksAreNat DEF Yield
  <2> HIDE DEF y
  <2>7. Names(delivered') = Names(delivered) \cup {ks[i]}
    BY <2>1, <2>6, NamesAppend
  <2>8. \A j \in 1 .. (i + 1) - 1 : ks[j] \in Names(delivered')
    <3>1. \A j \in 1 .. (i + 1) - 1 : j \in 1 .. i - 1 \/ j = i
      OBVIOUS
    <3> QED
      BY <2>2, <2>7, <3>1
  <2>9. skip = Members(rs) /\ todo = Chunks \ Members(rs)
    BY <1>2, <2>1 DEF SequentialSession
  <2>10. SequentialSession(rs, ks, at)'
    BY <2>1, <2>4, <2>5, <2>8, <2>9 DEF SequentialSession
  <2> QED
    BY <1>4, <2>1, <2>10
<1>8. CASE ReplayEnds
  <2>1. /\ UNCHANGED <<files, mode, todo, delivered>>
        /\ phase = "replay" /\ phase' = "run"
        /\ ~(PayloadThere /\ Valid)
    BY <1>8 DEF ReplayEnds, watched, PayloadThere, GoodMagic
  <2>2. Members(rs) \subseteq Names(delivered)
    BY <1>2, <2>1, ReplayedAll
  <2>3. SequentialSession(rs, ks, at)'
    BY <1>2, <2>1, <2>2 DEF SequentialSession
  <2> QED
    BY <1>4, <2>1, <2>3
<1>9. CASE ReplayRaises \/ Abandon \/ DieUnmarked
  <2>1. UNCHANGED <<files, mode>> /\ phase' \in {"raised", "down"}
    BY <1>9 DEF ReplayRaises, Abandon, DieUnmarked
  <2>2. SequentialSession(rs, ks, at)'
    BY <2>1 DEF SequentialSession
  <2> QED
    BY <1>4, <2>1, <2>2
<1>10. CASE Finish
  <2>1. /\ UNCHANGED <<files, mode, delivered>> /\ phase = "run" /\ todo = {}
        /\ phase' = "complete"
    BY <1>10 DEF Finish, watched
  <2>2. Chunks \subseteq Names(delivered)
    BY <1>2, <2>1 DEF SequentialSession
  <2>3. SequentialSession(rs, ks, at)'
    BY <2>1 DEF SequentialSession
  <2> QED
    BY <1>4, <2>1, <2>2, <2>3
<1>11. ASSUME NEW k \in Chunks, AppendFrame(k) PROVE Goal
  <2>1. /\ phase = "run" /\ phase' = "marking" /\ NextUp(k)
        /\ data' = data \o Frame(k) /\ todo' = todo \ {k} /\ held' = k
        /\ UNCHANGED <<progress, mode, delivered>>
    BY <1>11 DEF AppendFrame
  <2>2. todo = Chunks \ Members(rs) /\ Members(rs) \subseteq Names(delivered)
    BY <1>2, <2>1 DEF SequentialSession
  <2>3. k = Len(rs)
    BY <1>1, <1>3, <2>1, <2>2, FirstDue
  <2>4. /\ Laid(data', ks, at) /\ FrameAt(data', k, End(ks, at))
        /\ Len(data') = End(ks, at) + Len(Frame(k)) /\ data' \in Seq(Cells)
    <3>1. data \in Seq(Cells) /\ Frame(k) \in Seq(Cells)
      BY Positions, FrameType
    <3> QED
      BY <1>3, <2>1, <3>1, LaidStays, FrameArrivesWhole
  <2>5. PICK ks2 \in Seq(Chunks), at2 \in Seq(Nat) :
          /\ ks2 = Append(ks, k) /\ Laid(data', ks2, at2)
          /\ End(ks2, at2) = Len(data')
    BY <2>4, LaidMore
  <2>6. CountsUp(ks2)
    <3>1. Below(k) \subseteq Members(ks)
      BY <1>3, <2>3, MembersAre
    <3> QED
      BY <1>3, <2>5, <3>1, CountsMore
  <2>7. Members(ks2) = Members(ks) \cup {k}
    BY <2>5, MembersAppend
  <2>8. Superseded(rs, ks2, at2)'
    BY <1>3, <2>1, <2>5, <2>6, <2>7 DEF Superseded, End
  <2>9. SequentialSession(rs, ks2, at2)'
    BY <2>1, <2>2, <2>3, <2>7 DEF SequentialSession
  <2> QED
    BY <2>1, <2>5, <2>8, <2>9
<1>12. CASE AppendRecord
  <2> DEFINE y == [chunk |-> held, intact |-> TRUE]
  <2>1. /\ phase = "marking" /\ phase' = "run"
        /\ progress' = [progress EXCEPT ![mode] = @ \o Record(held)]
        /\ delivered' = Append(delivered, y)
        /\ UNCHANGED <<data, mode, todo>>
    BY <1>12 DEF AppendRecord
  <2>2. /\ held \in Chunks /\ y \in Yield /\ y.chunk = held
        /\ delivered \in Seq(Yield)
        /\ mode \in Modes /\ progress[mode] \in Seq(Bytes)
        /\ progress'[mode] = progress[mode] \o Record(held)
    BY <2>1, ChunksAreNat DEF TypeOK, Yield
  <2> HIDE DEF y
  <2>3. /\ held = Len(rs) /\ held \in Members(ks)
        /\ todo = Chunks \ (Members(rs) \cup {held})
        /\ Members(rs) \subseteq Names(delivered)
    BY <1>2, <2>1 DEF SequentialSession
  <2>4. PICK rs2 \in Seq(Chunks) :
          /\ rs2 = Append(rs, held) /\ Len(rs2) = Len(rs) + 1
          /\ \A i \in 1 .. Len(rs) : rs2[i] = rs[i]
          /\ rs2[Len(rs) + 1] = held
    BY <2>2, AppendIs
  <2>5. Members(rs2) = Members(rs) \cup {held}
    BY <2>2, <2>4, MembersAppend
  <2>6. Records(progress'[mode], rs2) /\ Len(progress'[mode]) = 8 * Len(rs2)
    BY <1>3, <2>2, <2>4, RecordsMore
  <2>7. \A i \in 1 .. Len(rs2) : rs2[i] = i - 1
    <3>1. \A i \in 1 .. Len(rs) + 1 : i \in 1 .. Len(rs) \/ i = Len(rs) + 1
      BY <1>3
    <3> QED
      BY <1>3, <2>3, <2>4, <3>1
  <2>8. Names(delivered') = Names(delivered) \cup {held}
    BY <2>1, <2>2, NamesAppend
  <2>9. Superseded(rs2, ks, at)'
    BY <1>3, <2>1, <2>3, <2>5, <2>6, <2>7 DEF Superseded, End
  <2>10. SequentialSession(rs2, ks, at)'
    BY <2>1, <2>3, <2>5, <2>8 DEF SequentialSession
  <2> QED
    BY <2>1, <2>4, <2>9, <2>10
<1>13. CASE UNCHANGED vars
  <2>1. SequentialSession(rs, ks, at)'
    BY <1>2, <1>13 DEF SequentialSession, vars, session, watched
  <2>2. phase' = "complete" => Chunks \subseteq Names(delivered')
    BY <1>1, <1>13 DEF SequentialInv, vars, session, watched
  <2> QED
    BY <1>4, <1>13, <2>1, <2>2 DEF vars, session
<1>14. ASSUME NEW k \in Chunks, TearFrame(k) PROVE Goal
  BY <1>14 DEF TearFrame
<1>15. CASE TearRecord
  BY <1>15 DEF TearRecord
<1> QED
  BY <1>5, <1>6, <1>7, <1>8, <1>9, <1>10, <1>11, <1>12, <1>13, <1>14, <1>15
     DEF Next

\* Interruptions between two writes, however many, lose nothing of a
\* sequential run: the frame nobody recorded is superseded by the next one of
\* the same chunk, which the reader takes as well as the first.
THEOREM SequentialRunIsWhole ==
  ASSUME MayMix = FALSE PROVE Spec => []SequentialLosesNothing
<1>1. TypeOK /\ SequentialInv => SequentialLosesNothing
  BY TimesBounds DEF SequentialInv, SequentialLosesNothing
<1>2. Init => TypeOK /\ SequentialInv
  BY TypeInit, SequentialInit
<1>3. TypeOK /\ SequentialInv /\ [Next]_vars => (TypeOK /\ SequentialInv)'
  BY TypeStep, SequentialStep
<1> QED
  BY <1>1, <1>2, <1>3, PTL DEF Spec
=============================================================================
