-------------------------- MODULE ThreadDrainProofs --------------------------
(***************************************************************************)
(* Proofs about the threaded drain for every number of slices and chunks,  *)
(* every split of the chunks and every set of failing or violating chunks. *)
(***************************************************************************)
EXTENDS ThreadDrain, FiniteSetTheorems, TLAPS

\* The bounds are positive numbers.
LEMMA Bounds == /\ NPending \in Nat /\ NPending > 0
                /\ NSlices \in Nat /\ NSlices > 0
BY DrainAssumption

\* A worker is a number, and so is the slice boundary after it.
LEMMA WorkerIsIndex ==
  ASSUME NEW w \in Workers
  PROVE  /\ w \in Nat /\ w + 1 \in Nat
         /\ w \in 1 .. NSlices + 1 /\ w + 1 \in 1 .. NSlices + 1
BY Bounds DEF Workers

\* The boundaries of a slice are positions of pending.
LEMMA CutTypes ==
  ASSUME NEW w \in Workers
  PROVE  /\ Cut[w] \in 1 .. NPending + 1 /\ Cut[w + 1] \in 1 .. NPending + 1
         /\ Cut[w] <= Cut[w + 1]
<1>1. /\ w \in Nat /\ w \in 1 .. NSlices + 1 /\ w + 1 \in 1 .. NSlices + 1
  BY WorkerIsIndex
<1> QED
  BY <1>1, DrainAssumption

-----------------------------------------------------------------------------
(* Type correctness.                                                       *)

\* Every deque stays inside its own slice.
DequeBounds ==
  \A w \in Workers : /\ Cut[w] <= front[w] /\ front[w] <= back[w]
                     /\ back[w] <= Cut[w + 1]

\* A worker holds a chunk exactly while it computes it or after it raised.
HoldsWhileComputing ==
  \A w \in Workers : item[w] # 0 <=> pc[w] \in {"compute", "raised"}

\* The submission loop hands over every slice exactly once.
AllSubmitted == IF consumer = "submit" THEN submitted < NSlices
                                       ELSE submitted = NSlices

TypeInv == TypeOK /\ DequeBounds /\ HoldsWhileComputing /\ AllSubmitted

LEMMA TypeInit == Init => TypeInv
<1> SUFFICES ASSUME Init PROVE TypeInv
  OBVIOUS
<1> USE DEF Init
<1>1. TypeOK
  BY Bounds, CutTypes DEF TypeOK, Zeros, Workers, WorkerStates, ConsumerStates
<1>2. DequeBounds
  BY CutTypes DEF DequeBounds
<1>3. HoldsWhileComputing
  BY DEF HoldsWhileComputing, Zeros
<1>4. AllSubmitted
  BY Bounds DEF AllSubmitted
<1> QED
  BY <1>1, <1>2, <1>3, <1>4 DEF TypeInv

\* The bounds of a deque are numbers, and so is its length.
LEMMA DequeIsNatural ==
  ASSUME TypeInv, NEW w \in Workers
  PROVE  /\ front[w] \in Nat /\ back[w] \in Nat
         /\ 1 <= front[w] /\ front[w] <= back[w] /\ back[w] <= NPending + 1
         /\ back[w] - front[w] \in 0 .. NPending
         /\ front[w] < back[w] => /\ front[w] \in 1 .. NPending
                                  /\ back[w] - 1 \in 1 .. NPending
<1>1. front[w] \in 1 .. NPending + 1 /\ back[w] \in 1 .. NPending + 1
  BY DEF TypeInv, TypeOK
<1>2. front[w] <= back[w]
  BY DEF TypeInv, DequeBounds
<1> QED
  BY <1>1, <1>2, Bounds

\* Steps of a worker.
LEMMA TypeWorker ==
  ASSUME TypeInv, NEW w \in Workers, Worker(w)
  PROVE  TypeInv'
<1> USE Bounds DEF TypeInv
<1>a. UNCHANGED consumerVars
  BY DEF Worker, PopOwn, OwnEmpty, ReadLength, ScanDone, Steal, LostRace,
         GiveUp, Compute, Raise
<1>b. AllSubmitted'
  BY <1>a DEF AllSubmitted, consumerVars
<1> SUFFICES TypeOK' /\ DequeBounds' /\ HoldsWhileComputing'
  BY <1>b
<1>1. CASE PopOwn(w)
  <2>1. front[w] \in 1 .. NPending /\ front[w] + 1 \in 1 .. NPending + 1
    BY <1>1 DEF PopOwn, TypeOK
  <2>2. TypeOK'
    BY <1>1, <2>1 DEF PopOwn, TypeOK, WorkerStates, consumerVars
  <2>3. DequeBounds'
    <3> SUFFICES ASSUME NEW u \in Workers
                 PROVE  /\ Cut[u] <= front'[u] /\ front'[u] <= back'[u]
                        /\ back'[u] <= Cut[u + 1]
      BY DEF DequeBounds
    <3>1. /\ front[u] \in Nat /\ back[u] \in Nat
          /\ Cut[u] <= front[u] /\ front[u] <= back[u] /\ back[u] <= Cut[u + 1]
      BY DequeIsNatural DEF DequeBounds
    <3>0. Cut[u] \in Nat /\ Cut[u + 1] \in Nat
      BY CutTypes
    <3>2. /\ back' = back /\ front[w] < back[w]
          /\ front'[u] = IF u = w THEN front[u] + 1 ELSE front[u]
      BY <1>1 DEF PopOwn, TypeOK
    <3> QED
      BY <3>0, <3>1, <3>2
  <2>4. HoldsWhileComputing'
    BY <1>1, <2>1 DEF PopOwn, TypeOK, HoldsWhileComputing
  <2> QED BY <2>2, <2>3, <2>4
<1>2. CASE OwnEmpty(w)
  BY <1>2 DEF OwnEmpty, TypeOK, DequeBounds, HoldsWhileComputing,
              WorkerStates, consumerVars
<1>3. CASE ReadLength(w)
  <2>0. cursor[w] \in 1 .. NSlices + 1 /\ cursor[w] <= NSlices
    BY <1>3 DEF ReadLength, TypeOK
  <2>1. cursor[w] \in Workers /\ cursor[w] + 1 \in 1 .. NSlices + 1
    BY <2>0 DEF Workers
  <2>2. (IF cursor[w] = w THEN 0
         ELSE back[cursor[w]] - front[cursor[w]]) \in 0 .. NPending
    <3>1. \A v \in Workers : back[v] - front[v] \in 0 .. NPending
      BY DequeIsNatural
    <3> QED
      BY <2>1, <3>1
  <2>3. lengths' \in [Workers -> [Workers -> 0 .. NPending]]
    BY <1>3, <2>1, <2>2 DEF ReadLength, TypeOK
  <2>4. TypeOK'
    BY <1>3, <2>1, <2>3 DEF ReadLength, TypeOK, consumerVars
  <2> QED
    BY <1>3, <2>4 DEF ReadLength, DequeBounds, HoldsWhileComputing
<1>4. CASE ScanDone(w)
  BY <1>4 DEF ScanDone, Others, TypeOK, DequeBounds, HoldsWhileComputing,
              WorkerStates, consumerVars
<1>5. ASSUME NEW v \in Workers, Steal(w, v)
      PROVE  TypeOK' /\ DequeBounds' /\ HoldsWhileComputing'
  <2>0. front[v] < back[v]
    BY <1>5 DEF Steal
  <2>1. back[v] - 1 \in 1 .. NPending
    BY <2>0, DequeIsNatural
  <2>2. TypeOK'
    <3>1. back' \in [Workers -> 1 .. NPending + 1]
      <4>1. back' = [back EXCEPT ![v] = back[v] - 1]
        BY <1>5 DEF Steal
      <4>2. back[v] - 1 \in 1 .. NPending + 1
        BY <2>1
      <4> QED
        BY <4>1, <4>2 DEF TypeOK
    <3>2. item' \in [Workers -> 0 .. NPending]
      <4>1. item' = [item EXCEPT ![w] = back[v] - 1]
        BY <1>5 DEF Steal
      <4>2. back[v] - 1 \in 0 .. NPending
        BY <2>1
      <4> QED
        BY <4>1, <4>2 DEF TypeOK
    <3>3. pc' \in [Workers -> WorkerStates]
      BY <1>5 DEF Steal, TypeOK, WorkerStates
    <3>4. cursor' \in [Workers -> 1 .. NSlices + 1]
      BY <1>5 DEF Steal, TypeOK
    <3>5. Zeros \in [Workers -> 0 .. NPending]
      BY DEF Zeros
    <3>6. /\ lengths' \in [Workers -> [Workers -> 0 .. NPending]]
          /\ untried' \in [Workers -> SUBSET Workers]
      BY <1>5, <3>5 DEF Steal, TypeOK
    <3>7. UNCHANGED <<front, results, consumerVars>>
      BY <1>5 DEF Steal
    <3> QED
      BY <3>1, <3>2, <3>3, <3>4, <3>6, <3>7 DEF TypeOK, consumerVars
  <2>3. DequeBounds'
    <3> SUFFICES ASSUME NEW u \in Workers
                 PROVE  /\ Cut[u] <= front'[u] /\ front'[u] <= back'[u]
                        /\ back'[u] <= Cut[u + 1]
      BY DEF DequeBounds
    <3>1. /\ front[u] \in Nat /\ back[u] \in Nat
          /\ Cut[u] <= front[u] /\ front[u] <= back[u] /\ back[u] <= Cut[u + 1]
      BY DequeIsNatural DEF DequeBounds
    <3>0. Cut[u] \in Nat /\ Cut[u + 1] \in Nat
      BY CutTypes
    <3>2. /\ front' = front
          /\ back'[u] = IF u = v THEN back[u] - 1 ELSE back[u]
      BY <1>5 DEF Steal, TypeOK
    <3> QED
      BY <2>0, <3>0, <3>1, <3>2
  <2>4. HoldsWhileComputing'
    BY <1>5, <2>1 DEF Steal, TypeOK, HoldsWhileComputing
  <2> QED BY <2>2, <2>3, <2>4
<1>6. ASSUME NEW v \in Workers, LostRace(w, v)
      PROVE  TypeOK' /\ DequeBounds' /\ HoldsWhileComputing'
  BY <1>6 DEF LostRace, TypeOK, DequeBounds, HoldsWhileComputing,
              WorkerStates, consumerVars
<1>7. CASE GiveUp(w)
  <2>1. Sentinel(w) \in Messages
    BY DEF Sentinel, Messages
  <2>2. results' \in Seq(Messages) /\ Len(results') = Len(results) + 1
    BY <1>7, <2>1 DEF GiveUp, TypeOK
  <2>3. got' \in 0 .. Len(results')
    BY <1>7, <2>2 DEF GiveUp, TypeOK, consumerVars
  <2> QED
    BY <1>7, <2>2, <2>3 DEF GiveUp, TypeOK, DequeBounds, HoldsWhileComputing,
              WorkerStates, consumerVars
<1>8. CASE Compute(w)
  <2>1. item[w] \in Chunks
    BY <1>8 DEF Compute, TypeOK, HoldsWhileComputing, Chunks
  <2>2. Result(item[w]) \in Messages
    BY <2>1 DEF Result, Messages
  <2>3. results' \in Seq(Messages) /\ Len(results') = Len(results) + 1
    BY <1>8, <2>2 DEF Compute, TypeOK
  <2>4. got' \in 0 .. Len(results')
    BY <1>8, <2>3 DEF Compute, TypeOK, consumerVars
  <2> QED
    BY <1>8, <2>3, <2>4 DEF Compute, TypeOK, DequeBounds,
              HoldsWhileComputing, WorkerStates, consumerVars
<1>9. CASE Raise(w)
  BY <1>9 DEF Raise, TypeOK, DequeBounds, HoldsWhileComputing,
              WorkerStates, consumerVars
<1> QED
  BY <1>1, <1>2, <1>3, <1>4, <1>5, <1>6, <1>7, <1>8, <1>9 DEF Worker

\* The two kinds of message.
LEMMA MessageShape ==
  ASSUME NEW m \in Messages
  PROVE  /\ m.kind \in {"chunk", "slice_done"}
         /\ m.kind = "chunk" => m = Result(m.of) /\ m.of \in Chunks
         /\ m.kind = "slice_done" => m = Sentinel(m.of) /\ m.of \in Workers
BY DEF Messages, Result, Sentinel

\* What a get() of the consumer finds.
LEMMA NextMessage ==
  ASSUME TypeInv, NEW k \in {"chunk", "slice_done"}, Available(k)
  PROVE  /\ got + 1 \in 1 .. Len(results) /\ got + 1 \in 0 .. Len(results)
         /\ results[got + 1] \in Messages
         /\ results[got + 1].kind = k
<1>1. got \in 0 .. Len(results) /\ results \in Seq(Messages)
  BY DEF TypeInv, TypeOK
<1>2. got < Len(results) /\ results[got + 1].kind = k
  BY DEF Available
<1>3. got + 1 \in 1 .. Len(results) /\ got + 1 \in 0 .. Len(results)
  BY <1>1, <1>2
<1> QED
  BY <1>1, <1>2, <1>3

\* Steps of the consumer.
LEMMA TypeConsumer ==
  ASSUME TypeInv, Drain \/ Close
  PROVE  TypeInv'
<1> USE Bounds DEF TypeInv
<1>w. UNCHANGED <<workerVars, results>> /\ TypeOK' /\ AllSubmitted' => TypeInv'
  BY DEF workerVars, DequeBounds, HoldsWhileComputing
<1> SUFFICES UNCHANGED <<workerVars, results>> /\ TypeOK' /\ AllSubmitted'
  BY <1>w
<1>1. CASE Submit
  BY <1>1 DEF Submit, TypeOK, workerVars, ConsumerStates, AllSubmitted
<1>2. CASE GetSentinel
  <2>1. Available("slice_done")
    BY <1>2 DEF GetSentinel
  <2>2. got + 1 \in 0 .. Len(results)
    BY <2>1, NextMessage
  <2>3. doneSlices + 1 \in 0 .. NSlices
    BY <2>1 DEF Available, TypeOK
  <2> QED
    BY <1>2, <2>2, <2>3 DEF GetSentinel, TypeOK, workerVars, ConsumerStates,
                            AllSubmitted, Available, Draining
<1>3. CASE GetChunk \/ GetViolation
  <2>1. Available("chunk")
    BY <1>3 DEF GetChunk, GetViolation
  <2>2. got + 1 \in 0 .. Len(results) /\ results[got + 1].of \in Chunks
    BY <2>1, NextMessage, MessageShape
  <2>3. Append(delivered, results[got + 1].of) \in Seq(Chunks)
    BY <2>2 DEF TypeOK
  <2> QED
    BY <1>3, <2>2, <2>3 DEF GetChunk, GetViolation, TypeOK, workerVars,
                            ConsumerStates, AllSubmitted, Available, Draining
<1>4. CASE Join
  BY <1>4 DEF Join, Draining, TypeOK, workerVars, ConsumerStates, AllSubmitted
<1>5. CASE Leave
  BY <1>5 DEF Leave, TypeOK, workerVars, ConsumerStates, AllSubmitted
<1>6. CASE Close
  BY <1>6 DEF Close, TypeOK, workerVars, ConsumerStates, AllSubmitted
<1> QED
  BY <1>1, <1>2, <1>3, <1>4, <1>5, <1>6 DEF Drain

LEMMA TypeStep == TypeInv /\ [Next]_vars => TypeInv'
<1> SUFFICES ASSUME TypeInv, [Next]_vars PROVE TypeInv'
  OBVIOUS
<1>1. CASE UNCHANGED vars
  BY <1>1 DEF vars, workerVars, consumerVars, TypeInv, TypeOK, DequeBounds,
              HoldsWhileComputing, AllSubmitted
<1>2. CASE Next
  BY <1>2, TypeWorker, TypeConsumer DEF Next
<1> QED
  BY <1>1, <1>2

\* Every variable keeps its type, every deque stays inside its slice, and a
\* worker holds a chunk exactly while it computes it.
THEOREM TypeCorrect == Spec => []TypeInv
BY TypeInit, TypeStep, PTL DEF Spec

THEOREM TypeOKAlways == Spec => []TypeOK
<1>1. TypeInv => TypeOK
  BY DEF TypeInv
<1> QED
  BY <1>1, TypeCorrect, PTL

-----------------------------------------------------------------------------
(* No chunk is lost and none is handled twice.                             *)

Conserved == NothingLost /\ NothingTwice

\* Two deques never share a chunk: their slices do not.
LEMMA DequesDisjoint ==
  ASSUME TypeInv, NEW c \in Chunks, NEW v \in Workers, NEW w \in Workers,
         InDeque(c, v), InDeque(c, w)
  PROVE  v = w
<1>1. /\ c \in Nat /\ v \in Nat /\ w \in Nat
      /\ v \in 1 .. NSlices + 1 /\ w \in 1 .. NSlices + 1
      /\ v + 1 \in 1 .. NSlices + 1 /\ w + 1 \in 1 .. NSlices + 1
  BY WorkerIsIndex DEF Chunks
<1>2. /\ Cut[v] \in Nat /\ Cut[w] \in Nat
      /\ Cut[v + 1] \in Nat /\ Cut[w + 1] \in Nat
  BY CutTypes
<1>3. /\ front[v] \in Nat /\ back[v] \in Nat
      /\ front[w] \in Nat /\ back[w] \in Nat
  BY DEF TypeInv, TypeOK
<1>4. /\ Cut[v] <= c /\ c < Cut[v + 1]
      /\ Cut[w] <= c /\ c < Cut[w + 1]
  BY <1>1, <1>2, <1>3 DEF TypeInv, DequeBounds, InDeque
<1>5. (v + 1 <= w => Cut[v + 1] <= Cut[w]) /\ (w + 1 <= v => Cut[w + 1] <= Cut[v])
  BY <1>1, DrainAssumption
<1> QED
  BY <1>1, <1>2, <1>4, <1>5

LEMMA ConservedInit == Init => Conserved
<1> SUFFICES ASSUME Init PROVE Conserved
  OBVIOUS
<1>1. \A c \in Chunks, w \in Workers : ~Held(c, w)
  BY DEF Init, Zeros, Held, Chunks
<1>2. Len(results) = 0
  BY DEF Init
<1>3. \A c \in Chunks : \E w \in Workers : InDeque(c, w)
  BY DrainAssumption DEF Init, InDeque
<1> QED
  BY <1>1, <1>2, <1>3 DEF Conserved, NothingLost, NothingTwice, PutAt

\* A step that leaves deques, hands and results alone.
LEMMA ConservedFrame ==
  ASSUME Conserved, UNCHANGED <<front, back, item, results>>
  PROVE  Conserved'
BY DEF Conserved, NothingLost, NothingTwice, InDeque, Held, PutAt

\* Worker w takes chunk c out of the deque of v into its empty hands.
LEMMA ConservedTake ==
  ASSUME TypeInv, Conserved,
         NEW w \in Workers, NEW v \in Workers, NEW c \in Chunks,
         item[w] = 0, InDeque(c, v),
         item' = [item EXCEPT ![w] = c], UNCHANGED results,
         \A d \in Chunks, u \in Workers :
           InDeque(d, u)' <=> InDeque(d, u) /\ ~(d = c /\ u = v)
  PROVE  Conserved'
<1>1. \A u \in Workers : ~Held(c, u)
  BY DEF Conserved, NothingTwice
<1>2. \A i \in 1 .. Len(results) : ~PutAt(c, i)
  BY DEF Conserved, NothingTwice
<1>3. \A u \in Workers : ~InDeque(c, u)'
  BY DequesDisjoint
<1>4. \A d \in Chunks, u \in Workers :
        Held(d, u)' <=> Held(d, u) \/ (d = c /\ u = w)
  <2> SUFFICES ASSUME NEW d \in Chunks, NEW u \in Workers
               PROVE  Held(d, u)' <=> Held(d, u) \/ (d = c /\ u = w)
    OBVIOUS
  <2>1. d # 0 /\ c # 0
    BY DEF Chunks
  <2> QED
    BY <2>1 DEF Held, TypeInv, TypeOK
<1>5. \A d \in Chunks, i \in 1 .. Len(results) : PutAt(d, i)' <=> PutAt(d, i)
  BY DEF PutAt
<1>6. NothingLost'
  BY <1>4, <1>5 DEF Conserved, NothingLost
<1>7. NothingTwice'
  <2> SUFFICES ASSUME NEW d \in Chunks
               PROVE  /\ \A u \in Workers : Held(d, u)' =>
                           \A x \in Workers : ~InDeque(d, x)' /\ (Held(d, x)' => x = u)
                      /\ \A i \in 1 .. Len(results) : PutAt(d, i)' =>
                           /\ \A x \in Workers : ~InDeque(d, x)' /\ ~Held(d, x)'
                           /\ \A j \in 1 .. Len(results) : PutAt(d, j)' => j = i
    BY DEF NothingTwice
  <2>1. CASE d = c
    BY <2>1, <1>1, <1>2, <1>3, <1>4, <1>5
  <2>2. CASE d # c
    BY <2>2, <1>4, <1>5 DEF Conserved, NothingTwice
  <2> QED BY <2>1, <2>2
<1> QED
  BY <1>6, <1>7 DEF Conserved

\* Worker w puts the result of the chunk in its hands.
LEMMA ConservedPut ==
  ASSUME TypeInv, Conserved, NEW w \in Workers, item[w] \in Chunks,
         results' = Append(results, Result(item[w])),
         item' = [item EXCEPT ![w] = 0], UNCHANGED <<front, back>>
  PROVE  Conserved'
<1> DEFINE c == item[w]
           n == Len(results)
<1>1. /\ n \in Nat /\ Len(results') = n + 1
      /\ results'[n + 1] = Result(c)
      /\ \A i \in 1 .. n : results'[i] = results[i]
  BY DEF TypeInv, TypeOK
<1>2. \A d \in Chunks, i \in 1 .. n + 1 :
        PutAt(d, i)' <=> (i \in 1 .. n /\ PutAt(d, i)) \/ (d = c /\ i = n + 1)
  BY <1>1 DEF PutAt, Result
<1>3. \A d \in Chunks, u \in Workers :
        /\ InDeque(d, u)' <=> InDeque(d, u)
        /\ Held(d, u)' <=> Held(d, u) /\ u # w
  <2> SUFFICES ASSUME NEW d \in Chunks, NEW u \in Workers
               PROVE  /\ InDeque(d, u)' <=> InDeque(d, u)
                      /\ Held(d, u)' <=> Held(d, u) /\ u # w
    OBVIOUS
  <2>1. d # 0
    BY DEF Chunks
  <2> QED
    BY <2>1 DEF Held, InDeque, TypeInv, TypeOK
<1>4. Held(c, w) /\ \A u \in Workers : Held(c, u) => u = w
  BY DEF Conserved, NothingTwice, Held
<1>5. (\A u \in Workers : ~InDeque(c, u)) /\ \A i \in 1 .. n : ~PutAt(c, i)
  BY <1>4 DEF Conserved, NothingTwice
<1>6. NothingLost'
  <2> SUFFICES ASSUME NEW d \in Chunks
               PROVE  \/ \E u \in Workers : InDeque(d, u)' \/ Held(d, u)'
                      \/ \E i \in 1 .. n + 1 : PutAt(d, i)'
    BY <1>1 DEF NothingLost
  <2>1. CASE d = c
    BY <1>1, <1>2, <2>1
  <2>2. CASE d # c
    <3>1. \/ \E u \in Workers : InDeque(d, u) \/ Held(d, u)
          \/ \E i \in 1 .. n : PutAt(d, i)
      BY DEF Conserved, NothingLost
    <3>2. ~Held(d, w)
      BY <2>2 DEF Held
    <3> QED
      BY <1>1, <1>2, <1>3, <3>1, <3>2
  <2> QED BY <2>1, <2>2
<1>7. NothingTwice'
  <2> SUFFICES ASSUME NEW d \in Chunks
               PROVE  /\ \A u \in Workers : Held(d, u)' =>
                           \A x \in Workers : ~InDeque(d, x)' /\ (Held(d, x)' => x = u)
                      /\ \A i \in 1 .. n + 1 : PutAt(d, i)' =>
                           /\ \A x \in Workers : ~InDeque(d, x)' /\ ~Held(d, x)'
                           /\ \A j \in 1 .. n + 1 : PutAt(d, j)' => j = i
    BY <1>1 DEF NothingTwice
  <2>1. CASE d = c
    BY <2>1, <1>1, <1>2, <1>3, <1>4, <1>5
  <2>2. CASE d # c
    BY <2>2, <1>1, <1>2, <1>3 DEF Conserved, NothingTwice
  <2> QED BY <2>1, <2>2
<1> QED
  BY <1>6, <1>7 DEF Conserved

\* A sentinel is no result.
LEMMA ConservedSentinel ==
  ASSUME TypeInv, Conserved, NEW w \in Workers,
         results' = Append(results, Sentinel(w)),
         UNCHANGED <<front, back, item>>
  PROVE  Conserved'
<1> DEFINE n == Len(results)
<1>1. /\ n \in Nat /\ Len(results') = n + 1
      /\ results'[n + 1] = Sentinel(w)
      /\ \A i \in 1 .. n : results'[i] = results[i]
  BY DEF TypeInv, TypeOK
<1>2. \A d \in Chunks, i \in 1 .. n + 1 :
        PutAt(d, i)' <=> i \in 1 .. n /\ PutAt(d, i)
  BY <1>1 DEF PutAt, Result, Sentinel
<1>3. \A d \in Chunks, u \in Workers :
        (InDeque(d, u)' <=> InDeque(d, u)) /\ (Held(d, u)' <=> Held(d, u))
  BY DEF InDeque, Held
<1> QED
  BY <1>1, <1>2, <1>3 DEF Conserved, NothingLost, NothingTwice

LEMMA ConservedStep == TypeInv /\ Conserved /\ [Next]_vars => Conserved'
<1> SUFFICES ASSUME TypeInv, Conserved, [Next]_vars PROVE Conserved'
  OBVIOUS
<1>1. ASSUME NEW w \in Workers, PopOwn(w) PROVE Conserved'
  <2>0. front[w] < back[w]
    BY <1>1 DEF PopOwn
  <2>a. front[w] \in Nat /\ back[w] \in Nat /\ front[w] \in 1 .. NPending
    BY <2>0, DequeIsNatural
  <2>1. /\ front[w] \in Chunks /\ item[w] = 0
        /\ item' = [item EXCEPT ![w] = front[w]] /\ UNCHANGED results
    BY <1>1, <2>a DEF PopOwn, TypeInv, TypeOK, HoldsWhileComputing, Chunks
  <2>2. InDeque(front[w], w)
    BY <2>0, <2>a DEF InDeque
  <2>3. \A d \in Chunks, u \in Workers :
          InDeque(d, u)' <=> InDeque(d, u) /\ ~(d = front[w] /\ u = w)
    <3> SUFFICES ASSUME NEW d \in Chunks, NEW u \in Workers
                 PROVE  InDeque(d, u)' <=>
                          InDeque(d, u) /\ ~(d = front[w] /\ u = w)
      OBVIOUS
    <3>0. d \in Nat
      BY DEF Chunks
    <3>4. front[u] \in 1 .. NPending + 1 /\ back[u] \in 1 .. NPending + 1
      BY DEF TypeInv, TypeOK
    <3>1. d \in Nat /\ front[u] \in Nat /\ back[u] \in Nat
      BY <3>0, <3>4, Bounds
    <3>2. CASE u = w
      BY <1>1, <2>a, <3>1, <3>2 DEF PopOwn, InDeque, TypeInv, TypeOK
    <3>3. CASE u # w
      BY <1>1, <3>1, <3>3 DEF PopOwn, InDeque, TypeInv, TypeOK
    <3> QED BY <3>2, <3>3
  <2> QED
    BY <2>1, <2>2, <2>3, ConservedTake
<1>2. ASSUME NEW w \in Workers, NEW v \in Workers, Steal(w, v)
      PROVE  Conserved'
  <2>0. front[v] < back[v]
    BY <1>2 DEF Steal
  <2>a. front[v] \in Nat /\ back[v] \in Nat /\ back[v] - 1 \in 1 .. NPending
    BY <2>0, DequeIsNatural
  <2>1. /\ back[v] - 1 \in Chunks /\ item[w] = 0
        /\ item' = [item EXCEPT ![w] = back[v] - 1] /\ UNCHANGED results
    <3>1. pc[w] = "probe"
      BY <1>2 DEF Steal
    <3> QED
      BY <1>2, <2>a, <3>1 DEF Steal, TypeInv, HoldsWhileComputing, Chunks
  <2>2. InDeque(back[v] - 1, v)
    BY <2>0, <2>a DEF InDeque
  <2>3. \A d \in Chunks, u \in Workers :
          InDeque(d, u)' <=> InDeque(d, u) /\ ~(d = back[v] - 1 /\ u = v)
    <3> SUFFICES ASSUME NEW d \in Chunks, NEW u \in Workers
                 PROVE  InDeque(d, u)' <=>
                          InDeque(d, u) /\ ~(d = back[v] - 1 /\ u = v)
      OBVIOUS
    <3>0. d \in Nat
      BY DEF Chunks
    <3>4. front[u] \in 1 .. NPending + 1 /\ back[u] \in 1 .. NPending + 1
      BY DEF TypeInv, TypeOK
    <3>1. d \in Nat /\ front[u] \in Nat /\ back[u] \in Nat
      BY <3>0, <3>4, Bounds
    <3>2. CASE u = v
      <4>1. front' = front /\ back'[v] = back[v] - 1
        BY <1>2 DEF Steal, TypeInv, TypeOK
      <4> QED
        BY <2>a, <3>1, <3>2, <4>1 DEF InDeque
    <3>3. CASE u # v
      BY <1>2, <3>1, <3>3 DEF Steal, InDeque, TypeInv, TypeOK
    <3> QED BY <3>2, <3>3
  <2> QED
    BY <2>1, <2>2, <2>3, ConservedTake
<1>3. ASSUME NEW w \in Workers, Compute(w) PROVE Conserved'
  <2>1. item[w] \in Chunks
    BY <1>3, Bounds DEF Compute, TypeInv, TypeOK, HoldsWhileComputing, Chunks
  <2> QED
    BY <1>3, <2>1, ConservedPut DEF Compute
<1>4. ASSUME NEW w \in Workers, GiveUp(w) PROVE Conserved'
  BY <1>4, ConservedSentinel DEF GiveUp
<1>5. ASSUME NEW w \in Workers, NEW v \in Workers,
             OwnEmpty(w) \/ ReadLength(w) \/ ScanDone(w) \/ LostRace(w, v)
                         \/ Raise(w)
      PROVE  Conserved'
  BY <1>5, ConservedFrame DEF OwnEmpty, ReadLength, ScanDone, LostRace, Raise
<1>6. CASE Drain \/ Close
  <2>1. UNCHANGED <<front, back, item, results>>
    BY <1>6 DEF Drain, Submit, GetSentinel, GetChunk, GetViolation, Join,
                Leave, Close, workerVars
  <2> QED
    BY <2>1, ConservedFrame
<1>7. CASE UNCHANGED vars
  BY <1>7, ConservedFrame DEF vars, workerVars
<1> QED
  BY <1>1, <1>2, <1>3, <1>4, <1>5, <1>6, <1>7 DEF Next, Worker

\* No interleaving of owners and thieves loses a chunk or handles it twice.
THEOREM ChunksConserved == Spec => [](NothingLost /\ NothingTwice)
<1>1. Conserved => NothingLost /\ NothingTwice
  BY DEF Conserved
<1> QED
  BY <1>1, ConservedInit, ConservedStep, TypeCorrect, PTL DEF Spec

\* Between popleft(), pop() and put() no chunk of the drain gets lost.
THEOREM NoChunkIsLost == Spec => []NothingLost
BY ChunksConserved, PTL

\* No chunk of the drain is handed to two workers, or computed again.
THEOREM NoChunkTwice == Spec => []NothingTwice
BY ChunksConserved, PTL

-----------------------------------------------------------------------------
(* A worker leaves only when every deque is empty.                         *)

Empty(v) == front[v] >= back[v]

\* What one steal has established so far: its own deque is empty, and so is
\* every victim it has already tried.  Deques never grow, so it stays so.
ProbedAreEmpty ==
  \A w \in Workers :
    /\ pc[w] \in {"scan", "probe"} => Empty(w)
    /\ pc[w] = "probe" => \A v \in Workers \ untried[w] : Empty(v)

DryInv == ProbedAreEmpty /\ ExitOnlyWhenDry

\* Deques never grow.
LEMMA DequesShrink ==
  ASSUME TypeInv, [Next]_vars, NEW v \in Workers, Empty(v)
  PROVE  Empty(v)'
<1> USE DEF Empty
<1>1. ASSUME NEW w \in Workers, PopOwn(w) PROVE Empty(v)'
  <2>1. w # v
    BY <1>1, Bounds DEF PopOwn, TypeInv, TypeOK
  <2> QED
    BY <1>1, <2>1 DEF PopOwn, TypeInv, TypeOK
<1>2. ASSUME NEW w \in Workers, NEW u \in Workers, Steal(w, u)
      PROVE  Empty(v)'
  <2>1. u # v
    BY <1>2, Bounds DEF Steal, TypeInv, TypeOK
  <2> QED
    BY <1>2, <2>1 DEF Steal, TypeInv, TypeOK
<1>3. ASSUME NEW w \in Workers, NEW u \in Workers,
             OwnEmpty(w) \/ ReadLength(w) \/ ScanDone(w) \/ LostRace(w, u)
                         \/ GiveUp(w) \/ Compute(w) \/ Raise(w)
      PROVE  Empty(v)'
  BY <1>3 DEF OwnEmpty, ReadLength, ScanDone, LostRace, GiveUp, Compute, Raise
<1>4. CASE Drain \/ Close
  BY <1>4 DEF Drain, Submit, GetSentinel, GetChunk, GetViolation, Join,
              Leave, Close, workerVars
<1>5. CASE UNCHANGED vars
  BY <1>5 DEF vars, workerVars
<1> QED
  BY <1>1, <1>2, <1>3, <1>4, <1>5 DEF Next, Worker

LEMMA DryStep == TypeInv /\ DryInv /\ [Next]_vars => DryInv'
<1> SUFFICES ASSUME TypeInv, DryInv, [Next]_vars PROVE DryInv'
  OBVIOUS
<1>1. \A v \in Workers : Empty(v) => Empty(v)'
  BY DequesShrink
<1> SUFFICES ASSUME NEW u \in Workers
             PROVE  /\ pc'[u] \in {"scan", "probe"} => Empty(u)'
                    /\ pc'[u] = "probe" =>
                         \A v \in Workers \ untried'[u] : Empty(v)'
                    /\ pc'[u] = "returned" => \A v \in Workers : Empty(v)'
  BY DEF DryInv, ProbedAreEmpty, ExitOnlyWhenDry, Empty
<1>2. /\ pc[u] \in {"scan", "probe"} => Empty(u)
      /\ pc[u] = "probe" => \A v \in Workers \ untried[u] : Empty(v)
      /\ pc[u] = "returned" => \A v \in Workers : Empty(v)
  BY DEF DryInv, ProbedAreEmpty, ExitOnlyWhenDry, Empty
\* A step that leaves the steal of u where it is.
<1>3. CASE pc'[u] = pc[u] /\ untried'[u] = untried[u]
  BY <1>1, <1>2, <1>3
\* A step of another worker.
<1>4. ASSUME NEW w \in Workers, Worker(w), w # u
      PROVE  pc'[u] = pc[u] /\ untried'[u] = untried[u]
  BY <1>4 DEF Worker, PopOwn, OwnEmpty, ReadLength, ScanDone, Steal, LostRace,
              GiveUp, Compute, Raise, TypeInv, TypeOK
\* A step of u itself.
<1>5. CASE OwnEmpty(u)
  BY <1>5, <1>1, Bounds DEF OwnEmpty, Empty, TypeInv, TypeOK
<1>6. CASE ScanDone(u)
  <2>1. pc[u] = "scan" /\ pc'[u] = "probe" /\ untried'[u] = Workers \ {u}
    BY <1>6 DEF ScanDone, Others, TypeInv, TypeOK
  <2> QED
    BY <2>1, <1>1, <1>2
<1>7. ASSUME NEW v \in Workers, LostRace(u, v)
      PROVE  /\ pc'[u] = "probe" /\ Empty(u)'
             /\ \A x \in Workers \ untried'[u] : Empty(x)'
  <2>1. /\ pc[u] = "probe" /\ pc'[u] = "probe" /\ Empty(v)
        /\ untried'[u] = untried[u] \ {v}
    BY <1>7 DEF LostRace, Empty, TypeInv, TypeOK
  <2> QED
    BY <2>1, <1>1, <1>2
<1>8. CASE GiveUp(u)
  <2>1. pc[u] = "probe" /\ pc'[u] = "returned" /\ untried[u] = {}
    BY <1>8 DEF GiveUp, TypeInv, TypeOK
  <2> QED
    BY <2>1, <1>1, <1>2
<1>9. CASE \/ PopOwn(u) \/ Compute(u) \/ Raise(u)
           \/ \E v \in Workers : Steal(u, v)
  <2>1. pc'[u] \in {"compute", "take", "raised"}
    BY <1>9 DEF PopOwn, Compute, Raise, Steal, TypeInv, TypeOK
  <2> QED
    BY <2>1
<1>10. CASE ReadLength(u)
  BY <1>10, <1>3 DEF ReadLength
<1>11. CASE Drain \/ Close
  BY <1>11, <1>3 DEF Drain, Submit, GetSentinel, GetChunk, GetViolation, Join,
                     Leave, Close, workerVars
<1>12. CASE UNCHANGED vars
  BY <1>12, <1>3 DEF vars, workerVars
<1> QED
  BY <1>3, <1>4, <1>5, <1>6, <1>7, <1>8, <1>9, <1>10, <1>11, <1>12
     DEF Next, Worker

\* When a worker leaves, no deque holds a chunk, and none will again.
THEOREM WorkersExitDry == Spec => []ExitOnlyWhenDry
<1>1. Init => DryInv
  BY DEF Init, DryInv, ProbedAreEmpty, ExitOnlyWhenDry
<1>2. DryInv => ExitOnlyWhenDry
  BY DEF DryInv
<1> QED
  BY <1>1, <1>2, DryStep, TypeCorrect, PTL DEF Spec

-----------------------------------------------------------------------------
(* One sentinel per worker, and the last message of all is a sentinel.     *)

\* The workers whose sentinel the consumer has taken.
SendersSeen == {w \in Workers : \E i \in 1 .. got : results[i] = Sentinel(w)}

\* A worker has put its sentinel exactly when it returned, and put it once.
OneSentinelEach ==
  \A w \in Workers :
    /\ (\E i \in 1 .. Len(results) : results[i] = Sentinel(w)) <=>
         pc[w] = "returned"
    /\ \A i, j \in 1 .. Len(results) :
         results[i] = Sentinel(w) /\ results[j] = Sentinel(w) => i = j

\* Once every worker has returned nothing follows the last sentinel.
LastIsSentinel ==
  (\A w \in Workers : pc[w] = "returned") =>
    \E w \in Workers : results[Len(results)] = Sentinel(w)

\* done_slices counts the workers whose sentinel was taken.
DoneCounts == doneSlices = Cardinality(SendersSeen)

SentinelInv == OneSentinelEach /\ LastIsSentinel /\ DoneCounts

LEMMA WorkersFinite == IsFiniteSet(Workers) /\ Cardinality(Workers) = NSlices
BY Bounds, FS_Interval DEF Workers

LEMMA SentinelInit == Init => SentinelInv
<1> SUFFICES ASSUME Init PROVE SentinelInv
  OBVIOUS
<1> USE DEF Init
<1>1. Len(results) = 0 /\ got = 0
  OBVIOUS
<1>2. OneSentinelEach
  BY <1>1 DEF OneSentinelEach
<1>3. 1 \in Workers /\ pc[1] = "take"
  BY Bounds DEF Workers
<1>4. LastIsSentinel
  BY <1>3 DEF LastIsSentinel
<1>5. SendersSeen = {}
  BY <1>1 DEF SendersSeen
<1>6. DoneCounts
  BY <1>5, FS_EmptySet DEF DoneCounts
<1> QED
  BY <1>2, <1>4, <1>6 DEF SentinelInv

\* Worker steps that put nothing on the queue and end no worker's loop.
LEMMA SentinelFrame ==
  ASSUME SentinelInv, UNCHANGED <<results, got, doneSlices>>,
         \A w \in Workers : pc'[w] = "returned" <=> pc[w] = "returned"
  PROVE  SentinelInv'
<1>1. SendersSeen' = SendersSeen
  BY DEF SendersSeen
<1> QED
  BY <1>1 DEF SentinelInv, OneSentinelEach, LastIsSentinel, DoneCounts

\* A put() at the back of the queue does not touch what is already there.
LEMMA AppendResult ==
  ASSUME TypeInv, NEW m \in Messages, results' = Append(results, m),
         UNCHANGED got
  PROVE  /\ Len(results) \in Nat /\ Len(results') = Len(results) + 1
         /\ results'[Len(results')] = m
         /\ \A i \in 1 .. Len(results) : results'[i] = results[i]
         /\ SendersSeen' = SendersSeen
<1>1. /\ Len(results) \in Nat /\ Len(results') = Len(results) + 1
      /\ results'[Len(results')] = m
      /\ \A i \in 1 .. Len(results) : results'[i] = results[i]
  BY DEF TypeInv, TypeOK
<1>2. \A i \in 1 .. got : i \in 1 .. Len(results)
  BY <1>1 DEF TypeInv, TypeOK
<1> QED
  BY <1>1, <1>2 DEF SendersSeen

LEMMA SentinelWorker ==
  ASSUME TypeInv, SentinelInv, NEW w \in Workers, Worker(w)
  PROVE  SentinelInv'
<1>1. CASE Compute(w)
  <2>1. item[w] \in Chunks
    BY <1>1, Bounds DEF Compute, TypeInv, TypeOK, HoldsWhileComputing, Chunks
  <2> DEFINE n == Len(results)
             m == Result(item[w])
  <2>2. m \in Messages
    BY <2>1 DEF Result, Messages
  <2> HIDE DEF m
  <2>3. results' = Append(results, m) /\ UNCHANGED <<got, doneSlices>>
    BY <1>1 DEF Compute, consumerVars, m
  <2>4. /\ n \in Nat /\ Len(results') = n + 1 /\ results'[n + 1] = m
        /\ \A i \in 1 .. n : results'[i] = results[i]
        /\ SendersSeen' = SendersSeen
    BY <2>2, <2>3, AppendResult
  <2>5. \A u \in Workers : m # Sentinel(u)
    BY DEF m, Result, Sentinel
  <2>6. \A u \in Workers : /\ pc'[u] = "returned" <=> pc[u] = "returned"
                           /\ pc[w] # "returned"
    BY <1>1 DEF Compute, TypeInv, TypeOK
  <2>7. OneSentinelEach'
    BY <2>4, <2>5, <2>6 DEF SentinelInv, OneSentinelEach
  <2> QED
    BY <2>3, <2>4, <2>6, <2>7 DEF SentinelInv, LastIsSentinel, DoneCounts
<1>2. CASE GiveUp(w)
  <2> DEFINE n == Len(results)
  <2>1. Sentinel(w) \in Messages
    BY DEF Sentinel, Messages
  <2>2. results' = Append(results, Sentinel(w)) /\ UNCHANGED <<got, doneSlices>>
    BY <1>2 DEF GiveUp, consumerVars
  <2>3. /\ n \in Nat /\ Len(results') = n + 1 /\ results'[n + 1] = Sentinel(w)
        /\ \A i \in 1 .. n : results'[i] = results[i]
        /\ SendersSeen' = SendersSeen
    BY <2>1, <2>2, AppendResult
  <2>4. /\ pc[w] # "returned" /\ pc'[w] = "returned"
        /\ \A u \in Workers \ {w} : pc'[u] = pc[u]
    BY <1>2 DEF GiveUp, TypeInv, TypeOK
  <2>5. \A u \in Workers : u # w => Sentinel(w) # Sentinel(u)
    BY DEF Sentinel
  <2>6. OneSentinelEach'
    <3> SUFFICES ASSUME NEW u \in Workers
                 PROVE  /\ (\E i \in 1 .. n + 1 : results'[i] = Sentinel(u)) <=>
                              pc'[u] = "returned"
                        /\ \A i, j \in 1 .. n + 1 :
                             results'[i] = Sentinel(u) /\ results'[j] = Sentinel(u)
                               => i = j
      BY <2>3 DEF OneSentinelEach
    <3>1. CASE u = w
      <4>1. \A i \in 1 .. n : results[i] # Sentinel(w)
        BY <2>4 DEF SentinelInv, OneSentinelEach
      <4> QED
        BY <2>3, <2>4, <3>1, <4>1
    <3>2. CASE u # w
      BY <2>3, <2>4, <2>5, <3>2 DEF SentinelInv, OneSentinelEach
    <3> QED BY <3>1, <3>2
  <2> QED
    BY <2>2, <2>3, <2>6 DEF SentinelInv, LastIsSentinel, DoneCounts
<1>3. CASE \/ PopOwn(w) \/ OwnEmpty(w) \/ ReadLength(w) \/ ScanDone(w)
           \/ Raise(w) \/ \E v \in Workers : Steal(w, v) \/ LostRace(w, v)
  <2>1. /\ UNCHANGED <<results, got, doneSlices>>
        /\ \A u \in Workers : pc'[u] = "returned" <=> pc[u] = "returned"
    BY <1>3 DEF PopOwn, OwnEmpty, ReadLength, ScanDone, Raise, Steal,
                LostRace, TypeInv, TypeOK, consumerVars
  <2> QED
    BY <2>1, SentinelFrame
<1> QED
  BY <1>1, <1>2, <1>3 DEF Worker

LEMMA SentinelConsumer ==
  ASSUME TypeInv, SentinelInv, Drain \/ Close
  PROVE  SentinelInv'
<1>0. UNCHANGED <<workerVars, results>>
  BY DEF Drain, Submit, GetSentinel, GetChunk, GetViolation, Join, Leave, Close
<1>1. OneSentinelEach' /\ LastIsSentinel'
  BY <1>0 DEF SentinelInv, OneSentinelEach, LastIsSentinel, workerVars
<1>2. CASE Submit \/ Join \/ Leave \/ Close
  <2>1. UNCHANGED <<got, doneSlices>>
    BY <1>2 DEF Submit, Join, Leave, Close
  <2> QED
    BY <1>0, <2>1, SentinelFrame DEF workerVars
<1>3. CASE GetChunk \/ GetViolation
  <2>1. Available("chunk") /\ got' = got + 1 /\ UNCHANGED doneSlices
    BY <1>3 DEF GetChunk, GetViolation
  <2>2. \A w \in Workers : results[got + 1] # Sentinel(w)
    BY <2>1, NextMessage DEF Sentinel
  <2>3. got \in Nat
    BY DEF TypeInv, TypeOK
  <2>4. SendersSeen' = SendersSeen
    BY <1>0, <2>1, <2>2, <2>3 DEF SendersSeen
  <2> QED
    BY <1>1, <2>1, <2>4 DEF SentinelInv, DoneCounts
<1>4. CASE GetSentinel
  <2>1. Available("slice_done") /\ got' = got + 1 /\ doneSlices' = doneSlices + 1
    BY <1>4 DEF GetSentinel
  <2>2. PICK w \in Workers : results[got + 1] = Sentinel(w)
    BY <2>1, NextMessage, MessageShape
  <2>3. got \in Nat /\ got + 1 \in 1 .. Len(results) /\ Len(results) \in Nat
    BY <2>1, NextMessage DEF TypeInv, TypeOK
  <2>4. w \notin SendersSeen
    <3> SUFFICES ASSUME NEW i \in 1 .. got, results[i] = Sentinel(w)
                 PROVE  FALSE
      BY DEF SendersSeen
    <3>1. i \in 1 .. Len(results) /\ i # got + 1
      BY <2>3
    <3> QED
      BY <2>2, <2>3, <3>1 DEF SentinelInv, OneSentinelEach
  <2>5. SendersSeen' = SendersSeen \cup {w}
    <3>1. \A u \in Workers : Sentinel(u) = Sentinel(w) => u = w
      BY DEF Sentinel
    <3> QED
      BY <1>0, <2>1, <2>2, <2>3, <3>1 DEF SendersSeen
  <2>6. IsFiniteSet(SendersSeen)
    BY WorkersFinite, FS_Subset DEF SendersSeen
  <2>7. Cardinality(SendersSeen') = Cardinality(SendersSeen) + 1
    BY <2>4, <2>5, <2>6, FS_AddElement
  <2> QED
    BY <1>1, <2>1, <2>7 DEF SentinelInv, DoneCounts
<1> QED
  BY <1>2, <1>3, <1>4 DEF Drain

LEMMA SentinelStep == TypeInv /\ SentinelInv /\ [Next]_vars => SentinelInv'
<1> SUFFICES ASSUME TypeInv, SentinelInv, [Next]_vars PROVE SentinelInv'
  OBVIOUS
<1>1. CASE UNCHANGED vars
  BY <1>1, SentinelFrame DEF vars, workerVars, consumerVars
<1> QED
  BY <1>1, SentinelWorker, SentinelConsumer DEF Next

\* When one sentinel per slice was taken, the queue is exhausted.
LEMMA LoopExitDrained ==
  ASSUME TypeInv, SentinelInv, LoopExit
  PROVE  got = Len(results) /\ \A w \in Workers : pc[w] = "returned"
<1>1. SendersSeen \subseteq Workers /\ Cardinality(SendersSeen) = NSlices
  BY DEF SendersSeen, SentinelInv, DoneCounts, LoopExit
<1>2. SendersSeen = Workers
  BY <1>1, WorkersFinite, FS_Subset
<1>3. got \in 0 .. Len(results) /\ Len(results) \in Nat
  BY DEF TypeInv, TypeOK
<1>4. \A w \in Workers : \E i \in 1 .. got :
        i \in 1 .. Len(results) /\ results[i] = Sentinel(w)
  BY <1>2, <1>3 DEF SendersSeen
<1>5. \A w \in Workers : pc[w] = "returned"
  BY <1>4 DEF SentinelInv, OneSentinelEach
<1>6. PICK w \in Workers : results[Len(results)] = Sentinel(w)
  BY <1>5 DEF SentinelInv, LastIsSentinel
<1>7. PICK i \in 1 .. got : i \in 1 .. Len(results) /\ results[i] = Sentinel(w)
  BY <1>4
<1>8. Len(results) \in 1 .. Len(results)
  BY <1>3, <1>7
<1>9. i = Len(results)
  BY <1>6, <1>7, <1>8 DEF SentinelInv, OneSentinelEach
<1> QED
  BY <1>3, <1>5, <1>7, <1>9

-----------------------------------------------------------------------------
(* Delivery: what the caller has been given, and the delivery contract.    *)

\* The generator has not ended yet exactly while its frame is alive.
RunningWhileIterating ==
  /\ outcome = "running" <=> consumer \in {"submit", "drain", "yielded"}
  /\ outcome = "complete" => LoopExit

\* The caller has been given exactly the results taken from the queue, but
\* for the one that ended the generator with an exception.
DeliveredAreTaken ==
  /\ \A k \in 1 .. Len(delivered) :
       \E i \in 1 .. got : results[i] = Result(delivered[k])
  /\ outcome \in {"running", "complete"} =>
       \A i \in 1 .. got : results[i].kind = "chunk" =>
         \E k \in 1 .. Len(delivered) : delivered[k] = results[i].of

DeliveryInv == RunningWhileIterating /\ DeliveredAreTaken

\* The proof's whole invariant.
IInv == TypeInv /\ Conserved /\ DryInv /\ SentinelInv /\ DeliveryInv

LEMMA DeliveryInit == Init => DeliveryInv
BY Bounds DEF Init, DeliveryInv, RunningWhileIterating, DeliveredAreTaken

\* What a worker does leaves the messages already taken as they are.
LEMMA DeliveryWorker ==
  ASSUME TypeInv, DeliveryInv, NEW w \in Workers, Worker(w)
  PROVE  DeliveryInv'
<1>1. UNCHANGED consumerVars
  BY DEF Worker, PopOwn, OwnEmpty, ReadLength, ScanDone, Steal, LostRace,
         GiveUp, Compute, Raise
<1>2. \A i \in 1 .. got : results'[i] = results[i]
  <2>1. CASE UNCHANGED results
    BY <2>1
  <2>2. CASE \E m : results' = Append(results, m)
    <3>1. \A i \in 1 .. got : i \in 1 .. Len(results)
      BY DEF TypeInv, TypeOK
    <3> QED
      BY <2>2, <3>1 DEF TypeInv, TypeOK
  <2> QED
    BY <2>1, <2>2 DEF Worker, PopOwn, OwnEmpty, ReadLength, ScanDone, Steal,
                      LostRace, GiveUp, Compute, Raise
<1> QED
  BY <1>1, <1>2 DEF DeliveryInv, RunningWhileIterating, DeliveredAreTaken,
                    LoopExit, consumerVars

\* A chunk that is taken now was not yielded before.
LEMMA FreshChunk ==
  ASSUME TypeInv, Conserved, DeliveryInv, Available("chunk")
  PROVE  /\ results[got + 1].of \in Chunks
         /\ results[got + 1] = Result(results[got + 1].of)
         /\ \A k \in 1 .. Len(delivered) : delivered[k] # results[got + 1].of
<1> DEFINE c == results[got + 1].of
<1>1. /\ got + 1 \in 1 .. Len(results) /\ got \in Nat /\ Len(results) \in Nat
      /\ c \in Chunks /\ results[got + 1] = Result(c)
  BY NextMessage, MessageShape DEF TypeInv, TypeOK
<1>2. ASSUME NEW k \in 1 .. Len(delivered), delivered[k] = c PROVE FALSE
  <2>1. PICK i \in 1 .. got : results[i] = Result(c)
    BY <1>2 DEF DeliveryInv, DeliveredAreTaken
  <2>2. i \in 1 .. Len(results) /\ i # got + 1
    BY <1>1
  <2> QED
    BY <1>1, <2>1, <2>2 DEF Conserved, NothingTwice, PutAt
<1> QED
  BY <1>1, <1>2

LEMMA DeliveryConsumer ==
  ASSUME TypeInv, Conserved, DeliveryInv, Drain \/ Close
  PROVE  DeliveryInv'
<1>0. got \in Nat /\ delivered \in Seq(Chunks)
  BY DEF TypeInv, TypeOK
<1>1. CASE Submit
  BY <1>1 DEF Submit, DeliveryInv, RunningWhileIterating, DeliveredAreTaken,
              LoopExit, workerVars
<1>2. CASE GetSentinel
  <2>1. results[got + 1].kind = "slice_done" /\ UNCHANGED results
    BY <1>2 DEF GetSentinel, Available
  <2> QED
    BY <1>0, <1>2, <2>1 DEF GetSentinel, Available, Draining, DeliveryInv,
              RunningWhileIterating, DeliveredAreTaken, LoopExit
<1>3. CASE GetChunk
  <2> DEFINE c == results[got + 1].of
  <2>1. /\ Available("chunk") /\ got' = got + 1 /\ UNCHANGED <<results, outcome>>
        /\ delivered' = Append(delivered, c) /\ consumer' = "yielded"
    BY <1>3 DEF GetChunk
  <2>2. c \in Chunks /\ results[got + 1] = Result(c)
    BY <2>1, FreshChunk
  <2>3. /\ Len(delivered') = Len(delivered) + 1 /\ Len(delivered) \in Nat
        /\ delivered'[Len(delivered) + 1] = c
        /\ \A k \in 1 .. Len(delivered) : delivered'[k] = delivered[k]
    BY <1>0, <2>1, <2>2
  <2>4. outcome = "running"
    BY <2>1 DEF Available, Draining, DeliveryInv, RunningWhileIterating
  <2>5. RunningWhileIterating'
    BY <2>1, <2>4 DEF RunningWhileIterating
  <2>6. \A k \in 1 .. Len(delivered') :
          \E i \in 1 .. got' : results'[i] = Result(delivered'[k])
    <3> SUFFICES ASSUME NEW k \in 1 .. Len(delivered) + 1
                 PROVE  \E i \in 1 .. got + 1 : results[i] = Result(delivered'[k])
      BY <2>1, <2>3
    <3>1. CASE k = Len(delivered) + 1
      BY <1>0, <2>2, <2>3, <3>1
    <3>2. CASE k \in 1 .. Len(delivered)
      BY <1>0, <2>3, <3>2 DEF DeliveryInv, DeliveredAreTaken
    <3> QED
      BY <2>3, <3>1, <3>2
  <2>7. \A i \in 1 .. got' : results'[i].kind = "chunk" =>
          \E k \in 1 .. Len(delivered') : delivered'[k] = results'[i].of
    <3> SUFFICES ASSUME NEW i \in 1 .. got + 1, results[i].kind = "chunk"
                 PROVE  \E k \in 1 .. Len(delivered) + 1 : delivered'[k] = results[i].of
      BY <2>1, <2>3
    <3>1. CASE i = got + 1
      BY <2>3, <3>1
    <3>2. CASE i \in 1 .. got
      BY <2>3, <2>4, <3>2 DEF DeliveryInv, DeliveredAreTaken
    <3> QED
      BY <1>0, <3>1, <3>2
  <2> QED
    BY <2>5, <2>6, <2>7 DEF DeliveryInv, DeliveredAreTaken
<1>4. CASE GetViolation
  <2>1. /\ got' = got + 1 /\ UNCHANGED <<results, delivered>>
        /\ outcome' = "raised" /\ consumer' = "leaving"
    BY <1>4 DEF GetViolation
  <2> QED
    BY <1>0, <2>1 DEF DeliveryInv, RunningWhileIterating, DeliveredAreTaken
<1>5. CASE Join
  <2>1. /\ UNCHANGED <<results, delivered, got, doneSlices>> /\ LoopExit
        /\ outcome' \in {"raised", "complete"} /\ consumer' = "leaving"
        /\ outcome = "running"
    BY <1>5 DEF Join, Draining, DeliveryInv, RunningWhileIterating
  <2> QED
    BY <2>1 DEF DeliveryInv, RunningWhileIterating, DeliveredAreTaken, LoopExit
<1>6. CASE Leave
  BY <1>6 DEF Leave, DeliveryInv, RunningWhileIterating, DeliveredAreTaken,
              LoopExit, workerVars
<1>7. CASE Close
  BY <1>7 DEF Close, DeliveryInv, RunningWhileIterating, DeliveredAreTaken,
              LoopExit, workerVars
<1> QED
  BY <1>1, <1>2, <1>3, <1>4, <1>5, <1>6, <1>7 DEF Drain

LEMMA InductiveInit == Init => IInv
<1>1. Init => DryInv
  BY DEF Init, DryInv, ProbedAreEmpty, ExitOnlyWhenDry
<1> QED
  BY <1>1, TypeInit, ConservedInit, SentinelInit, DeliveryInit DEF IInv

LEMMA InductiveStep == IInv /\ [Next]_vars => IInv'
<1> SUFFICES ASSUME IInv, [Next]_vars PROVE IInv'
  OBVIOUS
<1> USE DEF IInv
<1>1. TypeInv' /\ Conserved' /\ DryInv' /\ SentinelInv'
  BY TypeStep, ConservedStep, DryStep, SentinelStep
<1>2. DeliveryInv'
  <2>1. CASE UNCHANGED vars
    BY <2>1 DEF vars, consumerVars, DeliveryInv, RunningWhileIterating,
                DeliveredAreTaken, LoopExit
  <2> QED
    BY <2>1, DeliveryWorker, DeliveryConsumer DEF Next
<1> QED
  BY <1>1, <1>2

THEOREM Inductive == Spec => []IInv
BY InductiveInit, InductiveStep, PTL DEF Spec

\* Counting one sentinel per slice is enough: when that many were taken, the
\* queue is exhausted and the caller was given every chunk.
LEMMA AllDelivered ==
  ASSUME IInv, LoopExit, outcome \in {"running", "complete"}
  PROVE  /\ got = Len(results)
         /\ \A c \in Chunks : \E k \in 1 .. Len(delivered) : delivered[k] = c
<1> USE DEF IInv
<1>1. got = Len(results) /\ \A w \in Workers : pc[w] = "returned"
  BY LoopExitDrained
<1> SUFFICES ASSUME NEW c \in Chunks
             PROVE  \E k \in 1 .. Len(delivered) : delivered[k] = c
  BY <1>1
<1>2. ASSUME NEW w \in Workers PROVE ~InDeque(c, w) /\ ~Held(c, w)
  <2>1. pc[w] = "returned" /\ front[w] >= back[w]
    BY <1>1 DEF DryInv, ExitOnlyWhenDry
  <2>2. item[w] = 0
    BY <2>1 DEF TypeInv, HoldsWhileComputing
  <2>3. front[w] \in 1 .. NPending + 1 /\ back[w] \in 1 .. NPending + 1
    BY DEF TypeInv, TypeOK
  <2>4. c \in Nat /\ c # 0
    BY DEF Chunks
  <2> QED
    BY <2>1, <2>2, <2>3, <2>4, Bounds DEF InDeque, Held
<1>3. PICK i \in 1 .. Len(results) : results[i] = Result(c)
  BY <1>2 DEF Conserved, NothingLost, PutAt
<1> QED
  BY <1>1, <1>3 DEF DeliveryInv, DeliveredAreTaken, Result

\* Normal exhaustion of the generator means every pending chunk was yielded.
THEOREM CompleteIsComplete == Spec => []CompleteMeansAll
<1>1. IInv => CompleteMeansAll
  BY AllDelivered DEF CompleteMeansAll, IInv, DeliveryInv, RunningWhileIterating
<1> QED
  BY <1>1, Inductive, PTL

-----------------------------------------------------------------------------
(* Early exits.                                                            *)

\* Control returns to the caller only when every thread has stopped.
StoppedAtEnd == consumer = "ended" => \A w \in Workers : Stopped(w)

LEMMA StoppedStep == StoppedAtEnd /\ [Next]_vars => StoppedAtEnd'
<1> SUFFICES ASSUME StoppedAtEnd, [Next]_vars PROVE StoppedAtEnd'
  OBVIOUS
<1>1. CASE UNCHANGED vars
  BY <1>1 DEF vars, workerVars, consumerVars, StoppedAtEnd, Stopped
<1>2. ASSUME NEW w \in Workers, Worker(w) PROVE StoppedAtEnd'
  <2>1. ~Stopped(w) /\ UNCHANGED consumer
    BY <1>2 DEF Worker, PopOwn, OwnEmpty, ReadLength, ScanDone, Steal, LostRace,
                GiveUp, Compute, Raise, Stopped, consumerVars
  <2> QED
    BY <2>1 DEF StoppedAtEnd
<1>3. CASE Submit \/ GetSentinel \/ GetChunk \/ GetViolation \/ Join \/ Close
  <2>1. consumer' # "ended"
    BY <1>3 DEF Submit, GetSentinel, GetChunk, GetViolation, Join, Close
  <2> QED
    BY <2>1 DEF StoppedAtEnd
<1>4. CASE Leave
  BY <1>4 DEF Leave, StoppedAtEnd, Stopped, workerVars
<1> QED
  BY <1>1, <1>2, <1>3, <1>4 DEF Next, Drain

\* Where no worker raised, an ended generator leaves no chunk uncomputed,
\* whichever way it ended.
THEOREM EarlyExitComputesAll == Spec => []EarlyExitStillComputesAll
<1>1. Init => StoppedAtEnd
  BY DEF Init, StoppedAtEnd
<1>2. IInv /\ StoppedAtEnd => EarlyExitStillComputesAll
  <2> SUFFICES ASSUME IInv, StoppedAtEnd, consumer = "ended",
                      \A w \in Workers : pc[w] # "raised",
                      NEW c \in Chunks
               PROVE  \E i \in 1 .. Len(results) : PutAt(c, i)
    BY DEF EarlyExitStillComputesAll
  <2> USE DEF IInv
  <2>1. ASSUME NEW w \in Workers PROVE ~InDeque(c, w) /\ ~Held(c, w)
    <3>1. pc[w] = "returned"
      BY DEF StoppedAtEnd, Stopped
    <3>2. front[w] >= back[w]
      BY <3>1 DEF DryInv, ExitOnlyWhenDry
    <3>3. item[w] = 0
      BY <3>1 DEF TypeInv, HoldsWhileComputing
    <3>4. front[w] \in 1 .. NPending + 1 /\ back[w] \in 1 .. NPending + 1
      BY DEF TypeInv, TypeOK
    <3>5. c \in Nat /\ c # 0
      BY DEF Chunks
    <3> QED
      BY <3>2, <3>3, <3>4, <3>5, Bounds DEF InDeque, Held
  <2> QED
    BY <2>1 DEF Conserved, NothingLost
<1> QED
  BY <1>1, <1>2, StoppedStep, Inductive, PTL DEF Spec

-----------------------------------------------------------------------------
(* The drain implements ChunkDelivery.                                     *)

LEMMA DeliveryStep ==
  ASSUME IInv, [Next]_vars
  PROVE  [Delivery!Next]_<<delivered, outcome>>
<1> USE DEF IInv
<1>1. CASE UNCHANGED vars
  BY <1>1 DEF vars, consumerVars
<1>2. ASSUME NEW w \in Workers, Worker(w)
      PROVE  UNCHANGED <<delivered, outcome>>
  BY <1>2 DEF Worker, PopOwn, OwnEmpty, ReadLength, ScanDone, Steal, LostRace,
              GiveUp, Compute, Raise, consumerVars
<1>3. CASE Submit \/ GetSentinel \/ Leave
  BY <1>3 DEF Submit, GetSentinel, Leave
<1>4. CASE GetChunk
  <2> DEFINE c == results[got + 1].of
  <2>1. /\ Available("chunk") /\ delivered' = Append(delivered, c)
        /\ UNCHANGED outcome
    BY <1>4 DEF GetChunk
  <2>2. c \in Chunks /\ \A k \in 1 .. Len(delivered) : delivered[k] # c
    BY <2>1, FreshChunk
  <2>3. outcome = "running"
    BY <2>1 DEF Available, Draining, DeliveryInv, RunningWhileIterating
  <2>4. Delivery!Deliver(c)
    BY <2>1, <2>2, <2>3 DEF Delivery!Deliver, Delivery!Yielded
  <2> QED
    BY <2>2, <2>4 DEF Delivery!Next
<1>5. CASE GetViolation \/ Close
  <2>1. outcome = "running"
    BY <1>5 DEF GetViolation, Close, Available, Draining, DeliveryInv,
                RunningWhileIterating
  <2> QED
    BY <1>5, <2>1 DEF GetViolation, Close, Delivery!Next, Delivery!Abort
<1>6. CASE Join
  <2>1. /\ LoopExit /\ UNCHANGED delivered
        /\ outcome = "running" /\ outcome' \in {"raised", "complete"}
    BY <1>6 DEF Join, Draining, DeliveryInv, RunningWhileIterating
  <2>2. \A c \in Chunks : \E k \in 1 .. Len(delivered) : delivered[k] = c
    BY <2>1, AllDelivered
  <2>3. Delivery!Yielded \subseteq Chunks
    BY DEF Delivery!Yielded, TypeInv, TypeOK
  <2>4. Delivery!Yielded = Chunks
    BY <2>2, <2>3 DEF Delivery!Yielded
  <2> QED
    BY <2>1, <2>4 DEF Delivery!Next, Delivery!Finish, Delivery!Abort
<1> QED
  BY <1>1, <1>2, <1>3, <1>4, <1>5, <1>6 DEF Next, Drain

\* Whatever the workers' interleaving, the caller of the threaded drain sees
\* the delivery contract: each chunk at most once, and exhaustion only after
\* all of them.
THEOREM DrainImplementsDelivery == Spec => DeliverySpec
<1>1. Init => Delivery!Init
  BY DEF Init, Delivery!Init
<1>2. IInv /\ [Next]_vars => [Delivery!Next]_(Delivery!vars)
  BY DeliveryStep DEF Delivery!vars
<1> QED
  BY <1>1, <1>2, Inductive, PTL DEF Spec, DeliverySpec, Delivery!Spec

=============================================================================
