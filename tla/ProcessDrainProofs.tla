-------------------------- MODULE ProcessDrainProofs --------------------------
(***************************************************************************)
(* Proofs about the drain of the process pool, for every number of chunks  *)
(* and workers, every set of failing chunks and any death of a worker.     *)
(***************************************************************************)
EXTENDS ProcessDrain, FiniteSetTheorems, TLAPS

LEMMA Bounds == /\ NPending \in Nat /\ NPending > 0
                /\ MaxInFlight \in Nat /\ MaxInFlight > 0
BY PoolAssumption DEF MaxInFlight

\* What the pool does is none of the window's business, nor the caller's.
LEMMA PoolFrame ==
  ASSUME Break \/ \E w \in Workers : Worker(w)
  PROVE  UNCHANGED <<windowVars, callerVars>>
BY DEF Break, Worker, ReadIndex, ClaimIndex, Take, Compute, Raise, Settle

-----------------------------------------------------------------------------
(* Type correctness.                                                       *)

\* A busy worker computes a chunk.
BusyHasChunk == \A w \in Workers : worker[w] = "busy" => runs[w] \in Chunks

\* The lock of the pin counter: who claims an index read the current value,
\* and nobody else claims meanwhile.
PinLock ==
  /\ \A w \in Workers : worker[w] = "claiming" => index[w] = counter
  /\ \A v, w \in Workers : worker[v] = "claiming" /\ worker[w] = "claiming" => v = w

TypeInv == TypeOK /\ BusyHasChunk /\ PinLock

LEMMA TypeInit == Init => TypeInv
<1> SUFFICES ASSUME Init PROVE TypeInv
  OBVIOUS
<1>1. TypeOK
  <2>1. /\ worker \in [Workers -> {"absent", "claiming", "idle", "busy"}]
        /\ runs \in [Workers -> 0 .. NPending]
        /\ index \in [Workers -> Int]
    BY Bounds DEF Init
  <2>2. /\ future \in [Chunks -> {"none", "queued", "running", "finished", "failed"}]
        /\ counter \in Nat /\ taken \in 0 .. NPending
    BY Bounds DEF Init
  <2>3. /\ delivered \in Seq(Chunks)
        /\ inFlight \subseteq Chunks /\ done \subseteq Chunks
        /\ handled \subseteq done /\ completed \subseteq Chunks
    BY DEF Init
  <2>4. broken \in BOOLEAN
    BY DEF Init
  <2> QED
    BY <2>1, <2>2, <2>3, <2>4 DEF Init, TypeOK
<1> QED
  BY <1>1 DEF Init, TypeInv, BusyHasChunk, PinLock

\* A chunk is what pending_iter gives out.
LEMMA NextIsChunk ==
  ASSUME TypeOK, taken < NPending PROVE taken + 1 \in Chunks
BY Bounds DEF TypeOK, Chunks

LEMMA SubmitType ==
  ASSUME TypeOK, SubmitNext
  PROVE  /\ taken' \in 0 .. NPending /\ inFlight' \subseteq Chunks
         /\ future' \in [Chunks -> {"none", "queued", "running", "finished", "failed"}]
<1>1. CASE taken < NPending
  BY <1>1, NextIsChunk, Bounds DEF SubmitNext, TypeOK
<1>2. CASE ~(taken < NPending)
  BY <1>2 DEF SubmitNext, TypeOK
<1> QED
  BY <1>1, <1>2

LEMMA TypeStep == TypeInv /\ [Next]_vars => TypeInv'
<1> SUFFICES ASSUME TypeInv, [Next]_vars PROVE TypeInv'
  OBVIOUS
<1> USE DEF TypeInv, TypeOK, BusyHasChunk, PinLock
<1>1. CASE UNCHANGED vars
  BY <1>1 DEF vars, poolVars, windowVars, callerVars
<1>2. ASSUME NEW w \in Workers, Worker(w) PROVE TypeInv'
  <2>1. UNCHANGED <<windowVars, callerVars>>
    BY <1>2, PoolFrame
  <2>2. CASE ReadIndex(w)
    BY <2>1, <2>2 DEF ReadIndex, windowVars, callerVars
  <2>3. CASE ClaimIndex(w)
    <3>1. counter' \in Nat
      BY <2>3 DEF ClaimIndex
    <3> QED
      BY <2>1, <2>3, <3>1 DEF ClaimIndex, windowVars, callerVars
  <2>4. ASSUME NEW c \in Chunks, Take(w, c) PROVE TypeInv'
    BY <2>1, <2>4, Bounds DEF Take, Chunks, windowVars, callerVars
  <2>5. ASSUME NEW state \in {"finished", "failed"}, Settle(w, state)
        PROVE  TypeInv'
    <3>1. /\ future' \in [Chunks -> {"none", "queued", "running", "finished", "failed"}]
          /\ runs' \in [Workers -> 0 .. NPending]
          /\ worker' = [worker EXCEPT ![w] = "idle"]
      BY <2>5, Bounds DEF Settle
    <3>2. BusyHasChunk'
      BY <2>5, <3>1 DEF Settle
    <3>3. PinLock'
      BY <2>5, <3>1 DEF Settle
    <3> QED
      BY <2>1, <2>5, <3>1, <3>2, <3>3 DEF Settle, windowVars, callerVars
  <2> QED
    BY <1>2, <2>2, <2>3, <2>4, <2>5 DEF Worker, Compute, Raise
<1>3. CASE Break
  BY <1>3 DEF Break, windowVars, callerVars
<1>4. CASE Prime
  BY <1>4, SubmitType DEF Prime, callerVars
<1>5. CASE Primed \/ LoopEnds \/ Leave
  BY <1>5 DEF Primed, LoopEnds, Leave, poolVars, windowVars
<1>6. CASE PrimeRaises \/ Exhausted \/ Close
  BY <1>6 DEF PrimeRaises, Exhausted, Close, Leaving, poolVars, windowVars
<1>7. CASE Wait
  BY <1>7 DEF Wait, poolVars
<1>8. ASSUME NEW c \in Chunks, ResultRaises(c) \/ ResubmitRaises(c)
      PROVE  TypeInv'
  BY <1>8 DEF ResultRaises, ResubmitRaises, Looping, Leaving, poolVars
<1>9. ASSUME NEW c \in Chunks, Deliver(c) PROVE TypeInv'
  BY <1>9, SubmitType DEF Deliver, Looping
<1>10. ASSUME NEW c \in Chunks, Violation(c) PROVE TypeInv'
  BY <1>10, SubmitType DEF Violation, Looping, Leaving
<1> QED
  BY <1>1, <1>2, <1>3, <1>4, <1>5, <1>6, <1>7, <1>8, <1>9, <1>10 DEF Next, Drain

\* The type invariant of the process drain.
THEOREM TypeCorrect == Spec => []TypeOK
<1>1. TypeInv => TypeOK
  BY DEF TypeInv
<1> QED
  BY <1>1, TypeInit, TypeStep, PTL DEF Spec

-----------------------------------------------------------------------------
(* The window of chunks in flight.                                         *)

LEMMA ChunksFinite == ASSUME NEW S, S \subseteq Chunks PROVE IsFiniteSet(S)
<1>1. IsFiniteSet(Chunks)
  BY Bounds, FS_Interval DEF Chunks
<1> QED
  BY <1>1, FS_Subset

\* What was submitted came from pending_iter, and is in one place.
WindowPlaces ==
  /\ \A c \in inFlight \cup done : c <= taken
  /\ inFlight \cap done = {}
  /\ consumer = "prime" => done = {} /\ Cardinality(inFlight) = taken
                           /\ taken <= MaxInFlight
  /\ consumer = "wait" => done \subseteq handled

\* The window never exceeds its bound, and is full as long as chunks are
\* pending and the generator goes on.
WindowSize ==
  /\ Cardinality(Outstanding) <= MaxInFlight
  /\ Cardinality(done) <= MaxInFlight
  /\ consumer \in {"wait", "loop", "yielded"} /\ taken < NPending =>
       Cardinality(Outstanding) = MaxInFlight

WindowInv == WindowPlaces /\ WindowSize

LEMMA WindowInit == Init => WindowInv
<1> SUFFICES ASSUME Init PROVE WindowInv
  OBVIOUS
<1>1. inFlight = {} /\ done = {} /\ Outstanding = {} /\ consumer = "prime" /\ taken = 0
  BY DEF Init, Outstanding
<1> QED
  BY <1>1, Bounds, FS_EmptySet DEF WindowInv, WindowPlaces, WindowSize

\* Steps that move nothing in the window, and leave the consumer where a
\* full window is not called for, or was so before.
LEMMA WindowFrame ==
  ASSUME WindowInv, UNCHANGED windowVars,
         \/ UNCHANGED consumer
         \/ consumer' \in {"leaving", "ended"}
         \/ /\ consumer \in {"loop", "yielded"} /\ done \subseteq handled
            /\ consumer' = "wait"
  PROVE  WindowInv'
BY DEF WindowInv, WindowPlaces, WindowSize, Outstanding, windowVars

\* Outstanding chunks are finitely many chunks.
LEMMA OutstandingFinite ==
  ASSUME TypeOK
  PROVE  /\ Outstanding \subseteq Chunks /\ IsFiniteSet(Outstanding)
         /\ IsFiniteSet(inFlight) /\ IsFiniteSet(done)
         /\ Cardinality(Outstanding) \in Nat
         /\ Cardinality(inFlight) \in Nat /\ Cardinality(done) \in Nat
<1>1. Outstanding \subseteq Chunks /\ inFlight \subseteq Chunks /\ done \subseteq Chunks
  BY DEF TypeOK, Outstanding
<1>2. IsFiniteSet(Outstanding) /\ IsFiniteSet(inFlight) /\ IsFiniteSet(done)
  BY <1>1, ChunksFinite
<1> QED
  BY <1>1, <1>2, FS_CardinalityType

\* Taking a completed chunk out of the window while the next one, if there
\* is one, goes in.
LEMMA SwapOutstanding ==
  ASSUME TypeOK, WindowInv, NEW c \in Chunks, Looping(c), SubmitNext,
         handled' = handled \cup {c}, UNCHANGED done
  PROVE  /\ c \in Outstanding /\ taken \in Nat
         /\ taken < NPending =>
              /\ taken' = taken + 1 /\ inFlight' = inFlight \cup {taken + 1}
              /\ taken + 1 \notin inFlight \cup done
              /\ Outstanding' = (Outstanding \ {c}) \cup {taken + 1}
              /\ Cardinality(Outstanding') = Cardinality(Outstanding)
         /\ ~(taken < NPending) =>
              /\ taken' = taken /\ inFlight' = inFlight
              /\ Outstanding' = Outstanding \ {c}
              /\ Cardinality(Outstanding') = Cardinality(Outstanding) - 1
<1> USE DEF WindowInv
<1>1. c \in Outstanding /\ c \notin inFlight /\ c \in done /\ c \notin handled
  BY DEF Looping, Outstanding, WindowPlaces
<1>2. taken \in Nat
  BY DEF TypeOK
<1>3. /\ IsFiniteSet(Outstanding \ {c})
      /\ Cardinality(Outstanding \ {c}) = Cardinality(Outstanding) - 1
  BY <1>1, OutstandingFinite, FS_RemoveElement
<1>4. ASSUME taken < NPending
      PROVE  /\ taken' = taken + 1 /\ inFlight' = inFlight \cup {taken + 1}
             /\ taken + 1 \notin inFlight \cup done
             /\ Outstanding' = (Outstanding \ {c}) \cup {taken + 1}
             /\ Cardinality(Outstanding') = Cardinality(Outstanding)
  <2>1. taken' = taken + 1 /\ inFlight' = inFlight \cup {taken + 1}
    BY <1>4 DEF SubmitNext
  <2>2. taken + 1 \notin inFlight \cup done
    BY <1>2 DEF WindowPlaces
  <2>3. Outstanding' = (Outstanding \ {c}) \cup {taken + 1}
    BY <1>1, <2>1, <2>2 DEF Outstanding
  <2>4. taken + 1 \notin Outstanding
    BY <2>2 DEF Outstanding
  <2>5. Cardinality(Outstanding') = Cardinality(Outstanding \ {c}) + 1
    BY <1>3, <2>3, <2>4, FS_AddElement
  <2> QED
    BY <1>3, <2>1, <2>2, <2>3, <2>5, OutstandingFinite
<1>5. ASSUME ~(taken < NPending)
      PROVE  /\ taken' = taken /\ inFlight' = inFlight
             /\ Outstanding' = Outstanding \ {c}
             /\ Cardinality(Outstanding') = Cardinality(Outstanding) - 1
  <2>1. UNCHANGED <<taken, inFlight>>
    BY <1>5 DEF SubmitNext
  <2>2. Outstanding' = Outstanding \ {c}
    BY <1>1, <2>1 DEF Outstanding
  <2> QED
    BY <1>3, <2>1, <2>2
<1> QED
  BY <1>1, <1>2, <1>4, <1>5

\* Submitting the next chunk when a completed one is taken from the window
\* leaves the window as full as it was.
LEMMA WindowSwap ==
  ASSUME TypeOK, WindowInv, NEW c \in Chunks, Looping(c), SubmitNext,
         handled' = handled \cup {c}, UNCHANGED done,
         consumer' \in {"yielded", "leaving"}
  PROVE  WindowInv'
<1> USE DEF WindowInv
<1>1. taken \in Nat /\ consumer \in {"loop", "yielded"} /\ consumer # "prime"
  BY DEF TypeOK, Looping
<1>2. CASE taken < NPending
  <2>1. /\ taken' = taken + 1 /\ inFlight' = inFlight \cup {taken + 1}
        /\ taken + 1 \notin inFlight \cup done
        /\ Cardinality(Outstanding') = Cardinality(Outstanding)
    BY <1>2, SwapOutstanding
  <2>2. WindowPlaces'
    <3>1. \A d \in inFlight' \cup done' : d <= taken'
      BY <1>1, <2>1 DEF WindowPlaces, TypeOK, Chunks
    <3>2. inFlight' \cap done' = {}
      BY <2>1 DEF WindowPlaces
    <3> QED
      BY <3>1, <3>2 DEF WindowPlaces
  <2>3. WindowSize'
    BY <1>1, <1>2, <2>1 DEF WindowSize
  <2> QED
    BY <2>2, <2>3
<1>3. CASE ~(taken < NPending)
  <2>1. /\ taken' = taken /\ inFlight' = inFlight
        /\ Cardinality(Outstanding') = Cardinality(Outstanding) - 1
    BY <1>3, SwapOutstanding
  <2>2. WindowSize'
    BY <1>3, <2>1, OutstandingFinite, Bounds DEF WindowSize
  <2> QED
    BY <2>1, <2>2 DEF WindowPlaces
<1> QED
  BY <1>2, <1>3

LEMMA WindowStep == TypeInv /\ WindowInv /\ [Next]_vars => WindowInv'
<1> SUFFICES ASSUME TypeInv, WindowInv, [Next]_vars PROVE WindowInv'
  OBVIOUS
<1> USE DEF TypeInv, WindowInv
<1>1. CASE UNCHANGED vars
  BY <1>1, WindowFrame DEF vars, callerVars
<1>2. CASE Break \/ \E w \in Workers : Worker(w)
  BY <1>2, PoolFrame, WindowFrame DEF callerVars
<1>3. CASE Prime
  <2>1. /\ consumer = "prime" /\ UNCHANGED <<done, handled, consumer>>
        /\ taken < NPending /\ taken < MaxInFlight
        /\ taken' = taken + 1 /\ inFlight' = inFlight \cup {taken + 1}
    BY <1>3 DEF Prime, MorePriming, SubmitNext, callerVars
  <2>2. done = {} /\ Cardinality(inFlight) = taken /\ taken \in Nat
    BY <2>1 DEF WindowPlaces, TypeOK
  <2>3. taken + 1 \notin inFlight
    BY <2>2 DEF WindowPlaces
  <2>4. Cardinality(inFlight') = taken + 1
    BY <2>1, <2>2, <2>3, OutstandingFinite, FS_AddElement
  <2>5. Outstanding' = inFlight'
    BY <2>1, <2>2 DEF Outstanding
  <2>6. WindowPlaces'
    <3>1. \A c \in inFlight' : c <= taken'
      BY <2>1, <2>2 DEF WindowPlaces, TypeOK, Chunks
    <3> QED
      BY <2>1, <2>2, <2>4, <3>1, Bounds DEF WindowPlaces
  <2>7. WindowSize'
    BY <2>1, <2>2, <2>4, <2>5, Bounds, FS_EmptySet DEF WindowSize
  <2> QED
    BY <2>6, <2>7
<1>4. CASE Primed
  <2>1. /\ consumer = "prime" /\ consumer' = "wait" /\ UNCHANGED windowVars
        /\ ~(taken < NPending /\ taken < MaxInFlight)
    BY <1>4 DEF Primed, MorePriming
  <2>2. /\ done = {} /\ Cardinality(inFlight) = taken /\ taken \in Nat
        /\ taken <= MaxInFlight
    BY <2>1 DEF WindowPlaces, TypeOK
  <2>3. Outstanding' = inFlight /\ Outstanding = inFlight
    BY <2>1, <2>2 DEF Outstanding, windowVars
  <2>4. taken < NPending => taken = MaxInFlight
    BY <2>1, <2>2, Bounds
  <2>5. WindowSize'
    BY <2>1, <2>2, <2>3, <2>4 DEF WindowSize, windowVars
  <2> QED
    BY <2>1, <2>2, <2>5 DEF WindowPlaces, windowVars
<1>5. CASE Wait
  <2>1. /\ consumer = "wait" /\ consumer' = "loop"
        /\ done' \subseteq inFlight /\ inFlight' = inFlight \ done'
        /\ handled' = {} /\ UNCHANGED taken
    BY <1>5 DEF Wait
  <2>2. Outstanding = inFlight
    BY <2>1 DEF WindowPlaces, Outstanding
  <2>3. Outstanding' = inFlight
    BY <2>1 DEF Outstanding
  <2>4. Cardinality(done') <= Cardinality(inFlight) /\ Cardinality(done') \in Nat
    BY <2>1, OutstandingFinite, FS_Subset, FS_CardinalityType
  <2>5. WindowSize'
    BY <2>1, <2>2, <2>3, <2>4, Bounds, OutstandingFinite DEF WindowSize
  <2> QED
    BY <2>1, <2>5 DEF WindowPlaces
<1>6. CASE PrimeRaises \/ Exhausted \/ Close \/ Leave \/ LoopEnds
  BY <1>6, WindowFrame DEF PrimeRaises, Exhausted, Close, Leave, LoopEnds, Leaving
<1>7. ASSUME NEW c \in Chunks, ResultRaises(c) \/ ResubmitRaises(c)
      PROVE  WindowInv'
  <2>1. /\ UNCHANGED <<taken, inFlight, done>> /\ handled' = handled \cup {c}
        /\ consumer' = "leaving"
    BY <1>7 DEF ResultRaises, ResubmitRaises, Leaving
  <2>2. Outstanding' \subseteq Outstanding
    BY <2>1 DEF Outstanding
  <2>3. /\ Cardinality(Outstanding') <= Cardinality(Outstanding)
        /\ Cardinality(Outstanding') \in Nat
    BY <2>2, OutstandingFinite, FS_Subset, FS_CardinalityType
  <2>4. WindowSize'
    BY <2>1, <2>3, Bounds, OutstandingFinite DEF WindowSize
  <2> QED
    BY <2>1, <2>4 DEF WindowPlaces
<1>8. ASSUME NEW c \in Chunks, Deliver(c) \/ Violation(c) PROVE WindowInv'
  BY <1>8, WindowSwap DEF Deliver, Violation, Leaving
<1> QED
  BY <1>1, <1>2, <1>3, <1>4, <1>5, <1>6, <1>7, <1>8 DEF Next, Drain

LEMMA WindowAlways == Spec => [](TypeInv /\ WindowInv)
BY TypeInit, TypeStep, WindowInit, WindowStep, PTL DEF Spec

\* However fast the workers are, the results held are O(n_workers).
THEOREM BacklogIsBounded == Spec => []BacklogBounded
<1>1. TypeInv /\ WindowInv => BacklogBounded
  <2> SUFFICES ASSUME TypeInv, WindowInv PROVE BacklogBounded
    OBVIOUS
  <2> USE DEF TypeInv, WindowInv
  <2>1. /\ Cardinality(inFlight) <= Cardinality(Outstanding)
    BY OutstandingFinite, FS_Subset DEF Outstanding
  <2>2. Cardinality(inFlight \cup done) <= Cardinality(inFlight) + Cardinality(done)
    <3>1. inFlight \cap done = {} /\ Cardinality(inFlight \cap done) = 0
      BY FS_EmptySet DEF WindowPlaces
    <3>2. Cardinality(inFlight \cup done)
             = Cardinality(inFlight) + Cardinality(done)
                 - Cardinality(inFlight \cap done)
      BY OutstandingFinite, FS_Union
    <3> QED
      BY <3>1, <3>2, OutstandingFinite
  <2>3. Cardinality(inFlight \cup done) \in Nat
    BY OutstandingFinite, FS_Union, FS_CardinalityType
  <2> QED
    BY <2>1, <2>2, <2>3, OutstandingFinite, Bounds DEF WindowSize, BacklogBounded
<1> QED
  BY <1>1, WindowAlways, PTL

\* The pipeline never waits with room in its window while chunks are pending.
THEOREM WindowIsFull == Spec => []WindowFull
<1>1. TypeInv /\ WindowInv => WindowFull
  <2> SUFFICES ASSUME TypeInv, WindowInv, consumer = "wait", taken < NPending
               PROVE  Cardinality(inFlight) = MaxInFlight
    BY DEF WindowFull
  <2>1. Outstanding = inFlight
    BY DEF WindowInv, WindowPlaces, Outstanding
  <2> QED
    BY <2>1 DEF WindowInv, WindowSize
<1> QED
  BY <1>1, WindowAlways, PTL
-----------------------------------------------------------------------------
(* The pin counter.                                                        *)

HasIndex(w) == worker[w] \in {"idle", "busy"}

\* Every index that was given out is below the counter, and no two are equal.
PinsGivenOut ==
  /\ \A w \in Workers : HasIndex(w) => index[w] < counter
  /\ \A v, w \in Workers : v # w /\ HasIndex(v) /\ HasIndex(w)
                             => index[v] # index[w]

\* Steps after which the same workers have the same indices.
LEMMA PinsFrame ==
  ASSUME PinsGivenOut, UNCHANGED <<index, counter>>,
         \A w \in Workers : HasIndex(w)' => HasIndex(w)
  PROVE  PinsGivenOut'
BY DEF PinsGivenOut

LEMMA PinsStep == TypeInv /\ PinsGivenOut /\ [Next]_vars => PinsGivenOut'
<1> SUFFICES ASSUME TypeInv, PinsGivenOut, [Next]_vars PROVE PinsGivenOut'
  OBVIOUS
<1>1. CASE UNCHANGED vars
  BY <1>1, PinsFrame DEF vars, poolVars, HasIndex
<1>2. ASSUME NEW w \in Workers, ReadIndex(w) PROVE PinsGivenOut'
  <2>1. \A v \in Workers : HasIndex(v)' => HasIndex(v) /\ v # w
    BY <1>2 DEF ReadIndex, HasIndex, TypeInv, TypeOK
  <2>2. \A v \in Workers : v # w => index'[v] = index[v]
    BY <1>2 DEF ReadIndex, TypeInv, TypeOK
  <2>3. counter' = counter
    BY <1>2 DEF ReadIndex
  <2> QED
    BY <2>1, <2>2, <2>3 DEF PinsGivenOut
<1>3. ASSUME NEW w \in Workers, ClaimIndex(w) PROVE PinsGivenOut'
  <2>1. /\ index' = index /\ counter' = counter + 1 /\ index[w] = counter
        /\ counter \in Nat /\ index \in [Workers -> Int]
    BY <1>3 DEF ClaimIndex, TypeInv, TypeOK, PinLock
  <2>2. \A v \in Workers : HasIndex(v)' => v = w \/ HasIndex(v)
    BY <1>3 DEF ClaimIndex, HasIndex, TypeInv, TypeOK
  <2> QED
    BY <2>1, <2>2 DEF PinsGivenOut
<1>4. ASSUME NEW w \in Workers, NEW c \in Chunks, Take(w, c)
      PROVE  PinsGivenOut'
  BY <1>4, PinsFrame DEF Take, HasIndex, TypeInv, TypeOK
<1>5. ASSUME NEW w \in Workers, Compute(w) \/ Raise(w) PROVE PinsGivenOut'
  BY <1>5, PinsFrame DEF Compute, Raise, Settle, HasIndex, TypeInv, TypeOK
<1>6. CASE Break
  BY <1>6, PinsFrame DEF Break, HasIndex
<1>7. CASE Drain \/ Close
  <2>1. UNCHANGED <<worker, index, counter>>
    BY <1>7 DEF Drain, Prime, Primed, PrimeRaises, Wait, LoopEnds, Exhausted,
                ResultRaises, ResubmitRaises, Deliver, Violation, Leave, Close,
                poolVars
  <2> QED
    BY <2>1, PinsFrame DEF HasIndex
<1> QED
  BY <1>1, <1>2, <1>3, <1>4, <1>5, <1>6, <1>7 DEF Next, Worker

\* The lock around the counter gives every worker process its own CPU.
THEOREM PinsAreDistinct == Spec => []DistinctPins
<1>1. Init => PinsGivenOut
  BY DEF Init, PinsGivenOut, HasIndex
<1>2. PinsGivenOut => DistinctPins
  BY DEF PinsGivenOut, DistinctPins, HasIndex
<1> QED
  BY <1>1, <1>2, TypeInit, TypeStep, PinsStep, PTL DEF Spec

-----------------------------------------------------------------------------
(* The delivery contract.                                                  *)

\* While the generator runs, what pending_iter gave out is in the window or
\* was yielded, never both.
Accounted ==
  outcome = "running" =>
    /\ \A c \in Chunks : c <= taken <=> c \in Outstanding \cup Delivery!Yielded
    /\ Outstanding \cap Delivery!Yielded = {}

\* How many that is; and, once it has ended, at most one chunk was taken out
\* of the window without being yielded.
Counted ==
  IF outcome = "running"
  THEN taken = Cardinality(Outstanding) + Len(delivered)
  ELSE taken <= Len(delivered) + MaxInFlight + 1

RunningPlaces ==
  outcome = "running" <=> consumer \in {"prime", "wait", "loop", "yielded"}

DeliveryInv == Accounted /\ Counted /\ RunningPlaces

IInv == TypeInv /\ WindowInv /\ DeliveryInv

LEMMA DeliveryInit == Init => DeliveryInv
<1> SUFFICES ASSUME Init PROVE DeliveryInv
  OBVIOUS
<1>1. /\ Outstanding = {} /\ delivered = <<>> /\ taken = 0
      /\ outcome = "running" /\ consumer = "prime"
  BY DEF Init, Outstanding
<1>2. Delivery!Yielded = {}
  BY <1>1 DEF Delivery!Yielded
<1>3. Accounted
  BY <1>1, <1>2 DEF Accounted, Chunks
<1>4. Counted
  BY <1>1, FS_EmptySet DEF Counted
<1> QED
  BY <1>1, <1>3, <1>4 DEF DeliveryInv, RunningPlaces

\* Steps that yield nothing and keep the window's contents.
LEMMA DeliveryFrame ==
  ASSUME DeliveryInv, UNCHANGED <<taken, delivered, outcome>>,
         Outstanding' = Outstanding, RunningPlaces'
  PROVE  DeliveryInv'
<1>1. Delivery!Yielded' = Delivery!Yielded
  BY DEF Delivery!Yielded
<1> QED
  BY <1>1 DEF DeliveryInv, Accounted, Counted

\* Steps that end the generator without taking another chunk.
LEMMA DeliveryEnd ==
  ASSUME TypeOK, WindowInv, DeliveryInv, UNCHANGED <<taken, delivered>>,
         outcome' # "running", consumer' \in {"leaving", "ended"}
  PROVE  DeliveryInv'
<1>1. taken \in Nat /\ Len(delivered) \in Nat
  BY DEF TypeOK
<1>2. taken <= Len(delivered) + MaxInFlight + 1
  BY <1>1, OutstandingFinite, Bounds
     DEF DeliveryInv, Counted, WindowInv, WindowSize
<1> QED
  BY <1>2 DEF DeliveryInv, Accounted, Counted, RunningPlaces

\* Yielding a chunk moves it from the window to what was yielded.
LEMMA DeliveryMove ==
  ASSUME TypeOK, WindowInv, DeliveryInv, NEW c \in Chunks, Deliver(c)
  PROVE  DeliveryInv'
<1>1. /\ Looping(c) /\ SubmitNext /\ handled' = handled \cup {c}
      /\ UNCHANGED <<done, outcome>> /\ delivered' = Append(delivered, c)
      /\ consumer' = "yielded"
  BY DEF Deliver
<1>2. /\ outcome = "running" /\ taken \in Nat /\ c \in Outstanding
      /\ delivered \in Seq(Chunks) /\ Outstanding \subseteq Chunks
  BY <1>1, SwapOutstanding, OutstandingFinite
     DEF Looping, DeliveryInv, RunningPlaces, TypeOK
<1>3. Delivery!Yielded' = Delivery!Yielded \cup {c}
  BY <1>1, <1>2 DEF Delivery!Yielded
<1>4. Len(delivered') = Len(delivered) + 1 /\ Len(delivered) \in Nat
  BY <1>1, <1>2
<1>5. CASE taken < NPending
  <2>1. /\ taken' = taken + 1
        /\ Outstanding' = (Outstanding \ {c}) \cup {taken + 1}
        /\ Cardinality(Outstanding') = Cardinality(Outstanding)
    BY <1>1, <1>5, SwapOutstanding
  <2>2. taken + 1 \notin Delivery!Yielded /\ taken + 1 \in Chunks /\ taken + 1 # c
    BY <1>2, <1>5, NextIsChunk DEF DeliveryInv, Accounted, Chunks
  <2>3. \A d \in Chunks : d <= taken' <=> d <= taken \/ d = taken + 1
    BY <1>2, <2>1 DEF Chunks
  <2>4. Accounted'
    BY <1>2, <1>3, <2>1, <2>2, <2>3 DEF DeliveryInv, Accounted
  <2>5. Counted'
    BY <1>1, <1>2, <1>4, <2>1, OutstandingFinite DEF DeliveryInv, Counted
  <2> QED
    BY <1>1, <1>2, <2>4, <2>5 DEF DeliveryInv, RunningPlaces
<1>6. CASE ~(taken < NPending)
  <2>1. /\ taken' = taken /\ Outstanding' = Outstanding \ {c}
        /\ Cardinality(Outstanding') = Cardinality(Outstanding) - 1
    BY <1>1, <1>6, SwapOutstanding
  <2>2. Accounted'
    BY <1>2, <1>3, <2>1 DEF DeliveryInv, Accounted
  <2>3. Counted'
    BY <1>1, <1>2, <1>4, <2>1, OutstandingFinite DEF DeliveryInv, Counted
  <2> QED
    BY <1>1, <1>2, <2>2, <2>3 DEF DeliveryInv, RunningPlaces
<1> QED
  BY <1>5, <1>6

\* A chunk that fails the check may be replaced in the window, and is not
\* yielded.
LEMMA DeliveryViolation ==
  ASSUME TypeOK, WindowInv, DeliveryInv, NEW c \in Chunks, Violation(c)
  PROVE  DeliveryInv'
<1>1. /\ Looping(c) /\ SubmitNext /\ UNCHANGED delivered
      /\ outcome' = "raised" /\ consumer' = "leaving"
  BY DEF Violation, Leaving
<1>2. /\ taken \in Nat /\ Len(delivered) \in Nat /\ outcome = "running"
      /\ taken' = taken \/ taken' = taken + 1
  BY <1>1 DEF TypeOK, SubmitNext, Looping, DeliveryInv, RunningPlaces
<1>3. taken' <= Len(delivered) + MaxInFlight + 1
  BY <1>2, OutstandingFinite, Bounds
     DEF DeliveryInv, Counted, WindowInv, WindowSize
<1> QED
  BY <1>1, <1>3 DEF DeliveryInv, Accounted, Counted, RunningPlaces

LEMMA DeliveryStep == IInv /\ [Next]_vars => DeliveryInv'
<1> SUFFICES ASSUME IInv, [Next]_vars PROVE DeliveryInv'
  OBVIOUS
<1> USE DEF IInv, TypeInv
<1>1. CASE UNCHANGED vars
  BY <1>1, DeliveryFrame
     DEF vars, windowVars, callerVars, Outstanding, DeliveryInv, RunningPlaces
<1>2. CASE Break \/ \E w \in Workers : Worker(w)
  BY <1>2, PoolFrame, DeliveryFrame
     DEF windowVars, callerVars, Outstanding, DeliveryInv, RunningPlaces
<1>3. CASE Prime
  <2>1. /\ consumer = "prime" /\ UNCHANGED <<done, handled, callerVars>>
        /\ taken < NPending /\ taken' = taken + 1
        /\ inFlight' = inFlight \cup {taken + 1}
    BY <1>3 DEF Prime, MorePriming, SubmitNext
  <2>2. /\ done = {} /\ taken \in Nat /\ outcome = "running"
        /\ taken + 1 \in Chunks /\ Outstanding \subseteq Chunks
    BY <2>1, NextIsChunk, OutstandingFinite
       DEF WindowInv, WindowPlaces, TypeOK, DeliveryInv, RunningPlaces
  <2>3. Outstanding' = Outstanding \cup {taken + 1}
    BY <2>1, <2>2 DEF Outstanding
  <2>4. taken + 1 \notin Outstanding \cup Delivery!Yielded
    BY <2>2 DEF DeliveryInv, Accounted
  <2>5. Delivery!Yielded' = Delivery!Yielded
    BY <2>1 DEF callerVars, Delivery!Yielded
  <2>6. Cardinality(Outstanding') = Cardinality(Outstanding) + 1
    BY <2>3, <2>4, OutstandingFinite, FS_AddElement
  <2>7. \A d \in Chunks : d <= taken' <=> d <= taken \/ d = taken + 1
    BY <2>1, <2>2 DEF Chunks
  <2>8. Accounted'
    BY <2>2, <2>3, <2>4, <2>5, <2>7 DEF DeliveryInv, Accounted
  <2>9. Counted'
    <3>1. Len(delivered) \in Nat /\ UNCHANGED <<delivered, outcome>>
      BY <2>1 DEF TypeOK, callerVars
    <3> QED
      BY <2>1, <2>2, <2>6, <3>1, OutstandingFinite DEF DeliveryInv, Counted
  <2> QED
    BY <2>1, <2>8, <2>9 DEF DeliveryInv, RunningPlaces, callerVars
<1>4. CASE Primed \/ LoopEnds
  BY <1>4, DeliveryFrame
     DEF Primed, LoopEnds, windowVars, Outstanding, DeliveryInv, RunningPlaces
<1>5. CASE Wait
  <2>1. Outstanding' = Outstanding
    BY <1>5 DEF Wait, Outstanding, WindowInv, WindowPlaces
  <2> QED
    BY <1>5, <2>1, DeliveryFrame DEF Wait, DeliveryInv, RunningPlaces
<1>6. CASE PrimeRaises \/ Exhausted \/ Close
  BY <1>6, DeliveryEnd DEF PrimeRaises, Exhausted, Close, Leaving, windowVars
<1>7. ASSUME NEW c \in Chunks, ResultRaises(c) \/ ResubmitRaises(c)
      PROVE  DeliveryInv'
  BY <1>7, DeliveryEnd DEF ResultRaises, ResubmitRaises, Leaving
<1>8. ASSUME NEW c \in Chunks, Deliver(c) PROVE DeliveryInv'
  BY <1>8, DeliveryMove
<1>9. ASSUME NEW c \in Chunks, Violation(c) PROVE DeliveryInv'
  BY <1>9, DeliveryViolation
<1>10. CASE Leave
  <2>1. outcome # "running"
    BY <1>10 DEF Leave, DeliveryInv, RunningPlaces
  <2> QED
    BY <1>10, <2>1, DeliveryEnd DEF Leave, windowVars
<1> QED
  BY <1>1, <1>2, <1>3, <1>4, <1>5, <1>6, <1>7, <1>8, <1>9, <1>10
     DEF Next, Drain

LEMMA IInvAlways == Spec => []IInv
<1>1. Init => IInv
  BY TypeInit, WindowInit, DeliveryInit DEF IInv
<1>2. IInv /\ [Next]_vars => IInv'
  BY TypeStep, WindowStep, DeliveryStep DEF IInv
<1> QED
  BY <1>1, <1>2, PTL DEF Spec

\* Ending early, whichever way, has started at most a window's worth of
\* chunks, and one more, beyond what the caller was given.
THEOREM EarlyEndBounded == Spec => []EarlyEndIsBounded
<1>1. IInv => EarlyEndIsBounded
  BY DEF IInv, DeliveryInv, Counted, EarlyEndIsBounded
<1> QED
  BY <1>1, IInvAlways, PTL

\* No step of the pool or of the generator breaks the delivery contract.
LEMMA ImplementsStep ==
  ASSUME IInv, [Next]_vars
  PROVE  [Delivery!Next]_<<delivered, outcome>>
<1> USE DEF IInv, TypeInv
<1>1. CASE UNCHANGED vars
  BY <1>1 DEF vars, callerVars
<1>2. CASE Break \/ \E w \in Workers : Worker(w)
  BY <1>2, PoolFrame DEF callerVars
<1>3. CASE Prime \/ Primed \/ Wait \/ LoopEnds \/ Leave
  BY <1>3 DEF Prime, Primed, Wait, LoopEnds, Leave, callerVars
<1>4. CASE PrimeRaises \/ Close
  BY <1>4 DEF PrimeRaises, Close, Leaving, DeliveryInv, RunningPlaces,
              Delivery!Next, Delivery!Abort
<1>5. ASSUME NEW c \in Chunks, ResultRaises(c) \/ ResubmitRaises(c) \/ Violation(c)
      PROVE  Delivery!Next
  BY <1>5 DEF ResultRaises, ResubmitRaises, Violation, Looping, Leaving,
              DeliveryInv, RunningPlaces, Delivery!Next, Delivery!Abort
<1>6. ASSUME NEW c \in Chunks, Deliver(c) PROVE Delivery!Next
  <2>1. /\ outcome = "running" /\ delivered' = Append(delivered, c)
        /\ UNCHANGED outcome /\ c \in Outstanding
    BY <1>6, SwapOutstanding DEF Deliver, Looping, DeliveryInv, RunningPlaces
  <2>2. c \notin Delivery!Yielded
    BY <2>1 DEF DeliveryInv, Accounted
  <2> QED
    BY <2>1, <2>2 DEF Delivery!Next, Delivery!Deliver
<1>7. CASE Exhausted
  <2>1. /\ consumer = "wait" /\ inFlight = {} /\ outcome = "running"
        /\ outcome' = "complete" /\ UNCHANGED delivered
    BY <1>7 DEF Exhausted, Leaving, DeliveryInv, RunningPlaces
  <2>2. Outstanding = {} /\ Cardinality(Outstanding) = 0
    BY <2>1, FS_EmptySet DEF WindowInv, WindowPlaces, Outstanding
  <2>3. \A c \in Chunks : c <= taken
    BY <2>1, <2>2, Bounds DEF WindowInv, WindowSize, TypeOK, Chunks
  <2>4. Delivery!Yielded \subseteq Chunks
    BY DEF Delivery!Yielded, TypeOK
  <2>5. Delivery!Yielded = Chunks
    BY <2>1, <2>2, <2>3, <2>4 DEF DeliveryInv, Accounted
  <2> QED
    BY <2>1, <2>5 DEF Delivery!Next, Delivery!Finish
<1> QED
  BY <1>1, <1>2, <1>3, <1>4, <1>5, <1>6, <1>7 DEF Next, Drain

\* Whatever the workers' order and whichever of them raise or die, the caller
\* of the process drain sees the delivery contract.
THEOREM DrainImplementsDelivery == Spec => DeliverySpec
<1>1. Init => Delivery!Init
  BY DEF Init, Delivery!Init
<1>2. IInv /\ [Next]_vars => [Delivery!Next]_(Delivery!vars)
  BY ImplementsStep DEF Delivery!vars
<1> QED
  BY <1>1, <1>2, IInvAlways, PTL DEF Spec, DeliverySpec, Delivery!Spec

-----------------------------------------------------------------------------
(* The end.                                                                *)

\* In a pool that is not broken, each busy worker computes a chunk of its
\* own, whose future is running.
BusyRuns ==
  ~broken =>
    \A w \in Workers : worker[w] = "busy" =>
      /\ future[runs[w]] = "running"
      /\ \A v \in Workers : worker[v] = "busy" /\ runs[v] = runs[w] => v = w

EndedSettled == consumer = "ended" => \A c \in Chunks : ~Unsettled(c)

\* What pending_iter has not given out is not submitted.
Unsubmitted == \A c \in Chunks : c > taken => future[c] = "none"

EndInv == BusyRuns /\ EndedSettled /\ Unsubmitted

\* A worker that takes a chunk takes one nobody else has.
LEMMA EndTake ==
  ASSUME TypeInv, EndInv, NEW w \in Workers, NEW c \in Chunks, Take(w, c)
  PROVE  EndInv'
<1> USE DEF TypeInv, TypeOK, EndInv, EndedSettled, Unsubmitted, Unsettled
<1>1. /\ future[c] = "queued" /\ ~broken /\ consumer # "ended"
      /\ UNCHANGED <<taken, consumer, broken>>
      /\ future' = [future EXCEPT ![c] = "running"]
      /\ worker' = [worker EXCEPT ![w] = "busy"]
      /\ runs' = [runs EXCEPT ![w] = c]
  BY DEF Take, windowVars, callerVars
<1>2. \A v \in Workers : worker[v] = "busy" => runs[v] # c /\ runs[v] \in Chunks
  BY <1>1 DEF BusyRuns, BusyHasChunk
<1>3. \A v \in Workers : v # w => worker'[v] = worker[v] /\ runs'[v] = runs[v]
  BY <1>1
<1>4. worker'[w] = "busy" /\ runs'[w] = c /\ future'[c] = "running"
  BY <1>1
<1>5. \A d \in Chunks : d # c => future'[d] = future[d]
  BY <1>1
<1>6. BusyRuns'
  BY <1>1, <1>2, <1>3, <1>4, <1>5 DEF BusyRuns
<1>7. Unsubmitted'
  BY <1>1, <1>5
<1> QED
  BY <1>1, <1>6, <1>7

\* Submitting touches no future that any worker runs.
LEMMA EndSubmit ==
  ASSUME TypeInv, EndInv, SubmitNext, UNCHANGED <<worker, runs, broken>>,
         consumer' # "ended"
  PROVE  EndInv'
<1> USE DEF TypeInv, TypeOK, EndInv, EndedSettled, Unsubmitted
<1>1. CASE taken < NPending
  <2>1. /\ taken' = taken + 1 /\ taken + 1 \in Chunks /\ taken \in Nat
        /\ future' = [future EXCEPT ![taken + 1] = "queued"]
    BY <1>1, NextIsChunk DEF SubmitNext
  <2>2. future[taken + 1] = "none"
    BY <2>1
  <2>3. \A d \in Chunks : d # taken + 1 => future'[d] = future[d]
    BY <2>1
  <2>4. BusyRuns'
    BY <2>2, <2>3 DEF BusyRuns, BusyHasChunk
  <2>5. Unsubmitted'
    BY <2>1, <2>3 DEF Chunks
  <2> QED
    BY <2>4, <2>5
<1>2. CASE ~(taken < NPending)
  BY <1>2 DEF SubmitNext, BusyRuns
<1> QED
  BY <1>1, <1>2

LEMMA EndStep == TypeInv /\ EndInv /\ [Next]_vars => EndInv'
<1> SUFFICES ASSUME TypeInv, EndInv, [Next]_vars PROVE EndInv'
  OBVIOUS
<1> USE DEF TypeInv, EndInv, BusyRuns, EndedSettled, Unsubmitted, Unsettled
<1>1. CASE UNCHANGED vars
  BY <1>1 DEF vars, poolVars, windowVars, callerVars
<1>2. ASSUME NEW w \in Workers, ReadIndex(w) \/ ClaimIndex(w) PROVE EndInv'
  BY <1>2 DEF ReadIndex, ClaimIndex, windowVars, callerVars, TypeOK
<1>3. ASSUME NEW w \in Workers, NEW c \in Chunks, Take(w, c) PROVE EndInv'
  BY <1>3, EndTake
<1>4. ASSUME NEW w \in Workers, NEW state \in {"finished", "failed"},
             Settle(w, state)
      PROVE  EndInv'
  BY <1>4 DEF Settle, windowVars, callerVars, TypeOK, BusyHasChunk
<1>5. CASE Break
  BY <1>5 DEF Break, windowVars, callerVars
<1>6. CASE Prime
  BY <1>6, EndSubmit DEF Prime, callerVars
<1>7. ASSUME NEW c \in Chunks, Deliver(c) \/ Violation(c) PROVE EndInv'
  BY <1>7, EndSubmit DEF Deliver, Violation, Leaving
<1>8. CASE Primed \/ PrimeRaises \/ LoopEnds \/ Exhausted \/ Close \/ Leave
  BY <1>8 DEF Primed, PrimeRaises, LoopEnds, Exhausted, Close, Leave, Leaving,
              poolVars, windowVars
<1>9. CASE Wait \/ \E c \in Chunks : ResultRaises(c) \/ ResubmitRaises(c)
  BY <1>9 DEF Wait, ResultRaises, ResubmitRaises, Leaving, poolVars
<1> QED
  BY <1>1, <1>2, <1>3, <1>4, <1>5, <1>6, <1>7, <1>8, <1>9
     DEF Next, Drain, Worker, Compute, Raise

\* The caller gets control back only when no process works for it any more.
THEOREM NothingRunsOn == Spec => []NothingRunsAfterEnd
<1>1. Init => EndInv
  BY DEF Init, EndInv, BusyRuns, EndedSettled, Unsubmitted, Chunks
<1>2. TypeInv /\ EndInv => NothingRunsAfterEnd
  BY DEF TypeInv, BusyHasChunk, EndInv, BusyRuns, EndedSettled, Unsettled,
         NothingRunsAfterEnd
<1> QED
  BY <1>1, <1>2, TypeInit, TypeStep, EndStep, PTL DEF Spec
=============================================================================
