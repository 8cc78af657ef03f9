----------------------------- MODULE ThreadDrain -----------------------------
(***************************************************************************)
(* The threaded drain of parallel_decompose_arrays (executor="thread").    *)
(* The pending chunks are split into one contiguous slice per worker; each *)
(* worker pops its own slice from the front and, when that is empty,       *)
(* steals from the back of the fullest other slice.  Results and one       *)
(* sentinel per finished worker travel through an unbounded queue to the   *)
(* generator that the caller iterates.                                     *)
(*                                                                         *)
(* A deque is never pushed to after it is filled, so the deque of worker w *)
(* always holds a contiguous run of pending: its contents are exactly the  *)
(* chunks front[w] .. back[w] - 1.  Every deque operation, queue operation *)
(* and length read is one step: each is atomic under the GIL and the code  *)
(* takes no lock around any two of them.                                   *)
(***************************************************************************)
EXTENDS Integers, Sequences, FiniteSets

CONSTANTS
  NPending,   \* len(pending)
  NSlices,    \* len(slices)
  Cut,        \* slice w is pending[Cut[w] .. Cut[w+1] - 1]; the slices
              \* partition pending, and some may be empty
  MayFail,    \* chunks whose computation may raise inside a worker
  MayViolate  \* chunks that may fail the Hermiticity check

Chunks  == 1 .. NPending
Workers == 1 .. NSlices

ASSUME DrainAssumption ==
  /\ NPending \in Nat \ {0}
  /\ NSlices \in Nat \ {0}
  /\ Cut \in [1 .. NSlices + 1 -> 1 .. NPending + 1]
  /\ \A v, w \in 1 .. NSlices + 1 : v <= w => Cut[v] <= Cut[w]
  /\ \A c \in Chunks : \E w \in Workers : Cut[w] <= c /\ c < Cut[w + 1]
  /\ MayFail \subseteq Chunks
  /\ MayViolate \subseteq Chunks

VARIABLES
  front, back,  \* worker -> bounds of its deque
  pc,           \* worker -> where _run_slice stands
  item,         \* worker -> the chunk it holds, 0 if none
  cursor,       \* worker -> next deque whose length the steal scan reads
  lengths,      \* worker -> the lengths its scan has read
  untried,      \* worker -> the victims its steal has not tried yet
  results,      \* everything put on results_q, in order
  got,          \* how many of those the consumer has taken
  consumer,     \* where the generator stands
  submitted,    \* how many slices were handed to the pool
  doneSlices,   \* done_slices
  completed,    \* completed_indices: chunks appended to the checkpoint
  delivered,    \* the chunks yielded to the caller, in order
  outcome       \* how the generator ended

workerVars   == <<front, back, pc, item, cursor, lengths, untried>>
consumerVars == <<got, consumer, submitted, doneSlices, completed,
                  delivered, outcome>>
vars == <<workerVars, results, consumerVars>>

-----------------------------------------------------------------------------
\* What travels on results_q.  The sentinel of the code is one anonymous
\* object; "of" records its sender for the properties only, no action reads it.
Result(c)   == [kind |-> "chunk", of |-> c]
Sentinel(w) == [kind |-> "slice_done", of |-> w]
Messages    == [kind : {"chunk"}, of : Chunks] \cup
               [kind : {"slice_done"}, of : Workers]

Deque(w)  == front[w] .. (back[w] - 1)
Others(w) == Workers \ {w}

Zeros == [w \in Workers |-> 0]

Init ==
  /\ front = [w \in Workers |-> Cut[w]]
  /\ back = [w \in Workers |-> Cut[w + 1]]
  /\ pc = [w \in Workers |-> "take"]
  /\ item = Zeros
  /\ cursor = [w \in Workers |-> 1]
  /\ lengths = [w \in Workers |-> Zeros]
  /\ untried = [w \in Workers |-> {}]
  /\ results = <<>>
  /\ got = 0
  /\ consumer = "submit"
  /\ submitted = 0
  /\ doneSlices = 0
  /\ completed = {}
  /\ delivered = <<>>
  /\ outcome = "running"

-----------------------------------------------------------------------------
(* A worker: _run_slice and _steal.                                        *)

\* my_slice.popleft()
PopOwn(w) ==
  /\ pc[w] = "take" /\ w <= submitted
  /\ front[w] < back[w]
  /\ item' = [item EXCEPT ![w] = front[w]]
  /\ front' = [front EXCEPT ![w] = @ + 1]
  /\ pc' = [pc EXCEPT ![w] = "compute"]
  /\ UNCHANGED <<back, cursor, lengths, untried, results, consumerVars>>

\* popleft() raised IndexError: enter _steal.
OwnEmpty(w) ==
  /\ pc[w] = "take" /\ w <= submitted
  /\ front[w] >= back[w]
  /\ pc' = [pc EXCEPT ![w] = "scan"]
  /\ UNCHANGED <<front, back, item, cursor, lengths, untried, results,
                 consumerVars>>

\* The sort key of one other deque; the scan reads them in index order.
ReadLength(w) ==
  /\ pc[w] = "scan" /\ cursor[w] <= NSlices
  /\ lengths' = [lengths EXCEPT ![w][cursor[w]] =
                   IF cursor[w] = w THEN 0
                   ELSE back[cursor[w]] - front[cursor[w]]]
  /\ cursor' = [cursor EXCEPT ![w] = @ + 1]
  /\ UNCHANGED <<front, back, pc, item, untried, results, consumerVars>>

\* Fault: only the fullest victim is tried, a lost race ends the worker.
OnlyFullestVictim(w) ==
  /\ pc[w] = "scan" /\ cursor[w] > NSlices
  /\ \E v \in Others(w) :
       /\ \A j \in Others(w) : lengths[w][j] <= lengths[w][v]
       /\ untried' = [untried EXCEPT ![w] = {v}]
  /\ pc' = [pc EXCEPT ![w] = "probe"]
  /\ UNCHANGED <<front, back, item, cursor, lengths, results, consumerVars>>

\* All keys read: the victims, fullest first, are fixed.
ScanDone(w) ==
  /\ pc[w] = "scan" /\ cursor[w] > NSlices
  /\ untried' = [untried EXCEPT ![w] = Others(w)]
  /\ pc' = [pc EXCEPT ![w] = "probe"]
  /\ UNCHANGED <<front, back, item, cursor, lengths, results, consumerVars>>

\* Does sorted(), stable and keyed on -len, put victim j before victim k?
Before(w, j, k) ==
  \/ lengths[w][j] > lengths[w][k]
  \/ lengths[w][j] = lengths[w][k] /\ j <= k

NextVictim(w, v) == /\ v \in untried[w]
                    /\ \A k \in untried[w] : Before(w, v, k)

\* Fault: the victim's last item is read but not removed.
PeekVictim(w, v) ==
  /\ pc[w] = "probe" /\ NextVictim(w, v)
  /\ front[v] < back[v]
  /\ item' = [item EXCEPT ![w] = back[v] - 1]
  /\ pc' = [pc EXCEPT ![w] = "compute"]
  /\ cursor' = [cursor EXCEPT ![w] = 1]
  /\ lengths' = [lengths EXCEPT ![w] = Zeros]
  /\ untried' = [untried EXCEPT ![w] = {}]
  /\ UNCHANGED <<front, back, results, consumerVars>>

\* Fault: the thief clears the deque it took one item from.
ClearVictim(w, v) ==
  /\ pc[w] = "probe" /\ NextVictim(w, v)
  /\ front[v] < back[v]
  /\ item' = [item EXCEPT ![w] = back[v] - 1]
  /\ back' = [back EXCEPT ![v] = front[v]]
  /\ pc' = [pc EXCEPT ![w] = "compute"]
  /\ cursor' = [cursor EXCEPT ![w] = 1]
  /\ lengths' = [lengths EXCEPT ![w] = Zeros]
  /\ untried' = [untried EXCEPT ![w] = {}]
  /\ UNCHANGED <<front, results, consumerVars>>

\* slices[victim].pop() succeeds.
Steal(w, v) ==
  /\ pc[w] = "probe" /\ NextVictim(w, v)
  /\ front[v] < back[v]
  /\ item' = [item EXCEPT ![w] = back[v] - 1]
  /\ back' = [back EXCEPT ![v] = @ - 1]
  /\ pc' = [pc EXCEPT ![w] = "compute"]
  /\ cursor' = [cursor EXCEPT ![w] = 1]
  /\ lengths' = [lengths EXCEPT ![w] = Zeros]
  /\ untried' = [untried EXCEPT ![w] = {}]
  /\ UNCHANGED <<front, results, consumerVars>>

\* slices[victim].pop() raised IndexError: try the next victim.
LostRace(w, v) ==
  /\ pc[w] = "probe" /\ NextVictim(w, v)
  /\ front[v] >= back[v]
  /\ untried' = [untried EXCEPT ![w] = @ \ {v}]
  /\ UNCHANGED <<front, back, pc, item, cursor, lengths, results,
                 consumerVars>>

\* Fault: the sentinel is not put when the worker leaves its loop.
GiveUpSilently(w) ==
  /\ pc[w] = "probe" /\ untried[w] = {}
  /\ pc' = [pc EXCEPT ![w] = "returned"]
  /\ UNCHANGED <<front, back, item, cursor, lengths, untried, results,
                 consumerVars>>

\* _steal returned None: leave the loop and put the sentinel.
GiveUp(w) ==
  /\ pc[w] = "probe" /\ untried[w] = {}
  /\ results' = Append(results, Sentinel(w))
  /\ pc' = [pc EXCEPT ![w] = "returned"]
  /\ UNCHANGED <<front, back, item, cursor, lengths, untried, consumerVars>>

\* results_q.put(_parallel_worker_chunk(...))
Compute(w) ==
  /\ pc[w] = "compute"
  /\ results' = Append(results, Result(item[w]))
  /\ item' = [item EXCEPT ![w] = 0]
  /\ pc' = [pc EXCEPT ![w] = "take"]
  /\ UNCHANGED <<front, back, cursor, lengths, untried, consumerVars>>

\* _parallel_worker_chunk raised: the exception ends _run_slice and is kept
\* in its future.  Nothing is put on the queue.
Raise(w) ==
  /\ pc[w] = "compute" /\ item[w] \in MayFail
  /\ pc' = [pc EXCEPT ![w] = "raised"]
  /\ UNCHANGED <<front, back, item, cursor, lengths, untried, results,
                 consumerVars>>

Worker(w) ==
  \/ PopOwn(w) \/ OwnEmpty(w)
  \/ ReadLength(w) \/ ScanDone(w)
  \/ \E v \in Workers : Steal(w, v) \/ LostRace(w, v)
  \/ GiveUp(w)
  \/ Compute(w) \/ Raise(w)

-----------------------------------------------------------------------------
(* The consumer: the generator's own frame, advanced by its caller.        *)

Stopped(w) == pc[w] \in {"returned", "raised"}

\* pool.submit(_run_slice, i, s); earlier slices already run meanwhile.
Submit ==
  /\ consumer = "submit"
  /\ submitted' = submitted + 1
  /\ consumer' = IF submitted' = NSlices THEN "drain" ELSE "submit"
  /\ UNCHANGED <<workerVars, results, got, doneSlices, completed, delivered,
                 outcome>>

\* The generator's loop is running, or suspended at a yield that the caller's
\* next() resumes.  Between a get() and the next yield it touches no shared
\* state, so that stretch is one step.
Draining == consumer \in {"drain", "yielded"}

Available(kind) == /\ Draining /\ doneSlices < NSlices
                   /\ got < Len(results)
                   /\ results[got + 1].kind = kind

\* results_q.get() returned the sentinel of one slice.
GetSentinel ==
  /\ Available("slice_done")
  /\ got' = got + 1
  /\ doneSlices' = doneSlices + 1
  /\ consumer' = "drain"
  /\ UNCHANGED <<workerVars, results, submitted, completed, delivered,
                 outcome>>

\* results_q.get() returned a chunk: append its frame and marker to the
\* checkpoint, find no Hermiticity violation, yield it.
GetChunk ==
  /\ Available("chunk")
  /\ got' = got + 1
  /\ completed' = completed \cup {results[got + 1].of}
  /\ delivered' = Append(delivered, results[got + 1].of)
  /\ consumer' = "yielded"
  /\ UNCHANGED <<workerVars, results, submitted, doneSlices, outcome>>

\* Fault: the exception of the check is swallowed.
SwallowedViolation ==
  /\ Available("chunk") /\ results[got + 1].of \in MayViolate
  /\ got' = got + 1
  /\ completed' = completed \cup {results[got + 1].of}
  /\ consumer' = "leaving"
  /\ outcome' = "complete"
  /\ UNCHANGED <<workerVars, results, submitted, doneSlices, delivered>>

\* The chunk is appended to the checkpoint, and then
\* _check_hermitian_violation raises.
GetViolation ==
  /\ Available("chunk") /\ results[got + 1].of \in MayViolate
  /\ got' = got + 1
  /\ completed' = completed \cup {results[got + 1].of}
  /\ consumer' = "leaving"
  /\ outcome' = "raised"
  /\ UNCHANGED <<workerVars, results, submitted, doneSlices, delivered>>

\* The caller closes or drops the generator at the yield.
Close ==
  /\ consumer = "yielded"
  /\ consumer' = "leaving"
  /\ outcome' = "closed"
  /\ UNCHANGED <<workerVars, results, got, submitted, doneSlices, completed,
                 delivered>>

\* Fault: the consumer leaves one sentinel early.
LoopExitEarly == doneSlices + 1 >= NSlices

\* The condition that ends while done_slices < len(slices).
LoopExit == doneSlices = NSlices

\* Every future's result() has been collected.
Join ==
  /\ Draining /\ LoopExit
  /\ \A w \in Workers : Stopped(w)
  /\ consumer' = "leaving"
  /\ outcome' = IF \E w \in Workers : pc[w] = "raised"
                THEN "raised" ELSE "complete"
  /\ UNCHANGED <<workerVars, results, got, submitted, doneSlices, completed,
                 delivered>>

\* Fault: shutdown(wait=False).
LeaveWithoutWaiting ==
  /\ consumer = "leaving"
  /\ consumer' = "ended"
  /\ UNCHANGED <<workerVars, results, got, submitted, doneSlices, completed,
                 delivered, outcome>>

\* The with block's shutdown(wait=True): every thread has stopped.
Leave ==
  /\ consumer = "leaving"
  /\ \A w \in Workers : Stopped(w)
  /\ consumer' = "ended"
  /\ UNCHANGED <<workerVars, results, got, submitted, doneSlices, completed,
                 delivered, outcome>>

\* Everything the consumer does while its caller keeps iterating.
Drain == \/ Submit
         \/ GetSentinel \/ GetChunk \/ GetViolation
         \/ Join \/ Leave

-----------------------------------------------------------------------------
Next == \/ \E w \in Workers : Worker(w)
        \/ Drain
        \/ Close

\* Every thread keeps being scheduled, and the caller keeps iterating (or
\* closes the generator); nothing obliges it to close.
Fairness == /\ \A w \in Workers : WF_vars(Worker(w))
            /\ WF_vars(Drain)

Spec     == Init /\ [][Next]_vars
FairSpec == Spec /\ Fairness

-----------------------------------------------------------------------------
(* Properties.                                                             *)

WorkerStates   == {"take", "scan", "probe", "compute", "returned", "raised"}
ConsumerStates == {"submit", "drain", "yielded", "leaving", "ended"}

TypeOK ==
  /\ front \in [Workers -> 1 .. NPending + 1]
  /\ back \in [Workers -> 1 .. NPending + 1]
  /\ pc \in [Workers -> WorkerStates]
  /\ item \in [Workers -> 0 .. NPending]
  /\ cursor \in [Workers -> 1 .. NSlices + 1]
  /\ lengths \in [Workers -> [Workers -> 0 .. NPending]]
  /\ untried \in [Workers -> SUBSET Workers]
  /\ results \in Seq(Messages)
  /\ got \in 0 .. Len(results)
  /\ consumer \in ConsumerStates
  /\ submitted \in 0 .. NSlices
  /\ doneSlices \in 0 .. NSlices
  /\ completed \subseteq Chunks
  /\ delivered \in Seq(Chunks)
  /\ outcome \in {"running", "complete", "raised", "closed"}

\* The places a chunk can be.
InDeque(c, w) == front[w] <= c /\ c < back[w]
Held(c, w)    == item[w] = c
PutAt(c, i)   == i \in 1 .. Len(results) /\ results[i] = Result(c)

\* No chunk is ever lost between popleft(), pop() and put(): it is in a
\* deque, in a worker's hands (for good, if that worker raised), or on the
\* results queue.
NothingLost ==
  \A c \in Chunks : \/ \E w \in Workers : InDeque(c, w) \/ Held(c, w)
                    \/ \E i \in 1 .. Len(results) : PutAt(c, i)

\* No interleaving of popleft() by the owner and pop() by thieves, and no
\* stale length read, hands one chunk to two workers or computes it twice.
NothingTwice ==
  \A c \in Chunks :
    /\ \A w \in Workers : Held(c, w) =>
         \A v \in Workers : ~InDeque(c, v) /\ (Held(c, v) => v = w)
    /\ \A i \in 1 .. Len(results) : PutAt(c, i) =>
         /\ \A v \in Workers : ~InDeque(c, v) /\ ~Held(c, v)
         /\ \A j \in 1 .. Len(results) : PutAt(c, j) => j = i

\* "None if every other deque is confirmed empty": the probes of one steal
\* are spread over time, and still a worker leaves only when no deque holds
\* a chunk any more.
ExitOnlyWhenDry ==
  \A w \in Workers : pc[w] = "returned" =>
    \A v \in Workers : front[v] >= back[v]

\* The sentinels count what they are meant to count: when the consumer has
\* taken one per slice no result is left behind on the queue, and every
\* chunk was yielded.
CompleteMeansAll ==
  outcome = "complete" =>
    /\ got = Len(results)
    /\ \A c \in Chunks : \E i \in 1 .. Len(delivered) : delivered[i] = c

\* An early exit (close or a failed check) of the generator does not stop
\* the workers: control returns to the caller only after every chunk that
\* no exception lost has been computed.
EarlyExitStillComputesAll ==
  consumer = "ended" /\ (\A w \in Workers : pc[w] # "raised") =>
    \A c \in Chunks : \E i \in 1 .. Len(results) : PutAt(c, i)

\* The drain implements the delivery contract.
Delivery == INSTANCE ChunkDelivery WITH Chunks <- Chunks,
                                       delivered <- delivered,
                                       outcome <- outcome
DeliverySpec == Delivery!Spec

\* If no worker raises, the generator ends: every thread terminates, and the
\* blocking get() is always answered.
EndsUnlessWorkerRaises ==
  <>(consumer = "ended" \/ \E w \in Workers : pc[w] = "raised")

\* "Propagate any exception raised inside a worker's slice ... same contract
\* as the dynamic path's future.result() call": the generator ends even when
\* a worker's chunk raises.
AlwaysEnds == <>(consumer = "ended")

\* "Same streamed/memory-bounded yield contract": the computed results that
\* wait for the caller stay within the max_in_flight of the call.
MaxInFlight == 2 * NSlices
StreamBounded == Len(results) - got <= MaxInFlight
=============================================================================
