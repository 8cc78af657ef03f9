----------------------------- MODULE ProcessDrain -----------------------------
(***************************************************************************)
(* The drain of the process pool: parallel_decompose, and                  *)
(* parallel_decompose_arrays with executor="process".  The generator keeps *)
(* a bounded number of chunks in flight, waits for any of them, and takes  *)
(* each completed one in turn: submit the next pending chunk, append the   *)
(* completed one to the checkpoint, check it, yield it.                    *)
(*                                                                         *)
(* The executor is external: it starts submitted chunks in order, each on  *)
(* a worker process that has run the initializer, and a worker process     *)
(* that dies breaks the whole pool.                                        *)
(***************************************************************************)
EXTENDS Integers, Sequences, FiniteSets

CONSTANTS
  NPending,   \* len(pending)
  NWorkers,   \* n_workers
  MayFail,    \* chunks whose computation may raise in the worker
  MayViolate, \* chunks that may fail the Hermiticity check
  MayBreak    \* may a worker process die?

Chunks  == 1 .. NPending
Workers == 1 .. NWorkers

ASSUME PoolAssumption ==
  /\ NPending \in Nat \ {0}
  /\ NWorkers \in Nat \ {0}
  /\ MayFail \subseteq Chunks
  /\ MayViolate \subseteq Chunks
  /\ MayBreak \in BOOLEAN

VARIABLES
  \* The pool.
  future,     \* chunk -> the state of its future
  worker,     \* worker -> where its process stands
  runs,       \* worker -> the chunk it computes
  counter,    \* next_pin_index.value
  index,      \* worker -> the index it read from the counter
  broken,     \* has a worker process died?
  \* The generator.
  taken,      \* how many chunks pending_iter has given out
  inFlight,   \* in_flight
  done,       \* the futures the last wait() returned as completed
  handled,    \* those of them the for loop has come to
  consumer,   \* where it stands
  completed,  \* completed_indices
  delivered,  \* the chunks yielded to the caller, in order
  outcome     \* how the generator ended

poolVars   == <<future, worker, runs, counter, index, broken>>
windowVars == <<taken, inFlight, done, handled>>
callerVars == <<consumer, completed, delivered, outcome>>
vars == <<poolVars, windowVars, callerVars>>

MaxInFlight == 2 * NWorkers

Init ==
  /\ future = [c \in Chunks |-> "none"]
  /\ worker = [w \in Workers |-> "absent"]
  /\ runs = [w \in Workers |-> 0]
  /\ counter = 0
  /\ index = [w \in Workers |-> -1]
  /\ broken = FALSE
  /\ taken = 0
  /\ inFlight = {} /\ done = {} /\ handled = {}
  /\ consumer = "prime"
  /\ completed = {}
  /\ delivered = <<>>
  /\ outcome = "running"

-----------------------------------------------------------------------------
(* The worker processes.                                                   *)

\* Fault: the counter is read without its lock.
ReadIndexUnlocked(w) ==
  /\ worker[w] = "absent" /\ taken > 0 /\ ~broken
  /\ index' = [index EXCEPT ![w] = counter]
  /\ worker' = [worker EXCEPT ![w] = "claiming"]
  /\ UNCHANGED <<future, runs, counter, broken, windowVars, callerVars>>

\* The pool spawns a worker; its initializer takes the counter's lock and
\* reads it.
ReadIndex(w) ==
  /\ worker[w] = "absent" /\ taken > 0 /\ ~broken
  /\ \A v \in Workers : worker[v] # "claiming"
  /\ index' = [index EXCEPT ![w] = counter]
  /\ worker' = [worker EXCEPT ![w] = "claiming"]
  /\ UNCHANGED <<future, runs, counter, broken, windowVars, callerVars>>

\* next_pin_index.value += 1, and the lock is released.
ClaimIndex(w) ==
  /\ worker[w] = "claiming" /\ ~broken
  /\ counter' = index[w] + 1
  /\ worker' = [worker EXCEPT ![w] = "idle"]
  /\ UNCHANGED <<future, runs, index, broken, windowVars, callerVars>>

\* An idle worker takes the chunk that was submitted first.
Take(w, c) ==
  /\ worker[w] = "idle" /\ ~broken
  /\ future[c] = "queued" /\ \A d \in Chunks : future[d] = "queued" => c <= d
  /\ future' = [future EXCEPT ![c] = "running"]
  /\ worker' = [worker EXCEPT ![w] = "busy"]
  /\ runs' = [runs EXCEPT ![w] = c]
  /\ UNCHANGED <<counter, index, broken, windowVars, callerVars>>

\* _parallel_worker_chunk returned or raised; the future is set.
Settle(w, state) ==
  /\ worker[w] = "busy" /\ ~broken
  /\ future' = [future EXCEPT ![runs[w]] = state]
  /\ worker' = [worker EXCEPT ![w] = "idle"]
  /\ runs' = [runs EXCEPT ![w] = 0]
  /\ UNCHANGED <<counter, index, broken, windowVars, callerVars>>

Compute(w) == Settle(w, "finished")
Raise(w)   == runs[w] \in MayFail /\ Settle(w, "failed")

Unsettled(c) == future[c] \in {"queued", "running"}

\* A worker process is killed: every future that is not done fails with
\* BrokenProcessPool.
Break ==
  /\ MayBreak /\ ~broken
  /\ \E w \in Workers : worker[w] # "absent"
  /\ broken' = TRUE
  /\ future' = [c \in Chunks |-> IF Unsettled(c) THEN "failed" ELSE future[c]]
  /\ UNCHANGED <<worker, runs, counter, index, windowVars, callerVars>>

Worker(w) == \/ ReadIndex(w) \/ ClaimIndex(w)
             \/ \E c \in Chunks : Take(w, c)
             \/ Compute(w) \/ Raise(w)

-----------------------------------------------------------------------------
(* The generator.                                                          *)

\* _submit_next: nothing when pending_iter is exhausted.
SubmitNext ==
  IF taken < NPending
  THEN /\ taken' = taken + 1
       /\ inFlight' = inFlight \cup {taken + 1}
       /\ future' = [future EXCEPT ![taken + 1] = "queued"]
  ELSE UNCHANGED <<taken, inFlight, future>>

\* pool.submit raises on a broken pool.
SubmitRaises == broken /\ taken < NPending

Leaving(how) == /\ consumer' = "leaving"
                /\ outcome' = how

\* Fault: every pending chunk is submitted up front.
MorePrimingUnbounded == taken < NPending

MorePriming == taken < NPending /\ taken < MaxInFlight

\* The first max_in_flight submissions.
Prime ==
  /\ consumer = "prime" /\ MorePriming /\ ~SubmitRaises
  /\ SubmitNext
  /\ UNCHANGED <<worker, runs, counter, index, broken, done, handled,
                 callerVars>>

Primed ==
  /\ consumer = "prime" /\ ~MorePriming
  /\ consumer' = "wait"
  /\ UNCHANGED <<poolVars, windowVars, completed, delivered, outcome>>

PrimeRaises ==
  /\ consumer = "prime" /\ MorePriming /\ SubmitRaises
  /\ Leaving("raised")
  /\ UNCHANGED <<poolVars, windowVars, completed, delivered>>

\* Fault: a chunk that raised does not count as done.
OnlyFinished(c) == future[c] = "finished"

Settled(c) == future[c] \in {"finished", "failed"}

\* Fault: the chunks that are not done yet are dropped.
WaitDropsTheRest ==
  /\ consumer = "wait" /\ \E c \in inFlight : Settled(c)
  /\ done' = {c \in inFlight : Settled(c)}
  /\ inFlight' = {}
  /\ handled' = {}
  /\ consumer' = "loop"
  /\ UNCHANGED <<poolVars, taken, completed, delivered, outcome>>

\* wait(in_flight, return_when=FIRST_COMPLETED)
Wait ==
  /\ consumer = "wait" /\ \E c \in inFlight : Settled(c)
  /\ done' = {c \in inFlight : Settled(c)}
  /\ inFlight' = inFlight \ done'
  /\ handled' = {}
  /\ consumer' = "loop"
  /\ UNCHANGED <<poolVars, taken, completed, delivered, outcome>>

\* The loop over done, or its continuation by the caller's next(): the
\* futures come in the set's own order.
Looping(c) == /\ consumer \in {"loop", "yielded"}
              /\ c \in done \ handled

\* future.result() raises.
ResultRaises(c) ==
  /\ Looping(c) /\ future[c] = "failed"
  /\ handled' = handled \cup {c}
  /\ Leaving("raised")
  /\ UNCHANGED <<poolVars, taken, inFlight, done, completed, delivered>>

\* The result is there, and _submit_next raises.
ResubmitRaises(c) ==
  /\ Looping(c) /\ future[c] = "finished" /\ SubmitRaises
  /\ handled' = handled \cup {c}
  /\ Leaving("raised")
  /\ UNCHANGED <<poolVars, taken, inFlight, done, completed, delivered>>

\* Fault: the next chunk is not submitted.
DeliverOnly(c) ==
  /\ Looping(c) /\ future[c] = "finished" /\ ~SubmitRaises
  /\ handled' = handled \cup {c}
  /\ completed' = completed \cup {c}
  /\ delivered' = Append(delivered, c)
  /\ consumer' = "yielded"
  /\ UNCHANGED <<poolVars, taken, inFlight, done, outcome>>

\* Submit the next chunk, append this one to the checkpoint, yield it.
Deliver(c) ==
  /\ Looping(c) /\ future[c] = "finished" /\ ~SubmitRaises
  /\ SubmitNext
  /\ handled' = handled \cup {c}
  /\ completed' = completed \cup {c}
  /\ delivered' = Append(delivered, c)
  /\ consumer' = "yielded"
  /\ UNCHANGED <<worker, runs, counter, index, broken, done, outcome>>

\* The same, but _check_hermitian_violation raises.
Violation(c) ==
  /\ Looping(c) /\ future[c] = "finished" /\ ~SubmitRaises
  /\ c \in MayViolate
  /\ SubmitNext
  /\ handled' = handled \cup {c}
  /\ completed' = completed \cup {c}
  /\ Leaving("raised")
  /\ UNCHANGED <<worker, runs, counter, index, broken, done, delivered>>

LoopEnds ==
  /\ consumer \in {"loop", "yielded"} /\ done \subseteq handled
  /\ consumer' = "wait"
  /\ UNCHANGED <<poolVars, windowVars, completed, delivered, outcome>>

\* while in_flight ends.
Exhausted ==
  /\ consumer = "wait" /\ inFlight = {}
  /\ Leaving("complete")
  /\ UNCHANGED <<poolVars, windowVars, completed, delivered>>

\* The caller closes or drops the generator at the yield.
Close ==
  /\ consumer = "yielded"
  /\ Leaving("closed")
  /\ UNCHANGED <<poolVars, windowVars, completed, delivered>>

\* Fault: the pool is left without waiting for what was submitted.
LeaveAtOnce ==
  /\ consumer = "leaving"
  /\ consumer' = "ended"
  /\ UNCHANGED <<poolVars, windowVars, completed, delivered, outcome>>

\* shutdown(wait=True): what was submitted is computed, nothing is cancelled.
Leave ==
  /\ consumer = "leaving"
  /\ \A c \in Chunks : ~Unsettled(c)
  /\ consumer' = "ended"
  /\ UNCHANGED <<poolVars, windowVars, completed, delivered, outcome>>

Drain == \/ Prime \/ Primed \/ PrimeRaises
         \/ Wait \/ LoopEnds \/ Exhausted
         \/ \E c \in Chunks : \/ ResultRaises(c) \/ ResubmitRaises(c)
                              \/ Deliver(c) \/ Violation(c)
         \/ Leave

-----------------------------------------------------------------------------
Next == \/ \E w \in Workers : Worker(w)
        \/ Break
        \/ Drain
        \/ Close

\* The operating system keeps scheduling every worker process, and the caller
\* keeps iterating or closes the generator.
Fairness == /\ \A w \in Workers : WF_vars(Worker(w))
            /\ WF_vars(Drain)

Spec     == Init /\ [][Next]_vars
FairSpec == Spec /\ Fairness

-----------------------------------------------------------------------------
(* Properties.                                                             *)

TypeOK ==
  /\ future \in [Chunks -> {"none", "queued", "running", "finished", "failed"}]
  /\ worker \in [Workers -> {"absent", "claiming", "idle", "busy"}]
  /\ runs \in [Workers -> 0 .. NPending]
  /\ counter \in Nat
  /\ index \in [Workers -> Int]
  /\ broken \in BOOLEAN
  /\ taken \in 0 .. NPending
  /\ inFlight \subseteq Chunks /\ done \subseteq Chunks
  /\ handled \subseteq done
  /\ consumer \in {"prime", "wait", "loop", "yielded", "leaving", "ended"}
  /\ completed \subseteq Chunks
  /\ delivered \in Seq(Chunks)
  /\ outcome \in {"running", "complete", "raised", "closed"}

Outstanding == inFlight \cup (done \ handled)

\* "Bounds the backlog to O(n_workers)": however fast the workers are, at
\* most max_in_flight chunks are submitted and not yet handed on, and counting
\* the handled futures that the set done still refers to, at most twice as
\* many results are held.
BacklogBounded ==
  /\ Cardinality(Outstanding) <= MaxInFlight
  /\ Cardinality(inFlight \cup done) <= 2 * MaxInFlight

\* "Keep in_flight near max_in_flight": the generator never waits with a
\* worker's share of the window empty while chunks are pending.
WindowFull ==
  consumer = "wait" /\ taken < NPending => Cardinality(inFlight) = MaxInFlight

\* The initializer gives every worker process a pin index of its own.
DistinctPins ==
  \A v, w \in Workers :
    v # w /\ worker[v] \in {"idle", "busy"} /\ worker[w] \in {"idle", "busy"}
      => index[v] # index[w]

\* What an early end costs, unlike in the threaded drain: apart from what
\* the caller was given, no more than max_in_flight chunks are ever started.
EarlyEndIsBounded ==
  outcome \in {"raised", "closed"} => taken <= Len(delivered) + MaxInFlight + 1

\* Once the caller has control back, no worker computes for this call.
NothingRunsAfterEnd ==
  consumer = "ended" /\ ~broken => \A w \in Workers : worker[w] # "busy"

\* The drain implements the delivery contract.
Delivery == INSTANCE ChunkDelivery WITH Chunks <- Chunks,
                                       delivered <- delivered,
                                       outcome <- outcome
DeliverySpec == Delivery!Spec

\* The generator ends whatever happens in the workers: a chunk that raises
\* and a process that dies both reach future.result().
AlwaysEnds == <>(consumer = "ended")
=============================================================================
