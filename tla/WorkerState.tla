----------------------------- MODULE WorkerState -----------------------------
(***************************************************************************)
(* The module-level _parallel_worker_state of fwht.py, through which a     *)
(* threaded call of parallel_decompose_arrays hands its operator to        *)
(* _parallel_worker_chunk: the call saves what is there, puts its own      *)
(* state in, starts its threads (with eager_threads behind a barrier of    *)
(* n_workers parties, whose waits end after 30 s), drains them, waits for  *)
(* them, and restores what it saved.  Every chunk reads the global anew.   *)
(*                                                                         *)
(* The calls share one process.  It may be a worker process, whose own     *)
(* state is then in place before the first call.  How chunks travel is     *)
(* ThreadDrain's subject; here a call has a number of chunks left.         *)
(***************************************************************************)
EXTENDS Integers

CONSTANTS
  Calls,        \* the calls made in this process
  NThreads,     \* n_workers of each call
  NChunks,      \* chunks of each call
  MayRaise,     \* the calls with a chunk that may raise in its worker
  MayOverlap,   \* may a call begin while another is suspended or running?
  None,         \* the initial value of the global in an ordinary process
  Outer         \* the state of a worker process

Threads == 1 .. NThreads

ASSUME CallsAssumption ==
  /\ NThreads \in Nat \ {0}
  /\ NChunks \in Nat \ {0}
  /\ MayRaise \subseteq Calls
  /\ MayOverlap \in BOOLEAN
  /\ None \notin Calls /\ Outer \notin Calls /\ None # Outer

States == Calls \cup {None, Outer}

VARIABLES
  global,   \* _parallel_worker_state
  initial,  \* its value before the first call; never changes
  eager,    \* call -> eager_threads; never changes
  stage,    \* call -> where its generator stands
  saved,    \* call -> saved_state
  primers,  \* call -> primers no thread has taken yet
  thread,   \* call -> thread -> where it stands
  read,     \* call -> thread -> the state its current chunk reads
  left,     \* call -> chunks no thread has taken yet
  used      \* call -> the states its chunks were computed with

fixed == <<initial, eager>>
vars  == <<global, fixed, stage, saved, primers, thread, read, left, used>>

Init ==
  /\ initial \in {None, Outer}
  /\ global = initial
  /\ eager \in [Calls -> BOOLEAN]
  /\ stage = [c \in Calls |-> "new"]
  /\ saved = [c \in Calls |-> None]
  /\ primers = [c \in Calls |-> NThreads]
  /\ thread = [c \in Calls |-> [t \in Threads |-> "absent"]]
  /\ read = [c \in Calls |-> [t \in Threads |-> None]]
  /\ left = [c \in Calls |-> NChunks]
  /\ used = [c \in Calls |-> {}]

Alive(c) == stage[c] \notin {"new", "ended"}

MoveTo(c, where) == stage' = [stage EXCEPT ![c] = where]

Stopped(c, t) == thread[c][t] \in {"stopped", "failed"}

-----------------------------------------------------------------------------
(* The call's own steps.                                                   *)

\* saved_state = _parallel_worker_state
Save(c) ==
  /\ stage[c] = "new"
  /\ MayOverlap \/ \A d \in Calls : ~Alive(d)
  /\ saved' = [saved EXCEPT ![c] = global]
  /\ MoveTo(c, "saved")
  /\ UNCHANGED <<global, fixed, primers, thread, read, left, used>>

\* _parallel_worker_init(...)
Set(c) ==
  /\ stage[c] = "saved"
  /\ global' = c
  /\ MoveTo(c, IF eager[c] THEN "priming" ELSE "draining")
  /\ UNCHANGED <<fixed, saved, primers, thread, read, left, used>>

\* Every primer was taken and has returned.
AllPrimed(c) ==
  primers[c] = 0 /\ \A t \in Threads : thread[c][t] \in {"absent", "primed"}

\* Every result() of the primers has returned: the slices are submitted.
Release(c) ==
  /\ stage[c] = "priming" /\ AllPrimed(c)
  /\ thread' = [thread EXCEPT ![c] = [t \in Threads |->
                  IF @[t] = "primed" THEN "ready" ELSE @[t]]]
  /\ MoveTo(c, "draining")
  /\ UNCHANGED <<global, fixed, saved, primers, read, left, used>>

\* A result() waited for 30 s (TimeoutError), or its primer met a broken
\* barrier: the with block is left, and no slice was submitted.
PrimingFails(c) ==
  /\ stage[c] = "priming" /\ ~AllPrimed(c)
  /\ MoveTo(c, "broken")
  /\ UNCHANGED <<global, fixed, saved, primers, thread, read, left, used>>

\* submit() raises, as the system refuses a thread: the with block is left.
\* What was submitted before runs on.
StartRefused(c) ==
  /\ stage[c] \in {"priming", "draining"}
  /\ \E t \in Threads : thread[c][t] = "absent"
  /\ thread' = [thread EXCEPT ![c] = [t \in Threads |->
                  IF @[t] = "absent" THEN "stopped" ELSE @[t]]]
  /\ MoveTo(c, IF stage[c] = "priming" THEN "broken" ELSE "leaving")
  /\ UNCHANGED <<global, fixed, saved, primers, read, left, used>>

\* Every slice's sentinel was taken: the loop over the results ends.
DrainEnds(c) ==
  /\ stage[c] = "draining"
  /\ \A t \in Threads : thread[c][t] = "stopped"
  /\ MoveTo(c, "leaving")
  /\ UNCHANGED <<global, fixed, saved, primers, thread, read, left, used>>

\* At a yield the caller closes the generator, or a chunk that was received
\* fails the Hermiticity check.
LeaveEarly(c) ==
  /\ stage[c] = "draining" /\ used[c] # {}
  /\ MoveTo(c, "leaving")
  /\ UNCHANGED <<global, fixed, saved, primers, thread, read, left, used>>

\* Fault: the state is restored inside the with block.
JoinAtOnce(c) ==
  /\ stage[c] \in {"leaving", "broken"}
  /\ MoveTo(c, "joined")
  /\ UNCHANGED <<global, fixed, saved, primers, thread, read, left, used>>

\* The end of the with block: the pool has shut down.
Join(c) ==
  /\ stage[c] \in {"leaving", "broken"} /\ \A t \in Threads : Stopped(c, t)
  /\ MoveTo(c, "joined")
  /\ UNCHANGED <<global, fixed, saved, primers, thread, read, left, used>>

\* Fault: the state is cleared.
Clear(c) ==
  /\ stage[c] = "joined"
  /\ global' = None
  /\ MoveTo(c, "ended")
  /\ UNCHANGED <<fixed, saved, primers, thread, read, left, used>>

\* finally: _parallel_worker_state = saved_state
Restore(c) ==
  /\ stage[c] = "joined"
  /\ global' = saved[c]
  /\ MoveTo(c, "ended")
  /\ UNCHANGED <<fixed, saved, primers, thread, read, left, used>>

Call(c) == \/ Save(c) \/ Set(c) \/ Release(c) \/ PrimingFails(c)
           \/ DrainEnds(c) \/ Join(c) \/ Restore(c)

-----------------------------------------------------------------------------
(* The barrier, Barrier(n_workers), and wait(timeout=30.0).                *)

\* Fault: the primers do nothing, so the first thread may run them all.
AnyArrived(c) == \E t \in Threads : thread[c][t] = "waiting"

\* Every thread waits in _eager_prime.
AllArrived(c) == \A t \in Threads : thread[c][t] = "waiting"

\* The waiting threads go on.
LetGo(c, where) ==
  thread' = [thread EXCEPT ![c] = [t \in Threads |->
              IF @[t] = "waiting" THEN where ELSE @[t]]]

\* The last one has come: the primers return.
BarrierOpens(c) ==
  /\ AllArrived(c)
  /\ LetGo(c, "primed")
  /\ UNCHANGED <<global, fixed, stage, saved, primers, read, left, used>>

\* Fault: wait() has no timeout, result() alone has.
WaitForAll(c) == BarrierOpens(c)

\* Thirty seconds have passed, or the barrier is broken already: every
\* primer that waits raises BrokenBarrierError.
BarrierBreaks(c) ==
  /\ \E t \in Threads : thread[c][t] = "waiting"
  /\ LetGo(c, "stopped")
  /\ UNCHANGED <<global, fixed, stage, saved, primers, read, left, used>>

Barrier(c) == BarrierOpens(c) \/ BarrierBreaks(c)

-----------------------------------------------------------------------------
(* A thread of a call's pool.                                              *)

ThreadTo(c, t, where) == thread' = [thread EXCEPT ![c][t] = where]

\* The pool starts a thread for a primer or a slice; an idle one takes the
\* next primer as well.
Spawn(c, t) ==
  /\ \/ /\ stage[c] \in {"priming", "broken"} /\ primers[c] > 0
        /\ thread[c][t] \in {"absent", "primed"}
        /\ primers' = [primers EXCEPT ![c] = @ - 1]
        /\ ThreadTo(c, t, "waiting")
     \/ /\ stage[c] \in {"draining", "leaving"} /\ thread[c][t] = "absent"
        /\ ThreadTo(c, t, "ready")
        /\ UNCHANGED primers
  /\ UNCHANGED <<global, fixed, stage, saved, read, left, used>>

\* Take a chunk; state = _parallel_worker_state.
Begin(c, t) ==
  /\ thread[c][t] = "ready" /\ left[c] > 0
  /\ left' = [left EXCEPT ![c] = @ - 1]
  /\ read' = [read EXCEPT ![c][t] = global]
  /\ ThreadTo(c, t, "computing")
  /\ UNCHANGED <<global, fixed, stage, saved, primers, used>>

\* The chunk's triples go to the results queue; a state that is None fails
\* the assertion, and the thread with it.
End(c, t) ==
  /\ thread[c][t] = "computing"
  /\ used' = [used EXCEPT ![c] = @ \cup {read[c][t]}]
  /\ ThreadTo(c, t, IF read[c][t] = None THEN "failed" ELSE "ready")
  /\ UNCHANGED <<global, fixed, stage, saved, primers, read, left>>

\* The chunk raises, and its thread never puts a sentinel.
Raise(c, t) ==
  /\ thread[c][t] = "computing" /\ c \in MayRaise
  /\ ThreadTo(c, t, "failed")
  /\ UNCHANGED <<global, fixed, stage, saved, primers, read, left, used>>

\* No chunk is left to take; or the pool shuts down, and nothing was
\* submitted after the primers.
Stop(c, t) ==
  /\ \/ thread[c][t] = "ready" /\ left[c] = 0
     \/ thread[c][t] = "primed" /\ stage[c] = "broken"
  /\ ThreadTo(c, t, "stopped")
  /\ UNCHANGED <<global, fixed, stage, saved, primers, read, left, used>>

Thread(c, t) == \/ Spawn(c, t) \/ Begin(c, t) \/ End(c, t)
                \/ Raise(c, t) \/ Stop(c, t)

-----------------------------------------------------------------------------
Next == \E c \in Calls : \/ Call(c) \/ Barrier(c)
                         \/ StartRefused(c) \/ LeaveEarly(c)
                         \/ \E t \in Threads : Thread(c, t)

\* Threads keep being scheduled, a wait at the barrier ends after its 30 s,
\* and a call that began is iterated to its end or closed.
Fairness == \A c \in Calls :
              /\ WF_vars(Call(c)) /\ WF_vars(Barrier(c))
              /\ \A t \in Threads : WF_vars(Thread(c, t))

Spec     == Init /\ [][Next]_vars
FairSpec == Spec /\ Fairness

-----------------------------------------------------------------------------
(* Properties.                                                             *)

Stages == {"new", "saved", "priming", "broken", "draining", "leaving",
           "joined", "ended"}
Places == {"absent", "waiting", "primed", "ready", "computing", "stopped",
           "failed"}

TypeOK ==
  /\ global \in States
  /\ initial \in {None, Outer}
  /\ eager \in [Calls -> BOOLEAN]
  /\ stage \in [Calls -> Stages]
  /\ saved \in [Calls -> States]
  /\ primers \in [Calls -> 0 .. NThreads]
  /\ thread \in [Calls -> [Threads -> Places]]
  /\ read \in [Calls -> [Threads -> States]]
  /\ left \in [Calls -> 0 .. NChunks]
  /\ used \in [Calls -> SUBSET States]

\* Every chunk of a call, the ones computed after its caller turned away
\* included, is computed with that call's operator.
OwnOperator == \A c \in Calls : used[c] \subseteq {c}

\* "It must restore it, or a later call from inside a worker process would
\* see foreign state": whenever no call is under way the global holds what it
\* held at the start.
StateRestored == (\A c \in Calls : ~Alive(c)) => global = initial

\* With eager_threads no chunk is started before all threads of the pool are
\* there.
ThreadsBeforeChunks ==
  \A c \in Calls : eager[c] /\ left[c] < NChunks =>
    \A t \in Threads : thread[c][t] # "absent"

\* No thread is late or missing at the barrier for good, so that the shutdown
\* would wait for those that are there: a call that began ends, unless one of
\* its chunks raised (then the loop over the results may wait for good, see
\* AlwaysEnds of ThreadDrain).
CallsEnd ==
  \A c \in Calls : stage[c] = "saved" ~>
    stage[c] = "ended" \/ \E t \in Threads : thread[c][t] = "failed"
=============================================================================
