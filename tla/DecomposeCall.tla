---------------------------- MODULE DecomposeCall ----------------------------
(***************************************************************************)
(* The entry points of fwht.py seen from the caller, and the decompose     *)
(* command of cli.py: which path a call takes on which machine, with which *)
(* chunks, what it replays from a checkpoint, what it computes, and what   *)
(* the caller is given.  Several runs share one checkpoint path; each is a *)
(* new process that measures its machine again (autotune caches a figure   *)
(* for the life of one process only).                                      *)
(*                                                                         *)
(* A chunk is here the set of active rows it stands for.  Bytes on disk    *)
(* and a death between the two appends are in Checkpoint, the threads and  *)
(* the processes of the pool in ThreadDrain and ProcessDrain: here the     *)
(* pool is only a path that computes its chunks in any order.              *)
(***************************************************************************)
EXTENDS Sizing

CONSTANTS Machines,   \* what the probes may read
          Operators,  \* [qubits, nnz, sparse, active] of an operator
          Programs,   \* the calls that one run of a program makes, in order
          BadRows,    \* sets of rows that may hold a complex coefficient
          MaxRuns     \* bound: runs on one checkpoint path

Requests ==
  {r \in [entry : {"terms", "coefficients", "iter", "auto", "dicts", "arrays"},
          chunk : Int \cup {NotThere}, hermitian : BOOLEAN, ckpt : BOOLEAN,
          workers : Int \cup {NotThere}, executor : STRING] :
     r.entry = "iter" => r.chunk # NotThere}

ASSUME BoundAssumption == MaxRuns \in Nat
ASSUME ProgramsAssumption == Programs \subseteq Seq(Requests)
ASSUME OperatorsAssumption ==
  \A o \in Operators : /\ o.qubits \in Nat /\ o.nnz \in Nat
                      /\ o.sparse \in BOOLEAN /\ o.active \in Nat
ASSUME MachinesAssumption ==
  \A m \in Machines :
    /\ IsFiniteSet(m.allowed) /\ m.allowed # {}
    /\ {m.declared, m.meminfo, m.avphys, m.cgroup1, m.total}
         \subseteq Nat \cup {NotThere}
    /\ m.cgroup2 \in Nat \cup {NotThere, Unlimited}
    /\ m.samples # NotThere =>
         m.samples \in Seq([bytes : Nat, cycles : Nat])

VARIABLES op, bad,    \* the operator and its rows that are not Hermitian
          machine,    \* what this process measured
          script,     \* the calls this program has still to make
          request,    \* the arguments of the current call
          plan,       \* what the entry point made of them
          replay,     \* the frames that it has still to replay
          todo,       \* the indices of the chunks it has still to compute
          got,        \* how often each row was yielded, or accumulated
          promised, delivered, outcome,   \* the contract with the caller
          data,       \* the frames of the checkpoint file, in its order
          progress,   \* the records of either progress file
          used,       \* history: the checkpointing calls and their chunks
          runs        \* bound

input == <<op, bad>>
call == <<machine, request, plan, promised>>
file == <<data, progress>>
vars == <<input, call, file, script, replay, todo, got, delivered, outcome,
          used, runs>>

Rows == 0 .. op.active - 1

-----------------------------------------------------------------------------
(* The decompose command.                                                  *)

Request(entry, chunk, workers, executor, hermitian, ckpt) ==
  [entry |-> entry, chunk |-> chunk, hermitian |-> hermitian, ckpt |-> ckpt,
   workers |-> workers, executor |-> executor]

\* not args.chunk_size: zero counts as missing, a negative size does not.
NoChunkSize(c) == c.chunk \in {NotThere, 0}

\* The first of these flags wins.
Output(c) == IF "parallel" \in c.flags THEN "parallel"
             ELSE IF "stream" \in c.flags THEN "stream"
             ELSE IF "sparse-output" \in c.flags THEN "sparse-output"
             ELSE "terms"

\* The calls of one command line; none if it prints a message and returns 1.
CommandLine(c) ==
  LET to(entry, workers, executor) ==
        <<Request(entry, c.chunk, workers, executor, entry # "coefficients",
                  c.ckpt)>>
      terms == to("terms", NotThere, "auto")
  IN  IF Output(c) \in {"parallel", "stream"} /\ NoChunkSize(c)
      THEN <<>>
      ELSE CASE Output(c) = "parallel" -> to("arrays", c.workers, c.executor)
             [] Output(c) = "stream" -> to("iter", NotThere, "auto")
             [] Output(c) = "sparse-output" ->
                  to("coefficients", NotThere, "auto")
                  \o (IF "show-terms" \in c.flags THEN terms ELSE <<>>)
             [] OTHER -> terms

\* The calls of the benchmark command for one number of oscillators: dense and
\* sparse coefficients, or the terms.
Benchmark(compare, chunk) ==
  LET to(entry, size) ==
        Request(entry, size, NotThere, "auto", entry # "coefficients", FALSE)
  IN  IF compare
      THEN <<to("coefficients", NotThere), to("coefficients", NotThere)>>
      ELSE <<to("terms", chunk)>>

-----------------------------------------------------------------------------
(* What an entry point makes of its arguments.                             *)

Path(path, r, chunk, workers) ==
  [path |-> path, chunk |-> chunk, workers |-> workers, drain |-> "none",
   collect |-> r.entry \in {"terms", "coefficients"},
   check |-> r.hermitian, ckpt |-> r.ckpt]

Refused(r) == Path("refused", r, 1, 1)

\* All active rows in one block: there is nothing to resume.
Whole(r) == [Path("whole", r, op.active, 1) EXCEPT !.ckpt = FALSE,
                                                   !.collect = TRUE]

Sequential(r, chunk) == IF chunk < 1 THEN Refused(r)
                        ELSE Path("sequential", r, chunk, 1)

Collected(r) == IF r.chunk = NotThere THEN Whole(r) ELSE Sequential(r, r.chunk)

DecomposeAuto(r, m) ==
  IF DenseFits(op, m)
  THEN Whole(r)
  ELSE Sequential(r, RecommendedChunkSize(op.qubits, L2Figure(m)))

ChunkSize(r, workers, m) ==
  IF r.chunk # NotThere THEN r.chunk ELSE ParallelChunkSize(op, workers, m)

\* An executor that does not exist, or a budget to divide among no workers.
BadArguments(r, workers) ==
  \/ r.entry = "arrays" /\ r.executor \notin {"auto", "process", "thread"}
  \/ r.chunk = NotThere /\ workers < 1

\* Threads where compiled kernels let them run at once.
Drain(r, m) ==
  IF r.entry = "dicts" THEN "process"
  ELSE IF r.executor # "auto" THEN r.executor
  ELSE IF {"wht", "coeffs"} \subseteq Loaded(m) THEN "thread" ELSE "process"

\* Rows cannot be divided into chunks of none.  One worker without a
\* checkpoint needs no pool.
Pool(r, m) ==
  LET asked == ResolvedWorkers(r.workers, m)
      chunk == ChunkSize(r, asked, m)
      workers == CappedWorkers(asked, op.active, chunk)
  IN  IF BadArguments(r, asked) \/ chunk = 0 THEN Refused(r)
      ELSE IF r.entry = "arrays" /\ workers = 1 /\ ~r.ckpt
           THEN Sequential(r, chunk)
           ELSE [Path("pool", r, chunk, workers) EXCEPT !.drain = Drain(r, m)]

Plan(r, m) == CASE r.entry \in {"terms", "coefficients"} -> Collected(r)
                [] r.entry = "iter" -> Sequential(r, r.chunk)
                [] r.entry = "auto" -> DecomposeAuto(r, m)
                [] OTHER -> Pool(r, m)

\* range(0, n_active, chunk_size): empty for a negative step.
Indices(p) == IF p.chunk < 1 THEN {}
              ELSE 0 .. CeilDiv(op.active, p.chunk) - 1

RowsOf(p, k) == {row \in Rows : row \div p.chunk = k}

-----------------------------------------------------------------------------
(* The checkpoint.                                                         *)

\* The indices a session skips: all up to the last one where chunks finish in
\* order, the recorded ones where they do not.
Completed(p) ==
  IF ~p.ckpt THEN {}
  ELSE IF p.path = "pool" THEN progress["pool"]
  ELSE UNION {0 .. j : j \in progress["sequential"]}

\* The frames of both kinds of session are in one file.
Frames == {data[i] : i \in 1 .. Len(data)}

\* The reader stops at the first frame that no record vouches for: a frame
\* that a session of the other kind wrote, perhaps, with others behind it.
Replayable(p) ==
  {data[i] : i \in {n \in 1 .. Len(data) :
                      \A j \in 1 .. n : data[j].index \in Completed(p)}}

\* Fault: what is pending is not compared with what was replayed.
PendingForgets(p) == Indices(p)

Pending(p) == Indices(p) \ Completed(p)

Frame(p, k) == [by |-> p.path, index |-> k, rows |-> RowsOf(p, k)]

-----------------------------------------------------------------------------

Ended == {"complete", "raised", "closed"}
Idle == Refused(Request("none", NotThere, NotThere, "auto", FALSE, FALSE))

Init == /\ op \in Operators
        /\ bad \in BadRows
        /\ machine \in Machines
        /\ script = <<>>
        /\ request = Request("none", NotThere, NotThere, "auto", FALSE, FALSE)
        /\ plan = Idle
        /\ replay = {} /\ todo = {}
        /\ got = [row \in Rows |-> 0]
        /\ promised = {} /\ delivered = <<>> /\ outcome = "closed"
        /\ data = <<>>
        /\ progress = [path \in {"sequential", "pool"} |-> {}]
        /\ used = {}
        /\ runs = 0

\* A new process: its figures are those of its own machine.
Run(program) ==
  /\ outcome \in Ended /\ script = <<>>
  /\ runs < MaxRuns
  /\ runs' = runs + 1
  /\ script' = program
  /\ machine' \in Machines
  /\ UNCHANGED <<input, request, plan, promised, file, replay, todo, got,
                 delivered, outcome, used>>

\* What the caller of plan p is going to be given.
Promised(p) ==
  IF p.collect THEN {<<"result", 0>>}
  ELSE {<<f.by, f.index>> : f \in Replayable(p)}
       \cup {<<"new", k>> : k \in Pending(p)}

\* Everything an entry point does before its first chunk.
Start ==
  /\ outcome \in Ended /\ script # <<>>
  /\ request' = Head(script)
  /\ script' = Tail(script)
  /\ plan' = Plan(request', machine)
  /\ IF plan'.path = "refused"
     THEN /\ outcome' = "raised"
          /\ replay' = {} /\ todo' = {} /\ promised' = {}
     ELSE /\ outcome' = "running"
          /\ replay' = Replayable(plan')
          /\ todo' = Pending(plan')
          /\ promised' = Promised(plan')
  /\ got' = [row \in Rows |-> 0]
  /\ delivered' = <<>>
  /\ used' = IF plan'.ckpt /\ plan'.path # "refused"
             THEN used \cup {<<request', plan'.path, plan'.chunk>>}
             ELSE used
  /\ UNCHANGED <<input, machine, file, runs>>

\* An exception leaves the entry point, and the program.
Raise == /\ outcome' = "raised"
         /\ script' = <<>>
         /\ UNCHANGED <<got, delivered>>

\* Fault: a chunk is not looked at before it is handed on.
HandUnchecked(label, rows) ==
  /\ got' = [row \in Rows |-> IF row \in rows THEN got[row] + 1 ELSE got[row]]
  /\ delivered' = IF plan.collect THEN delivered ELSE Append(delivered, label)
  /\ UNCHANGED <<outcome, script>>

\* A chunk is yielded if it passes the check, or accumulated as it is.
Hand(label, rows) ==
  IF plan.check /\ ~plan.collect /\ rows \cap bad # {}
  THEN Raise
  ELSE /\ got' = [row \in Rows |-> IF row \in rows THEN got[row] + 1 ELSE got[row]]
       /\ delivered' = IF plan.collect THEN delivered ELSE Append(delivered, label)
       /\ UNCHANGED <<outcome, script>>

\* Frames are replayed in the order of the file.
Replay(f) ==
  /\ outcome = "running"
  /\ f \in replay
  /\ \E i \in 1 .. Len(data) :
       data[i] = f /\ \A j \in 1 .. i - 1 : data[j] \notin replay
  /\ replay' = replay \ {f}
  /\ Hand(<<f.by, f.index>>, f.rows)
  /\ UNCHANGED <<input, call, file, todo, used, runs>>

\* Fault: the record is written, the frame is forgotten.
RecordedAlone(k) == /\ progress' = [progress EXCEPT ![plan.path] = @ \cup {k}]
                    /\ UNCHANGED data

Recorded(k) == /\ data' = Append(data, Frame(plan, k))
               /\ progress' = [progress EXCEPT ![plan.path] = @ \cup {k}]

\* Gather, transform, threshold; then the frame, then the record, then the
\* check of Hermiticity, then the yield.
Compute(k) ==
  /\ outcome = "running" /\ replay = {}
  /\ k \in todo
  /\ plan.path = "pool" \/ \A j \in todo : k <= j
  /\ todo' = todo \ {k}
  /\ IF plan.ckpt THEN Recorded(k) ELSE UNCHANGED file
  /\ Hand(<<"new", k>>, RowsOf(plan, k))
  /\ UNCHANGED <<input, call, replay, used, runs>>

\* Fault: a session that has replayed its frames takes itself for complete.
ReplayExhausted == replay = {}

Exhausted == replay = {} /\ todo = {}

\* The whole result, if all of it passes the check.
Return ==
  /\ outcome = "running" /\ Exhausted
  /\ plan.collect /\ delivered = <<>>
  /\ IF plan.check /\ \E row \in bad \cap Rows : got[row] > 0
     THEN Raise
     ELSE /\ delivered' = <<<<"result", 0>>>>
          /\ UNCHANGED <<outcome, script, got>>
  /\ UNCHANGED <<input, call, file, replay, todo, used, runs>>

Finish ==
  /\ outcome = "running" /\ Exhausted
  /\ plan.collect => delivered # <<>>
  /\ outcome' = "complete"
  /\ UNCHANGED <<input, call, file, script, replay, todo, got, delivered,
                 used, runs>>

\* The caller closes the generator, or the program is interrupted.
Close ==
  /\ outcome = "running"
  /\ outcome' = "closed"
  /\ script' = <<>>
  /\ UNCHANGED <<input, call, file, replay, todo, got, delivered, used, runs>>

Next == \/ \E program \in Programs : Run(program)
        \/ Start
        \/ \E f \in replay : Replay(f)
        \/ \E k \in todo : Compute(k)
        \/ Return
        \/ Finish
        \/ Close

Spec == Init /\ [][Next]_vars

-----------------------------------------------------------------------------
(* Properties.                                                             *)

Labels == {"result", "new", "sequential", "pool"} \X Nat

TypeOK ==
  /\ script \in Seq(Requests)
  /\ plan.path \in {"refused", "whole", "sequential", "pool"}
  /\ plan.workers \in Nat \ {0}
  /\ plan.drain \in IF plan.path = "pool" THEN {"thread", "process"}
                    ELSE {"none"}
  /\ todo \subseteq Nat /\ replay \subseteq Frames
  /\ got \in [Rows -> Nat]
  /\ promised \subseteq Labels /\ delivered \in Seq(Labels)
  /\ \A path \in DOMAIN progress :
       progress[path] \subseteq {f.index : f \in {g \in Frames : g.by = path}}

\* A call that ends normally yielded each active row exactly once, whatever
\* part of it came from the checkpoint, unless the sessions on that checkpoint
\* cut the rows differently or on different paths: "already checkpointed
\* chunks are replayed", fwht.py:1769, and no other row may go missing.
EveryRowOnce ==
  /\ outcome = "complete"
  /\ plan.chunk > 0
  /\ plan.ckpt => \A u \in used : u[2] = plan.path /\ u[3] = plan.chunk
  => \A row \in Rows : got[row] = 1

\* The promise of fwht.py:1767-1774: an interrupted consumer resumes by
\* "simply calling this function again with the same checkpoint_path".  So if
\* all calls on the path were one and the same call, each row comes once.
SameCallResumes ==
  /\ outcome = "complete"
  /\ plan.chunk > 0
  /\ plan.ckpt => \A u \in used : u[1] = request
  => \A row \in Rows : got[row] = 1

\* With assume_hermitian the caller is never given a row with a complex
\* coefficient, even if an earlier session recorded it without looking: the
\* replay is checked like a fresh chunk.
ViolationNeverPasses ==
  plan.check /\ (plan.collect => delivered # <<>>)
    => \A row \in bad \cap Rows : got[row] = 0

\* The docstring of _recommended_parallel_chunk_size (fwht.py:2384-2390) says
\* that it chooses a chunk "whose working set fits within one worker's share of
\* the memory budget" beside "the operator copy and setup arrays every worker
\* holds".  So processes that would fit with one row each fit with their chunks.
ProcessesFitMemory ==
  LET needed(rows) == plan.workers * (HeldBytes(op) + rows * RowBytes(op.qubits))
  IN  /\ outcome = "running" /\ plan.path = "pool" /\ plan.drain = "process"
      /\ request.chunk = NotThere
      /\ needed(1) <= AvailableMemory(machine)
      => needed(plan.chunk) <= AvailableMemory(machine)

\* A call that leaves its chunk size and its workers to the code is accepted
\* on every machine, however little it has.
AutomaticNeverRefused ==
  plan.path = "refused" =>
    \/ request.entry = "none"
    \/ request.chunk # NotThere
    \/ request.workers # NotThere
    \/ request.executor \notin {"auto", "process", "thread"}

\* Every call implements what ChunkDelivery says of an entry point, from its
\* first chunk to its end: what is replayed and what is computed are each
\* yielded once, a collected result at once and only when complete.
Contract(chunks) == INSTANCE ChunkDelivery WITH Chunks <- chunks,
                                                delivered <- delivered,
                                                outcome <- outcome

EachCallDelivers ==
  [][outcome = "running" => \A P \in {promised} : Contract(P)!Next]_<<delivered,
                                                                    outcome>>
=============================================================================
