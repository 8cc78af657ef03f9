---------------------------- MODULE ChunkDelivery ----------------------------
(***************************************************************************)
(* What every streaming entry point of fwht.py promises its caller: each   *)
(* pending chunk is yielded at most once, the generator reports normal     *)
(* exhaustion only after every chunk was yielded, and otherwise it ends    *)
(* with an exception or because the caller closed it.  The drains of       *)
(* parallel_decompose and parallel_decompose_arrays implement this.        *)
(***************************************************************************)
EXTENDS Sequences, Naturals

CONSTANT Chunks      \* the pending chunks of one call

VARIABLES delivered, \* the chunks yielded so far, in order
          outcome    \* "running" or how the generator ended

vars == <<delivered, outcome>>

Outcomes == {"running", "complete", "raised", "closed"}

\* The chunks among the yielded ones.
Yielded == {delivered[i] : i \in 1 .. Len(delivered)}

TypeOK == /\ delivered \in Seq(Chunks)
          /\ outcome \in Outcomes

Init == /\ delivered = <<>>
        /\ outcome = "running"

\* Yield a chunk that was not yielded before.
Deliver(c) == /\ outcome = "running"
              /\ c \notin Yielded
              /\ delivered' = Append(delivered, c)
              /\ UNCHANGED outcome

\* StopIteration: only when nothing is missing.
Finish == /\ outcome = "running"
          /\ Yielded = Chunks
          /\ outcome' = "complete"
          /\ UNCHANGED delivered

\* An exception, or GeneratorExit, at any time.
Abort == /\ outcome = "running"
         /\ outcome' \in {"raised", "closed"}
         /\ UNCHANGED delivered

Next == \/ \E c \in Chunks : Deliver(c)
        \/ Finish
        \/ Abort

Spec == Init /\ [][Next]_vars
=============================================================================
