----------------------------- MODULE MCCheckpoint -----------------------------
EXTENDS Checkpoint

\* One-term chunks around an empty one, whose frame is a header only.
MCTerms == [k \in Chunks |-> IF k = 1 THEN 0 ELSE 1]
=============================================================================
