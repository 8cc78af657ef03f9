---------------------------- MODULE MCLazyCaches ----------------------------
(* Constants of LazyCaches for TLC.                                        *)
EXTENDS LazyCaches

CONSTANTS d1, unknown, small

\* One dimension, and measurements that may differ or find nothing.
MCDims == {d1}
MCFigures == {unknown, small}
MCTile == [d \in MCDims |-> small]
=============================================================================
