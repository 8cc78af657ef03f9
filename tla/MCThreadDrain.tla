--------------------------- MODULE MCThreadDrain ---------------------------
EXTENDS ThreadDrain

\* Three slices of 2, 1 and 0 chunks.
MCCut == <<1, 3, 4, 4>>

\* Two slices of 2 and 1 chunks.
MCCutPair == <<1, 3, 4>>

\* Two slices of 3 chunks.
MCCutSix == <<1, 4, 7>>
=============================================================================
