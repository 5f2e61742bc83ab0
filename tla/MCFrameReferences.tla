------------------------- MODULE MCFrameReferences --------------------------
\* Buffers are alike, and so are branches.
EXTENDS FrameReferences, TLC

Symmetric == Permutations(Buffers) \cup Permutations(Branches)
=============================================================================
