---------------------------- MODULE MCFramePool -----------------------------
(* A small instance of FramePool: the keys are interchangeable.            *)
EXTENDS FramePool, TLC

KeySymmetry == Permutations(Keys)
=============================================================================
