----------------------------- MODULE MCBufferPool -----------------------------
(* Small instances of BufferPool.                                          *)
EXTENDS BufferPool

CONSTANTS t1, t2

ThreadSymmetry == Permutations(Thread)
=============================================================================
