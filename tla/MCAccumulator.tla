--------------------------- MODULE MCAccumulator ---------------------------
(***************************************************************************)
(* Accumulator with two sniffers and the relayer, windows of two records,  *)
(* a pool of one, two values and words that wrap at two.  Windows fill up  *)
(* and expire, the pool is found empty and found full.  Four records are   *)
(* enough for a full window, a hand and the other listener's window, for   *)
(* both windows, or for both hands with a window and the pool.             *)
(***************************************************************************)
EXTENDS Accumulator, TLC

\* malloc may return any free address: the records are interchangeable.
RecordSymmetry == Permutations(Records)
=============================================================================
