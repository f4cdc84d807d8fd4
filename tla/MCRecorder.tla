----------------------------- MODULE MCRecorder -----------------------------
(***************************************************************************)
(* Recorder on small instances.                                            *)
(* MCRecorder.cfg: one listener, a puffer of two and a pool of one, five   *)
(* rounds, so that the puffer is found empty and full and the pool is      *)
(* found empty and full.  Five mxrecords: one in each hand, two in the     *)
(* puffer and one in the pool, the most that can be allocated.             *)
(* MCRecorderTwo.cfg: the same with two listeners.                         *)
(***************************************************************************)
EXTENDS Recorder
=============================================================================
