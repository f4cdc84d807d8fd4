------------------------------ MODULE MCMachine ------------------------------
(***************************************************************************)
(* Machine with a sniffer that may fail and a few signals.                 *)
(***************************************************************************)
EXTENDS Machine
=============================================================================
