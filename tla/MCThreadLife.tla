---------------------------- MODULE MCThreadLife ----------------------------
(***************************************************************************)
(* ThreadLife with three threads: a sniffer, the relayer or filewriter,    *)
(* and the command interpreter; two rounds of waiting instead of ten.      *)
(***************************************************************************)
EXTENDS ThreadLife
=============================================================================
