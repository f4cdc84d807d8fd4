---------------------------- MODULE MCFlowCounter ----------------------------
(***************************************************************************)
(* FlowCounter with two listeners that share the mutex and two ports, over *)
(* a clock that lets flows time out, come back and time out again.         *)
(***************************************************************************)
EXTENDS FlowCounter, TLC

\* Listeners and ports are only compared.
ListenerPortSymmetry == Permutations(Listeners) \cup Permutations(Ports)
=============================================================================
