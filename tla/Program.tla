------------------------------ MODULE Program -------------------------------
(***************************************************************************)
(* What main (ntrt.c) does before it sets the state machine up: it reads   *)
(* the command line, and prints the usage or the errors or goes on.        *)
(***************************************************************************)
EXTENDS Integers, Sequences

CONSTANTS Words, MaxWords, MaxErrors, IntMax, Factor, NONE   \* of CommandLine

VARIABLES parsing, argv, optind, letter, rest, options, errors, found, given

Args == INSTANCE CommandLine WITH phase <- parsing, table <- options

ASSUME ArgsAssumption == Args!ConstantsFit

CommandLineIsHonest == Args!CommandLineIsHonest
=============================================================================
