----------------------------- MODULE MCLibrary ------------------------------
(***************************************************************************)
(* The data structures of the library and the readers of the program's     *)
(* configuration on small instances, each by itself: part is the one that  *)
(* a behaviour is about, the others stay as they are.                      *)
(***************************************************************************)
EXTENDS Library, Program, Trees, TLC

CONSTANTS Parts, Movable, NumLimit, TimeLimit, Percentile

VARIABLES part,
          pending, tracked, spare, storage, index, extremes, stat,  \* SlidingWindow
          maxtree, mintree, Mxc, Mnc, candidates, sum, distinct

ring == <<items, start, end, count, read>>
queue == <<node, head, tail, counter, pushed, phase>>
heap == <<data, held_count, held_size, added>>
vector == <<memory, items_num, items_alloc_num, listed, astray, overrun>>
multi == <<mitems, mstart, mend, mcount, mread, mindex, mplus, promised, aimed, minside, due, passed>>
bintree == <<tree, held, bag, exact, broken>>
sliding == <<pending, tracked, spare, storage, index, extremes, stat,
             maxtree, mintree, Mxc, Mnc, candidates, sum, distinct>>
ini == <<reading, load, file, means>>
barrier == <<current, place, asleep, destroyer, opened, gate>>
loss == <<seq_num, seq_num_initialized, last_timestamp, packets, frames, arrived, missing, wraps>>
command == <<parsing, argv, optind, letter, rest, options, errors, found, given>>

\* Lines with and without sense, joined, in capitals, quoted, with comments; what is looked up
\* later.
MCLines == {<< >>, <<";", "c">>, <<"[", "s", "]">>, <<"[", "]">>, <<"k", "=", "v">>, <<"K", "=", "\"", "\"">>,
            <<"k", "=", "'", "w", ";", "'", "#", "c">>, <<"k", "=", "v", "\\">>, <<"=">>,
            <<"x", "\\", "\\">>, <<"k", "=", "\\", "#", "c">>, <<"[", "k", "=", "v", "]", ";", "c">>}
MCLower == [w \in {"s", "t", "k", "K", "v", "w", "x", "c", "[", "]", "=", "#", ";", "\\", ":", "\"", "'"} |->
                IF w = "K" THEN "k" ELSE w]
MCTexts == {<<"v", "#", "w">>}
MCEntries == {<<"s">>, <<"t">>, <<"s", ":", "K">>, <<":", "k">>}

\* Words of every kind; 32KB is one more than an int holds and -32KB just fits, see IntMax.
Number(sign, prefix, digits, suffix) ==
    [sign |-> sign, prefix |-> prefix, digits |-> digits, suffix |-> suffix]
Name == Number(1, "", << >>, "name")
Plain(text) == [kind |-> "plain", text |-> text]
Short(letters, value, text) == [kind |-> "short", letters |-> letters, value |-> value, text |-> text]
Long(names, value) == [kind |-> "long", names |-> names, value |-> value, text |-> Name]
MCWords == {
    Plain(Name), Plain(Number(1, "0x", <<1, 15>>, "KB")), Plain(Number(1, "0o", <<1, 8>>, "")),
    Plain(Number(1, "", <<3, 2>>, "KB")), [kind |-> "end", text |-> Name],
    Short(<<"h">>, NONE, Name), Short(<<"h", "t">>, NONE, Name), Short(<<"c">>, NONE, Name),
    Short(<<"t">>, Number(1, "0b", <<1, 1>>, "MB"), Name),
    Short(<<"3">>, NONE, Number(-1, "", <<3, 2>>, "KB")),
    Long({"time"}, Number(1, "", << >>, "")), Long({"config_file", "command_file"}, NONE),
    Long({"help"}, Name), Long({"help"}, NONE), Long({"time"}, NONE), Long({"command_file"}, Name)}
MCFactor == [KB |-> 4, MB |-> 16, GB |-> 64]

MCKey == [d \in 1 .. 4 |-> d]

W == INSTANCE SlidingWindow WITH tree <- extremes

\* What stands still when another part is looked at: one state of each.
MCInit ==
    /\ part \in Parts
    /\ Init /\ List!Init /\ Prio!Init /\ Vect!Init /\ Multi!Init /\ Tree!Init /\ W!Init /\ Ini!Init /\ Args!Init /\ Gate!Init /\ Loss!Init
    /\ part # "command" => argv = << >>
    /\ part # "loss" => arrived = 0

StepRing == Next /\ UNCHANGED <<queue, heap, vector, multi, bintree, sliding, ini, command, barrier, loss>>
StepQueue == List!Next /\ UNCHANGED <<ring, heap, vector, multi, bintree, sliding, ini, command, barrier, loss>>
StepHeap == Prio!Next /\ UNCHANGED <<ring, queue, vector, multi, bintree, sliding, ini, command, barrier, loss>>
StepVector == Vect!Next /\ UNCHANGED <<ring, queue, heap, multi, bintree, sliding, ini, command, barrier, loss>>
StepMulti == Multi!Next /\ UNCHANGED <<ring, queue, heap, vector, bintree, sliding, ini, command, barrier, loss>>
StepBintree == Tree!Next /\ UNCHANGED <<ring, queue, heap, vector, multi, sliding, ini, command, barrier, loss>>
StepSliding == W!Next /\ UNCHANGED <<ring, queue, heap, vector, multi, bintree, ini, command, barrier, loss>>
StepIni == Ini!Next /\ UNCHANGED <<ring, queue, heap, vector, multi, bintree, sliding, command, barrier, loss>>
StepCommand == Args!Next /\ UNCHANGED <<ring, queue, heap, vector, multi, bintree, sliding, ini, barrier, loss>>
StepBarrier == Gate!Next /\ UNCHANGED <<ring, queue, heap, vector, multi, bintree, sliding, ini, command, loss>>
StepLoss == Loss!Next /\ UNCHANGED <<ring, queue, heap, vector, multi, bintree, sliding, ini, command, barrier>>

MCNext ==
    /\ UNCHANGED part
    /\ \/ part = "ring" /\ StepRing
       \/ part = "queue" /\ StepQueue
       \/ part = "heap" /\ StepHeap
       \/ part = "vector" /\ StepVector
       \/ part = "multi" /\ StepMulti
       \/ part = "bintree" /\ StepBintree
       \/ part = "sliding" /\ StepSliding
       \/ part = "ini" /\ StepIni
       \/ part = "command" /\ StepCommand
       \/ part = "barrier" /\ StepBarrier
       \/ part = "loss" /\ StepLoss

MCSpec == MCInit /\ [][MCNext]_<<part, ring, queue, heap, vector, multi, bintree, sliding, ini, command,
                                barrier, loss>>

StatisticsOfWindow == W!StatisticsOfWindow
PercentileSplits == W!PercentileSplits
DumpIsLoadable == part = "ini" => Ini!DumpIsLoadable
NullDeletes == Ini!NullDeletes

Symmetry == Permutations(Movable)
=============================================================================
