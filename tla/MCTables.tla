------------------------------ MODULE MCTables ------------------------------
(***************************************************************************)
(* The rows of a table, and the locks of all tables; part is the one that  *)
(* a behaviour is about, the other stays as it is.                         *)
(*                                                                         *)
(* Rows: two sections that name up to two variables each, the same ones,   *)
(* others, one twice, more than the table holds, none; and show them all   *)
(* or fewer.  Locks: two listeners, or one with variables and commands.    *)
(***************************************************************************)
EXTENDS Tables, Locks

VARIABLE part

Section(ids, num) == [ids |-> ids, num |-> num]

Sections(first, second) == [l \in 0 .. 1 |-> IF l = 0 THEN first ELSE second]

MCConfs ==
    {Sections(Section(<<1, 2>>, 2), second) :
        second \in {Section(<<0, 0>>, 0), Section(<<2, 1>>, 2), Section(<<3, 2>>, 2),
                    Section(<<0, 3>>, 2)}}
    \cup {Sections(first, Section(<<2, 0>>, 1)) :
        first \in {Section(<<2, 2>>, 1), Section(<<0, 0>>, 2), Section(<<3, 1>>, 2)}}
    \cup {Sections(Section(<<0, 0>>, 0), Section(<<0, 0>>, 0))}

MCSetups == {[listeners |-> <<"first", "second">>, full |-> FALSE],
             [listeners |-> <<"first">>, full |-> TRUE]}

\* What stands still when the other part is looked at: one state of each.
MCInit ==
    /\ part \in {"rows", "locks"}
    /\ Init /\ LocksInit
    /\ part = "rows" => setup.full
    /\ part = "locks" => conf = Sections(Section(<<0, 0>>, 0), Section(<<0, 0>>, 0))

StepRows == Next /\ UNCHANGED locks
StepLocks == LocksNext /\ UNCHANGED vars

MCNext ==
    /\ IF part = "rows" THEN StepRows ELSE StepLocks
    /\ UNCHANGED part

MCSpec == MCInit /\ [][MCNext]_<<part, vars, locks>>
=============================================================================
