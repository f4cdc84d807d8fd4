------------------------------- MODULE Tables -------------------------------
(***************************************************************************)
(* A table of dmap (dmap.c) from its first row to its destruction, with    *)
(* the threads that use it under its rwlock.  The table is the one of the  *)
(* mapped variables: the configuration adds them, the command interpreter  *)
(* sets them (cmp_cmdexecutor.c), the relayer reads those of a listener    *)
(* for a row and the filewriter holds the lock while it prints one         *)
(* (cmp_recorder.c), SHUTDOWN removes all rows by pointer and dmap_deinit  *)
(* by index.  The other tables are filled and torn down by the same code.  *)
(***************************************************************************)
EXTENDS Integers, Sequences, FiniteSets

CONSTANTS
    ListenerNum,   \* sections [pcap_0], [pcap_1], ...
    Confs,         \* per section: mapped_var_ids, 0 where none is given, and mapped_vars_num
    Ids, Values,   \* identifiers and values that commands may name
    TableSize      \* NTRT_MAX_PCAPLS_NUM, the size of this table

Listeners == 0 .. ListenerNum - 1
Slots == 0 .. TableSize - 1

\* An address that is no row's.
NULL == 0

ASSUME ConstantsAssumption ==
    /\ ListenerNum \in Nat \ {0} /\ TableSize \in Nat \ {0}
    /\ Ids \subseteq Nat /\ Values \subseteq Nat
    /\ \A c \in Confs :
         /\ DOMAIN c = Listeners
         /\ \A l \in Listeners :
              /\ c[l].ids \in Seq(Ids \cup {0})
              /\ c[l].num \in 0 .. Len(c[l].ids)

VARIABLES
    conf,      \* the configuration file
    items,     \* the items in rows; a row and its item have the item's number for address
    rows,      \* dmap_table_t.rows
    destroyed, \* addresses whose row was destroyed
    phase,     \* how far the program is
    section, index,  \* where _listener_from_conf, or an iteration of the table, is
    readers, writer, \* the rwlock of the table
    command,   \* the command at work, and how far the interpreter is with it
    target,    \* what the interpreter found
    relayer,   \* how far the relayer is with a listener
    asked,     \* the listener
    copied,    \* mxrecord_t.mapped_var_values
    row        \* history: the values written last for each listener

table == <<items, rows, destroyed>>
main == <<phase, section, index>>
lock == <<readers, writer>>
interpreter == <<command, target>>
writing == <<relayer, asked, copied, row>>
vars == <<conf, items, rows, destroyed, phase, section, index, readers, writer, command,
          target, relayer, asked, copied, row>>

NoCommand == [state |-> "none", id |-> 0, value |-> 0]

Init ==
    /\ conf \in Confs
    /\ items = << >>
    /\ rows = [s \in Slots |-> NULL]
    /\ destroyed = {}
    /\ phase = "setup" /\ section = 0 /\ index = 0
    /\ readers = {} /\ writer = FALSE
    /\ command = NoCommand /\ target = NULL
    /\ relayer = "none" /\ asked = 0 /\ copied = << >>
    /\ row = [l \in Listeners |-> << >>]
-----------------------------------------------------------------------------
(* The table. *)

Least(S) == CHOOSE s \in S : \A t \in S : s <= t

\* _dmap_itr_table: the next slot with a row, or the size of the table.
Next_row(i) ==
    LET filled == {s \in Slots : s >= i /\ rows[s] # NULL}
    IN  IF filled = {} THEN TableSize ELSE Least(filled)

\* dmap_get_mapped_var_by_var_id
Get(id) ==
    LET match == {s \in Slots : rows[s] # NULL /\ items[rows[s]].identifier = id}
    IN  IF match = {} THEN NULL ELSE rows[Least(match)]

\* make_mapped_var and _dmap_add_row: without a free slot the item is freed again.
AddRow(item) ==
    LET free == {s \in Slots : rows[s] = NULL}
    IN  IF free = {} THEN UNCHANGED <<items, rows>>
        ELSE /\ items' = Append(items, item)
             /\ rows' = [rows EXCEPT ![Least(free)] = Len(items) + 1]

\* _dmap_row_dtor: what a second call for a row does is undefined, and nothing
\* after it is modelled.
Destroy(a, then) ==
    /\ destroyed' = destroyed \cup {a}
    /\ phase' = IF a \in destroyed THEN "broken" ELSE then
-----------------------------------------------------------------------------
(* SETUP: no other thread runs. *)

\* _add_mapped_var, for the next entry of mapped_var_ids that is given.
AddMappedVar ==
    /\ phase = "setup" /\ section < ListenerNum
    /\ index < Len(conf[section].ids)
    /\ LET id == conf[section].ids[index + 1]
       IN  IF id = 0 \/ Get(id) # NULL THEN UNCHANGED <<items, rows>>
           ELSE AddRow([identifier |-> id, value |-> 0])
    /\ index' = index + 1
    /\ UNCHANGED <<conf, destroyed, phase, section, lock, interpreter, writing>>

NextSection ==
    /\ phase = "setup" /\ section < ListenerNum
    /\ index = Len(conf[section].ids)
    /\ section' = section + 1 /\ index' = 0
    /\ UNCHANGED <<conf, table, phase, lock, interpreter, writing>>

Start ==
    /\ phase = "setup" /\ section = ListenerNum
    /\ phase' = "run"
    /\ UNCHANGED <<conf, table, section, index, lock, interpreter, writing>>
-----------------------------------------------------------------------------
(* Between START and STOP. *)

\* The interpreter reads a command "I MAPPED_VAR_<id>_<value>".
Command ==
    /\ phase = "run" /\ command.state = "none"
    /\ \E id \in Ids, v \in Values : command' = [state |-> "read", id |-> id, value |-> v]
    /\ UNCHANGED <<conf, table, main, lock, target, writing>>

\* Mutant of WriteLock: the interpreter locks as a reader does.
WriteLockShared ==
    /\ command.state = "read" /\ ~ writer
    /\ command' = [command EXCEPT !.state = "locked"]
    /\ writer' = TRUE
    /\ UNCHANGED <<conf, table, main, readers, target, writing>>

WriteLock ==
    /\ command.state = "read" /\ ~ writer /\ readers = {}
    /\ command' = [command EXCEPT !.state = "locked"]
    /\ writer' = TRUE
    /\ UNCHANGED <<conf, table, main, readers, target, writing>>

Find ==
    /\ command.state = "locked"
    /\ target' = Get(command.id)
    /\ command' = [command EXCEPT !.state = "found"]
    /\ UNCHANGED <<conf, table, main, lock, writing>>

Assign ==
    /\ command.state = "found"
    /\ items' = IF target = NULL THEN items ELSE [items EXCEPT ![target].value = command.value]
    /\ command' = [command EXCEPT !.state = "done"]
    /\ UNCHANGED <<conf, rows, destroyed, main, lock, target, writing>>

WriteUnlock ==
    /\ command.state = "done"
    /\ command' = NoCommand /\ target' = NULL
    /\ writer' = FALSE
    /\ UNCHANGED <<conf, table, main, readers, writing>>

\* The relayer goes on to the next listener, or begins the next row.
After(l) == IF l = ListenerNum - 1 THEN 0 ELSE l + 1

\* A listener without variables.
Skip ==
    /\ phase = "run" /\ relayer = "none" /\ conf[asked].num = 0
    /\ asked' = After(asked)
    /\ UNCHANGED <<conf, table, main, lock, interpreter, relayer, copied, row>>

ReadLock ==
    /\ phase = "run" /\ relayer = "none" /\ 0 < conf[asked].num
    /\ ~ writer
    /\ relayer' = "locked"
    /\ readers' = readers \cup {"relayer"}
    /\ UNCHANGED <<conf, table, main, writer, interpreter, asked, copied, row>>

\* _mapped_var_evaluator
Evaluate ==
    /\ relayer = "locked" /\ Len(copied) < conf[asked].num
    /\ LET a == Get(conf[asked].ids[Len(copied) + 1])
       IN  copied' = Append(copied, IF a = NULL THEN 0 ELSE items[a].value)
    /\ UNCHANGED <<conf, table, main, lock, interpreter, relayer, asked, row>>

\* The lock is given back and the record is written.
ReadUnlock ==
    /\ relayer = "locked" /\ Len(copied) = conf[asked].num
    /\ relayer' = "none"
    /\ readers' = readers \ {"relayer"}
    /\ row' = [row EXCEPT ![asked] = copied]
    /\ asked' = After(asked)
    /\ copied' = << >>
    /\ UNCHANGED <<conf, table, main, writer, interpreter>>

\* _update_features_file prints what the relayer copied, under the lock.
PrintLock ==
    /\ phase = "run" /\ "filewriter" \notin readers /\ ~ writer
    /\ readers' = readers \cup {"filewriter"}
    /\ UNCHANGED <<conf, table, main, writer, interpreter, writing>>

PrintUnlock ==
    /\ "filewriter" \in readers
    /\ readers' = readers \ {"filewriter"}
    /\ UNCHANGED <<conf, table, main, writer, interpreter, writing>>
-----------------------------------------------------------------------------
(* STOP, when every thread has come to the end of its round, and what follows. *)

Stop ==
    /\ phase = "run" /\ command.state = "none" /\ relayer = "none" /\ readers = {}
    /\ phase' = "shutdown" /\ index' = 0
    /\ UNCHANGED <<conf, table, section, lock, interpreter, writing>>

\* What a row says its item is: nobody knows of a row that was destroyed.
Readings ==
    {r \in [1 .. Len(items) -> 0 .. Len(items)] :
        \A a \in 1 .. Len(items) : a \notin destroyed => r[a] = a}

\* Mutant of RemoveItem: it finds the item, and leaves its row in the table.
RemoveItemFound ==
    /\ phase = "shutdown" /\ Next_row(index) # TableSize
    /\ \E r \in Readings :
          LET item == r[rows[Next_row(index)]]
              same == {s \in Slots : rows[s] # NULL /\ r[rows[s]] = item}
          IN  IF same = {} THEN UNCHANGED <<destroyed, phase>>
              ELSE Destroy(rows[Least(same)], "shutdown")
    /\ index' = Next_row(index) + 1
    /\ UNCHANGED <<conf, items, rows, section, lock, interpreter, writing>>

\* dmap_rem_mapped_var for the next row of SHUTDOWN's iteration: _dmap_rem_item
\* stops at the first row whose item is another one, and destroys that.
RemoveItem ==
    /\ phase = "shutdown" /\ Next_row(index) # TableSize
    /\ \E r \in Readings :
          LET item == r[rows[Next_row(index)]]
              others == {s \in Slots : rows[s] # NULL /\ r[rows[s]] # item}
          IN  IF others = {} THEN UNCHANGED <<destroyed, phase>>
              ELSE Destroy(rows[Least(others)], "shutdown")
    /\ index' = Next_row(index) + 1
    /\ UNCHANGED <<conf, items, rows, section, lock, interpreter, writing>>

\* fsm_dtor and dmap_deinit, after main has left its loop.
Deinit ==
    /\ phase = "shutdown" /\ Next_row(index) = TableSize
    /\ phase' = "deinit" /\ index' = 0
    /\ UNCHANGED <<conf, table, section, lock, interpreter, writing>>

\* _dmap_rem for the next row of _dmap_table_deinit.
RemoveRow ==
    /\ phase = "deinit" /\ Next_row(index) # TableSize
    /\ Destroy(rows[Next_row(index)], "deinit")
    /\ rows' = [rows EXCEPT ![Next_row(index)] = NULL]
    /\ index' = Next_row(index) + 1
    /\ UNCHANGED <<conf, items, section, lock, interpreter, writing>>

Finish ==
    /\ phase = "deinit" /\ Next_row(index) = TableSize
    /\ phase' = "ended"
    /\ UNCHANGED <<conf, table, section, index, lock, interpreter, writing>>

Ended == phase \in {"ended", "broken"} /\ UNCHANGED vars
-----------------------------------------------------------------------------
Next ==
    \/ AddMappedVar \/ NextSection \/ Start
    \/ Command \/ WriteLock \/ Find \/ Assign \/ WriteUnlock
    \/ Skip \/ ReadLock \/ Evaluate \/ ReadUnlock
    \/ PrintLock \/ PrintUnlock
    \/ Stop \/ RemoveItem \/ Deinit \/ RemoveRow \/ Finish \/ Ended

Spec == Init /\ [][Next]_vars
-----------------------------------------------------------------------------
\* Every field keeps its type; rows point to items.
TypeOK ==
    /\ conf \in Confs
    /\ items \in Seq([identifier : Nat, value : Nat])
    /\ rows \in [Slots -> 0 .. Len(items)]
    /\ destroyed \subseteq 1 .. Len(items)
    /\ phase \in {"setup", "run", "shutdown", "deinit", "ended", "broken"}
    /\ section \in 0 .. ListenerNum /\ index \in Nat
    /\ readers \subseteq {"relayer", "filewriter"} /\ writer \in BOOLEAN
    /\ command \in [state : {"none", "read", "locked", "found", "done"}, id : Nat, value : Nat]
    /\ target \in 0 .. Len(items)
    /\ relayer \in {"none", "locked"} /\ asked \in Listeners /\ copied \in Seq(Nat)
    /\ row \in [Listeners -> Seq(Nat)]

Identifiers == {items[a].identifier : a \in DOMAIN items}

ValueOf(id) ==
    IF id \in Identifiers
    THEN items[CHOOSE a \in DOMAIN items : items[a].identifier = id].value ELSE 0

Abstract == INSTANCE MappedVars WITH
    Ids <- Ids \cup {0}, Capacity <- TableSize,
    known <- Identifiers, open <- phase # "setup", value <- [id \in Ids \cup {0} |-> ValueOf(id)]

\* The table under its lock keeps what MappedVars promises: whatever sections
\* name a variable it is added once, a full table leaves out only what is too
\* much, a command changes the variable it names, and a row shows the values of
\* one moment although the relayer reads them one by one.
ShowsMappedVars == Abstract!Spec

\* SHUTDOWN and dmap_deinit free every row exactly once if the table has at most
\* one; with more some row is destroyed twice, whatever destroyed rows read as.
OneRowIsFreedOnce ==
    /\ phase = "ended" => destroyed = 1 .. Len(items) /\ Len(items) <= 1
    /\ phase = "broken" => Len(items) > 1
=============================================================================
