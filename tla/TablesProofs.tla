---------------------------- MODULE TablesProofs ----------------------------
(***************************************************************************)
(* For any configurations, commands and size of the table: the table of    *)
(* mapped variables implements MappedVars, and it is torn down properly    *)
(* exactly if it has at most one row.                                      *)
(*                                                                         *)
(* For any set-up of the program and size of the puffer: nobody waits in a *)
(* circle for the locks of the tables, the accumulator and the puffer, a   *)
(* STOP waits for the living only, and the lock of the sniffers' table     *)
(* leaks only at a second STOP.  The invariant of the locks says which     *)
(* part of its script each actor may have left, who may hold which lock    *)
(* and gives it back later, and what START and STOP have done up to now.   *)
(***************************************************************************)
EXTENDS Tables, Locks, SequenceTheorems, FiniteSetTheorems, NaturalsInduction, WellFoundedInduction, TLAPS

\* Rows are filled from the first slot on, and emptied from there by dmap_deinit.
RowsInOrder ==
    /\ Len(items) <= TableSize
    /\ phase # "broken" => \A s \in Slots :
          rows[s] = IF s < Len(items) /\ ~ (phase \in {"deinit", "ended"} /\ s < index)
                    THEN s + 1 ELSE NULL

\* The items are variables that some section names, each once.
ItemsAreNamed ==
    /\ \A a \in 1 .. Len(items) : items[a].identifier \in Abstract!Named
    /\ \A a, b \in 1 .. Len(items) : items[a].identifier = items[b].identifier => a = b

\* What setup has gone through is in the table, unless the table is full.
NamedAreAdded ==
    phase = "setup" =>
        /\ section < ListenerNum => index <= Len(conf[section].ids)
        /\ \A l \in Listeners : \A i \in 1 .. Len(conf[l].ids) :
              /\ l < section \/ (l = section /\ i <= index)
              /\ conf[l].ids[i] # 0
              => conf[l].ids[i] \in Identifiers \/ Len(items) = TableSize

\* A thread is between lock and unlock when the lock says so, and none is left
\* when SHUTDOWN comes.
LockIsHeld ==
    /\ writer <=> command.state \in {"locked", "found", "done"}
    /\ "relayer" \in readers <=> relayer = "locked"
    /\ writer => readers = {}
    /\ phase # "run" => command.state = "none" /\ relayer = "none" /\ readers = {}
    /\ command.state # "none" => command.id \in Ids /\ command.value \in Values
    /\ command.state = "found" => target = Get(command.id)

\* What the relayer has copied is still what the variables are.
CopiedIsCurrent ==
    /\ relayer = "none" => copied = << >>
    /\ Len(copied) <= conf[asked].num
    /\ \A i \in 1 .. Len(copied) : copied[i] = ValueOf(conf[asked].ids[i])

\* With two rows or more SHUTDOWN destroys the second one first, and dmap_deinit
\* comes to it again.
TearDown ==
    /\ phase \in {"setup", "run"} => destroyed = {}
    /\ phase \in {"shutdown", "deinit"} => index <= Len(items)
    /\ phase = "shutdown" =>
          IF Len(items) <= 1 \/ index = 0 THEN destroyed = {} ELSE 2 \in destroyed
    /\ phase = "deinit" =>
          IF Len(items) <= 1 THEN destroyed = 1 .. index ELSE index <= 1 /\ 2 \in destroyed
    /\ OneRowIsFreedOnce

\* The inductive invariant.
IInv ==
    /\ TypeOK /\ RowsInOrder /\ ItemsAreNamed /\ NamedAreAdded
    /\ LockIsHeld /\ CopiedIsCurrent /\ TearDown

-----------------------------------------------------------------------------
\* The search for the first slot of some kind has a result: the intervals that
\* end there have a smallest one, because strict inclusion is well-founded.
LEMMA LeastIsLeast ==
    ASSUME NEW S \in SUBSET Nat, S # {}
    PROVE  Least(S) \in S /\ \A t \in S : Least(S) <= t
<1> DEFINE T == {0 .. s : s \in S}
<1>1. T \subseteq FiniteSubsetsOf(Nat) /\ T # {}
  <2>1. \A s \in S : 0 .. s \in SUBSET Nat /\ IsFiniteSet(0 .. s)
    BY FS_Interval
  <2> QED BY <2>1 DEF FiniteSubsetsOf
<1>2. PICK x \in T : \A y \in T : <<y, x>> \notin StrictSubsetOrdering(Nat)
  <2> HIDE DEF T
  <2> QED BY ONLY <1>1, FS_StrictSubsetOrderingWellFounded, WFMin
<1>3. PICK s \in S : x = 0 .. s
  OBVIOUS
<1>4. ASSUME NEW t \in S, t < s PROVE FALSE
  <2>1. 0 .. t \subseteq 0 .. s /\ 0 .. t # 0 .. s
    <3>1. s \in 0 .. s /\ s \notin 0 .. t
      BY <1>4
    <3>2. 0 .. t \subseteq 0 .. s
      BY <1>4
    <3> QED BY <3>1, <3>2
  <2>2. \A A, B \in SUBSET Nat :
           A \subseteq B /\ A # B => <<A, B>> \in StrictSubsetOrdering(Nat)
    BY DEF StrictSubsetOrdering
  <2>3. 0 .. t \in SUBSET Nat /\ 0 .. s \in SUBSET Nat
    OBVIOUS
  <2>4. <<0 .. t, 0 .. s>> \in StrictSubsetOrdering(Nat)
    BY <2>1, <2>2, <2>3
  <2> QED BY <1>2, <1>3, <2>4
<1>5. \A t \in S : s <= t
  BY <1>4
<1> QED BY <1>5 DEF Least

LEMMA LeastIs ==
    ASSUME NEW S \in SUBSET Nat, NEW s \in S, \A t \in S : s <= t
    PROVE  Least(S) = s
<1>1. Least(S) \in S /\ Least(S) <= s
  BY LeastIsLeast
<1>2. s <= Least(S) /\ s \in Nat /\ Least(S) \in Nat
  BY <1>1
<1> QED BY <1>1, <1>2

LEMMA ConfsAreConfs ==
    ASSUME TypeOK, NEW l \in Listeners
    PROVE  /\ conf[l].ids \in Seq(Ids \cup {0})
           /\ Len(conf[l].ids) \in Nat
           /\ conf[l].num \in 0 .. Len(conf[l].ids)
BY ConstantsAssumption, LenProperties DEF TypeOK

\* An iteration that comes in order finds the next row until there is none.
LEMMA NextRowInOrder ==
    ASSUME TypeOK, RowsInOrder, phase \in {"shutdown", "deinit"}, index <= Len(items)
    PROVE  Next_row(index) = IF index < Len(items) THEN index ELSE TableSize
<1> DEFINE filled == {s \in Slots : s >= index /\ rows[s] # NULL}
<1>1. Len(items) \in Nat /\ index \in Nat /\ TableSize \in Nat
  BY ConstantsAssumption, LenProperties DEF TypeOK
<1>2. \A s \in Slots : s >= index => (rows[s] # NULL <=> s < Len(items))
  BY <1>1 DEF RowsInOrder, Slots, NULL
<1>3. CASE index < Len(items)
  <2>1. filled \in SUBSET Nat /\ index \in filled /\ \A t \in filled : index <= t
    BY <1>1, <1>2, <1>3 DEF Slots, RowsInOrder
  <2>2. Least(filled) = index
    <3> HIDE DEF filled
    <3> QED BY <2>1, LeastIs
  <2> QED BY <1>3, <2>1, <2>2 DEF Next_row
<1>4. CASE ~ index < Len(items)
  <2>1. filled = {}
    BY <1>1, <1>2, <1>4 DEF Slots
  <2> QED BY <1>4, <2>1 DEF Next_row
<1> QED BY <1>3, <1>4

\* A search by identifier finds the one item with it, or none.
LEMMA GetFindsIt ==
    ASSUME TypeOK, RowsInOrder, ItemsAreNamed, phase \in {"setup", "run"}, NEW id
    PROVE  /\ id \notin Identifiers => Get(id) = NULL
           /\ \A a \in 1 .. Len(items) : items[a].identifier = id => Get(id) = a
<1> DEFINE match == {s \in Slots : rows[s] # NULL /\ items[rows[s]].identifier = id}
<1>1. Len(items) \in Nat /\ TableSize \in Nat /\ DOMAIN items = 1 .. Len(items)
  BY ConstantsAssumption, LenProperties DEF TypeOK
<1>2. \A s \in Slots : rows[s] = IF s < Len(items) THEN s + 1 ELSE NULL
  BY DEF RowsInOrder
<1>3. \A s \in Slots : s \in match <=> s < Len(items) /\ items[s + 1].identifier = id
  BY <1>1, <1>2 DEF Slots, NULL
<1>4. ASSUME id \notin Identifiers PROVE Get(id) = NULL
  <2>1. match = {}
    BY <1>1, <1>3, <1>4 DEF Identifiers, Slots
  <2> QED BY <2>1 DEF Get
<1>5. ASSUME NEW a \in 1 .. Len(items), items[a].identifier = id PROVE Get(id) = a
  <2>1. a - 1 \in Slots
    BY <1>1 DEF Slots, RowsInOrder
  <2>2. match = {a - 1}
    <3>1. a - 1 \in match
      BY <1>1, <1>3, <1>5, <2>1
    <3>2. \A s \in match : s = a - 1
      BY <1>1, <1>3, <1>5 DEF ItemsAreNamed, Slots
    <3> QED BY <3>1, <3>2
  <2>3. Least(match) = a - 1
    <3> HIDE DEF match
    <3> QED BY <1>1, <2>2, LeastIs
  <2>4. rows[a - 1] = a
    BY <1>1, <1>2, <2>1
  <2> QED BY <2>2, <2>3, <2>4 DEF Get
<1> QED BY <1>4, <1>5

LEMMA ValueOfItem ==
    ASSUME TypeOK, ItemsAreNamed, NEW a \in 1 .. Len(items)
    PROVE  ValueOf(items[a].identifier) = items[a].value
<1>1. DOMAIN items = 1 .. Len(items)
  BY LenProperties DEF TypeOK
<1>2. (CHOOSE b \in DOMAIN items : items[b].identifier = items[a].identifier) = a
  BY <1>1 DEF ItemsAreNamed
<1> QED BY <1>1, <1>2 DEF ValueOf, Identifiers

-----------------------------------------------------------------------------
LEMMA InitIInv == Init => IInv
<1> SUFFICES ASSUME Init PROVE IInv
  OBVIOUS
<1> USE DEF Init
<1>1. items = << >> /\ Len(items) = 0
  OBVIOUS
<1>2. TypeOK
  <2>1. conf \in Confs /\ items \in Seq([identifier : Nat, value : Nat])
    OBVIOUS
  <2>2. rows \in [Slots -> 0 .. Len(items)]
    BY <1>1 DEF NULL
  <2>3. copied \in Seq(Nat) /\ row \in [Listeners -> Seq(Nat)]
    OBVIOUS
  <2>4. asked \in Listeners /\ section \in 0 .. ListenerNum
    BY ConstantsAssumption DEF Listeners
  <2>5. command \in [state : {"none", "read", "locked", "found", "done"}, id : Nat, value : Nat]
    BY DEF NoCommand
  <2>6. destroyed \subseteq 1 .. Len(items) /\ readers \subseteq {"relayer", "filewriter"}
    OBVIOUS
  <2>7. target \in 0 .. Len(items) /\ index \in Nat
    BY <1>1 DEF NULL
  <2>8. writer \in BOOLEAN
    OBVIOUS
  <2> QED BY <2>1, <2>2, <2>3, <2>4, <2>5, <2>6, <2>7, <2>8 DEF TypeOK
<1>3. RowsInOrder /\ ItemsAreNamed
  BY <1>1, ConstantsAssumption DEF RowsInOrder, ItemsAreNamed, Slots, NULL
<1>4. NamedAreAdded
  <2>1. \A l \in Listeners : Len(conf[l].ids) \in Nat
    BY <1>2, ConfsAreConfs
  <2> QED BY <2>1, ConstantsAssumption DEF NamedAreAdded, Listeners
<1>5. LockIsHeld /\ CopiedIsCurrent
  <2>1. conf[asked].num >= 0
    BY <1>2, ConfsAreConfs DEF TypeOK
  <2> QED BY <2>1 DEF LockIsHeld, CopiedIsCurrent, NoCommand
<1>6. TearDown
  BY DEF TearDown, OneRowIsFreedOnce
<1> QED BY <1>2, <1>3, <1>4, <1>5, <1>6 DEF IInv

\* Most steps between START and STOP leave the table alone.
LEMMA TableFrame ==
    ASSUME IInv, UNCHANGED <<conf, table, main>>
    PROVE  RowsInOrder' /\ ItemsAreNamed' /\ NamedAreAdded' /\ TearDown'
<1> USE DEF table, main, IInv
<1>1. RowsInOrder' /\ TearDown'
  BY DEF RowsInOrder, TearDown, OneRowIsFreedOnce
<1>2. ItemsAreNamed'
  <2>1. Abstract!Named' = Abstract!Named
    BY DEF Abstract!Named
  <2> QED BY <2>1 DEF ItemsAreNamed
<1>3. NamedAreAdded'
  BY DEF NamedAreAdded, Identifiers
<1> QED BY <1>1, <1>2, <1>3

-----------------------------------------------------------------------------
(* Setup. *)

\* Without a new row only the index goes on.
LEMMA AddNothingIInv ==
    ASSUME IInv, AddMappedVar, UNCHANGED <<items, rows>>,
           LET id == conf[section].ids[index + 1]
           IN  id = 0 \/ id \in Identifiers \/ Len(items) = TableSize
    PROVE  IInv'
<1> USE DEF AddMappedVar, lock, interpreter, writing
<1>1. section \in Listeners /\ index \in Nat /\ section \in Int
  BY ConstantsAssumption DEF IInv, TypeOK, Listeners
<1>2. Len(conf[section].ids) \in Nat /\ TypeOK
  BY <1>1, ConfsAreConfs DEF IInv
<1>3. TypeOK'
  <2>1. index' \in Nat /\ UNCHANGED <<conf, items, rows, destroyed, phase, section, readers, writer,
                                     command, target, relayer, asked, copied, row>>
    BY <1>1
  <2> QED BY <2>1 DEF IInv, TypeOK
<1>4. RowsInOrder' /\ TearDown'
  BY DEF IInv, RowsInOrder, TearDown, OneRowIsFreedOnce
<1>5. ItemsAreNamed'
  <2>1. Abstract!Named' = Abstract!Named
    BY DEF Abstract!Named
  <2> QED BY <2>1 DEF IInv, ItemsAreNamed
<1>6. NamedAreAdded'
  <2>1. Identifiers' = Identifiers
    BY DEF Identifiers
  <2>2. ASSUME NEW l \in Listeners, NEW i \in 1 .. Len(conf[l].ids),
               l < section \/ (l = section /\ i <= index + 1), conf[l].ids[i] # 0
        PROVE  conf[l].ids[i] \in Identifiers \/ Len(items) = TableSize
    <3>1. CASE l < section \/ (l = section /\ i <= index)
      BY <2>2, <3>1 DEF IInv, NamedAreAdded
    <3>2. CASE l = section /\ i = index + 1
      BY <2>2, <3>2
    <3>3. i \in Int
      OBVIOUS
    <3> QED BY <1>1, <2>2, <3>1, <3>2, <3>3
  <2> QED BY <1>1, <1>2, <2>1, <2>2 DEF NamedAreAdded
<1>7. LockIsHeld' /\ CopiedIsCurrent'
  <2>1. command.state = "none" /\ copied = << >>
    BY DEF IInv, LockIsHeld, CopiedIsCurrent
  <2> QED BY <2>1 DEF IInv, LockIsHeld, CopiedIsCurrent
<1> QED BY <1>3, <1>4, <1>5, <1>6, <1>7 DEF IInv

\* A new variable goes into the first slot that is free.
LEMMA AddRowAppends ==
    ASSUME IInv, phase = "setup", NEW item, AddRow(item), Len(items) < TableSize
    PROVE  /\ items' = Append(items, item)
           /\ rows' = [rows EXCEPT ![Len(items)] = Len(items) + 1]
<1> DEFINE free == {s \in Slots : rows[s] = NULL}
<1>1. Len(items) \in Nat /\ TableSize \in Nat
  BY ConstantsAssumption, LenProperties DEF IInv, TypeOK
<1>2. free = Len(items) .. TableSize - 1
  BY <1>1 DEF IInv, RowsInOrder, Slots, NULL
<1>3. free # {} /\ Least(free) = Len(items)
  <2>1. free \in SUBSET Nat /\ Len(items) \in free /\ \A t \in free : Len(items) <= t
    BY <1>1, <1>2
  <2> HIDE DEF free
  <2> QED BY <2>1, LeastIs
<1> QED BY <1>3 DEF AddRow

LEMMA AddRowIInv ==
    ASSUME IInv, AddMappedVar, Len(items) < TableSize,
           LET id == conf[section].ids[index + 1]
           IN  /\ id # 0 /\ id \notin Identifiers
               /\ AddRow([identifier |-> id, value |-> 0])
    PROVE  IInv'
<1> DEFINE id == conf[section].ids[index + 1]
           item == [identifier |-> id, value |-> 0]
           n == Len(items)
<1>1. phase = "setup" /\ section \in Listeners /\ index \in Nat /\ index + 1 \in 1 .. Len(conf[section].ids)
  <2>1. section \in Listeners /\ phase = "setup"
    BY ConstantsAssumption DEF IInv, TypeOK, Listeners, AddMappedVar
  <2>2. Len(conf[section].ids) \in Nat
    BY <2>1, ConfsAreConfs DEF IInv
  <2> QED BY <2>1, <2>2 DEF IInv, TypeOK, AddMappedVar
<1>2. n \in Nat /\ TableSize \in Nat /\ DOMAIN items = 1 .. n
  BY ConstantsAssumption, LenProperties DEF IInv, TypeOK
<1>3. id \in Ids /\ id \in Nat /\ id \in Abstract!Named
  <2>1. conf[section].ids \in Seq(Ids \cup {0})
    BY <1>1, ConfsAreConfs DEF IInv
  <2>2. id \in Ids \cup {0} /\ index + 1 \in DOMAIN conf[section].ids
    BY <1>1, <2>1, ElementOfSeq, LenProperties
  <2>3. id # 0 /\ id \in {conf[section].ids[i] : i \in DOMAIN conf[section].ids}
    BY <2>2
  <2>4. id \in Abstract!Named
    BY <1>1, <2>3 DEF Abstract!Named
  <2> HIDE DEF id
  <2> QED BY <2>2, <2>3, <2>4, ConstantsAssumption
<1>4. /\ items' = Append(items, item)
      /\ rows' = [rows EXCEPT ![n] = n + 1]
  BY <1>1, AddRowAppends
<1>5. /\ Len(items') = n + 1 /\ items'[n + 1] = item
      /\ \A a \in 1 .. n : items'[a] = items[a]
      /\ items' \in Seq([identifier : Nat, value : Nat])
      /\ DOMAIN items' = 1 .. n + 1
  <2>1. item \in [identifier : Nat, value : Nat]
    BY <1>3
  <2>2. items \in Seq([identifier : Nat, value : Nat])
    BY DEF IInv, TypeOK
  <2> HIDE DEF item
  <2> QED BY <1>2, <1>4, <2>1, <2>2, AppendProperties
<1>6. UNCHANGED <<conf, destroyed, phase, section, readers, writer, command, target,
                  relayer, asked, copied, row>> /\ index' = index + 1
  BY DEF AddMappedVar, lock, interpreter, writing
<1>7. destroyed = {} /\ command.state = "none" /\ relayer = "none" /\ copied = << >>
  BY <1>1 DEF IInv, TearDown, LockIsHeld, CopiedIsCurrent
<1> HIDE DEF item
<1>8. TypeOK'
  <2>1. rows' \in [Slots -> 0 .. n + 1]
    <3>1. rows \in [Slots -> 0 .. n]
      BY DEF IInv, TypeOK
    <3>2. rows' = [rows EXCEPT ![n] = n + 1]
      BY <1>4
    <3> HIDE DEF n
    <3>3. 0 .. n \subseteq 0 .. n + 1 /\ n + 1 \in 0 .. n + 1
      BY <1>2
    <3> QED BY <3>1, <3>2, <3>3
  <2>2. target' \in 0 .. n + 1
    BY <1>2, <1>6 DEF IInv, TypeOK
  <2> QED BY <1>1, <1>5, <1>6, <1>7, <2>1, <2>2 DEF IInv, TypeOK
<1>9. RowsInOrder'
  <2>1. \A s \in Slots : rows[s] = IF s < n THEN s + 1 ELSE NULL
    BY <1>1 DEF IInv, RowsInOrder
  <2>2. \A s \in Slots : rows'[s] = IF s < n + 1 THEN s + 1 ELSE NULL
    <3>1. rows \in [Slots -> 0 .. n]
      BY DEF IInv, TypeOK
    <3> HIDE DEF n
    <3> QED BY <1>2, <1>4, <2>1, <3>1 DEF Slots, NULL
  <2> QED BY <1>1, <1>2, <1>5, <1>6, <2>2 DEF RowsInOrder
<1>10. ItemsAreNamed'
  <2>1. Abstract!Named' = Abstract!Named
    BY <1>6 DEF Abstract!Named
  <2>2. item.identifier = id
    BY DEF item
  <2>3. \A a \in 1 .. n : items[a].identifier # id
    BY <1>2 DEF Identifiers
  <2>4. /\ \A a \in 1 .. n : items[a].identifier \in Abstract!Named
        /\ \A a, b \in 1 .. n : items[a].identifier = items[b].identifier => a = b
    BY DEF IInv, ItemsAreNamed
  <2> HIDE DEF id, n
  <2>5. \A a \in 1 .. n + 1 : a \in 1 .. n \/ a = n + 1
    BY <1>2
  <2>6. \A a \in 1 .. n + 1 : items'[a].identifier \in Abstract!Named
    BY <1>3, <1>5, <2>2, <2>4, <2>5
  <2>7. \A a, b \in 1 .. n + 1 : items'[a].identifier = items'[b].identifier => a = b
    BY <1>5, <2>2, <2>3, <2>4, <2>5
  <2> QED BY <1>5, <2>1, <2>6, <2>7 DEF ItemsAreNamed
<1>11. NamedAreAdded'
  <2>1. Identifiers \subseteq Identifiers' /\ id \in Identifiers'
    BY <1>2, <1>5 DEF Identifiers, item
  <2>2. n # TableSize /\ phase = "setup"
    BY <1>1
  <2>3. ASSUME NEW l \in Listeners, NEW i \in 1 .. Len(conf[l].ids),
               l < section \/ (l = section /\ i <= index + 1), conf[l].ids[i] # 0
        PROVE  conf[l].ids[i] \in Identifiers'
    <3>1. CASE l < section \/ (l = section /\ i <= index)
      BY <2>1, <2>2, <2>3, <3>1 DEF IInv, NamedAreAdded
    <3>2. CASE l = section /\ i = index + 1
      BY <2>1, <3>2
    <3>3. i \in Int
      OBVIOUS
    <3> QED BY <1>1, <2>3, <3>1, <3>2, <3>3
  <2> QED BY <1>1, <1>6, <2>3 DEF NamedAreAdded
<1>12. LockIsHeld' /\ CopiedIsCurrent'
  BY <1>6, <1>7 DEF IInv, LockIsHeld, CopiedIsCurrent
<1>13. TearDown'
  BY <1>1, <1>6, <1>7 DEF IInv, TearDown, OneRowIsFreedOnce
<1> QED BY <1>8, <1>9, <1>10, <1>11, <1>12, <1>13 DEF IInv

LEMMA AddMappedVarIInv == ASSUME IInv, AddMappedVar PROVE IInv'
<1> DEFINE id == conf[section].ids[index + 1]
           item == [identifier |-> id, value |-> 0]
<1>1. Len(items) \in Nat /\ TableSize \in Nat /\ phase = "setup" /\ DOMAIN items = 1 .. Len(items)
  BY ConstantsAssumption, LenProperties DEF IInv, TypeOK, AddMappedVar
<1>2. IF id = 0 \/ Get(id) # NULL THEN UNCHANGED <<items, rows>> ELSE AddRow(item)
  BY DEF AddMappedVar
<1>3. CASE id = 0 \/ Get(id) # NULL
  <2>1. id = 0 \/ id \in Identifiers
    BY <1>1, <1>3, GetFindsIt DEF IInv
  <2> QED BY <1>2, <1>3, <2>1, AddNothingIInv
<1>4. CASE id # 0 /\ Get(id) = NULL
  <2>1. AddRow(item)
    BY <1>2, <1>4
  <2>2. id \notin Identifiers
    <3>1. \A a \in 1 .. Len(items) : items[a].identifier = id => Get(id) = a
      BY <1>1, GetFindsIt DEF IInv
    <3> QED BY <1>1, <1>4, <3>1 DEF Identifiers, NULL
  <2>3. CASE Len(items) < TableSize
    BY <1>4, <2>1, <2>2, <2>3, AddRowIInv
  <2>4. CASE Len(items) = TableSize
    <3>1. {s \in Slots : rows[s] = NULL} = {}
      BY <1>1, <2>4 DEF IInv, RowsInOrder, Slots, NULL
    <3>2. UNCHANGED <<items, rows>>
      BY <2>1, <3>1 DEF AddRow
    <3> QED BY <2>4, <3>2, AddNothingIInv
  <2>5. Len(items) <= TableSize
    BY DEF IInv, RowsInOrder
  <2>6. Len(items) < TableSize \/ Len(items) = TableSize
    <3>1. \A m, n \in Nat : m <= n => m < n \/ m = n
      OBVIOUS
    <3>2. Len(items) \in Nat /\ TableSize \in Nat
      BY <1>1
    <3> QED BY <2>5, <3>1, <3>2
  <2> QED BY <2>3, <2>4, <2>6
<1> QED BY <1>3, <1>4

LEMMA SetupIInv == ASSUME IInv, NextSection \/ Start PROVE IInv'
<1> USE DEF table, lock, interpreter, writing
<1>1. /\ UNCHANGED <<conf, items, rows, destroyed, readers, writer, command, target,
                     relayer, asked, copied, row>>
      /\ phase = "setup" /\ phase' \in {"setup", "run"}
  BY DEF NextSection, Start
<1>2. section \in Nat /\ section <= ListenerNum /\ ListenerNum \in Nat
  BY ConstantsAssumption DEF IInv, TypeOK
<1>3. section' \in 0 .. ListenerNum /\ index' \in Nat
  BY <1>2 DEF NextSection, Start, IInv, TypeOK
<1>4. TypeOK'
  BY <1>1, <1>3 DEF IInv, TypeOK
<1>5. RowsInOrder' /\ TearDown'
  BY <1>1 DEF IInv, RowsInOrder, TearDown, OneRowIsFreedOnce
<1>6. ItemsAreNamed'
  <2>1. Abstract!Named' = Abstract!Named
    BY <1>1 DEF Abstract!Named
  <2> QED BY <1>1, <2>1 DEF IInv, ItemsAreNamed
<1>7. NamedAreAdded'
  <2>1. CASE NextSection
    <3>1. \A l \in Listeners : Len(conf[l].ids) \in Nat
      BY ConfsAreConfs DEF IInv
    <3>2. /\ section' = section + 1 /\ index' = 0 /\ section < ListenerNum
          /\ index = Len(conf[section].ids) /\ Identifiers' = Identifiers
      BY <1>1, <2>1 DEF NextSection, Identifiers
    <3>3. ASSUME NEW l \in Listeners, NEW i \in 1 .. Len(conf[l].ids), conf[l].ids[i] # 0,
                 l < section + 1 \/ (l = section + 1 /\ i <= 0)
          PROVE  conf[l].ids[i] \in Identifiers \/ Len(items) = TableSize
      <4>1. l < section \/ (l = section /\ i <= index)
        BY <1>2, <3>1, <3>2, <3>3 DEF Listeners
      <4> QED BY <1>1, <3>3, <4>1 DEF IInv, NamedAreAdded
    <3>4. section' < ListenerNum => index' <= Len(conf[section'].ids)
      BY <1>2, <3>1, <3>2 DEF Listeners
    <3> QED BY <1>1, <3>2, <3>3, <3>4 DEF NamedAreAdded
  <2>2. CASE Start
    BY <2>2 DEF Start, NamedAreAdded
  <2> QED BY <2>1, <2>2
<1>8. LockIsHeld' /\ CopiedIsCurrent'
  <2>1. command.state = "none" /\ copied = << >> /\ relayer = "none"
    BY <1>1 DEF IInv, LockIsHeld, CopiedIsCurrent
  <2> QED BY <1>1, <2>1 DEF IInv, LockIsHeld, CopiedIsCurrent
<1> QED BY <1>4, <1>5, <1>6, <1>7, <1>8 DEF IInv

-----------------------------------------------------------------------------
(* The command interpreter. *)

LEMMA CommandIInv == ASSUME IInv, Command \/ WriteLock \/ Find \/ WriteUnlock PROVE IInv'
<1> USE DEF table, main, lock, interpreter, writing
<1>1. UNCHANGED <<conf, items, rows, destroyed, phase, section, index, readers,
                  relayer, asked, copied, row>>
  BY DEF Command, WriteLock, Find, WriteUnlock
<1>2. RowsInOrder' /\ ItemsAreNamed' /\ NamedAreAdded' /\ TearDown'
  BY <1>1, TableFrame
<1>3. CopiedIsCurrent'
  <2>1. \A id : ValueOf(id)' = ValueOf(id)
    BY <1>1 DEF ValueOf, Identifiers
  <2> QED BY <1>1, <2>1 DEF IInv, CopiedIsCurrent
<1>4. TypeOK' /\ LockIsHeld'
  <2>1. CASE Command
    <3>1. PICK id \in Ids, v \in Values : command' = [state |-> "read", id |-> id, value |-> v]
      BY <2>1 DEF Command
    <3>2. /\ command' \in [state : {"none", "read", "locked", "found", "done"}, id : Nat, value : Nat]
          /\ command'.state = "read" /\ command'.id \in Ids /\ command'.value \in Values
      BY <3>1, ConstantsAssumption
    <3>3. UNCHANGED <<writer, target>> /\ phase = "run" /\ command.state = "none"
      BY <2>1 DEF Command
    <3>4. TypeOK'
      BY <1>1, <3>2, <3>3 DEF IInv, TypeOK
    <3>5. LockIsHeld'
      BY <1>1, <3>2, <3>3 DEF IInv, LockIsHeld
    <3> QED BY <3>4, <3>5
  <2>2. CASE WriteLock
    <3>1. command.state = "read" /\ phase = "run" /\ readers = {} /\ UNCHANGED target
      BY <2>2 DEF WriteLock, IInv, LockIsHeld
    <3>2. /\ command' \in [state : {"none", "read", "locked", "found", "done"}, id : Nat, value : Nat]
          /\ command'.state = "locked" /\ command'.id = command.id /\ command'.value = command.value
      BY <2>2 DEF WriteLock, IInv, TypeOK
    <3>3. writer' = TRUE
      BY <2>2 DEF WriteLock
    <3>4. TypeOK'
      BY <1>1, <3>1, <3>2, <3>3 DEF IInv, TypeOK
    <3>5. LockIsHeld'
      BY <1>1, <3>1, <3>2, <3>3 DEF IInv, LockIsHeld
    <3> QED BY <3>4, <3>5
  <2>3. CASE Find
    <3>1. command.state = "locked" /\ phase = "run" /\ UNCHANGED writer
      BY <2>3 DEF Find, IInv, LockIsHeld
    <3>2. /\ command' \in [state : {"none", "read", "locked", "found", "done"}, id : Nat, value : Nat]
          /\ command'.state = "found" /\ command'.id = command.id /\ command'.value = command.value
      BY <2>3 DEF Find, IInv, TypeOK
    <3>3. target' = Get(command.id) /\ target' \in 0 .. Len(items)
      <4>1. Len(items) \in Nat /\ DOMAIN items = 1 .. Len(items)
        BY LenProperties DEF IInv, TypeOK
      <4>2. Get(command.id) \in 0 .. Len(items)
        BY <3>1, <4>1, GetFindsIt DEF IInv, Identifiers, NULL
      <4> QED BY <2>3, <4>2 DEF Find
    <3>4. TypeOK'
      BY <1>1, <3>1, <3>2, <3>3 DEF IInv, TypeOK
    <3>5. Get(command.id)' = Get(command.id)
      BY <1>1, <3>2 DEF Get
    <3>6. LockIsHeld'
      BY <1>1, <3>1, <3>2, <3>3, <3>5 DEF IInv, LockIsHeld
    <3> QED BY <3>4, <3>6
  <2>4. CASE WriteUnlock
    <3>1. command' = NoCommand /\ target' = NULL /\ writer' = FALSE
      BY <2>4 DEF WriteUnlock
    <3>2. command' \in [state : {"none", "read", "locked", "found", "done"}, id : Nat, value : Nat]
      BY <3>1 DEF NoCommand
    <3>3. TypeOK'
      <4>1. target' \in 0 .. Len(items)
        BY <3>1, LenProperties DEF IInv, TypeOK, NULL
      <4> QED BY <1>1, <3>1, <3>2, <4>1 DEF IInv, TypeOK
    <3>4. LockIsHeld'
      BY <1>1, <3>1 DEF IInv, LockIsHeld, NoCommand
    <3> QED BY <3>3, <3>4
  <2> QED BY <2>1, <2>2, <2>3, <2>4
<1> QED BY <1>2, <1>3, <1>4 DEF IInv

\* Nobody reads while the interpreter writes.
LEMMA AssignIInv == ASSUME IInv, Assign PROVE IInv'
<1> USE DEF table, main, lock, interpreter, writing
<1>1. /\ UNCHANGED <<conf, rows, destroyed, phase, section, index, readers, writer, target,
                     relayer, asked, copied, row>>
      /\ command.state = "found"
      /\ items' = IF target = NULL THEN items ELSE [items EXCEPT ![target].value = command.value]
      /\ command' = [command EXCEPT !.state = "done"]
  BY DEF Assign
<1>2. /\ items \in Seq([identifier : Nat, value : Nat]) /\ target \in 0 .. Len(items)
      /\ command.value \in Nat /\ Len(items) \in Nat
      /\ command \in [state : {"none", "read", "locked", "found", "done"}, id : Nat, value : Nat]
  BY LenProperties DEF IInv, TypeOK
<1>3. /\ items' \in Seq([identifier : Nat, value : Nat]) /\ Len(items') = Len(items)
      /\ \A a \in 1 .. Len(items) : items'[a].identifier = items[a].identifier
  <2>1. CASE target = NULL
    BY <1>1, <2>1, <1>2
  <2>2. CASE target # NULL
    <3>1. target \in 1 .. Len(items)
      BY <1>2, <2>2 DEF NULL
    <3> DEFINE item == [items[target] EXCEPT !.value = command.value]
    <3>2. items[target] \in [identifier : Nat, value : Nat]
      BY <1>2, <3>1, ElementOfSeq
    <3>3. item \in [identifier : Nat, value : Nat] /\ item.identifier = items[target].identifier
      BY <1>2, <3>2
    <3>4. items' = [items EXCEPT ![target] = item]
      BY <1>1, <2>2
    <3> HIDE DEF item
    <3> QED BY <1>2, <3>1, <3>3, <3>4, ExceptSeq
  <2> QED BY <2>1, <2>2
<1>4. /\ command' \in [state : {"none", "read", "locked", "found", "done"}, id : Nat, value : Nat]
      /\ command'.state = "done" /\ command'.id = command.id /\ command'.value = command.value
  BY <1>1, <1>2
<1>5. relayer = "none" /\ phase = "run" /\ copied = << >>
  <2>1. readers = {} /\ phase = "run"
    BY <1>1 DEF IInv, LockIsHeld
  <2>2. relayer # "locked"
    BY <2>1 DEF IInv, LockIsHeld
  <2> QED BY <2>1, <2>2 DEF IInv, TypeOK, CopiedIsCurrent
<1>6. TypeOK'
  BY <1>1, <1>3, <1>4 DEF IInv, TypeOK
<1>7. RowsInOrder' /\ TearDown'
  BY <1>1, <1>3 DEF IInv, RowsInOrder, TearDown, OneRowIsFreedOnce
<1>8. ItemsAreNamed'
  <2>1. Abstract!Named' = Abstract!Named
    BY <1>1 DEF Abstract!Named
  <2> QED BY <1>3, <2>1 DEF IInv, ItemsAreNamed
<1>9. NamedAreAdded'
  BY <1>1, <1>5 DEF NamedAreAdded
<1>10. LockIsHeld' /\ CopiedIsCurrent'
  BY <1>1, <1>4, <1>5 DEF IInv, LockIsHeld, CopiedIsCurrent
<1> QED BY <1>6, <1>7, <1>8, <1>9, <1>10 DEF IInv

-----------------------------------------------------------------------------
(* The relayer and the filewriter. *)

LEMMA SameValues == UNCHANGED items => \A id : ValueOf(id)' = ValueOf(id)
BY DEF ValueOf, Identifiers

LEMMA AfterIsListener == \A l \in Listeners : After(l) \in Listeners
BY ConstantsAssumption DEF After, Listeners

LEMMA EvaluateIInv == ASSUME IInv, Evaluate PROVE IInv'
<1> USE DEF table, main, lock, interpreter, writing
<1> DEFINE id == conf[asked].ids[Len(copied) + 1]
           a == Get(id)
           value == IF a = NULL THEN 0 ELSE items[a].value
<1>1. /\ UNCHANGED <<conf, items, rows, destroyed, phase, section, index, readers, writer,
                     command, target, relayer, asked, row>>
      /\ relayer = "locked" /\ Len(copied) < conf[asked].num /\ copied' = Append(copied, value)
  BY DEF Evaluate
<1>2. RowsInOrder' /\ ItemsAreNamed' /\ NamedAreAdded' /\ TearDown'
  BY <1>1, TableFrame
<1>3. /\ asked \in Listeners /\ copied \in Seq(Nat) /\ Len(copied) \in Nat
      /\ conf[asked].num \in Nat /\ Len(items) \in Nat /\ DOMAIN items = 1 .. Len(items)
      /\ phase = "run"
  BY <1>1, ConfsAreConfs, LenProperties DEF IInv, TypeOK, LockIsHeld
<1>4. value = ValueOf(id) /\ value \in Nat
  <2>1. CASE id \notin Identifiers
    BY <1>3, <2>1, GetFindsIt DEF IInv, ValueOf
  <2>2. CASE id \in Identifiers
    <3>1. PICK b \in 1 .. Len(items) : items[b].identifier = id
      BY <1>3, <2>2 DEF Identifiers
    <3>2. a = b /\ ValueOf(id) = items[b].value
      BY <1>3, <3>1, GetFindsIt, ValueOfItem DEF IInv
    <3>3. items[b].value \in Nat
      <4>1. items[b] \in [identifier : Nat, value : Nat]
        BY <3>1, ElementOfSeq DEF IInv, TypeOK
      <4> QED BY <4>1
    <3> QED BY <1>3, <3>2, <3>3 DEF NULL
  <2> QED BY <2>1, <2>2
<1>5. /\ copied' \in Seq(Nat) /\ Len(copied') = Len(copied) + 1
      /\ copied'[Len(copied) + 1] = ValueOf(id)
      /\ \A i \in 1 .. Len(copied) : copied'[i] = copied[i]
  <2> HIDE DEF value
  <2> QED BY <1>1, <1>3, <1>4, AppendProperties
<1>6. TypeOK' /\ LockIsHeld'
  <2>1. TypeOK'
    BY <1>1, <1>5 DEF IInv, TypeOK
  <2>2. Get(command.id)' = Get(command.id)
    BY <1>1 DEF Get
  <2> QED BY <1>1, <2>1, <2>2 DEF IInv, LockIsHeld
<1>7. CopiedIsCurrent'
  <2>1. \A i \in 1 .. Len(copied) : copied[i] = ValueOf(conf[asked].ids[i])
    BY DEF IInv, CopiedIsCurrent
  <2>2. ASSUME NEW i \in 1 .. Len(copied) + 1 PROVE copied'[i] = ValueOf(conf[asked].ids[i])
    <3>1. i \in 1 .. Len(copied) \/ i = Len(copied) + 1
      BY <1>3
    <3> QED BY <1>5, <2>1, <3>1
  <2> QED BY <1>1, <1>3, <1>5, <2>2, SameValues DEF CopiedIsCurrent
<1> QED BY <1>2, <1>6, <1>7 DEF IInv

LEMMA RelayerIInv == ASSUME IInv, Skip \/ ReadLock \/ ReadUnlock PROVE IInv'
<1> USE DEF table, main, lock, interpreter, writing
<1>1. UNCHANGED <<conf, items, rows, destroyed, phase, section, index, writer, command, target>>
  BY DEF Skip, ReadLock, ReadUnlock
<1>2. RowsInOrder' /\ ItemsAreNamed' /\ NamedAreAdded' /\ TearDown'
  BY <1>1, TableFrame
<1>3. Get(command.id)' = Get(command.id)
  BY <1>1 DEF Get
<1>4. asked \in Listeners /\ copied \in Seq(Nat) /\ row \in [Listeners -> Seq(Nat)] /\ << >> \in Seq(Nat)
  BY DEF IInv, TypeOK
<1>5. After(asked) \in Listeners /\ \A l \in Listeners : conf[l].num >= 0
  BY <1>4, AfterIsListener, ConfsAreConfs DEF IInv
<1>6. CASE Skip
  <2>1. UNCHANGED <<readers, relayer, copied, row>> /\ asked' = After(asked) /\ copied = << >>
    BY <1>6 DEF Skip, IInv, CopiedIsCurrent
  <2>2. TypeOK' /\ LockIsHeld'
    BY <1>1, <1>3, <1>5, <2>1 DEF IInv, TypeOK, LockIsHeld
  <2>3. CopiedIsCurrent'
    BY <1>1, <1>5, <2>1 DEF CopiedIsCurrent
  <2> QED BY <1>2, <2>2, <2>3 DEF IInv
<1>7. CASE ReadLock
  <2>1. /\ UNCHANGED <<asked, copied, row>> /\ copied = << >> /\ phase = "run" /\ writer = FALSE
        /\ relayer' = "locked" /\ readers' = readers \cup {"relayer"}
    BY <1>7 DEF ReadLock, IInv, CopiedIsCurrent, TypeOK
  <2>2. TypeOK'
    BY <1>1, <2>1 DEF IInv, TypeOK
  <2>3. LockIsHeld'
    BY <1>1, <1>3, <2>1 DEF IInv, LockIsHeld
  <2>4. CopiedIsCurrent'
    BY <1>1, <1>4, <1>5, <2>1 DEF CopiedIsCurrent
  <2> QED BY <1>2, <2>2, <2>3, <2>4 DEF IInv
<1>8. CASE ReadUnlock
  <2>1. /\ relayer = "locked" /\ relayer' = "none" /\ readers' = readers \ {"relayer"}
        /\ row' = [row EXCEPT ![asked] = copied] /\ asked' = After(asked) /\ copied' = << >>
    BY <1>8 DEF ReadUnlock
  <2>2. TypeOK'
    <3>1. row' \in [Listeners -> Seq(Nat)]
      BY <1>4, <2>1
    <3> QED BY <1>1, <1>4, <1>5, <2>1, <3>1 DEF IInv, TypeOK
  <2>3. LockIsHeld'
    BY <1>1, <1>3, <2>1 DEF IInv, LockIsHeld
  <2>4. CopiedIsCurrent'
    BY <1>1, <1>5, <2>1 DEF CopiedIsCurrent
  <2> QED BY <1>2, <2>2, <2>3, <2>4 DEF IInv
<1> QED BY <1>6, <1>7, <1>8

LEMMA PrintIInv == ASSUME IInv, PrintLock \/ PrintUnlock PROVE IInv'
<1> USE DEF table, main, lock, interpreter, writing
<1>1. UNCHANGED <<conf, items, rows, destroyed, phase, section, index, writer, command, target,
                  relayer, asked, copied, row>>
  BY DEF PrintLock, PrintUnlock
<1>2. RowsInOrder' /\ ItemsAreNamed' /\ NamedAreAdded' /\ TearDown'
  BY <1>1, TableFrame
<1>3. /\ readers' \in {readers \cup {"filewriter"}, readers \ {"filewriter"}}
      /\ readers = {} => phase = "run" /\ writer # TRUE
      /\ readers # {} => phase = "run"
  BY DEF PrintLock, PrintUnlock, IInv, LockIsHeld
<1>4. TypeOK'
  BY <1>1, <1>3 DEF IInv, TypeOK
<1>5. LockIsHeld'
  <2>1. Get(command.id)' = Get(command.id)
    BY <1>1 DEF Get
  <2> QED BY <1>1, <1>3, <2>1 DEF IInv, LockIsHeld
<1>6. CopiedIsCurrent'
  BY <1>1, SameValues DEF IInv, CopiedIsCurrent
<1> QED BY <1>2, <1>4, <1>5, <1>6 DEF IInv

-----------------------------------------------------------------------------
(* SHUTDOWN and dmap_deinit. *)

\* After STOP the interpreter and the relayer are at rest, and the table keeps
\* its items.
LEMMA RestFrame ==
    ASSUME IInv, phase # "setup", phase' # "setup", command.state = "none", relayer = "none",
           UNCHANGED <<conf, items, section, readers, writer, command, target, relayer,
                       asked, copied, row>>,
           phase' # "run", readers = {}
    PROVE  ItemsAreNamed' /\ NamedAreAdded' /\ LockIsHeld' /\ CopiedIsCurrent'
<1>1. ItemsAreNamed'
  <2>1. Abstract!Named' = Abstract!Named
    BY DEF Abstract!Named
  <2> QED BY <2>1 DEF IInv, ItemsAreNamed
<1>2. NamedAreAdded'
  BY DEF NamedAreAdded
<1>3. LockIsHeld'
  BY DEF IInv, LockIsHeld
<1>4. CopiedIsCurrent'
  BY SameValues DEF IInv, CopiedIsCurrent
<1> QED BY <1>1, <1>2, <1>3, <1>4

LEMMA StopIInv == ASSUME IInv, Stop PROVE IInv'
<1> USE DEF table, main, lock, interpreter, writing
<1>1. /\ phase = "run" /\ command.state = "none" /\ relayer = "none" /\ readers = {}
      /\ phase' = "shutdown" /\ index' = 0
      /\ UNCHANGED <<conf, items, rows, destroyed, section, readers, writer, command, target,
                     relayer, asked, copied, row>>
  BY DEF Stop
<1>2. ItemsAreNamed' /\ NamedAreAdded' /\ LockIsHeld' /\ CopiedIsCurrent'
  BY <1>1, RestFrame
<1>3. TypeOK'
  BY <1>1 DEF IInv, TypeOK
<1>4. Len(items) \in Nat
  BY LenProperties DEF IInv, TypeOK
<1>5. RowsInOrder' /\ TearDown'
  BY <1>1, <1>4 DEF IInv, RowsInOrder, TearDown, OneRowIsFreedOnce
<1> QED BY <1>2, <1>3, <1>5 DEF IInv

LEMMA AtRest ==
    ASSUME IInv, phase \in {"shutdown", "deinit"}
    PROVE  command.state = "none" /\ relayer = "none" /\ readers = {}
BY DEF IInv, LockIsHeld

LEMMA DeinitIInv == ASSUME IInv, Deinit \/ Finish PROVE IInv'
<1> USE DEF table, main, lock, interpreter, writing
<1>1. /\ UNCHANGED <<conf, items, rows, destroyed, section, readers, writer, command, target,
                     relayer, asked, copied, row>>
      /\ phase \in {"shutdown", "deinit"} /\ Next_row(index) = TableSize
  BY DEF Deinit, Finish
<1>2. Len(items) \in Nat /\ index \in Nat /\ TableSize \in Nat /\ index <= Len(items)
  BY <1>1, LenProperties, ConstantsAssumption DEF IInv, TypeOK, TearDown
<1>3. index = Len(items)
  <2>1. Len(items) <= TableSize /\ TypeOK /\ RowsInOrder
    BY DEF IInv, RowsInOrder
  <2>2. Next_row(index) = IF index < Len(items) THEN index ELSE TableSize
    BY <1>1, <1>2, <2>1, NextRowInOrder
  <2>3. \A i, n, t \in Nat : i <= n /\ n <= t /\ (IF i < n THEN i ELSE t) = t => i = n
    OBVIOUS
  <2> QED BY <1>1, <1>2, <2>1, <2>2, <2>3
<1>4. phase' \in {"deinit", "ended"}
  BY DEF Deinit, Finish
<1>5. ItemsAreNamed' /\ NamedAreAdded' /\ LockIsHeld' /\ CopiedIsCurrent'
  BY <1>1, <1>4, AtRest, RestFrame
<1>6. CASE Deinit
  <2>1. phase = "shutdown" /\ phase' = "deinit" /\ index' = 0
    BY <1>6 DEF Deinit
  <2>2. TypeOK'
    BY <1>1, <2>1 DEF IInv, TypeOK
  <2>3. RowsInOrder'
    BY <1>1, <2>1 DEF IInv, RowsInOrder, Slots
  <2>4. TearDown'
    <3>1. IF Len(items) <= 1 THEN destroyed = {} ELSE 2 \in destroyed
      BY <1>2, <1>3, <2>1 DEF IInv, TearDown
    <3> QED BY <1>1, <1>2, <2>1, <3>1 DEF TearDown, OneRowIsFreedOnce
  <2> QED BY <1>5, <2>2, <2>3, <2>4 DEF IInv
<1>7. CASE Finish
  <2>1. phase = "deinit" /\ phase' = "ended" /\ index' = index
    BY <1>7 DEF Finish
  <2>2. TypeOK'
    BY <1>1, <2>1 DEF IInv, TypeOK
  <2>3. RowsInOrder'
    BY <1>1, <2>1 DEF IInv, RowsInOrder
  <2>4. TearDown'
    <3>1. Len(items) <= 1 /\ destroyed = 1 .. Len(items)
      BY <1>2, <1>3, <2>1 DEF IInv, TearDown
    <3> QED BY <1>1, <2>1, <3>1 DEF TearDown, OneRowIsFreedOnce
  <2> QED BY <1>5, <2>2, <2>3, <2>4 DEF IInv
<1> QED BY <1>6, <1>7 DEF Deinit, Finish

LEMMA RemoveRowIInv == ASSUME IInv, RemoveRow PROVE IInv'
<1> USE DEF table, main, lock, interpreter, writing
<1>1. phase = "deinit" /\ Next_row(index) # TableSize
  BY DEF RemoveRow
<1>2. Len(items) \in Nat /\ index \in Nat /\ TableSize \in Nat /\ index <= Len(items)
      /\ Len(items) <= TableSize
  BY <1>1, LenProperties, ConstantsAssumption DEF IInv, TypeOK, TearDown, RowsInOrder
<1>3. index < Len(items) /\ Next_row(index) = index /\ index \in Slots
  <2>1. Next_row(index) = IF index < Len(items) THEN index ELSE TableSize
    BY <1>1, <1>2, NextRowInOrder DEF IInv
  <2>2. index < Len(items)
    BY <1>1, <2>1
  <2> QED BY <1>2, <2>1, <2>2 DEF Slots
<1>4. rows[index] = index + 1
  BY <1>1, <1>2, <1>3 DEF IInv, RowsInOrder
<1>5. /\ destroyed' = destroyed \cup {index + 1}
      /\ phase' = IF index + 1 \in destroyed THEN "broken" ELSE "deinit"
      /\ rows' = [rows EXCEPT ![index] = NULL] /\ index' = index + 1
      /\ UNCHANGED <<conf, items, section, readers, writer, command, target,
                     relayer, asked, copied, row>>
  BY <1>3, <1>4 DEF RemoveRow, Destroy
<1>6. ItemsAreNamed' /\ NamedAreAdded' /\ LockIsHeld' /\ CopiedIsCurrent'
  BY <1>1, <1>5, AtRest, RestFrame
<1>7. TypeOK'
  <2>1. rows' \in [Slots -> 0 .. Len(items)] /\ destroyed' \subseteq 1 .. Len(items)
    BY <1>2, <1>3, <1>5 DEF IInv, TypeOK, NULL
  <2>2. phase' \in {"broken", "deinit"} /\ index' \in Nat
    BY <1>2, <1>5
  <2> QED BY <1>5, <2>1, <2>2 DEF IInv, TypeOK
<1>8. RowsInOrder'
  <2>1. \A s \in Slots : rows[s] = IF s < Len(items) /\ ~ (s < index) THEN s + 1 ELSE NULL
    BY <1>1 DEF IInv, RowsInOrder
  <2>2. rows \in [Slots -> 0 .. Len(items)]
    BY DEF IInv, TypeOK
  <2>3. \A s \in Slots : rows'[s] = IF s < Len(items) /\ ~ (s < index + 1) THEN s + 1 ELSE NULL
    BY <1>2, <1>3, <1>5, <2>1, <2>2 DEF Slots
  <2> QED BY <1>2, <1>5, <2>3 DEF RowsInOrder
<1>9. TearDown'
  <2>1. CASE Len(items) <= 1
    <3>1. index = 0 /\ Len(items) = 1 /\ destroyed = {}
      <4>1. index = 0 /\ Len(items) = 1
        BY <1>2, <1>3, <2>1
      <4>2. destroyed = 1 .. index
        BY <1>1, <2>1 DEF IInv, TearDown
      <4>3. 1 .. 0 = {}
        OBVIOUS
      <4> QED BY <4>1, <4>2, <4>3
    <3>2. phase' = "deinit" /\ index' = 1 /\ destroyed' = 1 .. 1
      BY <1>5, <3>1
    <3> QED BY <1>5, <3>1, <3>2 DEF TearDown, OneRowIsFreedOnce
  <2>2. CASE ~ (Len(items) <= 1)
    <3>1. index <= 1 /\ 2 \in destroyed
      BY <1>1, <2>2 DEF IInv, TearDown
    <3>2. index = 0 \/ phase' = "broken"
      BY <1>2, <1>5, <3>1
    <3>3. phase' \in {"broken", "deinit"}
      BY <1>5
    <3> QED BY <1>2, <1>5, <2>2, <3>1, <3>2, <3>3 DEF TearDown, OneRowIsFreedOnce
  <2> QED BY <2>1, <2>2
<1> QED BY <1>6, <1>7, <1>8, <1>9 DEF IInv

\* One row alone is never found; of two the first search, when every row still
\* says what its item is, finds the second.
LEMMA RemoveItemIInv == ASSUME IInv, RemoveItem PROVE IInv'
<1> USE DEF table, main, lock, interpreter, writing
<1>1. phase = "shutdown" /\ Next_row(index) # TableSize
  BY DEF RemoveItem
<1>2. Len(items) \in Nat /\ index \in Nat /\ TableSize \in Nat /\ index <= Len(items)
      /\ Len(items) <= TableSize
  BY <1>1, LenProperties, ConstantsAssumption DEF IInv, TypeOK, TearDown, RowsInOrder
<1>3. index < Len(items) /\ Next_row(index) = index /\ index \in Slots
  <2>1. Next_row(index) = IF index < Len(items) THEN index ELSE TableSize
    BY <1>1, <1>2, NextRowInOrder DEF IInv
  <2>2. index < Len(items)
    BY <1>1, <2>1
  <2> QED BY <1>2, <2>1, <2>2 DEF Slots
<1>4. \A s \in Slots : rows[s] = IF s < Len(items) THEN s + 1 ELSE NULL
  BY <1>1 DEF IInv, RowsInOrder
<1> DEFINE others(r) == {s \in Slots : rows[s] # NULL /\ r[rows[s]] # r[index + 1]}
<1>5. PICK r \in Readings :
         IF others(r) = {} THEN UNCHANGED <<destroyed, phase>>
         ELSE Destroy(rows[Least(others(r))], "shutdown")
  <2>1. rows[Next_row(index)] = index + 1
    BY <1>2, <1>3, <1>4
  <2> QED BY <2>1 DEF RemoveItem
<1>6. index' = index + 1 /\ UNCHANGED <<conf, items, rows, section, readers, writer, command,
                                        target, relayer, asked, copied, row>>
  BY <1>3 DEF RemoveItem
<1>7. \A s \in others(r) : s \in 0 .. Len(items) - 1 /\ s + 1 # index + 1
  BY <1>2, <1>4 DEF Slots, NULL
<1>8. CASE others(r) = {}
  <2>1. UNCHANGED <<destroyed, phase>>
    BY <1>5, <1>8
  <2>2. ItemsAreNamed' /\ NamedAreAdded' /\ LockIsHeld' /\ CopiedIsCurrent'
    BY <1>1, <1>6, <2>1, AtRest, RestFrame
  <2>3. TypeOK'
    BY <1>2, <1>6, <2>1 DEF IInv, TypeOK
  <2>4. RowsInOrder'
    BY <1>1, <1>6, <2>1 DEF IInv, RowsInOrder
  <2>5. Len(items) <= 1 \/ 2 \in destroyed
    <3>1. CASE index = 0 /\ ~ (Len(items) <= 1)
      <4>1. destroyed = {}
        BY <1>1, <3>1 DEF IInv, TearDown
      <4>2. r[1] = 1 /\ r[2] = 2
        BY <1>2, <3>1, <4>1 DEF Readings
      <4>3. 1 \in Slots /\ rows[1] = 2
        BY <1>2, <1>4, <3>1 DEF Slots
      <4>4. 1 \in others(r)
        BY <3>1, <4>2, <4>3 DEF NULL
      <4> QED BY <1>8, <4>4
    <3>2. CASE ~ (index = 0)
      BY <1>1, <3>2 DEF IInv, TearDown
    <3> QED BY <3>1, <3>2
  <2>6. Len(items) <= 1 => destroyed = {}
    BY <1>1 DEF IInv, TearDown
  <2>7. TearDown'
    BY <1>1, <1>2, <1>3, <1>6, <2>1, <2>5, <2>6 DEF TearDown, OneRowIsFreedOnce
  <2> QED BY <2>2, <2>3, <2>4, <2>7 DEF IInv
<1>9. CASE others(r) # {}
  <2> DEFINE s == Least(others(r))
  <2>1. s \in others(r) /\ \A t \in others(r) : s <= t
    <3>1. others(r) \in SUBSET Nat
      BY <1>7, <1>2
    <3> HIDE DEF others
    <3> QED BY <1>9, <3>1, LeastIsLeast
  <2>2. s \in 0 .. Len(items) - 1 /\ s # index /\ s \in Slots /\ rows[s] = s + 1
    BY <1>2, <1>4, <1>7, <2>1 DEF Slots
  <2>3. ~ (Len(items) <= 1)
    BY <1>2, <1>3, <2>2
  <2>4. /\ destroyed' = destroyed \cup {s + 1}
        /\ phase' = IF s + 1 \in destroyed THEN "broken" ELSE "shutdown"
    <3> HIDE DEF others
    <3> QED BY <1>5, <1>9, <2>2 DEF Destroy
  <2>5. 2 \in destroyed'
    <3>1. CASE index = 0
      <4>1. destroyed = {}
        BY <1>1, <3>1 DEF IInv, TearDown
      <4>2. r[1] = 1 /\ r[2] = 2
        BY <1>2, <2>3, <4>1 DEF Readings
      <4>3. 1 \in Slots /\ rows[1] = 2
        BY <1>2, <1>4, <2>3 DEF Slots
      <4>4. 1 \in others(r)
        BY <3>1, <4>2, <4>3 DEF NULL
      <4>5. s = 1
        <5>1. s <= 1 /\ s # 0 /\ s \in Nat
          BY <1>2, <2>1, <2>2, <3>1, <4>4
        <5> HIDE DEF s
        <5> QED BY <5>1
      <4> HIDE DEF s
      <4> QED BY <2>4, <4>5
    <3>2. CASE ~ (index = 0)
      BY <1>1, <2>3, <2>4, <3>2 DEF IInv, TearDown
    <3> QED BY <3>1, <3>2
  <2> HIDE DEF s, others
  <2>6. phase' \in {"broken", "shutdown"}
    BY <2>4
  <2>7. ItemsAreNamed' /\ NamedAreAdded' /\ LockIsHeld' /\ CopiedIsCurrent'
    BY <1>1, <1>6, <2>6, AtRest, RestFrame
  <2>8. TypeOK'
    <3>1. s + 1 \in 1 .. Len(items)
      BY <1>2, <2>2
    <3>2. destroyed' \subseteq 1 .. Len(items)
      BY <2>4, <3>1 DEF IInv, TypeOK
    <3>3. index' \in Nat
      BY <1>2, <1>6
    <3> QED BY <1>6, <2>6, <3>2, <3>3 DEF IInv, TypeOK
  <2>9. RowsInOrder'
    BY <1>1, <1>6, <2>6 DEF IInv, RowsInOrder
  <2>10. TearDown'
    BY <1>2, <1>3, <1>6, <2>3, <2>5, <2>6 DEF TearDown, OneRowIsFreedOnce
  <2> QED BY <2>7, <2>8, <2>9, <2>10 DEF IInv
<1> QED BY <1>8, <1>9

-----------------------------------------------------------------------------
\* One step for each operation.
LEMMA NextIInv == IInv /\ [Next]_vars => IInv'
<1> SUFFICES ASSUME IInv, [Next]_vars PROVE IInv'
  OBVIOUS
<1>1. CASE AddMappedVar \/ NextSection \/ Start
  BY <1>1, AddMappedVarIInv, SetupIInv
<1>2. CASE Command \/ WriteLock \/ Find \/ Assign \/ WriteUnlock
  BY <1>2, CommandIInv, AssignIInv
<1>3. CASE Skip \/ ReadLock \/ Evaluate \/ ReadUnlock \/ PrintLock \/ PrintUnlock
  BY <1>3, RelayerIInv, EvaluateIInv, PrintIInv
<1>4. CASE Stop \/ RemoveItem \/ Deinit \/ RemoveRow \/ Finish
  BY <1>4, StopIInv, RemoveItemIInv, DeinitIInv, RemoveRowIInv
<1>5. CASE UNCHANGED vars
  <2>1. /\ UNCHANGED <<conf, table, main>>
        /\ UNCHANGED <<readers, writer, command, target, relayer, asked, copied, row>>
    BY <1>5 DEF vars, table, main
  <2>2. RowsInOrder' /\ ItemsAreNamed' /\ NamedAreAdded' /\ TearDown'
    BY <2>1, TableFrame
  <2>3. TypeOK'
    BY <2>1 DEF IInv, TypeOK, table, main
  <2>4. LockIsHeld' /\ CopiedIsCurrent'
    <3>1. Get(command.id)' = Get(command.id)
      BY <2>1 DEF Get, table
    <3> QED BY <2>1, <3>1, SameValues DEF IInv, LockIsHeld, CopiedIsCurrent, table, main
  <2> QED BY <2>2, <2>3, <2>4 DEF IInv
<1> QED BY <1>1, <1>2, <1>3, <1>4, <1>5 DEF Next, Ended

LEMMA Invariance == Spec => []IInv
BY InitIInv, NextIInv, PTL DEF Spec

\* Every field keeps its type; rows point to items.
THEOREM TypeCorrect == Spec => []TypeOK
<1>1. IInv => TypeOK
  BY DEF IInv
<1> QED BY <1>1, Invariance, PTL

\* SHUTDOWN and dmap_deinit free every row exactly once if there is at most one,
\* and destroy one of them twice if there are more.
THEOREM RowsAreFreedOnce == Spec => []OneRowIsFreedOnce
<1>1. IInv => OneRowIsFreedOnce
  BY DEF IInv, TearDown
<1> QED BY <1>1, Invariance, PTL

-----------------------------------------------------------------------------
(* The table implements MappedVars. *)

\* As many variables are known as there are items.
LEMMA KnownAreItems ==
    ASSUME TypeOK, ItemsAreNamed
    PROVE  Cardinality(Identifiers) = Len(items)
<1> DEFINE I == 1 .. Len(items)
           f == [a \in I |-> items[a].identifier]
<1>1. Len(items) \in Nat /\ DOMAIN items = I /\ IsFiniteSet(I) /\ Cardinality(I) = Len(items)
  <2>1. Len(items) \in Nat /\ DOMAIN items = I
    BY LenProperties DEF TypeOK
  <2>2. \A n \in Nat : IsFiniteSet(1 .. n) /\ Cardinality(1 .. n) = n
    BY FS_Interval
  <2> QED BY <2>1, <2>2
<1>2. f \in Bijection(I, Identifiers)
  BY <1>1 DEF Bijection, Injection, Surjection, IsInjective, Identifiers, ItemsAreNamed
<1>3. Cardinality(Identifiers) = Cardinality(I)
  BY <1>1, <1>2, FS_Bijection DEF ExistsBijection
<1> QED BY <1>1, <1>3

\* Both modules count with the Cardinality of FiniteSets.
LEMMA SameCardinality == \A S : Abstract!Cardinality(S) = Cardinality(S)
BY DEF Abstract!Cardinality, Cardinality

\* The mapped variables as MappedVars sees them.
Valuation == [id \in Ids \cup {0} |-> ValueOf(id)]

LEMMA AddMappedVarLearns ==
    ASSUME IInv, AddMappedVar PROVE Abstract!Learn \/ UNCHANGED Abstract!vars
<1> DEFINE id == conf[section].ids[index + 1]
           item == [identifier |-> id, value |-> 0]
<1>1. /\ UNCHANGED <<conf, phase, row>> /\ phase = "setup"
      /\ IF id = 0 \/ Get(id) # NULL THEN UNCHANGED <<items, rows>> ELSE AddRow(item)
  BY DEF AddMappedVar, writing
<1>2. CASE UNCHANGED items
  BY <1>1, <1>2 DEF Abstract!vars, ValueOf, Identifiers
<1>3. CASE ~ UNCHANGED items
  <2>1. id # 0 /\ Get(id) = NULL /\ AddRow(item)
    BY <1>1, <1>3
  <2>2. Len(items) \in Nat /\ TableSize \in Nat /\ DOMAIN items = 1 .. Len(items)
        /\ Len(items) <= TableSize
    BY ConstantsAssumption, LenProperties DEF IInv, TypeOK, RowsInOrder
  <2>3. id \notin Identifiers
    <3>1. \A a \in 1 .. Len(items) : items[a].identifier = id => Get(id) = a
      BY <1>1, GetFindsIt DEF IInv
    <3> QED BY <2>1, <2>2, <3>1 DEF Identifiers, NULL
  <2>4. Len(items) < TableSize
    <3>1. CASE Len(items) = TableSize
      <4>1. {s \in Slots : rows[s] = NULL} = {}
        BY <1>1, <2>2, <3>1 DEF IInv, RowsInOrder, Slots, NULL
      <4> QED BY <1>3, <2>1, <4>1 DEF AddRow
    <3>2. \A m, n \in Nat : m <= n => m < n \/ m = n
      OBVIOUS
    <3> QED BY <2>2, <3>1, <3>2
  <2>5. items' = Append(items, item)
    BY <1>1, <2>1, <2>4, AddRowAppends
  <2>6. section \in Listeners /\ index + 1 \in DOMAIN conf[section].ids
        /\ conf[section].ids \in Seq(Ids \cup {0})
    <3>1. section \in Listeners /\ index \in Nat /\ index < Len(conf[section].ids)
      BY ConstantsAssumption DEF IInv, TypeOK, Listeners, AddMappedVar
    <3> QED BY <3>1, ConfsAreConfs, LenProperties DEF IInv
  <2>7. id \in Abstract!Named /\ id \in Ids
    <3>1. id \in Ids \cup {0}
      BY <2>6, ElementOfSeq, LenProperties
    <3>2. id # 0 /\ id \in {conf[section].ids[i] : i \in DOMAIN conf[section].ids}
      BY <2>1, <2>6
    <3> QED BY <2>1, <2>6, <3>1, <3>2 DEF Abstract!Named
  <2>8. /\ Len(items') = Len(items) + 1 /\ DOMAIN items' = 1 .. Len(items) + 1
        /\ items'[Len(items) + 1] = item
        /\ \A a \in 1 .. Len(items) : items'[a] = items[a]
    <3>1. item \in [identifier : Nat, value : Nat]
      BY <2>7, ConstantsAssumption
    <3>2. items \in Seq([identifier : Nat, value : Nat])
      BY DEF IInv, TypeOK
    <3> HIDE DEF item
    <3> QED BY <2>2, <2>5, <3>1, <3>2, AppendProperties
  <2>9. Identifiers' = Identifiers \cup {id}
    <3>1. item.identifier = id
      OBVIOUS
    <3> HIDE DEF item, id
    <3> QED BY <2>2, <2>8, <3>1 DEF Identifiers
  <2>10. ASSUME NEW j PROVE ValueOf(j)' = ValueOf(j)
    <3>1. item.identifier = id /\ item.value = 0
      OBVIOUS
    <3> HIDE DEF item, id
    <3>2. CASE j \in Identifiers
      <4>1. PICK a \in 1 .. Len(items) : items[a].identifier = j
        BY <2>2, <3>2 DEF Identifiers
      <4>2. ValueOf(j) = items[a].value
        BY <4>1, ValueOfItem DEF IInv
      <4>3. \A b \in DOMAIN items' : items'[b].identifier = j <=> b = a
        <5>1. \A b \in 1 .. Len(items) : items'[b].identifier = j <=> b = a
          BY <2>8, <4>1 DEF IInv, ItemsAreNamed
        <5>2. items'[Len(items) + 1].identifier # j /\ a # Len(items) + 1
          BY <2>2, <2>3, <2>8, <3>1, <3>2
        <5>3. \A b \in DOMAIN items' : b \in 1 .. Len(items) \/ b = Len(items) + 1
          BY <2>2, <2>8
        <5> QED BY <5>1, <5>2, <5>3
      <4>4. (CHOOSE b \in DOMAIN items' : items'[b].identifier = j) = a
        BY <2>2, <2>8, <4>3
      <4>5. ValueOf(j)' = items'[a].value
        BY <2>9, <3>2, <4>4 DEF ValueOf
      <4> QED BY <2>8, <4>2, <4>5
    <3>3. CASE j = id
      <4>1. \A b \in DOMAIN items' : items'[b].identifier = j <=> b = Len(items) + 1
        <5>1. \A b \in 1 .. Len(items) : items'[b].identifier # j
          BY <2>2, <2>3, <2>8, <3>3 DEF Identifiers
        <5>2. \A b \in DOMAIN items' : b \in 1 .. Len(items) \/ b = Len(items) + 1
          BY <2>2, <2>8
        <5>3. Len(items) + 1 \notin 1 .. Len(items)
          BY <2>2
        <5> QED BY <2>8, <3>1, <3>3, <5>1, <5>2, <5>3
      <4>2. (CHOOSE b \in DOMAIN items' : items'[b].identifier = j) = Len(items) + 1
        BY <2>2, <2>8, <4>1
      <4>3. ValueOf(j)' = 0
        BY <2>8, <2>9, <3>1, <3>3, <4>2 DEF ValueOf
      <4>4. ValueOf(j) = 0
        BY <2>3, <3>3 DEF ValueOf
      <4> QED BY <4>3, <4>4
    <3>4. CASE j \notin Identifiers /\ j # id
      BY <2>9, <3>4 DEF ValueOf
    <3> QED BY <3>2, <3>3, <3>4
  <2>11. Abstract!Cardinality(Identifiers) < TableSize
    BY <2>4, KnownAreItems, SameCardinality DEF IInv
  <2>12. Valuation' = Valuation
    BY <2>10 DEF Valuation
  <2> HIDE DEF id
  <2> QED BY <1>1, <2>3, <2>7, <2>9, <2>11, <2>12 DEF Abstract!Learn, Valuation
<1> QED BY <1>2, <1>3

\* What setup leaves out is what exceeds the table.
LEMMA StartOpens == ASSUME IInv, Start PROVE Abstract!Open
<1> USE DEF table, lock, interpreter, writing
<1>1. /\ phase = "setup" /\ phase' = "run" /\ section = ListenerNum
      /\ UNCHANGED <<conf, items, row>>
  BY DEF Start
<1>2. DOMAIN items = 1 .. Len(items)
  BY LenProperties DEF IInv, TypeOK
<1>3. Identifiers \subseteq Abstract!Named
  BY <1>2 DEF Identifiers, IInv, ItemsAreNamed
<1>4. Abstract!Named \subseteq Identifiers \/ Len(items) = TableSize
  <2>1. ASSUME NEW id \in Abstract!Named, Len(items) # TableSize PROVE id \in Identifiers
    <3>1. PICK l \in Listeners : id \in {conf[l].ids[i] : i \in DOMAIN conf[l].ids}
      BY DEF Abstract!Named
    <3>2. PICK i \in DOMAIN conf[l].ids : id = conf[l].ids[i]
      BY <3>1
    <3>3. id # 0 /\ i \in 1 .. Len(conf[l].ids) /\ l < section
      <4>1. l < section
        BY <1>1, ConstantsAssumption DEF Listeners
      <4>2. DOMAIN conf[l].ids = 1 .. Len(conf[l].ids)
        BY ConfsAreConfs, LenProperties DEF IInv
      <4>3. id # 0
        BY DEF Abstract!Named
      <4> QED BY <3>2, <4>1, <4>2, <4>3
    <3> QED BY <1>1, <2>1, <3>2, <3>3 DEF IInv, NamedAreAdded
  <2> QED BY <2>1
<1>5. Identifiers = Abstract!Named \/ Abstract!Cardinality(Identifiers) = TableSize
  BY <1>3, <1>4, KnownAreItems, SameCardinality DEF IInv
<1>6. Identifiers' = Identifiers /\ Valuation' = Valuation
  BY <1>1 DEF Identifiers, Valuation, ValueOf
<1> QED BY <1>1, <1>5, <1>6 DEF Abstract!Open, Valuation

LEMMA AssignSets == ASSUME IInv, Assign PROVE Abstract!Set \/ UNCHANGED Abstract!vars
<1> USE DEF table, main, lock, interpreter, writing
<1> DEFINE id == command.id
<1>1. /\ UNCHANGED <<conf, phase, row>> /\ command.state = "found"
      /\ items' = IF target = NULL THEN items ELSE [items EXCEPT ![target].value = command.value]
  BY DEF Assign
<1>2. phase = "run" /\ target = Get(id) /\ id \in Ids /\ command.value \in Values
  BY <1>1 DEF IInv, LockIsHeld
<1>3. CASE UNCHANGED items
  <2>1. UNCHANGED <<conf, items, phase, row>>
    BY <1>1, <1>3
  <2> QED BY <2>1 DEF Abstract!vars, ValueOf, Identifiers
<1>4. CASE ~ UNCHANGED items
  <2>1. target # NULL /\ DOMAIN items = 1 .. Len(items)
        /\ items \in Seq([identifier : Nat, value : Nat])
    BY <1>1, <1>4, LenProperties DEF IInv, TypeOK
  <2>2. id \in Identifiers
    BY <1>2, <2>1, GetFindsIt DEF IInv
  <2>3. PICK a \in 1 .. Len(items) : items[a].identifier = id
    BY <2>1, <2>2 DEF Identifiers
  <2>4. target = a
    BY <1>2, <2>3, GetFindsIt DEF IInv
  <2>5. \A b \in 1 .. Len(items) : items[b] \in [identifier : Nat, value : Nat]
    BY <2>1, ElementOfSeq
  <2>6. /\ DOMAIN items' = DOMAIN items
        /\ \A b \in DOMAIN items : /\ items'[b].identifier = items[b].identifier
                                   /\ b # a => items'[b].value = items[b].value
        /\ items'[a].value = command.value
    <3>1. items' = [items EXCEPT ![a] = [items[a] EXCEPT !.value = command.value]]
      BY <1>1, <2>1, <2>4
    <3>2. /\ [items[a] EXCEPT !.value = command.value].identifier = items[a].identifier
          /\ [items[a] EXCEPT !.value = command.value].value = command.value
      BY <2>5
    <3> QED BY <2>1, <3>1, <3>2
  <2>7. Identifiers' = Identifiers
    BY <2>6 DEF Identifiers
  <2>8. ASSUME NEW j PROVE ValueOf(j)' = IF j = id THEN command.value ELSE ValueOf(j)
    <3>1. CASE j \in Identifiers
      <4>1. PICK b \in 1 .. Len(items) : items[b].identifier = j
        BY <2>1, <3>1 DEF Identifiers
      <4>2. \A c \in DOMAIN items : items'[c].identifier = j <=> c = b
        BY <2>1, <2>6, <4>1 DEF IInv, ItemsAreNamed
      <4>3. (CHOOSE c \in DOMAIN items' : items'[c].identifier = j) = b
        BY <2>1, <2>6, <4>2
      <4>4. ValueOf(j)' = items'[b].value
        BY <2>7, <3>1, <4>3 DEF ValueOf
      <4>5. ValueOf(j) = items[b].value
        BY <4>1, ValueOfItem DEF IInv
      <4>6. j = id <=> b = a
        BY <2>3, <4>1 DEF IInv, ItemsAreNamed
      <4> QED BY <2>1, <2>6, <4>4, <4>5, <4>6
    <3>2. CASE j \notin Identifiers
      BY <2>2, <2>7, <3>2 DEF ValueOf
    <3> QED BY <3>1, <3>2
  <2>9. Valuation' = [Valuation EXCEPT ![id] = command.value]
    <3> HIDE DEF id
    <3> QED BY <1>2, <2>8 DEF Valuation
  <2>10. \E k \in Identifiers, v \in Values : Valuation' = [Valuation EXCEPT ![k] = v]
    BY <1>2, <2>2, <2>9
  <2> QED BY <1>1, <1>2, <2>7, <2>10 DEF Abstract!Set, Valuation
<1> QED BY <1>3, <1>4

LEMMA ReadUnlockShows == ASSUME IInv, ReadUnlock PROVE asked \in Listeners /\ Abstract!Show(asked)
<1> USE DEF table, main, lock, interpreter, writing
<1> DEFINE ids == conf[asked].ids
           num == conf[asked].num
<1>1. /\ relayer = "locked" /\ Len(copied) = num /\ row' = [row EXCEPT ![asked] = copied]
      /\ UNCHANGED <<conf, items, phase>>
  BY DEF ReadUnlock
<1>2. /\ asked \in Listeners /\ phase = "run" /\ copied \in Seq(Nat)
      /\ ids \in Seq(Ids \cup {0}) /\ num \in 0 .. Len(ids) /\ Len(ids) \in Nat
  BY <1>1, ConfsAreConfs DEF IInv, TypeOK, LockIsHeld
<1>3. ASSUME NEW i \in 1 .. num
      PROVE  copied[i] = IF ids[i] \in Identifiers THEN Valuation[ids[i]] ELSE 0
  <2>1. copied[i] = ValueOf(ids[i])
    BY <1>1 DEF IInv, CopiedIsCurrent
  <2>2. ids[i] \in Ids \cup {0}
    <3>1. i \in 1 .. Len(ids)
      BY <1>2
    <3> HIDE DEF ids
    <3> QED BY <1>2, <3>1, ElementOfSeq
  <2>3. Valuation[ids[i]] = ValueOf(ids[i])
    BY <2>2 DEF Valuation
  <2>4. ids[i] \notin Identifiers => ValueOf(ids[i]) = 0
    BY DEF ValueOf
  <2> QED BY <2>1, <2>3, <2>4
<1>4. copied = [i \in 1 .. num |-> IF ids[i] \in Identifiers THEN Valuation[ids[i]] ELSE 0]
  <2>1. copied = [i \in 1 .. num |-> copied[i]]
    BY <1>1, <1>2, LenProperties
  <2> QED BY <1>3, <2>1
<1>5. copied = Abstract!Shown(asked)
  BY <1>4 DEF Abstract!Shown, Valuation
<1>6. Identifiers' = Identifiers /\ Valuation' = Valuation
  BY <1>1 DEF Identifiers, Valuation, ValueOf
<1> QED BY <1>1, <1>2, <1>5, <1>6 DEF Abstract!Show, Valuation

LEMMA StepSimulation == IInv /\ [Next]_vars => [Abstract!Next]_(Abstract!vars)
<1> SUFFICES ASSUME IInv, [Next]_vars PROVE Abstract!Next \/ UNCHANGED Abstract!vars
  OBVIOUS
<1>1. CASE AddMappedVar
  BY <1>1, AddMappedVarLearns DEF Abstract!Next
<1>2. CASE Start
  BY <1>2, StartOpens DEF Abstract!Next
<1>3. CASE Assign
  BY <1>3, AssignSets DEF Abstract!Next
<1>4. CASE ReadUnlock
  BY <1>4, ReadUnlockShows DEF Abstract!Next
<1>5. ASSUME UNCHANGED <<conf, items, row>>, (phase = "setup") <=> (phase' = "setup")
      PROVE  UNCHANGED Abstract!vars
  BY <1>5 DEF Abstract!vars, Identifiers, ValueOf
<1>6. CASE NextSection \/ Command \/ WriteLock \/ Find \/ WriteUnlock
  BY <1>5, <1>6 DEF NextSection, Command, WriteLock, Find, WriteUnlock, table, main, writing
<1>7. CASE Skip \/ ReadLock \/ Evaluate \/ PrintLock \/ PrintUnlock
  BY <1>5, <1>7 DEF Skip, ReadLock, Evaluate, PrintLock, PrintUnlock, table, main, writing
<1>8. CASE Stop \/ RemoveItem \/ Deinit \/ RemoveRow \/ Finish
  BY <1>5, <1>8 DEF Stop, RemoveItem, Deinit, RemoveRow, Finish, Destroy, table, writing
<1>9. CASE UNCHANGED vars
  BY <1>5, <1>9 DEF vars
<1> QED BY <1>1, <1>2, <1>3, <1>4, <1>6, <1>7, <1>8, <1>9 DEF Next, Ended

\* The table under its lock is a set of mapped variables: each is added once, a
\* command changes the one it names, and a row shows the values of one moment.
THEOREM RefinesMappedVars == Spec => ShowsMappedVars
<1>1. Init => Abstract!Init
  BY DEF Init, Abstract!Init, Identifiers, ValueOf
<1> QED BY <1>1, InitIInv, NextIInv, StepSimulation, PTL DEF Spec, ShowsMappedVars, Abstract!Spec

-----------------------------------------------------------------------------
(* The locks: the invariant. *)

\* The calls that each script is made of.
RelayerCalls ==
    {Lock("pcapls", "w"), Unlock("pcapls"), Touch("accumulator", "w"), Touch("mapped_var", "r"),
     Call("put", "puffer"), Call("resume", "puffer")}
FilewriterCalls == {Call("get", "puffer"), Call("resume", "puffer"), PrintIn("mapped_var", "r")}
InterpreterCalls == {PrintIn("mapped_var", "w")}
KillCalls == {Call("fire", "STOP"), Call("fire", "SHUTDOWN")}
OpenCalls == {Touch("sysdat", "w"), Lock("pcapls", "r"), Unlock("pcapls"), Call("open", "device")}
CaptureCalls == {Call("capture", "device"), PrintIn("accumulator", "w")}
LoadCalls == {Lock("sysdat", "w"), Lock("pcapls", "w"), Touch("mapped_var", "w"), Unlock("pcapls"), Unlock("sysdat")}
StartCalls ==
    {Touch("pcapls", "r"), Touch("sysdat", "w"), Lock("pcapls", "r"), Unlock("pcapls"), Touch("listeners", "r")}
    \cup {Call("start", t) : t \in Threads} \cup {Call("place", s) : s \in Sniffers}
StopCalls ==
    {Touch("pcapls", "r"), Call("enter", "HALT")} \cup {Call("find", s) : s \in Sniffers}
    \cup {Call("stop", t) : t \in Threads} \cup {Call("await", t) : t \in Threads}
Calls ==
    RelayerCalls \cup FilewriterCalls \cup InterpreterCalls \cup KillCalls \cup OpenCalls \cup CaptureCalls
    \cup LoadCalls \cup StartCalls \cup StopCalls \cup {Call("enter", "RUN")}

\* Those who take the listeners' table for reading, or carry out a STOP.
Users == {"main"} \cup Sniffers

MadeOf(q, calls) == \A i \in DOMAIN q : q[i] \in calls
Has(q, call) == \E i \in DOMAIN q : q[i] = call
Once(q, calls) == \A i, k \in DOMAIN q : q[i] = q[k] /\ q[i] \in calls => i = k

\* Who takes a lock gives it back later on.
Balanced(q) ==
    \A i \in DOMAIN q : q[i].op = "lock" =>
        \E k \in DOMAIN q : i < k /\ q[k] = Unlock(q[i].on)

\* What follows an attempt to open a device, or a STOP.
KillsLast(q) ==
    \A i \in DOMAIN q :
        /\ q[i] = Call("open", "device") => \A k \in DOMAIN q : i < k => q[k] = Unlock("pcapls")
        /\ q[i] = Call("fire", "STOP") =>
              /\ i + 1 \in DOMAIN q /\ q[i + 1] = Call("fire", "SHUTDOWN")
              /\ \A k \in DOMAIN q : i + 1 < k => q[k] = Unlock("pcapls")

Starts == {Call("start", t) : t \in Threads}
Finds == {Call("find", s) : s \in Sniffers}

\* The rest of START, of a STOP.
StartsUp(q) ==
    /\ q # << >> /\ q[Len(q)] = Call("enter", "RUN")
    /\ \A i \in DOMAIN q : i # Len(q) => q[i] \in StartCalls
    /\ Once(q, Starts)
StopsAll(q) ==
    \E j \in DOMAIN q :
        /\ q[j] = Call("fire", "SHUTDOWN")
        /\ \A i \in DOMAIN q : i < j => q[i] \in StopCalls
        /\ \A i \in DOMAIN q : j < i => q[i] = Unlock("pcapls")

\* The relayer is still to be stopped, and nobody was before it.
RelayerFirst(q) ==
    \E i \in DOMAIN q : /\ q[i] \in {Call("stop", "relayer"), Call("await", "relayer")}
                        /\ \A k \in DOMAIN q : k < i => q[k] = Touch("pcapls", "r")

Starting == Has(todo["main"], Call("enter", "RUN"))

LockTypes ==
    /\ setup \in Setups
    /\ todo \in [Actors -> Seq(Calls)]
    /\ life \in [Threads -> {"none", "init", "loop", "dead", "ended"}]
    /\ state \in [Threads -> {"ready", "started", "run", "stop", "stopped"}]
    /\ cancelled \subseteq Threads /\ level \in 0 .. PufferSize
    /\ slots \subseteq Sniffers /\ current \in {"HALT", "RUN"}
    /\ stops \subseteq Users /\ gone \in BOOLEAN /\ left \in BOOLEAN

\* The calls that may be left to a: a part of its script.
ScriptOf(a, q) ==
    /\ a = "relayer" => MadeOf(q, RelayerCalls)
    /\ a = "filewriter" => MadeOf(q, FilewriterCalls)
    /\ a = "interpreter" => MadeOf(q, InterpreterCalls)
    /\ a \in Sniffers \ stops => MadeOf(q, OpenCalls \cup KillCalls) \/ MadeOf(q, CaptureCalls)
    /\ a = "main" /\ a \notin stops => StartsUp(q) \/ MadeOf(q, KillCalls)
    /\ a \in stops => StopsAll(q)
    /\ a \in Users \ stops => KillsLast(q)
    /\ Balanced(q)

Scripted == \A a \in Actors : ScriptOf(a, todo[a])

\* A lock is held for a while, leaked, or lost with a thread that died.
Held ==
    \A h \in held :
        \/ h = <<"relayer", "pcapls", "w">>
        \/ \E a \in Users : h = <<a, "pcapls", "r">>
        \/ \E a \in stops : h = <<a, "listeners", "w">>
        \/ \E t \in Threads, l \in {"accumulator", "mapped_var", "signal"}, mode \in {"r", "w"} :
              h = <<t, l, mode>> /\ life[t] = "dead"

Exclusive ==
    /\ Holds("relayer", "pcapls", "w") => \A a \in Users : ~ Holds(a, "pcapls", "r")
    /\ \A a, b \in Users : Holds(a, "listeners", "w") /\ Holds(b, "listeners", "w") => a = b

Returned ==
    /\ Holds("relayer", "pcapls", "w") => life["relayer"] = "dead" \/ Has(todo["relayer"], Unlock("pcapls"))
    /\ \A a \in Users : Holds(a, "pcapls", "r") => Has(todo[a], Unlock("pcapls"))

Sleepers ==
    /\ asleep \subseteq {"relayer", "filewriter"}
    /\ "relayer" \in asleep => Full
    /\ "filewriter" \in asleep => Empty

OnlyTheLivingAct == \A t \in Threads : life[t] \notin {"init", "loop"} => todo[t] = << >>

\* The relayer does not hold up a STOP any more, or has its table lost.
Settled == left \/ life["relayer"] = "ended"

\* What the program is like before START is over, and then until the first STOP.
StartsFresh ==
    Starting =>
        /\ stops = {} /\ current = "HALT" /\ cancelled = {} /\ ~ left
        /\ \A t \in Threads : life[t] # "dead"
        /\ \A t \in Threads : Has(todo["main"], Call("start", t)) => life[t] = "none"
        /\ \A t \in {"relayer", "filewriter"} : life[t] = "none" => Has(todo["main"], Call("start", t))
        /\ \A s \in Range(setup.listeners) : s \in slots \/ Has(todo["main"], Call("place", s))
Started ==
    ~ Starting =>
        /\ life["relayer"] # "none" /\ life["filewriter"] # "none"
        /\ stops = {} => current = "RUN" /\ Range(setup.listeners) \subseteq slots

StopsInOrder ==
    /\ \A a \in stops : current = "HALT" \/ Has(todo[a], Call("enter", "HALT"))
    /\ \A a \in stops : Settled \/ RelayerFirst(todo[a])
    /\ cancelled # {} \/ (\E t \in Threads : life[t] = "dead") => Settled
    /\ state["relayer"] = "stopped" => life["relayer"] = "ended"
    /\ life["relayer"] = "dead" \/ "relayer" \in cancelled => left
    /\ \/ Settled
       \/ life["filewriter"] \in {"none", "init"}
       \/ life["filewriter"] = "loop" /\ state["filewriter"] = "run"

\* As long as there was one STOP it finds every sniffer.
FindsAll ==
    \A a \in stops : stops = {a} =>
        /\ \A s \in Sniffers : Has(todo[a], Call("find", s)) => s \in slots
        /\ Once(todo[a], Finds)

Working ==
    /\ ~ gone
    /\ Scripted /\ Held /\ Exclusive /\ Returned /\ Sleepers /\ OnlyTheLivingAct
    /\ StartsFresh /\ Started /\ StopsInOrder /\ FindsAll /\ LeakNeedsTwoStops

\* main reads the configuration, and nothing else has begun.
LoadingWith(tables, calls) ==
    held = {<<"main", l, "w">> : l \in tables} /\ todo["main"] = calls \o StartScript
Loading ==
    /\ ~ gone /\ stops = {} /\ asleep = {} /\ cancelled = {} /\ level = 0 /\ slots = {} /\ current = "HALT" /\ ~ left
    /\ life = [t \in Threads |-> "none"]
    /\ state = [t \in Threads |-> "ready"]
    /\ \A a \in Actors : a # "main" => todo[a] = << >>
    /\ \/ LoadingWith({}, <<Lock("sysdat", "w"), Lock("pcapls", "w"), Touch("mapped_var", "w"), Unlock("pcapls"), Unlock("sysdat")>>)
       \/ LoadingWith({}, <<Lock("sysdat", "w"), Lock("pcapls", "w"), Unlock("pcapls"), Unlock("sysdat")>>)
       \/ LoadingWith({"sysdat"}, <<Lock("pcapls", "w"), Touch("mapped_var", "w"), Unlock("pcapls"), Unlock("sysdat")>>)
       \/ LoadingWith({"sysdat"}, <<Lock("pcapls", "w"), Unlock("pcapls"), Unlock("sysdat")>>)
       \/ LoadingWith({"sysdat", "pcapls"}, <<Touch("mapped_var", "w"), Unlock("pcapls"), Unlock("sysdat")>>)
       \/ LoadingWith({"sysdat", "pcapls"}, <<Unlock("pcapls"), Unlock("sysdat")>>)
       \/ LoadingWith({"sysdat"}, <<Unlock("sysdat")>>)

Over == gone /\ held = {} /\ asleep = {} /\ \A a \in Actors : todo[a] = << >>

LocksInv == LockTypes /\ (Loading \/ Working \/ Over)
-----------------------------------------------------------------------------
(* Sequences of calls. *)

\* A set of numbers that is not empty has a least one.
LEMMA LeastOf ==
    ASSUME NEW T \in SUBSET Nat, T # {}
    PROVE  \E n \in T : \A m \in T : ~ (m < n)
<1>1. PICK n \in T : \A m \in T : ~ (<<m, n>> \in OpToRel(<, Nat))
  <2>1. IsWellFoundedOn(OpToRel(<, Nat), Nat)
    BY NatLessThanWellFounded
  <2>2. QED
    BY ONLY <2>1, WFMin, T \in SUBSET Nat, T # {}
<1>2. QED
  BY <1>1 DEF OpToRel

\* Induction over 0 .. n, with a set in the place of a predicate.
LEMMA UpTo ==
    ASSUME NEW n \in Nat, NEW P, 0 \in P, \A i \in 1 .. n : i - 1 \in P => i \in P
    PROVE  n \in P
<1> DEFINE Rest == {k \in 0 .. n : k \notin P}
<1>1. ASSUME Rest # {} PROVE FALSE
  <2>1. PICK k \in Rest : \A m \in Rest : ~ (m < k)
    <3>1. Rest \in SUBSET Nat
      OBVIOUS
    <3>2. QED
      BY ONLY <1>1, <3>1, LeastOf
  <2>2. k \in 1 .. n /\ k - 1 \in 0 .. n /\ k - 1 < k
    BY <2>1
  <2>3. QED
    BY <2>1, <2>2
<1>2. QED
  BY <1>1

Joined(p, q) == p \o q

\* g joins the first n of seqs, one after the other.
Joins(g, seqs, n, S) ==
    /\ \A i \in 0 .. n : g[i] \in Seq(S)
    /\ g[0] = << >> /\ \A i \in 1 .. n : g[i] = Joined(g[i - 1], seqs[i])

\* Sequences can be joined one after the other.
LEMMA JoinsExist ==
    ASSUME NEW S, NEW n \in Nat, NEW seqs, \A i \in 1 .. n : seqs[i] \in Seq(S)
    PROVE  \E g : Joins(g, seqs, n, S)
<1> DEFINE P == {k \in 0 .. n : \E f : Joins(f, seqs, k, S)}
<1>1. 0 \in P
  <2>1. Joins([i \in 0 .. 0 |-> << >>], seqs, 0, S)
    BY EmptySeq DEF Joins
  <2>2. 0 \in 0 .. n
    OBVIOUS
  <2>3. QED
    BY <2>1, <2>2
<1>2. ASSUME NEW k \in 1 .. n, k - 1 \in P PROVE k \in P
  <2>1. PICK f : Joins(f, seqs, k - 1, S)
    BY <1>2
  <2> DEFINE h == [i \in 0 .. k |-> IF i = k THEN Joined(f[k - 1], seqs[k]) ELSE f[i]]
  <2>2. k - 1 \in 0 .. k - 1 /\ f[k - 1] \in Seq(S) /\ seqs[k] \in Seq(S)
    BY <2>1 DEF Joins
  <2>3. Joined(f[k - 1], seqs[k]) \in Seq(S)
    BY <2>2, ConcatProperties DEF Joined
  <2>4. h[k] = Joined(f[k - 1], seqs[k]) /\ \A i \in 0 .. k - 1 : h[i] = f[i]
    BY <2>2
  <2> HIDE DEF h
  <2>5. \A i \in 0 .. k : h[i] \in Seq(S)
    BY <2>1, <2>3, <2>4 DEF Joins
  <2>6. \A i \in 1 .. k : h[i] = Joined(h[i - 1], seqs[i])
    <3> TAKE i \in 1 .. k
    <3>1. i - 1 \in 0 .. k - 1 /\ h[i - 1] = f[i - 1]
      BY <2>4
    <3>2. i = k \/ (i \in 1 .. k - 1 /\ h[i] = f[i])
      BY <2>4
    <3>3. QED
      BY <2>1, <2>4, <3>1, <3>2 DEF Joins
  <2>7. Joins(h, seqs, k, S)
    BY <2>1, <2>4, <2>5, <2>6 DEF Joins
  <2>8. QED
    BY <2>7
<1> HIDE DEF P
<1>3. n \in P
  BY ONLY <1>1, <1>2, UpTo, n \in Nat
<1>4. QED
  BY <1>3 DEF P

\* What FlattenSeq makes of seqs.
LEMMA FlattenJoins ==
    ASSUME NEW S, NEW seqs \in Seq(Seq(S))
    PROVE  \E g : Joins(g, seqs, Len(seqs), S) /\ FlattenSeq(seqs) = g[Len(seqs)]
<1>1. PICK n \in Nat : n = Len(seqs)
  BY LenProperties
<1>2. \A i \in 1 .. n : seqs[i] \in Seq(S)
  BY <1>1, LenProperties, ElementOfSeq
<1>3. PICK g : Joins(g, seqs, n, S)
  BY <1>2, JoinsExist
<1>4. CASE n = 0
  <2>1. seqs = << >>
    BY <1>1, <1>4, EmptySeq
  <2>2. FlattenSeq(seqs) = << >>
    BY <1>1, <1>4, <2>1 DEF FlattenSeq
  <2>3. QED
    BY <1>1, <1>3, <1>4, <2>2 DEF Joins
<1>5. CASE n # 0
  <2> DEFINE Following(h) == [i \in 1 .. n |-> IF i = 1 THEN seqs[i] ELSE Joined(h[i - 1], seqs[i])]
             f == [i \in 1 .. n |-> g[i]]
             flatten == CHOOSE h : h = Following(h)
  <2>1. g[1] = seqs[1]
    <3>1. g[1] = Joined(<< >>, seqs[1]) /\ seqs[1] \in Seq(S)
      BY <1>2, <1>3, <1>5 DEF Joins
    <3>2. QED
      BY <3>1, ConcatEmptySeq DEF Joined
  <2>2. f = Following(f)
    <3>1. \A i \in 1 .. n : f[i] = IF i = 1 THEN seqs[i] ELSE Joined(f[i - 1], seqs[i])
      BY <1>3, <2>1 DEF Joins
    <3>2. QED
      BY <3>1
  <2>3. flatten = Following(flatten)
    <3> HIDE DEF Following, f
    <3>1. QED
      BY ONLY <2>2, Zenon
  <2>4. FlattenSeq(seqs) = flatten[n]
    BY <1>1, <1>5, Zenon DEF FlattenSeq, Joined
  <2> HIDE DEF flatten
  <2>5. \A i \in 1 .. n : flatten[i] = IF i = 1 THEN seqs[i] ELSE Joined(flatten[i - 1], seqs[i])
    BY <2>3
  <2> DEFINE P == {k \in 0 .. n : k # 0 => flatten[k] = g[k]}
  <2>6. 0 \in P
    OBVIOUS
  <2>7. ASSUME NEW k \in 1 .. n, k - 1 \in P PROVE k \in P
    <3>1. k = 1 \/ (k # 1 /\ flatten[k - 1] = g[k - 1])
      BY <2>7
    <3>2. k # 1 => flatten[k] = Joined(flatten[k - 1], seqs[k]) /\ g[k] = Joined(g[k - 1], seqs[k])
      BY <1>3, <2>5 DEF Joins
    <3>3. QED
      BY <2>1, <2>5, <3>1, <3>2
  <2> HIDE DEF P
  <2>8. n \in P
    BY ONLY <2>6, <2>7, UpTo, n \in Nat
  <2>9. QED
    BY <1>1, <1>3, <1>5, <2>4, <2>8 DEF P
<1>6. QED
  BY <1>4, <1>5

\* What two joined sequences are, position by position.
LEMMA JoinIs ==
    ASSUME NEW S, NEW p \in Seq(S), NEW q \in Seq(S)
    PROVE  /\ p \o q \in Seq(S)
           /\ Len(p) \in Nat /\ Len(q) \in Nat /\ Len(p \o q) = Len(p) + Len(q)
           /\ DOMAIN p = 1 .. Len(p) /\ DOMAIN q = 1 .. Len(q) /\ DOMAIN (p \o q) = 1 .. Len(p) + Len(q)
           /\ \A i \in 1 .. Len(p) : (p \o q)[i] = p[i]
           /\ \A i \in 1 .. Len(q) : (p \o q)[Len(p) + i] = q[i]
<1>1. p \o q \in Seq(S) /\ Len(p \o q) = Len(p) + Len(q)
  BY ConcatProperties
<1>2. Len(p) \in Nat /\ Len(q) \in Nat /\ DOMAIN p = 1 .. Len(p) /\ DOMAIN q = 1 .. Len(q)
  BY LenProperties
<1>3. DOMAIN (p \o q) = 1 .. Len(p) + Len(q)
  BY <1>1, LenProperties
<1>4. /\ \A i \in 1 .. Len(p) : (p \o q)[i] = p[i]
      /\ \A i \in 1 .. Len(q) : (p \o q)[Len(p) + i] = q[i]
  BY <1>1, <1>2, ConcatProperties
<1>5. QED
  BY <1>1, <1>2, <1>3, <1>4

\* Every position of p \o q is one of p, or one of q.
LEMMA JoinAt ==
    ASSUME NEW S, NEW p \in Seq(S), NEW q \in Seq(S), NEW i \in DOMAIN (p \o q)
    PROVE  \/ i \in DOMAIN p /\ (p \o q)[i] = p[i]
           \/ i - Len(p) \in DOMAIN q /\ (p \o q)[i] = q[i - Len(p)] /\ i > Len(p)
<1>1. CASE i \in 1 .. Len(p)
  BY <1>1, JoinIs
<1>2. CASE i \notin 1 .. Len(p)
  <2>1. PICK k \in 1 .. Len(q) : i = Len(p) + k
    <3>1. i \in 1 .. Len(p) + Len(q) /\ Len(p) \in Nat /\ Len(q) \in Nat
      BY JoinIs
    <3>2. i - Len(p) \in 1 .. Len(q)
      BY <1>2, <3>1
    <3>3. i = Len(p) + (i - Len(p))
      BY <3>1
    <3>4. QED
      BY <3>2, <3>3
  <2>2. i - Len(p) = k /\ i > Len(p)
    BY <2>1, JoinIs
  <2>3. QED
    BY <2>1, <2>2, JoinIs
<1>3. QED
  BY <1>1, <1>2

\* A joined sequence has what either of the two has.
LEMMA JoinHas ==
    ASSUME NEW S, NEW p \in Seq(S), NEW q \in Seq(S), NEW c
    PROVE  Has(p \o q, c) <=> Has(p, c) \/ Has(q, c)
<1>1. ASSUME Has(p \o q, c) PROVE Has(p, c) \/ Has(q, c)
  BY <1>1, JoinAt DEF Has
<1>2. ASSUME Has(p, c) PROVE Has(p \o q, c)
  <2>1. PICK i \in DOMAIN p : p[i] = c
    BY <1>2 DEF Has
  <2>2. i \in DOMAIN (p \o q) /\ (p \o q)[i] = p[i]
    BY JoinIs
  <2>3. QED
    BY <2>1, <2>2 DEF Has
<1>3. ASSUME Has(q, c) PROVE Has(p \o q, c)
  <2>1. PICK i \in DOMAIN q : q[i] = c
    BY <1>3 DEF Has
  <2>2. Len(p) + i \in DOMAIN (p \o q) /\ (p \o q)[Len(p) + i] = q[i]
    BY JoinIs
  <2>3. QED
    BY <2>1, <2>2 DEF Has
<1>4. QED
  BY <1>1, <1>2, <1>3

\* It has once what both have once and do not share.
LEMMA JoinOnce ==
    ASSUME NEW S, NEW C, NEW p \in Seq(S), NEW q \in Seq(S), Once(p, C), Once(q, C),
           \A c \in C : ~ (Has(p, c) /\ Has(q, c))
    PROVE  Once(p \o q, C)
<1> SUFFICES ASSUME NEW i \in DOMAIN (p \o q), NEW k \in DOMAIN (p \o q),
                    (p \o q)[i] = (p \o q)[k], (p \o q)[i] \in C
             PROVE  i = k
  BY DEF Once
<1>1. PICK c \in C : c = (p \o q)[i] /\ c = (p \o q)[k]
  OBVIOUS
<1>2. \/ i \in DOMAIN p /\ c = p[i]
      \/ i - Len(p) \in DOMAIN q /\ c = q[i - Len(p)]
  BY <1>1, JoinAt
<1>3. \/ k \in DOMAIN p /\ c = p[k]
      \/ k - Len(p) \in DOMAIN q /\ c = q[k - Len(p)]
  BY <1>1, JoinAt
<1>4. CASE i \in DOMAIN p /\ c = p[i]
  <2>1. k \in DOMAIN p /\ c = p[k]
    BY <1>3, <1>4 DEF Has
  <2>2. QED
    BY <1>4, <2>1 DEF Once
<1>5. CASE i - Len(p) \in DOMAIN q /\ c = q[i - Len(p)]
  <2>1. k - Len(p) \in DOMAIN q /\ c = q[k - Len(p)]
    BY <1>3, <1>5 DEF Has
  <2>2. i - Len(p) = k - Len(p)
    BY <1>5, <2>1 DEF Once
  <2>3. i \in Nat /\ k \in Nat /\ Len(p) \in Nat
    BY JoinIs
  <2>4. QED
    BY <2>2, <2>3
<1>6. QED
  BY <1>2, <1>4, <1>5

\* Joined scripts that give back their locks give them back.
LEMMA JoinBalanced ==
    ASSUME NEW S, NEW p \in Seq(S), NEW q \in Seq(S), Balanced(p), Balanced(q)
    PROVE  Balanced(p \o q)
<1> SUFFICES ASSUME NEW i \in DOMAIN (p \o q), (p \o q)[i].op = "lock"
             PROVE  \E k \in DOMAIN (p \o q) : i < k /\ (p \o q)[k] = Unlock((p \o q)[i].on)
  BY DEF Balanced
<1>0. Len(p) \in Nat /\ Len(q) \in Nat
  BY JoinIs
<1>1. CASE i \in DOMAIN p /\ (p \o q)[i] = p[i]
  <2>1. PICK k \in DOMAIN p : i < k /\ p[k] = Unlock(p[i].on)
    BY <1>1 DEF Balanced
  <2>2. k \in DOMAIN (p \o q) /\ (p \o q)[k] = p[k]
    BY JoinIs
  <2>3. QED
    BY <1>1, <2>1, <2>2
<1>2. CASE i - Len(p) \in DOMAIN q /\ (p \o q)[i] = q[i - Len(p)] /\ i > Len(p)
  <2>1. PICK k \in DOMAIN q : i - Len(p) < k /\ q[k] = Unlock(q[i - Len(p)].on)
    BY <1>2 DEF Balanced
  <2>2. Len(p) + k \in DOMAIN (p \o q) /\ (p \o q)[Len(p) + k] = q[k]
    BY JoinIs
  <2>3. i < Len(p) + k
    <3>1. i \in Int /\ k \in Int
      BY JoinIs
    <3>2. QED
      BY <1>0, <2>1, <3>1
  <2>4. QED
    BY <1>2, <2>1, <2>2, <2>3
<1>3. QED
  BY <1>1, <1>2, JoinAt

\* A flattened sequence has what its members have.
LEMMA FlattenHas ==
    ASSUME NEW S, NEW seqs \in Seq(Seq(S))
    PROVE  /\ FlattenSeq(seqs) \in Seq(S)
           /\ \A c : Has(FlattenSeq(seqs), c) <=> \E i \in 1 .. Len(seqs) : Has(seqs[i], c)
<1>1. PICK n \in Nat : n = Len(seqs)
  BY LenProperties
<1>2. PICK g : Joins(g, seqs, n, S) /\ FlattenSeq(seqs) = g[n]
  BY <1>1, FlattenJoins
<1>3. \A i \in 1 .. n : seqs[i] \in Seq(S)
  BY <1>1, LenProperties, ElementOfSeq
<1> DEFINE P == {k \in 0 .. n : \A c : Has(g[k], c) <=> \E i \in 1 .. k : Has(seqs[i], c)}
<1>4. 0 \in P
  <2>1. \A c : ~ Has(g[0], c)
    BY <1>2 DEF Joins, Has
  <2>2. QED
    BY <2>1
<1>5. ASSUME NEW k \in 1 .. n, k - 1 \in P PROVE k \in P
  <2>1. g[k] = g[k - 1] \o seqs[k] /\ g[k - 1] \in Seq(S) /\ seqs[k] \in Seq(S)
    BY <1>2, <1>3, <1>5 DEF Joins, Joined
  <2>2. ASSUME NEW c PROVE Has(g[k], c) <=> \E i \in 1 .. k : Has(seqs[i], c)
    <3>1. Has(g[k], c) <=> Has(g[k - 1], c) \/ Has(seqs[k], c)
      BY <2>1, JoinHas
    <3>2. Has(g[k - 1], c) <=> \E i \in 1 .. k - 1 : Has(seqs[i], c)
      BY <1>5
    <3>3. \A i : i \in 1 .. k <=> i \in 1 .. k - 1 \/ i = k
      BY <1>5
    <3>4. QED
      BY <3>1, <3>2, <3>3
  <2>3. QED
    BY <2>2
<1> HIDE DEF P
<1>6. n \in P
  BY ONLY <1>4, <1>5, UpTo, n \in Nat
<1>7. QED
  BY <1>1, <1>2, <1>6 DEF P, Joins

\* It has once what they have once and do not share.
LEMMA FlattenOnce ==
    ASSUME NEW S, NEW C, NEW seqs \in Seq(Seq(S)),
           \A i \in 1 .. Len(seqs) : Once(seqs[i], C),
           \A i, k \in 1 .. Len(seqs) : \A c \in C : Has(seqs[i], c) /\ Has(seqs[k], c) => i = k
    PROVE  Once(FlattenSeq(seqs), C)
<1>1. PICK n \in Nat : n = Len(seqs)
  BY LenProperties
<1>2. PICK g : Joins(g, seqs, n, S) /\ FlattenSeq(seqs) = g[n]
  BY <1>1, FlattenJoins
<1>3. \A i \in 1 .. n : seqs[i] \in Seq(S)
  BY <1>1, LenProperties, ElementOfSeq
<1> DEFINE P == {k \in 0 .. n : /\ Once(g[k], C)
                                /\ \A c : Has(g[k], c) => \E i \in 1 .. k : Has(seqs[i], c)}
<1>4. 0 \in P
  <2>1. Once(g[0], C) /\ \A c : ~ Has(g[0], c)
    BY <1>2 DEF Joins, Has, Once
  <2>2. QED
    BY <2>1
<1>5. ASSUME NEW k \in 1 .. n, k - 1 \in P PROVE k \in P
  <2>1. g[k] = g[k - 1] \o seqs[k] /\ g[k - 1] \in Seq(S) /\ seqs[k] \in Seq(S)
    BY <1>2, <1>3, <1>5 DEF Joins, Joined
  <2>2. ASSUME NEW c, Has(g[k], c) PROVE \E i \in 1 .. k : Has(seqs[i], c)
    <3>1. Has(g[k - 1], c) \/ Has(seqs[k], c)
      BY <2>1, <2>2, JoinHas
    <3>2. Has(g[k - 1], c) => \E i \in 1 .. k - 1 : Has(seqs[i], c)
      BY <1>5
    <3>3. k \in 1 .. k /\ \A i \in 1 .. k - 1 : i \in 1 .. k
      BY <1>5
    <3>4. QED
      BY <3>1, <3>2, <3>3
  <2>3. \A c \in C : ~ (Has(g[k - 1], c) /\ Has(seqs[k], c))
    <3>1. \A c : Has(g[k - 1], c) => \E i \in 1 .. k - 1 : Has(seqs[i], c)
      BY <1>5
    <3>2. \A i \in 1 .. k - 1 : i \in 1 .. n /\ i # k
      BY <1>5
    <3>3. QED
      BY <1>1, <3>1, <3>2
  <2>4. Once(g[k - 1], C) /\ Once(seqs[k], C)
    BY <1>1, <1>5
  <2>5. Once(g[k], C)
    BY <2>1, <2>3, <2>4, JoinOnce
  <2>6. QED
    BY <2>2, <2>5
<1> HIDE DEF P
<1>6. n \in P
  BY ONLY <1>4, <1>5, UpTo, n \in Nat
<1>7. QED
  BY <1>1, <1>2, <1>6 DEF P

\* Joined scripts are made of the calls that both are made of.
LEMMA JoinMadeOf ==
    ASSUME NEW S, NEW C, NEW p \in Seq(S), NEW q \in Seq(S), MadeOf(p, C), MadeOf(q, C)
    PROVE  MadeOf(p \o q, C)
BY JoinAt DEF MadeOf

\* A script gives back what it takes also if that is left to what follows it.
LEMMA JoinReturned ==
    ASSUME NEW S, NEW p \in Seq(S), NEW q \in Seq(S), Balanced(q),
           \A i \in DOMAIN p : p[i].op = "lock" => Has(q, Unlock(p[i].on))
    PROVE  Balanced(p \o q)
<1> SUFFICES ASSUME NEW i \in DOMAIN (p \o q), (p \o q)[i].op = "lock"
             PROVE  \E k \in DOMAIN (p \o q) : i < k /\ (p \o q)[k] = Unlock((p \o q)[i].on)
  BY DEF Balanced
<1>0. Len(p) \in Nat /\ Len(q) \in Nat
  BY JoinIs
<1>1. CASE i \in DOMAIN p /\ (p \o q)[i] = p[i]
  <2>1. PICK k \in DOMAIN q : q[k] = Unlock(p[i].on)
    BY <1>1 DEF Has
  <2>2. Len(p) + k \in DOMAIN (p \o q) /\ (p \o q)[Len(p) + k] = q[k]
    BY JoinIs
  <2>3. i < Len(p) + k
    <3>1. i \in 1 .. Len(p) /\ k \in 1 .. Len(q)
      BY <1>1, JoinIs
    <3>2. QED
      BY <1>0, <3>1
  <2>4. QED
    BY <1>1, <2>1, <2>2, <2>3
<1>2. CASE i - Len(p) \in DOMAIN q /\ (p \o q)[i] = q[i - Len(p)] /\ i > Len(p)
  <2>1. PICK k \in DOMAIN q : i - Len(p) < k /\ q[k] = Unlock(q[i - Len(p)].on)
    BY <1>2 DEF Balanced
  <2>2. Len(p) + k \in DOMAIN (p \o q) /\ (p \o q)[Len(p) + k] = q[k]
    BY JoinIs
  <2>3. i < Len(p) + k
    <3>1. i \in Int /\ k \in Int
      BY JoinIs
    <3>2. QED
      BY <1>0, <2>1, <3>1
  <2>4. QED
    BY <1>2, <2>1, <2>2, <2>3
<1>3. QED
  BY <1>1, <1>2, JoinAt

\* The rest of a script, position by position.
LEMMA TailIs ==
    ASSUME NEW q \in Seq(Calls), q # << >>
    PROVE  /\ Tail(q) \in Seq(Calls) /\ Head(q) \in Calls /\ Head(q) = q[1]
           /\ Len(q) \in Nat \ {0} /\ Len(Tail(q)) = Len(q) - 1
           /\ DOMAIN q = 1 .. Len(q) /\ DOMAIN Tail(q) = 1 .. Len(q) - 1 /\ 1 \in DOMAIN q
           /\ \A i \in DOMAIN Tail(q) : Tail(q)[i] = q[i + 1] /\ i + 1 \in DOMAIN q
           /\ \A i \in DOMAIN q : i # 1 => i - 1 \in DOMAIN Tail(q) /\ Tail(q)[i - 1] = q[i]
<1>1. /\ Tail(q) \in Seq(Calls) /\ Head(q) \in Calls /\ Len(q) \in Nat \ {0} /\ Len(Tail(q)) = Len(q) - 1
      /\ \A i \in 1 .. Len(Tail(q)) : Tail(q)[i] = q[i + 1]
  BY HeadTailProperties, EmptySeq
<1>2. DOMAIN q = 1 .. Len(q) /\ DOMAIN Tail(q) = 1 .. Len(q) - 1
  BY <1>1, LenProperties
<1>3. Head(q) = q[1]
  OBVIOUS
<1>4. QED
  BY <1>1, <1>2, <1>3

\* What is said of a script is said of its rest, but of the call that was first.
LEMMA TailKeeps ==
    ASSUME NEW q \in Seq(Calls), q # << >>
    PROVE  /\ \A c : Has(Tail(q), c) => Has(q, c)
           /\ \A c : Has(q, c) => Has(Tail(q), c) \/ c = Head(q)
           /\ \A C : MadeOf(q, C) => MadeOf(Tail(q), C) /\ Head(q) \in C
           /\ \A C : Once(q, C) => Once(Tail(q), C) /\ (Head(q) \in C => ~ Has(Tail(q), Head(q)))
           /\ Balanced(q) => Balanced(Tail(q))
           /\ KillsLast(q) => KillsLast(Tail(q))
           /\ StartsUp(q) => StartsUp(Tail(q)) \/ Tail(q) = << >>
           /\ StopsAll(q) => StopsAll(Tail(q)) \/ Head(q) = Call("fire", "SHUTDOWN")
           /\ RelayerFirst(q) => \/ RelayerFirst(Tail(q))
                                 \/ Head(q) \in {Call("stop", "relayer"), Call("await", "relayer")}
<1>1. \A c : Has(Tail(q), c) => Has(q, c)
  BY TailIs DEF Has
<1>2. ASSUME NEW c, Has(q, c), c # Head(q) PROVE Has(Tail(q), c)
  <2>1. PICK i \in DOMAIN q : q[i] = c
    BY <1>2 DEF Has
  <2>2. i # 1
    BY <1>2, <2>1, TailIs
  <2>3. i - 1 \in DOMAIN Tail(q) /\ Tail(q)[i - 1] = c
    BY <2>1, <2>2, TailIs
  <2>4. QED
    BY <2>3 DEF Has
<1>3. \A C : MadeOf(q, C) => MadeOf(Tail(q), C) /\ Head(q) \in C
  BY TailIs DEF MadeOf
<1>4. ASSUME NEW C, Once(q, C) PROVE Once(Tail(q), C) /\ (Head(q) \in C => ~ Has(Tail(q), Head(q)))
  <2>1. ASSUME NEW i \in DOMAIN Tail(q), NEW k \in DOMAIN Tail(q), Tail(q)[i] = Tail(q)[k], Tail(q)[i] \in C
        PROVE  i = k
    <3>1. /\ i + 1 \in DOMAIN q /\ k + 1 \in DOMAIN q /\ q[i + 1] = Tail(q)[i] /\ q[k + 1] = Tail(q)[k]
          /\ i \in Int /\ k \in Int
      BY TailIs
    <3>2. i + 1 = k + 1
      BY <1>4, <2>1, <3>1 DEF Once
    <3>3. QED
      BY <3>1, <3>2
  <2>2. ASSUME Head(q) \in C, NEW i \in DOMAIN Tail(q), Tail(q)[i] = Head(q) PROVE FALSE
    <3>1. i + 1 \in DOMAIN q /\ q[i + 1] = q[1] /\ 1 \in DOMAIN q /\ q[1] \in C /\ i \in Nat \ {0}
      BY <2>2, TailIs
    <3>2. i + 1 = 1
      BY <1>4, <3>1 DEF Once
    <3>3. QED
      BY <3>1, <3>2
  <2>3. QED
    BY <2>1, <2>2 DEF Once, Has
<1>5. ASSUME Balanced(q) PROVE Balanced(Tail(q))
  <2> SUFFICES ASSUME NEW i \in DOMAIN Tail(q), Tail(q)[i].op = "lock"
               PROVE  \E k \in DOMAIN Tail(q) : i < k /\ Tail(q)[k] = Unlock(Tail(q)[i].on)
    BY DEF Balanced
  <2>1. i + 1 \in DOMAIN q /\ q[i + 1] = Tail(q)[i] /\ i \in Nat \ {0}
    BY TailIs
  <2>2. PICK k \in DOMAIN q : i + 1 < k /\ q[k] = Unlock(q[i + 1].on)
    BY <1>5, <2>1 DEF Balanced
  <2>3. k - 1 \in DOMAIN Tail(q) /\ Tail(q)[k - 1] = q[k] /\ i < k - 1
    BY <2>1, <2>2, TailIs
  <2>4. QED
    BY <2>1, <2>2, <2>3
<1>6. ASSUME KillsLast(q) PROVE KillsLast(Tail(q))
  <2> SUFFICES ASSUME NEW i \in DOMAIN Tail(q)
               PROVE  /\ Tail(q)[i] = Call("open", "device") =>
                            \A k \in DOMAIN Tail(q) : i < k => Tail(q)[k] = Unlock("pcapls")
                      /\ Tail(q)[i] = Call("fire", "STOP") =>
                            /\ i + 1 \in DOMAIN Tail(q) /\ Tail(q)[i + 1] = Call("fire", "SHUTDOWN")
                            /\ \A k \in DOMAIN Tail(q) : i + 1 < k => Tail(q)[k] = Unlock("pcapls")
    BY DEF KillsLast
  <2>1. i + 1 \in DOMAIN q /\ q[i + 1] = Tail(q)[i] /\ i \in Nat \ {0}
    BY TailIs
  <2>2. ASSUME NEW k \in DOMAIN Tail(q) PROVE k + 1 \in DOMAIN q /\ q[k + 1] = Tail(q)[k] /\ k \in Nat
    BY TailIs
  <2>3. ASSUME q[i + 1] = Call("open", "device"), NEW k \in DOMAIN Tail(q), i < k
        PROVE  Tail(q)[k] = Unlock("pcapls")
    <3>1. k + 1 \in DOMAIN q /\ i + 1 < k + 1
      BY <2>1, <2>2, <2>3
    <3>2. q[k + 1] = Unlock("pcapls")
      BY <1>6, <2>1, <2>3, <3>1 DEF KillsLast
    <3>3. QED
      BY <2>2, <3>2
  <2>4. ASSUME q[i + 1] = Call("fire", "STOP")
        PROVE  /\ i + 1 \in DOMAIN Tail(q) /\ Tail(q)[i + 1] = Call("fire", "SHUTDOWN")
               /\ \A k \in DOMAIN Tail(q) : i + 1 < k => Tail(q)[k] = Unlock("pcapls")
    <3>1. /\ (i + 1) + 1 \in DOMAIN q /\ q[(i + 1) + 1] = Call("fire", "SHUTDOWN")
          /\ \A k \in DOMAIN q : (i + 1) + 1 < k => q[k] = Unlock("pcapls")
      BY <1>6, <2>1, <2>4 DEF KillsLast
    <3>2. i + 1 \in DOMAIN Tail(q) /\ Tail(q)[i + 1] = q[(i + 1) + 1]
      <4>1. (i + 1) + 1 # 1 /\ ((i + 1) + 1) - 1 = i + 1
        BY <2>1
      <4>2. QED
        BY <3>1, <4>1, TailIs
    <3>3. ASSUME NEW k \in DOMAIN Tail(q), i + 1 < k PROVE Tail(q)[k] = Unlock("pcapls")
      <4>1. k + 1 \in DOMAIN q /\ (i + 1) + 1 < k + 1
        BY <2>1, <2>2, <3>3
      <4>2. q[k + 1] = Unlock("pcapls")
        BY <3>1, <4>1
      <4>3. QED
        BY <2>2, <4>2
    <3>4. QED
      BY <3>1, <3>2, <3>3
  <2>5. QED
    BY <2>1, <2>3, <2>4
<1>7. ASSUME StartsUp(q), Tail(q) # << >> PROVE StartsUp(Tail(q))
  <2>1. Len(Tail(q)) \in Nat \ {0} /\ Len(Tail(q)) + 1 = Len(q) /\ Len(Tail(q)) \in DOMAIN Tail(q)
    BY <1>7, TailIs, EmptySeq
  <2>2. Tail(q)[Len(Tail(q))] = Call("enter", "RUN")
    BY <1>7, <2>1, TailIs DEF StartsUp
  <2>3. ASSUME NEW i \in DOMAIN Tail(q), i # Len(Tail(q)) PROVE Tail(q)[i] \in StartCalls
    <3>1. i + 1 \in DOMAIN q /\ i + 1 # Len(q) /\ Tail(q)[i] = q[i + 1]
      BY <2>1, <2>3, TailIs
    <3>2. QED
      BY <1>7, <3>1 DEF StartsUp
  <2>4. QED
    BY <1>4, <1>7, <2>2, <2>3 DEF StartsUp
<1>8. ASSUME StopsAll(q), Head(q) # Call("fire", "SHUTDOWN") PROVE StopsAll(Tail(q))
  <2>1. PICK j \in DOMAIN q : /\ q[j] = Call("fire", "SHUTDOWN")
                              /\ \A i \in DOMAIN q : i < j => q[i] \in StopCalls
                              /\ \A i \in DOMAIN q : j < i => q[i] = Unlock("pcapls")
    BY <1>8 DEF StopsAll
  <2>2. j # 1 /\ j \in Nat
    BY <1>8, <2>1, TailIs
  <2>3. j - 1 \in DOMAIN Tail(q) /\ Tail(q)[j - 1] = Call("fire", "SHUTDOWN")
    BY <2>1, <2>2, TailIs
  <2>4. ASSUME NEW i \in DOMAIN Tail(q)
        PROVE  /\ i < j - 1 => Tail(q)[i] \in StopCalls
               /\ j - 1 < i => Tail(q)[i] = Unlock("pcapls")
    <3>1. i + 1 \in DOMAIN q /\ Tail(q)[i] = q[i + 1] /\ i \in Nat
      BY TailIs
    <3>2. (i < j - 1 <=> i + 1 < j) /\ (j - 1 < i <=> j < i + 1)
      BY <2>2, <3>1
    <3>3. QED
      BY <2>1, <3>1, <3>2
  <2>5. QED
    BY <2>3, <2>4 DEF StopsAll
<1>9. ASSUME RelayerFirst(q), Head(q) \notin {Call("stop", "relayer"), Call("await", "relayer")}
      PROVE  RelayerFirst(Tail(q))
  <2>1. PICK j \in DOMAIN q : /\ q[j] \in {Call("stop", "relayer"), Call("await", "relayer")}
                              /\ \A k \in DOMAIN q : k < j => q[k] = Touch("pcapls", "r")
    BY <1>9 DEF RelayerFirst
  <2>2. j # 1 /\ j \in Nat
    BY <1>9, <2>1, TailIs
  <2>3. j - 1 \in DOMAIN Tail(q) /\ Tail(q)[j - 1] = q[j]
    BY <2>1, <2>2, TailIs
  <2>4. ASSUME NEW i \in DOMAIN Tail(q), i < j - 1 PROVE Tail(q)[i] = Touch("pcapls", "r")
    <3>1. i + 1 \in DOMAIN q /\ Tail(q)[i] = q[i + 1] /\ i \in Nat
      BY TailIs
    <3>2. i + 1 < j
      BY <2>2, <2>4, <3>1
    <3>3. QED
      BY <2>1, <3>1, <3>2
  <2>5. QED
    BY <2>1, <2>3, <2>4 DEF RelayerFirst
<1>10. QED
  BY <1>1, <1>2, <1>3, <1>4, <1>5, <1>6, <1>7, <1>8, <1>9

-----------------------------------------------------------------------------
(* The scripts. *)

\* A function on 1 .. n is a sequence.
LEMMA FunctionIsSeq ==
    ASSUME NEW S, NEW n \in Nat, NEW f \in [1 .. n -> S]
    PROVE  f \in Seq(S) /\ Len(f) = n
<1>1. f \in Seq(S)
  BY SeqDef
<1>2. Len(f) \in Nat /\ DOMAIN f = 1 .. Len(f) /\ DOMAIN f = 1 .. n
  BY <1>1, LenProperties
<1>3. \A i \in Nat : i \in 1 .. Len(f) <=> i \in 1 .. n
  BY <1>2
<1>4. (Len(f) \in 1 .. Len(f) \/ Len(f) = 0) /\ (n \in 1 .. n \/ n = 0)
  BY <1>2
<1>5. Len(f) <= n /\ n <= Len(f)
  BY <1>2, <1>3, <1>4
<1>6. QED
  BY <1>1, <1>2, <1>5

\* What is assumed of a set-up.
LEMMA SetupIs ==
    ASSUME setup \in Setups
    PROVE  /\ setup.full \in BOOLEAN /\ setup.listeners \in Seq(Sniffers)
           /\ Len(setup.listeners) \in Nat /\ DOMAIN setup.listeners = 1 .. Len(setup.listeners)
           /\ \A i \in DOMAIN setup.listeners : setup.listeners[i] \in Sniffers
           /\ \A i, k \in DOMAIN setup.listeners : setup.listeners[i] = setup.listeners[k] => i = k
           /\ Range(setup.listeners) \subseteq Sniffers
<1>1. /\ setup.full \in BOOLEAN /\ setup.listeners \in Seq(Sniffers)
      /\ \A i, k \in DOMAIN setup.listeners : setup.listeners[i] = setup.listeners[k] => i = k
  BY LocksAssumption DEF IsInjective
<1>2. /\ Len(setup.listeners) \in Nat /\ DOMAIN setup.listeners = 1 .. Len(setup.listeners)
      /\ \A i \in DOMAIN setup.listeners : setup.listeners[i] \in Sniffers
  BY <1>1, LenProperties, ElementOfSeq
<1>3. QED
  BY <1>1, <1>2 DEF Range

\* Who is who.
LEMMA NamesDiffer ==
    /\ "main" \notin Threads /\ "relayer" \notin Sniffers /\ "filewriter" \notin Sniffers
    /\ "interpreter" \notin Sniffers /\ "main" \notin Sniffers
    /\ Sniffers \subseteq Threads /\ Threads \subseteq Actors /\ Actors = Users \cup {"relayer", "filewriter", "interpreter"}
    /\ "relayer" \in Threads /\ "filewriter" \in Threads /\ "interpreter" \in Threads
    /\ "main" \in Users /\ Sniffers \subseteq Users /\ Users \subseteq Actors
    /\ "relayer" \notin Users /\ "filewriter" \notin Users /\ "interpreter" \notin Users
BY LocksAssumption DEF Threads, Actors, Users

\* What START does for all listeners.
LEMMA SniffersStart ==
    ASSUME setup \in Setups
    PROVE  /\ ForAll(StartSniffer) \in Seq(Calls)
           /\ \A c : Has(ForAll(StartSniffer), c) <=>
                 \E s \in Range(setup.listeners) :
                     c \in {Touch("listeners", "r"), Call("place", s), Call("start", s)}
           /\ Once(ForAll(StartSniffer), Starts)
<1> DEFINE seqs == [i \in DOMAIN setup.listeners |-> StartSniffer(setup.listeners[i])]
<1>1. PICK n \in Nat : n = Len(setup.listeners)
  BY SetupIs
<1>2. ASSUME NEW s \in Sniffers
      PROVE  /\ StartSniffer(s) \in Seq(Calls)
             /\ \A c : Has(StartSniffer(s), c) <=> c \in {Touch("listeners", "r"), Call("place", s), Call("start", s)}
             /\ Once(StartSniffer(s), Starts)
  <2>1. Touch("listeners", "r") \in Calls /\ Call("place", s) \in Calls /\ Call("start", s) \in Calls
    BY NamesDiffer DEF Calls, StartCalls
  <2>2. StartSniffer(s) \in Seq(Calls)
    BY <2>1 DEF StartSniffer
  <2>3. \A c : Has(StartSniffer(s), c) <=> c \in {Touch("listeners", "r"), Call("place", s), Call("start", s)}
    BY DEF StartSniffer, Has
  <2>4. Once(StartSniffer(s), Starts)
    BY DEF StartSniffer, Once, Starts, Touch, Call
  <2>5. QED
    BY <2>2, <2>3, <2>4
<1>3. /\ seqs \in Seq(Seq(Calls)) /\ Len(seqs) = n
      /\ \A i \in 1 .. n : seqs[i] = StartSniffer(setup.listeners[i]) /\ setup.listeners[i] \in Sniffers
  <2>1. seqs \in [1 .. n -> Seq(Calls)]
    BY <1>1, <1>2, SetupIs
  <2>2. \A i \in 1 .. n : seqs[i] = StartSniffer(setup.listeners[i]) /\ setup.listeners[i] \in Sniffers
    BY <1>1, SetupIs
  <2> HIDE DEF seqs
  <2>3. QED
    BY <2>1, <2>2, FunctionIsSeq
<1>4. ForAll(StartSniffer) = FlattenSeq(seqs)
  BY DEF ForAll
<1> HIDE DEF seqs
<1>5. \A c : Has(ForAll(StartSniffer), c) <=> \E i \in 1 .. n : Has(seqs[i], c)
  BY <1>3, <1>4, FlattenHas
<1>6. ASSUME NEW c
      PROVE  Has(ForAll(StartSniffer), c) <=>
                 \E s \in Range(setup.listeners) : c \in {Touch("listeners", "r"), Call("place", s), Call("start", s)}
  <2>1. \A i \in 1 .. n : Has(seqs[i], c) <=>
            c \in {Touch("listeners", "r"), Call("place", setup.listeners[i]), Call("start", setup.listeners[i])}
    BY <1>2, <1>3
  <2>2. \A s : s \in Range(setup.listeners) <=> \E i \in 1 .. n : s = setup.listeners[i]
    BY <1>1, SetupIs DEF Range
  <2>3. QED
    BY <1>5, <2>1, <2>2
<1>7. Once(ForAll(StartSniffer), Starts)
  <2>1. \A i \in 1 .. n : Once(seqs[i], Starts)
    BY <1>2, <1>3
  <2>2. ASSUME NEW i \in 1 .. n, NEW k \in 1 .. n, NEW c \in Starts, Has(seqs[i], c), Has(seqs[k], c)
        PROVE  i = k
    <3>1. c = Call("start", setup.listeners[i]) /\ c = Call("start", setup.listeners[k])
      <4>1. c.op = "start"
        BY DEF Starts, Call
      <4>2. \A s : Touch("listeners", "r").op # "start" /\ Call("place", s).op # "start"
        BY DEF Touch, Call
      <4>3. QED
        BY <1>2, <1>3, <2>2, <4>1, <4>2
    <3>2. setup.listeners[i] = setup.listeners[k]
      BY <3>1 DEF Call
    <3>3. QED
      BY <1>1, <3>2, SetupIs
  <2>3. QED
    BY <1>3, <1>4, <2>1, <2>2, FlattenOnce
<1>8. QED
  BY <1>3, <1>4, <1>6, <1>7, FlattenHas

\* What STOP does for all listeners.
LEMMA SniffersStop ==
    ASSUME setup \in Setups
    PROVE  /\ ForAll(StopSniffer) \in Seq(Calls)
           /\ \A c : Has(ForAll(StopSniffer), c) <=> \E s \in Range(setup.listeners) : c = Call("find", s)
           /\ Once(ForAll(StopSniffer), Finds)
<1> DEFINE seqs == [i \in DOMAIN setup.listeners |-> StopSniffer(setup.listeners[i])]
<1>1. PICK n \in Nat : n = Len(setup.listeners)
  BY SetupIs
<1>2. ASSUME NEW s \in Sniffers
      PROVE  /\ StopSniffer(s) \in Seq(Calls)
             /\ \A c : Has(StopSniffer(s), c) <=> c = Call("find", s)
             /\ Once(StopSniffer(s), Finds)
  <2>1. Call("find", s) \in Calls
    BY DEF Calls, StopCalls
  <2>2. StopSniffer(s) \in Seq(Calls)
    BY <2>1 DEF StopSniffer
  <2>3. \A c : Has(StopSniffer(s), c) <=> c = Call("find", s)
    BY DEF StopSniffer, Has
  <2>4. Once(StopSniffer(s), Finds)
    BY DEF StopSniffer, Once
  <2>5. QED
    BY <2>2, <2>3, <2>4
<1>3. /\ seqs \in Seq(Seq(Calls)) /\ Len(seqs) = n
      /\ \A i \in 1 .. n : seqs[i] = StopSniffer(setup.listeners[i]) /\ setup.listeners[i] \in Sniffers
  <2>1. seqs \in [1 .. n -> Seq(Calls)]
    BY <1>1, <1>2, SetupIs
  <2>2. \A i \in 1 .. n : seqs[i] = StopSniffer(setup.listeners[i]) /\ setup.listeners[i] \in Sniffers
    BY <1>1, SetupIs
  <2> HIDE DEF seqs
  <2>3. QED
    BY <2>1, <2>2, FunctionIsSeq
<1>4. ForAll(StopSniffer) = FlattenSeq(seqs)
  BY DEF ForAll
<1> HIDE DEF seqs
<1>5. \A c : Has(ForAll(StopSniffer), c) <=> \E i \in 1 .. n : Has(seqs[i], c)
  BY <1>3, <1>4, FlattenHas
<1>6. ASSUME NEW c
      PROVE  Has(ForAll(StopSniffer), c) <=> \E s \in Range(setup.listeners) : c = Call("find", s)
  <2>1. \A i \in 1 .. n : Has(seqs[i], c) <=> c = Call("find", setup.listeners[i])
    BY <1>2, <1>3
  <2>2. \A s : s \in Range(setup.listeners) <=> \E i \in 1 .. n : s = setup.listeners[i]
    BY <1>1, SetupIs DEF Range
  <2>3. QED
    BY <1>5, <2>1, <2>2
<1>7. Once(ForAll(StopSniffer), Finds)
  <2>1. \A i \in 1 .. n : Once(seqs[i], Finds)
    BY <1>2, <1>3
  <2>2. ASSUME NEW i \in 1 .. n, NEW k \in 1 .. n, NEW c \in Finds, Has(seqs[i], c), Has(seqs[k], c)
        PROVE  i = k
    <3>1. Call("find", setup.listeners[i]) = Call("find", setup.listeners[k])
      BY <1>2, <1>3, <2>2
    <3>2. setup.listeners[i] = setup.listeners[k]
      BY <3>1 DEF Call
    <3>3. QED
      BY <1>1, <3>2, SetupIs
  <2>3. QED
    BY <1>3, <1>4, <2>1, <2>2, FlattenOnce
<1>8. QED
  BY <1>3, <1>4, <1>6, <1>7, FlattenHas

\* What the relayer does for all listeners.
LEMMA SamplesAre ==
    ASSUME setup \in Setups
    PROVE  /\ ForAll(Sample) \in Seq(Calls)
           /\ MadeOf(ForAll(Sample), {Touch("accumulator", "w"), Touch("mapped_var", "r"), Call("put", "puffer")})
<1> DEFINE seqs == [i \in DOMAIN setup.listeners |-> Sample(setup.listeners[i])]
           C == {Touch("accumulator", "w"), Touch("mapped_var", "r"), Call("put", "puffer")}
<1>1. PICK n \in Nat : n = Len(setup.listeners)
  BY SetupIs
<1>2. ASSUME NEW s \in Sniffers
      PROVE  Sample(s) \in Seq(Calls) /\ \A c : Has(Sample(s), c) => c \in C
  <2>1. C \subseteq Calls
    BY DEF Calls, RelayerCalls
  <2>2. /\ <<Touch("accumulator", "w")>> \in Seq(C) /\ <<Call("put", "puffer")>> \in Seq(C)
        /\ IfFull(<<Touch("mapped_var", "r")>>) \in Seq(C)
    BY EmptySeq DEF IfFull
  <2>3. Sample(s) \in Seq(C)
    BY <2>2, ConcatProperties, Zenon DEF Sample
  <2>4. \A c : Has(Sample(s), c) => c \in C
    <3> HIDE DEF C
    <3>1. QED
      BY <2>3, LenProperties, ElementOfSeq DEF Has
  <2>5. QED
    BY <2>1, <2>3, <2>4, SeqMonotonic
<1> HIDE DEF C
<1>3. /\ seqs \in Seq(Seq(Calls)) /\ Len(seqs) = n
      /\ \A i \in 1 .. n : seqs[i] = Sample(setup.listeners[i]) /\ setup.listeners[i] \in Sniffers
  <2>1. seqs \in [1 .. n -> Seq(Calls)]
    BY <1>1, <1>2, SetupIs
  <2>2. \A i \in 1 .. n : seqs[i] = Sample(setup.listeners[i]) /\ setup.listeners[i] \in Sniffers
    BY <1>1, SetupIs
  <2> HIDE DEF seqs
  <2>3. QED
    BY <2>1, <2>2, FunctionIsSeq
<1>4. ForAll(Sample) = FlattenSeq(seqs)
  BY DEF ForAll
<1> HIDE DEF seqs
<1>5. \A c : Has(ForAll(Sample), c) => c \in C
  BY <1>2, <1>3, <1>4, FlattenHas
<1>6. ForAll(Sample) \in Seq(Calls)
  BY <1>3, <1>4, FlattenHas
<1>7. MadeOf(ForAll(Sample), C)
  BY <1>5 DEF MadeOf, Has
<1>8. QED
  BY <1>6, <1>7 DEF C

\* Who takes no lock owes none.
LEMMA UnlockedIsBalanced ==
    ASSUME NEW q, \A i \in DOMAIN q : q[i].op # "lock"
    PROVE  Balanced(q)
BY DEF Balanced

\* The script of who has nothing to do.
LEMMA NothingLeft ==
    /\ << >> \in Seq(Calls) /\ Balanced(<< >>) /\ KillsLast(<< >>)
    /\ \A C : MadeOf(<< >>, C)
    /\ \A c : ~ Has(<< >>, c)
BY EmptySeq DEF Balanced, KillsLast, MadeOf, Has

\* The rounds of the threads, and the initialisation of a sniffer.
LEMMA RoundsAre ==
    ASSUME setup \in Setups
    PROVE  /\ RelayerRound \in Seq(Calls) /\ MadeOf(RelayerRound, RelayerCalls) /\ Balanced(RelayerRound)
           /\ FilewriterRound \in Seq(Calls) /\ MadeOf(FilewriterRound, FilewriterCalls) /\ Balanced(FilewriterRound)
           /\ InterpreterRound \in Seq(Calls) /\ MadeOf(InterpreterRound, InterpreterCalls) /\ Balanced(InterpreterRound)
           /\ SnifferRound \in Seq(Calls) /\ MadeOf(SnifferRound, CaptureCalls)
           /\ Balanced(SnifferRound) /\ KillsLast(SnifferRound)
           /\ SnifferInit \in Seq(Calls) /\ MadeOf(SnifferInit, OpenCalls)
           /\ Balanced(SnifferInit) /\ KillsLast(SnifferInit)
<1>1. RelayerRound \in Seq(Calls) /\ MadeOf(RelayerRound, RelayerCalls) /\ Balanced(RelayerRound)
  <2> DEFINE locks1 == <<Lock("pcapls", "w")>>
             unlocks == <<Unlock("pcapls")>>
             samples == ForAll(Sample)
  <2>1. samples \in Seq(Calls) /\ MadeOf(samples, RelayerCalls)
        /\ MadeOf(samples, {Touch("accumulator", "w"), Touch("mapped_var", "r"), Call("put", "puffer")})
    BY SamplesAre DEF MadeOf, RelayerCalls
  <2>2. /\ locks1 \in Seq(Calls) /\ MadeOf(locks1, RelayerCalls)
        /\ unlocks \in Seq(Calls) /\ MadeOf(unlocks, RelayerCalls)
    BY DEF Calls, RelayerCalls, MadeOf
  <2>3. \A i \in DOMAIN samples : samples[i].op # "lock"
    BY <2>1 DEF MadeOf, Touch, Call
  <2> HIDE DEF samples
  <2>4. \A i \in DOMAIN locks1 : locks1[i].op = "lock" => locks1[i].on = "pcapls"
    BY DEF Lock
  <2>5. \A i \in DOMAIN unlocks : unlocks[i].op # "lock"
    BY DEF Unlock, Call
  <2>6. Has(unlocks, Unlock("pcapls"))
    BY DEF Has
  <2>7. RelayerRound = (locks1 \o samples) \o unlocks
    BY DEF RelayerRound, samples
  <2> HIDE DEF locks1, unlocks
  <2>8. locks1 \o samples \in Seq(Calls) /\ MadeOf(locks1 \o samples, RelayerCalls)
    BY <2>1, <2>2, JoinIs, JoinMadeOf
  <2>9. \A i \in DOMAIN (locks1 \o samples) : (locks1 \o samples)[i].op = "lock" => (locks1 \o samples)[i].on = "pcapls"
    BY <2>1, <2>2, <2>3, <2>4, JoinAt
  <2>10. Balanced((locks1 \o samples) \o unlocks)
    BY <2>2, <2>5, <2>6, <2>8, <2>9, UnlockedIsBalanced, JoinReturned
  <2>11. QED
    BY <2>2, <2>7, <2>8, <2>10, JoinIs, JoinMadeOf
<1>2. FilewriterRound \in Seq(Calls) /\ MadeOf(FilewriterRound, FilewriterCalls) /\ Balanced(FilewriterRound)
  <2> DEFINE gets == <<Call("get", "puffer")>>
             prints == IfFull(<<PrintIn("mapped_var", "r")>>)
  <2>1. gets \in Seq(Calls) /\ MadeOf(gets, FilewriterCalls)
    BY DEF Calls, FilewriterCalls, MadeOf
  <2>2. prints \in Seq(Calls) /\ MadeOf(prints, FilewriterCalls)
    <3>1. /\ <<PrintIn("mapped_var", "r")>> \in Seq(Calls)
          /\ MadeOf(<<PrintIn("mapped_var", "r")>>, FilewriterCalls)
      BY DEF Calls, FilewriterCalls, MadeOf
    <3>2. QED
      BY <3>1, NothingLeft, Zenon DEF IfFull
  <2>3. FilewriterRound = gets \o prints
    BY DEF FilewriterRound
  <2> HIDE DEF gets, prints
  <2>4. gets \o prints \in Seq(Calls) /\ MadeOf(gets \o prints, FilewriterCalls)
    BY <2>1, <2>2, JoinIs, JoinMadeOf
  <2>5. \A x \in FilewriterCalls : x.op # "lock"
    BY DEF FilewriterCalls, Call, PrintIn
  <2>6. QED
    BY <2>3, <2>4, <2>5, UnlockedIsBalanced DEF MadeOf
<1>3. InterpreterRound \in Seq(Calls) /\ MadeOf(InterpreterRound, InterpreterCalls) /\ Balanced(InterpreterRound)
  BY UnlockedIsBalanced DEF InterpreterRound, Calls, InterpreterCalls, MadeOf, PrintIn
<1>4. /\ SnifferRound \in Seq(Calls) /\ MadeOf(SnifferRound, CaptureCalls)
      /\ Balanced(SnifferRound) /\ KillsLast(SnifferRound)
  <2>1. SnifferRound \in Seq(Calls) /\ MadeOf(SnifferRound, CaptureCalls)
    BY DEF SnifferRound, Calls, CaptureCalls, MadeOf
  <2>2. \A i \in DOMAIN SnifferRound : SnifferRound[i].op \in {"capture", "print"}
    BY DEF SnifferRound, Call, PrintIn
  <2>3. KillsLast(SnifferRound)
    BY <2>2 DEF KillsLast, Call
  <2>4. QED
    BY <2>1, <2>2, <2>3, UnlockedIsBalanced
<1>5. /\ SnifferInit \in Seq(Calls) /\ MadeOf(SnifferInit, OpenCalls)
      /\ Balanced(SnifferInit) /\ KillsLast(SnifferInit)
  <2>1. SnifferInit \in Seq(Calls) /\ MadeOf(SnifferInit, OpenCalls)
    BY DEF SnifferInit, Calls, OpenCalls, MadeOf
  <2>2. /\ DOMAIN SnifferInit = 1 .. 4 /\ SnifferInit[1] = Touch("sysdat", "w") /\ SnifferInit[2] = Lock("pcapls", "r")
        /\ SnifferInit[3] = Call("open", "device") /\ SnifferInit[4] = Unlock("pcapls")
    BY DEF SnifferInit
  <2>3. \A i \in 1 .. 4 : i = 1 \/ i = 2 \/ i = 3 \/ i = 4
    OBVIOUS
  <2>4. Balanced(SnifferInit)
    <3>1. ASSUME NEW i \in 1 .. 4, SnifferInit[i].op = "lock" PROVE i = 2
      BY <2>2, <2>3, <3>1 DEF Touch, Unlock, Call
    <3>2. SnifferInit[2].on = "pcapls"
      BY <2>2 DEF Lock
    <3>3. 4 \in DOMAIN SnifferInit /\ 2 < 4
      BY <2>2
    <3>4. QED
      BY <2>2, <3>1, <3>2, <3>3 DEF Balanced
  <2>5. KillsLast(SnifferInit)
    <3>1. \A i \in 1 .. 4 : SnifferInit[i] # Call("fire", "STOP")
      BY <2>2, <2>3 DEF Touch, Lock, Unlock, Call
    <3>2. ASSUME NEW i \in 1 .. 4, SnifferInit[i] = Call("open", "device") PROVE i = 3
      BY <2>2, <2>3, <3>2 DEF Touch, Lock, Unlock, Call
    <3>3. \A k \in 1 .. 4 : 3 < k => k = 4
      OBVIOUS
    <3>4. QED
      BY <2>2, <3>1, <3>2, <3>3 DEF KillsLast
  <2>6. QED
    BY <2>1, <2>4, <2>5
<1>6. QED
  BY <1>1, <1>2, <1>3, <1>4, <1>5

\* The script of a STOP, before what follows it.
LEMMA StopIs ==
    ASSUME setup \in Setups
    PROVE  /\ StopScript \in Seq(Calls) /\ MadeOf(StopScript, StopCalls)
           /\ Has(StopScript, Call("enter", "HALT"))
           /\ Once(StopScript, Finds)
           /\ \A s : Has(StopScript, Call("find", s)) => s \in Range(setup.listeners)
           /\ Len(StopScript) >= 2 /\ StopScript[1] = Touch("pcapls", "r") /\ StopScript[2] = Call("stop", "relayer")
<1> DEFINE a == <<Touch("pcapls", "r"), Call("stop", "relayer"), Call("stop", "filewriter"), Touch("pcapls", "r")>>
           b == IfFull(<<Call("stop", "interpreter")>>)
           c == <<Touch("pcapls", "r")>>
           d == ForAll(StopSniffer)
           e == <<Call("enter", "HALT")>>
           NoFind == StopCalls \ Finds
<1>1. StopScript = (((a \o b) \o c) \o d) \o e
  BY DEF StopScript
<1>2. /\ a \in Seq(Calls) /\ MadeOf(a, NoFind) /\ Len(a) = 4
      /\ a[1] = Touch("pcapls", "r") /\ a[2] = Call("stop", "relayer")
  <2>1. /\ Touch("pcapls", "r") \in NoFind /\ Call("stop", "relayer") \in NoFind
        /\ Call("stop", "filewriter") \in NoFind
    BY NamesDiffer DEF StopCalls, Finds, Touch, Call
  <2>2. NoFind \subseteq Calls
    BY DEF Calls
  <2> HIDE DEF NoFind
  <2>3. QED
    BY <2>1, <2>2 DEF MadeOf
<1>3. b \in Seq(Calls) /\ MadeOf(b, NoFind)
  <2>1. Call("stop", "interpreter") \in NoFind
    BY NamesDiffer DEF StopCalls, Finds, Touch, Call
  <2>2. NoFind \subseteq Calls
    BY DEF Calls
  <2> HIDE DEF NoFind
  <2>3. QED
    BY <2>1, <2>2 DEF MadeOf, IfFull
<1>4. c \in Seq(Calls) /\ MadeOf(c, NoFind)
  <2>1. Touch("pcapls", "r") \in NoFind
    BY NamesDiffer DEF StopCalls, Finds, Touch, Call
  <2>2. NoFind \subseteq Calls
    BY DEF Calls
  <2> HIDE DEF NoFind
  <2>3. QED
    BY <2>1, <2>2 DEF MadeOf
<1>5. e \in Seq(Calls) /\ MadeOf(e, NoFind) /\ Has(e, Call("enter", "HALT"))
  <2>1. Call("enter", "HALT") \in NoFind
    BY NamesDiffer DEF StopCalls, Finds, Touch, Call
  <2>2. NoFind \subseteq Calls
    BY DEF Calls
  <2> HIDE DEF NoFind
  <2>3. QED
    BY <2>1, <2>2 DEF MadeOf, Has
<1>6. /\ d \in Seq(Calls) /\ MadeOf(d, StopCalls) /\ Once(d, Finds)
      /\ \A s : Has(d, Call("find", s)) => s \in Range(setup.listeners)
  <2>1. \A s \in Range(setup.listeners) : Call("find", s) \in StopCalls
    BY SetupIs DEF StopCalls
  <2>2. MadeOf(d, StopCalls)
    <3>1. \A i \in DOMAIN d : Has(d, d[i])
      BY DEF Has
    <3>2. QED
      BY <2>1, <3>1, SniffersStop DEF MadeOf
  <2>3. \A s, u : Call("find", s) = Call("find", u) => s = u
    BY DEF Call
  <2>4. QED
    BY <2>2, <2>3, SniffersStop
<1> HIDE DEF a, b, c, d, e
<1>7. \A q : MadeOf(q, NoFind) => MadeOf(q, StopCalls)
  BY DEF MadeOf
<1>8. \A q : MadeOf(q, NoFind) => Once(q, Finds) /\ \A x \in Finds : ~ Has(q, x)
  BY DEF MadeOf, Once, Has
<1> HIDE DEF NoFind
<1>9. /\ a \o b \in Seq(Calls) /\ MadeOf(a \o b, NoFind)
      /\ Len(a \o b) \in Nat /\ Len(a \o b) >= 4 /\ (a \o b)[1] = a[1] /\ (a \o b)[2] = a[2]
  <2>1. MadeOf(a \o b, NoFind)
    BY <1>2, <1>3, JoinMadeOf
  <2>2. 1 \in 1 .. Len(a) /\ 2 \in 1 .. Len(a)
    BY <1>2
  <2>3. /\ a \o b \in Seq(Calls) /\ Len(a \o b) = Len(a) + Len(b) /\ Len(b) \in Nat
        /\ (a \o b)[1] = a[1] /\ (a \o b)[2] = a[2]
    <3>1. /\ a \o b \in Seq(Calls) /\ Len(a \o b) = Len(a) + Len(b) /\ Len(b) \in Nat
          /\ \A i \in 1 .. Len(a) : (a \o b)[i] = a[i]
      BY <1>2, <1>3, JoinIs
    <3>2. QED
      BY <2>2, <3>1
  <2>4. QED
    BY <1>2, <2>1, <2>3
<1>10. /\ (a \o b) \o c \in Seq(Calls) /\ MadeOf((a \o b) \o c, NoFind)
       /\ Len((a \o b) \o c) \in Nat /\ Len((a \o b) \o c) >= 4
       /\ ((a \o b) \o c)[1] = a[1] /\ ((a \o b) \o c)[2] = a[2]
  <2>1. MadeOf((a \o b) \o c, NoFind)
    BY <1>4, <1>9, JoinMadeOf
  <2>2. 1 \in 1 .. Len(a \o b) /\ 2 \in 1 .. Len(a \o b)
    BY <1>9
  <2>3. /\ (a \o b) \o c \in Seq(Calls) /\ Len((a \o b) \o c) = Len(a \o b) + Len(c) /\ Len(c) \in Nat
        /\ ((a \o b) \o c)[1] = (a \o b)[1] /\ ((a \o b) \o c)[2] = (a \o b)[2]
    BY <1>4, <1>9, <2>2, JoinIs
  <2>4. QED
    BY <1>9, <2>1, <2>3
<1> DEFINE f == (a \o b) \o c
<1> HIDE DEF f
<1>11. /\ f \o d \in Seq(Calls) /\ MadeOf(f \o d, StopCalls)
       /\ Len(f \o d) \in Nat /\ Len(f \o d) >= 4 /\ (f \o d)[1] = a[1] /\ (f \o d)[2] = a[2]
       /\ Once(f \o d, Finds)
       /\ \A s : Has(f \o d, Call("find", s)) => s \in Range(setup.listeners)
  <2>1. f \in Seq(Calls) /\ MadeOf(f, NoFind) /\ Len(f) \in Nat /\ Len(f) >= 4 /\ f[1] = a[1] /\ f[2] = a[2]
    BY <1>10 DEF f
  <2>2. f \o d \in Seq(Calls) /\ MadeOf(f \o d, StopCalls) /\ Once(f \o d, Finds)
    BY <1>6, <1>7, <1>8, <2>1, JoinIs, JoinMadeOf, JoinOnce
  <2>3. Len(f \o d) \in Nat /\ Len(f \o d) >= 4 /\ (f \o d)[1] = a[1] /\ (f \o d)[2] = a[2]
    BY <1>6, <2>1, JoinIs
  <2>4. ASSUME NEW s, Has(f \o d, Call("find", s)) PROVE s \in Range(setup.listeners)
    <3>1. Has(f, Call("find", s)) \/ Has(d, Call("find", s))
      BY <1>6, <2>1, <2>4, JoinHas
    <3>2. Call("find", s) \in Finds => ~ Has(f, Call("find", s))
      BY <1>8, <2>1
    <3>3. Has(f, Call("find", s)) => Call("find", s) \in StopCalls
      BY <1>7, <2>1 DEF Has, MadeOf
    <3>4. Call("find", s) \in StopCalls => Call("find", s) \in Finds
      BY DEF StopCalls, Finds, Touch, Call
    <3>5. QED
      BY <1>6, <3>1, <3>2, <3>3, <3>4
  <2>5. QED
    BY <2>2, <2>3, <2>4
<1>12. /\ (f \o d) \o e \in Seq(Calls) /\ MadeOf((f \o d) \o e, StopCalls)
       /\ Once((f \o d) \o e, Finds) /\ Has((f \o d) \o e, Call("enter", "HALT"))
  <2>1. MadeOf((f \o d) \o e, StopCalls) /\ Has((f \o d) \o e, Call("enter", "HALT"))
    BY <1>5, <1>7, <1>11, JoinMadeOf, JoinHas
  <2>2. Once((f \o d) \o e, Finds)
    BY <1>5, <1>8, <1>11, JoinOnce
  <2>3. QED
    BY <1>5, <1>11, <2>1, <2>2, JoinIs
<1>13. /\ Len((f \o d) \o e) >= 2
       /\ ((f \o d) \o e)[1] = a[1] /\ ((f \o d) \o e)[2] = a[2]
  BY <1>5, <1>11, JoinIs
<1>14. ASSUME NEW s, Has((f \o d) \o e, Call("find", s)) PROVE s \in Range(setup.listeners)
  <2>1. Has(f \o d, Call("find", s)) \/ Has(e, Call("find", s))
    BY <1>5, <1>11, <1>14, JoinHas
  <2>2. ~ Has(e, Call("find", s))
    BY DEF e, Has, Call
  <2>3. QED
    BY <1>11, <2>1, <2>2
<1>15. StopScript = (f \o d) \o e
  BY <1>1 DEF f
<1>16. QED
  BY <1>2, <1>12, <1>13, <1>14, <1>15

\* The script of a START.
LEMMA StartIs ==
    ASSUME setup \in Setups
    PROVE  /\ StartScript \in Seq(Calls) /\ StartsUp(StartScript)
           /\ Balanced(StartScript)
           /\ Has(StartScript, Call("start", "relayer")) /\ Has(StartScript, Call("start", "filewriter"))
           /\ \A s \in Range(setup.listeners) : Has(StartScript, Call("place", s))
<1> DEFINE a == <<Touch("pcapls", "r"), Touch("sysdat", "w"),
                  Touch("sysdat", "w"), Call("start", "relayer"), Call("start", "filewriter"),
                  Touch("pcapls", "r"), Touch("sysdat", "w"), Lock("pcapls", "r")>>
           b == IfFull(<<Touch("sysdat", "w")>>)
           c == <<Unlock("pcapls")>>
           d == IfFull(<<Call("start", "interpreter")>>)
           e == ForAll(StartSniffer)
           f == <<Call("enter", "RUN")>>
           g == (a \o b) \o c
           h == (g \o d) \o e
<1>1. StartScript = h \o f
  BY DEF StartScript
<1>2. StartCalls \subseteq Calls /\ Call("enter", "RUN") \in Calls
  BY DEF Calls
<1>3. ASSUME NEW x, NEW y PROVE Call(x, y).op = x /\ Call(x, y).on = y
  BY DEF Call
<1>4. /\ a \in Seq(Calls) /\ MadeOf(a, StartCalls) /\ Once(a, Starts)
      /\ \A t : Has(a, Call("start", t)) => t \in {"relayer", "filewriter"}
      /\ Has(a, Call("start", "relayer")) /\ Has(a, Call("start", "filewriter"))
      /\ \A i \in DOMAIN a : a[i].op = "lock" => a[i].on = "pcapls"
  <2>1. /\ Touch("pcapls", "r") \in StartCalls /\ Touch("sysdat", "w") \in StartCalls /\ Lock("pcapls", "r") \in StartCalls
        /\ Call("start", "relayer") \in StartCalls /\ Call("start", "filewriter") \in StartCalls
    BY NamesDiffer DEF StartCalls
  <2>2. /\ DOMAIN a = 1 .. 8 /\ a[1] = Touch("pcapls", "r") /\ a[2] = Touch("sysdat", "w") /\ a[3] = Touch("sysdat", "w")
        /\ a[4] = Call("start", "relayer") /\ a[5] = Call("start", "filewriter")
        /\ a[6] = Touch("pcapls", "r") /\ a[7] = Touch("sysdat", "w") /\ a[8] = Lock("pcapls", "r")
    OBVIOUS
  <2>3. \A i \in 1 .. 8 : i = 1 \/ i = 2 \/ i = 3 \/ i = 4 \/ i = 5 \/ i = 6 \/ i = 7 \/ i = 8
    OBVIOUS
  <2>4. a \in Seq(Calls)
    BY <1>2, <2>1
  <2> HIDE DEF a
  <2>5. MadeOf(a, StartCalls)
    BY <2>1, <2>2, <2>3 DEF MadeOf
  <2>6. \A i \in 1 .. 8 : a[i].op = "start" => i = 4 \/ i = 5
    BY <2>2, <2>3 DEF Touch, Lock
  <2>7. \A i \in 1 .. 8 : a[i].op = "lock" => a[i].on = "pcapls"
    BY <2>2, <2>3 DEF Touch, Lock, Call
  <2>8. a[4].on = "relayer" /\ a[5].on = "filewriter"
    BY <1>3, <2>2
  <2>9. Once(a, Starts)
    <3>1. \A x \in Starts : x.op = "start"
      BY <1>3 DEF Starts
    <3>2. QED
      BY <2>2, <2>6, <2>8, <3>1 DEF Once
  <2>10. \A t : Has(a, Call("start", t)) => t \in {"relayer", "filewriter"}
    BY <1>3, <2>2, <2>6, <2>8 DEF Has
  <2>11. Has(a, Call("start", "relayer")) /\ Has(a, Call("start", "filewriter"))
    <3>1. 4 \in DOMAIN a /\ 5 \in DOMAIN a
      BY <2>2
    <3>2. QED
      BY <2>2, <3>1 DEF Has
  <2>12. QED
    BY <2>2, <2>4, <2>5, <2>7, <2>9, <2>10, <2>11
<1>5. /\ b \in Seq(Calls) /\ MadeOf(b, StartCalls) /\ \A i \in DOMAIN b : b[i].op \notin {"start", "lock"}
  <2>1. /\ <<Touch("sysdat", "w")>> \in Seq(Calls) /\ MadeOf(<<Touch("sysdat", "w")>>, StartCalls)
        /\ \A i \in DOMAIN <<Touch("sysdat", "w")>> : <<Touch("sysdat", "w")>>[i].op \notin {"start", "lock"}
    BY DEF Calls, StartCalls, MadeOf, Touch
  <2>2. \A i \in DOMAIN << >> : << >>[i].op \notin {"start", "lock"}
    OBVIOUS
  <2>3. QED
    BY <2>1, <2>2, NothingLeft, Zenon DEF IfFull
<1>6. /\ c \in Seq(Calls) /\ MadeOf(c, StartCalls) /\ \A i \in DOMAIN c : c[i].op \notin {"start", "lock"}
      /\ Has(c, Unlock("pcapls"))
  BY DEF Calls, StartCalls, MadeOf, Unlock, Call, Has
<1>7. /\ d \in Seq(Calls) /\ MadeOf(d, StartCalls) /\ Once(d, Starts)
      /\ \A t : Has(d, Call("start", t)) => t = "interpreter"
      /\ \A i \in DOMAIN d : d[i].op # "lock"
  <2> DEFINE start == <<Call("start", "interpreter")>>
  <2>1. /\ start \in Seq(Calls) /\ MadeOf(start, StartCalls) /\ Once(start, Starts)
        /\ \A t : Has(start, Call("start", t)) => t = "interpreter"
        /\ \A i \in DOMAIN start : start[i].op # "lock"
    <3>1. Call("start", "interpreter") \in StartCalls
      BY NamesDiffer DEF StartCalls
    <3>2. DOMAIN start = {1} /\ start[1] = Call("start", "interpreter")
      OBVIOUS
    <3>3. start \in Seq(Calls)
      BY <1>2, <3>1
    <3> HIDE DEF start
    <3>4. QED
      BY <1>3, <3>1, <3>2, <3>3 DEF MadeOf, Once, Has
  <2>2. /\ << >> \in Seq(Calls) /\ MadeOf(<< >>, StartCalls) /\ Once(<< >>, Starts)
        /\ \A t : ~ Has(<< >>, Call("start", t))
        /\ \A i \in DOMAIN << >> : << >>[i].op # "lock"
    BY NothingLeft DEF Once
  <2>3. d = start \/ d = << >>
    BY DEF IfFull
  <2> HIDE DEF d, start
  <2>4. CASE d = start
    BY <2>1, <2>4
  <2>5. CASE d = << >>
    BY <2>2, <2>5
  <2>6. QED
    BY <2>3, <2>4, <2>5
<1>8. /\ e \in Seq(Calls) /\ MadeOf(e, StartCalls) /\ Once(e, Starts)
      /\ \A t : Has(e, Call("start", t)) => t \in Sniffers
      /\ \A s \in Range(setup.listeners) : Has(e, Call("place", s))
      /\ \A i \in DOMAIN e : e[i].op # "lock"
  <2>1. \A x : Has(e, x) <=> \E s \in Range(setup.listeners) : x \in {Touch("listeners", "r"), Call("place", s), Call("start", s)}
    BY SniffersStart
  <2>2. \A i \in DOMAIN e : Has(e, e[i])
    BY DEF Has
  <2>3. e \in Seq(Calls) /\ Once(e, Starts)
    BY SniffersStart
  <2> HIDE DEF e
  <2>4. \A s \in Range(setup.listeners) : s \in Sniffers /\ s \in Threads
    BY SetupIs, NamesDiffer
  <2>5. \A s \in Sniffers : /\ Touch("listeners", "r") \in StartCalls /\ Call("place", s) \in StartCalls /\ Call("start", s) \in StartCalls
                            /\ Touch("listeners", "r").op # "lock" /\ Touch("listeners", "r").op # "start"
    BY NamesDiffer DEF StartCalls, Touch
  <2>6. MadeOf(e, StartCalls)
    BY <2>1, <2>2, <2>4, <2>5 DEF MadeOf
  <2>7. \A i \in DOMAIN e : e[i].op # "lock"
    BY <1>3, <2>1, <2>2, <2>4, <2>5
  <2>8. ASSUME NEW t, Has(e, Call("start", t)) PROVE t \in Sniffers
    <3>1. PICK s \in Range(setup.listeners) : Call("start", t) \in {Touch("listeners", "r"), Call("place", s), Call("start", s)}
      BY <2>1, <2>8
    <3>2. Call("start", t) = Call("start", s)
      BY <1>3, <2>4, <2>5, <3>1
    <3>3. QED
      BY <1>3, <2>4, <3>2
  <2>9. QED
    BY <2>1, <2>3, <2>6, <2>7, <2>8
<1>9. f \in Seq(Calls) /\ Len(f) = 1 /\ f[1] = Call("enter", "RUN") /\ DOMAIN f = {1}
  BY <1>2
<1>10. \A t, u : Call("start", t) = Call("start", u) => t = u
  BY <1>3
<1>11. \A q, t : (\A i \in DOMAIN q : q[i].op # "start") => ~ Has(q, Call("start", t))
  BY <1>3 DEF Has
<1>12. \A q : (\A i \in DOMAIN q : q[i].op # "start") => Once(q, Starts)
  BY <1>3 DEF Once, Starts
<1> HIDE DEF a, b, c, d, e, f
<1>13. /\ a \o b \in Seq(Calls) /\ MadeOf(a \o b, StartCalls) /\ Once(a \o b, Starts)
       /\ \A t : Has(a \o b, Call("start", t)) => t \in {"relayer", "filewriter"}
       /\ Has(a \o b, Call("start", "relayer")) /\ Has(a \o b, Call("start", "filewriter"))
       /\ \A i \in DOMAIN (a \o b) : (a \o b)[i].op = "lock" => (a \o b)[i].on = "pcapls"
  <2>1. a \o b \in Seq(Calls) /\ MadeOf(a \o b, StartCalls)
    BY <1>4, <1>5, JoinIs, JoinMadeOf
  <2>2. Once(b, Starts) /\ \A t : ~ Has(b, Call("start", t))
    BY <1>5, <1>11, <1>12
  <2>3. \A x \in Starts : ~ Has(b, x)
    BY <2>2 DEF Starts
  <2>4. Once(a \o b, Starts)
    BY <1>4, <1>5, <2>2, <2>3, JoinOnce
  <2>5. \A x : Has(a \o b, x) <=> Has(a, x) \/ Has(b, x)
    BY <1>4, <1>5, JoinHas
  <2>6. \A i \in DOMAIN (a \o b) : (a \o b)[i].op = "lock" => (a \o b)[i].on = "pcapls"
    BY <1>4, <1>5, JoinAt
  <2>7. QED
    BY <1>4, <2>1, <2>2, <2>4, <2>5, <2>6
<1>14. /\ g \in Seq(Calls) /\ MadeOf(g, StartCalls) /\ Once(g, Starts) /\ Balanced(g)
       /\ \A t : Has(g, Call("start", t)) => t \in {"relayer", "filewriter"}
       /\ Has(g, Call("start", "relayer")) /\ Has(g, Call("start", "filewriter"))
  <2>1. g \in Seq(Calls) /\ MadeOf(g, StartCalls)
    BY <1>6, <1>13, JoinIs, JoinMadeOf
  <2>2. Once(c, Starts) /\ \A t : ~ Has(c, Call("start", t))
    BY <1>6, <1>11, <1>12
  <2>3. \A x \in Starts : ~ Has(c, x)
    BY <2>2 DEF Starts
  <2>4. Once(g, Starts)
    BY <1>6, <1>13, <2>2, <2>3, JoinOnce
  <2>5. \A x : Has(g, x) <=> Has(a \o b, x) \/ Has(c, x)
    BY <1>6, <1>13, JoinHas
  <2>6. Balanced(c)
    BY <1>6, UnlockedIsBalanced
  <2>7. \A i \in DOMAIN (a \o b) : (a \o b)[i].op = "lock" => Has(c, Unlock((a \o b)[i].on))
    BY <1>6, <1>13
  <2>8. Balanced(g)
    BY <1>6, <1>13, <2>6, <2>7, JoinReturned
  <2>9. QED
    BY <1>13, <2>1, <2>2, <2>4, <2>5, <2>8
<1> HIDE DEF g
<1>15. /\ g \o d \in Seq(Calls) /\ MadeOf(g \o d, StartCalls) /\ Once(g \o d, Starts) /\ Balanced(g \o d)
       /\ \A t : Has(g \o d, Call("start", t)) => t \in {"relayer", "filewriter", "interpreter"}
       /\ Has(g \o d, Call("start", "relayer")) /\ Has(g \o d, Call("start", "filewriter"))
  <2>1. g \o d \in Seq(Calls) /\ MadeOf(g \o d, StartCalls)
    BY <1>7, <1>14, JoinIs, JoinMadeOf
  <2>2. \A x \in Starts : ~ (Has(g, x) /\ Has(d, x))
    BY <1>7, <1>14, <1>10 DEF Starts
  <2>3. Once(g \o d, Starts)
    BY <1>7, <1>14, <2>2, JoinOnce
  <2>4. \A x : Has(g \o d, x) <=> Has(g, x) \/ Has(d, x)
    BY <1>7, <1>14, JoinHas
  <2>5. Balanced(g \o d)
    BY <1>7, <1>14, UnlockedIsBalanced, JoinBalanced
  <2>6. QED
    BY <1>7, <1>14, <2>1, <2>3, <2>4, <2>5
<1>16. /\ h \in Seq(Calls) /\ MadeOf(h, StartCalls) /\ Once(h, Starts) /\ Balanced(h)
       /\ Has(h, Call("start", "relayer")) /\ Has(h, Call("start", "filewriter"))
       /\ \A s \in Range(setup.listeners) : Has(h, Call("place", s))
  <2>1. h \in Seq(Calls) /\ MadeOf(h, StartCalls)
    BY <1>8, <1>15, JoinIs, JoinMadeOf
  <2>2. \A x \in Starts : ~ (Has(g \o d, x) /\ Has(e, x))
    BY <1>8, <1>15, NamesDiffer DEF Starts
  <2>3. Once(h, Starts)
    BY <1>8, <1>15, <2>2, JoinOnce
  <2>4. \A x : Has(h, x) <=> Has(g \o d, x) \/ Has(e, x)
    BY <1>8, <1>15, JoinHas
  <2>5. Balanced(h)
    BY <1>8, <1>15, UnlockedIsBalanced, JoinBalanced
  <2>6. QED
    BY <1>8, <1>15, <2>1, <2>3, <2>4, <2>5
<1> HIDE DEF h
<1>17. /\ h \o f \in Seq(Calls) /\ Len(h \o f) = Len(h) + 1 /\ Len(h) \in Nat /\ DOMAIN h = 1 .. Len(h)
       /\ DOMAIN (h \o f) = 1 .. Len(h) + 1
       /\ (h \o f)[Len(h) + 1] = Call("enter", "RUN") /\ \A i \in 1 .. Len(h) : (h \o f)[i] = h[i]
  <2>1. 1 \in 1 .. Len(f)
    BY <1>9
  <2>2. QED
    BY <1>9, <1>16, <2>1, JoinIs
<1>18. StartsUp(h \o f)
  <2>1. h \o f # << >>
    <3>1. Len(h) + 1 \in DOMAIN (h \o f)
      BY <1>17
    <3>2. QED
      BY <3>1
  <2>2. ASSUME NEW i \in DOMAIN (h \o f), i # Len(h \o f) PROVE (h \o f)[i] \in StartCalls
    <3>1. i \in 1 .. Len(h)
      BY <1>17, <2>2
    <3>2. QED
      BY <1>16, <1>17, <3>1 DEF MadeOf
  <2>3. Once(h \o f, Starts)
    <3>1. f[1].op = "enter"
      BY <1>3, <1>9
    <3>2. \A i \in DOMAIN f : f[i].op # "start"
      BY <1>9, <3>1
    <3>3. Once(f, Starts) /\ \A x \in Starts : ~ Has(f, x)
      BY <1>11, <1>12, <3>2 DEF Starts
    <3>4. QED
      BY <1>9, <1>16, <3>3, JoinOnce
  <2>4. QED
    BY <1>17, <2>1, <2>2, <2>3 DEF StartsUp
<1>19. Balanced(h \o f)
  <2>1. f[1].op = "enter"
    BY <1>3, <1>9
  <2>2. QED
    BY <1>9, <1>16, <2>1, UnlockedIsBalanced, JoinBalanced
<1>20. \A x : Has(h, x) => Has(h \o f, x)
  BY <1>9, <1>16, JoinHas
<1>21. QED
  BY <1>1, <1>16, <1>17, <1>18, <1>19, <1>20

\* What fsm_kill puts before the rest of a script.
LEMMA KillIs ==
    ASSUME NEW q \in Seq(Calls), \A i \in DOMAIN q : q[i] = Unlock("pcapls")
    PROVE  /\ Kill \o q \in Seq(Calls) /\ MadeOf(Kill \o q, KillCalls \cup {Unlock("pcapls")})
           /\ q = << >> => MadeOf(Kill \o q, KillCalls)
           /\ Balanced(Kill \o q) /\ KillsLast(Kill \o q)
           /\ \A c : Has(q, c) => Has(Kill \o q, c)
<1>1. /\ Kill \in Seq(Calls) /\ Len(Kill) = 2 /\ DOMAIN Kill = 1 .. 2
      /\ Kill[1] = Call("fire", "STOP") /\ Kill[2] = Call("fire", "SHUTDOWN")
  BY DEF Kill, Calls, KillCalls
<1>2. \A i \in 1 .. 2 : i = 1 \/ i = 2
  OBVIOUS
<1> HIDE DEF Kill
<1>0. /\ Kill \o q \in Seq(Calls) /\ DOMAIN (Kill \o q) = 1 .. Len(Kill) + Len(q)
      /\ Len(q) \in Nat /\ DOMAIN q = 1 .. Len(q)
      /\ \A i \in 1 .. Len(Kill) : (Kill \o q)[i] = Kill[i]
  <2>1. Kill \in Seq(Calls)
    BY <1>1
  <2>2. QED
    BY <2>1, JoinIs
<1>3. Kill \o q \in Seq(Calls) /\ DOMAIN (Kill \o q) = 1 .. 2 + Len(q) /\ Len(q) \in Nat /\ DOMAIN q = 1 .. Len(q)
  BY <1>0, <1>1
<1>4. (Kill \o q)[1] = Kill[1] /\ (Kill \o q)[2] = Kill[2]
  <2>1. \A i \in 1 .. 2 : (Kill \o q)[i] = Kill[i]
    BY <1>0, <1>1
  <2>2. 1 \in 1 .. 2 /\ 2 \in 1 .. 2
    OBVIOUS
  <2>3. QED
    BY <2>1, <2>2
<1>5. ASSUME NEW i \in DOMAIN (Kill \o q), i # 1, i # 2 PROVE (Kill \o q)[i] = Unlock("pcapls") /\ i - 2 \in DOMAIN q /\ 2 < i
  <2>1. i - 2 \in 1 .. Len(q) /\ i = 2 + (i - 2) /\ 2 < i
    BY <1>3, <1>5
  <2>2. (Kill \o q)[2 + (i - 2)] = q[i - 2]
    BY <1>1, <2>1, JoinIs
  <2>3. QED
    BY <1>3, <2>1, <2>2
<1>6. MadeOf(Kill \o q, KillCalls \cup {Unlock("pcapls")})
  BY <1>1, <1>4, <1>5 DEF MadeOf, KillCalls
<1>7. ASSUME q = << >> PROVE MadeOf(Kill \o q, KillCalls)
  <2>1. \A i \in DOMAIN (Kill \o q) : i = 1 \/ i = 2
    BY <1>5, <1>7
  <2>2. QED
    BY <1>1, <1>4, <2>1 DEF MadeOf, KillCalls
<1>8. Call("fire", "STOP").op = "fire" /\ Call("fire", "SHUTDOWN").op = "fire" /\ Unlock("pcapls").op = "unlock"
      /\ Call("open", "device").op = "open" /\ Call("fire", "STOP").on = "STOP" /\ Call("fire", "SHUTDOWN").on = "SHUTDOWN"
  BY DEF Call, Unlock
<1>9. \A i \in DOMAIN (Kill \o q) : (Kill \o q)[i].op \in {"fire", "unlock"}
  BY <1>1, <1>4, <1>5, <1>8
<1>10. Balanced(Kill \o q)
  BY <1>9, UnlockedIsBalanced
<1>11. KillsLast(Kill \o q)
  <2>1. \A i \in DOMAIN (Kill \o q) : (Kill \o q)[i] # Call("open", "device")
    BY <1>8, <1>9
  <2>2. \A i \in DOMAIN (Kill \o q) : (Kill \o q)[i] = Call("fire", "STOP") => i = 1
    BY <1>1, <1>4, <1>5, <1>8
  <2>3. 1 + 1 \in DOMAIN (Kill \o q) /\ (Kill \o q)[1 + 1] = Call("fire", "SHUTDOWN")
    BY <1>1, <1>3, <1>4
  <2>4. \A k \in DOMAIN (Kill \o q) : 1 + 1 < k => (Kill \o q)[k] = Unlock("pcapls")
    BY <1>5
  <2>5. QED
    BY <2>1, <2>2, <2>3, <2>4 DEF KillsLast
<1>12. \A c : Has(q, c) => Has(Kill \o q, c)
  BY <1>1, JoinHas
<1>13. QED
  BY <1>3, <1>6, <1>7, <1>10, <1>11, <1>12

-----------------------------------------------------------------------------
(* Who calls what. *)

\* The fields of a call.
LEMMA Fields ==
    /\ \A x, y : Call(x, y).op = x /\ Call(x, y).on = y
    /\ \A l, m : Lock(l, m).op = "lock" /\ Lock(l, m).on = l /\ Lock(l, m).mode = m
    /\ \A l, m : Touch(l, m).op = "touch" /\ Touch(l, m).on = l /\ Touch(l, m).mode = m
    /\ \A l, m : PrintIn(l, m).op = "print" /\ PrintIn(l, m).on = l /\ PrintIn(l, m).mode = m
    /\ \A l : Unlock(l).op = "unlock" /\ Unlock(l).on = l
BY DEF Call, Lock, Touch, PrintIn, Unlock

\* Whose next call is which.
LEMMA Heads ==
    ASSUME LockTypes, Scripted, NEW a \in Actors, todo[a] # << >>
    PROVE  /\ todo[a] \in Seq(Calls)
           /\ \/ a = "relayer" /\ Head(todo[a]) \in RelayerCalls
              \/ a = "filewriter" /\ Head(todo[a]) \in FilewriterCalls
              \/ a = "interpreter" /\ Head(todo[a]) \in InterpreterCalls
              \/ a \in Sniffers \ stops /\ Head(todo[a]) \in OpenCalls \cup KillCalls /\ MadeOf(todo[a], OpenCalls \cup KillCalls)
              \/ a \in Sniffers \ stops /\ Head(todo[a]) \in CaptureCalls /\ MadeOf(todo[a], CaptureCalls)
              \/ a = "main" /\ a \notin stops /\ Head(todo[a]) \in StartCalls /\ StartsUp(todo[a]) /\ Tail(todo[a]) # << >>
              \/ a = "main" /\ a \notin stops /\ Head(todo[a]) = Call("enter", "RUN") /\ Tail(todo[a]) = << >>
              \/ a = "main" /\ a \notin stops /\ Head(todo[a]) \in KillCalls /\ MadeOf(todo[a], KillCalls)
              \/ a \in stops /\ Head(todo[a]) \in StopCalls /\ StopsAll(todo[a])
              \/ a \in stops /\ Head(todo[a]) = Call("fire", "SHUTDOWN")
                    /\ \A i \in DOMAIN Tail(todo[a]) : Tail(todo[a])[i] = Unlock("pcapls")
<1>1. PICK q \in Seq(Calls) : q = todo[a] /\ q # << >>
  BY DEF LockTypes
<1>2. ScriptOf(a, q)
  BY <1>1 DEF Scripted
<1>3. 1 \in DOMAIN q /\ Head(q) = q[1] /\ DOMAIN q = 1 .. Len(q) /\ Len(q) \in Nat \ {0}
  BY <1>1, TailIs
<1>4. \A C : MadeOf(q, C) => Head(q) \in C
  BY <1>3 DEF MadeOf
<1>5. CASE a \in stops
  <2>1. PICK j \in DOMAIN q : /\ q[j] = Call("fire", "SHUTDOWN")
                              /\ \A i \in DOMAIN q : i < j => q[i] \in StopCalls
                              /\ \A i \in DOMAIN q : j < i => q[i] = Unlock("pcapls")
    BY <1>2, <1>5 DEF ScriptOf, StopsAll
  <2>2. CASE j = 1
    <3>1. \A i \in DOMAIN Tail(q) : Tail(q)[i] = q[i + 1] /\ i + 1 \in DOMAIN q /\ 1 < i + 1
      <4>1. \A i \in DOMAIN Tail(q) : i \in Nat \ {0}
        BY <1>1, TailIs
      <4>2. QED
        BY <1>1, <4>1, TailIs
    <3>2. QED
      BY <1>1, <1>3, <1>5, <2>1, <2>2, <3>1
  <2>3. CASE j # 1
    <3>1. 1 < j
      BY <1>3, <2>3
    <3>2. QED
      BY <1>1, <1>2, <1>3, <1>5, <2>1, <3>1 DEF ScriptOf
  <2>4. QED
    BY <2>2, <2>3
<1>6. CASE a = "main" /\ a \notin stops
  <2>1. CASE StartsUp(q)
    <3>1. CASE Len(q) = 1
      <4>1. Tail(q) = << >>
        BY <1>1, <3>1, TailIs, EmptySeq
      <4>2. QED
        BY <1>1, <1>3, <1>6, <2>1, <3>1, <4>1 DEF StartsUp
    <3>2. CASE Len(q) # 1
      <4>1. Tail(q) # << >>
        <5>1. Len(Tail(q)) # 0
          BY <1>1, <1>3, <3>2, TailIs
        <5>2. QED
          BY <5>1, EmptySeq
      <4>2. Head(q) \in StartCalls
        BY <1>3, <2>1, <3>2 DEF StartsUp
      <4>3. QED
        BY <1>1, <1>6, <2>1, <4>1, <4>2
    <3>3. QED
      BY <3>1, <3>2
  <2>2. QED
    BY <1>1, <1>2, <1>4, <1>6, <2>1 DEF ScriptOf
<1>7. CASE a \in Sniffers \ stops
  BY <1>1, <1>2, <1>4, <1>7 DEF ScriptOf
<1>8. CASE a \in {"relayer", "filewriter", "interpreter"}
  BY <1>1, <1>2, <1>4, <1>8 DEF ScriptOf
<1>9. QED
  BY <1>5, <1>6, <1>7, <1>8 DEF Actors, Threads

\* Who takes, gives back or touches which lock.
LEMMA WhoLocks ==
    ASSUME LockTypes, Scripted, NEW a \in Actors, todo[a] # << >>
    PROVE  /\ About(a, "lock") => \/ a = "relayer" /\ Head(todo[a]) = Lock("pcapls", "w")
                                  \/ a \in Users /\ Head(todo[a]) = Lock("pcapls", "r")
           /\ About(a, "unlock") => Head(todo[a]) = Unlock("pcapls")
           /\ About(a, "touch") => \/ a = "relayer" /\ Head(todo[a]) \in {Touch("accumulator", "w"), Touch("mapped_var", "r")}
                                   \/ a \in Users /\ Head(todo[a]) \in {Touch("pcapls", "r"), Touch("sysdat", "w"), Touch("listeners", "r")}
           /\ About(a, "print") =>
                 \/ a \in {"filewriter", "interpreter"} /\ Head(todo[a]) \in {PrintIn("mapped_var", "r"), PrintIn("mapped_var", "w")}
                 \/ a \in Sniffers \ stops /\ Head(todo[a]) = PrintIn("accumulator", "w") /\ MadeOf(todo[a], CaptureCalls)
<1> DEFINE h == Head(todo[a])
<1> USE Fields, NamesDiffer DEF About
<1>1. CASE a = "relayer" /\ h \in RelayerCalls
  BY <1>1 DEF RelayerCalls
<1>2. CASE a = "filewriter" /\ h \in FilewriterCalls
  BY <1>2 DEF FilewriterCalls
<1>3. CASE a = "interpreter" /\ h \in InterpreterCalls
  BY <1>3 DEF InterpreterCalls
<1>4. CASE a \in Sniffers \ stops /\ h \in OpenCalls \cup KillCalls
  BY <1>4 DEF OpenCalls, KillCalls
<1>5. CASE a \in Sniffers \ stops /\ h \in CaptureCalls /\ MadeOf(todo[a], CaptureCalls)
  BY <1>5 DEF CaptureCalls
<1>6. CASE a = "main" /\ h \in StartCalls
  BY <1>6 DEF StartCalls
<1>7. CASE a = "main" /\ (h = Call("enter", "RUN") \/ h \in KillCalls)
  BY <1>7 DEF KillCalls
<1>8. CASE a \in stops /\ h \in StopCalls
  BY <1>8 DEF StopCalls, LockTypes
<1>9. CASE a \in stops /\ h = Call("fire", "SHUTDOWN")
  BY <1>9
<1>10. QED
  BY <1>1, <1>2, <1>3, <1>4, <1>5, <1>6, <1>7, <1>8, <1>9, Heads

\* Who uses the puffer, the devices and the state machine.
LEMMA WhoActs ==
    ASSUME LockTypes, Scripted, NEW a \in Actors, todo[a] # << >>
    PROVE  /\ About(a, "put") => a = "relayer" /\ On(a) = "puffer"
           /\ About(a, "get") => a = "filewriter" /\ On(a) = "puffer"
           /\ About(a, "resume") => a \in {"relayer", "filewriter"}
           /\ About(a, "open") => a \in Sniffers \ stops /\ Head(todo[a]) = Call("open", "device")
                                  /\ MadeOf(todo[a], OpenCalls \cup KillCalls)
           /\ About(a, "capture") => a \in Sniffers \ stops /\ MadeOf(todo[a], CaptureCalls)
           /\ About(a, "start") => /\ a = "main" /\ a \notin stops /\ StartsUp(todo[a]) /\ Tail(todo[a]) # << >>
                                   /\ On(a) \in Threads /\ Head(todo[a]) = Call("start", On(a))
           /\ About(a, "place") => /\ a = "main" /\ a \notin stops /\ StartsUp(todo[a]) /\ Tail(todo[a]) # << >>
                                   /\ On(a) \in Sniffers /\ Head(todo[a]) = Call("place", On(a))
           /\ About(a, "stop") => a \in stops /\ StopsAll(todo[a]) /\ On(a) \in Threads /\ Head(todo[a]) = Call("stop", On(a))
           /\ About(a, "await") => a \in stops /\ StopsAll(todo[a]) /\ On(a) \in Threads /\ Head(todo[a]) = Call("await", On(a))
           /\ About(a, "find") => a \in stops /\ StopsAll(todo[a]) /\ On(a) \in Sniffers /\ Head(todo[a]) = Call("find", On(a))
           /\ About(a, "enter") => \/ a = "main" /\ a \notin stops /\ Head(todo[a]) = Call("enter", "RUN") /\ Tail(todo[a]) = << >>
                                   \/ a \in stops /\ StopsAll(todo[a]) /\ Head(todo[a]) = Call("enter", "HALT")
           /\ About(a, "fire") =>
                 \/ a \in Sniffers \ stops /\ MadeOf(todo[a], OpenCalls \cup KillCalls) /\ Head(todo[a]) \in KillCalls
                 \/ a = "main" /\ a \notin stops /\ MadeOf(todo[a], KillCalls) /\ Head(todo[a]) \in KillCalls
                 \/ a \in stops /\ Head(todo[a]) = Call("fire", "SHUTDOWN")
<1> DEFINE h == Head(todo[a])
<1> USE Fields, NamesDiffer DEF About, On
<1>1. CASE a = "relayer" /\ h \in RelayerCalls
  BY <1>1 DEF RelayerCalls
<1>2. CASE a = "filewriter" /\ h \in FilewriterCalls
  BY <1>2 DEF FilewriterCalls
<1>3. CASE a = "interpreter" /\ h \in InterpreterCalls
  BY <1>3 DEF InterpreterCalls
<1>4. CASE a \in Sniffers \ stops /\ h \in OpenCalls \cup KillCalls /\ MadeOf(todo[a], OpenCalls \cup KillCalls)
  BY <1>4 DEF OpenCalls, KillCalls
<1>5. CASE a \in Sniffers \ stops /\ h \in CaptureCalls /\ MadeOf(todo[a], CaptureCalls)
  BY <1>5 DEF CaptureCalls
<1>6. CASE a = "main" /\ a \notin stops /\ h \in StartCalls /\ StartsUp(todo[a]) /\ Tail(todo[a]) # << >>
  BY <1>6 DEF StartCalls
<1>7. CASE a = "main" /\ a \notin stops /\ h = Call("enter", "RUN") /\ Tail(todo[a]) = << >>
  BY <1>7
<1>8. CASE a = "main" /\ a \notin stops /\ h \in KillCalls /\ MadeOf(todo[a], KillCalls)
  BY <1>8 DEF KillCalls
<1>9. CASE a \in stops /\ h \in StopCalls /\ StopsAll(todo[a])
  BY <1>9 DEF StopCalls
<1>10. CASE a \in stops /\ h = Call("fire", "SHUTDOWN")
  BY <1>10
<1> HIDE Fields, NamesDiffer DEF About, On
<1>11. QED
  BY <1>1, <1>2, <1>3, <1>4, <1>5, <1>6, <1>7, <1>8, <1>9, <1>10, Heads

\* START is on as long as main works through its script.
LEMMA StartingIs ==
    ASSUME LockTypes, Scripted
    PROVE  Starting <=> "main" \notin stops /\ StartsUp(todo["main"])
<1>1. PICK q \in Seq(Calls) : q = todo["main"]
  BY NamesDiffer DEF LockTypes
<1>2. ScriptOf("main", q)
  BY <1>1, NamesDiffer DEF Scripted
<1>3. StartsUp(q) => Has(q, Call("enter", "RUN"))
  <2>1. q # << >> => Len(q) \in DOMAIN q
    BY TailIs
  <2>2. QED
    BY <2>1 DEF StartsUp, Has
<1>4. MadeOf(q, KillCalls) => ~ Has(q, Call("enter", "RUN"))
  BY Fields DEF MadeOf, Has, KillCalls
<1>5. StopsAll(q) => ~ Has(q, Call("enter", "RUN"))
  <2> SUFFICES ASSUME NEW j \in DOMAIN q, q[j] = Call("fire", "SHUTDOWN"),
                      \A i \in DOMAIN q : i < j => q[i] \in StopCalls,
                      \A i \in DOMAIN q : j < i => q[i] = Unlock("pcapls"),
                      NEW i \in DOMAIN q, q[i] = Call("enter", "RUN")
               PROVE  FALSE
    BY DEF StopsAll, Has
  <2>1. Call("enter", "RUN") \notin StopCalls
    BY Fields DEF StopCalls
  <2>2. i < j \/ i = j \/ j < i
    BY LenProperties
  <2>3. QED
    BY <2>1, <2>2, Fields
<1>6. "main" \notin stops => StartsUp(q) \/ MadeOf(q, KillCalls)
  BY <1>2 DEF ScriptOf
<1>7. "main" \in stops => StopsAll(q)
  BY <1>2 DEF ScriptOf
<1>8. QED
  BY <1>1, <1>3, <1>4, <1>5, <1>6, <1>7 DEF Starting

\* What a call does that puts c in its own place.
LEMMA PushIs ==
    ASSUME NEW q \in Seq(Calls), q # << >>, NEW c \in Calls
    PROVE  /\ <<c>> \o Tail(q) \in Seq(Calls)
           /\ \A x : Has(<<c>> \o Tail(q), x) <=> x = c \/ Has(Tail(q), x)
           /\ \A C : MadeOf(q, C) /\ c \in C => MadeOf(<<c>> \o Tail(q), C)
           /\ \A C : Once(q, C) /\ c \notin C => Once(<<c>> \o Tail(q), C)
           /\ Balanced(q) /\ c.op # "lock" => Balanced(<<c>> \o Tail(q))
           /\ StopsAll(q) /\ Head(q) # Call("fire", "SHUTDOWN") /\ c \in StopCalls => StopsAll(<<c>> \o Tail(q))
           /\ c \in {Call("stop", "relayer"), Call("await", "relayer")} => RelayerFirst(<<c>> \o Tail(q))
<1> DEFINE p == <<c>>
           r == p \o Tail(q)
<1>1. p \in Seq(Calls) /\ Len(p) = 1 /\ DOMAIN p = {1} /\ p[1] = c
  OBVIOUS
<1>2. /\ Tail(q) \in Seq(Calls) /\ DOMAIN Tail(q) = 1 .. Len(q) - 1 /\ Len(q) \in Nat \ {0} /\ DOMAIN q = 1 .. Len(q)
      /\ \A i \in DOMAIN q : i # 1 => i - 1 \in DOMAIN Tail(q) /\ Tail(q)[i - 1] = q[i]
      /\ Head(q) = q[1] /\ Len(Tail(q)) = Len(q) - 1
  BY TailIs
<1> HIDE DEF p
<1>3. r \in Seq(Calls) /\ DOMAIN r = 1 .. 1 + Len(Tail(q)) /\ r[1] = c
      /\ \A i \in 1 .. Len(Tail(q)) : r[1 + i] = Tail(q)[i]
  <2>1. /\ r \in Seq(Calls) /\ DOMAIN r = 1 .. Len(p) + Len(Tail(q)) /\ \A i \in 1 .. Len(p) : r[i] = p[i]
        /\ \A i \in 1 .. Len(Tail(q)) : r[Len(p) + i] = Tail(q)[i]
    <3>1. PICK t \in Seq(Calls) : t = Tail(q)
      BY <1>2
    <3>2. /\ p \o t \in Seq(Calls) /\ DOMAIN (p \o t) = 1 .. Len(p) + Len(t)
          /\ \A i \in 1 .. Len(p) : (p \o t)[i] = p[i]
          /\ \A i \in 1 .. Len(t) : (p \o t)[Len(p) + i] = t[i]
      <4>1. p \in Seq(Calls)
        BY <1>1
      <4>2. QED
        BY <4>1, JoinIs
    <3>3. QED
      BY <3>1, <3>2
  <2>2. 1 \in 1 .. 1
    OBVIOUS
  <2>3. QED
    BY <1>1, <2>1, <2>2
<1>4. DOMAIN r = DOMAIN q
  BY <1>2, <1>3
<1>5. ASSUME NEW i \in DOMAIN q, i # 1 PROVE r[i] = q[i]
  <2>1. i - 1 \in 1 .. Len(Tail(q)) /\ 1 + (i - 1) = i
    BY <1>2, <1>5
  <2>2. r[1 + (i - 1)] = Tail(q)[i - 1]
    BY <1>3, <2>1
  <2>3. QED
    BY <1>2, <1>5, <2>1, <2>2
<1>6. \A x : Has(p, x) <=> x = c
  BY <1>1 DEF Has
<1>7. \A x : Has(r, x) <=> x = c \/ Has(Tail(q), x)
  BY <1>1, <1>2, <1>6, JoinHas
<1>8. ASSUME NEW C, Once(q, C), c \notin C PROVE Once(r, C)
  BY <1>3, <1>4, <1>5, <1>8 DEF Once
<1>9. ASSUME Balanced(q), c.op # "lock" PROVE Balanced(r)
  <2>1. \A i \in DOMAIN p : p[i].op # "lock"
    BY <1>1, <1>9
  <2>2. Balanced(p) /\ Balanced(Tail(q))
    BY <1>9, <2>1, UnlockedIsBalanced, TailKeeps
  <2>3. QED
    BY <1>1, <1>2, <2>2, JoinBalanced
<1> HIDE DEF r
<1>10. \A C : MadeOf(q, C) /\ c \in C => MadeOf(r, C)
  BY <1>3, <1>4, <1>5 DEF MadeOf
<1>11. ASSUME StopsAll(q), Head(q) # Call("fire", "SHUTDOWN"), c \in StopCalls PROVE StopsAll(r)
  <2>1. PICK j \in DOMAIN q : /\ q[j] = Call("fire", "SHUTDOWN")
                              /\ \A i \in DOMAIN q : i < j => q[i] \in StopCalls
                              /\ \A i \in DOMAIN q : j < i => q[i] = Unlock("pcapls")
    BY <1>11 DEF StopsAll
  <2>2. j # 1 /\ 1 < j
    BY <1>2, <1>11, <2>1
  <2>3. j \in DOMAIN r /\ r[j] = Call("fire", "SHUTDOWN")
    BY <1>4, <1>5, <2>1, <2>2
  <2>4. ASSUME NEW i \in DOMAIN r, i < j PROVE r[i] \in StopCalls
    BY <1>3, <1>4, <1>5, <1>11, <2>1, <2>4
  <2>5. ASSUME NEW i \in DOMAIN r, j < i PROVE r[i] = Unlock("pcapls")
    <3>1. i # 1 /\ i \in DOMAIN q
      BY <1>2, <1>4, <2>1, <2>2, <2>5
    <3>2. QED
      BY <1>5, <2>1, <2>5, <3>1
  <2>6. QED
    BY <2>3, <2>4, <2>5 DEF StopsAll
<1>12. ASSUME c \in {Call("stop", "relayer"), Call("await", "relayer")} PROVE RelayerFirst(r)
  <2>1. 1 \in DOMAIN r /\ \A k \in DOMAIN r : ~ (k < 1)
    BY <1>2, <1>4
  <2>2. QED
    BY <1>3, <1>12, <2>1 DEF RelayerFirst
<1>13. QED
  BY <1>3, <1>7, <1>8, <1>9, <1>10, <1>11, <1>12 DEF r, p

\* What is left to do when a STOP begins.
LEMMA StopJoins ==
    ASSUME setup \in Setups, NEW q \in Seq(Calls), q # << >>, KillsLast(q), Head(q) = Call("fire", "STOP")
    PROVE  /\ StopScript \o Tail(q) \in Seq(Calls)
           /\ StopsAll(StopScript \o Tail(q)) /\ RelayerFirst(StopScript \o Tail(q))
           /\ Balanced(q) => Balanced(StopScript \o Tail(q))
           /\ Has(StopScript \o Tail(q), Call("enter", "HALT"))
           /\ Once(StopScript \o Tail(q), Finds)
           /\ \A s : Has(StopScript \o Tail(q), Call("find", s)) => s \in Range(setup.listeners)
           /\ \A l : Has(q, Unlock(l)) => Has(StopScript \o Tail(q), Unlock(l))
<1>1. PICK p \in Seq(Calls) : p = StopScript
  BY StopIs
<1>2. PICK t \in Seq(Calls) : t = Tail(q)
  BY TailIs
<1>3. /\ MadeOf(p, StopCalls) /\ Has(p, Call("enter", "HALT")) /\ Once(p, Finds)
      /\ \A s : Has(p, Call("find", s)) => s \in Range(setup.listeners)
      /\ Len(p) >= 2 /\ p[1] = Touch("pcapls", "r") /\ p[2] = Call("stop", "relayer")
  BY <1>1, StopIs
<1>4. /\ Len(p) \in Nat /\ Len(t) \in Nat /\ DOMAIN p = 1 .. Len(p) /\ DOMAIN t = 1 .. Len(t)
      /\ p \o t \in Seq(Calls) /\ DOMAIN (p \o t) = 1 .. Len(p) + Len(t)
      /\ \A i \in 1 .. Len(p) : (p \o t)[i] = p[i]
      /\ \A i \in 1 .. Len(t) : (p \o t)[Len(p) + i] = t[i]
  BY JoinIs
<1>5. /\ 1 \in DOMAIN t /\ t[1] = Call("fire", "SHUTDOWN")
      /\ \A i \in DOMAIN t : 1 < i => t[i] = Unlock("pcapls")
  <2>1. 1 \in DOMAIN q /\ Head(q) = q[1] /\ DOMAIN q = 1 .. Len(q) /\ Len(q) \in Nat
    BY TailIs
  <2>2. /\ 1 + 1 \in DOMAIN q /\ q[1 + 1] = Call("fire", "SHUTDOWN")
        /\ \A k \in DOMAIN q : 1 + 1 < k => q[k] = Unlock("pcapls")
    BY <2>1 DEF KillsLast
  <2>3. \A i \in DOMAIN q : i # 1 => i - 1 \in DOMAIN t /\ t[i - 1] = q[i]
    BY <1>2, TailIs
  <2>4. \A i \in DOMAIN t : t[i] = q[i + 1] /\ i + 1 \in DOMAIN q /\ i \in Nat
    BY <1>2, <1>4, TailIs
  <2>5. (1 + 1) - 1 \in DOMAIN t /\ t[(1 + 1) - 1] = q[1 + 1]
    BY <2>2, <2>3
  <2>6. ASSUME NEW i \in DOMAIN t, 1 < i PROVE t[i] = Unlock("pcapls")
    <3>1. i + 1 \in DOMAIN q /\ 1 + 1 < i + 1
      BY <2>4, <2>6
    <3>2. QED
      BY <2>2, <2>4, <3>1
  <2>7. QED
    BY <2>2, <2>5, <2>6
<1>6. ASSUME NEW i \in DOMAIN (p \o t), i > Len(p) PROVE i - Len(p) \in DOMAIN t /\ (p \o t)[i] = t[i - Len(p)]
  <2>1. i - Len(p) \in 1 .. Len(t) /\ i = Len(p) + (i - Len(p))
    BY <1>4, <1>6
  <2>2. QED
    BY <1>4, <2>1
<1>7. StopsAll(p \o t)
  <2> DEFINE j == Len(p) + 1
  <2>1. j \in DOMAIN (p \o t) /\ (p \o t)[j] = Call("fire", "SHUTDOWN")
    BY <1>4, <1>5
  <2>2. ASSUME NEW i \in DOMAIN (p \o t), i < j PROVE (p \o t)[i] \in StopCalls
    <3>1. i \in 1 .. Len(p)
      BY <1>4, <2>2
    <3>2. QED
      BY <1>3, <1>4, <3>1 DEF MadeOf
  <2>3. ASSUME NEW i \in DOMAIN (p \o t), j < i PROVE (p \o t)[i] = Unlock("pcapls")
    <3>1. i > Len(p) /\ 1 < i - Len(p)
      BY <1>4, <2>3
    <3>2. QED
      BY <1>5, <1>6, <3>1
  <2> HIDE DEF j
  <2>4. QED
    BY <2>1, <2>2, <2>3 DEF StopsAll
<1>8. RelayerFirst(p \o t)
  <2>1. 1 \in 1 .. Len(p) /\ 2 \in 1 .. Len(p) /\ 2 \in DOMAIN (p \o t)
    BY <1>3, <1>4
  <2>2. (p \o t)[1] = Touch("pcapls", "r") /\ (p \o t)[2] = Call("stop", "relayer")
    BY <1>3, <1>4, <2>1
  <2>3. \A k \in DOMAIN (p \o t) : k < 2 => k = 1
    BY <1>4
  <2>4. QED
    BY <2>1, <2>2, <2>3 DEF RelayerFirst
<1>9. \A x : Has(p \o t, x) <=> Has(p, x) \/ Has(t, x)
  BY JoinHas
<1>10. \A i \in DOMAIN t : t[i].op \notin {"find", "lock"}
  <2>1. \A i \in DOMAIN t : i = 1 \/ 1 < i
    BY <1>4
  <2>2. QED
    BY <1>5, <2>1, Fields
<1>11. Balanced(p \o t)
  <2>1. \A i \in DOMAIN p : p[i].op # "lock"
    BY <1>3, Fields DEF MadeOf, StopCalls
  <2>2. Balanced(p) /\ Balanced(t)
    BY <1>10, <2>1, UnlockedIsBalanced
  <2>3. QED
    BY <2>2, JoinBalanced
<1>12. \A s : ~ Has(t, Call("find", s))
  BY <1>10, Fields DEF Has
<1>13. Once(p \o t, Finds)
  <2>1. Once(t, Finds) /\ \A x \in Finds : ~ Has(t, x)
    BY <1>10, <1>12, Fields DEF Once, Finds
  <2>2. QED
    BY <1>3, <2>1, JoinOnce
<1>14. \A l : Has(q, Unlock(l)) => Has(t, Unlock(l))
  <2>1. \A x : Has(q, x) => Has(t, x) \/ x = Head(q)
    BY <1>2, TailKeeps
  <2>2. QED
    BY <2>1, Fields
<1>15. QED
  BY <1>1, <1>2, <1>3, <1>4, <1>7, <1>8, <1>9, <1>11, <1>12, <1>13, <1>14

-----------------------------------------------------------------------------
(* What a step leaves as it was. *)

\* One actor has another script.
LEMMA TodoIs ==
    ASSUME LockTypes, NEW a \in Actors, NEW q \in Seq(Calls), todo' = [todo EXCEPT ![a] = q]
    PROVE  /\ todo' \in [Actors -> Seq(Calls)] /\ todo'[a] = q
           /\ \A b \in Actors : b # a => todo'[b] = todo[b]
BY DEF LockTypes

\* The others keep theirs.
LEMMA ScriptedKept ==
    ASSUME LockTypes, Scripted, NEW a \in Actors, NEW q \in Seq(Calls), todo' = [todo EXCEPT ![a] = q],
           stops' = stops, ScriptOf(a, q)
    PROVE  Scripted'
<1>1. \A b, p : ScriptOf(b, p)' <=> ScriptOf(b, p')
  BY DEF ScriptOf
<1>2. QED
  BY <1>1, TodoIs DEF Scripted

\* The rest of a script is one that may be left.
LEMMA TailScript ==
    ASSUME LockTypes, Scripted, NEW a \in Actors, todo[a] # << >>, ~ (a \in stops /\ Head(todo[a]) = Call("fire", "SHUTDOWN"))
    PROVE  ScriptOf(a, Tail(todo[a])) /\ Tail(todo[a]) \in Seq(Calls)
<1>1. PICK q \in Seq(Calls) : q = todo[a] /\ q # << >>
  BY DEF LockTypes
<1>2. ScriptOf(a, q)
  BY <1>1 DEF Scripted
<1>3. StartsUp(q) => StartsUp(Tail(q)) \/ MadeOf(Tail(q), KillCalls)
  BY <1>1, TailKeeps, NothingLeft
<1>4. a \in stops => StopsAll(Tail(q))
  BY <1>1, <1>2, TailKeeps DEF ScriptOf
<1>5. QED
  BY <1>1, <1>2, <1>3, <1>4, TailKeeps, TailIs DEF ScriptOf

\* The order of START and STOP is not touched by a script with the same calls of theirs.
LEMMA OrderKept ==
    ASSUME LockTypes, StartsFresh, Started, StopsInOrder, FindsAll,
           NEW a \in Actors, NEW q \in Seq(Calls), todo' = [todo EXCEPT ![a] = q],
           UNCHANGED <<setup, life, state, cancelled, slots, current, stops, left>>,
           \A x \in {"start", "place", "enter", "find"} : \A y : Has(q, Call(x, y)) <=> Has(todo[a], Call(x, y)),
           a \in stops /\ RelayerFirst(todo[a]) => RelayerFirst(q),
           a \in stops /\ Once(todo[a], Finds) => Once(q, Finds)
    PROVE  StartsFresh' /\ Started' /\ StopsInOrder' /\ FindsAll'
<1>1. /\ \A b \in Actors : b # a => todo'[b] = todo[b]
      /\ todo'[a] = q
  BY TodoIs
<1>2. \A x \in {"start", "place", "enter", "find"} : \A y : \A b \in Actors : Has(todo'[b], Call(x, y)) <=> Has(todo[b], Call(x, y))
  BY <1>1
<1>3. /\ \A y : \A b \in Actors : Has(todo'[b], Call("start", y)) <=> Has(todo[b], Call("start", y))
      /\ \A y : \A b \in Actors : Has(todo'[b], Call("place", y)) <=> Has(todo[b], Call("place", y))
      /\ \A y : \A b \in Actors : Has(todo'[b], Call("enter", y)) <=> Has(todo[b], Call("enter", y))
      /\ \A y : \A b \in Actors : Has(todo'[b], Call("find", y)) <=> Has(todo[b], Call("find", y))
  BY <1>2
<1>4. \A b \in stops : b \in Actors
  BY NamesDiffer DEF LockTypes
<1>5. Starting' <=> Starting
  BY <1>3, NamesDiffer DEF Starting
<1>6. StartsFresh'
  BY <1>3, <1>5, NamesDiffer DEF StartsFresh
<1>7. Started'
  BY <1>5 DEF Started
<1>8. \A b \in stops : RelayerFirst(todo[b]) => RelayerFirst(todo'[b])
  BY <1>1, <1>4
<1>9. StopsInOrder'
  BY <1>3, <1>4, <1>8 DEF StopsInOrder, Settled
<1>10. \A b \in stops : Once(todo[b], Finds) => Once(todo'[b], Finds)
  BY <1>1, <1>4
<1>11. FindsAll'
  BY <1>3, <1>4, <1>10 DEF FindsAll
<1>12. QED
  BY <1>6, <1>7, <1>9, <1>11

\* A call that only those wait for who share a lock or the puffer.
LEMMA DoneKeeps ==
    ASSUME LockTypes, Scripted, OnlyTheLivingAct, StartsFresh, Started, StopsInOrder, FindsAll,
           NEW a \in Actors, todo[a] # << >>, Done(a),
           Head(todo[a]).op \notin {"start", "place", "enter", "find", "stop", "await"},
           ~ (a \in stops /\ Head(todo[a]) = Call("fire", "SHUTDOWN")),
           UNCHANGED <<setup, life, state, cancelled, slots, current, stops, left>>
    PROVE  /\ todo' \in [Actors -> Seq(Calls)]
           /\ Scripted' /\ OnlyTheLivingAct' /\ StartsFresh' /\ Started' /\ StopsInOrder' /\ FindsAll'
           /\ \A b \in Actors : Has(todo[b], Unlock("pcapls")) =>
                 Has(todo'[b], Unlock("pcapls")) \/ (b = a /\ About(a, "unlock"))
<1>1. PICK q \in Seq(Calls) : q = todo[a] /\ q # << >>
  BY DEF LockTypes
<1>2. Tail(q) \in Seq(Calls) /\ todo' = [todo EXCEPT ![a] = Tail(q)]
  BY <1>1, TailIs DEF Done
<1>3. Scripted'
  BY <1>1, <1>2, TailScript, ScriptedKept
<1>4. OnlyTheLivingAct'
  BY <1>1, <1>2, TodoIs, NamesDiffer DEF OnlyTheLivingAct
<1>5. ASSUME NEW x \in {"start", "place", "enter", "find"}, NEW y PROVE Has(Tail(q), Call(x, y)) <=> Has(q, Call(x, y))
  BY <1>1, Fields, TailKeeps
<1>6. RelayerFirst(q) => RelayerFirst(Tail(q))
  <2>1. Head(q) \notin {Call("stop", "relayer"), Call("await", "relayer")}
    BY <1>1, Fields
  <2>2. QED
    BY <1>1, <2>1, TailKeeps
<1>7. Once(q, Finds) => Once(Tail(q), Finds)
  BY <1>1, TailKeeps
<1>8. StartsFresh' /\ Started' /\ StopsInOrder' /\ FindsAll'
  BY <1>1, <1>2, <1>5, <1>6, <1>7, OrderKept
<1>9. ASSUME NEW b \in Actors, Has(todo[b], Unlock("pcapls"))
      PROVE  Has(todo'[b], Unlock("pcapls")) \/ (b = a /\ About(a, "unlock"))
  <2>1. Has(q, Unlock("pcapls")) => Has(Tail(q), Unlock("pcapls")) \/ Unlock("pcapls") = Head(q)
    BY <1>1, TailKeeps
  <2>2. QED
    BY <1>1, <1>2, <1>9, <2>1, TodoIs, Fields DEF About
<1>10. QED
  BY <1>2, <1>3, <1>4, <1>8, <1>9, TodoIs

\* Nobody takes a lock, and nobody forgets to give one back.
LEMMA LocksKept ==
    ASSUME Held, Exclusive, Returned, LeakNeedsTwoStops, LockTypes,
           held' \subseteq held, stops \subseteq stops',
           \A t \in Threads : life[t] = "dead" => life'[t] = "dead",
           \A b \in Actors : Has(todo[b], Unlock("pcapls")) =>
              Has(todo'[b], Unlock("pcapls")) \/ \A h \in held' : ~ (h[1] = b /\ h[2] = "pcapls")
    PROVE  Held' /\ Exclusive' /\ Returned' /\ LeakNeedsTwoStops'
<1>1. Held'
  <2> SUFFICES ASSUME NEW h \in held'
               PROVE  \/ h = <<"relayer", "pcapls", "w">>
                      \/ \E a \in Users : h = <<a, "pcapls", "r">>
                      \/ \E a \in stops' : h = <<a, "listeners", "w">>
                      \/ \E t \in Threads, l \in {"accumulator", "mapped_var", "signal"}, mode \in {"r", "w"} :
                            h = <<t, l, mode>> /\ life'[t] = "dead"
    BY DEF Held
  <2>1. h \in held
    OBVIOUS
  <2>2. QED
    BY <2>1 DEF Held
<1>2. Exclusive'
  BY DEF Exclusive, Holds
<1>3. Returned'
  <2>1. ASSUME Holds("relayer", "pcapls", "w")' PROVE life'["relayer"] = "dead" \/ Has(todo'["relayer"], Unlock("pcapls"))
    <3>1. Holds("relayer", "pcapls", "w")
      BY <2>1 DEF Holds
    <3>2. <<"relayer", "pcapls", "w">>[1] = "relayer" /\ <<"relayer", "pcapls", "w">>[2] = "pcapls"
      OBVIOUS
    <3>3. QED
      BY <2>1, <3>1, <3>2, NamesDiffer DEF Returned, Holds
  <2>2. ASSUME NEW b \in Users, Holds(b, "pcapls", "r")' PROVE Has(todo'[b], Unlock("pcapls"))
    <3>1. Holds(b, "pcapls", "r")
      BY <2>2 DEF Holds
    <3>2. <<b, "pcapls", "r">>[1] = b /\ <<b, "pcapls", "r">>[2] = "pcapls"
      OBVIOUS
    <3>3. QED
      BY <2>2, <3>1, <3>2, NamesDiffer DEF Returned, Holds
  <2>3. QED
    BY <2>1, <2>2 DEF Returned
<1>4. LeakNeedsTwoStops'
  BY DEF LeakNeedsTwoStops, LockIsLeaked, Holds
<1>5. QED
  BY <1>1, <1>2, <1>3, <1>4

-----------------------------------------------------------------------------
(* The steps. *)

\* A lock is taken when the others that bar it are given back.
LEMMA TakeLockWorks ==
    ASSUME LockTypes, Working, NEW a \in Actors, todo[a] # << >>, TakeLock(a)
    PROVE  LockTypes' /\ Working'
<1>1. /\ About(a, "lock") /\ Blockers(a, On(a), Head(todo[a]).mode) = {} /\ Done(a)
      /\ UNCHANGED <<setup, life, state, cancelled, level, asleep, slots, current, gone, stops, left>>
      /\ held' = IF Holds(a, On(a), "w") THEN held ELSE held \cup {<<a, On(a), Head(todo[a]).mode>>}
  BY DEF TakeLock, threads, puffer, machine
<1>2. /\ todo' \in [Actors -> Seq(Calls)]
      /\ Scripted' /\ OnlyTheLivingAct' /\ StartsFresh' /\ Started' /\ StopsInOrder' /\ FindsAll'
      /\ \A b \in Actors : Has(todo[b], Unlock("pcapls")) => Has(todo'[b], Unlock("pcapls"))
  BY <1>1, DoneKeeps, Fields DEF Working, About
<1>3. \/ a = "relayer" /\ On(a) = "pcapls" /\ Head(todo[a]).mode = "w"
      \/ a \in Users /\ On(a) = "pcapls" /\ Head(todo[a]).mode = "r"
  BY <1>1, WhoLocks, Fields DEF Working, On
<1>4. Has(todo'[a], Unlock("pcapls"))
  <2>1. PICK q \in Seq(Calls) : q = todo[a] /\ q # << >>
    BY DEF LockTypes
  <2>2. Balanced(q) /\ 1 \in DOMAIN q /\ Head(q) = q[1]
    BY <2>1, TailIs DEF Working, Scripted, ScriptOf
  <2>3. Has(q, Unlock("pcapls"))
    BY <1>1, <1>3, <2>1, <2>2 DEF Balanced, Has, About, On
  <2>4. QED
    BY <1>2, <2>1, <2>3
<1>5. \A h \in held' : h \in held \/ h = <<a, "pcapls", Head(todo[a]).mode>>
  BY <1>1, <1>3
<1>6. Held'
  BY <1>1, <1>3, <1>5 DEF Held, Working
<1>7. Exclusive'
  <2>1. CASE a = "relayer" /\ Head(todo[a]).mode = "w"
    <3>1. ~ Holds("relayer", "pcapls", "w") => \A b \in Users : ~ Holds(b, "pcapls", "r")
      BY <1>1, <1>3, <2>1, NamesDiffer DEF Blockers, Holds
    <3>2. \A b \in Users : Holds(b, "pcapls", "r")' => Holds(b, "pcapls", "r")
      BY <1>5, <2>1, NamesDiffer DEF Holds
    <3>3. \A b \in Users : Holds(b, "listeners", "w")' => Holds(b, "listeners", "w")
      BY <1>5 DEF Holds
    <3>4. QED
      BY <3>1, <3>2, <3>3 DEF Exclusive, Working
  <2>2. CASE a \in Users /\ Head(todo[a]).mode = "r"
    <3>1. ~ Holds(a, "pcapls", "w")
      BY <2>2, NamesDiffer DEF Working, Held, Holds
    <3>2. ~ Holds("relayer", "pcapls", "w")
      BY <1>1, <1>3, <3>1, <2>2, NamesDiffer DEF Blockers, Holds
    <3>3. ~ Holds("relayer", "pcapls", "w")'
      BY <1>5, <2>2, <3>2, NamesDiffer DEF Holds
    <3>4. \A b \in Users : Holds(b, "listeners", "w")' => Holds(b, "listeners", "w")
      BY <1>5 DEF Holds
    <3>5. QED
      BY <3>3, <3>4 DEF Exclusive, Working
  <2>3. QED
    BY <1>3, <2>1, <2>2
<1>8. Returned'
  <2>1. ASSUME Holds("relayer", "pcapls", "w")'
        PROVE  life'["relayer"] = "dead" \/ Has(todo'["relayer"], Unlock("pcapls"))
    BY <1>1, <1>2, <1>4, <1>5, <2>1, NamesDiffer DEF Returned, Holds, Working
  <2>2. ASSUME NEW b \in Users, Holds(b, "pcapls", "r")' PROVE Has(todo'[b], Unlock("pcapls"))
    BY <1>2, <1>4, <1>5, <2>2, NamesDiffer DEF Returned, Holds, Working
  <2>3. QED
    BY <2>1, <2>2 DEF Returned
<1>9. LeakNeedsTwoStops'
  <2>1. \A b : Holds(b, "listeners", "w")' => Holds(b, "listeners", "w")
    BY <1>5 DEF Holds
  <2>2. QED
    BY <1>1, <2>1 DEF Working, LeakNeedsTwoStops, LockIsLeaked
<1>10. Sleepers' /\ ~ gone'
  BY <1>1 DEF Working, Sleepers, Full, Empty
<1>11. LockTypes'
  BY <1>1, <1>2 DEF LockTypes
<1>12. QED
  BY <1>2, <1>6, <1>7, <1>8, <1>9, <1>10, <1>11 DEF Working

\* A call that changes nothing but the puffer, if anything.
LEMMA PlainWorks ==
    ASSUME LockTypes, Working, NEW a \in Actors, todo[a] # << >>, Done(a),
           Head(todo[a]).op \notin {"start", "place", "enter", "find", "stop", "await", "unlock"},
           ~ (a \in stops /\ Head(todo[a]) = Call("fire", "SHUTDOWN")),
           UNCHANGED <<setup, held, life, state, cancelled, slots, current, gone, stops, left>>,
           level' \in 0 .. PufferSize, Sleepers'
    PROVE  LockTypes' /\ Working'
<1>1. /\ todo' \in [Actors -> Seq(Calls)]
      /\ Scripted' /\ OnlyTheLivingAct' /\ StartsFresh' /\ Started' /\ StopsInOrder' /\ FindsAll'
      /\ \A b \in Actors : Has(todo[b], Unlock("pcapls")) => Has(todo'[b], Unlock("pcapls"))
  BY DoneKeeps DEF Working, About
<1>2. Held' /\ Exclusive' /\ Returned' /\ LeakNeedsTwoStops'
  BY <1>1, LocksKept DEF Working
<1>3. LockTypes'
  BY <1>1 DEF LockTypes
<1>4. QED
  BY <1>1, <1>2, <1>3 DEF Working

\* A section in which nothing is waited for leaves nothing behind.
LEMMA TouchLockWorks ==
    ASSUME LockTypes, Working, NEW a \in Actors, todo[a] # << >>, TouchLock(a)
    PROVE  LockTypes' /\ Working'
<1>1. /\ Head(todo[a]).op \in {"touch", "print"} /\ Done(a)
      /\ UNCHANGED <<setup, held, life, state, cancelled, level, asleep, slots, current, gone, stops, left>>
  BY DEF TouchLock, About, threads, puffer, machine
<1>2. Sleepers' /\ level' \in 0 .. PufferSize
  BY <1>1 DEF Working, Sleepers, Full, Empty, LockTypes
<1>3. QED
  BY <1>1, <1>2, PlainWorks, Fields

\* So do the capture of a packet and the opening of a device.
LEMMA CaptureWorks ==
    ASSUME LockTypes, Working, NEW a \in Actors, todo[a] # << >>, Capture(a) \/ Open(a)
    PROVE  LockTypes' /\ Working'
<1>1. /\ Head(todo[a]).op \in {"capture", "open"} /\ Done(a)
      /\ UNCHANGED <<setup, held, life, state, cancelled, level, asleep, slots, current, gone, stops, left>>
  BY DEF Capture, Open, About, threads, puffer, machine
<1>2. Sleepers' /\ level' \in 0 .. PufferSize
  BY <1>1 DEF Working, Sleepers, Full, Empty, LockTypes
<1>3. QED
  BY <1>1, <1>2, PlainWorks, Fields

\* A sample goes in only with nobody asleep for want of room, and out likewise.
LEMMA UsePufferWorks ==
    ASSUME LockTypes, Working, NEW a \in Actors, todo[a] # << >>, UsePuffer(a) \/ Resume(a)
    PROVE  LockTypes' /\ Working'
<1>1. /\ Head(todo[a]).op \in {"put", "get", "resume"} /\ Done(a)
      /\ UNCHANGED <<setup, held, life, state, cancelled, slots, current, gone, stops, left>>
  BY DEF UsePuffer, Resume, About, threads, machine
<1>2. \/ a = "relayer" /\ PutSample /\ "relayer" \notin asleep
      \/ a = "filewriter" /\ GetSample /\ "filewriter" \notin asleep
  <2>1. CASE UsePuffer(a)
    <3>1. About(a, "put") => a = "relayer"
      BY WhoActs DEF Working
    <3>2. About(a, "get") => a = "filewriter"
      BY WhoActs DEF Working
    <3>3. QED
      BY <2>1, <3>1, <3>2 DEF UsePuffer, Working, Sleepers
  <2>2. CASE Resume(a)
    <3>1. a \in {"relayer", "filewriter"}
      BY <2>2, WhoActs DEF Working, Resume
    <3>2. QED
      BY <2>2, <3>1 DEF Resume
  <2>3. QED
    BY <2>1, <2>2
<1>3. Sleepers' /\ level' \in 0 .. PufferSize
  <2>1. /\ PufferSize \in Nat \ {0} /\ level \in 0 .. PufferSize
        /\ asleep \subseteq {"relayer", "filewriter"}
        /\ "relayer" \in asleep => level = PufferSize
        /\ "filewriter" \in asleep => level = 0
    BY LocksAssumption DEF Working, Sleepers, Full, Empty, LockTypes
  <2>2. CASE a = "relayer" /\ PutSample /\ "relayer" \notin asleep
    <3>1. level' = (IF level = PufferSize THEN level ELSE level + 1) /\ asleep' = IF level = 0 THEN {} ELSE asleep
      BY <2>2 DEF PutSample, Full, Empty
    <3>2. "filewriter" \notin asleep' /\ "relayer" \notin asleep' /\ asleep' \subseteq {"relayer", "filewriter"}
      BY <2>1, <2>2, <3>1
    <3>3. QED
      BY <2>1, <3>1, <3>2 DEF Sleepers
  <2>3. CASE a = "filewriter" /\ GetSample /\ "filewriter" \notin asleep
    <3>1. level' = (IF level = 0 THEN level ELSE level - 1) /\ asleep' = IF level = PufferSize THEN {} ELSE asleep
      BY <2>3 DEF GetSample, Full, Empty
    <3>2. "filewriter" \notin asleep' /\ "relayer" \notin asleep' /\ asleep' \subseteq {"relayer", "filewriter"}
      BY <2>1, <2>3, <3>1
    <3>3. QED
      BY <2>1, <3>1, <3>2 DEF Sleepers
  <2>4. QED
    BY <1>2, <2>2, <2>3
<1>4. QED
  BY <1>1, <1>3, PlainWorks, Fields

\* A lock is given back.
LEMMA ReleaseWorks ==
    ASSUME LockTypes, Working, NEW a \in Actors, todo[a] # << >>, Release(a)
    PROVE  LockTypes' /\ Working'
<1>1. /\ About(a, "unlock") /\ Done(a) /\ held' = Without(a, On(a))
      /\ UNCHANGED <<setup, life, state, cancelled, level, asleep, slots, current, gone, stops, left>>
  BY DEF Release, threads, puffer, machine
<1>2. On(a) = "pcapls"
  BY <1>1, WhoLocks, Fields DEF Working, On
<1>3. /\ todo' \in [Actors -> Seq(Calls)]
      /\ Scripted' /\ OnlyTheLivingAct' /\ StartsFresh' /\ Started' /\ StopsInOrder' /\ FindsAll'
      /\ \A b \in Actors : Has(todo[b], Unlock("pcapls")) => Has(todo'[b], Unlock("pcapls")) \/ b = a
  BY <1>1, DoneKeeps, Fields DEF Working, About
<1>4. held' \subseteq held /\ \A h \in held' : ~ (h[1] = a /\ h[2] = "pcapls")
  BY <1>1, <1>2 DEF Without
<1>5. Held' /\ Exclusive' /\ Returned' /\ LeakNeedsTwoStops'
  BY <1>1, <1>3, <1>4, LocksKept DEF Working
<1>6. Sleepers' /\ ~ gone'
  BY <1>1 DEF Working, Sleepers, Full, Empty
<1>7. LockTypes'
  BY <1>1, <1>3 DEF LockTypes
<1>8. QED
  BY <1>3, <1>5, <1>6, <1>7 DEF Working

\* The relayer sleeps when the puffer is full, the filewriter when it is empty.
LEMMA FallAsleepWorks ==
    ASSUME LockTypes, Working, NEW a \in Actors, todo[a] # << >>, FallAsleep(a)
    PROVE  LockTypes' /\ Working'
<1>1. /\ (About(a, "put") /\ Full) \/ (About(a, "get") /\ Empty)
      /\ asleep' = asleep \cup {a} /\ todo' = [todo EXCEPT ![a] = <<Call("resume", On(a))>> \o Tail(@)]
      /\ UNCHANGED <<setup, held, life, state, cancelled, level, slots, current, gone, stops, left>>
  BY DEF FallAsleep, threads, machine
<1>2. /\ (a = "relayer" /\ Full) \/ (a = "filewriter" /\ Empty)
      /\ On(a) = "puffer"
  BY <1>1, WhoActs DEF Working
<1>3. PICK q \in Seq(Calls) : q = todo[a] /\ q # << >>
  BY DEF LockTypes
<1>4. PICK c \in Calls : c = Call("resume", "puffer") /\ c \in RelayerCalls /\ c \in FilewriterCalls
  BY DEF Calls, RelayerCalls, FilewriterCalls
<1>5. PICK r \in Seq(Calls) : r = <<c>> \o Tail(q)
  BY <1>3, PushIs
<1>6. todo' = [todo EXCEPT ![a] = r]
  BY <1>1, <1>2, <1>3, <1>4, <1>5
<1>7. ScriptOf(a, r)
  <2>1. ScriptOf(a, q)
    BY <1>3 DEF Working, Scripted
  <2>2. c.op # "lock"
    BY <1>4, Fields
  <2>3. a \notin Users
    BY <1>2, NamesDiffer
  <2>4. MadeOf(q, RelayerCalls) => MadeOf(r, RelayerCalls)
    BY <1>3, <1>4, <1>5, PushIs
  <2>5. MadeOf(q, FilewriterCalls) => MadeOf(r, FilewriterCalls)
    BY <1>3, <1>4, <1>5, PushIs
  <2>6. Balanced(r)
    BY <1>3, <1>5, <2>1, <2>2, PushIs DEF ScriptOf
  <2>7. QED
    BY <1>2, <2>1, <2>3, <2>4, <2>5, <2>6, NamesDiffer DEF ScriptOf, LockTypes
<1>8. Scripted'
  BY <1>1, <1>6, <1>7, ScriptedKept DEF Working
<1>9. \A x : Has(r, x) <=> x = c \/ Has(Tail(q), x)
  BY <1>3, <1>5, PushIs
<1>10. \A x : Has(q, x) => Has(r, x) \/ x = Head(q)
  BY <1>3, <1>9, TailKeeps
<1>11. \A x : Has(r, x) => x = c \/ Has(q, x)
  BY <1>3, <1>9, TailKeeps
<1>12. c.op = "resume" /\ Head(q).op \in {"put", "get"}
  BY <1>1, <1>3, <1>4, Fields DEF About
<1>13. \A x \in {"start", "place", "enter", "find"} : \A y : Has(r, Call(x, y)) <=> Has(q, Call(x, y))
  BY <1>10, <1>11, <1>12, Fields
<1>14. a \notin stops
  BY <1>2, NamesDiffer DEF LockTypes
<1>15. StartsFresh' /\ Started' /\ StopsInOrder' /\ FindsAll'
  BY <1>1, <1>3, <1>6, <1>13, <1>14, OrderKept DEF Working
<1>16. OnlyTheLivingAct'
  BY <1>1, <1>3, <1>6, TodoIs, NamesDiffer DEF OnlyTheLivingAct, Working
<1>17. \A b \in Actors : Has(todo[b], Unlock("pcapls")) => Has(todo'[b], Unlock("pcapls"))
  BY <1>3, <1>6, <1>10, <1>12, TodoIs, Fields
<1>18. Held' /\ Exclusive' /\ Returned' /\ LeakNeedsTwoStops'
  BY <1>1, <1>17, LocksKept DEF Working
<1>19. Sleepers' /\ ~ gone'
  BY <1>1, <1>2 DEF Working, Sleepers, Full, Empty
<1>20. LockTypes'
  BY <1>1, <1>6, TodoIs DEF LockTypes
<1>21. QED
  BY <1>8, <1>15, <1>16, <1>18, <1>19, <1>20 DEF Working

\* Before the relayer is stopped a STOP only reads.
LEMMA RelayerNext ==
    ASSUME NEW q \in Seq(Calls), q # << >>, RelayerFirst(q)
    PROVE  Head(q) \in {Touch("pcapls", "r"), Call("stop", "relayer"), Call("await", "relayer")}
<1>1. PICK j \in DOMAIN q : /\ q[j] \in {Call("stop", "relayer"), Call("await", "relayer")}
                            /\ \A k \in DOMAIN q : k < j => q[k] = Touch("pcapls", "r")
  BY DEF RelayerFirst
<1>2. 1 \in DOMAIN q /\ Head(q) = q[1] /\ (j = 1 \/ 1 < j)
  BY TailIs
<1>3. QED
  BY <1>1, <1>2

\* A STOP is on until its SHUTDOWN, and enters HALT only.
LEMMA StopsOnly ==
    ASSUME NEW q \in Seq(Calls), StopsAll(q)
    PROVE  ~ Has(q, Call("enter", "RUN")) /\ q # << >>
<1>1. PICK j \in DOMAIN q : /\ q[j] = Call("fire", "SHUTDOWN")
                            /\ \A i \in DOMAIN q : i < j => q[i] \in StopCalls
                            /\ \A i \in DOMAIN q : j < i => q[i] = Unlock("pcapls")
  BY DEF StopsAll
<1>2. \A i \in DOMAIN q : i < j \/ i = j \/ j < i
  BY LenProperties
<1>3. \A x \in StopCalls : x # Call("enter", "RUN")
  BY Fields DEF StopCalls
<1>4. QED
  BY <1>1, <1>2, <1>3, Fields DEF Has

\* A step of a STOP that leaves the other contexts alone.
LEMMA StopKept ==
    ASSUME LockTypes, Scripted, OnlyTheLivingAct, StartsFresh, Started, StopsInOrder,
           NEW a \in stops, NEW r \in Seq(Calls), todo' = [todo EXCEPT ![a] = r],
           UNCHANGED <<setup, life, stops>>, StopsAll(r), Balanced(r), todo[a] # << >>,
           \/ current' = "HALT"
           \/ current' = current /\ (Has(todo[a], Call("enter", "HALT")) => Has(r, Call("enter", "HALT")))
    PROVE  /\ todo' \in [Actors -> Seq(Calls)]
           /\ Scripted' /\ OnlyTheLivingAct' /\ StartsFresh' /\ Started'
           /\ \A b \in stops' : current' = "HALT" \/ Has(todo'[b], Call("enter", "HALT"))
<1>1. a \in Actors /\ a \in Users
  BY NamesDiffer DEF LockTypes
<1>2. ScriptOf(a, r)
  BY <1>1, NamesDiffer DEF ScriptOf
<1>3. Scripted'
  BY <1>1, <1>2, ScriptedKept
<1>4. OnlyTheLivingAct'
  BY <1>1, TodoIs, NamesDiffer DEF OnlyTheLivingAct
<1>5. ~ Starting /\ todo["main"] \in Seq(Calls)
  BY NamesDiffer DEF StartsFresh, LockTypes
<1>6. ~ Starting'
  <2>1. CASE a = "main"
    BY <1>1, <2>1, StopsOnly, TodoIs DEF Starting
  <2>2. CASE a # "main"
    BY <1>1, <1>5, <2>2, TodoIs, NamesDiffer DEF Starting
  <2>3. QED
    BY <2>1, <2>2
<1>7. StartsFresh'
  BY <1>6 DEF StartsFresh
<1>8. Started'
  BY <1>5 DEF Started
<1>9. \A b \in stops' : current' = "HALT" \/ Has(todo'[b], Call("enter", "HALT"))
  BY <1>1, TodoIs, NamesDiffer DEF StopsInOrder, LockTypes
<1>10. QED
  BY <1>1, <1>3, <1>4, <1>7, <1>8, <1>9, TodoIs

\* Where a STOP stops or awaits a thread other than the relayer, or looks for a
\* sniffer, it has done with the relayer.
LEMMA StopGoesOn ==
    ASSUME LockTypes, StopsInOrder, NEW a \in stops, todo[a] # << >>,
           Head(todo[a]).op \in {"stop", "await", "find", "enter"},
           Head(todo[a]) \notin {Call("stop", "relayer"), Call("await", "relayer")}
    PROVE  Settled
<1>1. todo[a] \in Seq(Calls)
  BY NamesDiffer DEF LockTypes
<1>2. Settled \/ RelayerFirst(todo[a])
  BY DEF StopsInOrder
<1>3. QED
  BY <1>1, <1>2, RelayerNext, Fields

\* stop_thread tells the thread, or leaves it behind.
LEMMA StopThreadWorks ==
    ASSUME LockTypes, Working, NEW a \in Actors, todo[a] # << >>, StopThread(a)
    PROVE  LockTypes' /\ Working'
<1>1. /\ About(a, "stop")
      /\ UNCHANGED <<setup, held, life, cancelled, level, asleep, slots, current, gone, stops>>
  BY DEF StopThread, puffer
<1>2. PICK t \in Threads : t = On(a) /\ Head(todo[a]) = Call("stop", t) /\ a \in stops /\ StopsAll(todo[a])
  BY <1>1, WhoActs DEF Working
<1>3. PICK q \in Seq(Calls) : q = todo[a] /\ q # << >>
  BY DEF LockTypes
<1>4. PICK c \in Calls : c = Call("await", t) /\ c \in StopCalls
  BY DEF Calls, StopCalls
<1>5. PICK p \in Seq(Calls) : p = <<c>> \o Tail(q)
  BY <1>3, PushIs
<1>6. Tail(q) \in Seq(Calls)
  BY <1>3, TailIs
<1>7. PICK r \in Seq(Calls) :
         /\ todo' = [todo EXCEPT ![a] = r]
         /\ \/ r = p /\ state[t] = "run" /\ state' = [state EXCEPT ![t] = "stop"] /\ left' = left
            \/ /\ r = Tail(q) /\ state[t] # "run" /\ state' = state
               /\ left' = (left \/ (t = "relayer" /\ life["relayer"] \in {"init", "loop"}))
  <2>1. CASE state[t] = "run"
    BY <1>2, <1>3, <1>4, <1>5, <2>1 DEF StopThread
  <2>2. CASE state[t] # "run"
    BY <1>2, <1>3, <1>6, <2>2 DEF StopThread, Done
  <2>3. QED
    BY <2>1, <2>2
<1>8. /\ \A x : Has(p, x) <=> x = c \/ Has(Tail(q), x)
      /\ \A x : Has(q, x) => Has(Tail(q), x) \/ x = Head(q)
      /\ \A x : Has(Tail(q), x) => Has(q, x)
  BY <1>3, <1>5, PushIs, TailKeeps
<1>9. /\ \A x : Has(q, x) => Has(r, x) \/ x = Head(q)
      /\ \A x : Has(r, x) => Has(q, x) \/ x = c
  BY <1>7, <1>8
<1>10. c.op = "await" /\ Head(q).op = "stop" /\ Head(q) # Call("fire", "SHUTDOWN")
  BY <1>2, <1>3, <1>4, Fields
<1>11. StopsAll(r) /\ Balanced(r) /\ (Once(q, Finds) => Once(r, Finds))
  <2>1. StopsAll(q) /\ Balanced(q)
    BY <1>2, <1>3 DEF Working, Scripted, ScriptOf
  <2>2. StopsAll(p) /\ Balanced(p)
    BY <1>3, <1>4, <1>5, <1>10, <2>1, PushIs
  <2>3. StopsAll(Tail(q)) /\ Balanced(Tail(q)) /\ (Once(q, Finds) => Once(Tail(q), Finds))
    BY <1>3, <1>10, <2>1, TailKeeps
  <2>4. c \notin Finds
    BY <1>10, Fields DEF Finds
  <2>5. Once(q, Finds) => Once(p, Finds)
    BY <1>3, <1>5, <2>4, PushIs
  <2>6. QED
    BY <1>7, <2>2, <2>3, <2>5
<1>12. /\ todo' \in [Actors -> Seq(Calls)]
       /\ Scripted' /\ OnlyTheLivingAct' /\ StartsFresh' /\ Started'
       /\ \A b \in stops' : current' = "HALT" \/ Has(todo'[b], Call("enter", "HALT"))
  <2>1. Has(q, Call("enter", "HALT")) => Has(r, Call("enter", "HALT"))
    BY <1>9, <1>10, Fields
  <2>2. QED
    BY <1>1, <1>2, <1>3, <1>7, <1>11, <2>1, StopKept DEF Working
<1>13. life["relayer"] \in {"init", "loop", "dead", "ended"}
  BY <1>2, NamesDiffer DEF Working, StartsFresh, Started, LockTypes
<1>14. (Settled => Settled') /\ (left => left')
  <2>1. left => left'
    BY <1>7, Zenon
  <2>2. QED
    BY <1>1, <2>1 DEF Settled
<1>15. Settled \/ t = "relayer"
  BY <1>2, <1>3, <1>10, StopGoesOn, Fields DEF Working
<1>16. StopsInOrder'
  <2>1. Settled' \/ RelayerFirst(r)
    <3>1. CASE ~ Settled /\ r = p
      <4>1. c = Call("await", "relayer")
        BY <1>4, <1>15, <3>1
      <4>2. QED
        BY <1>3, <1>5, <3>1, <4>1, PushIs
    <3>2. CASE ~ Settled /\ r # p
      BY <1>1, <1>7, <1>13, <1>15, <3>2 DEF Working, StopsInOrder, Settled
    <3>3. QED
      BY <1>14, <3>1, <3>2, <1>7
  <2>2. \A b \in stops' : Settled' \/ RelayerFirst(todo'[b])
    BY <1>1, <1>7, <1>14, <2>1, TodoIs, NamesDiffer DEF Working, StopsInOrder, LockTypes
  <2>3. /\ state'["relayer"] = "stopped" => state["relayer"] = "stopped"
        /\ t = "relayer" => state'["filewriter"] = state["filewriter"]
    BY <1>7, NamesDiffer DEF LockTypes
  <2>4. \/ Settled'
        \/ life'["filewriter"] \in {"none", "init"}
        \/ life'["filewriter"] = "loop" /\ state'["filewriter"] = "run"
    BY <1>1, <1>14, <1>15, <2>3 DEF Working, StopsInOrder
  <2>5. QED
    BY <1>1, <1>12, <1>14, <2>2, <2>3, <2>4 DEF Working, StopsInOrder
<1>17. FindsAll'
  <2>1. \A s : Has(r, Call("find", s)) => Has(q, Call("find", s))
    BY <1>9, <1>10, Fields
  <2>2. QED
    BY <1>1, <1>3, <1>7, <1>11, <2>1, TodoIs, NamesDiffer DEF Working, FindsAll, LockTypes
<1>18. \A b \in Actors : Has(todo[b], Unlock("pcapls")) => Has(todo'[b], Unlock("pcapls"))
  BY <1>3, <1>7, <1>9, <1>10, TodoIs, Fields
<1>19. Held' /\ Exclusive' /\ Returned' /\ LeakNeedsTwoStops'
  BY <1>1, <1>18, LocksKept DEF Working
<1>20. Sleepers' /\ ~ gone'
  BY <1>1 DEF Working, Sleepers, Full, Empty
<1>21. LockTypes'
  BY <1>1, <1>7, <1>12 DEF LockTypes
<1>22. QED
  BY <1>12, <1>16, <1>17, <1>19, <1>20, <1>21 DEF Working

\* stop_thread goes on, with the thread stopped or cancelled.
LEMMA AwaitWorks ==
    ASSUME LockTypes, Working, NEW a \in Actors, todo[a] # << >>, Await(a) \/ GiveUp(a)
    PROVE  LockTypes' /\ Working'
<1>1. /\ About(a, "await") /\ Done(a)
      /\ UNCHANGED <<setup, held, life, level, asleep, slots, current, gone, stops>>
  BY DEF Await, GiveUp, puffer, machine
<1>2. PICK t \in Threads : t = On(a) /\ Head(todo[a]) = Call("await", t) /\ a \in stops /\ StopsAll(todo[a])
  BY <1>1, WhoActs DEF Working
<1>3. /\ state' = [state EXCEPT ![t] = "ready"]
      /\ \/ state[t] = "stopped" /\ cancelled' = cancelled /\ left' = left
         \/ cancelled' = cancelled \cup {t} /\ left' = (left \/ t = "relayer")
  BY <1>2 DEF Await, GiveUp, machine
<1>4. PICK q \in Seq(Calls) : q = todo[a] /\ q # << >>
  BY DEF LockTypes
<1>5. PICK r \in Seq(Calls) : r = Tail(q) /\ todo' = [todo EXCEPT ![a] = r]
  BY <1>1, <1>4, TailIs DEF Done
<1>6. /\ \A x : Has(q, x) => Has(r, x) \/ x = Head(q)
      /\ \A x : Has(r, x) => Has(q, x)
  BY <1>4, <1>5, TailKeeps
<1>7. Head(q).op = "await" /\ Head(q) # Call("fire", "SHUTDOWN")
  BY <1>2, <1>4, Fields
<1>8. StopsAll(r) /\ Balanced(r) /\ (Once(q, Finds) => Once(r, Finds))
  <2>1. StopsAll(q) /\ Balanced(q)
    BY <1>2, <1>4 DEF Working, Scripted, ScriptOf
  <2>2. QED
    BY <1>4, <1>5, <1>7, <2>1, TailKeeps
<1>9. /\ todo' \in [Actors -> Seq(Calls)]
      /\ Scripted' /\ OnlyTheLivingAct' /\ StartsFresh' /\ Started'
      /\ \A b \in stops' : current' = "HALT" \/ Has(todo'[b], Call("enter", "HALT"))
  <2>1. Has(q, Call("enter", "HALT")) => Has(r, Call("enter", "HALT"))
    BY <1>6, <1>7, Fields
  <2>2. QED
    BY <1>1, <1>2, <1>4, <1>5, <1>8, <2>1, StopKept DEF Working
<1>10. Settled \/ t = "relayer"
  BY <1>2, <1>4, <1>7, StopGoesOn, Fields DEF Working
<1>11. Settled'
  BY <1>1, <1>3, <1>10 DEF Working, StopsInOrder, Settled
<1>12. /\ state'["relayer"] = "stopped" => state["relayer"] = "stopped"
       /\ left => left'
       /\ "relayer" \in cancelled' => "relayer" \in cancelled \/ left'
  BY <1>3, NamesDiffer DEF LockTypes
<1>13. StopsInOrder'
  BY <1>1, <1>9, <1>11, <1>12 DEF Working, StopsInOrder
<1>14. FindsAll'
  BY <1>1, <1>4, <1>5, <1>6, <1>8, TodoIs, NamesDiffer DEF Working, FindsAll, LockTypes
<1>15. \A b \in Actors : Has(todo[b], Unlock("pcapls")) => Has(todo'[b], Unlock("pcapls"))
  BY <1>4, <1>5, <1>6, <1>7, TodoIs, Fields
<1>16. Held' /\ Exclusive' /\ Returned' /\ LeakNeedsTwoStops'
  BY <1>1, <1>15, LocksKept DEF Working
<1>17. Sleepers' /\ ~ gone'
  BY <1>1 DEF Working, Sleepers, Full, Empty
<1>18. LockTypes'
  <2>1. cancelled' \subseteq Threads /\ left' \in BOOLEAN
    BY <1>3 DEF LockTypes
  <2>2. QED
    BY <1>1, <1>3, <1>9, <2>1 DEF LockTypes
<1>19. QED
  BY <1>9, <1>13, <1>14, <1>16, <1>17, <1>18 DEF Working

\* Who keeps others waiting.
LEMMA BlockerIs ==
    ASSUME NEW a, NEW l, NEW mode, ~ Holds(a, l, "w"), NEW h \in held, h[2] = l, mode = "w" \/ h[3] = "w"
    PROVE  h[1] \in Blockers(a, l, mode)
BY DEF Blockers

\* A sniffer is taken out of its table; the lock leaks at the second STOP.
LEMMA FindSnifferWorks ==
    ASSUME LockTypes, Working, NEW a \in Actors, todo[a] # << >>, FindSniffer(a)
    PROVE  LockTypes' /\ Working'
<1>1. /\ About(a, "find") /\ Blockers(a, "listeners", "w") = {}
      /\ UNCHANGED <<setup, life, state, cancelled, level, asleep, current, gone, stops, left>>
  BY DEF FindSniffer, threads, puffer
<1>2. PICK s \in Sniffers : s = On(a) /\ Head(todo[a]) = Call("find", s) /\ a \in stops /\ StopsAll(todo[a])
  BY <1>1, WhoActs DEF Working
<1>3. PICK q \in Seq(Calls) : q = todo[a] /\ q # << >>
  BY DEF LockTypes
<1>4. PICK c \in Calls : c = Call("stop", s) /\ c \in StopCalls
  BY NamesDiffer DEF Calls, StopCalls
<1>5. PICK p \in Seq(Calls) : p = <<c>> \o Tail(q)
  BY <1>3, PushIs
<1>6. Tail(q) \in Seq(Calls)
  BY <1>3, TailIs
<1>7. slots' = slots \ {s}
  BY <1>2 DEF FindSniffer
<1>8. PICK r \in Seq(Calls) :
         /\ todo' = [todo EXCEPT ![a] = r]
         /\ \/ r = p /\ s \in slots /\ held' = Without(a, "listeners")
            \/ r = Tail(q) /\ s \notin slots /\ held' = held \cup {<<a, "listeners", "w">>}
  <2>1. CASE s \in slots
    BY <1>2, <1>3, <1>4, <1>5, <2>1 DEF FindSniffer
  <2>2. CASE s \notin slots
    BY <1>2, <1>3, <1>6, <2>2 DEF FindSniffer, Done
  <2>3. QED
    BY <2>1, <2>2
<1>9. /\ \A x : Has(p, x) <=> x = c \/ Has(Tail(q), x)
      /\ \A x : Has(q, x) => Has(Tail(q), x) \/ x = Head(q)
      /\ \A x : Has(Tail(q), x) => Has(q, x)
  BY <1>3, <1>5, PushIs, TailKeeps
<1>10. /\ \A x : Has(q, x) => Has(r, x) \/ x = Head(q)
       /\ \A x : Has(r, x) => Has(Tail(q), x) \/ x = c
  BY <1>8, <1>9
<1>11. c.op = "stop" /\ Head(q).op = "find" /\ Head(q) # Call("fire", "SHUTDOWN")
  BY <1>2, <1>3, <1>4, Fields
<1>12. StopsAll(r) /\ Balanced(r) /\ (Once(q, Finds) => Once(r, Finds))
  <2>1. StopsAll(q) /\ Balanced(q)
    BY <1>2, <1>3 DEF Working, Scripted, ScriptOf
  <2>2. StopsAll(p) /\ Balanced(p)
    BY <1>3, <1>4, <1>5, <1>11, <2>1, PushIs
  <2>3. StopsAll(Tail(q)) /\ Balanced(Tail(q)) /\ (Once(q, Finds) => Once(Tail(q), Finds))
    BY <1>3, <1>11, <2>1, TailKeeps
  <2>4. c \notin Finds
    BY <1>11, Fields DEF Finds
  <2>5. Once(q, Finds) => Once(p, Finds)
    BY <1>3, <1>5, <2>4, PushIs
  <2>6. QED
    BY <1>8, <2>2, <2>3, <2>5
<1>13. /\ todo' \in [Actors -> Seq(Calls)]
       /\ Scripted' /\ OnlyTheLivingAct' /\ StartsFresh' /\ Started'
       /\ \A b \in stops' : current' = "HALT" \/ Has(todo'[b], Call("enter", "HALT"))
  <2>1. Has(q, Call("enter", "HALT")) => Has(r, Call("enter", "HALT"))
    BY <1>10, <1>11, Fields
  <2>2. QED
    BY <1>1, <1>2, <1>3, <1>8, <1>12, <2>1, StopKept DEF Working
<1>14. Settled
  BY <1>2, <1>3, <1>11, StopGoesOn, Fields DEF Working
<1>15. Settled' /\ StopsInOrder'
  BY <1>1, <1>13, <1>14 DEF Working, StopsInOrder, Settled
<1>16. \A u : Has(q, Call("find", u)) /\ stops = {a} => u \in slots \/ u \notin Sniffers
  BY <1>2, <1>3 DEF Working, FindsAll
<1>17. FindsAll'
  <2>1. Head(q) \in Finds
    BY <1>2, <1>3 DEF Finds
  <2>2. ASSUME NEW u \in Sniffers, Has(r, Call("find", u)), stops = {a} PROVE u \in slots'
    <3>1. Has(Tail(q), Call("find", u)) /\ Has(q, Call("find", u))
      BY <1>9, <1>10, <1>11, <2>2, Fields
    <3>2. Once(q, Finds)
      BY <1>2, <1>3, <2>2 DEF Working, FindsAll
    <3>3. ~ Has(Tail(q), Head(q))
      BY <1>3, <2>1, <3>2, TailKeeps
    <3>4. u # s
      BY <1>2, <1>3, <3>1, <3>3
    <3>5. QED
      BY <1>7, <1>16, <2>2, <3>1, <3>4
  <2>3. QED
    <3> SUFFICES ASSUME NEW b \in stops, stops = {b}
                 PROVE  /\ \A u \in Sniffers : Has(todo'[b], Call("find", u)) => u \in slots'
                        /\ Once(todo'[b], Finds)
      BY <1>1 DEF FindsAll
    <3>1. b = a /\ stops = {a}
      BY <1>2
    <3>2. todo'[a] = r
      BY <1>8, TodoIs
    <3>3. Once(q, Finds)
      BY <1>2, <1>3, <3>1 DEF Working, FindsAll
    <3>4. QED
      BY <1>12, <2>2, <3>1, <3>2, <3>3
<1>18. \A b \in Actors : Has(todo[b], Unlock("pcapls")) => Has(todo'[b], Unlock("pcapls"))
  BY <1>3, <1>8, <1>10, <1>11, TodoIs, Fields
<1>19. Held' /\ Exclusive' /\ Returned' /\ LeakNeedsTwoStops'
  <2>1. CASE s \in slots
    <3>1. held' \subseteq held
      BY <1>8, <2>1 DEF Without
    <3>2. QED
      BY <1>1, <1>18, <3>1, LocksKept DEF Working
  <2>2. CASE s \notin slots
    <3>1. \A h : h \in held' <=> h \in held \/ h = <<a, "listeners", "w">>
      BY <1>8, <2>2
    <3>2. Held'
      BY <1>1, <1>2, <3>1 DEF Working, Held
    <3>3. \A b : Holds(b, "pcapls", "w")' <=> Holds(b, "pcapls", "w")
      BY <3>1 DEF Holds
    <3>4. \A b : Holds(b, "pcapls", "r")' <=> Holds(b, "pcapls", "r")
      BY <3>1 DEF Holds
    <3>5. \A b \in Users : Holds(b, "listeners", "w") => b = a
      <4> SUFFICES ASSUME NEW b \in Users, Holds(b, "listeners", "w") PROVE b = a
        OBVIOUS
      <4>1. CASE Holds(a, "listeners", "w")
        BY <1>2, <4>1 DEF Working, Exclusive, LockTypes
      <4>2. CASE ~ Holds(a, "listeners", "w")
        <5>1. <<b, "listeners", "w">> \in held /\ <<b, "listeners", "w">>[1] = b /\ <<b, "listeners", "w">>[2] = "listeners"
          BY DEF Holds
        <5>2. b \in Blockers(a, "listeners", "w")
          BY <4>2, <5>1, BlockerIs
        <5>3. QED
          BY <1>1, <5>2
      <4>3. QED
        BY <4>1, <4>2
    <3>6. \A b : Holds(b, "listeners", "w")' => Holds(b, "listeners", "w") \/ b = a
      BY <3>1 DEF Holds
    <3>7. Exclusive'
      BY <3>3, <3>4, <3>5, <3>6 DEF Working, Exclusive
    <3>8. Returned'
      BY <1>1, <1>18, <3>3, <3>4, NamesDiffer DEF Working, Returned
    <3>9. \E b \in stops : b # a
      <4>1. stops # {a}
        <5>1. Has(q, Call("find", s))
          <6>1. 1 \in DOMAIN q /\ q[1] = Head(q)
            BY <1>3, TailIs
          <6>2. QED
            BY <1>2, <1>3, <6>1 DEF Has
        <5>2. QED
          BY <1>16, <2>2, <5>1
      <4>2. QED
        BY <1>2, <4>1
    <3>10. LeakNeedsTwoStops'
      BY <1>1, <1>2, <3>9 DEF LeakNeedsTwoStops
    <3>11. QED
      BY <3>2, <3>7, <3>8, <3>10
  <2>3. QED
    BY <2>1, <2>2
<1>20. Sleepers' /\ ~ gone'
  BY <1>1 DEF Working, Sleepers, Full, Empty
<1>21. LockTypes'
  BY <1>1, <1>7, <1>13 DEF LockTypes
<1>22. QED
  BY <1>13, <1>15, <1>17, <1>19, <1>20, <1>21 DEF Working

\* start_thread starts a thread that never ran before.
LEMMA StartThreadWorks ==
    ASSUME LockTypes, Working, NEW a \in Actors, todo[a] # << >>, StartThread(a)
    PROVE  LockTypes' /\ Working'
<1>1. /\ About(a, "start")
      /\ UNCHANGED <<setup, held, cancelled, level, asleep, slots, current, gone, stops, left>>
  BY DEF StartThread, puffer, machine
<1>2. PICK t \in Threads : /\ t = On(a) /\ Head(todo[a]) = Call("start", t) /\ a = "main" /\ a \notin stops
                           /\ StartsUp(todo[a]) /\ Tail(todo[a]) # << >>
  BY <1>1, WhoActs DEF Working
<1>3. PICK q \in Seq(Calls) : q = todo["main"] /\ q # << >>
  BY <1>2, NamesDiffer DEF LockTypes
<1>4. PICK r \in Seq(Calls) : r = Tail(q)
  BY <1>3, TailIs
<1>5. PICK p \in Seq(Calls) : p = IF t \in Sniffers THEN SnifferInit ELSE << >>
  BY NothingLeft, RoundsAre DEF LockTypes
<1>6. /\ life' = [life EXCEPT ![t] = "init"] /\ state' = [state EXCEPT ![t] = "started"]
      /\ todo' = [todo EXCEPT !["main"] = r, ![t] = p]
  BY <1>2, <1>3, <1>4, <1>5 DEF StartThread
<1>7. /\ todo' \in [Actors -> Seq(Calls)] /\ todo'["main"] = r /\ todo'[t] = p
      /\ \A b \in Actors : b # "main" /\ b # t => todo'[b] = todo[b]
  BY <1>6, NamesDiffer DEF LockTypes
<1>8. /\ life' \in [Threads -> {"none", "init", "loop", "dead", "ended"}] /\ life'[t] = "init"
      /\ \A u \in Threads : u # t => life'[u] = life[u]
      /\ state' \in [Threads -> {"ready", "started", "run", "stop", "stopped"}] /\ state'[t] = "started"
      /\ \A u \in Threads : u # t => state'[u] = state[u]
  BY <1>6 DEF LockTypes
<1>9. Starting
  BY <1>2, StartingIs DEF Working
<1>10. StartsUp(r)
  BY <1>2, <1>3, <1>4, TailKeeps
<1>11. /\ \A x : Has(r, x) => Has(q, x)
       /\ \A x : Has(q, x) => Has(r, x) \/ x = Head(q)
       /\ ~ Has(r, Head(q))
  <2>1. Head(q) \in Starts /\ Once(q, Starts)
    BY <1>2, <1>3 DEF Starts, StartsUp
  <2>2. QED
    BY <1>3, <1>4, <2>1, TailKeeps
<1>12. Has(q, Call("start", t))
  BY <1>2, <1>3, TailIs DEF Has
<1>13. /\ stops = {} /\ current = "HALT" /\ cancelled = {} /\ ~ left
       /\ \A u \in Threads : life[u] # "dead"
       /\ \A u \in Threads : Has(q, Call("start", u)) => life[u] = "none"
       /\ \A u \in {"relayer", "filewriter"} : life[u] = "none" => Has(q, Call("start", u))
       /\ \A s \in Range(setup.listeners) : s \in slots \/ Has(q, Call("place", s))
  BY <1>3, <1>9 DEF Working, StartsFresh
<1>14. life[t] = "none" /\ todo[t] = << >>
  BY <1>12, <1>13 DEF Working, OnlyTheLivingAct
<1>15. Scripted'
  <2>1. ScriptOf("main", r)
    BY <1>2, <1>3, <1>4, <1>13, TailScript, NamesDiffer DEF Working
  <2>2. ScriptOf(t, p)
    <3>1. CASE t \in Sniffers
      <4>1. MadeOf(p, OpenCalls) /\ KillsLast(p) /\ Balanced(p)
        BY <1>5, <3>1, RoundsAre DEF LockTypes
      <4>2. MadeOf(p, OpenCalls \cup KillCalls)
        BY <4>1 DEF MadeOf
      <4>3. QED
        BY <1>13, <3>1, <4>1, <4>2, NamesDiffer DEF ScriptOf
    <3>2. CASE t \notin Sniffers
      BY <1>5, <1>13, <3>2, NothingLeft, NamesDiffer DEF ScriptOf, Users
    <3>3. QED
      BY <3>1, <3>2
  <2>3. \A b, x : ScriptOf(b, x)' <=> ScriptOf(b, x')
    BY <1>1 DEF ScriptOf
  <2>4. QED
    BY <1>7, <2>1, <2>2, <2>3 DEF Working, Scripted
<1>16. OnlyTheLivingAct'
  BY <1>7, <1>8, NamesDiffer DEF Working, OnlyTheLivingAct
<1>17. Starting'
  BY <1>7, <1>10 DEF Starting, Has, StartsUp
<1>18. StartsFresh'
  <2>1. \A u \in Threads : Has(r, Call("start", u)) => life'[u] = "none"
    BY <1>2, <1>3, <1>8, <1>11, <1>13
  <2>2. \A u \in {"relayer", "filewriter"} : life'[u] = "none" => Has(r, Call("start", u))
    BY <1>2, <1>3, <1>8, <1>11, <1>13, NamesDiffer, Fields
  <2>3. \A s \in Range(setup.listeners) : s \in slots \/ Has(r, Call("place", s))
    BY <1>2, <1>3, <1>11, <1>13, Fields
  <2>4. \A u \in Threads : life'[u] # "dead"
    BY <1>8, <1>13
  <2>5. QED
    BY <1>1, <1>7, <1>13, <2>1, <2>2, <2>3, <2>4 DEF StartsFresh
<1>19. Started'
  BY <1>17 DEF Started
<1>20. StopsInOrder'
  <2>1. ~ Settled => ~ Settled'
    BY <1>1, <1>8, <1>13, NamesDiffer DEF Settled
  <2>2. Settled => Settled'
    BY <1>1, <1>8, <1>13, <1>14, NamesDiffer DEF Settled
  <2>3. state'["relayer"] = "stopped" => life'["relayer"] = "ended"
    BY <1>8, NamesDiffer DEF Working, StopsInOrder
  <2>4. \/ Settled'
        \/ life'["filewriter"] \in {"none", "init"}
        \/ life'["filewriter"] = "loop" /\ state'["filewriter"] = "run"
    BY <1>8, <2>2, NamesDiffer DEF Working, StopsInOrder
  <2>5. \A u \in Threads : life'[u] # "dead"
    BY <1>8, <1>13
  <2>6. QED
    BY <1>1, <1>13, <2>3, <2>4, <2>5, NamesDiffer DEF StopsInOrder
<1>21. FindsAll'
  BY <1>1, <1>13 DEF FindsAll
<1>22. \A b \in Actors : Has(todo[b], Unlock("pcapls")) => Has(todo'[b], Unlock("pcapls"))
  <2>1. Has(q, Unlock("pcapls")) => Has(r, Unlock("pcapls"))
    BY <1>2, <1>3, <1>11, Fields
  <2>2. ~ Has(todo[t], Unlock("pcapls"))
    BY <1>14, NothingLeft
  <2>3. QED
    BY <1>3, <1>7, <2>1, <2>2
<1>23. Held' /\ Exclusive' /\ Returned' /\ LeakNeedsTwoStops'
  BY <1>1, <1>13, <1>22, LocksKept DEF Working
<1>24. Sleepers' /\ ~ gone'
  BY <1>1 DEF Working, Sleepers, Full, Empty
<1>25. LockTypes'
  BY <1>1, <1>7, <1>8 DEF LockTypes
<1>26. QED
  BY <1>15, <1>16, <1>18, <1>19, <1>20, <1>21, <1>23, <1>24, <1>25 DEF Working

\* A sniffer gets its slot.
LEMMA PlaceWorks ==
    ASSUME LockTypes, Working, NEW a \in Actors, todo[a] # << >>, Place(a)
    PROVE  LockTypes' /\ Working'
<1>1. /\ About(a, "place") /\ Done(a) /\ slots' = slots \cup {On(a)}
      /\ UNCHANGED <<setup, held, life, state, cancelled, level, asleep, current, gone, stops, left>>
  BY DEF Place, threads, puffer
<1>2. PICK s \in Sniffers : /\ s = On(a) /\ Head(todo[a]) = Call("place", s) /\ a = "main" /\ a \notin stops
                            /\ StartsUp(todo[a]) /\ Tail(todo[a]) # << >>
  BY <1>1, WhoActs DEF Working
<1>3. PICK q \in Seq(Calls) : q = todo["main"] /\ q # << >>
  BY <1>2, NamesDiffer DEF LockTypes
<1>4. PICK r \in Seq(Calls) : r = Tail(q) /\ todo' = [todo EXCEPT !["main"] = r]
  BY <1>1, <1>2, <1>3, TailIs DEF Done
<1>5. /\ todo' \in [Actors -> Seq(Calls)] /\ todo'["main"] = r
      /\ \A b \in Actors : b # "main" => todo'[b] = todo[b]
  BY <1>4, TodoIs, NamesDiffer
<1>6. Starting
  BY <1>2, StartingIs DEF Working
<1>7. StartsUp(r)
  BY <1>2, <1>3, <1>4, TailKeeps
<1>8. /\ \A x : Has(r, x) => Has(q, x)
      /\ \A x : Has(q, x) => Has(r, x) \/ x = Head(q)
  BY <1>3, <1>4, TailKeeps
<1>9. /\ stops = {} /\ current = "HALT" /\ cancelled = {} /\ ~ left
      /\ \A u \in Threads : life[u] # "dead"
      /\ \A u \in Threads : Has(q, Call("start", u)) => life[u] = "none"
      /\ \A u \in {"relayer", "filewriter"} : life[u] = "none" => Has(q, Call("start", u))
      /\ \A u \in Range(setup.listeners) : u \in slots \/ Has(q, Call("place", u))
  BY <1>3, <1>6 DEF Working, StartsFresh
<1>10. Head(q).op = "place" /\ Head(q).on = s
  BY <1>2, <1>3, Fields
<1>11. Scripted'
  <2>1. ScriptOf("main", r)
    BY <1>2, <1>3, <1>4, <1>9, TailScript, NamesDiffer DEF Working
  <2>2. QED
    BY <1>1, <1>4, <2>1, ScriptedKept, NamesDiffer DEF Working
<1>12. OnlyTheLivingAct'
  BY <1>1, <1>5, NamesDiffer DEF Working, OnlyTheLivingAct
<1>13. Starting'
  BY <1>5, <1>7 DEF Starting, Has, StartsUp
<1>14. StartsFresh'
  <2>1. \A u \in Threads : Has(r, Call("start", u)) => life'[u] = "none"
    BY <1>1, <1>8, <1>9
  <2>2. \A u \in {"relayer", "filewriter"} : life'[u] = "none" => Has(r, Call("start", u))
    BY <1>1, <1>8, <1>9, <1>10, Fields
  <2>3. \A u \in Range(setup.listeners) : u \in slots' \/ Has(r, Call("place", u))
    <3>1. \A u : Call("place", u) = Head(q) => u = s
      BY <1>10, Fields
    <3>2. QED
      BY <1>1, <1>2, <1>8, <1>9, <3>1
  <2>4. QED
    BY <1>1, <1>5, <1>9, <2>1, <2>2, <2>3 DEF StartsFresh
<1>15. Started'
  BY <1>13 DEF Started
<1>16. StopsInOrder'
  BY <1>1, <1>9 DEF Working, StopsInOrder, Settled
<1>17. FindsAll'
  BY <1>1, <1>9 DEF FindsAll
<1>18. \A b \in Actors : Has(todo[b], Unlock("pcapls")) => Has(todo'[b], Unlock("pcapls"))
  BY <1>3, <1>5, <1>8, <1>10, Fields
<1>19. Held' /\ Exclusive' /\ Returned' /\ LeakNeedsTwoStops'
  BY <1>1, <1>18, LocksKept DEF Working
<1>20. Sleepers' /\ ~ gone'
  BY <1>1 DEF Working, Sleepers, Full, Empty
<1>21. LockTypes'
  BY <1>1, <1>2, <1>5 DEF LockTypes
<1>22. QED
  BY <1>11, <1>12, <1>14, <1>15, <1>16, <1>17, <1>19, <1>20, <1>21 DEF Working

\* START and STOP are over when the state is entered.
LEMMA EnterWorks ==
    ASSUME LockTypes, Working, NEW a \in Actors, todo[a] # << >>, Enter(a)
    PROVE  LockTypes' /\ Working'
<1>1. /\ About(a, "enter") /\ Done(a) /\ current' = On(a)
      /\ UNCHANGED <<setup, held, life, state, cancelled, level, asleep, slots, gone, stops, left>>
  BY DEF Enter, threads, puffer
<1>2. PICK q \in Seq(Calls) : q = todo[a] /\ q # << >>
  BY DEF LockTypes
<1>3. PICK r \in Seq(Calls) : r = Tail(q) /\ todo' = [todo EXCEPT ![a] = r]
  BY <1>1, <1>2, TailIs DEF Done
<1>4. \/ a = "main" /\ a \notin stops /\ Head(q) = Call("enter", "RUN") /\ r = << >> /\ current' = "RUN"
      \/ a \in stops /\ StopsAll(q) /\ Head(q) = Call("enter", "HALT") /\ current' = "HALT"
  BY <1>1, <1>2, <1>3, WhoActs, Fields DEF Working, On
<1>5. Head(q).op = "enter" /\ ~ (a \in stops /\ Head(q) = Call("fire", "SHUTDOWN"))
  BY <1>4, Fields
<1>6. /\ \A x : Has(r, x) => Has(q, x)
      /\ \A x : Has(q, x) => Has(r, x) \/ x = Head(q)
      /\ Once(q, Finds) => Once(r, Finds)
  BY <1>2, <1>3, TailKeeps
<1>7. Scripted' /\ OnlyTheLivingAct' /\ StartsFresh' /\ Started' /\ StopsInOrder' /\ FindsAll'
  <2>1. CASE a = "main" /\ a \notin stops /\ Head(q) = Call("enter", "RUN") /\ r = << >> /\ current' = "RUN"
    <3>1. Starting /\ ~ Starting'
      <4>1. Has(q, Call("enter", "RUN"))
        BY <1>2, <2>1, TailIs DEF Has
      <4>2. ~ Has(r, Call("enter", "RUN"))
        BY <2>1, NothingLeft
      <4>3. QED
        BY <1>2, <1>3, <2>1, <4>1, <4>2, TodoIs, NamesDiffer DEF Starting
    <3>2. \A x : Has(q, x) => x = Call("enter", "RUN")
      BY <1>6, <2>1, NothingLeft
    <3>3. /\ stops = {} /\ cancelled = {}
          /\ \A u \in Threads : life[u] # "dead"
          /\ \A u \in {"relayer", "filewriter"} : life[u] # "none"
          /\ \A s \in Range(setup.listeners) : s \in slots
      BY <1>2, <2>1, <3>1, <3>2, Fields DEF Working, StartsFresh
    <3>4. Scripted'
      BY <1>1, <1>2, <1>3, <1>5, TailScript, ScriptedKept DEF Working
    <3>5. OnlyTheLivingAct'
      BY <1>1, <1>3, <2>1, TodoIs, NamesDiffer DEF Working, OnlyTheLivingAct
    <3>6. StartsFresh' /\ FindsAll'
      BY <1>1, <3>1, <3>3 DEF StartsFresh, FindsAll
    <3>7. Started'
      BY <1>1, <2>1, <3>3 DEF Started
    <3>8. StopsInOrder'
      BY <1>1, <3>3 DEF Working, StopsInOrder, Settled
    <3>9. QED
      BY <3>4, <3>5, <3>6, <3>7, <3>8
  <2>2. CASE a \in stops /\ StopsAll(q) /\ Head(q) = Call("enter", "HALT") /\ current' = "HALT"
    <3>1. StopsAll(r) /\ Balanced(r)
      <4>1. Balanced(q)
        BY <1>2 DEF Working, Scripted, ScriptOf
      <4>2. QED
        BY <1>2, <1>3, <1>5, <2>2, <4>1, TailKeeps
    <3>2. Scripted' /\ OnlyTheLivingAct' /\ StartsFresh' /\ Started'
      <4>1. /\ Scripted /\ OnlyTheLivingAct /\ StartsFresh /\ Started /\ StopsInOrder
            /\ UNCHANGED <<setup, life, stops>> /\ current' = "HALT" /\ todo[a] # << >> /\ a \in stops
        BY <1>1, <2>2 DEF Working
      <4>2. QED
        BY <1>3, <3>1, <4>1, StopKept
    <3>3. Settled
      BY <1>2, <1>5, <2>2, StopGoesOn, Fields DEF Working
    <3>4. StopsInOrder'
      BY <1>1, <2>2, <3>3 DEF Working, StopsInOrder, Settled
    <3>5. FindsAll'
      <4> SUFFICES ASSUME NEW b \in stops, stops = {b}
                   PROVE  /\ \A u \in Sniffers : Has(todo'[b], Call("find", u)) => u \in slots
                          /\ Once(todo'[b], Finds)
        BY <1>1 DEF FindsAll
      <4>1. b = a /\ todo'[a] = r
        BY <1>3, <2>2, TodoIs
      <4>2. Once(q, Finds) /\ \A u \in Sniffers : Has(q, Call("find", u)) => u \in slots
        BY <1>2, <2>2, <4>1 DEF Working, FindsAll
      <4>3. QED
        BY <1>6, <4>1, <4>2
    <3>6. QED
      BY <3>2, <3>4, <3>5
  <2>3. QED
    BY <1>4, <2>1, <2>2
<1>8. \A b \in Actors : Has(todo[b], Unlock("pcapls")) => Has(todo'[b], Unlock("pcapls"))
  BY <1>2, <1>3, <1>5, <1>6, TodoIs, Fields
<1>9. Held' /\ Exclusive' /\ Returned' /\ LeakNeedsTwoStops'
  BY <1>1, <1>8, LocksKept DEF Working
<1>10. Sleepers' /\ ~ gone'
  BY <1>1 DEF Working, Sleepers, Full, Empty
<1>11. LockTypes'
  BY <1>1, <1>3, <1>4, TodoIs DEF LockTypes
<1>12. QED
  BY <1>7, <1>9, <1>10, <1>11 DEF Working

\* A sniffer that cannot open its device calls fsm_kill, with the table locked.
LEMMA FailToOpenWorks ==
    ASSUME LockTypes, Working, NEW a \in Actors, todo[a] # << >>, FailToOpen(a)
    PROVE  LockTypes' /\ Working'
<1>1. /\ About(a, "open") /\ todo' = [todo EXCEPT ![a] = Kill \o Tail(@)]
      /\ UNCHANGED <<setup, held, life, state, cancelled, level, asleep, slots, current, gone, stops, left>>
  BY DEF FailToOpen, threads, puffer, machine
<1>2. PICK q \in Seq(Calls) : q = todo[a] /\ q # << >>
  BY DEF LockTypes
<1>3. a \in Sniffers \ stops /\ Head(q) = Call("open", "device")
  BY <1>1, <1>2, WhoActs DEF Working
<1>4. PICK p \in Seq(Calls) : p = Tail(q)
  BY <1>2, TailIs
<1>5. \A i \in DOMAIN p : p[i] = Unlock("pcapls")
  <2>1. KillsLast(q)
    BY <1>2, <1>3, NamesDiffer DEF Working, Scripted, ScriptOf
  <2>2. 1 \in DOMAIN q /\ q[1] = Head(q)
    BY <1>2, TailIs
  <2>3. \A k \in DOMAIN q : 1 < k => q[k] = Unlock("pcapls")
    BY <1>3, <2>1, <2>2 DEF KillsLast
  <2>4. \A i \in DOMAIN p : p[i] = q[i + 1] /\ i + 1 \in DOMAIN q /\ i \in Nat \ {0}
    BY <1>2, <1>4, TailIs
  <2>5. \A i \in DOMAIN p : 1 < i + 1
    BY <2>4
  <2>6. QED
    BY <2>3, <2>4, <2>5
<1>6. PICK r \in Seq(Calls) : r = Kill \o p
  BY <1>5, KillIs
<1>7. /\ MadeOf(r, KillCalls \cup {Unlock("pcapls")}) /\ Balanced(r) /\ KillsLast(r)
      /\ \A c : Has(p, c) => Has(r, c)
  BY <1>5, <1>6, KillIs
<1>8. todo' = [todo EXCEPT ![a] = r]
  BY <1>1, <1>2, <1>4, <1>6
<1>9. ScriptOf(a, r)
  <2>1. MadeOf(r, OpenCalls \cup KillCalls)
    BY <1>7 DEF MadeOf, OpenCalls
  <2>2. QED
    BY <1>3, <1>7, <2>1, NamesDiffer DEF ScriptOf
<1>10. Scripted'
  BY <1>1, <1>8, <1>9, ScriptedKept DEF Working
<1>11. \A x : Has(r, x) => x \in KillCalls \cup {Unlock("pcapls")}
  BY <1>7 DEF MadeOf, Has
<1>12. \A x : Has(q, x) => Has(p, x) \/ x = Call("open", "device")
  BY <1>2, <1>3, <1>4, TailKeeps
<1>13. \A x : Has(p, x) => x = Unlock("pcapls")
  BY <1>5 DEF Has
<1>14. \A x \in {"start", "place", "enter", "find"} : \A y : ~ Has(r, Call(x, y)) /\ ~ Has(q, Call(x, y))
  BY <1>11, <1>12, <1>13, Fields DEF KillCalls
<1>15. StartsFresh' /\ Started' /\ StopsInOrder' /\ FindsAll'
  BY <1>1, <1>2, <1>3, <1>8, <1>14, OrderKept DEF Working
<1>16. OnlyTheLivingAct'
  BY <1>1, <1>2, <1>8, TodoIs, NamesDiffer DEF Working, OnlyTheLivingAct
<1>17. \A b \in Actors : Has(todo[b], Unlock("pcapls")) => Has(todo'[b], Unlock("pcapls"))
  BY <1>2, <1>7, <1>8, <1>12, TodoIs, Fields
<1>18. Held' /\ Exclusive' /\ Returned' /\ LeakNeedsTwoStops'
  BY <1>1, <1>17, LocksKept DEF Working
<1>19. Sleepers' /\ ~ gone'
  BY <1>1 DEF Working, Sleepers, Full, Empty
<1>20. LockTypes'
  BY <1>1, <1>8, TodoIs DEF LockTypes
<1>21. QED
  BY <1>10, <1>15, <1>16, <1>18, <1>19, <1>20 DEF Working

\* main calls fsm_kill.
LEMMA CallKillWorks ==
    ASSUME LockTypes, Working, CallKill
    PROVE  LockTypes' /\ Working'
<1>1. /\ todo["main"] = << >> /\ todo' = [todo EXCEPT !["main"] = Kill]
      /\ UNCHANGED <<setup, held, life, state, cancelled, level, asleep, slots, current, gone, stops, left>>
  BY DEF CallKill, threads, puffer, machine
<1>2. PICK r \in Seq(Calls) : /\ r = Kill /\ MadeOf(r, KillCalls) /\ Balanced(r) /\ KillsLast(r)
  <2>1. << >> \in Seq(Calls) /\ \A i \in DOMAIN << >> : << >>[i] = Unlock("pcapls")
    BY NothingLeft
  <2>2. PICK z \in Seq(Calls) : z = << >>
    BY <2>1
  <2>3. Kill \o z \in Seq(Calls) /\ MadeOf(Kill \o z, KillCalls) /\ Balanced(Kill \o z) /\ KillsLast(Kill \o z)
    BY <2>1, <2>2, KillIs
  <2>4. Kill \o z = Kill
    <3>1. Kill \in Seq(Calls)
      BY DEF Kill, KillCalls, Calls
    <3>2. QED
      BY <2>2, <3>1, ConcatEmptySeq
  <2>5. QED
    BY <2>3, <2>4
<1>3. "main" \in Actors /\ todo' = [todo EXCEPT !["main"] = r]
  BY <1>1, <1>2, NamesDiffer
<1>4. "main" \notin stops
  <2>1. "main" \in stops => StopsAll(todo["main"])
    BY <1>3 DEF Working, Scripted, ScriptOf
  <2>2. QED
    BY <1>1, <2>1, NothingLeft, StopsOnly
<1>5. ScriptOf("main", r)
  BY <1>2, <1>4, NamesDiffer DEF ScriptOf
<1>6. Scripted'
  BY <1>1, <1>3, <1>5, ScriptedKept DEF Working
<1>7. \A x \in {"start", "place", "enter", "find"} : \A y : ~ Has(r, Call(x, y)) /\ ~ Has(todo["main"], Call(x, y))
  <2>1. \A x : Has(r, x) => x \in KillCalls
    BY <1>2 DEF MadeOf, Has
  <2>2. QED
    BY <1>1, <2>1, NothingLeft, Fields DEF KillCalls
<1>8. StartsFresh' /\ Started' /\ StopsInOrder' /\ FindsAll'
  BY <1>1, <1>3, <1>4, <1>7, OrderKept DEF Working
<1>9. OnlyTheLivingAct'
  BY <1>1, <1>3, TodoIs, NamesDiffer DEF Working, OnlyTheLivingAct
<1>10. \A b \in Actors : Has(todo[b], Unlock("pcapls")) => Has(todo'[b], Unlock("pcapls"))
  BY <1>1, <1>3, TodoIs, NothingLeft
<1>11. Held' /\ Exclusive' /\ Returned' /\ LeakNeedsTwoStops'
  BY <1>1, <1>10, LocksKept DEF Working
<1>12. Sleepers' /\ ~ gone'
  BY <1>1 DEF Working, Sleepers, Full, Empty
<1>13. LockTypes'
  BY <1>1, <1>3, TodoIs DEF LockTypes
<1>14. QED
  BY <1>6, <1>8, <1>9, <1>11, <1>12, <1>13 DEF Working

\* A STOP begins, or SHUTDOWN ends it all.
LEMMA FireWorks ==
    ASSUME LockTypes, Working, NEW a \in Actors, todo[a] # << >>, Fire(a)
    PROVE  LockTypes' /\ (Working' \/ Over')
<1>1. About(a, "fire") /\ UNCHANGED <<setup, life, state, cancelled, level, slots, current, left>>
  BY DEF Fire, threads
<1>2. PICK q \in Seq(Calls) : q = todo[a] /\ q # << >>
  BY DEF LockTypes
<1>3. /\ ScriptOf(a, q) /\ Head(q) = Call("fire", On(a))
      /\ a \in Users /\ (a \in stops => Head(q) = Call("fire", "SHUTDOWN"))
  <2>1. Head(q) \in KillCalls /\ a \in Users /\ (a \in stops => Head(q) = Call("fire", "SHUTDOWN"))
    BY <1>1, <1>2, WhoActs, NamesDiffer DEF Working, KillCalls, LockTypes
  <2>2. QED
    BY <1>2, <2>1, Fields DEF Working, Scripted, KillCalls, On
<1>4. CASE On(a) = "STOP" /\ current = "RUN"
  <2>1. /\ a \notin stops /\ Head(q) = Call("fire", "STOP") /\ KillsLast(q) /\ Balanced(q)
    BY <1>3, <1>4, Fields DEF ScriptOf
  <2>2. PICK r \in Seq(Calls) : r = StopScript \o Tail(q)
    BY <1>2, <2>1, StopJoins DEF LockTypes
  <2>3. /\ StopsAll(r) /\ RelayerFirst(r) /\ Balanced(r) /\ Has(r, Call("enter", "HALT")) /\ Once(r, Finds)
        /\ \A s : Has(r, Call("find", s)) => s \in Range(setup.listeners)
        /\ Has(q, Unlock("pcapls")) => Has(r, Unlock("pcapls"))
    BY <1>2, <2>1, <2>2, StopJoins DEF LockTypes
  <2>4. /\ todo' = [todo EXCEPT ![a] = r] /\ stops' = stops \cup {a}
        /\ UNCHANGED <<gone, held, asleep>>
    BY <1>2, <1>4, <2>2 DEF Fire
  <2>5. /\ todo' \in [Actors -> Seq(Calls)] /\ todo'[a] = r
        /\ \A b \in Actors : b # a => todo'[b] = todo[b]
    BY <2>4, TodoIs
  <2>6. Scripted'
    <3>1. \A x : \A b \in Actors : b # a => (ScriptOf(b, x)' <=> ScriptOf(b, x))
      BY <2>4 DEF ScriptOf
    <3>2. ScriptOf(a, r)'
      <4>1. a \in stops' /\ a \notin {"relayer", "filewriter", "interpreter"}
        BY <1>3, <2>4, NamesDiffer
      <4>2. QED
        BY <2>3, <4>1 DEF ScriptOf
    <3>3. QED
      BY <2>5, <3>1, <3>2 DEF Working, Scripted
  <2>7. OnlyTheLivingAct'
    BY <1>1, <1>2, <2>5, NamesDiffer DEF Working, OnlyTheLivingAct
  <2>8. ~ Starting /\ ~ Starting'
    <3>1. ~ Starting
      BY <1>4 DEF Working, StartsFresh
    <3>2. ~ Has(r, Call("enter", "RUN"))
      BY <2>3, StopsOnly
    <3>3. QED
      BY <2>5, <3>1, <3>2, NamesDiffer DEF Starting
  <2>9. StartsFresh'
    BY <2>8 DEF StartsFresh
  <2>10. Started'
    BY <1>1, <2>4, <2>8 DEF Working, Started
  <2>11. StopsInOrder'
    <3>1. Settled' <=> Settled
      BY <1>1 DEF Settled
    <3>2. \A b \in stops' : current' = "HALT" \/ Has(todo'[b], Call("enter", "HALT"))
      BY <1>1, <2>3, <2>4, <2>5, NamesDiffer DEF Working, StopsInOrder, LockTypes
    <3>3. \A b \in stops' : Settled' \/ RelayerFirst(todo'[b])
      BY <2>3, <2>4, <2>5, <3>1, NamesDiffer DEF Working, StopsInOrder, LockTypes
    <3>4. QED
      BY <1>1, <3>1, <3>2, <3>3 DEF Working, StopsInOrder
  <2>12. FindsAll'
    <3> SUFFICES ASSUME NEW b \in stops', stops' = {b}
                 PROVE  /\ \A s \in Sniffers : Has(todo'[b], Call("find", s)) => s \in slots
                        /\ Once(todo'[b], Finds)
      BY <1>1 DEF FindsAll
    <3>1. b = a /\ stops = {}
      BY <2>1, <2>4
    <3>2. Range(setup.listeners) \subseteq slots
      BY <2>8, <3>1 DEF Working, Started
    <3>3. QED
      BY <2>3, <2>5, <3>1, <3>2
  <2>13. \A b \in Actors : Has(todo[b], Unlock("pcapls")) => Has(todo'[b], Unlock("pcapls"))
    BY <1>2, <2>3, <2>5
  <2>14. Held' /\ Exclusive' /\ Returned' /\ LeakNeedsTwoStops'
    BY <1>1, <2>4, <2>13, LocksKept DEF Working
  <2>15. Sleepers' /\ ~ gone'
    BY <1>1, <2>4 DEF Working, Sleepers, Full, Empty
  <2>16. LockTypes'
    BY <1>1, <1>3, <2>4, <2>5 DEF LockTypes
  <2>17. QED
    BY <2>6, <2>7, <2>9, <2>10, <2>11, <2>12, <2>14, <2>15, <2>16 DEF Working
<1>5. CASE On(a) = "SHUTDOWN" /\ current = "HALT"
  <2>1. gone' = TRUE /\ todo' = [b \in Actors |-> << >>] /\ held' = {} /\ asleep' = {} /\ stops' = stops
    BY <1>5 DEF Fire
  <2>2. Over'
    BY <2>1 DEF Over
  <2>3. LockTypes'
    BY <1>1, <2>1, NothingLeft DEF LockTypes
  <2>4. QED
    BY <2>2, <2>3
<1>6. CASE ~ (On(a) = "STOP" /\ current = "RUN") /\ ~ (On(a) = "SHUTDOWN" /\ current = "HALT")
  <2>1. Done(a) /\ UNCHANGED <<gone, held, asleep, stops>>
    BY <1>6 DEF Fire
  <2>2. ~ (a \in stops /\ Head(q) = Call("fire", "SHUTDOWN"))
    <3> SUFFICES ASSUME a \in stops, Head(q) = Call("fire", "SHUTDOWN") PROVE FALSE
      OBVIOUS
    <3>1. \A i \in DOMAIN Tail(q) : Tail(q)[i] = Unlock("pcapls")
      <4>1. Head(q) \notin StopCalls
        BY Fields DEF StopCalls
      <4>2. QED
        BY <1>2, <1>3, <4>1, Heads, NamesDiffer DEF Working, LockTypes
    <3>2. \A x : Has(q, x) => x = Head(q) \/ x = Unlock("pcapls")
      <4>1. \A x : Has(Tail(q), x) => x = Unlock("pcapls")
        BY <3>1 DEF Has
      <4>2. QED
        BY <1>2, <4>1, TailKeeps
    <3>3. current = "HALT"
      BY <1>2, <3>2, Fields DEF Working, StopsInOrder
    <3>4. On(a) = "SHUTDOWN"
      BY <1>3, Fields
    <3>5. QED
      BY <1>6, <3>3, <3>4
  <2>3. Sleepers' /\ level' \in 0 .. PufferSize
    BY <1>1, <2>1 DEF Working, Sleepers, Full, Empty, LockTypes
  <2>4. Head(q).op = "fire"
    BY <1>3, Fields
  <2>5. QED
    BY <1>1, <1>2, <2>1, <2>2, <2>3, <2>4, PlainWorks
<1>7. QED
  BY <1>4, <1>5, <1>6

\* A step of a thread that carries out no STOP.
LEMMA ThreadKept ==
    ASSUME LockTypes, Working, NEW t \in Threads \ stops, NEW r \in Seq(Calls), todo' = [todo EXCEPT ![t] = r],
           UNCHANGED <<setup, slots, current, stops, left>>, ScriptOf(t, r)
    PROVE  /\ todo' \in [Actors -> Seq(Calls)] /\ todo'[t] = r
           /\ \A b \in Actors : b # t => todo'[b] = todo[b]
           /\ todo'["main"] = todo["main"] /\ (Starting' <=> Starting)
           /\ Scripted' /\ FindsAll'
           /\ \A b \in stops' : current' = "HALT" \/ Has(todo'[b], Call("enter", "HALT"))
           /\ \A b \in stops' : Settled \/ RelayerFirst(todo'[b])
<1>1. t \in Actors
  BY NamesDiffer
<1>2. /\ todo' \in [Actors -> Seq(Calls)] /\ todo'[t] = r
      /\ \A b \in Actors : b # t => todo'[b] = todo[b]
  BY <1>1, TodoIs
<1>3. todo'["main"] = todo["main"] /\ \A b \in stops : todo'[b] = todo[b]
  BY <1>2, NamesDiffer DEF LockTypes
<1>4. Starting' <=> Starting
  BY <1>3 DEF Starting
<1>5. Scripted'
  BY <1>1, ScriptedKept DEF Working
<1>6. FindsAll'
  BY <1>3 DEF Working, FindsAll
<1>7. /\ \A b \in stops' : current' = "HALT" \/ Has(todo'[b], Call("enter", "HALT"))
      /\ \A b \in stops' : Settled \/ RelayerFirst(todo'[b])
  BY <1>3 DEF Working, StopsInOrder
<1>8. QED
  BY <1>2, <1>3, <1>4, <1>5, <1>6, <1>7

\* Who carries out a STOP has something to do.
LEMMA IdleStopsNot ==
    ASSUME LockTypes, Working, NEW t \in Actors, todo[t] = << >>
    PROVE  t \notin stops
<1>1. t \in stops => StopsAll(todo[t])
  BY DEF Working, Scripted, ScriptOf
<1>2. QED
  BY <1>1, NothingLeft, StopsOnly

\* A thread begins its round.
LEMMA NextRoundWorks ==
    ASSUME LockTypes, Working, NEW t \in Threads, NextRound(t)
    PROVE  LockTypes' /\ Working'
<1>1. /\ todo[t] = << >> /\ life[t] \in {"init", "loop"}
      /\ \/ life[t] = "init" /\ state' = [state EXCEPT ![t] = "run"]
         \/ life[t] = "loop" /\ state' = state
      /\ life' = [life EXCEPT ![t] = "loop"] /\ todo' = [todo EXCEPT ![t] = Round(t)]
      /\ UNCHANGED <<setup, held, cancelled, level, asleep, slots, current, gone, stops, left>>
  BY DEF NextRound, puffer, machine
<1>2. t \in Threads \ stops
  BY <1>1, IdleStopsNot, NamesDiffer
<1>3. PICK r \in Seq(Calls) : r = Round(t) /\ ScriptOf(t, r)
  <2>1. CASE t = "relayer"
    BY <2>1, <1>2, RoundsAre, NamesDiffer DEF Round, ScriptOf, LockTypes
  <2>2. CASE t = "filewriter"
    BY <2>2, <1>2, RoundsAre, NamesDiffer DEF Round, ScriptOf, LockTypes
  <2>3. CASE t = "interpreter"
    BY <2>3, <1>2, RoundsAre, NamesDiffer DEF Round, ScriptOf, LockTypes
  <2>4. CASE t \in Sniffers
    <3>1. Round(t) = SnifferRound
      BY <2>4, NamesDiffer DEF Round
    <3>2. ScriptOf(t, SnifferRound)
      BY <1>2, <2>4, RoundsAre, NamesDiffer DEF ScriptOf, LockTypes
    <3>3. QED
      BY <3>1, <3>2, RoundsAre DEF LockTypes
  <2>5. QED
    BY <2>1, <2>2, <2>3, <2>4 DEF Threads
<1>4. /\ todo' \in [Actors -> Seq(Calls)] /\ todo'[t] = r
      /\ \A b \in Actors : b # t => todo'[b] = todo[b]
      /\ todo'["main"] = todo["main"] /\ (Starting' <=> Starting)
      /\ Scripted' /\ FindsAll'
      /\ \A b \in stops' : current' = "HALT" \/ Has(todo'[b], Call("enter", "HALT"))
      /\ \A b \in stops' : Settled \/ RelayerFirst(todo'[b])
  BY <1>1, <1>2, <1>3, ThreadKept
<1>5. /\ life' \in [Threads -> {"none", "init", "loop", "dead", "ended"}] /\ life'[t] = "loop"
      /\ \A u \in Threads : u # t => life'[u] = life[u]
      /\ state' \in [Threads -> {"ready", "started", "run", "stop", "stopped"}]
      /\ \A u \in Threads : u # t => state'[u] = state[u]
      /\ state'[t] = "run" \/ (life[t] = "loop" /\ state'[t] = state[t])
  BY <1>1 DEF LockTypes
<1>6. OnlyTheLivingAct'
  BY <1>4, <1>5, NamesDiffer DEF Working, OnlyTheLivingAct
<1>7. StartsFresh'
  <2> SUFFICES ASSUME Starting PROVE StartsFresh'
    BY <1>4 DEF StartsFresh
  <2>1. /\ stops = {} /\ current = "HALT" /\ cancelled = {} /\ ~ left
        /\ \A u \in Threads : life[u] # "dead"
        /\ \A u \in Threads : Has(todo["main"], Call("start", u)) => life[u] = "none"
        /\ \A u \in {"relayer", "filewriter"} : life[u] = "none" => Has(todo["main"], Call("start", u))
        /\ \A s \in Range(setup.listeners) : s \in slots \/ Has(todo["main"], Call("place", s))
    BY DEF Working, StartsFresh
  <2>2. \A u \in Threads : life'[u] = "none" <=> life[u] = "none"
    BY <1>1, <1>5
  <2>3. \A u \in Threads : life'[u] # "dead"
    BY <1>5, <2>1
  <2>4. QED
    BY <1>1, <1>4, <2>1, <2>2, <2>3, NamesDiffer DEF StartsFresh
<1>8. Started'
  BY <1>1, <1>4, <1>5, NamesDiffer DEF Working, Started
<1>9. StopsInOrder'
  <2>1. Settled' <=> Settled
    BY <1>1, <1>5, NamesDiffer DEF Settled
  <2>2. (\E u \in Threads : life'[u] = "dead") => \E u \in Threads : life[u] = "dead"
    BY <1>5
  <2>3. state'["relayer"] = "stopped" => life'["relayer"] = "ended"
    BY <1>1, <1>5, NamesDiffer DEF Working, StopsInOrder
  <2>4. life'["relayer"] = "dead" => life["relayer"] = "dead"
    BY <1>5, NamesDiffer
  <2>5. \/ Settled'
        \/ life'["filewriter"] \in {"none", "init"}
        \/ life'["filewriter"] = "loop" /\ state'["filewriter"] = "run"
    BY <1>1, <1>5, <2>1, NamesDiffer DEF Working, StopsInOrder
  <2>6. QED
    BY <1>1, <1>4, <2>1, <2>2, <2>3, <2>4, <2>5 DEF Working, StopsInOrder
<1>10. \A b \in Actors : Has(todo[b], Unlock("pcapls")) => Has(todo'[b], Unlock("pcapls"))
  BY <1>1, <1>4, NothingLeft
<1>11. \A u \in Threads : life[u] = "dead" => life'[u] = "dead"
  BY <1>1, <1>5
<1>12. Held' /\ Exclusive' /\ Returned' /\ LeakNeedsTwoStops'
  BY <1>1, <1>10, <1>11, LocksKept DEF Working
<1>13. Sleepers' /\ ~ gone'
  BY <1>1 DEF Working, Sleepers, Full, Empty
<1>14. LockTypes'
  BY <1>1, <1>4, <1>5 DEF LockTypes
<1>15. QED
  BY <1>4, <1>6, <1>7, <1>8, <1>9, <1>12, <1>13, <1>14 DEF Working

\* A thread leaves its main loop with no lock.
LEMMA EndThreadWorks ==
    ASSUME LockTypes, Working, NEW t \in Threads, EndThread(t)
    PROVE  LockTypes' /\ Working'
<1>1. /\ todo[t] = << >> /\ life[t] = "loop" /\ MayEnd(t)
      /\ life' = [life EXCEPT ![t] = "ended"] /\ state' = [state EXCEPT ![t] = "stopped"]
      /\ cancelled' = cancelled \ {t}
      /\ UNCHANGED <<setup, todo, held, level, asleep, slots, current, gone, stops, left>>
  BY DEF EndThread, puffer, machine
<1>2. /\ life' \in [Threads -> {"none", "init", "loop", "dead", "ended"}] /\ life'[t] = "ended"
      /\ \A u \in Threads : u # t => life'[u] = life[u]
      /\ state' \in [Threads -> {"ready", "started", "run", "stop", "stopped"}] /\ state'[t] = "stopped"
      /\ \A u \in Threads : u # t => state'[u] = state[u]
  BY <1>1 DEF LockTypes
<1>3. Starting' <=> Starting
  BY <1>1 DEF Starting
<1>4. Scripted'
  <2>1. \A b, x : ScriptOf(b, x)' <=> ScriptOf(b, x')
    BY <1>1 DEF ScriptOf
  <2>2. QED
    BY <1>1, <2>1 DEF Working, Scripted
<1>5. OnlyTheLivingAct'
  BY <1>1, <1>2 DEF Working, OnlyTheLivingAct
<1>6. StartsFresh'
  <2> SUFFICES ASSUME Starting PROVE StartsFresh'
    BY <1>3 DEF StartsFresh
  <2>1. /\ stops = {} /\ current = "HALT" /\ cancelled = {} /\ ~ left
        /\ \A u \in Threads : life[u] # "dead"
        /\ \A u \in Threads : Has(todo["main"], Call("start", u)) => life[u] = "none"
        /\ \A u \in {"relayer", "filewriter"} : life[u] = "none" => Has(todo["main"], Call("start", u))
        /\ \A s \in Range(setup.listeners) : s \in slots \/ Has(todo["main"], Call("place", s))
    BY DEF Working, StartsFresh
  <2>2. \A u \in Threads : life'[u] = "none" <=> life[u] = "none"
    BY <1>1, <1>2
  <2>3. \A u \in Threads : life'[u] # "dead"
    BY <1>2, <2>1
  <2>4. QED
    BY <1>1, <2>1, <2>2, <2>3, NamesDiffer DEF StartsFresh
<1>7. Started'
  BY <1>1, <1>2, <1>3, NamesDiffer DEF Working, Started
<1>8. StopsInOrder'
  <2>1. Settled => Settled'
    BY <1>1, <1>2, NamesDiffer DEF Settled
  <2>2. t = "relayer" => Settled'
    BY <1>2 DEF Settled
  <2>3. (\E u \in Threads : life'[u] = "dead") => \E u \in Threads : life[u] = "dead"
    BY <1>2
  <2>4. state'["relayer"] = "stopped" => life'["relayer"] = "ended"
    BY <1>2, NamesDiffer DEF Working, StopsInOrder
  <2>5. life'["relayer"] = "dead" => life["relayer"] = "dead"
    BY <1>2, NamesDiffer
  <2>6. \/ Settled'
        \/ life'["filewriter"] \in {"none", "init"}
        \/ life'["filewriter"] = "loop" /\ state'["filewriter"] = "run"
    <3>1. CASE t = "filewriter"
      <4>1. state["filewriter"] # "run"
        BY <1>1, <3>1, NamesDiffer DEF MayEnd
      <4>2. Settled
        BY <1>1, <3>1, <4>1 DEF Working, StopsInOrder
      <4>3. QED
        BY <2>1, <4>2
    <3>2. CASE t # "filewriter"
      BY <1>2, <2>1, <3>2, NamesDiffer DEF Working, StopsInOrder
    <3>3. QED
      BY <3>1, <3>2
  <2>7. (cancelled' # {} => cancelled # {}) /\ ("relayer" \in cancelled' => "relayer" \in cancelled)
    BY <1>1
  <2>8. /\ \A b \in stops' : current' = "HALT" \/ Has(todo'[b], Call("enter", "HALT"))
        /\ \A b \in stops' : Settled' \/ RelayerFirst(todo'[b])
        /\ cancelled' # {} \/ (\E u \in Threads : life'[u] = "dead") => Settled'
        /\ life'["relayer"] = "dead" \/ "relayer" \in cancelled' => left'
    BY <1>1, <2>1, <2>3, <2>5, <2>7 DEF Working, StopsInOrder
  <2>9. QED
    BY <2>4, <2>6, <2>8 DEF StopsInOrder
<1>9. FindsAll'
  BY <1>1 DEF Working, FindsAll
<1>10. \A u \in Threads : life[u] = "dead" => life'[u] = "dead"
  BY <1>1, <1>2
<1>11. Held' /\ Exclusive' /\ Returned' /\ LeakNeedsTwoStops'
  BY <1>1, <1>10, LocksKept DEF Working
<1>12. Sleepers' /\ ~ gone'
  BY <1>1 DEF Working, Sleepers, Full, Empty
<1>13. LockTypes'
  BY <1>1, <1>2 DEF LockTypes
<1>14. QED
  BY <1>4, <1>5, <1>6, <1>7, <1>8, <1>9, <1>11, <1>12, <1>13 DEF Working

\* A cancelled thread dies with its locks, and the relayer was left or has ended by then.
LEMMA DieWorks ==
    ASSUME LockTypes, Working, NEW t \in Threads, Die(t)
    PROVE  LockTypes' /\ Working'
<1>1. /\ t \in cancelled /\ todo[t] # << >>
      /\ life' = [life EXCEPT ![t] = "dead"] /\ todo' = [todo EXCEPT ![t] = << >>]
      /\ asleep' = asleep \ {t} /\ cancelled' = cancelled \ {t}
      /\ UNCHANGED <<setup, state, level, slots, current, gone, stops, left>>
  BY DEF Die, DieInSection, DieInWait, DieInCapture, Dies, machine
<1>2. t \in Actors
  BY NamesDiffer
<1>3. /\ \/ held' = held
         \/ \E l \in {"accumulator", "mapped_var", "signal"}, mode \in {"r", "w"} : held' = held \cup {<<t, l, mode>>}
      /\ t \notin stops /\ (t \in Sniffers => MadeOf(todo[t], CaptureCalls))
  <2>1. CASE DieInSection(t)
    <3>1. held' = held \cup {<<t, On(t), Head(todo[t]).mode>>} /\ About(t, "print")
      BY <2>1 DEF DieInSection
    <3>2. \/ t \in {"filewriter", "interpreter"} /\ Head(todo[t]) \in {PrintIn("mapped_var", "r"), PrintIn("mapped_var", "w")}
          \/ t \in Sniffers \ stops /\ Head(todo[t]) = PrintIn("accumulator", "w") /\ MadeOf(todo[t], CaptureCalls)
      BY <1>1, <1>2, <3>1, WhoLocks DEF Working
    <3>3. On(t) \in {"accumulator", "mapped_var"} /\ Head(todo[t]).mode \in {"r", "w"}
      BY <3>2, Fields DEF On
    <3>4. t \notin stops /\ (t \in Sniffers => MadeOf(todo[t], CaptureCalls))
      BY <3>2, NamesDiffer DEF LockTypes
    <3>5. QED
      BY <3>1, <3>3, <3>4
  <2>2. CASE DieInWait(t)
    <3>1. held' = held \cup {<<t, "signal", "w">>} /\ (About(t, "resume") \/ About(t, "put") \/ About(t, "get"))
      BY <2>2 DEF DieInWait
    <3>2. t \in {"relayer", "filewriter"}
      BY <1>1, <1>2, <3>1, WhoActs DEF Working
    <3>3. QED
      BY <3>1, <3>2, NamesDiffer DEF LockTypes
  <2>3. CASE DieInCapture(t)
    <3>1. held' = held /\ About(t, "capture")
      BY <2>3 DEF DieInCapture
    <3>2. QED
      BY <1>1, <1>2, <3>1, WhoActs, NamesDiffer DEF Working
  <2>4. QED
    BY <2>1, <2>2, <2>3 DEF Die
<1>4. PICK r \in Seq(Calls) : r = << >>
  BY NothingLeft
<1>5. ScriptOf(t, r)
  BY <1>3, <1>4, NothingLeft, NamesDiffer DEF ScriptOf
<1>6. /\ todo' \in [Actors -> Seq(Calls)] /\ todo'[t] = r
      /\ \A b \in Actors : b # t => todo'[b] = todo[b]
      /\ todo'["main"] = todo["main"] /\ (Starting' <=> Starting)
      /\ Scripted' /\ FindsAll'
      /\ \A b \in stops' : current' = "HALT" \/ Has(todo'[b], Call("enter", "HALT"))
      /\ \A b \in stops' : Settled \/ RelayerFirst(todo'[b])
  BY <1>1, <1>3, <1>4, <1>5, ThreadKept
<1>7. /\ life' \in [Threads -> {"none", "init", "loop", "dead", "ended"}] /\ life'[t] = "dead"
      /\ \A u \in Threads : u # t => life'[u] = life[u]
  BY <1>1 DEF LockTypes
<1>8. ~ Starting /\ Settled
  BY <1>1 DEF Working, StartsFresh, StopsInOrder
<1>9. OnlyTheLivingAct'
  BY <1>4, <1>6, <1>7, NamesDiffer DEF Working, OnlyTheLivingAct
<1>10. life[t] \in {"init", "loop"}
  BY <1>1 DEF Working, OnlyTheLivingAct
<1>11. StartsFresh' /\ Started'
  BY <1>1, <1>6, <1>7, <1>8, NamesDiffer DEF Working, StartsFresh, Started
<1>12. Settled'
  <2>1. t = "relayer" => left
    BY <1>1 DEF Working, StopsInOrder
  <2>2. QED
    BY <1>1, <1>7, <1>8, <2>1, NamesDiffer DEF Settled
<1>13. StopsInOrder'
  <2>1. state'["relayer"] = "stopped" => life'["relayer"] = "ended"
    BY <1>1, <1>7, <1>10, NamesDiffer DEF Working, StopsInOrder
  <2>2. life'["relayer"] = "dead" \/ "relayer" \in cancelled' => left'
    BY <1>1, <1>7, NamesDiffer DEF Working, StopsInOrder
  <2>3. QED
    BY <1>6, <1>12, <2>1, <2>2 DEF StopsInOrder
<1>14. \A h \in held' : \/ h \in held
                        \/ \E l \in {"accumulator", "mapped_var", "signal"}, mode \in {"r", "w"} : h = <<t, l, mode>>
  BY <1>3
<1>15. \A b, m : /\ Holds(b, "pcapls", m)' => Holds(b, "pcapls", m)
                 /\ Holds(b, "listeners", m)' => Holds(b, "listeners", m)
  BY <1>14 DEF Holds
<1>16. Held'
  <2> SUFFICES ASSUME NEW h \in held'
               PROVE  \/ h = <<"relayer", "pcapls", "w">>
                      \/ \E a \in Users : h = <<a, "pcapls", "r">>
                      \/ \E a \in stops' : h = <<a, "listeners", "w">>
                      \/ \E u \in Threads, l \in {"accumulator", "mapped_var", "signal"}, mode \in {"r", "w"} :
                            h = <<u, l, mode>> /\ life'[u] = "dead"
    BY DEF Held
  <2>1. CASE h \in held
    BY <1>1, <1>7, <2>1 DEF Working, Held
  <2>2. CASE \E l \in {"accumulator", "mapped_var", "signal"}, mode \in {"r", "w"} : h = <<t, l, mode>>
    BY <1>7, <2>2
  <2>3. QED
    BY <1>14, <2>1, <2>2
<1>17. Exclusive'
  BY <1>15 DEF Working, Exclusive
<1>18. Returned'
  <2>1. ASSUME Holds("relayer", "pcapls", "w")'
        PROVE  life'["relayer"] = "dead" \/ Has(todo'["relayer"], Unlock("pcapls"))
    BY <1>6, <1>7, <1>15, <2>1, NamesDiffer DEF Working, Returned
  <2>2. ASSUME NEW b \in Users, Holds(b, "pcapls", "r")' PROVE Has(todo'[b], Unlock("pcapls"))
    <3>1. Has(todo[b], Unlock("pcapls"))
      BY <1>15, <2>2 DEF Working, Returned
    <3>2. b # t
      <4>1. t \in Sniffers => ~ Has(todo[t], Unlock("pcapls"))
        BY <1>3, Fields DEF MadeOf, Has, CaptureCalls
      <4>2. QED
        BY <3>1, <4>1, NamesDiffer DEF Users
    <3>3. QED
      BY <1>6, <3>1, <3>2, NamesDiffer
  <2>3. QED
    BY <2>1, <2>2 DEF Returned
<1>19. LeakNeedsTwoStops'
  BY <1>1, <1>15 DEF Working, LeakNeedsTwoStops, LockIsLeaked
<1>20. Sleepers' /\ ~ gone'
  BY <1>1 DEF Working, Sleepers, Full, Empty
<1>21. LockTypes'
  BY <1>1, <1>6, <1>7 DEF LockTypes
<1>22. QED
  BY <1>6, <1>9, <1>11, <1>13, <1>16, <1>17, <1>18, <1>19, <1>20, <1>21 DEF Working

-----------------------------------------------------------------------------
(* The configuration is read. *)

\* The first call of two joined scripts, and what follows it.
LEMMA FirstOf ==
    ASSUME NEW p \in Seq(Calls), p # << >>, NEW s \in Seq(Calls)
    PROVE  /\ p \o s \in Seq(Calls) /\ p \o s # << >>
           /\ Head(p \o s) = p[1] /\ Tail(p \o s) = Tail(p) \o s
<1>1. /\ p \o s \in Seq(Calls) /\ Len(p) \in Nat /\ Len(s) \in Nat
      /\ DOMAIN p = 1 .. Len(p) /\ DOMAIN (p \o s) = 1 .. Len(p) + Len(s) /\ Len(p \o s) = Len(p) + Len(s)
      /\ \A i \in 1 .. Len(p) : (p \o s)[i] = p[i]
      /\ \A i \in 1 .. Len(s) : (p \o s)[Len(p) + i] = s[i]
  BY JoinIs
<1>2. PICK t \in Seq(Calls) : t = Tail(p)
  BY TailIs
<1>3. /\ Len(p) \in Nat \ {0} /\ Len(t) = Len(p) - 1 /\ DOMAIN t = 1 .. Len(p) - 1
      /\ \A i \in DOMAIN t : t[i] = p[i + 1]
  BY <1>2, TailIs
<1>4. /\ t \o s \in Seq(Calls) /\ Len(t \o s) = Len(t) + Len(s)
      /\ \A i \in 1 .. Len(t) : (t \o s)[i] = t[i]
      /\ \A i \in 1 .. Len(s) : (t \o s)[Len(t) + i] = s[i]
  BY JoinIs
<1>5. PICK j \in Seq(Calls) : j = p \o s
  BY <1>1
<1>6. j # << >> /\ Len(j) = Len(p) + Len(s) /\ j[1] = p[1]
  <2>1. Len(j) = Len(p) + Len(s) /\ 1 \in 1 .. Len(p)
    BY <1>1, <1>3, <1>5
  <2>2. Len(j) # 0
    BY <1>1, <1>3, <2>1
  <2>3. QED
    BY <1>1, <1>5, <2>1, <2>2, EmptySeq
<1>7. PICK r \in Seq(Calls) : r = Tail(j)
  BY <1>6, TailIs
<1>8. /\ Head(j) = j[1] /\ Len(r) = Len(j) - 1 /\ DOMAIN r = 1 .. Len(j) - 1
      /\ \A i \in DOMAIN r : r[i] = j[i + 1]
  BY <1>6, <1>7, TailIs
<1>9. PICK u \in Seq(Calls) : u = t \o s
  BY <1>4
<1>10. Len(r) = Len(u)
  BY <1>1, <1>3, <1>4, <1>6, <1>8, <1>9
<1>11. ASSUME NEW i \in 1 .. Len(r) PROVE r[i] = u[i]
  <2>1. i \in Nat \ {0} /\ i <= Len(p) - 1 + Len(s) /\ r[i] = j[i + 1]
    <3>1. PICK m, n \in Nat : m = Len(p) /\ n = Len(s) /\ m # 0
      BY <1>1, <1>3
    <3>2. i \in 1 .. m + n - 1 /\ i \in DOMAIN r
      BY <1>6, <1>8, <3>1
    <3>3. i \in Nat \ {0} /\ i <= m - 1 + n
      BY <3>1, <3>2
    <3>4. QED
      BY <1>8, <3>1, <3>2, <3>3
  <2>2. CASE i <= Len(p) - 1
    <3>1. i \in DOMAIN t /\ i \in 1 .. Len(t) /\ i + 1 \in 1 .. Len(p)
      BY <1>3, <2>1, <2>2
    <3>2. j[i + 1] = p[i + 1]
      BY <1>1, <1>5, <3>1
    <3>3. u[i] = t[i]
      BY <1>4, <1>9, <3>1
    <3>4. QED
      BY <1>3, <2>1, <3>1, <3>2, <3>3
  <2>3. CASE i > Len(p) - 1
    <3>0. i - (Len(p) - 1) \in 1 .. Len(s)
      BY <1>1, <1>3, <2>1, <2>3
    <3>1. PICK k \in 1 .. Len(s) : k = i - (Len(p) - 1)
      BY <3>0
    <3>2. i + 1 = Len(p) + k /\ i = Len(t) + k
      BY <1>1, <1>3, <2>1, <3>1
    <3>3. j[i + 1] = s[k]
      BY <1>1, <1>5, <3>2
    <3>4. u[i] = s[k]
      BY <1>4, <1>9, <3>2
    <3>5. QED
      BY <2>1, <3>3, <3>4
  <2>4. QED
    BY <1>3, <2>1, <2>2, <2>3
<1>12. r = u
  BY <1>10, <1>11, SeqEqual
<1>13. QED
  BY <1>1, <1>2, <1>5, <1>6, <1>7, <1>8, <1>9, <1>12

\* con_load_from_file, with or without mapped variables.
LEMMA LoadIs ==
    ASSUME setup \in Setups
    PROVE  \/ Load = <<Lock("sysdat", "w"), Lock("pcapls", "w"), Touch("mapped_var", "w"), Unlock("pcapls"), Unlock("sysdat")>>
           \/ Load = <<Lock("sysdat", "w"), Lock("pcapls", "w"), Unlock("pcapls"), Unlock("sysdat")>>
<1> DEFINE a == <<Lock("sysdat", "w"), Lock("pcapls", "w")>>
           b == <<Touch("mapped_var", "w")>>
           c == <<Unlock("pcapls"), Unlock("sysdat")>>
           five == <<Lock("sysdat", "w"), Lock("pcapls", "w"), Touch("mapped_var", "w"), Unlock("pcapls"), Unlock("sysdat")>>
           four == <<Lock("sysdat", "w"), Lock("pcapls", "w"), Unlock("pcapls"), Unlock("sysdat")>>
<1>1. a \in Seq(Calls) /\ b \in Seq(Calls) /\ c \in Seq(Calls) /\ five \in Seq(Calls) /\ four \in Seq(Calls)
  BY DEF Calls, LoadCalls
<1>2. Len(a) = 2 /\ Len(b) = 1 /\ Len(c) = 2 /\ Len(five) = 5 /\ Len(four) = 4
  OBVIOUS
<1>3. /\ five[1] = a[1] /\ five[2] = a[2] /\ five[3] = b[1] /\ five[4] = c[1] /\ five[5] = c[2]
      /\ four[1] = a[1] /\ four[2] = a[2] /\ four[3] = c[1] /\ four[4] = c[2]
  OBVIOUS
<1>4. setup.full \in BOOLEAN
  BY SetupIs
<1>5. Load = Joined(Joined(a, IF setup.full THEN b ELSE << >>), c)
  BY DEF Load, IfFull, Joined
<1> HIDE DEF a, b, c, five, four
<1>6. CASE setup.full
  <2>1. PICK p \in Seq(Calls) : p = Joined(a, b)
    BY <1>1, JoinIs DEF Joined
  <2>2. Len(p) = 3 /\ p[1] = a[1] /\ p[2] = a[2] /\ p[3] = b[1]
    <3>1. /\ Len(p) = Len(a) + Len(b) /\ \A i \in 1 .. Len(a) : p[i] = a[i]
          /\ \A i \in 1 .. Len(b) : p[Len(a) + i] = b[i]
      BY <1>1, <2>1, JoinIs DEF Joined
    <3>2. 1 \in 1 .. 2 /\ 2 \in 1 .. 2 /\ 1 \in 1 .. 1 /\ 2 + 1 = 3
      OBVIOUS
    <3>3. QED
      BY <1>2, <3>1, <3>2
  <2>3. PICK q \in Seq(Calls) : q = Joined(p, c)
    BY <1>1, JoinIs DEF Joined
  <2>4. Len(q) = 5 /\ q[1] = p[1] /\ q[2] = p[2] /\ q[3] = p[3] /\ q[4] = c[1] /\ q[5] = c[2]
    <3>1. /\ Len(q) = Len(p) + Len(c) /\ \A i \in 1 .. Len(p) : q[i] = p[i]
          /\ \A i \in 1 .. Len(c) : q[Len(p) + i] = c[i]
      BY <1>1, <2>3, JoinIs DEF Joined
    <3>2. 1 \in 1 .. 3 /\ 2 \in 1 .. 3 /\ 3 \in 1 .. 3 /\ 1 \in 1 .. 2 /\ 2 \in 1 .. 2 /\ 3 + 1 = 4 /\ 3 + 2 = 5
      OBVIOUS
    <3>3. QED
      BY <1>2, <2>2, <3>1, <3>2
  <2>5. \A i \in 1 .. 5 : q[i] = five[i]
    <3>1. \A i \in 1 .. 5 : i = 1 \/ i = 2 \/ i = 3 \/ i = 4 \/ i = 5
      OBVIOUS
    <3>2. QED
      BY <1>3, <2>2, <2>4, <3>1
  <2>6. q = five
    BY <1>1, <1>2, <2>4, <2>5, SeqEqual
  <2>7. QED
    BY <1>5, <1>6, <2>1, <2>3, <2>6 DEF five
<1>7. CASE ~ setup.full
  <2>1. Joined(a, << >>) = a
    BY <1>1, ConcatEmptySeq DEF Joined
  <2>2. PICK q \in Seq(Calls) : q = Joined(a, c)
    BY <1>1, JoinIs DEF Joined
  <2>3. Len(q) = 4 /\ q[1] = a[1] /\ q[2] = a[2] /\ q[3] = c[1] /\ q[4] = c[2]
    <3>1. /\ Len(q) = Len(a) + Len(c) /\ \A i \in 1 .. Len(a) : q[i] = a[i]
          /\ \A i \in 1 .. Len(c) : q[Len(a) + i] = c[i]
      BY <1>1, <2>2, JoinIs DEF Joined
    <3>2. 1 \in 1 .. 2 /\ 2 \in 1 .. 2 /\ 2 + 1 = 3 /\ 2 + 2 = 4
      OBVIOUS
    <3>3. QED
      BY <1>2, <3>1, <3>2
  <2>4. \A i \in 1 .. 4 : q[i] = four[i]
    <3>1. \A i \in 1 .. 4 : i = 1 \/ i = 2 \/ i = 3 \/ i = 4
      OBVIOUS
    <3>2. QED
      BY <1>3, <2>3, <3>1
  <2>5. q = four
    BY <1>1, <1>2, <2>3, <2>4, SeqEqual
  <2>6. QED
    BY <1>5, <1>7, <2>1, <2>2, <2>5 DEF four
<1>8. QED
  BY <1>4, <1>6, <1>7

\* main begins with the configuration.
LEMMA InitLocksInv == LocksInit => LocksInv
<1> SUFFICES ASSUME LocksInit PROVE LocksInv
  OBVIOUS
<1> USE DEF LocksInit
<1>1. /\ StartScript \in Seq(Calls) /\ Load \in Seq(Calls)
  <2>1. setup \in Setups
    OBVIOUS
  <2>2. /\ <<Lock("sysdat", "w"), Lock("pcapls", "w"), Touch("mapped_var", "w"), Unlock("pcapls"), Unlock("sysdat")>> \in Seq(Calls)
        /\ <<Lock("sysdat", "w"), Lock("pcapls", "w"), Unlock("pcapls"), Unlock("sysdat")>> \in Seq(Calls)
    BY DEF Calls, LoadCalls
  <2>3. QED
    BY <2>1, <2>2, StartIs, LoadIs
<1>2. PICK q \in Seq(Calls) : q = Load \o StartScript
  BY <1>1, JoinIs
<1>3. << >> \in Seq(Calls)
  BY NothingLeft
<1>4. todo \in [Actors -> Seq(Calls)] /\ todo["main"] = q /\ \A a \in Actors : a # "main" => todo[a] = << >>
  <2>1. todo = [a \in Actors |-> IF a = "main" THEN q ELSE << >>]
    BY <1>2
  <2>2. QED
    BY <1>2, <1>3, <2>1, NamesDiffer
<1>5. LockTypes
  <2>1. 0 \in 0 .. PufferSize
    BY LocksAssumption
  <2>2. /\ life \in [Threads -> {"none", "init", "loop", "dead", "ended"}]
        /\ state \in [Threads -> {"ready", "started", "run", "stop", "stopped"}]
    OBVIOUS
  <2>3. setup \in Setups /\ level = 0 /\ cancelled = {} /\ slots = {} /\ stops = {}
        /\ current \in {"HALT", "RUN"} /\ gone \in BOOLEAN /\ left \in BOOLEAN
    OBVIOUS
  <2>4. QED
    BY ONLY <1>4, <2>1, <2>2, <2>3 DEF LockTypes
<1>6. Loading
  <2>1. setup \in Setups
    OBVIOUS
  <2>2. held = {<<"main", l, "w">> : l \in {}}
    OBVIOUS
  <2>3. \/ LoadingWith({}, <<Lock("sysdat", "w"), Lock("pcapls", "w"), Touch("mapped_var", "w"), Unlock("pcapls"), Unlock("sysdat")>>)
        \/ LoadingWith({}, <<Lock("sysdat", "w"), Lock("pcapls", "w"), Unlock("pcapls"), Unlock("sysdat")>>)
    BY <1>2, <1>4, <2>1, <2>2, LoadIs DEF LoadingWith
  <2>4. QED
    BY <1>4, <2>3 DEF Loading
<1>7. QED
  BY <1>5, <1>6 DEF LocksInv

\* What main does while it reads the configuration, with the rest of what it is to do.
LEMMA LoadingActs ==
    ASSUME LockTypes, Loading, NEW p \in Seq(Calls), p # << >>, p[1] \in LoadCalls, todo["main"] = p \o StartScript,
           NEW a \in Actors, todo[a] # << >>, Step(a)
    PROVE  /\ a = "main" /\ UNCHANGED <<setup, life, state, cancelled, level, asleep, slots, current, gone, stops, left>>
           /\ todo' \in [Actors -> Seq(Calls)] /\ todo'["main"] = Tail(p) \o StartScript
           /\ \A b \in Actors : b # "main" => todo'[b] = << >>
           /\ p[1].op = "lock" => held' = IF Holds(a, p[1].on, "w") THEN held ELSE held \cup {<<a, p[1].on, p[1].mode>>}
           /\ p[1].op = "touch" => held' = held
           /\ p[1].op = "unlock" => held' = {h \in held : h[1] # a \/ h[2] # p[1].on}
<1>1. a = "main" /\ \A b \in Actors : b # "main" => todo[b] = << >>
  BY DEF Loading
<1>2. setup \in Setups /\ StartScript \in Seq(Calls)
  BY StartIs DEF LockTypes
<1>3. Head(todo["main"]) = p[1] /\ Tail(todo["main"]) = Tail(p) \o StartScript
  BY <1>2, FirstOf
<1>4. p[1].op \in {"lock", "touch", "unlock"}
  BY Fields DEF LoadCalls
<1>5. PICK r \in Seq(Calls) : r = Tail(p) \o StartScript
  BY <1>2, TailIs, JoinIs
<1>6. TakeLock(a) \/ TouchLock(a) \/ Release(a)
  BY <1>1, <1>3, <1>4 DEF Step, About, UsePuffer, FallAsleep, Resume, StartThread, StopThread, Await, GiveUp,
        Place, FindSniffer, Fire, Enter, Open, FailToOpen, Capture
<1>7. /\ UNCHANGED <<setup, life, state, cancelled, level, asleep, slots, current, gone, stops, left>>
      /\ todo' = [todo EXCEPT !["main"] = r]
  BY <1>1, <1>3, <1>5, <1>6 DEF TakeLock, TouchLock, Release, Done, threads, puffer, machine
<1>8. /\ todo' \in [Actors -> Seq(Calls)] /\ todo'["main"] = r
      /\ \A b \in Actors : b # "main" => todo'[b] = << >>
  BY <1>1, <1>7, NamesDiffer, TodoIs
<1>9. /\ p[1].op = "lock" => held' = IF Holds(a, p[1].on, "w") THEN held ELSE held \cup {<<a, p[1].on, p[1].mode>>}
      /\ p[1].op = "touch" => held' = held
      /\ p[1].op = "unlock" => held' = {h \in held : h[1] # a \/ h[2] # p[1].on}
  BY <1>1, <1>3, <1>6 DEF TakeLock, TouchLock, Release, About, On, Without
<1>10. QED
  BY <1>1, <1>5, <1>7, <1>8, <1>9

\* START is the same for the whole run.
LEMMA ScriptsStay ==
    ASSUME setup' = setup
    PROVE  StartScript' = StartScript
BY DEF StartScript, ForAll, IfFull, StartSniffer

\* All that START needs is there once the configuration is read.
Loaded ==
    /\ LockTypes /\ ~ gone /\ stops = {} /\ asleep = {} /\ cancelled = {} /\ current = "HALT" /\ ~ left /\ held = {}
    /\ life = [t \in Threads |-> "none"] /\ state = [t \in Threads |-> "ready"]
    /\ \A a \in Actors : a # "main" => todo[a] = << >>
    /\ todo["main"] = StartScript

\* The invariant holds when the configuration is read.
LEMMA LoadedWorks == Loaded => Working
<1> SUFFICES ASSUME Loaded PROVE Working
  OBVIOUS
<1> USE DEF Loaded
<1>1. PICK q \in Seq(Calls) : q = StartScript
  BY StartIs DEF LockTypes
<1>2. /\ StartsUp(q) /\ Balanced(q) /\ Has(q, Call("start", "relayer")) /\ Has(q, Call("start", "filewriter"))
      /\ \A s \in Range(setup.listeners) : Has(q, Call("place", s))
  BY <1>1, StartIs DEF LockTypes
<1>3. KillsLast(q)
  <2>1. \A c \in StartCalls : c.op \notin {"open", "fire"}
    BY Fields DEF StartCalls
  <2>2. \A i \in DOMAIN q : q[i].op \notin {"open", "fire"}
    BY <1>2, <2>1, Fields DEF StartsUp
  <2>3. QED
    BY <2>2, Fields DEF KillsLast
<1>4. ScriptOf("main", q)
  BY <1>2, <1>3, NamesDiffer DEF ScriptOf
<1>5. \A a \in Actors : a # "main" => ScriptOf(a, << >>)
  BY NothingLeft DEF ScriptOf
<1>6. Scripted
  BY <1>1, <1>4, <1>5 DEF Scripted
<1>7. Starting
  <2>1. Len(q) \in DOMAIN q
    BY <1>2, TailIs DEF StartsUp
  <2>2. QED
    BY <1>1, <1>2, <2>1 DEF Starting, Has, StartsUp
<1>8. StartsFresh
  BY <1>1, <1>2, NamesDiffer DEF StartsFresh
<1>9. Started
  BY <1>7 DEF Started
<1>10. StopsInOrder
  BY NamesDiffer DEF StopsInOrder
<1>11. Held /\ Exclusive /\ Returned /\ Sleepers /\ FindsAll /\ LeakNeedsTwoStops
  BY DEF Held, Exclusive, Returned, Sleepers, FindsAll, LeakNeedsTwoStops, LockIsLeaked, Holds
<1>12. OnlyTheLivingAct
  BY NamesDiffer DEF OnlyTheLivingAct
<1>13. QED
  BY <1>6, <1>8, <1>9, <1>10, <1>11, <1>12 DEF Working

\* What is left of con_load_from_file after each of its calls.
LEMMA TuplesAre ==
    LET l1 == Lock("sysdat", "w")
        l2 == Lock("pcapls", "w")
        t == Touch("mapped_var", "w")
        u2 == Unlock("pcapls")
        u1 == Unlock("sysdat")
    IN  /\ \A p \in {<<l1, l2, t, u2, u1>>, <<l1, l2, u2, u1>>, <<l2, t, u2, u1>>, <<l2, u2, u1>>,
                     <<t, u2, u1>>, <<u2, u1>>, <<u1>>} : p \in Seq(Calls) /\ p # << >> /\ p[1] \in LoadCalls
        /\ Tail(<<l1, l2, t, u2, u1>>) = <<l2, t, u2, u1>> /\ Tail(<<l1, l2, u2, u1>>) = <<l2, u2, u1>>
        /\ Tail(<<l2, t, u2, u1>>) = <<t, u2, u1>> /\ Tail(<<l2, u2, u1>>) = <<u2, u1>>
        /\ Tail(<<t, u2, u1>>) = <<u2, u1>> /\ Tail(<<u2, u1>>) = <<u1>> /\ Tail(<<u1>>) = << >>
<1>1. LoadCalls \subseteq Calls
  BY DEF Calls
<1>2. /\ Lock("sysdat", "w") \in LoadCalls /\ Lock("pcapls", "w") \in LoadCalls /\ Touch("mapped_var", "w") \in LoadCalls
      /\ Unlock("pcapls") \in LoadCalls /\ Unlock("sysdat") \in LoadCalls
  BY DEF LoadCalls
<1>3. QED
  BY <1>1, <1>2

\* It is not over yet.
LEMMA LoadingGoesOn ==
    ASSUME LockTypes, Loading, NEW p \in Seq(Calls), NEW T,
           UNCHANGED <<setup, life, state, cancelled, level, asleep, slots, current, gone, stops, left>>,
           todo' \in [Actors -> Seq(Calls)], todo'["main"] = p \o StartScript,
           \A b \in Actors : b # "main" => todo'[b] = << >>,
           held' = {<<"main", l, "w">> : l \in T},
           \/ /\ T = {"sysdat"}
              /\ p \in {<<Lock("pcapls", "w"), Touch("mapped_var", "w"), Unlock("pcapls"), Unlock("sysdat")>>,
                        <<Lock("pcapls", "w"), Unlock("pcapls"), Unlock("sysdat")>>,
                        <<Unlock("sysdat")>>}
           \/ /\ T = {"sysdat", "pcapls"}
              /\ p \in {<<Touch("mapped_var", "w"), Unlock("pcapls"), Unlock("sysdat")>>,
                        <<Unlock("pcapls"), Unlock("sysdat")>>}
    PROVE  LockTypes' /\ Loading'
<1>1. LockTypes'
  BY DEF LockTypes
<1>2. LoadingWith(T, p)'
  BY ScriptsStay DEF LoadingWith
<1>3. QED
  BY <1>1, <1>2 DEF Loading

\* One case for each of the points that con_load_from_file may be at.
LEMMA LoadingKept ==
    ASSUME LockTypes, Loading, NEW a \in Actors, todo[a] # << >>, Step(a)
    PROVE  LockTypes' /\ (Loading' \/ Working')
<1> DEFINE l1 == Lock("sysdat", "w")
           l2 == Lock("pcapls", "w")
           t == Touch("mapped_var", "w")
           u2 == Unlock("pcapls")
           u1 == Unlock("sysdat")
<1>0. /\ l1.op = "lock" /\ l1.on = "sysdat" /\ l1.mode = "w" /\ l2.op = "lock" /\ l2.on = "pcapls" /\ l2.mode = "w"
      /\ t.op = "touch" /\ u2.op = "unlock" /\ u2.on = "pcapls" /\ u1.op = "unlock" /\ u1.on = "sysdat"
  BY Fields
<1>1. CASE LoadingWith({}, <<l1, l2, t, u2, u1>>)
  <2> DEFINE p == <<l1, l2, t, u2, u1>>
  <2>1. p \in Seq(Calls) /\ p # << >> /\ p[1] \in LoadCalls /\ p[1] = l1 /\ Tail(p) = <<l2, t, u2, u1>>
        /\ Tail(p) \in Seq(Calls)
    BY TuplesAre
  <2> HIDE DEF p
  <2>2. todo["main"] = p \o StartScript /\ held = {}
    BY <1>1 DEF LoadingWith, p
  <2>3. /\ a = "main" /\ UNCHANGED <<setup, life, state, cancelled, level, asleep, slots, current, gone, stops, left>>
        /\ todo' \in [Actors -> Seq(Calls)] /\ todo'["main"] = Tail(p) \o StartScript
        /\ \A b \in Actors : b # "main" => todo'[b] = << >>
        /\ p[1].op = "lock" => held' = IF Holds(a, p[1].on, "w") THEN held ELSE held \cup {<<a, p[1].on, p[1].mode>>}
    BY <2>1, <2>2, LoadingActs
  <2>4. held' = {<<"main", l, "w">> : l \in {"sysdat"}}
    BY <1>0, <2>1, <2>2, <2>3 DEF Holds
  <2>5. QED
    BY <2>1, <2>3, <2>4, LoadingGoesOn
<1>2. CASE LoadingWith({}, <<l1, l2, u2, u1>>)
  <2> DEFINE p == <<l1, l2, u2, u1>>
  <2>1. p \in Seq(Calls) /\ p # << >> /\ p[1] \in LoadCalls /\ p[1] = l1 /\ Tail(p) = <<l2, u2, u1>>
        /\ Tail(p) \in Seq(Calls)
    BY TuplesAre
  <2> HIDE DEF p
  <2>2. todo["main"] = p \o StartScript /\ held = {}
    BY <1>2 DEF LoadingWith, p
  <2>3. /\ a = "main" /\ UNCHANGED <<setup, life, state, cancelled, level, asleep, slots, current, gone, stops, left>>
        /\ todo' \in [Actors -> Seq(Calls)] /\ todo'["main"] = Tail(p) \o StartScript
        /\ \A b \in Actors : b # "main" => todo'[b] = << >>
        /\ p[1].op = "lock" => held' = IF Holds(a, p[1].on, "w") THEN held ELSE held \cup {<<a, p[1].on, p[1].mode>>}
    BY <2>1, <2>2, LoadingActs
  <2>4. held' = {<<"main", l, "w">> : l \in {"sysdat"}}
    BY <1>0, <2>1, <2>2, <2>3 DEF Holds
  <2>5. QED
    BY <2>1, <2>3, <2>4, LoadingGoesOn
<1>3. CASE LoadingWith({"sysdat"}, <<l2, t, u2, u1>>)
  <2> DEFINE p == <<l2, t, u2, u1>>
  <2>1. p \in Seq(Calls) /\ p # << >> /\ p[1] \in LoadCalls /\ p[1] = l2 /\ Tail(p) = <<t, u2, u1>>
        /\ Tail(p) \in Seq(Calls)
    BY TuplesAre
  <2> HIDE DEF p
  <2>2. todo["main"] = p \o StartScript /\ held = {<<"main", "sysdat", "w">>}
    BY <1>3 DEF LoadingWith, p
  <2>3. /\ a = "main" /\ UNCHANGED <<setup, life, state, cancelled, level, asleep, slots, current, gone, stops, left>>
        /\ todo' \in [Actors -> Seq(Calls)] /\ todo'["main"] = Tail(p) \o StartScript
        /\ \A b \in Actors : b # "main" => todo'[b] = << >>
        /\ p[1].op = "lock" => held' = IF Holds(a, p[1].on, "w") THEN held ELSE held \cup {<<a, p[1].on, p[1].mode>>}
    BY <2>1, <2>2, LoadingActs
  <2>4. held' = {<<"main", l, "w">> : l \in {"sysdat", "pcapls"}}
    BY <1>0, <2>1, <2>2, <2>3 DEF Holds
  <2>5. QED
    BY <2>1, <2>3, <2>4, LoadingGoesOn
<1>4. CASE LoadingWith({"sysdat"}, <<l2, u2, u1>>)
  <2> DEFINE p == <<l2, u2, u1>>
  <2>1. p \in Seq(Calls) /\ p # << >> /\ p[1] \in LoadCalls /\ p[1] = l2 /\ Tail(p) = <<u2, u1>>
        /\ Tail(p) \in Seq(Calls)
    BY TuplesAre
  <2> HIDE DEF p
  <2>2. todo["main"] = p \o StartScript /\ held = {<<"main", "sysdat", "w">>}
    BY <1>4 DEF LoadingWith, p
  <2>3. /\ a = "main" /\ UNCHANGED <<setup, life, state, cancelled, level, asleep, slots, current, gone, stops, left>>
        /\ todo' \in [Actors -> Seq(Calls)] /\ todo'["main"] = Tail(p) \o StartScript
        /\ \A b \in Actors : b # "main" => todo'[b] = << >>
        /\ p[1].op = "lock" => held' = IF Holds(a, p[1].on, "w") THEN held ELSE held \cup {<<a, p[1].on, p[1].mode>>}
    BY <2>1, <2>2, LoadingActs
  <2>4. held' = {<<"main", l, "w">> : l \in {"sysdat", "pcapls"}}
    BY <1>0, <2>1, <2>2, <2>3 DEF Holds
  <2>5. QED
    BY <2>1, <2>3, <2>4, LoadingGoesOn
<1>5. CASE LoadingWith({"sysdat", "pcapls"}, <<t, u2, u1>>)
  <2> DEFINE p == <<t, u2, u1>>
  <2>1. p \in Seq(Calls) /\ p # << >> /\ p[1] \in LoadCalls /\ p[1] = t /\ Tail(p) = <<u2, u1>>
        /\ Tail(p) \in Seq(Calls)
    BY TuplesAre
  <2> HIDE DEF p
  <2>2. todo["main"] = p \o StartScript /\ held = {<<"main", l, "w">> : l \in {"sysdat", "pcapls"}}
    BY <1>5 DEF LoadingWith, p
  <2>3. /\ a = "main" /\ UNCHANGED <<setup, life, state, cancelled, level, asleep, slots, current, gone, stops, left>>
        /\ todo' \in [Actors -> Seq(Calls)] /\ todo'["main"] = Tail(p) \o StartScript
        /\ \A b \in Actors : b # "main" => todo'[b] = << >>
        /\ p[1].op = "touch" => held' = held
    BY <2>1, <2>2, LoadingActs
  <2>4. held' = {<<"main", l, "w">> : l \in {"sysdat", "pcapls"}}
    BY <1>0, <2>1, <2>2, <2>3
  <2>5. QED
    BY <2>1, <2>3, <2>4, LoadingGoesOn
<1>6. CASE LoadingWith({"sysdat", "pcapls"}, <<u2, u1>>)
  <2> DEFINE p == <<u2, u1>>
  <2>1. p \in Seq(Calls) /\ p # << >> /\ p[1] \in LoadCalls /\ p[1] = u2 /\ Tail(p) = <<u1>>
        /\ Tail(p) \in Seq(Calls)
    BY TuplesAre
  <2> HIDE DEF p
  <2>2. todo["main"] = p \o StartScript /\ held = {<<"main", "sysdat", "w">>, <<"main", "pcapls", "w">>}
    BY <1>6 DEF LoadingWith, p
  <2>3. /\ a = "main" /\ UNCHANGED <<setup, life, state, cancelled, level, asleep, slots, current, gone, stops, left>>
        /\ todo' \in [Actors -> Seq(Calls)] /\ todo'["main"] = Tail(p) \o StartScript
        /\ \A b \in Actors : b # "main" => todo'[b] = << >>
        /\ p[1].op = "unlock" => held' = {h \in held : h[1] # a \/ h[2] # p[1].on}
    BY <2>1, <2>2, LoadingActs
  <2>4. held' = {<<"main", l, "w">> : l \in {"sysdat"}}
    BY <1>0, <2>1, <2>2, <2>3
  <2>5. QED
    BY <2>1, <2>3, <2>4, LoadingGoesOn
<1>7. CASE LoadingWith({"sysdat"}, <<u1>>)
  <2> DEFINE p == <<u1>>
  <2>1. p \in Seq(Calls) /\ p # << >> /\ p[1] \in LoadCalls /\ p[1] = u1 /\ Tail(p) = << >>
    BY TuplesAre
  <2> HIDE DEF p
  <2>2. todo["main"] = p \o StartScript /\ held = {<<"main", "sysdat", "w">>}
    BY <1>7 DEF LoadingWith, p
  <2>3. /\ a = "main" /\ UNCHANGED <<setup, life, state, cancelled, level, asleep, slots, current, gone, stops, left>>
        /\ todo' \in [Actors -> Seq(Calls)] /\ todo'["main"] = Tail(p) \o StartScript
        /\ \A b \in Actors : b # "main" => todo'[b] = << >>
        /\ p[1].op = "unlock" => held' = {h \in held : h[1] # a \/ h[2] # p[1].on}
    BY <2>1, <2>2, LoadingActs
  <2>4. held' = {}
    BY <1>0, <2>1, <2>2, <2>3
  <2>5. StartScript \in Seq(Calls)
    BY StartIs DEF LockTypes
  <2>6. todo'["main"] = StartScript'
    BY <2>1, <2>3, <2>5, ScriptsStay, ConcatEmptySeq
  <2>7. LockTypes'
    BY <2>3 DEF LockTypes
  <2>8. /\ ~ gone' /\ stops' = {} /\ asleep' = {} /\ cancelled' = {} /\ current' = "HALT" /\ ~ left'
        /\ life' = [x \in Threads |-> "none"] /\ state' = [x \in Threads |-> "ready"]
    BY <2>3 DEF Loading
  <2>9. Loaded'
    BY <2>3, <2>4, <2>6, <2>7, <2>8 DEF Loaded
  <2>10. Loaded' => Working'
    BY LoadedWorks, PTL
  <2>11. QED
    BY <2>7, <2>9, <2>10
<1>8. QED
  BY <1>1, <1>2, <1>3, <1>4, <1>5, <1>6, <1>7 DEF Loading

\* All steps of an actor.
LEMMA StepWorks ==
    ASSUME LockTypes, Working, NEW a \in Actors, todo[a] # << >>, Step(a)
    PROVE  LockTypes' /\ (Working' \/ Over')
<1>1. CASE TakeLock(a) \/ TouchLock(a) \/ Release(a)
  BY <1>1, TakeLockWorks, TouchLockWorks, ReleaseWorks
<1>2. CASE UsePuffer(a) \/ FallAsleep(a) \/ Resume(a)
  BY <1>2, UsePufferWorks, FallAsleepWorks
<1>3. CASE StartThread(a) \/ StopThread(a) \/ Await(a) \/ GiveUp(a)
  BY <1>3, StartThreadWorks, StopThreadWorks, AwaitWorks
<1>4. CASE Place(a) \/ FindSniffer(a) \/ Enter(a)
  BY <1>4, PlaceWorks, FindSnifferWorks, EnterWorks
<1>5. CASE Fire(a)
  BY <1>5, FireWorks
<1>6. CASE Open(a) \/ FailToOpen(a) \/ Capture(a)
  BY <1>6, CaptureWorks, FailToOpenWorks
<1>7. QED
  BY <1>1, <1>2, <1>3, <1>4, <1>5, <1>6 DEF Step

\* All steps.
LEMMA LocksStep == LocksInv /\ [LocksNext]_locks => LocksInv'
<1> SUFFICES ASSUME LocksInv, [LocksNext]_locks PROVE LocksInv'
  OBVIOUS
<1>1. LockTypes /\ (Loading \/ Working \/ Over)
  BY DEF LocksInv
<1>2. CASE UNCHANGED locks
  <2>1. StartScript' = StartScript
    BY <1>2, ScriptsStay DEF locks
  <2>2. LockTypes'
    BY <1>1, <1>2 DEF LockTypes, locks
  <2>3. CASE Loading
    BY <1>2, <2>1, <2>2, <2>3 DEF LocksInv, Loading, LoadingWith, locks
  <2>4. CASE Working
    <3>1. ~ gone' /\ Scripted'
      BY <1>2, <2>4 DEF Working, Scripted, ScriptOf, locks
    <3>2. Held' /\ Exclusive' /\ Returned'
      BY <1>2, <2>4 DEF Working, Held, Exclusive, Returned, Holds, locks
    <3>3. Sleepers' /\ OnlyTheLivingAct' /\ LeakNeedsTwoStops'
      BY <1>2, <2>4 DEF Working, Sleepers, Full, Empty, OnlyTheLivingAct, LeakNeedsTwoStops, LockIsLeaked, Holds, locks
    <3>4. StartsFresh' /\ Started'
      BY <1>2, <2>4 DEF Working, StartsFresh, Started, Starting, locks
    <3>5. StopsInOrder' /\ FindsAll'
      BY <1>2, <2>4 DEF Working, StopsInOrder, FindsAll, Settled, locks
    <3>6. QED
      BY <2>2, <3>1, <3>2, <3>3, <3>4, <3>5 DEF LocksInv, Working
  <2>5. CASE Over
    BY <1>2, <2>2, <2>5 DEF LocksInv, Over, locks
  <2>6. QED
    BY <1>1, <2>3, <2>4, <2>5
<1>3. ASSUME NEW a \in Actors, Step(a) PROVE LocksInv'
  <2>1. todo[a] # << >>
    BY <1>3 DEF Step
  <2>2. QED
    BY <1>1, <1>3, <2>1, LoadingKept, StepWorks DEF LocksInv, Over
<1>4. ASSUME NEW t \in Threads, NextRound(t) \/ EndThread(t) \/ Die(t) PROVE LocksInv'
  <2>1. CASE Working
    BY <1>1, <1>4, <2>1, NextRoundWorks, EndThreadWorks, DieWorks DEF LocksInv
  <2>2. CASE Loading
    BY <1>4, <2>2 DEF Loading, NextRound, EndThread, Die
  <2>3. CASE Over
    BY <1>4, <2>3, NamesDiffer DEF Over, NextRound, EndThread, Die
  <2>4. QED
    BY <1>1, <2>1, <2>2, <2>3
<1>5. CASE CallKill
  <2>1. CASE Working
    BY <1>1, <1>5, <2>1, CallKillWorks DEF LocksInv
  <2>2. CASE Loading
    <3>1. \A p \in Seq(Calls) : p # << >> => p \o StartScript # << >>
      BY <1>1, StartIs, FirstOf DEF LockTypes
    <3>2. todo["main"] # << >>
      BY <2>2, <3>1, TuplesAre DEF Loading, LoadingWith
    <3>3. QED
      BY <1>5, <3>2 DEF CallKill
  <2>3. CASE Over
    BY <1>5, <2>3 DEF Over, CallKill
  <2>4. QED
    BY <1>1, <2>1, <2>2, <2>3
<1>6. CASE Stuck
  BY <1>2, <1>6 DEF Stuck
<1>7. QED
  BY <1>2, <1>3, <1>4, <1>5, <1>6 DEF LocksNext

\* The invariant of the locks.
LEMMA LocksInvariance == LocksSpec => []LocksInv
BY InitLocksInv, LocksStep, PTL DEF LocksSpec

-----------------------------------------------------------------------------
(* Who waits for whom. *)

\* Who is waited for holds the lock.
LEMMA BlockersAre ==
    ASSUME NEW a, NEW l, NEW mode, NEW b \in Blockers(a, l, mode)
    PROVE  ~ Holds(a, l, "w") /\ \E h \in held : h[1] = b /\ h[2] = l /\ (h[3] = "w" \/ mode = "w")
<1>1. ~ Holds(a, l, "w")
  BY DEF Blockers
<1>2. QED
  BY <1>1 DEF Blockers

\* Who waits, waits for the relayer's table, for those who read it, for the leaked
\* lock of the sniffers' table, for a thread that died with its lock, or at the puffer.
LEMMA EdgesAre ==
    ASSUME LockTypes, Working, NEW a \in Actors, NEW b \in WaitsFor(a)
    PROVE  /\ todo[a] # << >>
           /\ \/ a \in Users /\ b = "relayer" /\ Holds(b, "pcapls", "w")
              \/ a = "relayer" /\ b \in Users /\ Holds(b, "pcapls", "r") /\ ~ Holds(a, "pcapls", "w")
              \/ a \notin stops /\ b \in Threads /\ life[b] = "dead"
              \/ a \in Users /\ b \in stops /\ Holds(b, "listeners", "w") /\ a # b
              \/ a = "relayer" /\ b = "filewriter" /\ Full
              \/ a = "filewriter" /\ b = "relayer" /\ Empty
<1>1. todo[a] # << >>
  BY DEF WaitsFor
<1>2. PICK op : op = Head(todo[a]).op
  OBVIOUS
<1>3. CASE op \in {"lock", "touch", "print"}
  <2>1. b \in Blockers(a, On(a), Head(todo[a]).mode)
    BY <1>1, <1>2, <1>3 DEF WaitsFor
  <2>2. PICK h \in held : /\ h[1] = b /\ h[2] = On(a) /\ (h[3] = "w" \/ Head(todo[a]).mode = "w")
                          /\ ~ Holds(a, On(a), "w")
    BY <2>1, BlockersAre
  <2>3. \/ a = "relayer" /\ On(a) = "pcapls"
        \/ a = "relayer" /\ On(a) \in {"accumulator", "mapped_var"}
        \/ a \in Users /\ On(a) = "pcapls" /\ Head(todo[a]).mode = "r"
        \/ a \in Users /\ On(a) \in {"sysdat", "listeners"}
        \/ a \in Actors \ stops /\ On(a) \in {"accumulator", "mapped_var"}
    <3>1. LockTypes /\ Scripted
      BY DEF Working
    <3>2. "filewriter" \notin stops /\ "interpreter" \notin stops
      BY NamesDiffer DEF LockTypes
    <3>3. CASE op = "lock"
      <4>1. \/ a = "relayer" /\ Head(todo[a]) = Lock("pcapls", "w")
            \/ a \in Users /\ Head(todo[a]) = Lock("pcapls", "r")
        BY <1>1, <1>2, <3>1, <3>3, WhoLocks DEF About
      <4>2. QED
        BY <4>1, Fields DEF On
    <3>4. CASE op = "touch"
      <4>1. \/ a = "relayer" /\ Head(todo[a]) \in {Touch("accumulator", "w"), Touch("mapped_var", "r")}
            \/ a \in Users /\ Head(todo[a]) \in {Touch("pcapls", "r"), Touch("sysdat", "w"), Touch("listeners", "r")}
        BY <1>1, <1>2, <3>1, <3>4, WhoLocks DEF About
      <4>2. QED
        BY <4>1, Fields DEF On
    <3>5. CASE op = "print"
      <4>1. \/ a \in {"filewriter", "interpreter"} /\ Head(todo[a]) \in {PrintIn("mapped_var", "r"), PrintIn("mapped_var", "w")}
            \/ a \in Sniffers \ stops /\ Head(todo[a]) = PrintIn("accumulator", "w")
        BY <1>1, <1>2, <3>1, <3>5, WhoLocks DEF About
      <4>2. On(a) \in {"accumulator", "mapped_var"} /\ a \in Actors \ stops
        BY <3>2, <4>1, Fields DEF On
      <4>3. QED
        BY <4>2
    <3>6. QED
      BY <1>3, <3>3, <3>4, <3>5
  <2>4. \/ h = <<"relayer", "pcapls", "w">>
        \/ \E u \in Users : h = <<u, "pcapls", "r">>
        \/ \E u \in stops : h = <<u, "listeners", "w">>
        \/ \E t \in Threads, l \in {"accumulator", "mapped_var", "signal"}, mode \in {"r", "w"} :
              h = <<t, l, mode>> /\ life[t] = "dead"
    BY DEF Working, Held
  <2>5. "relayer" \notin stops
    BY NamesDiffer DEF LockTypes
  <2>6. CASE h = <<"relayer", "pcapls", "w">>
    <3>1. b = "relayer" /\ On(a) = "pcapls" /\ Holds(b, "pcapls", "w") /\ a # "relayer"
      BY <2>2, <2>6 DEF Holds
    <3>2. QED
      BY <1>1, <2>3, <3>1
  <2>7. CASE \E u \in Users : h = <<u, "pcapls", "r">>
    <3>1. b \in Users /\ On(a) = "pcapls" /\ Holds(b, "pcapls", "r") /\ Head(todo[a]).mode = "w" /\ ~ Holds(a, "pcapls", "w")
      BY <2>2, <2>7 DEF Holds
    <3>2. QED
      BY <1>1, <2>3, <3>1
  <2>8. CASE \E u \in stops : h = <<u, "listeners", "w">>
    <3>1. b \in stops /\ On(a) = "listeners" /\ Holds(b, "listeners", "w") /\ a # b
      BY <2>2, <2>8 DEF Holds
    <3>2. QED
      BY <1>1, <2>3, <3>1
  <2>9. CASE \E t \in Threads, l \in {"accumulator", "mapped_var", "signal"}, mode \in {"r", "w"} :
              h = <<t, l, mode>> /\ life[t] = "dead"
    <3>1. b \in Threads /\ life[b] = "dead" /\ On(a) \in {"accumulator", "mapped_var", "signal"}
      BY <2>2, <2>9
    <3>2. QED
      BY <1>1, <2>3, <2>5, <3>1
  <2>10. QED
    BY <2>4, <2>6, <2>7, <2>8, <2>9
<1>4. CASE op \in {"find", "place"}
  <2>1. b \in Blockers(a, "listeners", "w")
    BY <1>1, <1>2, <1>4 DEF WaitsFor
  <2>2. PICK h \in held : h[1] = b /\ h[2] = "listeners" /\ ~ Holds(a, "listeners", "w")
    BY <2>1, BlockersAre
  <2>3. b \in stops /\ h = <<b, "listeners", "w">>
    BY <2>2 DEF Working, Held
  <2>4. a \in Users
    BY <1>1, <1>2, <1>4, WhoActs, NamesDiffer DEF About, Working, LockTypes
  <2>5. QED
    BY <1>1, <2>2, <2>3, <2>4 DEF Holds
<1>5. CASE op \notin {"lock", "touch", "print", "find", "place"} /\ a \in asleep
  <2>1. b = IF a = "relayer" THEN "filewriter" ELSE "relayer"
    BY <1>1, <1>2, <1>5 DEF WaitsFor
  <2>2. QED
    BY <1>1, <1>5, <2>1 DEF Working, Sleepers
<1>6. CASE op \notin {"lock", "touch", "print", "find", "place"} /\ a \notin asleep
  <2>1. op \in {"put", "get", "resume"} /\ b \in {h[1] : h \in {h \in held : h[2] = "signal"}}
    BY <1>1, <1>2, <1>6 DEF WaitsFor
  <2>2. PICK h \in held : h[1] = b /\ h[2] = "signal"
    BY <2>1
  <2>3. b \in Threads /\ life[b] = "dead"
    BY <2>2 DEF Working, Held
  <2>4. a \in {"relayer", "filewriter"}
    BY <1>1, <1>2, <2>1, WhoActs DEF About, Working
  <2>5. QED
    BY <1>1, <2>3, <2>4, NamesDiffer DEF LockTypes
<1>7. QED
  BY <1>3, <1>4, <1>5, <1>6

\* Nobody waits before START, or after a SHUTDOWN.
LEMMA NobodyWaits ==
    ASSUME LockTypes, Loading \/ Over, NEW a \in Actors
    PROVE  WaitsFor(a) = {}
<1>1. CASE todo[a] = << >>
  BY <1>1 DEF WaitsFor
<1>2. CASE todo[a] # << >>
  <2>1. Loading /\ a = "main"
    BY <1>2 DEF Loading, Over
  <2>2. PICK p \in Seq(Calls) : p # << >> /\ p[1] \in LoadCalls /\ todo["main"] = p \o StartScript
    BY <2>1, TuplesAre DEF Loading, LoadingWith
  <2>3. Head(todo[a]) \in LoadCalls
    BY <2>1, <2>2, StartIs, FirstOf DEF LockTypes
  <2>4. Head(todo[a]).op \in {"lock", "touch", "unlock"}
    BY <2>3, Fields DEF LoadCalls
  <2>5. \A h \in held : h[1] = "main" /\ Holds("main", h[2], "w")
    BY <2>1 DEF Loading, LoadingWith, Holds
  <2>6. Blockers(a, On(a), Head(todo[a]).mode) = {}
    <3>1. ASSUME NEW b \in Blockers(a, On(a), Head(todo[a]).mode) PROVE FALSE
      BY <2>1, <2>5, <3>1, BlockersAre
    <3>2. QED
      BY <3>1
  <2>7. asleep = {}
    BY <2>1 DEF Loading
  <2>8. QED
    BY <1>2, <2>4, <2>6, <2>7 DEF WaitsFor
<1>3. QED
  BY <1>1, <1>2

\* Nobody dead waits; who waits for the relayer's table waits for one that does not wait for
\* him, the lock of the sniffers' table has one holder, and the puffer is not full and empty.
LEMMA NoCircleLemma == LocksInv => NoCircularWait
<1> SUFFICES ASSUME LocksInv, NEW S \in SUBSET {a \in Actors : WaitsFor(a) # {}}, S # {},
                    \A a \in S : WaitsFor(a) \cap S # {}
             PROVE  FALSE
  BY DEF NoCircularWait
<1>1. LockTypes /\ Working
  <2>1. PICK a \in S : a \in Actors /\ WaitsFor(a) # {}
    OBVIOUS
  <2>2. QED
    BY <2>1, NobodyWaits DEF LocksInv
<1>2. ASSUME NEW a \in S
      PROVE  \E b \in S : b \in WaitsFor(a) /\ todo[b] # << >>
  <2>1. PICK b \in S : b \in WaitsFor(a)
    BY <1>2
  <2>2. todo[b] # << >>
    BY DEF WaitsFor
  <2>3. QED
    BY <2>1, <2>2
<1>3. ASSUME NEW a \in S
      PROVE  \E b \in S : \/ a \in Users /\ b = "relayer" /\ Holds(b, "pcapls", "w")
                          \/ a = "relayer" /\ b \in Users /\ Holds(b, "pcapls", "r")
                          \/ a \in Users /\ b \in Users /\ Holds(b, "listeners", "w") /\ a # b
                          \/ a = "relayer" /\ b = "filewriter" /\ Full
                          \/ a = "filewriter" /\ b = "relayer" /\ Empty
  <2>1. PICK b \in S : b \in WaitsFor(a) /\ todo[b] # << >>
    BY <1>2
  <2>2. ~ (b \in Threads /\ life[b] = "dead")
    BY <1>1, <2>1 DEF Working, OnlyTheLivingAct
  <2>3. stops \subseteq Users
    BY <1>1 DEF LockTypes
  <2>4. QED
    BY <1>1, <2>1, <2>2, <2>3, EdgesAre
<1>4. ~ (Full /\ Empty)
  BY LocksAssumption DEF Full, Empty
<1>5. \A a, b \in Users : Holds(a, "listeners", "w") /\ Holds(b, "listeners", "w") => a = b
  BY <1>1 DEF Working, Exclusive
<1>6. CASE "relayer" \in S
  <2>1. PICK b \in S : \/ b \in Users /\ Holds(b, "pcapls", "r")
                       \/ b = "filewriter" /\ Full
    BY <1>3, <1>6, NamesDiffer
  <2>2. CASE b = "filewriter" /\ Full
    BY <1>3, <1>4, <2>2, NamesDiffer
  <2>3. CASE b \in Users /\ Holds(b, "pcapls", "r")
    <3>1. ~ Holds("relayer", "pcapls", "w")
      BY <1>1, <2>3 DEF Working, Exclusive
    <3>2. PICK c \in S : c \in Users /\ Holds(c, "listeners", "w")
      BY <1>3, <2>3, <3>1, NamesDiffer
    <3>3. PICK d \in S : d \in Users /\ Holds(d, "listeners", "w") /\ c # d
      BY <1>3, <3>1, <3>2, NamesDiffer
    <3>4. QED
      BY <1>5, <3>2, <3>3
  <2>4. QED
    BY <2>1, <2>2, <2>3
<1>7. CASE "relayer" \notin S
  <2>1. PICK a \in S : TRUE
    OBVIOUS
  <2>2. PICK c \in S : c \in Users /\ Holds(c, "listeners", "w")
    BY <1>3, <1>7, <2>1
  <2>3. PICK d \in S : d \in Users /\ Holds(d, "listeners", "w") /\ c # d
    BY <1>3, <1>7, <2>2
  <2>4. QED
    BY <1>5, <2>2, <2>3
<1>8. QED
  BY <1>6, <1>7

\* If the relayer has its table, all that are alive are waited for by the living only, since
\* nobody was given up yet; and if not, who carries out a STOP waits for others who do so.
LEMMA StopServedLemma == LocksInv => StopIsServed
<1> SUFFICES ASSUME LocksInv, stops # {}, ~ gone, ~ TableIsLost
             PROVE  \E S \in SUBSET Alive : stops \subseteq S /\ \A a \in S : WaitsFor(a) \subseteq S
  BY DEF StopIsServed
<1>1. LockTypes /\ Working
  BY DEF LocksInv, Loading, Over
<1>2. \A t \in Threads : todo[t] # << >> => life[t] \in {"init", "loop"}
  BY <1>1 DEF Working, OnlyTheLivingAct
<1>3. stops \subseteq Users
  BY <1>1 DEF LockTypes
<1>4. ASSUME NEW a \in stops PROVE a \in Alive /\ a \in Users /\ a \in Actors
  <2>1. a \in Users /\ a \in Actors
    BY <1>3, NamesDiffer
  <2>2. todo[a] # << >>
    BY <1>1, <2>1, IdleStopsNot
  <2>3. QED
    BY <1>2, <2>1, <2>2, NamesDiffer DEF Alive, Users
<1>5. CASE ~ Holds("relayer", "pcapls", "w")
  <2>1. ASSUME NEW a \in stops, NEW b \in WaitsFor(a) PROVE b \in stops
    <3>1. a \in Users /\ a \in Actors
      BY <1>4
    <3>2. QED
      BY <1>1, <1>5, <3>1, EdgesAre, NamesDiffer
  <2>2. stops \in SUBSET Alive
    BY <1>4
  <2>3. QED
    BY <2>1, <2>2
<1>6. CASE Holds("relayer", "pcapls", "w") /\ ~ left
  <2>1. life["relayer"] \in {"init", "loop"}
    <3>1. life["relayer"] # "dead"
      BY <1>1, <1>6 DEF Working, StopsInOrder
    <3>2. Has(todo["relayer"], Unlock("pcapls"))
      BY <1>1, <1>6, <3>1 DEF Working, Returned
    <3>3. todo["relayer"] # << >>
      BY <3>2, NothingLeft
    <3>4. QED
      BY <1>2, <3>3, NamesDiffer
  <2>2. ~ Settled
    BY <1>6, <2>1 DEF Settled
  <2>3. \A t \in Threads : life[t] # "dead"
    BY <1>1, <2>2 DEF Working, StopsInOrder
  <2>4. life["filewriter"] \in {"init", "loop"}
    <3>1. ~ Starting
      BY <1>1 DEF Working, StartsFresh
    <3>2. QED
      BY <1>1, <2>2, <3>1 DEF Working, Started, StopsInOrder
  <2>5. Alive \subseteq Actors
    BY NamesDiffer DEF Alive
  <2>6. "relayer" \in Alive /\ "filewriter" \in Alive
    BY <2>1, <2>4, NamesDiffer DEF Alive
  <2>7. ASSUME NEW a \in Alive, NEW b \in WaitsFor(a) PROVE b \in Alive
    <3>1. a \in Actors
      BY <2>5
    <3>2. ~ (b \in Users /\ Holds(b, "pcapls", "r"))
      BY <1>1, <1>6 DEF Working, Exclusive
    <3>3. b = "relayer" \/ b \in stops \/ b = "filewriter"
      BY <1>1, <2>3, <3>1, <3>2, EdgesAre
    <3>4. QED
      BY <1>4, <2>6, <3>3
  <2>8. Alive \in SUBSET Alive /\ stops \subseteq Alive
    BY <1>4
  <2>9. QED
    BY <2>7, <2>8
<1>7. QED
  BY <1>1, <1>5, <1>6 DEF TableIsLost, LockTypes

\* Every field keeps its type, and every script is made of calls that there are.
THEOREM LocksTypeCorrect == LocksSpec => []LockTypes
<1>1. LocksInv => LockTypes
  BY DEF LocksInv
<1>2. QED
  BY <1>1, LocksInvariance, PTL

\* For every set-up and size of the puffer: among those who wait there is always one
\* who waits for none of them, though SETUP, START and STOP, the relayer, the sniffers
\* and the threads that were cancelled take the tables' locks in different orders.
THEOREM NobodyWaitsInACircle == LocksSpec => []NoCircularWait
BY LocksInvariance, NoCircleLemma, PTL

\* For every set-up: who carries out a STOP waits only for threads that are alive, unless
\* an earlier STOP left the relayer behind with the listeners' table locked.
THEOREM StopsAreServed == LocksSpec => []StopIsServed
BY LocksInvariance, StopServedLemma, PTL

\* For every set-up: the early return of _conlistener_stop leaves the sniffers' table
\* locked only if two contexts carried out a STOP.
THEOREM LeaksNeedTwoStops == LocksSpec => []LeakNeedsTwoStops
<1>1. LocksInv => LeakNeedsTwoStops
  <2>1. Loading => ~ LockIsLeaked
    <3>1. Loading => \A h \in held : h[2] \in {"sysdat", "pcapls"}
      BY DEF Loading, LoadingWith
    <3>2. QED
      BY <3>1 DEF LockIsLeaked, Holds
  <2>2. Over => ~ LockIsLeaked
    BY DEF Over, LockIsLeaked, Holds
  <2>3. QED
    BY <2>1, <2>2 DEF LocksInv, Working, LeakNeedsTwoStops
<1>2. QED
  BY <1>1, LocksInvariance, PTL
=============================================================================
