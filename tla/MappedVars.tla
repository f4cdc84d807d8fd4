----------------------------- MODULE MappedVars -----------------------------
(***************************************************************************)
(* What NTRT promises about mapped variables: those that the configuration *)
(* names are known once it is read, but for what exceeds the capacity; a   *)
(* command sets one of them; a row shows the variables of its listener as  *)
(* they are at one moment, and 0 for those that are not known.  Tables     *)
(* implements it with a table under a lock.                                *)
(***************************************************************************)
EXTENDS Integers, Sequences, FiniteSets

CONSTANTS Listeners,   \* the pcap listeners
          Confs,       \* the configurations: variables each listener names and shows
          Ids,         \* identifiers, 0 where none is given
          Values,      \* values a command may set
          Capacity     \* so many variables can be known

VARIABLES conf,        \* the configuration
          known,       \* identifiers of the known variables
          open,        \* the configuration is read
          value,       \* their values
          row          \* what was shown last for each listener

vars == <<conf, known, open, value, row>>

Named == (UNION {{conf[l].ids[i] : i \in DOMAIN conf[l].ids} : l \in Listeners}) \ {0}

\* What a row shows for listener l.
Shown(l) ==
    [i \in 1 .. conf[l].num |->
        IF conf[l].ids[i] \in known THEN value[conf[l].ids[i]] ELSE 0]

Init ==
    /\ conf \in Confs
    /\ known = {}
    /\ open = FALSE
    /\ value = [id \in Ids |-> 0]
    /\ row = [l \in Listeners |-> << >>]

Learn ==
    /\ ~ open /\ Cardinality(known) < Capacity
    /\ \E id \in Named \ known : known' = known \cup {id}
    /\ UNCHANGED <<conf, open, value, row>>

Open ==
    /\ ~ open
    /\ known = Named \/ Cardinality(known) = Capacity
    /\ open' = TRUE
    /\ UNCHANGED <<conf, known, value, row>>

Set ==
    /\ open
    /\ \E id \in known, v \in Values : value' = [value EXCEPT ![id] = v]
    /\ UNCHANGED <<conf, known, open, row>>

Show(l) ==
    /\ open
    /\ row' = [row EXCEPT ![l] = Shown(l)]
    /\ UNCHANGED <<conf, known, open, value>>

Next == Learn \/ Open \/ Set \/ \E l \in Listeners : Show(l)

Spec == Init /\ [][Next]_vars
=============================================================================
