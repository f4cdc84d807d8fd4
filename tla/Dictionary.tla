----------------------------- MODULE Dictionary -----------------------------
(***************************************************************************)
(* dictionary of etc/etc_dict.c: keys and values in slots.  A hash is      *)
(* compared before the string it was made of, which decides nothing more.  *)
(***************************************************************************)
EXTENDS Naturals, Sequences, SequencesExt, FiniteSets

CONSTANTS MinSize,   \* DICTMINSZ, 128
          NULL

Empty(n) == [i \in 1 .. n |-> NULL]

dictionary_new == [n |-> 0, key |-> Empty(MinSize), val |-> Empty(MinSize)]

\* The first place of an item in a sequence, 0 if there is none, and the slot of a key.
Place(s, item) == SelectInSeq(s, LAMBDA t : t = item)
SlotOf(d, key) == Place(d.key, key)

dictionary_get(d, key, def) == IF SlotOf(d, key) = 0 THEN def ELSE d.val[SlotOf(d, key)]

mem_double(d) ==
    IF d.n = Len(d.key) THEN [d EXCEPT !.key = @ \o Empty(d.n), !.val = @ \o Empty(d.n)] ELSE d

\* The search begins behind the first n slots and wraps.
EmptySlot(d) ==
    LET behind == Place(SubSeq(d.key, d.n + 1, Len(d.key)), NULL)
    IN  IF behind # 0 THEN d.n + behind ELSE SlotOf(d, NULL)

\* NULL is a value like another: the key stays, or gets a slot, with nothing in it.
dictionary_set(d, key, val) ==
    LET grown == mem_double(d)
        slot == EmptySlot(grown)
    IN  IF d.n > 0 /\ SlotOf(d, key) # 0 THEN [d EXCEPT !.val[SlotOf(d, key)] = val]
        ELSE [grown EXCEPT !.key[slot] = key, !.val[slot] = val, !.n = @ + 1]

\* Mutant of dictionary_unset: the entry is still counted.
dictionary_unset_uncounted(d, key) ==
    IF SlotOf(d, key) = 0 THEN d ELSE [d EXCEPT !.key[SlotOf(d, key)] = NULL, !.val[SlotOf(d, key)] = NULL]

dictionary_unset(d, key) ==
    IF SlotOf(d, key) = 0 THEN d
    ELSE [d EXCEPT !.key[SlotOf(d, key)] = NULL, !.val[SlotOf(d, key)] = NULL, !.n = @ - 1]

\* The slots in use, what a dictionary stands for, and its keys in the order of their slots.
Used(d) == {i \in DOMAIN d.key : d.key[i] # NULL}
Keys(d) == {d.key[i] : i \in DOMAIN d.key} \ {NULL}
MapOf(d) == [key \in Keys(d) |-> dictionary_get(d, key, NULL)]
Put(map, key, val) == [k \in DOMAIN map \cup {key} |-> IF k = key THEN val ELSE map[k]]
Listed(d) == SelectSeq(d.key, LAMBDA key : key # NULL)
=============================================================================
