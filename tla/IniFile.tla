------------------------------ MODULE IniFile -------------------------------
(***************************************************************************)
(* etc/etc_iniparser.c: a file is read line by line into a dictionary,     *)
(* which is then changed, looked at and written.  A line is a sequence of  *)
(* words and signs without its newline; the backslash at the end of a line *)
(* joins the next one to it.  The entry of a section is its name, that of  *)
(* a key has the section, a colon and the key.                             *)
(*                                                                         *)
(* Of a line of blanks the parser looks at the byte before its array,      *)
(* which is taken for no backslash.  means is a history variable: what the *)
(* dictionary should say once the file was read.                           *)
(***************************************************************************)
EXTENDS Dictionary, Functions

CONSTANTS Lines, Lower,     \* Lower: what tolower makes of the words
          Entries, Values,  \* what iniparser_set and iniparser_unset are called with
          MaxLines, MaxKeys \* bounds

VARIABLES phase,    \* loading, last (no more lines), loaded or refused
          load,     \* the variables of iniparser_load
          file,     \* history: the lines read so far
          means

vars == <<phase, load, file, means>>

Comments == {"#", ";"}
Quotes == {"\"", "'"}
Signs == {"[", "]", "=", "\\"} \cup Comments \cup Quotes
strlwc(text) == [i \in DOMAIN text |-> Lower[text[i]]]
Until(text, sign) == IF Place(text, sign) = 0 THEN text ELSE SubSeq(text, 1, Place(text, sign) - 1)

-----------------------------------------------------------------------------
\* iniparser_line: the status of a line, and the texts it holds.
Status(text) ==
    CASE text = << >> -> "LINE_EMPTY"
      [] text # << >> /\ text[1] \in Comments -> "LINE_COMMENT"
      [] text # << >> /\ text[1] = "[" /\ Last(text) = "]" -> "LINE_SECTION"
      [] Place(text, "=") > 1 /\ text[1] \notin Comments /\ ~ (text[1] = "[" /\ Last(text) = "]") -> "LINE_VALUE"
      [] OTHER -> "LINE_ERROR"

SectionOf(text) == strlwc(Until(Tail(text), "]"))
KeyOf(text) == strlwc(Until(text, "="))

\* What stands between quotes, of which the second may be missing, or up to a comment.  Two
\* quotes are no value, also when they were quoted themselves.
ValueOf(text) ==
    LET rest == SubSeq(text, Place(text, "=") + 1, Len(text))
        quoted == Len(rest) > 1 /\ rest[1] \in Quotes /\ rest[2] # rest[1]
        value == IF quoted THEN Until(Tail(rest), rest[1]) ELSE Until(Until(rest, "#"), ";")
    IN  IF value \in {<<q, q>> : q \in Quotes} THEN << >> ELSE value

Start == [dict |-> dictionary_new, line |-> << >>, section |-> << >>, errs |-> 0]

\* Mutant of Take: the line that was joined is kept.
TakeKeeps(l, text) ==
    LET section == IF SectionOf(text) = << >> THEN l.section ELSE SectionOf(text)
    IN  CASE Status(text) = "LINE_SECTION" ->
               [l EXCEPT !.section = section, !.errs = 0, !.dict = dictionary_set(@, section, NULL)]
          [] Status(text) = "LINE_VALUE" ->
               [l EXCEPT !.errs = 0,
                         !.dict = dictionary_set(@, l.section \o <<":">> \o KeyOf(text), ValueOf(text))]
          [] Status(text) = "LINE_ERROR" -> [l EXCEPT !.errs = @ + 1]
          [] OTHER -> l

\* What becomes of a complete line.  An empty section name leaves the name as it was, and
\* every entry that is set forgets the errors before it.
Take(l, text) ==
    LET section == IF SectionOf(text) = << >> THEN l.section ELSE SectionOf(text)
        done == [l EXCEPT !.line = << >>]
    IN  CASE Status(text) = "LINE_SECTION" ->
               [done EXCEPT !.section = section, !.errs = 0, !.dict = dictionary_set(@, section, NULL)]
          [] Status(text) = "LINE_VALUE" ->
               [done EXCEPT !.errs = 0,
                            !.dict = dictionary_set(@, l.section \o <<":">> \o KeyOf(text), ValueOf(text))]
          [] Status(text) = "LINE_ERROR" -> [done EXCEPT !.errs = @ + 1]
          [] OTHER -> done

\* One turn of the loop of iniparser_load, for a line that ends with a newline.
ReadInto(l, text) ==
    LET line == l.line \o text
    IN  IF line = << >> THEN l
        ELSE IF Last(line) = "\\" THEN [l EXCEPT !.line = Front(line)]
        ELSE Take(l, line)

-----------------------------------------------------------------------------
Init == phase = "loading" /\ load = Start /\ file = << >> /\ means = << >>

Read(text) ==
    /\ phase = "loading" /\ Len(file) < MaxLines
    /\ load' = ReadInto(load, text)
    /\ file' = Append(file, text)
    /\ UNCHANGED <<phase, means>>

\* A line without a newline, because it is too long or the last one: refused, unless it
\* is a single character, which is not even looked at.
ReadUnended(text) ==
    /\ phase = "loading" /\ text # << >>
    /\ phase' = IF load.line = << >> /\ Len(text) = 1 /\ text[1] \in Signs THEN "last" ELSE "refused"
    /\ UNCHANGED <<load, file, means>>

\* The lines as the program's user reads them: joined, in a section, setting an entry.  A
\* line goes on in the next one as long as all that was joined ends in a backslash.
Continued(text) == text # << >> /\ Last(text) = "\\"
JoinedSoFar(f) ==
    LET text[i \in DOMAIN f] ==
            IF i > 1 /\ Continued(text[i - 1]) THEN Front(text[i - 1]) \o f[i] ELSE f[i]
    IN  text
Joined(f) == [i \in {k \in DOMAIN f : ~ Continued(JoinedSoFar(f)[k])} |-> JoinedSoFar(f)[i]]
SectionAt(lines, i) ==
    LET named == {j \in DOMAIN lines : j <= i /\ Status(lines[j]) = "LINE_SECTION" /\ SectionOf(lines[j]) # << >>}
    IN  IF named = {} THEN << >> ELSE SectionOf(lines[CHOOSE j \in named : \A k \in named : k <= j])
EntryAt(lines, i) ==
    IF Status(lines[i]) = "LINE_SECTION" THEN SectionAt(lines, i)
    ELSE SectionAt(lines, i) \o <<":">> \o KeyOf(lines[i])
Meaning(lines) ==
    LET set == {i \in DOMAIN lines : Status(lines[i]) \in {"LINE_SECTION", "LINE_VALUE"}}
        of(e) == {i \in set : EntryAt(lines, i) = e}
    IN  [e \in {EntryAt(lines, i) : i \in set} |->
            LET i == CHOOSE i \in of(e) : \A j \in of(e) : j <= i
            IN  IF Status(lines[i]) = "LINE_SECTION" THEN NULL ELSE ValueOf(lines[i])]
EndsInError(lines) ==
    LET told == {i \in DOMAIN lines : Status(lines[i]) \notin {"LINE_EMPTY", "LINE_COMMENT"}}
    IN  told # {} /\ Status(lines[CHOOSE i \in told : \A j \in told : j <= i]) = "LINE_ERROR"

EndOfFile ==
    /\ phase \in {"loading", "last"}
    /\ phase' = IF load.errs > 0 THEN "refused" ELSE "loaded"
    /\ means' = Meaning(Joined(file))
    /\ file' = << >>
    /\ load' = [Start EXCEPT !.dict = load.dict]

\* An entry that is not there is added, and NULL is a value: the comments of iniparser_set and
\* dictionary_set say otherwise, see README 3.3.
iniparser_set(entry, val) ==
    /\ phase = "loaded" /\ (load.dict.n < MaxKeys \/ entry \in DOMAIN means)
    /\ load' = [load EXCEPT !.dict = dictionary_set(@, strlwc(entry), val)]
    /\ means' = Put(means, strlwc(entry), val)
    /\ UNCHANGED <<phase, file>>

iniparser_unset(entry) ==
    /\ phase = "loaded"
    /\ load' = [load EXCEPT !.dict = dictionary_unset(@, strlwc(entry))]
    /\ means' = Restrict(means, DOMAIN means \ {strlwc(entry)})
    /\ UNCHANGED <<phase, file>>

IsKey(entry) == Place(entry, ":") # 0

Next ==
    \/ \E text \in Lines : Read(text) \/ ReadUnended(text)
    \/ EndOfFile
    \/ \E entry \in Entries : iniparser_unset(entry)
    \/ \E entry \in Entries, val \in Values \cup {NULL} : iniparser_set(entry, val)

Spec == Init /\ [][Next]_vars

-----------------------------------------------------------------------------
\* The getters: sections, and the keys of one, found by the text before the colon.
Sections(d) == SelectSeq(Listed(d), LAMBDA key : ~ IsKey(key))
getsecname(d, i) == Sections(d)[i]

\* Mutant of getseckeys: the colon is not compared.
getseckeys_short(d, s) == SelectSeq(Listed(d), LAMBDA key : IsPrefix(s, key))

getseckeys(d, s) == SelectSeq(Listed(d), LAMBDA key : IsPrefix(s \o <<":">>, key))

\* iniparser_dump_ini, line by line.
Shown(d, key) == IF dictionary_get(d, key, NULL) = NULL THEN << >> ELSE dictionary_get(d, key, NULL)
dumpsection_ini(d, s) ==
    LET keys == getseckeys(d, s)
    IN  << << >>, <<"[">> \o s \o <<"]">> >>
        \o [i \in DOMAIN keys |-> SubSeq(keys[i], Len(s) + 2, Len(keys[i])) \o <<"=">> \o Shown(d, keys[i])]
        \o << << >> >>
dump_ini(d) ==
    IF Sections(d) = << >>
    THEN [i \in DOMAIN Listed(d) |-> Listed(d)[i] \o <<"=">> \o dictionary_get(d, Listed(d)[i], NULL)]
    ELSE FlattenSeq([i \in DOMAIN Sections(d) |-> dumpsection_ini(d, getsecname(d, i))])

\* At every line that may be the last one the dictionary says what the lines say, read as
\* joined lines in sections with the last value of each key; and the file will be refused
\* if and only if the last line that is neither empty nor a comment makes no sense: an
\* error before another entry is forgotten.
LoadReadsLines ==
    phase = "loading" => MapOf(load.dict) = Meaning(Joined(file)) /\ (load.errs > 0) = EndsInError(Joined(file))

\* A loaded dictionary is a map under any calls: no key is in two slots, n counts them, so
\* that the search for an empty slot ends, and a lookup finds what was set last, also under a
\* key that was not there before and also when that is NULL.  (The comment of iniparser_set has
\* the first refused with -1, that of dictionary_set the second deleted.)
DictionaryIsMap ==
    LET d == load.dict
    IN  /\ \A i, j \in Used(d) : d.key[i] = d.key[j] => i = j
        /\ d.n = Cardinality(Used(d)) /\ d.n <= Len(d.key)
        /\ phase = "loaded" => MapOf(d) = means

\* "Setting the variable content to NULL is equivalent to deleting the variable from the
\* dictionary" (etc_dict.c:214-216).  It is not: the key keeps its slot, or even gets one.
NullDeletes ==
    [][\A entry \in Entries :
         iniparser_set(entry, NULL)
           => MapOf(load'.dict) = MapOf(dictionary_unset(load.dict, strlwc(entry)))]_vars

\* The line that a dump writes for a key, and the entry that it should become.
InLine(d, key) == IF Sections(d) = << >> THEN key ELSE SubSeq(key, Place(key, ":") + 1, Len(key))
LineOf(d, key) == InLine(d, key) \o <<"=">> \o Shown(d, key)
Dumped(d) ==
    {key \in Keys(d) : Sections(d) = << >> \/ ~ IsKey(key) \/ Until(key, ":") \in Keys(d)}
Becomes(d, key) == IF Sections(d) = << >> THEN <<":">> \o key ELSE key

\* Entries whose line is read as something else: one that goes on in the next line, that looks
\* like a section or like nothing, a NULL that is printed, and a section without a name that
\* does not come first.
Unfit(d, key) ==
    IF IsKey(key)
    THEN \/ Status(LineOf(d, key)) # "LINE_VALUE" \/ Continued(LineOf(d, key))
         \/ Sections(d) = << >> /\ dictionary_get(d, key, NULL) = NULL
    ELSE key = << >> /\ Sections(d)[1] # << >>

\* Values that are read as they are written: a key's without comment signs and without a quote
\* in front, and none for a section.
Plain(key, val) ==
    IF IsKey(key) THEN /\ val # NULL /\ {val[i] : i \in DOMAIN val} \cap Comments = {}
                       /\ val # << >> => val[1] \notin Quotes
    ELSE val = NULL

\* A dictionary that was dumped and loaded again has the keys it had, but for those whose
\* section is not there (without any section all keys get another colon), and the same plain
\* values, unless an unfit entry is among them.  A value with a comment sign, which quotes or
\* iniparser_set let in, is dumped without quotes and comes back shorter, but harms no other entry.
DumpIsLoadable ==
    LET d == load.dict
        again == FoldLeft(ReadInto, Start, dump_ini(d))
    IN  phase = "loaded" /\ (\A key \in Dumped(d) : ~ Unfit(d, key)) =>
          /\ again.errs = 0
          /\ Keys(again.dict) = {Becomes(d, key) : key \in Dumped(d)}
          /\ \A key \in Dumped(d) :
                Plain(key, dictionary_get(d, key, NULL))
                  => dictionary_get(again.dict, Becomes(d, key), NULL) = dictionary_get(d, key, NULL)
=============================================================================
