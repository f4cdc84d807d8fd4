---------------------------- MODULE CommandLine -----------------------------
(***************************************************************************)
(* The command line of ntrt.c read by etc/etc_argtable2.c: -h, -t with an  *)
(* integer, -c and -m with a file.  getopt_long is the C library's: it     *)
(* hands out options one by one and keeps words that are none for last.    *)
(*                                                                         *)
(* A word is a "plain" one, a "short" one with its option letters, a       *)
(* "long" one with the names it may stand for, or the "end" of options;    *)
(* text is what it says as a value, and value what is attached to it.  A   *)
(* text is a number in parts: sign, prefix, digits and what follows.       *)
(***************************************************************************)
EXTENDS Integers, Sequences

CONSTANTS Words, MaxWords,   \* MaxWords is a bound
          MaxErrors,         \* arg_end(20)
          IntMax,            \* INT_MAX; the factors of KB, MB and GB divide INT_MIN
          Factor,            \* what KB, MB and GB stand for
          NONE               \* no value, no error

VARIABLES phase,
          argv, optind, letter,   \* where getopt_long is: a word, and a letter in it
          rest,                   \* the words that are no options
          table,                  \* what the options were given so far
          errors,                 \* arg_end
          found, given            \* history: all errors, and the values of each option

vars == <<phase, argv, optind, letter, rest, table, errors, found, given>>

Options == {"help", "time", "config_file", "command_file"}
HasValue(option) == option # "help"
Letters == [h |-> "help", t |-> "time", c |-> "config_file", m |-> "command_file"]

Prefixes == {"", "0x", "0o", "0b"}
ArgTexts == [sign : {1, -1}, prefix : Prefixes, digits : Seq(Nat), suffix : STRING]
ArgValues == {NONE} \cup ArgTexts
WordsAreWords ==
    \A w \in Words :
        \/ w \in [kind : {"plain", "end"}, text : ArgTexts]
        \/ w \in [kind : {"short"}, letters : Seq(STRING) \ {<< >>}, value : ArgValues, text : ArgTexts]
        \/ w \in [kind : {"long"}, names : SUBSET Options, value : ArgValues, text : ArgTexts]
FactorsFit ==
    /\ IntMax \in Nat /\ {"", "junk"} \cap DOMAIN Factor = {}
    /\ Factor \in [DOMAIN Factor -> Nat \ {0}]
    /\ \A s \in DOMAIN Factor : (IntMax + 1) % Factor[s] = 0
ConstantsFit ==
    /\ WordsAreWords /\ FactorsFit
    /\ MaxErrors \in Nat \ {0} /\ MaxWords \in Nat
    /\ NONE \notin ArgTexts /\ NONE \notin {"EBADINT", "EOVERFLOW", "EMAXCOUNT"}

-----------------------------------------------------------------------------
\* strtol on the digits of a text: how many it reads, its value, and what it stopped at.
Known(digits, base) ==
    CHOOSE n \in 0 .. Len(digits) :
        /\ \A i \in 1 .. n : digits[i] < base
        /\ n < Len(digits) => digits[n + 1] >= base
ValueOf(digits, n, base) ==
    LET val[i \in 0 .. n] == IF i = 0 THEN 0 ELSE base * val[i - 1] + digits[i]
    IN  val[n]
Strtol(text, base) ==
    LET n == Known(text.digits, base)
    IN  [read |-> n > 0, val |-> text.sign * ValueOf(text.digits, n, base),
         end |-> IF n = Len(text.digits) THEN text.suffix ELSE "junk"]
strtol0X_int(text, X, base) ==
    IF text.prefix = X THEN Strtol(text, base) ELSE [read |-> FALSE, val |-> 0, end |-> "junk"]
\* Without a prefix the number is decimal; of a prefix without digits the 0 is read.
Decimal(text) ==
    IF text.prefix = "" THEN Strtol(text, 10) ELSE [read |-> TRUE, val |-> 0, end |-> "junk"]
Convert(text) ==
    IF strtol0X_int(text, "0x", 16).read THEN strtol0X_int(text, "0x", 16)
    ELSE IF strtol0X_int(text, "0o", 8).read THEN strtol0X_int(text, "0o", 8)
    ELSE IF strtol0X_int(text, "0b", 2).read THEN strtol0X_int(text, "0b", 2)
    ELSE Decimal(text)

Outside(val, factor) == val > IntMax \div factor \/ val < (- IntMax - 1) \div factor

\* Mutant of Scaled: the suffix is not looked at before the multiplication.
ScaledLate(number, factor) ==
    IF ~ number.read \/ number.end \notin DOMAIN Factor \cup {""} THEN [error |-> "EBADINT", val |-> 0]
    ELSE IF Outside(number.val, 1) THEN [error |-> "EOVERFLOW", val |-> 0]
    ELSE [error |-> NONE, val |-> number.val * factor]

Scaled(number, factor) ==
    IF ~ number.read \/ number.end \notin DOMAIN Factor \cup {""} THEN [error |-> "EBADINT", val |-> 0]
    ELSE IF Outside(number.val, 1) \/ Outside(number.val, factor) THEN [error |-> "EOVERFLOW", val |-> 0]
    ELSE [error |-> NONE, val |-> number.val * factor]

FactorOf(end) == IF end \in DOMAIN Factor THEN Factor[end] ELSE 1
scanfn_int(text) == LET number == Convert(text) IN Scaled(number, FactorOf(number.end))

\* How often an option may be given: -h and -t once, files argc + 2 times.
maxcount(option) == IF option \in {"help", "time"} THEN 1 ELSE Len(argv) + 3

\* The scan functions: what comes of an option with its value.
Refused(error) == [error |-> error, table |-> table]
Counted(option, item) ==
    IF Len(table[option]) = maxcount(option) THEN Refused("EMAXCOUNT")
    ELSE [error |-> NONE, table |-> [table EXCEPT ![option] = Append(@, item)]]
scanfn_lit(option) == Counted(option, NONE)
scanfn_file(option, text) == Counted(option, text)
CountedInt(option, scan) ==
    IF table[option] = << >> /\ scan.error # NONE THEN Refused(scan.error) ELSE Counted(option, scan.val)
Scan(option, text) ==
    IF option = "help" THEN scanfn_lit(option)
    ELSE IF option = "time" THEN CountedInt(option, scanfn_int(text)) ELSE scanfn_file(option, text)

arg_register_error(errs, error) ==
    IF Len(errs) < MaxErrors THEN Append(errs, error) ELSE [errs EXCEPT ![MaxErrors] = "ARG_ELIMIT"]

Registered(errs, list) ==
    LET upto[i \in 0 .. Len(list)] ==
            IF i = 0 THEN errs ELSE arg_register_error(upto[i - 1], list[i])
    IN  upto[Len(list)]
Report(list) ==
    /\ errors' = Registered(errors, list)
    /\ found' = found \o list

-----------------------------------------------------------------------------
\* arg_parse and the reset before it.
Init ==
    /\ phase = "tagged"
    /\ argv \in UNION {[1 .. n -> Words] : n \in 0 .. MaxWords}
    /\ optind = 1 /\ letter = 1
    /\ rest = << >> /\ table = [option \in Options |-> << >>] /\ errors = << >>
    /\ found = << >> /\ given = [option \in Options |-> << >>]

word == argv[optind]
InWord == phase = "tagged" /\ optind <= Len(argv)

\* What getopt_long does between options.
SkipPlain ==
    /\ InWord /\ word.kind = "plain"
    /\ rest' = Append(rest, optind) /\ optind' = optind + 1
    /\ UNCHANGED <<phase, argv, letter, table, errors, found, given>>

EndTagged ==
    /\ phase = "tagged" /\ (optind <= Len(argv) => word.kind = "end")
    /\ phase' = "untagged"
    /\ rest' = rest \o [i \in 1 .. Len(argv) - optind |-> optind + i]
    /\ UNCHANGED <<argv, optind, letter, table, errors, found, given>>

\* An option with its value goes to its scan function.  A long option with an empty value is
\* an error before that, and maybe one more there.
Settle(scan, emissarg) ==
    /\ table' = scan.table
    /\ Report(emissarg \o IF scan.error = NONE THEN << >> ELSE <<scan.error>>)
Accept(option, text, emissarg) ==
    /\ Settle(Scan(option, text), emissarg)
    /\ given' = [given EXCEPT ![option] = Append(@, text)]

Refuse(error) == Report(<<error>>) /\ UNCHANGED <<table, given>>

\* The value is attached, or the next word whatever it looks like.
ValueIsNext == word.value = NONE /\ optind < Len(argv)
Value == IF ValueIsNext THEN argv[optind + 1].text ELSE word.value
NextWord == letter' = 1 /\ optind' = IF ValueIsNext THEN optind + 2 ELSE optind + 1

Letter ==
    /\ InWord /\ word.kind = "short"
    /\ LET l == word.letters[letter]
           valued == l \in DOMAIN Letters /\ HasValue(Letters[l])
       IN  /\ IF l \notin DOMAIN Letters THEN Refuse(l)
              ELSE IF ~ valued THEN Accept(Letters[l], NONE, << >>)
              ELSE IF Value = NONE THEN Refuse("ARG_EMISSARG")
              ELSE Accept(Letters[l], Value, << >>)
           /\ IF valued THEN NextWord
              ELSE IF letter < Len(word.letters) THEN letter' = letter + 1 /\ UNCHANGED optind
              ELSE letter' = 1 /\ optind' = optind + 1
    /\ UNCHANGED <<phase, argv, rest>>

Empty(text) == text.digits = << >> /\ text.prefix = "" /\ text.suffix = "" /\ text.sign = 1

\* A name may be cut short as long as it stands for one option.
LongOption ==
    /\ InWord /\ word.kind = "long"
    /\ LET option == CHOOSE o \in word.names : TRUE
           known == \E o \in Options : word.names = {o}
       IN  IF ~ known \/ (option = "help" /\ word.value # NONE)
           THEN Refuse("ARG_ELONGOPT") /\ letter' = 1 /\ optind' = optind + 1
           ELSE IF option = "help" THEN Accept(option, NONE, << >>) /\ letter' = 1 /\ optind' = optind + 1
           ELSE /\ NextWord
                /\ IF Value = NONE THEN Refuse("ARG_EMISSARG")
                   ELSE Accept(option, Value, IF Empty(Value) THEN <<"ARG_EMISSARG">> ELSE << >>)
    /\ UNCHANGED <<phase, argv, rest>>

\* All of the program's options have names, so every other word is one too many; and all
\* may be left out, so the checks after it find nothing.
Untagged ==
    /\ phase = "untagged"
    /\ Report([i \in DOMAIN rest |-> "ARG_ENOMATCH"])
    /\ phase' = "parsed"
    /\ UNCHANGED <<argv, optind, letter, rest, table, given>>

\* What main makes of it: help comes first.
Decide ==
    /\ phase = "parsed"
    /\ phase' = IF table["help"] # << >> THEN "usage" ELSE IF Len(errors) > 0 THEN "errors" ELSE "program"
    /\ UNCHANGED <<argv, optind, letter, rest, table, errors, found, given>>

Next == SkipPlain \/ EndTagged \/ Letter \/ LongOption \/ Untagged \/ Decide

Spec == Init /\ [][Next]_vars

-----------------------------------------------------------------------------
\* The number a text is, if it is one of the four kinds and fits into an int.
Base(p) == CASE p = "" -> 10 [] p = "0x" -> 16 [] p = "0o" -> 8 [] p = "0b" -> 2
Scale(text) == IF text.suffix = "" THEN 1 ELSE Factor[text.suffix]
IsInt(text) ==
    /\ text.digits # << >> /\ text.suffix \in DOMAIN Factor \cup {""}
    /\ \A i \in DOMAIN text.digits : text.digits[i] < Base(text.prefix)
\* Each digit counts by its place.
Weight(base, k) ==
    LET power[i \in 0 .. k] == IF i = 0 THEN 1 ELSE base * power[i - 1]
    IN  power[k]
IntOf(text) ==
    LET n == Len(text.digits)
        sum[i \in 0 .. n] ==
            IF i = 0 THEN 0 ELSE sum[i - 1] + text.digits[i] * Weight(Base(text.prefix), n - i)
    IN  text.sign * Scale(text) * sum[n]
Fits(text) == IsInt(text) /\ - IntMax - 1 <= IntOf(text) /\ IntOf(text) <= IntMax

\* The program starts with exactly what was asked for, or not at all: files in their order,
\* and the time if it was a number that an int holds; any other word is an error, and of
\* more errors than there is room for the first ones are kept and the last place says so.
CommandLineIsHonest ==
    LET times == given["time"]
        good == {i \in DOMAIN times : Fits(times[i])}
        first == CHOOSE i \in good : \A j \in good : i <= j
        full == Len(found) > MaxErrors
    IN  /\ table["config_file"] = given["config_file"]
        /\ table["command_file"] = given["command_file"]
        /\ table["time"] = IF good = {} THEN << >> ELSE <<IntOf(times[first])>>
        /\ errors = IF full THEN Append(SubSeq(found, 1, MaxErrors - 1), "ARG_ELIMIT") ELSE found
        /\ phase = "usage" => given["help"] # << >>
        /\ phase = "program" =>
              /\ rest = << >> /\ found = << >>
              /\ Len(times) <= 1 /\ good = DOMAIN times /\ given["help"] = << >>
        /\ phase = "errors" => found # << >>
=============================================================================
