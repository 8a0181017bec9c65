----------------------------- MODULE ArgParse -----------------------------
(***************************************************************************)
(* The command line parser of lisp/util/argparse.c.  A word of the command *)
(* line is a record: a short name, a long name, short names behind one     *)
(* dash, or a value, which strtol() and strtod() read as a number or not.  *)
(***************************************************************************)
EXTENDS Integers, Sequences, SequencesExt

CONSTANTS Candidates,          \* the arguments a program may add: [short, long, multiplier, parse]
          Lines,               \* the command lines, sequences of words
          Junk,                \* what is not a number
          IntMin, IntMax,      \* of an int, which is shorter than a long
          MaxArguments

\* Words as above.  A flag takes no value; arg_parser_add_flag() alone makes one.
Words == [sort : {"short", "long", "many", "value"}, names : Seq(STRING), number : Int \cup {Junk}]
ASSUME ArgAssumption ==
  /\ Lines \subseteq Seq(Words) /\ IntMin \in Int /\ IntMax \in Int
  /\ \A a \in Candidates : a.multiplier = "0" <=> a.parse = "flag"

VARIABLES
  arguments,   \* of the parser
  data,        \* the variable of each argument
  argv, at,    \* the line that is parsed and the word that is next
  result       \* "none" until arg_parser_parse() returns

argVars == <<arguments, data, argv, at, result>>

Parsing == at # 0 /\ result = "none"
Finished == at # 0 /\ result # "none"

ArgInit == arguments = <<>> /\ data = [a \in Candidates |-> Junk] /\ argv = <<>> /\ at = 0 /\ result = "none"

\* arg_parser_add_flag(), _int(), _size(), _double(): only a flag is cleared.
AddField(a) ==
  /\ at = 0 /\ Len(arguments) < MaxArguments /\ ~Contains(arguments, a)
  /\ arguments' = Append(arguments, a)
  /\ data' = IF a.parse = "flag" THEN [data EXCEPT ![a] = 0] ELSE data
  /\ UNCHANGED <<argv, at, result>>

Parse(line) ==
  /\ at = 0
  /\ argv' = line /\ at' = 1
  /\ result' = IF line = <<>> THEN "ok" ELSE "none"
  /\ UNCHANGED <<arguments, data>>

---------------------------------------------------------------------------
(* One argument.                                                           *)

\* The first argument with the name, as a sequence of at most one.
FindByShortName(n) == SelectInSeq(arguments, LAMBDA a : a.short = n)
FindArgument(word) ==
  CASE word.sort = "short" -> FindByShortName(word.names[1])
    [] word.sort = "long"  -> SelectInSeq(arguments, LAMBDA a : a.long = word.names[1])
    [] OTHER               -> 0

\* What the word is to strtol(): only a value can be a number.
Number(word) == IF word.sort = "value" THEN word.number ELSE Junk
StartsWithDash(word) == word.sort # "value" \/ (word.number # Junk /\ word.number < 0)

\* Mutant: the upper bound of an int is not checked.
FitsUnbounded(parse, n) ==
  CASE parse = "int"  -> n >= IntMin
    [] parse = "size" -> n >= IntMin /\ n < 0
    [] OTHER          -> TRUE

\* The numbers _parse_int(), _parse_size() and _parse_double() store.
Fits(parse, n) ==
  CASE parse = "int"  -> n >= IntMin /\ n <= IntMax
    [] parse = "size" -> n >= IntMin /\ n < 0
    [] OTHER          -> TRUE

\* What arg->parse() answers to values.
Answer(a, values) ==
  IF a.parse = "flag" THEN IF values = <<>> THEN "ok" ELSE "setup error"
  ELSE IF Len(values) # 1 THEN "setup error"
  ELSE IF Number(values[1]) = Junk THEN "invalid argument"
  ELSE IF Fits(a.parse, Number(values[1])) THEN "ok" ELSE "overflow"

Stored(a, values) == IF a.parse = "flag" THEN 1 ELSE Number(values[1])

\* _vararg_length(): the words from k on that do not start with a dash.
Varargs(k) ==
  LET rest == SubSeq(argv, k, Len(argv))
      stop == SelectInSeq(rest, StartsWithDash)
  IN  IF stop = 0 THEN rest ELSE SubSeq(rest, 1, stop - 1)

Return(r) == result' = r /\ UNCHANGED <<arguments, data, argv, at>>

\* The word after those that are used up is next; the loop's own i++ comes on
\* top of what _parse_arg() counts.
Continue(k) ==
  /\ at' = k /\ result' = IF k > Len(argv) THEN "ok" ELSE "none"
  /\ UNCHANGED <<arguments, argv>>

Store(a, values, k) ==
  IF Answer(a, values) = "ok"
  THEN data' = [data EXCEPT ![a] = Stored(a, values)] /\ Continue(k)
  ELSE Return(Answer(a, values))

\* _parse_arg().
ParseArg(a) ==
  LET values == Varargs(at + 1) IN
  \/ a.multiplier = "0" /\ Store(a, <<>>, at + 2)
  \/ a.multiplier = "1" /\ IF at < Len(argv) THEN Store(a, <<argv[at + 1]>>, at + 2)
                           ELSE Return("missing value")
  \/ a.multiplier = "+" /\ IF values # <<>> THEN Store(a, values, at + 2 + Len(values))
                           ELSE Return("missing value")
  \/ a.multiplier = "*" /\ Store(a, values, at + 2 + Len(values))

\* One round of the loop: a word with one name.
NextArgument ==
  /\ Parsing /\ argv[at].sort # "many"
  /\ IF FindArgument(argv[at]) = 0 THEN Return("invalid argument")
     ELSE ParseArg(arguments[FindArgument(argv[at])])

\* A short name behind one dash is to be that of a flag.
IsFlag(n) == FindByShortName(n) # 0 /\ arguments[FindByShortName(n)].multiplier = "0"
FirstWrong(names) == SelectInSeq(names, LAMBDA n : ~IsFlag(n))

\* One round of the loop: short names behind one dash, each of a flag.  The
\* flags before a wrong name are set.
NextShortNames ==
  /\ Parsing /\ argv[at].sort = "many"
  /\ LET names == argv[at].names
         wrong == FirstWrong(names)
         flags == IF wrong = 0 THEN names ELSE SubSeq(names, 1, wrong - 1)
     IN  /\ data' = [a \in Candidates |->
                       IF \E n \in ToSet(flags) : arguments[FindByShortName(n)] = a THEN 1 ELSE data[a]]
         /\ IF wrong = 0 THEN Continue(at + 1)
            ELSE result' = "invalid argument" /\ UNCHANGED <<arguments, argv, at>>

ArgNext == \/ \E a \in Candidates : AddField(a)
           \/ \E line \in Lines : Parse(line)
           \/ NextArgument \/ NextShortNames

ArgSpec == ArgInit /\ [][ArgNext]_argVars

---------------------------------------------------------------------------
(* Properties.                                                             *)

ArgTypeOK ==
  /\ arguments \in Seq(Candidates) /\ argv \in Lines \cup {<<>>}
  /\ DOMAIN data = Candidates /\ at \in Nat
  /\ result \in {"none", "ok", "setup error", "missing value", "invalid argument", "overflow"}

\* What the line means when each word is looked at once: flags stand for
\* themselves, the other arguments have their values behind them, an int is in
\* the range of int and a size is not negative.
Named(word) == {arguments[k] : k \in {FindArgument(word)} \ {0}}
NamedShort(n) == {arguments[k] : k \in {FindByShortName(n)} \ {0}}
IsValueOf(k) ==
  LET role[m \in 0 .. Len(argv)] ==
        IF m > 1 /\ role[m - 1] = "name" /\ \E a \in Named(argv[m - 1]) : a.multiplier = "1"
        THEN "value" ELSE "name"
  IN  role[k] = "value"

Legal(k) ==
  LET word == argv[k] IN
  IF IsValueOf(k)
  THEN Number(word) # Junk /\ \A a \in Named(argv[k - 1]) :
         CASE a.parse = "int"  -> Number(word) \in IntMin .. IntMax
           [] a.parse = "size" -> Number(word) >= 0
           [] OTHER            -> TRUE
  ELSE IF word.sort = "many"
  THEN \A n \in ToSet(word.names) : \E a \in NamedShort(n) : a.multiplier = "0"
  ELSE \E a \in Named(word) : a.multiplier = "0" \/ (a.multiplier = "1" /\ k < Len(argv))

\* The words that set a, and what it is after the last of them.
Setting(a) ==
  {k \in DOMAIN argv :
     IF IsValueOf(k) THEN a \in Named(argv[k - 1])
     ELSE a.multiplier = "0" /\ (\/ a \in Named(argv[k])
                                 \/ argv[k].sort = "many" /\ \E n \in ToSet(argv[k].names) : a \in NamedShort(n))}
Meant(a) ==
  IF Setting(a) = {} THEN IF a.parse = "flag" /\ Contains(arguments, a) THEN 0 ELSE Junk
  ELSE IF a.multiplier = "0" THEN 1
  ELSE Number(argv[CHOOSE k \in Setting(a) : \A m \in Setting(a) : m <= k])

AsMeant == /\ result = "ok" <=> \A k \in DOMAIN argv : Legal(k)
           /\ result = "ok" => \A a \in Candidates : data[a] = Meant(a)

\* Every command line is taken as it is meant.
LinesAreMeant == Finished => AsMeant

\* A line is taken as it is meant if it has no size, no argument with many
\* values, and no flag on its own but as its last word: each of them makes
\* arg_parser_parse() pass over a word or refuse a right one.
Regular ==
  \A k \in DOMAIN argv, a \in Candidates :
    ~IsValueOf(k) /\ a \in Named(argv[k]) =>
      a.parse # "size" /\ (a.multiplier = "1" \/ (a.multiplier = "0" /\ k = Len(argv)))
RegularLinesAreMeant == Finished /\ Regular => AsMeant
===========================================================================
