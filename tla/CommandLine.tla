----------------------------- MODULE CommandLine -----------------------------
(***************************************************************************)
(* parse_arguments (include/data_loader/args_parses.hpp), one step per     *)
(* iteration of its loop, and what the mains of the examples do with the   *)
(* result before they have any data: open the book, and then the trades.   *)
(***************************************************************************)
EXTENDS Integers, Sequences, FiniteSetsExt

CONSTANTS
  CommandLines,  \* the sequences of words after the program's name
  Paths          \* the files there may be, all with a name

ASSUME CommandLinesAssumption == \A words \in CommandLines : words \in Seq(STRING)
ASSUME PathsAssumption == "" \notin Paths

VARIABLES
  argv,      \* argv, without the program's name
  at,        \* i
  args,      \* args
  readable,  \* the files that can be opened
  main       \* "parsing", "opening" the book, "opening_trades", "loaded"; or
             \* the end of the process: "refused", "helped", "unreadable"

commandVars == <<argv, at, args, readable, main>>

Options == {"--lob", "--trades"}

----------------------------------------------------------------------------
CommandInit ==
  /\ argv \in CommandLines
  /\ at = 1
  /\ args = [o \in Options |-> ""]
  /\ readable \in SUBSET Paths
  /\ main = "parsing"

Parsing == main = "parsing" /\ at <= Len(argv)

\* Mutant: the value is not skipped.
ReadOption ==
  /\ Parsing
  /\ argv[at] \in Options
  /\ at < Len(argv)
  /\ args' = [args EXCEPT ![argv[at]] = argv[at + 1]]
  /\ at' = at + 1
  /\ UNCHANGED <<argv, readable, main>>

TakeOption ==
  /\ Parsing
  /\ argv[at] \in Options
  /\ at < Len(argv)
  /\ args' = [args EXCEPT ![argv[at]] = argv[at + 1]]
  /\ at' = at + 2
  /\ UNCHANGED <<argv, readable, main>>

\* An option without a value, or a word that is no option.
ThrowOnWord ==
  /\ Parsing
  /\ argv[at] # "--help"
  /\ argv[at] \in Options => at = Len(argv)
  /\ main' = "refused"
  /\ UNCHANGED <<argv, at, args, readable>>

Help ==
  /\ Parsing
  /\ argv[at] = "--help"
  /\ main' = "helped"
  /\ UNCHANGED <<argv, at, args, readable>>

EndOfWords ==
  /\ main = "parsing"
  /\ at > Len(argv)
  /\ main' = IF args["--lob"] = "" THEN "refused" ELSE "opening"
  /\ UNCHANGED <<argv, at, args, readable>>

\* parse_lob; custom_strategy.cpp goes on without trades.
OpenBook ==
  /\ main = "opening"
  /\ main' \in IF args["--lob"] \in readable THEN {"opening_trades", "loaded"} ELSE {"unreadable"}
  /\ UNCHANGED <<argv, at, args, readable>>

\* parse_trades, called also with the path "", which cannot be opened.
OpenTrades ==
  /\ main = "opening_trades"
  /\ main' = IF args["--trades"] \in readable THEN "loaded" ELSE "unreadable"
  /\ UNCHANGED <<argv, at, args, readable>>

CommandNext == TakeOption \/ ThrowOnWord \/ Help \/ EndOfWords \/ OpenBook \/ OpenTrades

CommandSpec == CommandInit /\ [][CommandNext]_commandVars

----------------------------------------------------------------------------
\* Every other word is an option, and the word after it its value.
InPairs == Len(argv) % 2 = 0 /\ \A k \in 1..Len(argv) : k % 2 = 1 => argv[k] \in Options

LastValue(option) ==
  LET places == {k \in 1..Len(argv) : k % 2 = 1 /\ argv[k] = option}
  IN  IF places = {} THEN "" ELSE argv[Max(places) + 1]

Helpful == \E k \in 1..Len(argv) : /\ k % 2 = 1 /\ argv[k] = "--help"
                                   /\ \A j \in 1..k-1 : j % 2 = 1 => argv[j] \in Options

(* The loop, which moves its own index, reads a command line as pairs: of  *)
(* an option given twice the last value counts, also one that looks like   *)
(* an option, and nothing that is not pairs with a book goes through.      *)
ParsedAsMeant ==
  /\ main \in {"opening", "opening_trades", "loaded", "unreadable"} =>
       /\ InPairs
       /\ args["--lob"] # ""
       /\ \A o \in Options : args[o] = LastValue(o)
  /\ main = "refused" => ~Helpful /\ (InPairs => LastValue("--lob") = "")
  /\ main = "helped" => Helpful
=============================================================================
