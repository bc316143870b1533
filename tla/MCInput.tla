-------------------------------- MODULE MCInput --------------------------------
(* All that reads input in one instance: the command line, the two loaders, *)
(* and the reader of lines, the rows, the cells and the numbers of csv.h.   *)
(* They share no state, so a behaviour is one of a single part, chosen at   *)
(* the start, and the other parts stay as they are at a smallest start.     *)
EXTENDS LobLoader, TradesLoader, CommandLine, LineReader, CsvReader, CsvCells, CsvNumbers

VARIABLE part

inputVars == <<part, lobVars, tradesVars, commandVars, lineVars, csvVars, cellVars, numberVars>>

Arguments == IF part = "arguments" THEN CommandInit ELSE argv = << >> /\ readable = {} /\ CommandInit
LineFiles == IF part = "lines" THEN LineInit ELSE file = << >> /\ threaded = FALSE /\ LineInit
CsvFiles  == IF part = "rows" THEN CsvInit
             ELSE /\ unread = CHOOSE t \in Texts : TRUE
                  /\ column_names = CHOOSE names \in Wanted : TRUE
                  /\ CsvInit
CellLines == IF part = "cells" THEN CellsInit
             ELSE quoting = FALSE /\ written = << << >> >> /\ line = << >> /\ CellsInit
Numerals  == IF part = "numbers" THEN NumbersInit
             ELSE literal = << >> /\ signed = FALSE /\ policy = "throw" /\ NumbersInit

InputInit ==
  /\ part \in {"arguments", "book", "trades", "lines", "rows", "cells", "numbers"}
  /\ LobInit /\ TradesInit
  /\ Arguments /\ LineFiles /\ CsvFiles /\ CellLines /\ Numerals

InputNext ==
  /\ \/ part = "arguments" /\ CommandNext
        /\ UNCHANGED <<lobVars, tradesVars, lineVars, csvVars, cellVars, numberVars>>
     \/ part = "book" /\ LobNext
        /\ UNCHANGED <<tradesVars, commandVars, lineVars, csvVars, cellVars, numberVars>>
     \/ part = "trades" /\ TradesNext
        /\ UNCHANGED <<lobVars, commandVars, lineVars, csvVars, cellVars, numberVars>>
     \/ part = "lines" /\ LineNext
        /\ UNCHANGED <<lobVars, tradesVars, commandVars, csvVars, cellVars, numberVars>>
     \/ part = "rows" /\ CsvNext
        /\ UNCHANGED <<lobVars, tradesVars, commandVars, lineVars, cellVars, numberVars>>
     \/ part = "cells" /\ CellsNext
        /\ UNCHANGED <<lobVars, tradesVars, commandVars, lineVars, csvVars, numberVars>>
     \/ part = "numbers" /\ NumbersNext
        /\ UNCHANGED <<lobVars, tradesVars, commandVars, lineVars, csvVars, cellVars>>
  /\ UNCHANGED part

InputSpec == InputInit /\ [][InputNext]_inputVars

\* The fairness of FairLineSpec.
FairInputSpec == InputSpec /\ WF_lineVars(CallStep) /\ WF_lineVars(Work)

----------------------------------------------------------------------------
\* Any line the command line may be, of up to four words.
MCCommandLines == UNION {[1..n -> {"--lob", "--trades", "--help", "a", "b", ""}] : n \in 0..4}

----------------------------------------------------------------------------
\* A number tells the column it is in.
Cel(n)  == [number |-> <<n>>, side |-> "Undefined"]
Word(s) == [number |-> << >>, side |-> s]

\* Lines of two levels and the price of a third, beyond the depth: any cell
\* of the first level, and the first one of the second, may not convert.
WholeLob ==
  {<<Cel(1), Cel(2), a, b, c, d, e, Cel(8), Cel(9), Cel(10), Cel(11)>> :
     a \in {Cel(3), Cel(0), Empty}, b \in {Cel(4), Empty}, c \in {Cel(5), Empty},
     d \in {Cel(6), Empty}, e \in {Cel(7), Empty}}

\* As far as a line goes; and lines too short to hold a level.
MCLobRows ==
  {[cells |-> SubSeq(f, 1, n), comma |-> FALSE] : f \in WholeLob, n \in {4, 6, 7, 10, 11}}
  \cup {[cells |-> s, comma |-> c] : c \in BOOLEAN,
          s \in {<< >>, <<Cel(1)>>, <<Cel(1), Empty>>, <<Cel(1), Empty, Cel(3)>>, <<Cel(1), Cel(2)>>}}

WholeTrade ==
  {<<Cel(1), t, s, p, a>> : t \in {Cel(2), Empty}, s \in {Word("Buy"), Word("Undefined")},
                            p \in {Cel(4), Cel(0), Empty}, a \in {Cel(5), Empty}}

MCTradeRows ==
  {[cells |-> SubSeq(f, 1, n), comma |-> c] : f \in WholeTrade, n \in 0..5, c \in BOOLEAN}

----------------------------------------------------------------------------
\* Files of up to three blocks, in which lines and blocks meet in every way;
\* of more, so that the thread reads twice; with byte order marks and with
\* carriage returns.
Bytes(kinds, n) == UNION {[1..k -> kinds] : k \in 0..n}
Bom == <<"bom", "bom", "bom">>
MCFiles ==
  Bytes({"newline", "other"}, 9)
  \cup {<<"other", "other", "newline">> \o f : f \in [1..7 -> {"newline", "other"}]}
  \cup {Bom \o f : f \in Bytes({"newline", "other"}, 5)}
  \cup Bytes({"newline", "return", "other"}, 6)

----------------------------------------------------------------------------
\* Two variables of the caller; headers that have, lack, repeat or add to
\* their columns, twice in a file or not.
MCWanted   == {<<"a", "b">>, <<"b", "c">>}
MCPolicies == SUBSET {"extra", "missing"}
MCNumbers  == {"1", "2", "3"}
MCHeaders  == {<<"a", "b">>, <<"x", "b", "a">>, <<"c">>, <<"a", "b", "a">>, <<"a", "open">>, << >>}
MCRows     == {<<"1", "2">>, <<"3", "1", "2">>, <<"2">>, <<"bad", "1">>, <<"3", "open">>}
MCTexts    == {<<h, r, q, s>> : h \in MCHeaders, r \in MCRows, q \in MCHeaders \cup MCRows, s \in MCRows}

\* Lines of two cells of up to two characters each.
MCContents == Bytes({"sep", "quote", "space", "other"}, 2)

\* Integers of five bits: up to three characters, and a sign before numbers
\* around the limits and characters after them.
MCLiterals ==
  Bytes({"0", "1", "2", "3", "5", "6", "7", "+", "-", "x"}, 3)
  \cup {<<s, a, b, c>> : s \in {"+", "-"}, a \in {"1", "3"}, b \in {"1", "5", "6", "7"}, c \in {"0", "x"}}
=============================================================================
