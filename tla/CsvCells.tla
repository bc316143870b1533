------------------------------- MODULE CsvCells -------------------------------
(***************************************************************************)
(* How parse_line of include/data_loader/csv.h takes the cells out of a    *)
(* line, one per step: chop_next_column with the policy for quotes,        *)
(* trim_chars and unescape.  A line is a sequence of characters, told      *)
(* apart only as far as the code does.                                     *)
(***************************************************************************)
EXTENDS Integers, SequencesExt

CONSTANTS
  Contents,  \* what cells may hold: sequences of "sep", "quote", "space", "other"
  MaxCells   \* bound: the cells of a line

ASSUME ContentsAssumption == Contents \subseteq Seq({"sep", "quote", "space", "other"})
ASSUME MaxCellsAssumption == MaxCells \in Nat \ {0}

VARIABLES
  quoting,  \* the quote policy: double_quote_escape, or no_quote_escape
  line,     \* what is left of the line
  more,     \* line is not null
  got,      \* the cells taken so far
  written   \* history variable: the contents that were written to the line

cellVars == <<quoting, line, more, got, written>>

----------------------------------------------------------------------------
(* How a line is written, which no code of the repository does: a quoted   *)
(* cell doubles its quotes; spaces around a cell do not belong to it.      *)

Doubled(content) ==
  FlattenSeq([k \in 1..Len(content) |->
                IF content[k] = "quote" THEN <<"quote", "quote">> ELSE <<content[k]>>])
Quoted(content) == <<"quote">> \o Doubled(content) \o <<"quote">>

\* Contents that need no quotes, and those that none could help.
Plain(content) ==
  /\ \A k \in 1..Len(content) : content[k] \notin {"sep", "quote"}
  /\ content # << >> => content[1] # "space" /\ content[Len(content)] # "space"

Written(content, quotes) ==
  (IF quotes /\ ~Plain(content) THEN {Quoted(content)}
   ELSE IF quotes THEN {content, Quoted(content)} ELSE {content})

Padded(content, quotes) ==
  {lead \o w \o trail : lead, trail \in {<< >>, <<"space">>}, w \in Written(content, quotes)}

\* The lines that hold the contents.
Lines(contents, quotes) ==
  {FlattenSeq([k \in 1..2 * Len(contents) - 1 |->
                 IF k % 2 = 0 THEN <<"sep">> ELSE cell[(k + 1) \div 2]]) :
     cell \in {c \in [1..Len(contents) -> UNION {Padded(contents[k], quotes) : k \in 1..Len(contents)}] :
                 \A k \in 1..Len(contents) : c[k] \in Padded(contents[k], quotes)}}

CellsInit ==
  /\ quoting \in BOOLEAN
  /\ \E n \in 1..MaxCells : written \in [1..n -> Contents]
  /\ quoting \/ \A k \in 1..Len(written) : Plain(written[k])
  /\ line \in Lines(written, quoting)
  /\ more = TRUE
  /\ got = << >>

----------------------------------------------------------------------------
\* Whether the first k characters leave a quote open.
Opened(s) == LET open[k \in 0..Len(s)] == k # 0 /\ (open[k-1] # (s[k] = "quote"))
             IN  open
Open(s, k) == quoting /\ Opened(s)[k]

\* find_next_column_end: the characters before the end of the column.
Column(s) ==
  LET ends == {k \in 1..Len(s) : s[k] = "sep" /\ ~Open(s, k)}
  IN  IF ends = {} THEN s ELSE SubSeq(s, 1, Min(ends) - 1)

NotClosed == Column(line) = line /\ Open(line, Len(line))

Trimmed(s) ==
  LET inner == {k \in 1..Len(s) : s[k] # "space"}
  IN  IF inner = {} THEN << >> ELSE SubSeq(s, Min(inner), Max(inner))

\* The loop of unescape: of two quotes next to each other the first is passed.
Passed(s) ==
  LET passed[k \in 0..Len(s)] == k \in 1..Len(s)-1 /\ ~passed[k-1] /\ s[k] = "quote" /\ s[k+1] = "quote"
  IN  passed
Collapsed(s) == FlattenSeq([k \in 1..Len(s) |-> IF Passed(s)[k] THEN << >> ELSE <<s[k]>>])

Unescaped(s) ==
  IF quoting /\ Len(s) >= 2 /\ s[1] = "quote" /\ s[Len(s)] = "quote"
  THEN Collapsed(SubSeq(s, 2, Len(s) - 1)) ELSE s

\* Mutant: the quotes are taken off before the spaces around them.
CellTrimmedLast(s) == Trimmed(Unescaped(s))

CellOf(s) == Unescaped(Trimmed(s))

ChopNextColumn ==
  /\ more
  /\ ~NotClosed
  /\ LET column == Column(line)
     IN  /\ got' = Append(got, CellOf(column))
         /\ more' = (column # line)
         /\ line' = SubSeq(line, Len(column) + 2, Len(line))
  /\ UNCHANGED <<quoting, written>>

\* escaped_string_not_closed
ChopThrows ==
  /\ more
  /\ NotClosed
  /\ got' = Append(got, <<"thrown">>)
  /\ more' = FALSE
  /\ UNCHANGED <<quoting, line, written>>

CellsNext == ChopNextColumn \/ ChopThrows

CellsSpec == CellsInit /\ [][CellsNext]_cellVars

(* What was written is read: cell by cell, with separators, quotes and     *)
(* spaces inside quotes kept and spaces around cells not.                  *)
CellsReadBack == ~more => got = written
=============================================================================
