------------------------------- MODULE CsvReader -------------------------------
(***************************************************************************)
(* io::CSVReader (include/data_loader/csv.h): the header line decides to   *)
(* which variable of the caller each column of the rows after it goes.     *)
(* Lines come from a LineReader, in the order LineStream promises; a line  *)
(* without cells is one the comment policy skips.                          *)
(***************************************************************************)
EXTENDS Integers, Sequences, FiniteSetsExt

CONSTANTS
  Wanted,      \* the lists of distinct column names a program may ask for
  Policies,    \* what read_header may ignore: subsets of {"extra", "missing"}
  Texts,       \* the files, sequences of lines; a cell "open" has a quote that
               \* is not closed
  Numbers,     \* the cells that parse
  ColumnCount  \* the template parameter column_count

ASSUME ColumnCountAssumption == ColumnCount \in Nat \ {0}
ASSUME WantedAssumption ==
  \A names \in Wanted : Len(names) = ColumnCount /\ \A i, j \in 1..ColumnCount : names[i] = names[j] => i = j
\* A cell is a text, and none is one of the marks of the pointers below.
ASSUME TextsAssumption ==
  \A text \in Texts : /\ text \in Seq(Seq(STRING))
                     /\ \A n \in 1..Len(text) : \A k \in 1..Len(text[n]) : text[n][k] \notin {"null", "stale"}
\* An open quote takes the rest of its line with it.
ASSUME OpenAssumption ==
  \A text \in Texts : \A n \in 1..Len(text) : \A k \in 1..Len(text[n])-1 : text[n][k] # "open"

Columns == 1..ColumnCount

VARIABLES
  unread,                  \* what next_line has still to return
  column_names, col_order, \* members; 0 in col_order stands for -1
  pointers,                \* the member row: cells, "null" or "stale"
  values,                  \* the variables of the caller
  answer,                  \* how the last call ended
  header,                  \* history variables: the header in force, << >> when
                           \* the last was refused,
  fresh                    \* and whether row was still empty when it was read

csvVars == <<unread, column_names, col_order, pointers, values, answer, header, fresh>>

----------------------------------------------------------------------------
Default == [i \in Columns |-> i]
Unset   == [i \in Columns |-> "null"]

CsvInit ==
  /\ unread \in Texts
  /\ column_names \in Wanted
  /\ col_order = Default
  /\ pointers = Unset
  /\ values = [i \in Columns |-> "0"]
  /\ answer = "none"
  /\ header = column_names
  /\ fresh = TRUE

IsComment(cells) == cells = << >>

\* The loop over next_line and is_comment.
Skipped == Min({k \in 1..Len(unread) : ~IsComment(unread[k])} \cup {Len(unread) + 1})
Line == unread[Skipped]
NoLine == Skipped > Len(unread)
Advance == unread' = SubSeq(unread, Skipped + 1, Len(unread))

\* parse_header_line: the column of a name, and the cells it stops at.
ColumnOf(names, name) == Min({i \in Columns : names[i] = name} \cup {ColumnCount + 1})
Known(names, name) == ColumnOf(names, name) \in Columns
Refused(names, policy) ==
  {k \in 1..Len(Line) : \/ Line[k] = "open"
                        \/ IF Known(names, Line[k])
                           THEN \E j \in 1..k-1 : Line[j] = Line[k]
                           ELSE "extra" \notin policy}
Accepted(names, policy) == Min(Refused(names, policy) \cup {Len(Line) + 1}) - 1

Missing(names, policy) ==
  "missing" \notin policy /\ \E i \in Columns : \A k \in 1..Len(Line) : Line[k] # names[i]

\* Mutant: the order there was is not cleared.
OrderAdded(names, policy) ==
  col_order \o [k \in 1..Accepted(names, policy) |->
                  IF Known(names, Line[k]) THEN ColumnOf(names, Line[k]) ELSE 0]

OrderOf(names, policy) ==
  [k \in 1..Accepted(names, policy) |->
     IF Known(names, Line[k]) THEN ColumnOf(names, Line[k]) ELSE 0]

ReadHeader(policy, names) ==
  /\ column_names' = names
  /\ fresh' = (pointers = Unset)
  /\ IF NoLine
     THEN /\ answer' = "header_missing"
          /\ unread' = << >>
          /\ header' = << >>
          /\ UNCHANGED col_order
     ELSE /\ Advance
          /\ col_order' = OrderOf(names, policy)
          /\ LET refused == Refused(names, policy) # {} \/ Missing(names, policy)
             IN  /\ answer' = IF refused THEN "header_refused" ELSE "header"
                 /\ header' = IF refused THEN << >> ELSE Line
  /\ UNCHANGED <<pointers, values>>

SetHeader(names) ==
  /\ column_names' = names
  /\ col_order' = Default
  /\ pointers' = Unset
  /\ header' = names
  /\ fresh' = TRUE
  /\ answer' = "header"
  /\ UNCHANGED <<unread, values>>

\* Mutant: only the names are searched, not the order of the columns.
HasColumnNamed(name) == Known(column_names, name)

HasColumn(name) == \E k \in 1..Len(col_order) : col_order[k] = ColumnOf(column_names, name)

----------------------------------------------------------------------------
EndOfRows ==
  /\ NoLine
  /\ unread' = << >>
  /\ answer' = "false"
  /\ UNCHANGED <<column_names, col_order, pointers, values, header, fresh>>

\* parse_line: the columns it has pointed into the line, up to the last cell,
\* an open quote or the last column.  What was pointed into an earlier line
\* is stale.
Pointed ==
  [i \in Columns |->
     LET here == {k \in 1..Len(col_order) : k <= Len(Line) /\ Line[k] # "open" /\ col_order[k] = i}
     IN  IF here # {} THEN Line[Max(here)] ELSE IF pointers[i] = "null" THEN "null" ELSE "stale"]

\* find_next_column_end throws at the first column it finds no end of.
OpenQuote == \E k \in 1..Len(Line) : k <= Len(col_order) /\ Line[k] = "open"

Unclosed ==
  /\ ~NoLine
  /\ OpenQuote
  /\ Advance
  /\ pointers' = Pointed
  /\ answer' = "escaped_string_not_closed"
  /\ UNCHANGED <<column_names, col_order, values, header, fresh>>

WrongLength ==
  /\ ~NoLine
  /\ ~OpenQuote
  /\ Len(Line) # Len(col_order)
  /\ Advance
  /\ pointers' = Pointed
  /\ answer' = IF Len(Line) < Len(col_order) THEN "too_few_columns" ELSE "too_many_columns"
  /\ UNCHANGED <<column_names, col_order, values, header, fresh>>

\* parse_helper: column by column, up to the first that does not parse, whose
\* variable keeps its value or holds what the cell begins with.  A stale cell
\* is whatever the buffer holds there now.
ReadRow ==
  /\ ~NoLine
  /\ ~OpenQuote
  /\ Len(Line) = Len(col_order)
  /\ Advance
  /\ pointers' = Pointed
  /\ \E garbage \in [{i \in Columns : Pointed[i] = "stale"} -> Numbers \cup {"bad"}] :
       LET found(i) == IF Pointed[i] = "stale" THEN garbage[i] ELSE Pointed[i]
           first == Min({i \in Columns : found(i) \notin Numbers \cup {"null"}} \cup {ColumnCount + 1})
       IN  /\ \E begun \in IF first \in Columns THEN Numbers \cup {values[first]} ELSE {"none"} :
                values' = [i \in Columns |-> IF i < first /\ found(i) # "null" THEN found(i)
                                            ELSE IF i = first THEN begun ELSE values[i]]
           /\ answer' = IF first > ColumnCount THEN "row" ELSE "does_not_parse"
  /\ UNCHANGED <<column_names, col_order, header, fresh>>

CsvNext ==
  \/ \E policy \in Policies, names \in Wanted : ReadHeader(policy, names)
  \/ \E names \in Wanted : SetHeader(names)
  \/ EndOfRows
  \/ Unclosed
  \/ WrongLength
  \/ ReadRow

CsvSpec == CsvInit /\ [][CsvNext]_csvVars

----------------------------------------------------------------------------
Places(name) == {k \in 1..Len(header) : header[k] = name}

(* read_row gives each variable the cell under its own name, wherever the  *)
(* header has that name, whatever was refused or ignored before; and       *)
(* leaves a variable alone whose column is missing, if no row had one      *)
(* before that header.                                                     *)
RowsFollowHeader ==
  [][ReadRow /\ answer' = "row" /\ header # << >> =>
       \A i \in Columns :
         IF Places(column_names[i]) # {}
         THEN \A k \in Places(column_names[i]) : values'[i] = Line[k]
         ELSE fresh => values'[i] = values[i]]_csvVars

(* has_column, which searches two arrays for one name and takes the end of *)
(* the first for a column, answers what the header says.                   *)
ColumnsAreTold ==
  header # << >> =>
    \A name \in UNION {{names[i] : i \in Columns} : names \in Wanted} \cup {"none"} :
      HasColumn(name) <=> Places(name) # {} /\ Known(column_names, name)
=============================================================================
