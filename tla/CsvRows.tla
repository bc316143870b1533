------------------------------- MODULE CsvRows -------------------------------
(***************************************************************************)
(* A line of a CSV file as src/csv_parser.cpp reads it: successive calls   *)
(* of std::getline(ss, cell, ',') and conversions of the cell.             *)
(***************************************************************************)
EXTENDS Types, SequencesExt

CONSTANT MaxRows  \* bound: the lines of a file after its header

ASSUME MaxRowsAssumption == MaxRows \in Nat

\* A cell: the number it converts to, if it does, and the side it names.
Cell == [number : {s \in Seq(Int) : Len(s) <= 1}, side : Side]

\* comma: whether the line ends with a comma, i.e. in an empty cell.
Row == [cells : Seq(Cell), comma : BOOLEAN]

Empty       == [number |-> << >>, side |-> "Undefined"]
Converts(c) == c.number # << >>
Num(c)      == c.number[1]

\* getline reads the k-th cell; the empty cell at the end of a line it does
\* not count as read.
Read(row, k) == k <= Len(row.cells)

\* What the variable cell holds after k calls: a call at the end of the line
\* leaves it alone, unless there was an empty cell to read.
CellAfter(row, k) ==
  IF Read(row, k) THEN row.cells[k]
  ELSE IF row.comma \/ row.cells = << >> THEN Empty ELSE Last(row.cells)
=============================================================================
