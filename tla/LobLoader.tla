------------------------------ MODULE LobLoader ------------------------------
(***************************************************************************)
(* CSVParser::parse_lob (src/csv_parser.cpp): one step per row begun, per  *)
(* iteration of the loop over the levels, and per row ended.               *)
(***************************************************************************)
EXTENDS CsvRows

CONSTANTS
  LobRows,  \* the lines a file may have after its header
  Depth     \* lob_depth_level_

ASSUME LobRowsAssumption == LobRows \subseteq Row
ASSUME DepthAssumption   == Depth \in Nat

VARIABLES
  loader,    \* "rows", or "levels" inside the loop over the levels
  row,       \* the line being read
  column,    \* the next cell of it
  level,     \* the index of the loop over the levels
  entry,     \* entry
  lob_data,  \* the result
  read,      \* how many lines were read
  sources    \* history variable: the line each snapshot was loaded from

lobVars == <<loader, row, column, level, entry, lob_data, read, sources>>

----------------------------------------------------------------------------
NoRow == [cells |-> << >>, comma |-> FALSE]

LobInit ==
  /\ loader = "rows"
  /\ row = NoRow
  /\ column = 1
  /\ level = 0
  /\ entry = EmptyBook
  /\ lob_data = << >>
  /\ read = 0
  /\ sources = << >>

\* A line whose timestamp does not convert is left out.
SkipRow(r) ==
  /\ loader = "rows"
  /\ read < MaxRows
  /\ ~Converts(CellAfter(r, 2))
  /\ read' = read + 1
  /\ UNCHANGED <<loader, row, column, level, entry, lob_data, sources>>

BeginRow(r) ==
  /\ loader = "rows"
  /\ read < MaxRows
  /\ Converts(CellAfter(r, 2))
  /\ entry' = [EmptyBook EXCEPT !.local_timestamp = Num(CellAfter(r, 2))]
  /\ row' = r
  /\ column' = 3
  /\ level' = 0
  /\ read' = read + 1
  /\ loader' = "levels"
  /\ UNCHANGED <<lob_data, sources>>

\* The first cells of a level, before its j-th, were read and converted.
Converted(j) == \A k \in 0..j-1 : Read(row, column + k) /\ Converts(row.cells[column + k])

NoMoreCells == \E j \in 0..3 : Converted(j) /\ ~Read(row, column + j)

Tradable(price, amount) ==
  IF price > 0 /\ amount > 0 THEN <<[price |-> price, amount |-> amount]>> ELSE << >>

\* Mutant: new levels go to the front.
PushedInFront(e, c) ==
  [e EXCEPT !.asks = Tradable(Num(row.cells[c]), Num(row.cells[c + 1])) \o @,
            !.bids = Tradable(Num(row.cells[c + 2]), Num(row.cells[c + 3])) \o @]

\* Mutant: the cells of a level are taken to be bid first.
PushedBidFirst(e, c) ==
  [e EXCEPT !.bids = @ \o Tradable(Num(row.cells[c]), Num(row.cells[c + 1])),
            !.asks = @ \o Tradable(Num(row.cells[c + 2]), Num(row.cells[c + 3]))]

Pushed(e, c) ==
  [e EXCEPT !.asks = @ \o Tradable(Num(row.cells[c]), Num(row.cells[c + 1])),
            !.bids = @ \o Tradable(Num(row.cells[c + 2]), Num(row.cells[c + 3]))]

ReadLevel ==
  /\ loader = "levels"
  /\ level < Depth
  /\ Converted(4)
  /\ entry' = Pushed(entry, column)
  /\ column' = column + 4
  /\ level' = level + 1
  /\ UNCHANGED <<loader, row, lob_data, read, sources>>

\* The exception of a conversion is caught inside the loop, which goes on
\* with the next level and the next cell.
SkipLevel ==
  /\ loader = "levels"
  /\ level < Depth
  /\ \E j \in 0..3 : /\ Converted(j)
                     /\ Read(row, column + j)
                     /\ ~Converts(row.cells[column + j])
                     /\ column' = column + j + 1
  /\ level' = level + 1
  /\ UNCHANGED <<loader, row, entry, lob_data, read, sources>>

EndRow ==
  /\ loader = "levels"
  /\ level = Depth \/ NoMoreCells
  /\ lob_data' = Append(lob_data, entry)
  /\ sources' = Append(sources, row)
  /\ loader' = "rows"
  /\ row' = NoRow
  /\ column' = 1
  /\ level' = 0
  /\ entry' = EmptyBook
  /\ UNCHANGED read

LobNext ==
  \/ \E r \in LobRows : SkipRow(r) \/ BeginRow(r)
  \/ ReadLevel
  \/ SkipLevel
  \/ EndRow

LobSpec == LobInit /\ [][LobNext]_lobVars

----------------------------------------------------------------------------
\* The cells of a row by their place: level l has cells 4l-1 to 4l+2.
Cells(r, l)    == [k \in 1..4 |-> r.cells[4 * l - 2 + k]]
Whole(r)       == Smaller(Depth, (Len(r.cells) - 2) \div 4)
Good(r, l)     == \A k \in 1..4 : Converts(Cells(r, l)[k])
\* The entries that the first n levels make, of those that convert; their
\* price and amount begin with cell c of the level.
Entries(r, c, n) == FlattenSeq([l \in 1..n |->
  IF Good(r, l) THEN Tradable(Num(Cells(r, l)[c]), Num(Cells(r, l)[c + 1])) ELSE << >>])
Asks(r, n) == Entries(r, 1, n)
Bids(r, n) == Entries(r, 3, n)

\* Only the last cell of a level does not convert, if any.
ErrorsAtLevelEnds(r) ==
  \A k \in 3..Len(r.cells) : ~Converts(r.cells[k]) => (k - 2) % 4 = 0

(* A row whose cells convert, or fail to only at the end of a level, loads *)
(* as the levels that convert, each from its own columns, up to the depth  *)
(* and up to the last level that is complete.                              *)
RowsReadAsMeant ==
  \A n \in 1..Len(lob_data) :
    LET r == sources[n]
    IN  Len(r.cells) >= 2 /\ ErrorsAtLevelEnds(r) =>
          lob_data[n] = [local_timestamp |-> Num(r.cells[2]),
                         asks |-> Asks(r, Whole(r)), bids |-> Bids(r, Whole(r))]

(* Whatever a row holds further on, the levels before its first cell that  *)
(* does not convert are loaded first and from their own columns.           *)
FrontIsIntact ==
  \A n \in 1..Len(lob_data) :
    LET r == sources[n]
    IN  \A m \in 1..Whole(r) : (\A l \in 1..m : Good(r, l)) =>
          IsPrefix(Asks(r, m), lob_data[n].asks) /\ IsPrefix(Bids(r, m), lob_data[n].bids)

(* include/types.hpp:67-70: asks is the "Ask side of the book": each level *)
(* in it was read from the ask columns of some level of its row.           *)
AsksAreAsks ==
  \A n \in 1..Len(lob_data) :
    LET r == sources[n]
    IN  Range(lob_data[n].asks) \subseteq
          {[price |-> Num(r.cells[4 * l - 1]), amount |-> Num(r.cells[4 * l])] :
             l \in {m \in 1..Whole(r) : Converts(r.cells[4 * m - 1]) /\ Converts(r.cells[4 * m])}}
=============================================================================
