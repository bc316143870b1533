----------------------------- MODULE TradesLoader -----------------------------
(***************************************************************************)
(* CSVParser::parse_trades (src/csv_parser.cpp): one step per line.        *)
(***************************************************************************)
EXTENDS CsvRows

CONSTANT TradeRows  \* the lines a file may have after its header

ASSUME TradeRowsAssumption == TradeRows \subseteq Row

VARIABLES
  trades,  \* the result
  lines    \* history variable: the lines read so far

tradesVars == <<trades, lines>>

----------------------------------------------------------------------------
TradesInit == trades = << >> /\ lines = << >>

\* Mutant: the cells outlive their line, and a missing one is that of the
\* line before.
StaleVolume(r) ==
  IF Read(r, 5) \/ lines = << >> THEN CellAfter(r, 5) ELSE CellAfter(Last(lines), 5)

\* A cell that is missing has the content of the last one that was read.
Timestamp(r) == CellAfter(r, 2)
Price(r)     == CellAfter(r, 4)
Volume(r)    == CellAfter(r, 5)

RowConverts(r) == Converts(Timestamp(r)) /\ Converts(Price(r)) /\ Converts(Volume(r))

RowTrade(r) == [local_timestamp |-> Num(Timestamp(r)), side |-> CellAfter(r, 3).side,
                price |-> Num(Price(r)), amount |-> Num(Volume(r))]

LoadTrade(r) ==
  /\ Len(lines) < MaxRows
  /\ RowConverts(r)
  /\ trades' = Append(trades, RowTrade(r))
  /\ lines' = Append(lines, r)

SkipLine(r) ==
  /\ Len(lines) < MaxRows
  /\ ~RowConverts(r)
  /\ lines' = Append(lines, r)
  /\ UNCHANGED trades

TradesNext == \E r \in TradeRows : LoadTrade(r) \/ SkipLine(r)

TradesSpec == TradesInit /\ [][TradesNext]_tradesVars

----------------------------------------------------------------------------
\* What a line with all its cells says: a trade, or nothing.
Meant(r) == IF \A k \in {2, 4, 5} : Converts(r.cells[k])
            THEN <<[local_timestamp |-> Num(r.cells[2]), side |-> r.cells[3].side,
                    price |-> Num(r.cells[4]), amount |-> Num(r.cells[5])]>>
            ELSE << >>
Complete(r) == Len(r.cells) >= 5

\* The numbers in the cells of a line.
CellNumbers(r) == {Num(c) : c \in {d \in Range(r.cells) : Converts(d)}}

\* A trade that can be told from a line that ends too early: what stands in
\* its place is taken from there, all else from some cell of the same line.
Salvaged(t, r) ==
  /\ {t.local_timestamp, t.price, t.amount} \subseteq CellNumbers(r)
  /\ Len(r.cells) >= 2 => r.cells[2].number = <<t.local_timestamp>>
  /\ Len(r.cells) >= 3 => t.side = r.cells[3].side
  /\ Len(r.cells) >= 4 => r.cells[4].number = <<t.price>>

(* What the lines add to the trades they add one after the other: a        *)
(* complete line the trade it says, or nothing if one of its cells does    *)
(* not convert; one that ends too early at most one trade, in which no     *)
(* value is left over from another line.                                   *)
TradesReadAsMeant ==
  \E added \in [1..Len(lines) -> {<< >>} \cup {<<t>> : t \in Range(trades)}] :
    /\ \A k \in 1..Len(lines) :
         IF Complete(lines[k]) THEN added[k] = Meant(lines[k])
         ELSE \A t \in Range(added[k]) : Salvaged(t, lines[k])
    /\ trades = FlattenSeq(added)
=============================================================================
