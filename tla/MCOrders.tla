------------------------------- MODULE MCOrders -------------------------------
(* Every order of a small grid against every sorted book of up to three     *)
(* levels: a book is fixed by the amount it holds at each price, 0 for none. *)
(* And fill-or-kill orders with rounding, which share nothing with them.    *)
EXTENDS Orders, Rounding, SequencesExt

TradingInit == OrdersInit /\ RoundingInit

TradingNext ==
  \/ stage = "idle" /\ OrdersNext /\ UNCHANGED roundingVars
  \/ exec = "idle" /\ RoundingNext /\ UNCHANGED ordersVars

TradingSpec == TradingInit /\ [][TradingNext]_<<ordersVars, roundingVars>>

----------------------------------------------------------------------------
MCPrices  == 1..3
MCAmounts == 0..2

Levelled(h, p) == [price |-> p, amount |-> h[p]]
Quoted(h)      == SelectSeq([p \in MCPrices |-> Levelled(h, p)], LAMBDA l : l.amount > 0)

MCBooks == {[local_timestamp |-> 0, asks |-> Quoted(h), bids |-> Reverse(Quoted(h))] :
              h \in [MCPrices -> MCAmounts]}

ASSUME MCBooksAreSorted == \A b \in MCBooks : SortedBook(b)

MCOrderSet == [side : Side, order_type : OrderTypes, price : 0..4, amount : -1..7]

MCQuotes == <<1, 2, 3>>
=============================================================================
