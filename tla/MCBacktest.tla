------------------------------ MODULE MCBacktest ------------------------------
EXTENDS BacktestProperties

Lv(p, a) == [price |-> p, amount |-> a]
O(s, t, p, a) == [side |-> s, order_type |-> t, price |-> p, amount |-> a]

\* Two sorted, uncrossed books between which the market falls, and a book
\* with an empty side.
High == [local_timestamp |-> 1, asks |-> <<Lv(4, 1), Lv(5, 2)>>, bids |-> <<Lv(3, 2), Lv(2, 1)>>]
Low  == [local_timestamp |-> 2, asks |-> <<Lv(2, 2)>>, bids |-> <<Lv(1, 3)>>]
Half == [local_timestamp |-> 3, asks |-> <<Lv(2, 2)>>, bids |-> << >>]

MCBooks    == {High, Low, Half}
MCDataSets == {<<High, Low>>, <<Low, High, Low>>, <<Low, Half>>}

MCOrderSet == {
  O("Buy",  "Market",   0, 2),
  O("Buy",  "Market",   0, 3),
  O("Sell", "Market",   0, 3),
  O("Buy",  "LimitFok", 5, 3),
  O("Sell", "LimitFok", 1, 2),
  O("Buy",  "LimitIoc", 2, 3),
  O("Sell", "LimitIoc", 3, 1),
  O("Undefined", "LimitIoc", 2, 1)}

MCOpenings == {[cash |-> 14, assets |-> 0], [cash |-> 3, assets |-> 2]}

\* A strategy that casts an order type the engine has no executor for.
MCCastOrderSet == {
  O("Buy",  "Market", 0, 1),
  O("Buy",  "Market", 0, 3),
  O("Sell", "Market", 0, 1),
  O("Buy",  Unsupported, 5, 1)}

\* Its books: lots of three units, cut by sells of one.
Deep == [Low EXCEPT !.asks = <<Lv(2, 3)>>]

MCFaultBooks    == {High, Deep, Half}
MCFaultDataSets == {<<High, Deep>>, <<Deep, High, Deep>>, <<Deep, Half>>}

\* The theorems about sorted books speak of these.
ASSUME MCBooksAreSorted == SortedBooks
=============================================================================
