------------------------------- MODULE MCReplay -------------------------------
EXTENDS TradesReplay

Lv(p, a) == [price |-> p, amount |-> a]
At(time, ask, bid) == [local_timestamp |-> time, asks |-> <<Lv(ask, 2)>>, bids |-> <<Lv(bid, 2)>>]
Trd(time, side, price, amount) ==
  [local_timestamp |-> time, side |-> side, price |-> price, amount |-> amount]

MCBooks    == {At(1, 3, 2), At(2, 2, 1), At(4, 4, 3), At(5, 3, 2)}
\* A gap, two snapshots of the same time, and data that go back in time, so
\* that a trade due at one tick is not due at the next.
MCDataSets == {<<At(1, 3, 2), At(2, 2, 1), At(4, 4, 3), At(5, 3, 2)>>,
               <<At(2, 2, 1), At(2, 2, 1), At(5, 3, 2)>>,
               <<At(4, 4, 3), At(1, 3, 2), At(5, 3, 2)>>}

\* A burst between two snapshots; an old trade behind a late one; one whose
\* side did not convert.
MCTradeFiles == {<<Trd(2, "Buy", 3, 1), Trd(3, "Sell", 2, 1), Trd(3, "Sell", 9, 1), Trd(9, "Buy", 1, 1)>>,
                 <<Trd(5, "Buy", 3, 2), Trd(1, "Buy", 4, 1), Trd(1, "Sell", 1, 2)>>,
                 <<Trd(0, "Undefined", 2, 1)>>}

MCOrderSet == [side : Side, order_type : {"LimitIoc"}, price : 1..9, amount : 1..2]
MCOpenings == {[cash |-> 9, assets |-> 0]}
=============================================================================
