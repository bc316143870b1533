----------------------------- MODULE StrategyBase -----------------------------
(* What StrategyBase (src/strategies.cpp) offers to strategies, of the      *)
(* snapshot b that set_current_data has given it.                           *)
EXTENDS Types

BestBid(b) == IF b.bids = << >> THEN 0 ELSE b.bids[1].price
BestAsk(b) == IF b.asks = << >> THEN 0 ELSE b.asks[1].price

\* The helpers leave order_type as it is by default: a market order.
CreateBuyOrder(b, amount, price) ==
  [DefaultOrder EXCEPT !.side   = "Buy",
                       !.amount = amount,
                       !.price  = IF price > 0 THEN price ELSE BestAsk(b)]

CreateSellOrder(b, amount, price) ==
  [DefaultOrder EXCEPT !.side   = "Sell",
                       !.amount = amount,
                       !.price  = IF price > 0 THEN price ELSE BestBid(b)]
=============================================================================
