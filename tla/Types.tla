-------------------------------- MODULE Types --------------------------------
(***************************************************************************)
(* The plain data of the library (include/types.hpp).  Prices and amounts  *)
(* are doubles in the code; here they are integers, i.e. multiples of the  *)
(* smallest price and amount the data contains.                            *)
(***************************************************************************)
EXTENDS Sums, FiniteSets

Positive == Nat \ {0}

Side == {"Undefined", "Sell", "Buy"}

\* The types MarketEngine has an executor for, and a value of the enum's
\* underlying type that it has none for (a strategy can cast one).
OrderTypes  == {"Market", "LimitFok", "LimitIoc"}
Unsupported == "Unsupported"

Order == [side : Side, order_type : OrderTypes \cup {Unsupported},
          price : Int, amount : Int]

DefaultOrder == [side |-> "Undefined", order_type |-> "Market", price |-> 0, amount |-> 0]

ExecutionFill == [amount : Positive, price : Positive]

Lot == [entry_price : Positive, amount : Nat]

PositionInfo == [action_type : {"Buy", "Sell"}, lot : Lot, realised_pnl : Int]

\* The CSV loader pushes a level only if its price and its amount are > 0.
OrderBookEntry == [price : Positive, amount : Positive]

LOBData == [local_timestamp : Int, asks : Seq(OrderBookEntry), bids : Seq(OrderBookEntry)]

TradeData == [local_timestamp : Int, side : Side, price : Int, amount : Int]

EmptyBook == [local_timestamp |-> 0, asks |-> << >>, bids |-> << >>]

----------------------------------------------------------------------------
Amount(f) == f.amount
Cost(f)   == f.amount * f.price

Amounts(fills) == [i \in 1..Len(fills) |-> Amount(fills[i])]
Costs(fills)   == [i \in 1..Len(fills) |-> Cost(fills[i])]

TotalAmount(fills) == Total(Amounts(fills))
TotalCost(fills)   == Total(Costs(fills))

Smaller(a, b) == IF a < b THEN a ELSE b
=============================================================================
