------------------------------- MODULE Exchange -------------------------------
(***************************************************************************)
(* What the engines together promise: sessions in which orders are         *)
(* submitted, wait, and are executed at most once each, in one piece,      *)
(* within the trader's balances, and for exactly what the market quotes.   *)
(* Executing an order leaves the quotes as they are: each order trades as  *)
(* if it were alone.                                                       *)
(***************************************************************************)
EXTENDS Sums, SequencesExt

CONSTANT Openings  \* the balances an account may be opened with

VARIABLES
  session,   \* whether a session is open
  market,    \* the snapshot quoted now
  waiting,   \* the orders that wait, oldest first
  balance,   \* the money of the trader
  holdings   \* and the assets

exchangeVars == <<session, market, waiting, balance, holdings>>

ExchangeInit == /\ session = FALSE
                /\ market.asks = << >> /\ market.bids = << >>
                /\ waiting = << >>
                /\ balance = 0
                /\ holdings = 0

OpenAccount == /\ ~session
               /\ [cash |-> balance', assets |-> holdings'] \in Openings
               /\ UNCHANGED <<session, market, waiting>>

\* A session starts and stops without quotes.
StartOrStop == /\ session' = ~session
               /\ market'.asks = << >> /\ market'.bids = << >>
               /\ UNCHANGED <<waiting, balance, holdings>>

Quote == /\ session
         /\ UNCHANGED <<session, waiting, balance, holdings>>

Submit == /\ session
          /\ Len(waiting') = Len(waiting) + 1
          /\ Front(waiting') = waiting
          /\ UNCHANGED <<session, market, balance, holdings>>

----------------------------------------------------------------------------
(* What the market quotes for an order.                                    *)

Quotes(o) == IF o.side = "Buy" THEN market.asks ELSE market.bids

\* The units of a level that the limit of the order allows.
Units(o, k) ==
  LET price == Quotes(o)[k].price
  IN  IF o.order_type = "Market" \/ (IF o.side = "Buy" THEN price <= o.price ELSE price >= o.price)
      THEN Quotes(o)[k].amount ELSE 0

\* Level j comes before level k: by its price, of equal ones by its place.
Before(o, j, k) ==
  LET p == Quotes(o)[j].price
      r == Quotes(o)[k].price
  IN  IF p = r THEN j < k ELSE o.side = "Buy" <=> p < r

Places(o) == 1..Len(Quotes(o))
UnitsBefore(o, k) == Total([j \in Places(o) |-> IF Before(o, j, k) THEN Units(o, j) ELSE 0])

\* Of q units, those that level k gives when the best go first.
Share(o, q, k) ==
  LET rest == q - UnitsBefore(o, k)
  IN  IF rest <= 0 THEN 0 ELSE IF rest <= Units(o, k) THEN rest ELSE Units(o, k)

Liquidity(o) == Total([k \in Places(o) |-> Units(o, k)])
Price(o, q)  == Total([k \in Places(o) |-> Share(o, q, k) * Quotes(o)[k].price])

Complete(o) == o.order_type = "LimitFok" \/ (o.order_type = "Market" /\ o.side = "Buy")

\* An execution of o for q units and the money m.
Deal(o, q, m) == /\ q > 0
                 /\ q = IF o.amount <= Liquidity(o) THEN o.amount ELSE Liquidity(o)
                 /\ Complete(o) => q = o.amount
                 /\ m = Price(o, q)

Buy(o) == /\ o.side = "Buy"
          /\ Deal(o, holdings' - holdings, balance - balance')
          /\ balance' >= 0

Sell(o) == /\ o.side = "Sell"
           /\ Deal(o, holdings - holdings', balance' - balance)
           /\ holdings' >= 0

Execute == /\ session
           /\ \E k \in 1..Len(waiting) :
                /\ waiting' = RemoveAt(waiting, k)
                /\ Buy(waiting[k].order) \/ Sell(waiting[k].order)
           /\ UNCHANGED <<session, market>>

ExchangeNext == OpenAccount \/ StartOrStop \/ Quote \/ Submit \/ Execute

ExchangeSpec == ExchangeInit /\ [][ExchangeNext]_exchangeVars
=============================================================================
