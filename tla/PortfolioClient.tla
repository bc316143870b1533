--------------------------- MODULE PortfolioClient ---------------------------
(***************************************************************************)
(* The portfolio under its callers: those that ask can_buy or can_sell for *)
(* the fills they then book (MarketEngine::execute), and those that set a  *)
(* balance between trades.                                                 *)
(***************************************************************************)
EXTENDS PortfolioProperties

CONSTANTS
  FillLists,  \* what the executors may return
  Settings,   \* what the setters may be given
  MaxGiven,   \* bound: set_amount gives and takes no more once this much was
  MaxTrades   \* bound: no call is made once the history is this long

ASSUME FillListsAssumption == FillLists \subseteq Seq(ExecutionFill)
ASSUME SettingsAssumption  == Settings \subseteq Nat
ASSUME ClientBounds        == MaxGiven \in Nat /\ MaxTrades \in Nat

ClientInit == \E balances \in Openings : Holds(balances)

ClientNext ==
  \/ /\ Len(trade_history) < MaxTrades
     /\ \/ \E fs \in FillLists : UpdateAfterBuy(fs) \/ UpdateAfterSell(fs)
        \/ \E c \in Settings : SetCash(c)
        \/ \E a \in Settings : SetAmount(a) /\ opening.assets + opening.taken <= MaxGiven
  \/ BookBuy
  \/ MatchLot
  \/ BookSell

(* calculate_realized_pnl loops "while (amount > 0 && !positions_.empty())":*)
(* it must run out of one of them, also when a lot is only partly used, or  *)
(* is dust, so every update returns.                                        *)
UpdatesReturn == ledger # "idle" ~> ledger = "idle"
=============================================================================
