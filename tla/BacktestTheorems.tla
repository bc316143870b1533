--------------------------- MODULE BacktestTheorems ---------------------------
(***************************************************************************)
(* A whole backtest, for any strategy, orders, data, balances and number   *)
(* of runs.  First the pool of the market engine: no order is ever lost,   *)
(* and where every order has an executor none is executed twice or out of  *)
(* turn.  Then the types and the books of the portfolio, where what was    *)
(* proved of the parts alone holds of them together; what trading costs,   *)
(* which is never less than the trade is worth at the mid price; and the   *)
(* values that are recorded.  Last, the engines implement Exchange: every  *)
(* step of the backtest, seen through the mapping of BacktestProperties,   *)
(* is a step of the abstract exchange or none.                             *)
(***************************************************************************)
EXTENDS BacktestProperties, OrdersTheorems, PortfolioLemmas

----------------------------------------------------------------------------
(* The inductive invariant.                                                *)

\* What is added to the pool are orders of the strategy.
OwnTicket == [id : Positive, order : OrderSet]

\* Where remove_if is: the part kept is shorter than the part looked at.
PoolTypeOK ==
  /\ pending_orders \in Seq(OwnTicket)
  /\ kept \in Seq(OwnTicket)
  /\ cursor \in Positive
  /\ submitted \in Nat
  /\ executed \in Seq(Positive)
  /\ engine \in {"idle", "scan", "execute", "settle"}

Positions ==
  /\ Len(kept) < cursor
  /\ cursor <= Len(pending_orders) + 1
  /\ engine \in {"execute", "settle"} => cursor <= Len(pending_orders)
  /\ engine = "idle" => kept = << >> /\ cursor = 1

PoolInv == PoolTypeOK /\ Positions /\ NoOrderLost

----------------------------------------------------------------------------
(* The ids of a pool that is extended, cut or joined.                      *)
IdsFrom(s, m) == {s[k].id : k \in m..Len(s)}

LEMMA IdsOfAppend ==
  ASSUME NEW s \in Seq(OwnTicket), NEW t \in OwnTicket
  PROVE  Ids(Append(s, t)) = Ids(s) \cup {t.id}
<1>1. Len(Append(s, t)) = Len(s) + 1 /\ Len(s) \in Nat
  OBVIOUS
<1>2. \A k \in 1..Len(s) : Append(s, t)[k] = s[k]
  OBVIOUS
<1>3. Append(s, t)[Len(s) + 1] = t
  OBVIOUS
<1>4. 1..(Len(s) + 1) = (1..Len(s)) \cup {Len(s) + 1}
  BY <1>1
<1> QED BY <1>1, <1>2, <1>3, <1>4 DEF Ids

LEMMA IdsOfRest ==
  ASSUME NEW s \in Seq(OwnTicket), NEW m \in Positive, m <= Len(s) + 1
  PROVE  Ids(SubSeq(s, m, Len(s))) = IdsFrom(s, m)
<1> DEFINE r == SubSeq(s, m, Len(s))
<1>1. Len(r) = Len(s) + 1 - m /\ Len(s) \in Nat
  BY DEF Positive
<1>2. \A k \in 1..Len(r) : r[k] = s[m + k - 1] /\ m + k - 1 \in m..Len(s)
  BY <1>1 DEF Positive
<1>3. \A j \in m..Len(s) : j - m + 1 \in 1..Len(r) /\ r[j - m + 1] = s[j]
  BY <1>1 DEF Positive
<1> HIDE DEF r
<1>4. Ids(r) \subseteq IdsFrom(s, m)
  BY <1>2 DEF Ids, IdsFrom
<1>5. IdsFrom(s, m) \subseteq Ids(r)
  BY <1>3 DEF Ids, IdsFrom
<1> QED BY <1>4, <1>5 DEF r

LEMMA IdsOfConcat ==
  ASSUME NEW s \in Seq(OwnTicket), NEW t \in Seq(OwnTicket)
  PROVE  Ids(s \o t) = Ids(s) \cup Ids(t)
<1> DEFINE c == s \o t
<1>1. Len(c) = Len(s) + Len(t) /\ Len(s) \in Nat /\ Len(t) \in Nat
  OBVIOUS
<1>2. \A k \in 1..Len(c) : c[k] = IF k <= Len(s) THEN s[k] ELSE t[k - Len(s)]
  OBVIOUS
<1> HIDE DEF c
<1>3. Ids(c) \subseteq Ids(s) \cup Ids(t)
  <2> SUFFICES ASSUME NEW k \in 1..Len(c) PROVE c[k].id \in Ids(s) \cup Ids(t)
    BY DEF Ids
  <2>1. CASE k <= Len(s)
    <3>1. k \in 1..Len(s) /\ c[k] = s[k]
      BY <1>1, <1>2, <2>1
    <3> QED BY <3>1 DEF Ids
  <2>2. CASE ~(k <= Len(s))
    <3>1. k - Len(s) \in 1..Len(t) /\ c[k] = t[k - Len(s)]
      BY <1>1, <1>2, <2>2
    <3> QED BY <3>1 DEF Ids
  <2> QED BY <2>1, <2>2
<1>4. \A k \in 1..Len(s) : k \in 1..Len(c) /\ c[k] = s[k]
  BY <1>1, <1>2
<1>5. \A k \in 1..Len(t) : Len(s) + k \in 1..Len(c) /\ c[Len(s) + k] = t[k]
  <2> TAKE k \in 1..Len(t)
  <2>1. Len(s) + k \in 1..Len(c) /\ ~(Len(s) + k <= Len(s)) /\ Len(s) + k - Len(s) = k
    BY <1>1
  <2>2. c[Len(s) + k] = t[Len(s) + k - Len(s)]
    BY <1>2, <2>1
  <2> QED BY <2>1, <2>2
<1>6. Ids(s) \cup Ids(t) \subseteq Ids(c)
  BY <1>4, <1>5 DEF Ids
<1> QED BY <1>3, <1>6 DEF c

\* The first order that a pass has still to decide on.
FirstUndecided == IF engine = "settle" THEN cursor + 1 ELSE cursor

(* The orders that wait are those kept and those from there on.            *)
LEMMA IdsOfWaiting ==
  ASSUME PoolTypeOK, Positions
  PROVE  Ids(Waiting) = Ids(kept) \cup IdsFrom(pending_orders, FirstUndecided)
<1>1. FirstUndecided \in Positive /\ FirstUndecided <= Len(pending_orders) + 1
      /\ Undecided = SubSeq(pending_orders, FirstUndecided, Len(pending_orders))
  BY DEF PoolTypeOK, Positions, Positive, FirstUndecided, Undecided
<1>2. Undecided \in Seq(OwnTicket)
  BY <1>1 DEF PoolTypeOK, Positive
<1>3. Ids(Undecided) = IdsFrom(pending_orders, FirstUndecided)
  BY <1>1, IdsOfRest DEF PoolTypeOK
<1>4. CASE engine = "idle"
  <2>1. Waiting = pending_orders /\ FirstUndecided = 1 /\ kept = << >>
    BY <1>4 DEF Positions, Waiting, FirstUndecided
  <2>2. Ids(kept) = {}
    BY <2>1 DEF Ids
  <2> QED BY <2>1, <2>2 DEF Ids, IdsFrom
<1>5. CASE engine # "idle"
  <2>1. Waiting = kept \o Undecided
    BY <1>5 DEF Waiting
  <2> QED BY <1>2, <1>3, <2>1, IdsOfConcat DEF PoolTypeOK
<1> QED BY <1>4, <1>5

(* The same after a step.                                                  *)
LEMMA IdsOfWaitingNext ==
  (PoolTypeOK /\ Positions)' =>
    (Ids(Waiting) = Ids(kept) \cup IdsFrom(pending_orders, FirstUndecided))'
<1>1. PoolTypeOK /\ Positions =>
        Ids(Waiting) = Ids(kept) \cup IdsFrom(pending_orders, FirstUndecided)
  BY IdsOfWaiting
<1> QED BY <1>1, PTL

\* NoOrderLost, with the waiting orders in their two parts.
Accounted ==
  1..submitted \subseteq Ids(kept) \cup IdsFrom(pending_orders, FirstUndecided)
                         \cup Settling \cup Executed

LEMMA AccountedAfter ==
  ASSUME (PoolTypeOK /\ Positions)', Accounted'
  PROVE  PoolInv'
<1>1. (Ids(Waiting) = Ids(kept) \cup IdsFrom(pending_orders, FirstUndecided))'
  BY IdsOfWaitingNext
<1> QED BY <1>1 DEF PoolInv, NoOrderLost, Accounted

LEMMA AccountedBefore ==
  ASSUME PoolInv
  PROVE  PoolTypeOK /\ Positions /\ Accounted
BY IdsOfWaiting DEF PoolInv, NoOrderLost, Accounted

----------------------------------------------------------------------------
(* Each step of the engine preserves the invariant.                        *)

LEMMA PoolInit ==
  ASSUME EngineInit
  PROVE  PoolInv
<1>1. PoolTypeOK /\ Positions
  BY DEF EngineInit, PoolTypeOK, Positions, Positive
<1>2. 1..submitted = {}
  BY DEF EngineInit
<1> QED BY <1>1, <1>2 DEF PoolInv, NoOrderLost

LEMMA AddOrderKeepsPool ==
  ASSUME PoolInv, NEW o \in OrderSet, AddOrder(o)
  PROVE  PoolInv'
<1> DEFINE t == [id |-> submitted + 1, order |-> o]
<1>1. PoolTypeOK /\ Positions /\ Accounted
  BY AccountedBefore
<1>2. t \in OwnTicket
  BY <1>1 DEF OwnTicket, PoolTypeOK, Positive
<1>3. /\ engine = "idle" /\ engine' = "idle" /\ kept = << >> /\ kept' = << >>
      /\ cursor = 1 /\ cursor' = 1 /\ executed' = executed
      /\ submitted' = submitted + 1 /\ pending_orders' = Append(pending_orders, t)
  BY <1>1 DEF AddOrder, Positions
<1> HIDE DEF t
<1>4. (PoolTypeOK /\ Positions)'
  <2>1. pending_orders' \in Seq(OwnTicket)
    BY <1>1, <1>2, <1>3 DEF PoolTypeOK
  <2>2. Len(pending_orders') \in Nat
    BY <2>1
  <2> QED BY <1>1, <1>3, <2>1, <2>2 DEF PoolTypeOK, Positions
<1>5. Ids(pending_orders') = Ids(pending_orders) \cup {submitted + 1}
  BY <1>1, <1>2, <1>3, IdsOfAppend DEF PoolTypeOK, t
<1>6. 1..(submitted + 1) = (1..submitted) \cup {submitted + 1}
  BY <1>1 DEF PoolTypeOK
<1>7. /\ Waiting = pending_orders /\ Waiting' = pending_orders'
      /\ Settling = {} /\ Settling' = {} /\ Executed' = Executed
  BY <1>3 DEF Waiting, Settling, Executed
<1> QED BY <1>3, <1>4, <1>5, <1>6, <1>7 DEF PoolInv, NoOrderLost

LEMMA BeginTickKeepsPool ==
  ASSUME PoolInv, NEW b, BeginTick(b)
  PROVE  PoolInv'
<1>1. PoolTypeOK /\ Positions /\ Accounted
  BY AccountedBefore
<1>2. (PoolTypeOK /\ Positions)'
  BY <1>1 DEF PoolTypeOK, Positions, BeginTick
<1>3. Accounted'
  BY <1>1 DEF Accounted, BeginTick, FirstUndecided, Settling, Executed, IdsFrom, Ids
<1> QED BY <1>2, <1>3, AccountedAfter

LEMMA CallExecutorKeepsPool ==
  ASSUME PoolInv, CallExecutor
  PROVE  PoolInv'
<1>1. PoolTypeOK /\ Positions /\ Accounted
  BY AccountedBefore
<1>2. (PoolTypeOK /\ Positions)'
  BY <1>1 DEF PoolTypeOK, Positions, CallExecutor
<1>3. Accounted'
  BY <1>1 DEF Accounted, CallExecutor, FirstUndecided, Settling, Executed, IdsFrom, Ids
<1> QED BY <1>2, <1>3, AccountedAfter

\* What a pass has still to decide on, before and after the order it is at.
LEMMA CurrentFirst ==
  ASSUME PoolTypeOK, cursor <= Len(pending_orders)
  PROVE  /\ Current \in OwnTicket
         /\ IdsFrom(pending_orders, cursor) =
              {Current.id} \cup IdsFrom(pending_orders, cursor + 1)
<1>1. cursor \in 1..Len(pending_orders) /\ Len(pending_orders) \in Nat
  BY DEF PoolTypeOK, Positive
<1>2. cursor..Len(pending_orders) = {cursor} \cup (cursor + 1)..Len(pending_orders)
  BY <1>1
<1> QED BY <1>1, <1>2 DEF IdsFrom, Current, PoolTypeOK

LEMMA KeepKeepsPool ==
  ASSUME PoolInv, Keep
  PROVE  PoolInv'
<1>1. PoolTypeOK /\ Positions /\ Accounted
  BY AccountedBefore
<1>2. /\ engine = "execute" /\ engine' = "scan" /\ cursor <= Len(pending_orders)
      /\ kept' = Append(kept, Current) /\ cursor' = cursor + 1
      /\ UNCHANGED <<pending_orders, submitted, executed>>
  BY <1>1 DEF Keep, Positions
<1>3. Current \in OwnTicket
  BY <1>1, <1>2, CurrentFirst
<1>4. (PoolTypeOK /\ Positions)'
  <2>1. kept' \in Seq(OwnTicket) /\ Len(kept') = Len(kept) + 1 /\ Len(kept) \in Nat
    BY <1>1, <1>2, <1>3 DEF PoolTypeOK
  <2>2. Len(pending_orders) \in Nat
    BY <1>1 DEF PoolTypeOK
  <2> QED BY <1>1, <1>2, <2>1, <2>2 DEF PoolTypeOK, Positions, Positive
<1>5. Ids(kept') = Ids(kept) \cup {Current.id}
  BY <1>1, <1>2, <1>3, IdsOfAppend DEF PoolTypeOK
<1>6. IdsFrom(pending_orders, cursor) =
        {Current.id} \cup IdsFrom(pending_orders, cursor + 1)
  BY <1>1, <1>2, CurrentFirst
<1>7. /\ FirstUndecided = cursor /\ FirstUndecided' = cursor + 1
      /\ Settling = {} /\ Settling' = {} /\ Executed' = Executed
  BY <1>2 DEF FirstUndecided, Settling, Executed
<1>8. Accounted'
  <2>1. IdsFrom(pending_orders, FirstUndecided)' = IdsFrom(pending_orders, cursor + 1)
    BY <1>2, <1>7 DEF IdsFrom
  <2>2. Ids(kept)' = Ids(kept')
    BY DEF Ids
  <2> QED BY <1>1, <1>2, <1>5, <1>6, <1>7, <2>1, <2>2 DEF Accounted
<1> QED BY <1>4, <1>8, AccountedAfter

LEMMA TradeKeepsPool ==
  ASSUME PoolInv, Trade
  PROVE  PoolInv'
<1>1. PoolTypeOK /\ Positions /\ Accounted
  BY AccountedBefore
<1>2. /\ engine = "execute" /\ engine' = "settle" /\ cursor <= Len(pending_orders)
      /\ UNCHANGED <<pending_orders, kept, cursor, submitted, executed>>
  BY <1>1 DEF Trade, AsksPortfolio, Positions
<1>3. (PoolTypeOK /\ Positions)'
  BY <1>1, <1>2 DEF PoolTypeOK, Positions
<1>4. IdsFrom(pending_orders, cursor) =
        {Current.id} \cup IdsFrom(pending_orders, cursor + 1)
  BY <1>1, <1>2, CurrentFirst
<1>5. /\ FirstUndecided = cursor /\ FirstUndecided' = cursor + 1
      /\ Settling = {} /\ Settling' = {Current.id} /\ Executed' = Executed
  BY <1>2 DEF FirstUndecided, Settling, Executed, Current
<1>6. Accounted'
  <2>1. IdsFrom(pending_orders, FirstUndecided)' = IdsFrom(pending_orders, cursor + 1)
    BY <1>2, <1>5 DEF IdsFrom
  <2>2. Ids(kept)' = Ids(kept)
    BY <1>2 DEF Ids
  <2> QED BY <1>1, <1>2, <1>4, <1>5, <2>1, <2>2 DEF Accounted
<1> QED BY <1>3, <1>6, AccountedAfter

LEMMA DropExecutedKeepsPool ==
  ASSUME PoolInv, DropExecuted
  PROVE  PoolInv'
<1>1. PoolTypeOK /\ Positions /\ Accounted
  BY AccountedBefore
<1>2. /\ engine = "settle" /\ engine' = "scan" /\ cursor <= Len(pending_orders)
      /\ executed' = Append(executed, Current.id) /\ cursor' = cursor + 1
      /\ UNCHANGED <<pending_orders, kept, submitted>>
  BY <1>1 DEF DropExecuted, Positions
<1>3. Current.id \in Positive
  BY <1>1, <1>2, CurrentFirst DEF OwnTicket
<1>4. (PoolTypeOK /\ Positions)'
  <2>1. Len(pending_orders) \in Nat /\ Len(kept) \in Nat
    BY <1>1 DEF PoolTypeOK
  <2>2. executed' \in Seq(Positive)
    BY <1>1, <1>2, <1>3 DEF PoolTypeOK
  <2> QED BY <1>1, <1>2, <2>1, <2>2 DEF PoolTypeOK, Positions, Positive
<1>5. Executed' = Executed \cup {Current.id}
  <2>1. Len(executed') = Len(executed) + 1 /\ Len(executed) \in Nat
    BY <1>1, <1>2, <1>3 DEF PoolTypeOK
  <2>2. /\ \A k \in 1..Len(executed) : executed'[k] = executed[k]
        /\ executed'[Len(executed) + 1] = Current.id
    BY <1>1, <1>2, <1>3 DEF PoolTypeOK
  <2>3. DOMAIN executed = 1..Len(executed) /\ DOMAIN executed' = 1..Len(executed')
    BY <1>1, <1>4 DEF PoolTypeOK
  <2>4. 1..(Len(executed) + 1) = (1..Len(executed)) \cup {Len(executed) + 1}
    BY <2>1
  <2> QED BY <2>1, <2>2, <2>3, <2>4 DEF Executed, Range
<1>6. /\ FirstUndecided = cursor + 1 /\ FirstUndecided' = cursor + 1
      /\ Settling = {Current.id} /\ Settling' = {}
  BY <1>2 DEF FirstUndecided, Settling
<1>7. Accounted'
  <2>1. IdsFrom(pending_orders, FirstUndecided)' = IdsFrom(pending_orders, FirstUndecided)
    BY <1>2, <1>6 DEF IdsFrom
  <2>2. Ids(kept)' = Ids(kept)
    BY <1>2 DEF Ids
  <2> QED BY <1>1, <1>2, <1>5, <1>6, <2>1, <2>2 DEF Accounted
<1> QED BY <1>4, <1>7, AccountedAfter

LEMMA EraseRemovedKeepsPool ==
  ASSUME PoolInv, EraseRemoved
  PROVE  PoolInv'
<1>1. PoolTypeOK /\ Positions /\ Accounted
  BY AccountedBefore
<1>2. /\ engine = "scan" /\ engine' = "idle" /\ cursor > Len(pending_orders)
      /\ pending_orders' = kept /\ kept' = << >> /\ cursor' = 1
      /\ UNCHANGED <<submitted, executed>>
  BY DEF EraseRemoved, LeaveTick
<1>3. (PoolTypeOK /\ Positions)'
  BY <1>1, <1>2 DEF PoolTypeOK, Positions, Positive
<1>4. IdsFrom(pending_orders, cursor) = {}
  BY <1>1, <1>2 DEF IdsFrom, PoolTypeOK, Positive
<1>5. /\ FirstUndecided = cursor /\ Waiting' = kept
      /\ Settling = {} /\ Settling' = {} /\ Executed' = Executed
  BY <1>2 DEF FirstUndecided, Waiting, Settling, Executed
<1>6. NoOrderLost'
  BY <1>1, <1>2, <1>4, <1>5 DEF NoOrderLost, Accounted, Ids
<1> QED BY <1>3, <1>6 DEF PoolInv

(* The compaction has overwritten only orders that it had moved before, so *)
(* the exception may leave an order twice in the pool but never drops one. *)
LEMMA ThrowKeepsPool ==
  ASSUME PoolInv, Throw
  PROVE  PoolInv'
<1> DEFINE rest == SubSeq(pending_orders, Len(kept) + 1, Len(pending_orders))
<1>1. PoolTypeOK /\ Positions /\ Accounted
  BY AccountedBefore
<1>2. /\ engine = "scan" /\ engine' = "idle" /\ cursor <= Len(pending_orders)
      /\ pending_orders' = kept \o rest /\ kept' = << >> /\ cursor' = 1
      /\ UNCHANGED <<submitted, executed>>
  BY DEF Throw, LeaveTick
<1>3. /\ Len(kept) + 1 \in Positive /\ Len(kept) + 1 <= Len(pending_orders) + 1
      /\ Len(pending_orders) \in Nat
  BY <1>1, <1>2 DEF PoolTypeOK, Positions, Positive
<1>4. rest \in Seq(OwnTicket) /\ Ids(rest) = IdsFrom(pending_orders, Len(kept) + 1)
  <2>1. rest \in Seq(OwnTicket)
    BY <1>1, <1>3 DEF PoolTypeOK, Positive
  <2> QED BY <1>1, <1>3, <2>1, IdsOfRest DEF PoolTypeOK
<1> HIDE DEF rest
<1>5. pending_orders' \in Seq(OwnTicket)
  BY <1>1, <1>2, <1>4 DEF PoolTypeOK
<1>6. (PoolTypeOK /\ Positions)'
  BY <1>1, <1>2, <1>5 DEF PoolTypeOK, Positions, Positive
<1>7. Ids(pending_orders') = Ids(kept) \cup IdsFrom(pending_orders, Len(kept) + 1)
  BY <1>1, <1>2, <1>4, IdsOfConcat DEF PoolTypeOK
<1>8. IdsFrom(pending_orders, cursor) \subseteq IdsFrom(pending_orders, Len(kept) + 1)
  <2>1. cursor..Len(pending_orders) \subseteq (Len(kept) + 1)..Len(pending_orders)
    BY <1>1, <1>3 DEF PoolTypeOK, Positions, Positive
  <2> QED BY <2>1 DEF IdsFrom
<1>9. /\ FirstUndecided = cursor /\ Waiting' = pending_orders'
      /\ Settling = {} /\ Settling' = {} /\ Executed' = Executed
  BY <1>2 DEF FirstUndecided, Waiting, Settling, Executed
<1>10. NoOrderLost'
  BY <1>1, <1>2, <1>7, <1>8, <1>9 DEF NoOrderLost, Accounted
<1> QED BY <1>6, <1>10 DEF PoolInv

LEMMA OthersKeepPool ==
  ASSUME PoolInv, UNCHANGED engineVars
  PROVE  PoolInv'
<1>1. UNCHANGED <<pending_orders, engine, kept, cursor, submitted, executed>>
  BY DEF engineVars
<1>2. Waiting' = Waiting /\ Settling' = Settling /\ Executed' = Executed
  BY <1>1 DEF Waiting, Undecided, Settling, Current, Executed
<1> QED BY <1>1, <1>2 DEF PoolInv, PoolTypeOK, Positions, NoOrderLost

(* Every step of the backtest: the user's, the strategy's, the engine's.   *)
LEMMA StepKeepsPool ==
  ASSUME PoolInv, [Next]_vars
  PROVE  PoolInv'
<1>1. CASE UserCall
  BY <1>1, OthersKeepPool
     DEF UserCall, LinkPortfolio, AddData, SetStrategy, RunWithoutStrategy, Run
<1>2. ASSUME NEW answer \in Answers, OnTick(answer)
      PROVE  PoolInv'
  <2>1. CASE answer = << >>
    BY <1>2, <2>1, OthersKeepPool DEF OnTick, Answer
  <2>2. CASE answer # << >>
    <3>1. answer[1] \in OrderSet
      BY <1>2, <2>2 DEF Answers
    <3>2. AddOrder(answer[1])
      BY <1>2, <2>2 DEF OnTick, Answer
    <3> QED BY <3>1, <3>2, AddOrderKeepsPool
  <2> QED BY <2>1, <2>2
<1>3. CASE StartTick
  BY <1>3, BeginTickKeepsPool DEF StartTick
<1>4. CASE EngineStep
  BY <1>4, CallExecutorKeepsPool, KeepKeepsPool, TradeKeepsPool, DropExecutedKeepsPool,
     EraseRemovedKeepsPool, OthersKeepPool DEF EngineStep, RunExecutor, RunPortfolio
<1>5. CASE Exception
  BY <1>5, ThrowKeepsPool DEF Exception
<1>6. CASE InvalidData \/ RecordValue \/ EndOfData \/ Crash
  BY <1>6, OthersKeepPool DEF InvalidData, RecordValue, EndOfData, Crash
<1>7. CASE UNCHANGED vars
  BY <1>7, OthersKeepPool DEF vars
<1> QED BY <1>1, <1>2, <1>3, <1>4, <1>5, <1>6, <1>7 DEF Next, RunStep, LoopStep

(* PoolInv is inductive: it holds of every reachable state of the backtest *)
(* engine, whatever the strategy answers and however often run() is called *)
(* or left by an exception.                                                *)
THEOREM PoolInvInductive == Spec => []PoolInv
<1>1. Init => PoolInv
  BY PoolInit DEF Init
<1>2. PoolInv /\ [Next]_vars => PoolInv'
  BY StepKeepsPool
<1> QED BY <1>1, <1>2, PTL DEF Spec

(* The market engine's pass never loses an order, for any orders, data and *)
(* number of runs, exceptions included (src/market_engine.cpp).            *)
THEOREM OrdersAreNeverLost == Spec => []NoOrderLost
<1>1. PoolInv => NoOrderLost
  BY DEF PoolInv
<1> QED BY <1>1, PoolInvInductive, PTL

----------------------------------------------------------------------------
(* Where every order has an executor no exception disturbs the pass, and   *)
(* the pool stays in the order of submission.                              *)
AllHaveExecutors == \A o \in OrderSet : HasExecutor(o)

\* The pool is sorted by id, the part kept too, and lies before the part
\* that is still to be looked at.
Sorted ==
  /\ \A k, l \in 1..Len(pending_orders) : k < l => pending_orders[k].id < pending_orders[l].id
  /\ \A k, l \in 1..Len(kept) : k < l => kept[k].id < kept[l].id
  /\ \A k \in 1..Len(kept), m \in cursor..Len(pending_orders) : kept[k].id < pending_orders[m].id

\* Only numbers that were given out are in use.
GivenOut ==
  /\ \A k \in 1..Len(pending_orders) : pending_orders[k].id <= submitted
  /\ \A k \in 1..Len(kept) : kept[k].id <= submitted
  /\ \A n \in 1..Len(executed) : executed[n] <= submitted

\* What has been executed is gone: it neither waits nor is looked at again.
Gone ==
  /\ \A n \in 1..Len(executed), k \in 1..Len(kept) : executed[n] # kept[k].id
  /\ \A n \in 1..Len(executed), m \in cursor..Len(pending_orders) : executed[n] # pending_orders[m].id
  /\ \A n, l \in 1..Len(executed) : n # l => executed[n] # executed[l]

TurnInv == PoolTypeOK /\ Positions /\ Sorted /\ GivenOut /\ Gone

LEMMA IdsArePositive ==
  ASSUME NEW s \in Seq(OwnTicket), NEW k \in 1..Len(s)
  PROVE  s[k].id \in Positive /\ s[k].id \in Int
<1>1. s[k] \in OwnTicket
  OBVIOUS
<1> QED BY <1>1 DEF OwnTicket, Positive

LEMMA TurnInit ==
  ASSUME EngineInit
  PROVE  TurnInv
<1>1. PoolTypeOK /\ Positions
  BY PoolInit DEF PoolInv
<1>2. Sorted /\ GivenOut /\ Gone
  BY DEF EngineInit, Sorted, GivenOut, Gone
<1> QED BY <1>1, <1>2 DEF TurnInv

LEMMA AddOrderKeepsTurns ==
  ASSUME TurnInv, (PoolTypeOK /\ Positions)', NEW o \in OrderSet, AddOrder(o)
  PROVE  TurnInv'
<1> DEFINE t == [id |-> submitted + 1, order |-> o]
           n == Len(pending_orders)
<1>1. t \in OwnTicket /\ t.id = submitted + 1 /\ submitted \in Nat
  BY DEF OwnTicket, TurnInv, PoolTypeOK, Positive
<1>2. /\ kept = << >> /\ kept' = << >> /\ cursor = 1 /\ cursor' = 1 /\ executed' = executed
      /\ submitted' = submitted + 1 /\ pending_orders' = Append(pending_orders, t)
  BY DEF AddOrder, TurnInv, Positions
<1> HIDE DEF t
<1>3. /\ pending_orders \in Seq(OwnTicket) /\ n \in Nat /\ Len(pending_orders') = n + 1
      /\ \A k \in 1..n : pending_orders'[k] = pending_orders[k] /\ pending_orders[k].id \in Positive
      /\ pending_orders'[n + 1] = t
  <2>1. pending_orders \in Seq(OwnTicket)
    BY DEF TurnInv, PoolTypeOK
  <2> QED BY <1>1, <1>2, <2>1, IdsArePositive
<1>4. \A k \in 1..n : pending_orders[k].id <= submitted
  BY DEF TurnInv, GivenOut
<1>5. \A m \in 1..Len(executed) : executed[m] \in Positive /\ executed[m] <= submitted
  BY DEF TurnInv, GivenOut, PoolTypeOK
<1>6. Sorted'
  <2>1. ASSUME NEW k \in 1..(n + 1), NEW l \in 1..(n + 1), k < l
        PROVE  pending_orders'[k].id < pending_orders'[l].id
    <3>1. k \in 1..n /\ pending_orders'[k] = pending_orders[k]
      BY <1>3, <2>1
    <3>2. CASE l = n + 1
      BY <1>1, <1>3, <1>4, <3>1, <3>2 DEF Positive
    <3>3. CASE l \in 1..n
      BY <1>3, <2>1, <3>1, <3>3 DEF TurnInv, Sorted
    <3> QED BY <1>3, <3>2, <3>3
  <2>2. Len(kept') = 0
    BY <1>2
  <2> QED BY <1>2, <1>3, <2>1, <2>2 DEF Sorted
<1>7. GivenOut'
  <2>1. ASSUME NEW k \in 1..(n + 1)
        PROVE  pending_orders'[k].id <= submitted + 1
    BY <1>1, <1>3, <1>4 DEF Positive
  <2> QED BY <1>1, <1>2, <1>3, <1>5, <2>1 DEF GivenOut, Positive
<1>8. Gone'
  <2>1. ASSUME NEW m \in 1..Len(executed), NEW k \in 1..(n + 1)
        PROVE  executed[m] # pending_orders'[k].id
    <3>1. CASE k = n + 1
      BY <1>1, <1>3, <1>5, <3>1 DEF Positive
    <3>2. CASE k \in 1..n
      BY <1>2, <1>3, <3>2 DEF TurnInv, Gone
    <3> QED BY <1>3, <3>1, <3>2
  <2> QED BY <1>2, <1>3, <2>1 DEF TurnInv, Gone
<1> QED BY <1>6, <1>7, <1>8 DEF TurnInv

LEMMA KeepKeepsTurns ==
  ASSUME TurnInv, (PoolTypeOK /\ Positions)', Keep
  PROVE  TurnInv'
<1> DEFINE n == Len(kept)
<1>1. /\ cursor \in 1..Len(pending_orders) /\ Len(pending_orders) \in Nat
      /\ kept' = Append(kept, Current) /\ cursor' = cursor + 1
      /\ UNCHANGED <<pending_orders, submitted, executed>>
  BY DEF Keep, TurnInv, Positions, PoolTypeOK, Positive
<1>2. Current \in OwnTicket /\ Current = pending_orders[cursor]
  BY <1>1 DEF Current, TurnInv, PoolTypeOK
<1>3. /\ n \in Nat /\ Len(kept') = n + 1 /\ kept'[n + 1] = Current
      /\ \A k \in 1..n : kept'[k] = kept[k]
  BY <1>1, <1>2 DEF TurnInv, PoolTypeOK
<1>4. 1..(n + 1) = (1..n) \cup {n + 1}
  BY <1>3
<1>5. \A m \in (cursor + 1)..Len(pending_orders) :
        /\ m \in cursor..Len(pending_orders) /\ m \in 1..Len(pending_orders) /\ cursor < m
  BY <1>1
<1>6. cursor \in cursor..Len(pending_orders)
  BY <1>1
<1>7. Sorted'
  <2>1. ASSUME NEW k \in 1..(n + 1), NEW l \in 1..(n + 1), k < l
        PROVE  kept'[k].id < kept'[l].id
    <3>1. k \in 1..n /\ kept'[k] = kept[k]
      BY <1>3, <2>1
    <3>2. CASE l = n + 1
      BY <1>2, <1>3, <1>6, <3>1, <3>2 DEF TurnInv, Sorted
    <3>3. CASE l \in 1..n
      BY <1>3, <2>1, <3>1, <3>3 DEF TurnInv, Sorted
    <3> QED BY <1>4, <3>2, <3>3
  <2>2. ASSUME NEW k \in 1..(n + 1), NEW m \in (cursor + 1)..Len(pending_orders)
        PROVE  kept'[k].id < pending_orders[m].id
    <3>1. CASE k = n + 1
      BY <1>1, <1>2, <1>3, <1>5, <3>1 DEF TurnInv, Sorted
    <3>2. CASE k \in 1..n
      BY <1>3, <1>5, <3>2 DEF TurnInv, Sorted
    <3> QED BY <1>4, <3>1, <3>2
  <2> QED BY <1>1, <1>3, <2>1, <2>2 DEF TurnInv, Sorted
<1>8. GivenOut'
  <2>1. \A k \in 1..(n + 1) : kept'[k].id <= submitted
    BY <1>1, <1>2, <1>3, <1>4 DEF TurnInv, GivenOut
  <2> QED BY <1>1, <1>3, <2>1 DEF TurnInv, GivenOut
<1>9. Gone'
  <2>1. \A m \in 1..Len(executed), k \in 1..(n + 1) : executed[m] # kept'[k].id
    BY <1>2, <1>3, <1>4, <1>6 DEF TurnInv, Gone
  <2>2. \A m \in 1..Len(executed), l \in (cursor + 1)..Len(pending_orders) :
          executed[m] # pending_orders[l].id
    BY <1>5 DEF TurnInv, Gone
  <2> QED BY <1>1, <1>3, <2>1, <2>2 DEF TurnInv, Gone
<1> QED BY <1>7, <1>8, <1>9 DEF TurnInv

LEMMA DropExecutedKeepsTurns ==
  ASSUME TurnInv, (PoolTypeOK /\ Positions)', DropExecuted
  PROVE  TurnInv'
<1> DEFINE n == Len(executed)
<1>1. /\ cursor \in 1..Len(pending_orders) /\ Len(pending_orders) \in Nat
      /\ executed' = Append(executed, Current.id) /\ cursor' = cursor + 1
      /\ UNCHANGED <<pending_orders, submitted, kept>>
  BY DEF DropExecuted, TurnInv, Positions, PoolTypeOK, Positive
<1>2. Current.id \in Positive /\ Current = pending_orders[cursor]
  BY <1>1 DEF Current, TurnInv, PoolTypeOK, OwnTicket
<1>3. /\ n \in Nat /\ Len(executed') = n + 1 /\ executed'[n + 1] = Current.id
      /\ \A k \in 1..n : executed'[k] = executed[k]
  BY <1>1, <1>2 DEF TurnInv, PoolTypeOK
<1>4. 1..(n + 1) = (1..n) \cup {n + 1} /\ n + 1 \notin 1..n
  BY <1>3
<1>5. \A m \in (cursor + 1)..Len(pending_orders) :
        /\ m \in cursor..Len(pending_orders) /\ m \in 1..Len(pending_orders) /\ cursor < m
  BY <1>1
<1>6. cursor \in cursor..Len(pending_orders)
  BY <1>1
<1>7. \A k \in 1..Len(pending_orders) : pending_orders[k].id \in Int
  BY IdsArePositive DEF TurnInv, PoolTypeOK
<1>8. \A k \in 1..Len(kept) : kept[k].id \in Int
  BY IdsArePositive DEF TurnInv, PoolTypeOK
<1>9. Sorted'
  BY <1>1, <1>5 DEF TurnInv, Sorted
<1>10. GivenOut'
  <2>1. \A k \in 1..(n + 1) : executed'[k] <= submitted
    BY <1>1, <1>2, <1>3, <1>4 DEF TurnInv, GivenOut
  <2> QED BY <1>1, <1>3, <2>1 DEF TurnInv, GivenOut
<1>11. Gone'
  <2>1. ASSUME NEW m \in 1..(n + 1), NEW k \in 1..Len(kept)
        PROVE  executed'[m] # kept[k].id
    <3>1. CASE m = n + 1
      <4>1. kept[k].id < Current.id
        BY <1>2, <1>6 DEF TurnInv, Sorted
      <4> QED BY <1>2, <1>3, <1>8, <3>1, <4>1 DEF Positive
    <3>2. CASE m \in 1..n
      BY <1>3, <3>2 DEF TurnInv, Gone
    <3> QED BY <1>4, <3>1, <3>2
  <2>2. ASSUME NEW m \in 1..(n + 1), NEW l \in (cursor + 1)..Len(pending_orders)
        PROVE  executed'[m] # pending_orders[l].id
    <3>1. CASE m = n + 1
      <4>1. Current.id < pending_orders[l].id
        BY <1>1, <1>2, <1>5 DEF TurnInv, Sorted
      <4> QED BY <1>2, <1>3, <1>5, <1>7, <3>1, <4>1 DEF Positive
    <3>2. CASE m \in 1..n
      BY <1>3, <1>5, <3>2 DEF TurnInv, Gone
    <3> QED BY <1>4, <3>1, <3>2
  <2>3. ASSUME NEW m \in 1..(n + 1), NEW l \in 1..(n + 1), m # l
        PROVE  executed'[m] # executed'[l]
    <3>1. \A k \in 1..n : executed[k] # Current.id
      BY <1>2, <1>6 DEF TurnInv, Gone
    <3>2. CASE m \in 1..n /\ l \in 1..n
      BY <1>3, <2>3, <3>2 DEF TurnInv, Gone
    <3>3. CASE m = n + 1 \/ l = n + 1
      BY <1>3, <1>4, <2>3, <3>1, <3>3
    <3> QED BY <1>4, <3>2, <3>3
  <2> QED BY <1>1, <1>3, <2>1, <2>2, <2>3 DEF Gone
<1> QED BY <1>9, <1>10, <1>11 DEF TurnInv

LEMMA EraseRemovedKeepsTurns ==
  ASSUME TurnInv, (PoolTypeOK /\ Positions)', EraseRemoved
  PROVE  TurnInv'
<1>1. /\ pending_orders' = kept /\ kept' = << >> /\ cursor' = 1
      /\ UNCHANGED <<submitted, executed>>
  BY DEF EraseRemoved, LeaveTick
<1>2. Len(kept') = 0
  BY <1>1
<1>3. Sorted'
  BY <1>1, <1>2 DEF TurnInv, Sorted
<1>4. GivenOut'
  BY <1>1, <1>2 DEF TurnInv, GivenOut
<1>5. Gone'
  BY <1>1, <1>2 DEF TurnInv, Gone
<1> QED BY <1>3, <1>4, <1>5 DEF TurnInv

\* Steps that leave the pool, and where the pass is in it, as they are.
LEMMA OthersKeepTurns ==
  ASSUME TurnInv, (PoolTypeOK /\ Positions)',
         UNCHANGED <<pending_orders, kept, cursor, submitted, executed>>
  PROVE  TurnInv'
BY DEF TurnInv, Sorted, GivenOut, Gone

\* Where every order has an executor tick() throws nothing.
LEMMA NothingThrown ==
  ASSUME AllHaveExecutors, PoolTypeOK
  PROVE  ~Exception
<1> SUFFICES ASSUME Throw PROVE FALSE
  BY DEF Exception
<1>1. cursor \in 1..Len(pending_orders) /\ ~HasExecutor(Current.order)
  BY DEF Throw, PoolTypeOK, Positive
<1>2. Current \in OwnTicket
  BY <1>1 DEF Current, PoolTypeOK
<1>3. Current.order \in OrderSet
  BY <1>2 DEF OwnTicket
<1> QED BY <1>1, <1>3 DEF AllHaveExecutors

LEMMA StepKeepsTurns ==
  ASSUME AllHaveExecutors, TurnInv, PoolInv, [Next]_vars
  PROVE  TurnInv'
<1>0. (PoolTypeOK /\ Positions)'
  BY StepKeepsPool DEF PoolInv
<1>1. CASE UserCall
  BY <1>0, <1>1, OthersKeepTurns
     DEF UserCall, LinkPortfolio, AddData, SetStrategy, RunWithoutStrategy, Run, engineVars
<1>2. ASSUME NEW answer \in Answers, OnTick(answer)
      PROVE  TurnInv'
  <2>1. CASE answer = << >>
    BY <1>0, <1>2, <2>1, OthersKeepTurns DEF OnTick, Answer, engineVars
  <2>2. CASE answer # << >>
    <3>1. answer[1] \in OrderSet
      BY <1>2, <2>2 DEF Answers
    <3>2. AddOrder(answer[1])
      BY <1>2, <2>2 DEF OnTick, Answer
    <3> QED BY <1>0, <3>1, <3>2, AddOrderKeepsTurns
  <2> QED BY <2>1, <2>2
<1>3. CASE StartTick
  BY <1>0, <1>3, OthersKeepTurns DEF StartTick, BeginTick
<1>4. CASE EngineStep
  <2>1. CASE CallExecutor
    BY <1>0, <2>1, OthersKeepTurns DEF CallExecutor
  <2>2. CASE Trade
    BY <1>0, <2>2, OthersKeepTurns DEF Trade
  <2>3. CASE RunExecutor \/ RunPortfolio
    BY <1>0, <2>3, OthersKeepTurns DEF RunExecutor, RunPortfolio, engineVars
  <2> QED BY <1>0, <1>4, <2>1, <2>2, <2>3, KeepKeepsTurns, DropExecutedKeepsTurns,
             EraseRemovedKeepsTurns DEF EngineStep
<1>5. ~Exception
  BY NothingThrown DEF TurnInv
<1>6. CASE InvalidData \/ RecordValue \/ EndOfData \/ Crash
  BY <1>0, <1>6, OthersKeepTurns DEF InvalidData, RecordValue, EndOfData, Crash, engineVars
<1>7. CASE UNCHANGED vars
  BY <1>0, <1>7, OthersKeepTurns DEF vars, engineVars
<1> QED BY <1>1, <1>2, <1>3, <1>4, <1>5, <1>6, <1>7 DEF Next, RunStep, LoopStep

----------------------------------------------------------------------------
(* What the sorted pool says of the orders that wait.                      *)

LEMMA WaitingIsApart ==
  ASSUME TurnInv
  PROVE  Ids(Waiting) \cap (Executed \cup Settling) = {}
<1>1. PoolTypeOK /\ Positions /\ Sorted /\ Gone
  BY DEF TurnInv
<1>2. Ids(Waiting) = Ids(kept) \cup IdsFrom(pending_orders, FirstUndecided)
  BY <1>1, IdsOfWaiting
<1>3. FirstUndecided \in {cursor, cursor + 1} /\ cursor \in 1..(Len(pending_orders) + 1)
      /\ Len(pending_orders) \in Nat
  BY <1>1 DEF FirstUndecided, PoolTypeOK, Positions, Positive
<1>4. ASSUME NEW x \in Executed
      PROVE  x \notin Ids(Waiting)
  <2>1. PICK m \in 1..Len(executed) : x = executed[m]
    BY <1>1, <1>4 DEF Executed, Range, PoolTypeOK
  <2>2. x \notin Ids(kept)
    BY <1>1, <2>1 DEF Gone, Ids
  <2>3. FirstUndecided..Len(pending_orders) \subseteq cursor..Len(pending_orders)
    BY <1>3
  <2>4. x \notin IdsFrom(pending_orders, FirstUndecided)
    BY <1>1, <2>1, <2>3 DEF Gone, IdsFrom
  <2> QED BY <1>2, <2>2, <2>4
<1>5. ASSUME NEW x \in Settling
      PROVE  x \notin Ids(Waiting)
  <2>1. engine = "settle" /\ x = Current.id /\ cursor \in 1..Len(pending_orders)
    BY <1>1, <1>3, <1>5 DEF Settling, Positions
  <2>2. x = pending_orders[cursor].id /\ cursor \in cursor..Len(pending_orders)
    BY <1>3, <2>1 DEF Current
  <2>3. x \in Int
    BY <1>1, <2>1, <2>2, IdsArePositive DEF PoolTypeOK
  <2>4. x \notin Ids(kept)
    <3>1. ASSUME NEW k \in 1..Len(kept) PROVE x # kept[k].id
      <4>1. kept[k].id < x
        BY <1>1, <2>2 DEF Sorted
      <4>2. kept[k].id \in Int
        BY <1>1, IdsArePositive DEF PoolTypeOK
      <4> QED BY <2>3, <4>1, <4>2
    <3> QED BY <3>1 DEF Ids
  <2>5. x \notin IdsFrom(pending_orders, cursor + 1)
    <3>1. ASSUME NEW k \in (cursor + 1)..Len(pending_orders) PROVE x # pending_orders[k].id
      <4>1. k \in 1..Len(pending_orders) /\ cursor < k
        BY <1>3, <3>1
      <4>2. x < pending_orders[k].id
        BY <1>1, <2>1, <2>2, <4>1 DEF Sorted
      <4>3. pending_orders[k].id \in Int
        BY <1>1, <4>1, IdsArePositive DEF PoolTypeOK
      <4> QED BY <2>3, <4>2, <4>3
    <3> QED BY <3>1 DEF IdsFrom
  <2>6. FirstUndecided = cursor + 1
    BY <2>1 DEF FirstUndecided
  <2> QED BY <1>2, <2>4, <2>5, <2>6
<1> QED BY <1>4, <1>5

LEMMA WaitingIsSorted ==
  ASSUME TurnInv
  PROVE  \A k, l \in 1..Len(Waiting) : k < l => Waiting[k].id < Waiting[l].id
<1> DEFINE m == FirstUndecided
           rest == SubSeq(pending_orders, m, Len(pending_orders))
           n == Len(kept)
<1>1. PoolTypeOK /\ Positions /\ Sorted
  BY DEF TurnInv
<1>2. CASE engine = "idle"
  BY <1>1, <1>2 DEF Waiting, Sorted
<1>3. CASE engine # "idle"
  <2>1. /\ m \in {cursor, cursor + 1} /\ cursor \in Positive /\ m \in Positive
        /\ m <= Len(pending_orders) + 1 /\ Len(pending_orders) \in Nat /\ n \in Nat
    BY <1>1 DEF FirstUndecided, PoolTypeOK, Positions, Positive
  <2>2. Waiting = kept \o rest
    BY <1>3 DEF Waiting, Undecided, FirstUndecided
  <2>3. rest \in Seq(OwnTicket) /\ Len(rest) = Len(pending_orders) + 1 - m
    BY <1>1, <2>1 DEF PoolTypeOK, Positive
  <2>4. \A k \in 1..Len(rest) : rest[k] = pending_orders[m + k - 1]
    BY <1>1, <2>1 DEF PoolTypeOK, Positive
  <2> HIDE DEF rest, m
  <2>5. Len(Waiting) = n + Len(rest) /\ Len(rest) \in Nat
    <3>1. kept \in Seq(OwnTicket)
      BY <1>1 DEF PoolTypeOK
    <3>2. Len(kept \o rest) = Len(kept) + Len(rest)
      BY <2>3, <3>1
    <3>3. Len(rest) \in Nat
      BY <2>3
    <3> QED BY <2>2, <3>2, <3>3
  <2>6. \A k \in 1..Len(Waiting) :
          Waiting[k] = IF k <= n THEN kept[k] ELSE rest[k - n]
    BY <1>1, <2>2, <2>3 DEF PoolTypeOK
  <2>7. SUFFICES ASSUME NEW k \in 1..Len(Waiting), NEW l \in 1..Len(Waiting), k < l
                 PROVE  Waiting[k].id < Waiting[l].id
    OBVIOUS
  <2>8. CASE l <= n
    <3>1. k \in 1..n /\ l \in 1..n /\ Waiting[k] = kept[k] /\ Waiting[l] = kept[l]
      BY <2>5, <2>6, <2>7, <2>8
    <3> QED BY <1>1, <2>7, <3>1 DEF Sorted
  <2>9. CASE ~(l <= n)
    <3> DEFINE q == m + (l - n) - 1
    <3>1. l - n \in 1..Len(rest) /\ q \in cursor..Len(pending_orders)
          /\ q \in 1..Len(pending_orders)
      BY <2>1, <2>3, <2>5, <2>7, <2>9 DEF Positive
    <3>2. Waiting[l] = pending_orders[q]
      BY <2>4, <2>6, <2>9, <3>1
    <3>3. CASE k <= n
      <4>1. k \in 1..n /\ Waiting[k] = kept[k]
        BY <2>5, <2>6, <2>7, <3>3
      <4> QED BY <1>1, <3>1, <3>2, <4>1 DEF Sorted
    <3>4. CASE ~(k <= n)
      <4> DEFINE p == m + (k - n) - 1
      <4>1. k - n \in 1..Len(rest) /\ p \in 1..Len(pending_orders) /\ p < q
        BY <2>1, <2>3, <2>5, <2>7, <3>4 DEF Positive
      <4>2. Waiting[k] = pending_orders[p]
        BY <2>4, <2>6, <3>4, <4>1
      <4> QED BY <1>1, <3>1, <3>2, <4>1, <4>2 DEF Sorted
    <3> QED BY <3>3, <3>4
  <2> QED BY <2>8, <2>9
<1> QED BY <1>2, <1>3

LEMMA TurnsMeanOnce ==
  ASSUME TurnInv
  PROVE  ExecutedAtMostOnce
<1>1. IsInjective(executed)
  BY DEF IsInjective, TurnInv, Gone, PoolTypeOK
<1> QED BY <1>1, WaitingIsApart, WaitingIsSorted DEF ExecutedAtMostOnce

(* Where every order has an executor, no order is executed twice in the    *)
(* whole life of the engine, and those that wait keep the order in which   *)
(* they were added, over any number of ticks and of calls of run().        *)
THEOREM NoneExecutedTwice ==
  ASSUME AllHaveExecutors
  PROVE  Spec => []ExecutedAtMostOnce
<1>1. Init => TurnInv /\ PoolInv
  BY TurnInit, PoolInit DEF Init
<1>2. TurnInv /\ PoolInv /\ [Next]_vars => (TurnInv /\ PoolInv)'
  BY StepKeepsTurns, StepKeepsPool, AllHaveExecutors
<1>3. TurnInv => ExecutedAtMostOnce
  BY TurnsMeanOnce
<1> QED BY <1>1, <1>2, <1>3, PTL DEF Spec

----------------------------------------------------------------------------
(* The inductive invariant: each part's own, and that run() uses an index  *)
(* of the data between its bound check and the end of the loop's body.     *)

InData == run \in {"trade", "value"} => i <= Len(data)

AccountInv ==
  /\ OrdersTypeOK
  /\ PortfolioInv
  /\ RunTypeOK
  /\ InData
  /\ snapshot \in LOBData

LEMMA DataType ==
  ASSUME RunTypeOK, InData, run \in {"trade", "value"}
  PROVE  data[i] \in LOBData
<1>1. data \in Seq(Books) /\ i \in 1..Len(data)
  BY DEF RunTypeOK, InData, Positive
<1>2. data[i] \in Books
  BY <1>1
<1> QED BY <1>2, BooksAssumption

LEMMA EmptyBookType == EmptyBook \in LOBData
BY DEF EmptyBook, LOBData

LEMMA AccountInit == ASSUME Init PROVE AccountInv
<1>1. OrdersTypeOK
  BY NoCallType DEF Init, OrdersInit, OrdersTypeOK
<1>2. PortfolioInv
  <2>1. [cash |-> 0, assets |-> 0] \in [cash : Nat, assets : Nat]
    OBVIOUS
  <2>2. Holds([cash |-> 0, assets |-> 0])
    BY DEF Init, PortfolioInit
  <2> QED BY <2>1, <2>2, HoldsInv
<1>3. RunTypeOK /\ InData
  <2>1. data = << >> /\ data \in Seq(Books)
    BY DEF Init
  <2>2. i = 1 /\ i \in Positive /\ runs = 0 /\ runs \in Nat
    BY DEF Init, Positive
  <2>3. linked = FALSE /\ has_strategy = FALSE /\ run = "idle" /\ result = "none"
    BY DEF Init
  <2> QED BY <2>1, <2>2, <2>3 DEF RunTypeOK, InData
<1>4. snapshot \in LOBData
  BY EmptyBookType DEF Init, EngineInit
<1> QED BY <1>1, <1>2, <1>3, <1>4 DEF AccountInv

\* Steps that leave the executors, or the portfolio, as they are.
LEMMA SameOrders == ASSUME OrdersTypeOK, UNCHANGED ordersVars PROVE OrdersTypeOK'
BY DEF ordersVars, OrdersTypeOK

LEMMA SamePortfolio == ASSUME PortfolioInv, UNCHANGED portfolioVars PROVE PortfolioInv'
BY PortfolioInvInductive DEF PortfolioChange

LEMMA UserCallKeepsAccount ==
  ASSUME AccountInv, UserCall
  PROVE  AccountInv'
<1>1. OrdersTypeOK'
  BY SameOrders DEF AccountInv, UserCall, LinkPortfolio, AddData, SetStrategy,
                    RunWithoutStrategy, Run
<1>2. snapshot' = snapshot
  BY DEF UserCall, LinkPortfolio, AddData, SetStrategy, RunWithoutStrategy, Run, engineVars
<1>3. PortfolioInv'
  <2>1. ASSUME NEW balances \in Openings, LinkPortfolio(balances)
        PROVE  PortfolioInv'
    BY <2>1, OpeningsAssumption, CreateKeeps DEF AccountInv, LinkPortfolio
  <2>2. CASE (\E d \in DataSets : AddData(d)) \/ SetStrategy \/ RunWithoutStrategy \/ Run
    BY <2>2, SamePortfolio DEF AccountInv, AddData, SetStrategy, RunWithoutStrategy, Run
  <2> QED BY <2>1, <2>2 DEF UserCall
<1>4. RunTypeOK' /\ InData'
  <2>1. /\ RunTypeOK /\ run = "idle" /\ i' = i /\ run' \in {"idle", "tick"}
        /\ result' \in {result, "false"} /\ runs' \in {runs, runs + 1}
        /\ linked' \in {linked, TRUE} /\ has_strategy' \in {has_strategy, TRUE}
    BY DEF AccountInv, UserCall, LinkPortfolio, AddData, SetStrategy, RunWithoutStrategy, Run
  <2>2. data' = data \/ data' \in DataSets
    BY DEF UserCall, LinkPortfolio, AddData, SetStrategy, RunWithoutStrategy, Run
  <2>3. data' \in Seq(Books)
    BY <2>1, <2>2, DataSetsAssumption DEF RunTypeOK
  <2>4. runs' \in Nat /\ i' \in Positive
    BY <2>1 DEF RunTypeOK
  <2>5. linked' \in BOOLEAN /\ has_strategy' \in BOOLEAN
    BY <2>1 DEF RunTypeOK
  <2>6. /\ run' \in {"idle", "tick", "trade", "value", "crashed"}
        /\ result' \in {"none", "true", "false", "exception"}
    BY <2>1 DEF RunTypeOK
  <2>7. InData'
    BY <2>1 DEF InData
  <2> QED BY <2>3, <2>4, <2>5, <2>6, <2>7 DEF RunTypeOK
<1> QED BY <1>1, <1>2, <1>3, <1>4 DEF AccountInv

LEMMA OnTickKeepsAccount ==
  ASSUME AccountInv, NEW answer \in Answers, OnTick(answer)
  PROVE  AccountInv'
<1>1. snapshot' = snapshot
  BY DEF OnTick, Answer, AddOrder, engineVars
<1>2. RunTypeOK' /\ InData'
  BY DEF AccountInv, RunTypeOK, InData, OnTick, Answer
<1> QED BY <1>1, <1>2, SameOrders, SamePortfolio DEF AccountInv, OnTick, Answer

LEMMA StartTickKeepsAccount ==
  ASSUME AccountInv, StartTick
  PROVE  AccountInv'
<1>1. snapshot' \in LOBData
  BY DataType DEF AccountInv, StartTick, BeginTick
<1>2. RunTypeOK' /\ InData'
  BY DEF AccountInv, RunTypeOK, InData, StartTick
<1> QED BY <1>1, <1>2, SameOrders, SamePortfolio DEF AccountInv, StartTick

(* The steps of tick(): the fills it passes on are those of the executors. *)
LEMMA EngineStepKeepsAccount ==
  ASSUME AccountInv, PoolInv, EngineStep
  PROVE  AccountInv'
<1>1. RunTypeOK' /\ InData'
  BY DEF EngineStep, runVars, AccountInv, RunTypeOK, InData
<1>2. CASE CallExecutor
  <2>1. Current \in OwnTicket
    BY <1>2, CurrentFirst DEF CallExecutor, PoolInv
  <2>2. Current.order \in Order
    BY <2>1, OrdersAssumption DEF OwnTicket
  <2>3. OrdersTypeOK'
    BY <1>2, <2>2, ExecuteOrderType DEF CallExecutor, AccountInv
  <2> QED BY <1>1, <1>2, <2>3, SamePortfolio DEF CallExecutor, AccountInv
<1>3. CASE RunExecutor
  <2>1. OrdersTypeOK'
    BY <1>3, TakeLevelType, EndSweepType DEF RunExecutor, AccountInv
  <2> QED BY <1>1, <1>3, <2>1, SamePortfolio DEF RunExecutor, AccountInv, engineVars
<1>4. CASE Keep
  BY <1>1, <1>4, ReturnType, SamePortfolio DEF Keep, AccountInv
<1>5. CASE Trade
  <2>1. fills \in Seq(ExecutionFill)
    BY DEF AccountInv, OrdersTypeOK
  <2>2. PortfolioInv'
    BY <1>5, <2>1, UpdateAfterBuyKeeps, UpdateAfterSellKeeps DEF Trade, AccountInv
  <2> QED BY <1>1, <1>5, <2>2, ReturnType DEF Trade, AccountInv
<1>6. CASE RunPortfolio
  <2>1. PortfolioInv'
    BY <1>6, BookBuyKeeps, MatchLotKeeps, BookSellKeeps
       DEF RunPortfolio, PortfolioStep, AccountInv
  <2> QED BY <1>1, <1>6, <2>1, SameOrders DEF RunPortfolio, AccountInv, engineVars
<1>7. CASE DropExecuted
  BY <1>1, <1>7, SameOrders, SamePortfolio DEF DropExecuted, AccountInv
<1>8. CASE EraseRemoved
  BY <1>1, <1>8, SameOrders, SamePortfolio, EmptyBookType
     DEF EraseRemoved, LeaveTick, AccountInv
<1> QED BY <1>2, <1>3, <1>4, <1>5, <1>6, <1>7, <1>8 DEF EngineStep

LEMMA RecordValueKeepsAccount ==
  ASSUME AccountInv, RecordValue
  PROVE  AccountInv'
<1>1. run = "value" /\ ~OneSided(data[i])
  BY DEF RecordValue, TickDone
<1>2. data[i] \in LOBData
  BY <1>1, DataType DEF AccountInv
<1>3. data[i].bids[1].price \in Positive /\ data[i].asks[1].price \in Positive
  <2>1. /\ data[i].bids \in Seq(OrderBookEntry) /\ data[i].bids # << >>
        /\ data[i].asks \in Seq(OrderBookEntry) /\ data[i].asks # << >>
    BY <1>1, <1>2 DEF LOBData, OneSided
  <2>2. data[i].bids[1] \in OrderBookEntry /\ data[i].asks[1] \in OrderBookEntry
    BY <2>1
  <2> QED BY <2>2 DEF OrderBookEntry
<1>4. PortfolioInv'
  BY <1>3, UpdatePortfolioValueKeeps DEF RecordValue, AccountInv
<1>5. RunTypeOK' /\ InData'
  BY DEF RecordValue, AccountInv, RunTypeOK, InData, Positive
<1>6. OrdersTypeOK'
  BY SameOrders DEF RecordValue, AccountInv
<1>7. snapshot' = snapshot
  BY DEF RecordValue, engineVars
<1> QED BY <1>4, <1>5, <1>6, <1>7 DEF AccountInv

LEMMA OtherStepsKeepAccount ==
  ASSUME AccountInv, Exception \/ InvalidData \/ EndOfData \/ Crash
  PROVE  AccountInv'
<1>1. CASE Exception
  <2>1. RunTypeOK' /\ InData'
    BY <1>1 DEF Exception, Finish, AccountInv, RunTypeOK, InData, Positive
  <2> QED BY <1>1, <2>1, SameOrders, SamePortfolio, EmptyBookType
             DEF Exception, Throw, LeaveTick, AccountInv
<1>2. CASE InvalidData \/ EndOfData \/ Crash
  <2>1. RunTypeOK' /\ InData'
    BY <1>2 DEF InvalidData, EndOfData, Crash, Finish, AccountInv, RunTypeOK, InData, Positive
  <2> QED BY <1>2, <2>1, SameOrders, SamePortfolio
             DEF InvalidData, EndOfData, Crash, AccountInv, engineVars
<1> QED BY <1>1, <1>2

LEMMA StepKeepsAccount ==
  ASSUME AccountInv, PoolInv, [Next]_vars
  PROVE  AccountInv'
<1>1. CASE UNCHANGED vars
  <2>1. UNCHANGED <<ordersVars, portfolioVars, snapshot>> /\ RunTypeOK' /\ InData'
    BY <1>1 DEF vars, engineVars, runVars, AccountInv, RunTypeOK, InData
  <2> QED BY <2>1, SameOrders, SamePortfolio DEF AccountInv
<1>2. ASSUME NEW answer \in Answers, OnTick(answer)
      PROVE  AccountInv'
  BY <1>2, OnTickKeepsAccount
<1>3. CASE UserCall
  BY <1>3, UserCallKeepsAccount
<1>4. CASE StartTick
  BY <1>4, StartTickKeepsAccount
<1>5. CASE EngineStep
  BY <1>5, EngineStepKeepsAccount
<1>6. CASE RecordValue
  BY <1>6, RecordValueKeepsAccount
<1>7. CASE Exception \/ InvalidData \/ EndOfData \/ Crash
  BY <1>7, OtherStepsKeepAccount
<1> QED BY <1>1, <1>2, <1>3, <1>4, <1>5, <1>6, <1>7 DEF Next, RunStep, LoopStep

----------------------------------------------------------------------------
(* The invariant of executors, pool, portfolio and loop together.          *)
THEOREM AccountInvInductive == Spec => [](AccountInv /\ PoolInv)
<1>1. Init => AccountInv /\ PoolInv
  BY AccountInit, PoolInit DEF Init
<1>2. AccountInv /\ PoolInv /\ [Next]_vars => (AccountInv /\ PoolInv)'
  BY StepKeepsAccount, StepKeepsPool
<1> QED BY <1>1, <1>2, PTL DEF Spec

(* Every part of a backtest keeps its types: a sweep never produces a fill *)
(* of no amount, run() never reads past the data, no balance is anything   *)
(* but a number.                                                           *)
THEOREM BacktestTypeCorrect == Spec => []TypeOK
<1>1. AccountInv /\ PoolInv => TypeOK
  <2> SUFFICES ASSUME AccountInv, PoolInv PROVE TypeOK
    OBVIOUS
  <2>1. OwnTicket \subseteq Ticket
    BY OrdersAssumption DEF OwnTicket, Ticket
  <2>2. pending_orders \in Seq(Ticket) /\ kept \in Seq(Ticket)
    BY <2>1 DEF PoolInv, PoolTypeOK
  <2>3. EngineTypeOK
    BY <2>2 DEF EngineTypeOK, AccountInv, PoolInv, PoolTypeOK
  <2> QED BY <2>3 DEF TypeOK, AccountInv, PortfolioInv
<1> QED BY <1>1, AccountInvInductive, PTL

(* MarketEngine::execute asks can_buy or can_sell for the fills it then    *)
(* books, so no strategy, order or snapshot overdraws the portfolio of a   *)
(* backtest.                                                               *)
THEOREM BacktestNeverOverdrawn == Spec => []Solvent
<1>1. AccountInv => Solvent
  BY DEF AccountInv, PortfolioInv
<1> QED BY <1>1, AccountInvInductive, PTL

(* After any backtest the open lots account for the holdings, up to those  *)
(* the portfolio was created with and the dust of the lots dropped.        *)
THEOREM BacktestLotsAreCovered == Spec => []LotsAccountForHoldings
<1>1. AccountInv => LotsAccountForHoldings
  BY DEF AccountInv, PortfolioInv
<1> QED BY <1>1, AccountInvInductive, PTL

----------------------------------------------------------------------------
(* Prices.                                                                 *)

\* The snapshots as include/types.hpp:67-70 documents them, best price
\* first, and with no bid above an ask.
BestFirst(b) ==
  /\ \A k \in 1..Len(b.asks) : b.asks[1].price <= b.asks[k].price
  /\ \A k \in 1..Len(b.bids) : b.bids[k].price <= b.bids[1].price
Uncrossed(b) == ~OneSided(b) => b.bids[1].price <= b.asks[1].price

OrderlyBooks == \A b \in Books : BestFirst(b) /\ Uncrossed(b)

\* Every fill has the price of a level.
PricedBy(fs, ls) == \A k \in 1..Len(fs) : \E l \in 1..Len(ls) : fs[k].price = ls[l].price

----------------------------------------------------------------------------
(* The inductive invariant: where prices come from, and who is running.    *)
PriceInv ==
  /\ engine # "idle" => run \in {"value", "crashed"}
  /\ engine # "idle" => snapshot \in Books
  /\ ledger # "idle" => engine = "settle"
  /\ engine = "execute" => levels = Levels(order, snapshot) /\ PricedBy(fills, levels)
  /\ ledger = "buying" => PricedBy(due, snapshot.asks)
  /\ ledger = "matching" => PricedBy(due, snapshot.bids)

TradingInv == AccountInv /\ PoolInv /\ PriceInv

LEMMA PriceInit == ASSUME Init PROVE PriceInv
BY DEF Init, EngineInit, PortfolioInit, Holds, PriceInv

\* What is left of a list of fills has the prices it had.
LEMMA TailPriced ==
  ASSUME NEW fs \in Seq(ExecutionFill), fs # << >>, NEW ls, PricedBy(fs, ls)
  PROVE  PricedBy(Tail(fs), ls)
<1>1. Len(Tail(fs)) = Len(fs) - 1 /\ Len(fs) \in Nat
  OBVIOUS
<1>2. ASSUME NEW k \in 1..Len(Tail(fs))
      PROVE  Tail(fs)[k] = fs[k + 1] /\ k + 1 \in 1..Len(fs)
  BY <1>1, <1>2
<1> QED BY <1>2 DEF PricedBy

LEMMA UserCallKeepsPrices ==
  ASSUME TradingInv, UserCall
  PROVE  PriceInv'
<1>1. run = "idle" /\ engine = "idle" /\ ledger = "idle"
  BY DEF TradingInv, PriceInv, UserCall, LinkPortfolio, AddData, SetStrategy,
         RunWithoutStrategy, Run
<1>2. engine' = "idle"
  BY <1>1 DEF UserCall, LinkPortfolio, AddData, SetStrategy, RunWithoutStrategy, Run, engineVars
<1>3. ledger' = "idle"
  BY <1>1 DEF UserCall, LinkPortfolio, AddData, SetStrategy, RunWithoutStrategy, Run,
              Create, portfolioVars
<1> QED BY <1>2, <1>3 DEF PriceInv

LEMMA OnTickKeepsPrices ==
  ASSUME TradingInv, NEW answer \in Answers, OnTick(answer)
  PROVE  PriceInv'
<1>1. engine = "idle" /\ ledger = "idle"
  BY DEF TradingInv, PriceInv, OnTick, Answer
<1>2. engine' = "idle" /\ ledger' = "idle"
  BY <1>1 DEF OnTick, Answer, AddOrder, engineVars, portfolioVars
<1> QED BY <1>2 DEF PriceInv

LEMMA StartTickKeepsPrices ==
  ASSUME TradingInv, StartTick
  PROVE  PriceInv'
<1>1. data[i] \in Books
  <2>1. data \in Seq(Books) /\ i \in 1..Len(data)
    BY DEF TradingInv, AccountInv, RunTypeOK, InData, StartTick, Positive
  <2> QED BY <2>1
<1>2. engine = "idle" /\ engine' = "scan" /\ snapshot' = data[i] /\ run' = "value"
      /\ ledger' = ledger
  BY DEF StartTick, BeginTick, portfolioVars
<1>3. ledger = "idle"
  BY <1>2 DEF TradingInv, PriceInv
<1> QED BY <1>1, <1>2, <1>3 DEF PriceInv

LEMMA TakeLevelPriced ==
  ASSUME OrdersTypeOK, TakeLevel, PricedBy(fills, levels)
  PROVE  PricedBy(fills', levels')
<1> DEFINE fill == [amount |-> Smaller(remaining, levels[Cursor].amount),
                    price  |-> levels[Cursor].price]
<1>1. fills' = Append(fills, fill) /\ levels' = levels /\ Cursor <= Len(levels)
  BY DEF TakeLevel, SweepGoesOn
<1>2. /\ fills \in Seq(ExecutionFill) /\ Len(fills) \in Nat /\ Len(levels) \in Nat
      /\ Cursor = Len(fills) + 1
  BY DEF OrdersTypeOK, Cursor
<1>3. fill.price = levels[Cursor].price /\ Cursor \in 1..Len(levels)
  BY <1>1, <1>2
<1> HIDE DEF fill
<1>4. /\ Len(fills') = Len(fills) + 1 /\ fills'[Len(fills) + 1] = fill
      /\ \A k \in 1..Len(fills) : fills'[k] = fills[k]
  BY <1>1, <1>2
<1>5. 1..(Len(fills) + 1) = (1..Len(fills)) \cup {Len(fills) + 1}
  BY <1>2
<1> QED BY <1>1, <1>3, <1>4, <1>5 DEF PricedBy

LEMMA EngineStepKeepsPrices ==
  ASSUME TradingInv, EngineStep
  PROVE  PriceInv'
<1>1. PriceInv /\ OrdersTypeOK /\ PortfolioInv
  BY DEF TradingInv, AccountInv
<1>2. run' = run
  BY DEF EngineStep, runVars
<1>3. CASE CallExecutor
  <2>1. /\ engine = "scan" /\ engine' = "execute" /\ snapshot' = snapshot
        /\ order' = Current.order /\ levels' = Levels(Current.order, snapshot) /\ fills' = << >>
        /\ ledger' = ledger
    BY <1>3 DEF CallExecutor, ExecuteOrder, portfolioVars
  <2>2. PricedBy(fills', levels')
    BY <2>1 DEF PricedBy
  <2> QED BY <1>1, <1>2, <2>1, <2>2 DEF PriceInv
<1>4. CASE RunExecutor
  <2>1. /\ engine' = engine /\ snapshot' = snapshot /\ ledger' = ledger /\ due' = due
        /\ order' = order /\ levels' = levels
    BY <1>4 DEF RunExecutor, TakeLevel, EndSweep, engineVars, portfolioVars
  <2>2. PricedBy(fills, levels) => PricedBy(fills', levels')
    <3>1. CASE TakeLevel
      BY <1>1, <3>1, TakeLevelPriced
    <3>2. CASE EndSweep
      BY <3>2 DEF EndSweep, Returned, PricedBy
    <3> QED BY <1>4, <3>1, <3>2 DEF RunExecutor
  <2> QED BY <1>1, <1>2, <2>1, <2>2 DEF PriceInv
<1>5. CASE Keep
  <2>1. engine = "execute" /\ engine' = "scan" /\ snapshot' = snapshot /\ ledger' = ledger
    BY <1>5 DEF Keep, portfolioVars
  <2> QED BY <1>1, <1>2, <2>1 DEF PriceInv
<1>6. CASE Trade
  <2>1. engine = "execute" /\ engine' = "settle" /\ snapshot' = snapshot /\ due' = fills
    BY <1>6 DEF Trade, AsksPortfolio, UpdateAfterBuy, UpdateAfterSell
  <2>2. PricedBy(fills, Levels(order, snapshot))
    BY <1>1, <2>1 DEF PriceInv
  <2>3. \/ ledger' = "buying" /\ Levels(order, snapshot) = snapshot.asks
        \/ ledger' = "matching" /\ Levels(order, snapshot) = snapshot.bids
    BY <1>6 DEF Trade, UpdateAfterBuy, UpdateAfterSell, Levels
  <2> QED BY <1>1, <1>2, <2>1, <2>2, <2>3 DEF PriceInv
<1>7. CASE RunPortfolio
  <2>1. engine' = engine /\ snapshot' = snapshot /\ UNCHANGED ordersVars
    BY <1>7 DEF RunPortfolio, engineVars
  <2>2. due \in Seq(ExecutionFill) /\ (ledger # "idle" => due # << >>)
    BY <1>1 DEF PortfolioInv, PortfolioTypeOK, InLoop
  <2>3. CASE BookBuy
    <3>1. ledger = "buying" /\ ledger' \in {"idle", "buying"} /\ due' = Tail(due)
      BY <2>3 DEF BookBuy, Settle
    <3>2. PricedBy(due', snapshot.asks)
      BY <1>1, <2>2, <3>1, TailPriced DEF PriceInv
    <3> QED BY <1>1, <1>2, <2>1, <3>1, <3>2 DEF PriceInv, ordersVars
  <2>4. CASE BookSell
    <3>1. ledger = "matching" /\ ledger' \in {"idle", "matching"} /\ due' = Tail(due)
      BY <2>4 DEF BookSell, Settle
    <3>2. PricedBy(due', snapshot.bids)
      BY <1>1, <2>2, <3>1, TailPriced DEF PriceInv
    <3> QED BY <1>1, <1>2, <2>1, <3>1, <3>2 DEF PriceInv, ordersVars
  <2>5. CASE MatchLot
    <3>1. ledger' = ledger /\ due' = due
      BY <2>5 DEF MatchLot
    <3> QED BY <1>1, <1>2, <2>1, <3>1 DEF PriceInv, ordersVars
  <2> QED BY <1>7, <2>3, <2>4, <2>5 DEF RunPortfolio, PortfolioStep
<1>8. CASE DropExecuted
  <2>1. engine = "settle" /\ engine' = "scan" /\ snapshot' = snapshot
        /\ ledger = "idle" /\ ledger' = "idle"
    BY <1>8 DEF DropExecuted, portfolioVars
  <2> QED BY <1>1, <1>2, <2>1 DEF PriceInv
<1>9. CASE EraseRemoved
  <2>1. engine = "scan" /\ engine' = "idle" /\ ledger' = ledger
    BY <1>9 DEF EraseRemoved, LeaveTick, portfolioVars
  <2> QED BY <1>1, <1>2, <2>1 DEF PriceInv
<1> QED BY <1>3, <1>4, <1>5, <1>6, <1>7, <1>8, <1>9 DEF EngineStep

LEMMA OtherStepsKeepPrices ==
  ASSUME TradingInv, Exception \/ InvalidData \/ RecordValue \/ EndOfData \/ Crash
  PROVE  PriceInv'
<1>1. PriceInv
  BY DEF TradingInv
<1>2. CASE Exception
  <2>1. engine = "scan" /\ engine' = "idle" /\ ledger' = ledger
    BY <1>2 DEF Exception, Throw, LeaveTick, portfolioVars
  <2> QED BY <1>1, <2>1 DEF PriceInv
<1>3. CASE InvalidData \/ RecordValue \/ EndOfData
  <2>1. run \in {"value", "tick"} /\ (run = "value" => engine = "idle")
    BY <1>3 DEF InvalidData, RecordValue, EndOfData, TickDone
  <2>2. engine = "idle"
    BY <1>1, <2>1 DEF PriceInv
  <2>3. engine' = "idle"
    BY <1>3, <2>2 DEF InvalidData, RecordValue, EndOfData, engineVars
  <2>4. ledger' = ledger
    BY <1>3 DEF InvalidData, RecordValue, EndOfData, UpdatePortfolioValue, portfolioVars
  <2> QED BY <1>1, <2>2, <2>3, <2>4 DEF PriceInv
<1>4. CASE Crash
  <2>1. run' = "crashed" /\ UNCHANGED <<ordersVars, portfolioVars, engineVars>>
    BY <1>4 DEF Crash
  <2> QED BY <1>1, <2>1 DEF PriceInv, ordersVars, portfolioVars, engineVars
<1> QED BY <1>2, <1>3, <1>4

LEMMA StepKeepsPrices ==
  ASSUME TradingInv, [Next]_vars
  PROVE  PriceInv'
<1>1. CASE UNCHANGED vars
  BY <1>1 DEF TradingInv, PriceInv, vars, ordersVars, portfolioVars, engineVars, runVars
<1>2. ASSUME NEW answer \in Answers, OnTick(answer)
      PROVE  PriceInv'
  BY <1>2, OnTickKeepsPrices
<1>3. CASE UserCall
  BY <1>3, UserCallKeepsPrices
<1>4. CASE StartTick
  BY <1>4, StartTickKeepsPrices
<1>5. CASE EngineStep
  BY <1>5, EngineStepKeepsPrices
<1>6. CASE Exception \/ InvalidData \/ RecordValue \/ EndOfData \/ Crash
  BY <1>6, OtherStepsKeepPrices
<1> QED BY <1>1, <1>2, <1>3, <1>4, <1>5, <1>6 DEF Next, RunStep, LoopStep

THEOREM TradingInvInductive == Spec => []TradingInv
<1>1. Init => TradingInv
  BY AccountInit, PoolInit, PriceInit DEF Init, TradingInv
<1>2. TradingInv /\ [Next]_vars => TradingInv'
  BY StepKeepsAccount, StepKeepsPool, StepKeepsPrices DEF TradingInv
<1> QED BY <1>1, <1>2, PTL DEF Spec

----------------------------------------------------------------------------
(* A trade is worth no more at the mid price than it costs.                *)

LEMMA Scaled ==
  ASSUME NEW a \in Nat, NEW p \in Int, NEW q \in Int, p <= q
  PROVE  a * p <= a * q
<1>1. a * (q - p) \in Nat
  BY ProductNat
<1>2. a * (q - p) = a * q - a * p /\ a * q \in Int /\ a * p \in Int
  OBVIOUS
<1> QED BY <1>1, <1>2

\* Of three prices in order, the last is above the mean of the others, the
\* first below it.
LEMMA MeanIsBetween ==
  ASSUME NEW x \in Nat, NEW y \in Nat, NEW z \in Nat, x <= y, y <= z
  PROVE  x + y <= 2 * z /\ 2 * x <= y + z
OBVIOUS

\* The prices of an orderly snapshot, at the mid price and around it.
LEMMA AroundTheMid ==
  ASSUME OrderlyBooks, NEW b \in Books, ~OneSided(b)
  PROVE  /\ b.bids[1].price \in Nat /\ b.asks[1].price \in Nat
         /\ \A l \in 1..Len(b.asks) : b.asks[l].price \in Nat
              /\ b.bids[1].price + b.asks[1].price <= 2 * b.asks[l].price
         /\ \A l \in 1..Len(b.bids) : b.bids[l].price \in Nat
              /\ 2 * b.bids[l].price <= b.bids[1].price + b.asks[1].price
<1>1. b.asks \in Seq(OrderBookEntry) /\ b.bids \in Seq(OrderBookEntry)
  BY BooksAssumption DEF LOBData
<1>2. 1 \in 1..Len(b.asks) /\ 1 \in 1..Len(b.bids)
  BY <1>1 DEF OneSided
<1>3. /\ \A l \in 1..Len(b.asks) : b.asks[l] \in OrderBookEntry
      /\ \A l \in 1..Len(b.bids) : b.bids[l] \in OrderBookEntry
  BY <1>1
<1>4. /\ \A l \in 1..Len(b.asks) : b.asks[l].price \in Nat
      /\ \A l \in 1..Len(b.bids) : b.bids[l].price \in Nat
  BY <1>3 DEF OrderBookEntry, Positive
<1>5. /\ \A l \in 1..Len(b.asks) : b.asks[1].price <= b.asks[l].price
      /\ \A l \in 1..Len(b.bids) : b.bids[l].price <= b.bids[1].price
      /\ b.bids[1].price <= b.asks[1].price
  BY DEF OrderlyBooks, BestFirst, Uncrossed
<1>6. b.bids[1].price \in Nat /\ b.asks[1].price \in Nat
  BY <1>2, <1>4
<1>7. ASSUME NEW l \in 1..Len(b.asks)
      PROVE  b.bids[1].price + b.asks[1].price <= 2 * b.asks[l].price
  <2>1. b.bids[1].price <= b.asks[1].price /\ b.asks[1].price <= b.asks[l].price
    BY <1>5
  <2>2. b.asks[l].price \in Nat
    BY <1>4
  <2> QED BY <1>6, <2>1, <2>2, MeanIsBetween
<1>8. ASSUME NEW l \in 1..Len(b.bids)
      PROVE  2 * b.bids[l].price <= b.bids[1].price + b.asks[1].price
  <2>1. b.bids[1].price <= b.asks[1].price /\ b.bids[l].price <= b.bids[1].price
    BY <1>5
  <2>2. b.bids[l].price \in Nat
    BY <1>4
  <2> QED BY <1>6, <2>1, <2>2, MeanIsBetween
<1> QED BY <1>4, <1>6, <1>7, <1>8

LEMMA PortfolioNeverGains ==
  ASSUME OrderlyBooks, TradingInv, PortfolioStep, engine # "idle", ~OneSided(snapshot)
  PROVE  LET mid2 == snapshot.bids[1].price + snapshot.asks[1].price
         IN  2 * cash' + asset_amount' * mid2 <= 2 * cash + asset_amount * mid2
<1> DEFINE mid2 == snapshot.bids[1].price + snapshot.asks[1].price
           f    == Head(due)
           a    == f.amount
           p    == f.price
<1>1. PriceInv /\ PortfolioInv /\ snapshot \in Books
  BY DEF TradingInv, AccountInv, PriceInv
<1>2. mid2 \in Nat
  BY <1>1, AroundTheMid
<1>3. cash \in Int /\ asset_amount \in Int
  BY <1>1 DEF PortfolioInv, PortfolioTypeOK
<1>4. CASE MatchLot
  <2>1. cash' = cash /\ asset_amount' = asset_amount
    BY <1>4 DEF MatchLot
  <2> HIDE DEF mid2
  <2>2. asset_amount * mid2 \in Int
    BY <1>2, <1>3
  <2>3. 2 * cash' + asset_amount' * mid2 <= 2 * cash + asset_amount * mid2
    BY <1>3, <2>1, <2>2
  <2> QED BY <2>3 DEF mid2
<1>5. CASE ~MatchLot
  <2>1. BookBuy \/ BookSell
    BY <1>5 DEF PortfolioStep
  <2>2. due \in Seq(ExecutionFill) /\ due # << >>
    BY <1>1, <2>1 DEF PortfolioInv, PortfolioTypeOK, InLoop, BookBuy, BookSell
  <2>3. a \in Nat /\ p \in Nat /\ a * p \in Nat
    BY <2>2, FillTail, ProductNat DEF Positive
  <2>4. 1 \in 1..Len(due) /\ f = due[1]
    BY <2>2
  <2>5. CASE BookBuy
    <3>1. ledger = "buying" /\ cash' = cash - a * p /\ asset_amount' = asset_amount + a
      BY <2>5 DEF BookBuy, Cost
    <3>2. PICK l \in 1..Len(snapshot.asks) : p = snapshot.asks[l].price
      BY <1>1, <2>4, <3>1 DEF PriceInv, PricedBy
    <3>3. mid2 <= 2 * p
      BY <1>1, <3>2, AroundTheMid
    <3> HIDE DEF mid2, a, p
    <3>4. a * mid2 <= a * (2 * p)
      BY <1>2, <2>3, <3>3, Scaled
    <3>5. a * (2 * p) = 2 * (a * p)
      BY <2>3
    <3>6. (asset_amount + a) * mid2 = asset_amount * mid2 + a * mid2
          /\ asset_amount * mid2 \in Int /\ a * mid2 \in Int
      BY <1>2, <1>3, <2>3, Distributes
    <3>7. 2 * cash' + asset_amount' * mid2 <= 2 * cash + asset_amount * mid2
      BY <1>3, <2>3, <3>1, <3>4, <3>5, <3>6
    <3> QED BY <3>7 DEF mid2
  <2>6. CASE BookSell
    <3>1. ledger = "matching" /\ cash' = cash + a * p /\ asset_amount' = asset_amount - a
      BY <2>6 DEF BookSell, Cost
    <3>2. PICK l \in 1..Len(snapshot.bids) : p = snapshot.bids[l].price
      BY <1>1, <2>4, <3>1 DEF PriceInv, PricedBy
    <3>3. 2 * p <= mid2
      BY <1>1, <3>2, AroundTheMid
    <3> HIDE DEF mid2, a, p
    <3>4. a * (2 * p) <= a * mid2
      BY <1>2, <2>3, <3>3, Scaled
    <3>5. a * (2 * p) = 2 * (a * p)
      BY <2>3
    <3>6. (asset_amount - a) * mid2 = asset_amount * mid2 - a * mid2
          /\ asset_amount * mid2 \in Int /\ a * mid2 \in Int
      BY <1>2, <1>3, <2>3, Distributes
    <3>7. 2 * cash' + asset_amount' * mid2 <= 2 * cash + asset_amount * mid2
      BY <1>3, <2>3, <3>1, <3>4, <3>5, <3>6
    <3> QED BY <3>7 DEF mid2
  <2> QED BY <2>1, <2>5, <2>6
<1> QED BY <1>4, <1>5

\* Every other step during a pass leaves the balances alone.
LEMMA OnlyBookingMovesBalances ==
  ASSUME TradingInv, [Next]_vars, engine # "idle"
  PROVE  PortfolioStep \/ (cash' = cash /\ asset_amount' = asset_amount)
<1>1. run \in {"value", "crashed"}
  BY DEF TradingInv, PriceInv
<1>2. CASE UNCHANGED vars
  BY <1>2 DEF vars, portfolioVars
<1>3. CASE UserCall
  BY <1>1, <1>3 DEF UserCall, LinkPortfolio, AddData, SetStrategy, RunWithoutStrategy, Run
<1>4. ASSUME NEW answer \in Answers, OnTick(answer)
      PROVE  PortfolioStep \/ (cash' = cash /\ asset_amount' = asset_amount)
  BY <1>1, <1>4 DEF OnTick, Answer
<1>5. CASE StartTick
  BY <1>5 DEF StartTick, portfolioVars
<1>6. CASE EngineStep
  <2>1. CASE RunPortfolio
    BY <2>1 DEF RunPortfolio
  <2>2. CASE Trade
    BY <2>2 DEF Trade, UpdateAfterBuy, UpdateAfterSell
  <2> QED BY <1>6, <2>1, <2>2
             DEF EngineStep, CallExecutor, RunExecutor, Keep, DropExecuted, EraseRemoved,
                 portfolioVars
<1>7. CASE Exception \/ InvalidData \/ RecordValue \/ EndOfData \/ Crash
  BY <1>7 DEF Exception, Throw, InvalidData, RecordValue, EndOfData, Crash,
              UpdatePortfolioValue, portfolioVars
<1> QED BY <1>2, <1>3, <1>4, <1>5, <1>6, <1>7 DEF Next, RunStep, LoopStep

(* On orderly snapshots no step of tick() makes the portfolio worth more   *)
(* at the mid price of the snapshot: what a strategy gains it gains from   *)
(* the market moving, whatever orders it creates.                          *)
THEOREM NoFreeTrading ==
  ASSUME OrderlyBooks
  PROVE  Spec => TradingNeverGains
<1> DEFINE Gain == engine # "idle" /\ ~OneSided(snapshot) =>
                     LET mid2 == snapshot.bids[1].price + snapshot.asks[1].price
                     IN  2 * cash' + asset_amount' * mid2 <= 2 * cash + asset_amount * mid2
<1>1. TradingInv /\ [Next]_vars => Gain
  <2> SUFFICES ASSUME TradingInv, [Next]_vars, engine # "idle", ~OneSided(snapshot)
               PROVE  LET mid2 == snapshot.bids[1].price + snapshot.asks[1].price
                      IN  2 * cash' + asset_amount' * mid2 <= 2 * cash + asset_amount * mid2
    OBVIOUS
  <2>1. CASE PortfolioStep
    BY <2>1, OrderlyBooks, PortfolioNeverGains
  <2>2. CASE cash' = cash /\ asset_amount' = asset_amount
    <3>1. snapshot \in Books /\ cash \in Int /\ asset_amount \in Int
      BY DEF TradingInv, PriceInv, AccountInv, PortfolioInv, PortfolioTypeOK
    <3>2. snapshot.bids[1].price \in Nat /\ snapshot.asks[1].price \in Nat
      BY <3>1, OrderlyBooks, AroundTheMid
    <3> QED BY <2>2, <3>1, <3>2
  <2> QED BY <2>1, <2>2, OnlyBookingMovesBalances
<1> QED BY <1>1, TradingInvInductive, PTL DEF Spec, TradingNeverGains

----------------------------------------------------------------------------
(* The calls: an executor works only while tick() waits for it, and for    *)
(* the order the pass is at.                                               *)
CallInv ==
  /\ engine = "execute" <=> exec # "idle"
  /\ engine = "execute" => order = Current.order

LEMMA CallInit == ASSUME Init PROVE CallInv
BY DEF Init, OrdersInit, EngineInit, CallInv

LEMMA StepKeepsCalls ==
  ASSUME TradingInv, CallInv, [Next]_vars
  PROVE  CallInv'
<1>1. CASE UNCHANGED vars
  BY <1>1 DEF vars, ordersVars, engineVars, CallInv, Current
<1>2. CASE UserCall
  <2>1. engine = "idle" /\ UNCHANGED <<ordersVars, engineVars>>
    BY <1>2 DEF TradingInv, PriceInv, UserCall, LinkPortfolio, AddData, SetStrategy,
                RunWithoutStrategy, Run
  <2> QED BY <2>1 DEF ordersVars, engineVars, CallInv
<1>3. ASSUME NEW answer \in Answers, OnTick(answer)
      PROVE  CallInv'
  BY <1>3 DEF OnTick, Answer, AddOrder, TradingInv, PriceInv, CallInv, ordersVars, engineVars
<1>4. CASE StartTick
  BY <1>4 DEF StartTick, BeginTick, ordersVars, CallInv
<1>5. CASE EngineStep
  <2>1. CASE CallExecutor
    <3>1. engine' = "execute" /\ exec' # "idle" /\ order' = Current.order /\ Current' = Current
      BY <2>1 DEF CallExecutor, ExecuteOrder, Current
    <3> QED BY <3>1 DEF CallInv
  <2>2. CASE RunExecutor
    <3>1. exec # "idle" /\ exec' # "idle" /\ order' = order /\ engine' = engine
          /\ Current' = Current
      BY <2>2 DEF RunExecutor, TakeLevel, EndSweep, engineVars, Current
    <3> QED BY <3>1 DEF CallInv
  <2>3. CASE Keep \/ Trade
    BY <2>3 DEF Keep, Trade, Return, CallInv
  <2>4. CASE RunPortfolio
    <3>1. Current' = Current /\ UNCHANGED <<exec, order, engine>>
      BY <2>4 DEF RunPortfolio, ordersVars, engineVars, Current
    <3> QED BY <3>1 DEF CallInv
  <2>5. CASE DropExecuted \/ EraseRemoved
    BY <2>5 DEF DropExecuted, EraseRemoved, LeaveTick, CallInv, ordersVars
  <2> QED BY <1>5, <2>1, <2>2, <2>3, <2>4, <2>5 DEF EngineStep
<1>6. CASE Exception
  BY <1>6 DEF Exception, Throw, LeaveTick, CallInv, ordersVars
<1>7. CASE InvalidData \/ RecordValue \/ EndOfData \/ Crash
  <2>1. Current' = Current /\ UNCHANGED <<exec, order, engine>>
    BY <1>7 DEF InvalidData, RecordValue, EndOfData, Crash, ordersVars, engineVars, Current
  <2> QED BY <2>1 DEF CallInv
<1> QED BY <1>1, <1>2, <1>3, <1>4, <1>5, <1>6, <1>7 DEF Next, RunStep, LoopStep

THEOREM CallInvInductive == Spec => [](TradingInv /\ CallInv)
<1>1. Init => CallInv
  BY CallInit
<1>2. TradingInv /\ CallInv /\ [Next]_vars => CallInv'
  BY StepKeepsCalls
<1> QED BY <1>1, <1>2, TradingInvInductive, PTL DEF Spec

----------------------------------------------------------------------------
(* The values recorded.                                                    *)

\* Between two calls of run() there is no index.
ValueInv == ValueIsCurrent /\ (run = "idle" => i = 1)

LEMMA RecordValueIsCurrent ==
  ASSUME TradingInv, RecordValue
  PROVE  ValueInv'
<1> DEFINE v == 2 * cash + asset_amount * (data[i].bids[1].price + data[i].asks[1].price)
<1>1. /\ portfolio_values' = Append(portfolio_values, v) /\ run' = "tick" /\ i' = i + 1
      /\ UNCHANGED <<cash, asset_amount, data>>
  BY DEF RecordValue, UpdatePortfolioValue
<1>2. i \in Int /\ i' - 1 = i
  BY <1>1 DEF TradingInv, AccountInv, RunTypeOK, Positive
<1>3. portfolio_values \in Seq(Int)
  BY DEF TradingInv, AccountInv, PortfolioInv, PortfolioTypeOK
<1>4. data'[i' - 1] = data[i]
  BY <1>1, <1>2
<1>5. Worth(data[i - 1])' = v
  BY <1>1, <1>4 DEF Worth
<1> HIDE DEF v
<1>6. portfolio_values' # << >> /\ Last(portfolio_values)' = v
  BY <1>1, <1>3 DEF Last
<1> QED BY <1>1, <1>5, <1>6 DEF ValueInv, ValueIsCurrent

\* No other step is taken to the head of the loop, but that of a new call.
LEMMA StepKeepsValues ==
  ASSUME TradingInv, CallInv, ValueInv, [Next]_vars
  PROVE  ValueInv'
<1>1. CASE UNCHANGED vars
  BY <1>1 DEF vars, portfolioVars, runVars, ValueInv, ValueIsCurrent, Worth
<1>2. CASE UserCall
  <2>1. run = "idle" /\ i = 1 /\ i' = i
    BY <1>2 DEF ValueInv, UserCall, LinkPortfolio, AddData, SetStrategy, RunWithoutStrategy, Run
  <2> QED BY <2>1 DEF ValueInv, ValueIsCurrent
<1>3. ASSUME NEW answer \in Answers, OnTick(answer)
      PROVE  ValueInv'
  BY <1>3 DEF OnTick, Answer, ValueInv, ValueIsCurrent
<1>4. CASE StartTick
  BY <1>4 DEF StartTick, ValueInv, ValueIsCurrent
<1>5. CASE EngineStep
  <2>1. run # "tick"
    <3>1. engine # "idle"
      BY <1>5 DEF TradingInv, PriceInv, CallInv, EngineStep, CallExecutor, RunExecutor, Keep, Trade,
                  AsksPortfolio, RunPortfolio, PortfolioStep, BookBuy, MatchLot, BookSell,
                  DropExecuted, EraseRemoved, TakeLevel, EndSweep
    <3> QED BY <3>1 DEF TradingInv, PriceInv
  <2>2. run' = run /\ i' = i
    BY <1>5 DEF EngineStep, runVars
  <2> QED BY <2>1, <2>2 DEF ValueInv, ValueIsCurrent
<1>6. CASE RecordValue
  BY <1>6, RecordValueIsCurrent
<1>7. CASE Exception \/ InvalidData \/ EndOfData \/ Crash
  <2>1. run' \in {"idle", "crashed"} /\ (run' = "idle" => i' = 1)
    BY <1>7 DEF Exception, InvalidData, EndOfData, Crash, Finish
  <2> QED BY <2>1 DEF ValueInv, ValueIsCurrent
<1> QED BY <1>1, <1>2, <1>3, <1>4, <1>5, <1>6, <1>7 DEF Next, RunStep, LoopStep

(* run() records the value of a tick after its last trade: whenever the    *)
(* loop is back at its head, the last value recorded is what the portfolio *)
(* is worth then, whatever the strategy does and the data hold.            *)
THEOREM ValuesAreCurrent == Spec => []ValueIsCurrent
<1>1. Init => ValueInv
  BY DEF Init, ValueInv, ValueIsCurrent
<1>2. TradingInv /\ CallInv /\ ValueInv /\ [Next]_vars => ValueInv'
  BY StepKeepsValues
<1>3. ValueInv => ValueIsCurrent
  BY DEF ValueInv
<1> QED BY <1>1, <1>2, <1>3, CallInvInductive, PTL DEF Spec
----------------------------------------------------------------------------
(* Profits.  Whatever step the backtest takes, the portfolio takes one of  *)
(* its own, of fills and prices that the executors and the snapshots give. *)
LEMMA PortfolioSteps ==
  ASSUME AccountInv, [Next]_vars
  PROVE  PortfolioChange
<1>1. ASSUME NEW balances \in Openings, LinkPortfolio(balances) PROVE PortfolioChange
  BY <1>1, OpeningsAssumption DEF LinkPortfolio, PortfolioChange
<1>2. CASE Trade
  <2>1. fills \in Seq(ExecutionFill)
    BY DEF AccountInv, OrdersTypeOK
  <2> QED BY <1>2, <2>1 DEF Trade, PortfolioChange
<1>3. CASE RunPortfolio
  BY <1>3 DEF RunPortfolio, PortfolioStep, PortfolioChange
<1>4. CASE RecordValue
  <2>1. data[i] \in LOBData /\ ~OneSided(data[i])
    BY <1>4, DataType DEF AccountInv, RecordValue, TickDone
  <2>2. data[i].bids[1] \in OrderBookEntry /\ data[i].asks[1] \in OrderBookEntry
    BY <2>1 DEF LOBData, OneSided
  <2>3. data[i].bids[1].price \in Positive /\ data[i].asks[1].price \in Positive
    BY <2>2 DEF OrderBookEntry
  <2> QED BY <1>4, <2>3 DEF RecordValue, PortfolioChange
<1>5. CASE EngineStep
  <2>1. CASE CallExecutor \/ RunExecutor \/ Keep \/ DropExecuted \/ EraseRemoved
    BY <2>1 DEF CallExecutor, RunExecutor, Keep, DropExecuted, EraseRemoved, PortfolioChange
  <2> QED BY <1>2, <1>3, <1>5, <2>1 DEF EngineStep
<1>6. CASE UserCall
  BY <1>1, <1>6 DEF UserCall, AddData, SetStrategy, RunWithoutStrategy, Run, PortfolioChange
<1>7. CASE StartTick \/ Exception \/ InvalidData \/ EndOfData \/ Crash
  BY <1>7 DEF StartTick, Exception, Throw, InvalidData, EndOfData, Crash, PortfolioChange
<1>8. CASE \E answer \in Answers : OnTick(answer)
  BY <1>8 DEF OnTick, PortfolioChange
<1>9. CASE UNCHANGED vars
  BY <1>9 DEF vars, PortfolioChange
<1> QED BY <1>4, <1>5, <1>6, <1>7, <1>8, <1>9 DEF Next, RunStep, LoopStep

(* In every backtest whose portfolio starts without assets and drops no    *)
(* lot for dust, each sale earns what the units bought first cost less:    *)
(* also of several orders that trade in one tick, and over several runs.   *)
THEOREM BacktestProfitsAreFifo == Spec => []ProfitIsFifo
<1>1. Init => FifoInv
  <2> SUFFICES ASSUME Init PROVE FifoInv
    OBVIOUS
  <2>1. PortfolioInv
    BY AccountInit DEF AccountInv
  <2> QED BY <2>1, FifoStart DEF Init, PortfolioInit, Holds
<1>2. AccountInv /\ FifoInv /\ [Next]_vars => FifoInv'
  BY PortfolioSteps, FifoInvInductive
<1>3. FifoInv => ProfitIsFifo
  BY FifoInvShows
<1> QED BY <1>1, <1>2, <1>3, AccountInvInductive, PTL DEF Spec

----------------------------------------------------------------------------
(* What the exchange quotes is what the executors sweep.                   *)

LEMMA SameTotal == ASSUME NEW s PROVE Abstract!Total(s) = Total(s)
BY DEF Abstract!Total, Abstract!Running, Total, Running

LEMMA SameQuotes ==
  ASSUME NEW o \in Order, o.side \in {"Buy", "Sell"}
  PROVE  /\ Abstract!Quotes(o) = Levels(o, snapshot)
         /\ Abstract!Places(o) = 1..Len(Levels(o, snapshot))
         /\ \A k \in 1..Len(Levels(o, snapshot)) :
              Abstract!Units(o, k) = Offered(o, Levels(o, snapshot)[k])
<1>1. Abstract!Quotes(o) = Levels(o, snapshot)
  BY DEF Abstract!Quotes, Levels
<1>2. Abstract!Places(o) = 1..Len(Levels(o, snapshot))
  BY <1>1 DEF Abstract!Places
<1>3. ASSUME NEW k \in 1..Len(Levels(o, snapshot))
      PROVE  Abstract!Units(o, k) = Offered(o, Levels(o, snapshot)[k])
  <2>1. CASE o.side = "Buy"
    BY <1>1, <2>1 DEF Abstract!Units, Offered, Acceptable
  <2>2. CASE o.side = "Sell"
    BY <1>1, <2>2 DEF Abstract!Units, Offered, Acceptable
  <2> QED BY <2>1, <2>2
<1> QED BY <1>1, <1>2, <1>3

LEMMA SameLiquidity ==
  ASSUME NEW o \in Order, o.side \in {"Buy", "Sell"}
  PROVE  Abstract!Liquidity(o) = Liquidity(o, Levels(o, snapshot))
<1> DEFINE us == [k \in Abstract!Places(o) |-> Abstract!Units(o, k)]
<1>1. us = Offers(o, Levels(o, snapshot))
  BY SameQuotes DEF Offers
<1>2. Abstract!Liquidity(o) = Abstract!Total(us)
  BY DEF Abstract!Liquidity
<1> HIDE DEF us
<1> QED BY <1>1, <1>2, SameTotal DEF Liquidity

\* On a sorted book the levels come one after the other.
LEMMA SameTurns ==
  ASSUME NEW o \in Order, o.side \in {"Buy", "Sell"}, snapshot \in LOBData,
         Ranked(o, Levels(o, snapshot)),
         NEW j \in 1..Len(Levels(o, snapshot)), NEW k \in 1..Len(Levels(o, snapshot))
  PROVE  Abstract!Before(o, j, k) <=> j < k
<1> DEFINE ls == Levels(o, snapshot)
<1>1. ls[j].price \in Nat /\ ls[k].price \in Nat /\ j \in Nat /\ k \in Nat
  BY LevelsType, LevelElements DEF Positive
<1>2. j < k => IF o.side = "Buy" THEN ls[j].price <= ls[k].price ELSE ls[j].price >= ls[k].price
  BY DEF Ranked
<1>3. k < j => IF o.side = "Buy" THEN ls[k].price <= ls[j].price ELSE ls[k].price >= ls[j].price
  BY DEF Ranked
<1>4. Abstract!Before(o, j, k) <=>
        IF ls[j].price = ls[k].price THEN j < k ELSE (o.side = "Buy" <=> ls[j].price < ls[k].price)
  BY SameQuotes DEF Abstract!Before
<1> HIDE DEF ls
<1>5. CASE o.side = "Buy"
  BY <1>1, <1>2, <1>3, <1>4, <1>5
<1>6. CASE o.side = "Sell"
  BY <1>1, <1>2, <1>3, <1>4, <1>6
<1> QED BY <1>5, <1>6

\* What the levels before the k-th hold for the order.
HeldBefore(o, ls, k) == [j \in 1..Len(ls) |-> IF j < k THEN Offers(o, ls)[j] ELSE 0]

\* What is left of the fills for the levels from the k-th on.
LEMMA RestOfSweep ==
  ASSUME NEW o \in Order, NEW ls \in Seq(OrderBookEntry), NEW fs \in Seq(ExecutionFill),
         Greedy(fs, o, ls), NEW k \in 1..Len(ls)
  PROVE  LET rest == TotalAmount(fs) - Total(HeldBefore(o, ls, k))
         IN  /\ rest \in Int
             /\ k < Len(fs) => rest >= fs[k].amount
             /\ k = Len(fs) => rest = fs[k].amount
             /\ k > Len(fs) => rest <= 0
<1> DEFINE n == Len(ls)
           m == Len(fs)
           g == Parts(fs, n)
           b == HeldBefore(o, ls, k)
           w == [j \in 1..n |-> IF j = k THEN g[k] ELSE b[j]]
<1>1. /\ n \in Nat /\ m \in Nat /\ m <= n
      /\ \A j \in 1..m : /\ Acceptable(o, ls[j]) /\ fs[j].amount <= ls[j].amount
                         /\ j < m => fs[j].amount = ls[j].amount
  BY DEF Greedy
<1>2. g \in Seq(Nat) /\ g \in Seq(Int) /\ Len(g) = n /\ Total(g) = TotalAmount(fs)
  BY <1>1, PartsTotal
<1>3. \A j \in 1..n : g[j] = IF j <= m THEN fs[j].amount ELSE 0
  BY DEF Parts
<1>4. \A j \in 1..n : /\ Offers(o, ls)[j] = IF Acceptable(o, ls[j]) THEN ls[j].amount ELSE 0
                      /\ Offers(o, ls)[j] \in Nat
  BY OfferElements
<1>5. /\ b \in Seq(Int) /\ Len(b) = n
      /\ \A j \in 1..n : b[j] = IF j < k THEN Offers(o, ls)[j] ELSE 0
  BY <1>1, <1>4 DEF HeldBefore
<1> HIDE DEF g, b
<1>6. /\ w \in Seq(Int) /\ Len(w) = n
      /\ \A j \in 1..n : w[j] = IF j = k THEN g[k] ELSE b[j]
  <2>1. \A j \in 1..n : (IF j = k THEN g[k] ELSE b[j]) \in Int
    BY <1>2, <1>5
  <2> QED BY <1>1, <2>1
<1> HIDE DEF w
<1>7. Total(w) = Total(b) + g[k]
  <2>1. Total(w) = Total(b) + (w[k] - b[k])
    BY <1>5, <1>6, TotalOneChanges
  <2>2. w[k] = g[k] /\ b[k] = 0
    BY <1>5, <1>6
  <2> QED BY <1>2, <2>1, <2>2
<1>8. Total(w) \in Int /\ Total(b) \in Int /\ Total(g) \in Int /\ g[k] \in Nat
  BY <1>2, <1>5, <1>6, TotalInt
<1>9. \A j \in 1..n : j < m => g[j] = Offers(o, ls)[j]
  BY <1>1, <1>3, <1>4
<1>10. CASE k < m
  <2>1. ASSUME NEW j \in 1..Len(w) PROVE w[j] <= g[j]
    <3>1. j \in 1..n /\ g[j] \in Nat
      BY <1>2, <1>6
    <3>2. CASE j < k
      <4>1. j < m /\ j # k
        BY <1>1, <1>10, <3>1, <3>2
      <4>2. w[j] = b[j] /\ b[j] = Offers(o, ls)[j] /\ g[j] = Offers(o, ls)[j]
        BY <1>5, <1>6, <1>9, <3>1, <3>2, <4>1
      <4> QED BY <3>1, <4>2
    <3>3. CASE j = k
      <4>1. w[j] = g[j]
        BY <1>6, <3>1, <3>3
      <4> QED BY <3>1, <4>1
    <3>4. CASE j > k
      BY <1>5, <1>6, <3>1, <3>4
    <3> QED BY <3>1, <3>2, <3>3, <3>4
  <2>2. Total(w) <= Total(g)
    BY <1>2, <1>6, <2>1, TotalMonotone
  <2>3. g[k] = fs[k].amount
    BY <1>1, <1>3, <1>10
  <2> QED BY <1>1, <1>2, <1>7, <1>8, <1>10, <2>2, <2>3 DEF b
<1>11. CASE k = m
  <2>1. ASSUME NEW j \in 1..n PROVE w[j] = g[j]
    <3>2. CASE j < k
      <4>1. j < m /\ j # k
        BY <1>1, <1>11, <3>2
      <4> QED BY <1>5, <1>6, <1>9, <3>2, <4>1
    <3>3. CASE j = k
      BY <1>6, <3>3
    <3>4. CASE j > k
      BY <1>1, <1>3, <1>5, <1>6, <1>11, <3>4
    <3> QED BY <3>2, <3>3, <3>4
  <2>2. w = g
    <3>1. w = [j \in 1..n |-> w[j]] /\ g = [j \in 1..n |-> g[j]]
      BY <1>2, <1>6
    <3> QED BY <2>1, <3>1
  <2>3. g[k] = fs[k].amount
    BY <1>1, <1>3, <1>11
  <2> QED BY <1>1, <1>2, <1>7, <1>8, <1>11, <2>2, <2>3 DEF b
<1>12. CASE k > m
  <2>1. ASSUME NEW j \in 1..Len(g) PROVE g[j] <= b[j]
    <3>1. j \in 1..n /\ Offers(o, ls)[j] \in Nat
      BY <1>2, <1>4
    <3>2. CASE j <= m
      <4>1. j \in 1..m /\ j < k
        BY <1>1, <1>12, <3>1, <3>2
      <4>2. g[j] = fs[j].amount /\ fs[j].amount <= ls[j].amount /\ Offers(o, ls)[j] = ls[j].amount
        BY <1>1, <1>3, <1>4, <3>1, <3>2, <4>1
      <4> QED BY <1>5, <3>1, <4>1, <4>2
    <3>3. CASE ~(j <= m)
      BY <1>3, <1>5, <3>1, <3>3
    <3> QED BY <3>2, <3>3
  <2>2. Total(g) <= Total(b)
    BY <1>2, <1>5, <2>1, TotalMonotone
  <2> QED BY <1>1, <1>2, <1>8, <1>12, <2>2 DEF b
<1>13. k \in Int
  BY <1>1
<1> QED BY <1>1, <1>10, <1>11, <1>12, <1>13

(* Shared out by the exchange, the quantity of the fills gives each level  *)
(* the part that the sweep took of it.                                     *)
LEMMA ShareOfSweep ==
  ASSUME NEW o \in Order, o.side \in {"Buy", "Sell"}, snapshot \in LOBData,
         Ranked(o, Levels(o, snapshot)),
         NEW fs \in Seq(ExecutionFill), Greedy(fs, o, Levels(o, snapshot)),
         NEW k \in 1..Len(Levels(o, snapshot))
  PROVE  Abstract!Share(o, TotalAmount(fs), k) = Parts(fs, Len(Levels(o, snapshot)))[k]
<1> DEFINE ls == Levels(o, snapshot)
           us == [j \in Abstract!Places(o) |->
                    IF Abstract!Before(o, j, k) THEN Abstract!Units(o, j) ELSE 0]
           rest == TotalAmount(fs) - Total(HeldBefore(o, ls, k))
           u == Offered(o, ls[k])
<1>1. us = HeldBefore(o, ls, k)
  <2>1. ASSUME NEW j \in 1..Len(ls)
        PROVE  (IF Abstract!Before(o, j, k) THEN Abstract!Units(o, j) ELSE 0)
                 = (IF j < k THEN Offers(o, ls)[j] ELSE 0)
    <3>1. Abstract!Before(o, j, k) <=> j < k
      BY SameTurns
    <3>2. Abstract!Units(o, j) = Offers(o, ls)[j]
      BY SameQuotes DEF Offers
    <3> QED BY <3>1, <3>2
  <2>2. Abstract!Places(o) = 1..Len(ls)
    BY SameQuotes
  <2> QED BY <2>1, <2>2 DEF HeldBefore
<1>2. Abstract!UnitsBefore(o, k) = Total(HeldBefore(o, ls, k))
  <2>1. Abstract!UnitsBefore(o, k) = Abstract!Total(us)
    BY DEF Abstract!UnitsBefore
  <2> HIDE DEF us
  <2> QED BY <1>1, <2>1, SameTotal
<1>3. Abstract!Share(o, TotalAmount(fs), k)
        = IF rest <= 0 THEN 0 ELSE IF rest <= u THEN rest ELSE u
  BY <1>2, SameQuotes DEF Abstract!Share
<1>4. ls \in Seq(OrderBookEntry)
  BY LevelsType
<1> HIDE DEF ls
<1>5. /\ rest \in Int
      /\ k < Len(fs) => rest >= fs[k].amount
      /\ k = Len(fs) => rest = fs[k].amount
      /\ k > Len(fs) => rest <= 0
  BY <1>4, RestOfSweep DEF ls
<1> HIDE DEF rest
<1>6. k \in Int /\ Len(fs) \in Int /\ Parts(fs, Len(ls))[k] = IF k <= Len(fs) THEN fs[k].amount ELSE 0
  BY DEF Parts, ls
<1>7. k <= Len(fs) => /\ fs[k].amount \in Positive /\ fs[k].amount <= u
                      /\ k < Len(fs) => fs[k].amount = u
  <2> SUFFICES ASSUME k <= Len(fs)
               PROVE  /\ fs[k].amount \in Positive /\ fs[k].amount <= u
                      /\ k < Len(fs) => fs[k].amount = u
    OBVIOUS
  <2>1. k \in 1..Len(fs)
    BY <1>6
  <2>2. /\ Acceptable(o, ls[k]) /\ fs[k].amount <= ls[k].amount
        /\ k < Len(fs) => fs[k].amount = ls[k].amount
    BY <2>1 DEF Greedy, ls
  <2> QED BY <2>1, <2>2, FillElements DEF Offered
<1> HIDE DEF u
<1>8. CASE k < Len(fs)
  <2>1. fs[k].amount = u /\ u \in Positive /\ rest >= u
    BY <1>5, <1>6, <1>7, <1>8
  <2> QED BY <1>3, <1>5, <1>6, <1>8, <2>1 DEF Positive, ls
<1>9. CASE k = Len(fs)
  BY <1>3, <1>5, <1>6, <1>7, <1>9 DEF Positive, ls
<1>10. CASE k > Len(fs)
  BY <1>3, <1>5, <1>6, <1>10 DEF ls
<1> QED BY <1>6, <1>8, <1>9, <1>10

(* An execution for the fills of a sweep is a deal at the price quoted.    *)
LEMMA SweepIsDeal ==
  ASSUME NEW o \in Order, o.side \in {"Buy", "Sell"}, snapshot \in LOBData,
         Ranked(o, Levels(o, snapshot)),
         NEW fs \in Seq(ExecutionFill), fs # << >>, Greedy(fs, o, Levels(o, snapshot)),
         TotalAmount(fs) = Entitled(o, Levels(o, snapshot))
  PROVE  Abstract!Deal(o, TotalAmount(fs), TotalCost(fs))
<1> DEFINE ls == Levels(o, snapshot)
           q  == TotalAmount(fs)
           g  == Parts(fs, Len(ls))
           ps == [k \in Abstract!Places(o) |-> Abstract!Share(o, q, k) * Abstract!Quotes(o)[k].price]
<1>1. ls \in Seq(OrderBookEntry)
  BY LevelsType
<1>2. q \in Nat /\ q > 0
  <2>1. /\ Amounts(fs) \in Seq(Nat) /\ Len(Amounts(fs)) = Len(fs) /\ 1 \in 1..Len(fs)
        /\ Amounts(fs)[1] = fs[1].amount /\ fs[1].amount \in Positive
    <3>1. 1 \in 1..Len(fs)
      OBVIOUS
    <3> QED BY <3>1, FillElements
  <2>2. Amounts(fs)[1] <= Total(Amounts(fs))
    BY <2>1, TotalAbove
  <2>3. q = Total(Amounts(fs)) /\ q \in Nat
    BY FillElements DEF TotalAmount
  <2> QED BY <2>1, <2>2, <2>3 DEF Positive
<1>3. /\ q = IF o.amount <= Liquidity(o, ls) THEN o.amount ELSE Liquidity(o, ls)
      /\ AllOrNothing(o) => q = o.amount
  <2>1. Liquidity(o, ls) \in Nat /\ o.amount \in Int
    BY <1>1, OfferElements DEF Order
  <2>2. q = IF Wanted(o) <= Liquidity(o, ls) THEN Wanted(o)
            ELSE IF AllOrNothing(o) THEN 0 ELSE Liquidity(o, ls)
    BY DEF Entitled
  <2> HIDE DEF q, ls
  <2> QED BY <1>2, <2>1, <2>2 DEF Wanted
<1>4. Abstract!Price(o, q) = TotalCost(fs)
  <2>1. Abstract!Places(o) = 1..Len(ls) /\ Abstract!Quotes(o) = ls
    BY SameQuotes
  <2>2. \A k \in 1..Len(ls) : Abstract!Share(o, q, k) = g[k]
    BY ShareOfSweep
  <2>3. ps = [k \in 1..Len(ls) |-> g[k] * ls[k].price]
    BY <2>1, <2>2
  <2>4. Abstract!Price(o, q) = Abstract!Total(ps)
    BY DEF Abstract!Price
  <2> HIDE DEF ps
  <2>5. Abstract!Price(o, q) = SplitCost(ls, g)
    BY <2>3, <2>4, SameTotal DEF SplitCost
  <2> QED BY <1>1, <2>5, GreedyIsSplit
<1>5. Abstract!Liquidity(o) = Liquidity(o, ls) /\ (Abstract!Complete(o) <=> AllOrNothing(o))
  BY SameLiquidity DEF Abstract!Complete, AllOrNothing
<1> HIDE DEF q, ls
<1>6. Abstract!Deal(o, q, TotalCost(fs))
  BY <1>2, <1>3, <1>4, <1>5 DEF Abstract!Deal
<1> QED BY <1>6 DEF q

----------------------------------------------------------------------------
(* The orders that wait, as a list.                                        *)

RestFrom(s, m) == SubSeq(s, m, Len(s))

LEMMA RestElements ==
  ASSUME NEW s \in Seq(OwnTicket), NEW m \in 1..Len(s) + 1
  PROVE  /\ RestFrom(s, m) \in Seq(OwnTicket) /\ Len(RestFrom(s, m)) = Len(s) + 1 - m
         /\ \A k \in 1..Len(RestFrom(s, m)) : RestFrom(s, m)[k] = s[m + k - 1]
<1>1. Len(s) \in Nat /\ m \in Int /\ \A k \in m..Len(s) : s[k] \in OwnTicket
  OBVIOUS
<1>2. /\ RestFrom(s, m) \in Seq(OwnTicket)
      /\ Len(RestFrom(s, m)) = IF m <= Len(s) THEN Len(s) - m + 1 ELSE 0
      /\ \A k \in 1..Len(s) - m + 1 : RestFrom(s, m)[k] = s[m + k - 1]
  BY <1>1, SubSeqProperties DEF RestFrom
<1>3. Len(RestFrom(s, m)) = Len(s) + 1 - m /\ Len(s) - m + 1 = Len(s) + 1 - m
  BY <1>1, <1>2
<1> QED BY <1>2, <1>3

LEMMA TicketsJoined ==
  ASSUME NEW r \in Seq(OwnTicket), NEW s \in Seq(OwnTicket)
  PROVE  /\ r \o s \in Seq(OwnTicket) /\ Len(r \o s) = Len(r) + Len(s)
         /\ \A j \in 1..Len(r \o s) : (r \o s)[j] = IF j <= Len(r) THEN r[j] ELSE s[j - Len(r)]
         /\ \A t \in Seq(OwnTicket) : (r \o s) \o t = r \o (s \o t)
<1>1. ASSUME NEW t \in Seq(OwnTicket) PROVE (r \o s) \o t = r \o (s \o t)
  BY ConcatAssociative
<1>2. /\ r \o s \in Seq(OwnTicket) /\ Len(r \o s) = Len(r) + Len(s)
      /\ \A j \in 1..Len(r) + Len(s) : (r \o s)[j] = IF j <= Len(r) THEN r[j] ELSE s[j - Len(r)]
  BY ConcatProperties, Zenon
<1> QED BY <1>1, <1>2

\* What is undecided begins with the order the pass is at.
LEMMA RestFromFirst ==
  ASSUME NEW s \in Seq(OwnTicket), NEW m \in 1..Len(s)
  PROVE  RestFrom(s, m) = <<s[m]>> \o RestFrom(s, m + 1)
<1>1. Len(s) \in m..Len(s)
  OBVIOUS
<1> QED BY <1>1, SubSeqRecursiveFirst DEF RestFrom

\* Keeping it moves it to the part kept and leaves the list.
LEMMA KeptOrder ==
  ASSUME NEW r \in Seq(OwnTicket), NEW s \in Seq(OwnTicket), NEW m \in 1..Len(s)
  PROVE  Append(r, s[m]) \o RestFrom(s, m + 1) = r \o RestFrom(s, m)
<1> DEFINE t == <<s[m]>>
           u == RestFrom(s, m + 1)
<1>1. s[m] \in OwnTicket /\ t \in Seq(OwnTicket) /\ m + 1 \in 1..Len(s) + 1
  OBVIOUS
<1>2. u \in Seq(OwnTicket)
  BY <1>1, RestElements
<1>3. Append(r, s[m]) = r \o t
  BY <1>1, AppendIsConcat
<1>4. RestFrom(s, m) = t \o u
  BY RestFromFirst
<1> HIDE DEF t, u
<1>5. (r \o t) \o u = r \o (t \o u)
  BY <1>1, <1>2, TicketsJoined, ZenonT(30)
<1> QED BY <1>3, <1>4, <1>5 DEF u

\* Taking it out is RemoveAt.
LEMMA TakenOrder ==
  ASSUME NEW r \in Seq(OwnTicket), NEW s \in Seq(OwnTicket), NEW m \in 1..Len(s)
  PROVE  LET w == r \o RestFrom(s, m)
             k == Len(r) + 1
         IN  /\ k \in 1..Len(w) /\ w[k] = s[m]
             /\ Abstract!RemoveAt(w, k) = r \o RestFrom(s, m + 1)
<1> DEFINE u == RestFrom(s, m)
           w == r \o u
           k == Len(r) + 1
           v == RestFrom(s, m + 1)
           a == SubSeq(w, 1, k - 1)
           b == SubSeq(w, k + 1, Len(w))
<1>1. Len(s) \in Nat /\ Len(r) \in Nat /\ m \in 1..Len(s) + 1 /\ m + 1 \in 1..Len(s) + 1
  OBVIOUS
<1>2. /\ u \in Seq(OwnTicket) /\ Len(u) = Len(s) + 1 - m /\ \A j \in 1..Len(u) : u[j] = s[m + j - 1]
  BY <1>1, RestElements
<1>3. /\ v \in Seq(OwnTicket) /\ Len(v) = Len(s) - m /\ \A j \in 1..Len(v) : v[j] = s[m + j]
  <2>1. /\ v \in Seq(OwnTicket) /\ Len(v) = Len(s) + 1 - (m + 1)
        /\ \A j \in 1..Len(v) : v[j] = s[(m + 1) + j - 1]
    BY <1>1, RestElements
  <2>2. Len(v) = Len(s) - m
    BY <1>1, <2>1
  <2>3. ASSUME NEW j \in 1..Len(v) PROVE v[j] = s[m + j]
    <3>1. (m + 1) + j - 1 = m + j
      BY <1>1
    <3> QED BY <2>1, <3>1
  <2> QED BY <2>1, <2>2, <2>3
<1> HIDE DEF u, v
<1>4. /\ w \in Seq(OwnTicket) /\ Len(w) = Len(r) + Len(u)
      /\ \A j \in 1..Len(w) : w[j] = IF j <= Len(r) THEN r[j] ELSE u[j - Len(r)]
  BY <1>2, TicketsJoined, Zenon
<1> HIDE DEF w
<1>5. k \in 1..Len(w) /\ w[k] = s[m]
  <2>1. k \in 1..Len(w) /\ ~(k <= Len(r)) /\ k - Len(r) = 1 /\ 1 \in 1..Len(u) /\ m + 1 - 1 = m
    BY <1>1, <1>2, <1>4
  <2> QED BY <1>2, <1>4, <2>1
<1>6. a = r
  <2>1. \A j \in 1..(k - 1) : w[j] \in OwnTicket
    BY <1>1, <1>4, <1>5
  <2>2. /\ a \in Seq(OwnTicket) /\ Len(a) = Len(r)
        /\ \A j \in 1..Len(r) : a[j] = w[j]
    <3>1. /\ a \in Seq(OwnTicket) /\ Len(a) = IF 1 <= k - 1 THEN (k - 1) - 1 + 1 ELSE 0
          /\ \A j \in 1..((k - 1) - 1 + 1) : a[j] = w[1 + j - 1]
      BY <1>1, <2>1, SubSeqProperties
    <3>2. Len(a) = Len(r) /\ (k - 1) - 1 + 1 = Len(r)
      BY <1>1, <3>1
    <3>3. ASSUME NEW j \in 1..Len(r) PROVE a[j] = w[j]
      <4>1. 1 + j - 1 = j
        OBVIOUS
      <4> QED BY <3>1, <3>2, <4>1
    <3> QED BY <3>1, <3>2, <3>3
  <2>3. \A j \in 1..Len(r) : w[j] = r[j]
    BY <1>1, <1>4, <1>5
  <2> HIDE DEF a
  <2> QED BY <2>2, <2>3, SeqEqual
<1>7. b = v
  <2>1. \A j \in (k + 1)..Len(w) : w[j] \in OwnTicket
    BY <1>1, <1>4, <1>5
  <2>2. /\ b \in Seq(OwnTicket) /\ Len(b) = Len(v)
        /\ \A j \in 1..Len(v) : b[j] = w[k + j]
    <3>1. /\ b \in Seq(OwnTicket) /\ Len(b) = IF k + 1 <= Len(w) THEN Len(w) - (k + 1) + 1 ELSE 0
          /\ \A j \in 1..(Len(w) - (k + 1) + 1) : b[j] = w[(k + 1) + j - 1]
      BY <1>1, <1>4, <2>1, SubSeqProperties
    <3>2. Len(b) = Len(v) /\ Len(w) - (k + 1) + 1 = Len(v)
      BY <1>1, <1>2, <1>3, <1>4, <3>1
    <3>3. ASSUME NEW j \in 1..Len(v) PROVE b[j] = w[k + j]
      <4>1. (k + 1) + j - 1 = k + j
        BY <1>1
      <4> QED BY <3>1, <3>2, <4>1
    <3> QED BY <3>1, <3>2, <3>3
  <2>3. ASSUME NEW j \in 1..Len(v) PROVE w[k + j] = v[j]
    <3>1. /\ k + j \in 1..Len(w) /\ ~(k + j <= Len(r)) /\ k + j - Len(r) = j + 1
          /\ j + 1 \in 1..Len(u) /\ m + (j + 1) - 1 = m + j
      BY <1>1, <1>2, <1>3, <1>4
    <3>2. w[k + j] = u[j + 1] /\ u[j + 1] = s[m + (j + 1) - 1] /\ v[j] = s[m + j]
      <4> DEFINE at == k + j
      <4>1. at \in 1..Len(w) /\ ~(at <= Len(r)) /\ at - Len(r) = j + 1
        BY <3>1
      <4> HIDE DEF at
      <4>2. w[at] = u[at - Len(r)]
        BY <1>4, <4>1
      <4> QED BY <1>2, <1>3, <3>1, <4>1, <4>2 DEF at
    <3> QED BY <3>1, <3>2
  <2> HIDE DEF b
  <2> QED BY <1>3, <2>2, <2>3, SeqEqual
<1>8. Abstract!RemoveAt(w, k) = a \o b
  BY DEF Abstract!RemoveAt
<1> QED BY <1>5, <1>6, <1>7, <1>8 DEF w, u, v

\* The list seen from outside a pass, at its start and at its end.
LEMMA WaitingList ==
  ASSUME PoolTypeOK, Positions
  PROVE  /\ engine = "idle" => Waiting = pending_orders
         /\ engine \in {"scan", "execute"} => Waiting = kept \o RestFrom(pending_orders, cursor)
         /\ engine = "settle" => Waiting = kept \o RestFrom(pending_orders, cursor + 1)
BY DEF Waiting, Undecided, RestFrom

LEMMA WaitingListNext ==
  ASSUME PoolTypeOK', Positions'
  PROVE  /\ engine' = "idle" => Waiting' = pending_orders'
         /\ engine' \in {"scan", "execute"} => Waiting' = kept' \o RestFrom(pending_orders', cursor')
         /\ engine' = "settle" => Waiting' = kept' \o RestFrom(pending_orders', cursor' + 1)
BY DEF Waiting, Undecided, RestFrom

----------------------------------------------------------------------------
(* The balances, as if the update that is running had been made.           *)

LEMMA SettledAtRest ==
  /\ ledger = "idle" => SettledCash = cash /\ SettledAssets = asset_amount
  /\ ledger' = "idle" => SettledCash' = cash' /\ SettledAssets' = asset_amount'
BY DEF SettledCash, SettledAssets

LEMMA NothingTotal == TotalCost(<< >>) = 0 /\ TotalAmount(<< >>) = 0
<1>1. Costs(<< >>) = << >> /\ Amounts(<< >>) = << >>
  BY DEF Costs, Amounts
<1> QED BY <1>1, TotalEmpty DEF TotalCost, TotalAmount

LEMMA TakenInParts ==
  \A c, x, y \in Int : (c - x) - y = c - (x + y) /\ (c + x) + y = c + (x + y)
BY SMT

\* Booking a fill is what the update owed.
LEMMA BookingIsSettled ==
  ASSUME PortfolioInv, PortfolioStep
  PROVE  SettledCash' = SettledCash /\ SettledAssets' = SettledAssets
<1>1. cash \in Int /\ asset_amount \in Int /\ due \in Seq(ExecutionFill)
  BY DEF PortfolioInv, PortfolioTypeOK
<1>2. CASE MatchLot
  <2>1. UNCHANGED <<cash, asset_amount, ledger, due>>
    BY <1>2 DEF MatchLot
  <2>2. ledger = "matching" /\ ledger' = "matching"
    BY <1>2, <2>1 DEF MatchLot
  <2>3. TotalCost(due') = TotalCost(due) /\ TotalAmount(due') = TotalAmount(due)
    BY <2>1
  <2>4. /\ SettledCash = cash + TotalCost(due) /\ SettledAssets = asset_amount - TotalAmount(due)
        /\ SettledCash' = cash' + TotalCost(due') /\ SettledAssets' = asset_amount' - TotalAmount(due')
    BY <2>2 DEF SettledCash, SettledAssets
  <2> QED BY <2>1, <2>3, <2>4
<1>3. CASE BookBuy \/ BookSell
  <2> DEFINE f == Head(due)
             r == Tail(due)
  <2>1. due # << >>
    BY <1>3 DEF PortfolioInv, InLoop, BookBuy, BookSell
  <2>2. /\ r \in Seq(ExecutionFill) /\ f.amount \in Int /\ Cost(f) \in Int
        /\ TotalAmount(due) = f.amount + TotalAmount(r)
        /\ TotalCost(due) = Cost(f) + TotalCost(r)
    BY <1>1, <2>1, FillTail DEF Positive
  <2>3. TotalAmount(r) \in Int /\ TotalCost(r) \in Int
    <3>1. r \in Seq(ExecutionFill)
      BY <2>2
    <3> HIDE DEF r
    <3>2. TotalAmount(r) \in Nat /\ TotalCost(r) \in Nat
      BY <3>1, FillTotals
    <3> QED BY <3>2
  <2>4. Len(due) = 1 => TotalAmount(r) = 0 /\ TotalCost(r) = 0
    <3>1. Len(due) = 1 => r = << >>
      BY <1>1, <2>1, TailEmpty
    <3> QED BY <3>1, NothingTotal
  <2>5. due' = r
    BY <1>3 DEF BookBuy, BookSell, Settle
  <2>6. CASE BookBuy
    <3>1. /\ ledger = "buying" /\ ledger' = IF Len(due) = 1 THEN "idle" ELSE "buying"
          /\ cash' = cash - Cost(f) /\ asset_amount' = asset_amount + f.amount
      BY <2>6 DEF BookBuy, Settle
    <3>2. /\ SettledCash = cash - TotalCost(due) /\ SettledAssets = asset_amount + TotalAmount(due)
      BY <3>1 DEF SettledCash, SettledAssets
    <3>3. /\ SettledCash' = IF Len(due) = 1 THEN cash' ELSE cash' - TotalCost(r)
          /\ SettledAssets' = IF Len(due) = 1 THEN asset_amount' ELSE asset_amount' + TotalAmount(r)
      BY <2>5, <3>1 DEF SettledCash, SettledAssets
    <3> HIDE DEF f, r
    <3>4. CASE Len(due) = 1
      BY <1>1, <2>2, <2>4, <3>1, <3>2, <3>3, <3>4
    <3>5. CASE Len(due) # 1
      <4>1. /\ SettledCash' = (cash - Cost(f)) - TotalCost(r)
            /\ SettledAssets' = (asset_amount + f.amount) + TotalAmount(r)
        BY <3>1, <3>3, <3>5
      <4>2. /\ SettledCash = cash - (Cost(f) + TotalCost(r))
            /\ SettledAssets = asset_amount + (f.amount + TotalAmount(r))
        BY <2>2, <3>2
      <4>3. (cash - Cost(f)) - TotalCost(r) = cash - (Cost(f) + TotalCost(r))
        BY <1>1, <2>2, <2>3, TakenInParts
      <4>4. (asset_amount + f.amount) + TotalAmount(r) = asset_amount + (f.amount + TotalAmount(r))
        BY <1>1, <2>2, <2>3, TakenInParts
      <4> QED BY <4>1, <4>2, <4>3, <4>4
    <3> QED BY <3>4, <3>5
  <2>7. CASE BookSell
    <3>1. /\ ledger = "matching" /\ ledger' = IF Len(due) = 1 THEN "idle" ELSE "matching"
          /\ cash' = cash + Cost(f) /\ asset_amount' = asset_amount - f.amount
      BY <2>7 DEF BookSell, Settle
    <3>2. /\ SettledCash = cash + TotalCost(due) /\ SettledAssets = asset_amount - TotalAmount(due)
      BY <3>1 DEF SettledCash, SettledAssets
    <3>3. /\ SettledCash' = IF Len(due) = 1 THEN cash' ELSE cash' + TotalCost(r)
          /\ SettledAssets' = IF Len(due) = 1 THEN asset_amount' ELSE asset_amount' - TotalAmount(r)
      BY <2>5, <3>1 DEF SettledCash, SettledAssets
    <3> HIDE DEF f, r
    <3>4. CASE Len(due) = 1
      BY <1>1, <2>2, <2>4, <3>1, <3>2, <3>3, <3>4
    <3>5. CASE Len(due) # 1
      <4>1. /\ SettledCash' = (cash + Cost(f)) + TotalCost(r)
            /\ SettledAssets' = (asset_amount - f.amount) - TotalAmount(r)
        BY <3>1, <3>3, <3>5
      <4>2. /\ SettledCash = cash + (Cost(f) + TotalCost(r))
            /\ SettledAssets = asset_amount - (f.amount + TotalAmount(r))
        BY <2>2, <3>2
      <4>3. (cash + Cost(f)) + TotalCost(r) = cash + (Cost(f) + TotalCost(r))
        BY <1>1, <2>2, <2>3, TakenInParts
      <4>4. (asset_amount - f.amount) - TotalAmount(r) = asset_amount - (f.amount + TotalAmount(r))
        BY <1>1, <2>2, <2>3, TakenInParts
      <4> QED BY <4>1, <4>2, <4>3, <4>4
    <3> QED BY <3>4, <3>5
  <2> QED BY <1>3, <2>6, <2>7
<1> QED BY <1>2, <1>3 DEF PortfolioStep

----------------------------------------------------------------------------
(* The inductive invariant: that of the backtest, sweeps as they should be *)
(* in every pass, and no snapshot outside one.                             *)
MarketInv ==
  /\ TradingInv
  /\ CallInv
  /\ SweepInv
  /\ engine = "idle" => snapshot = EmptyBook

LEMMA MarketInit == ASSUME Init PROVE MarketInv
<1>1. TradingInv
  BY AccountInit, PoolInit, PriceInit DEF Init, TradingInv
<1>2. SweepInv
  BY NoCallType DEF Init, OrdersInit, OrdersTypeOK, SweepInv
<1> QED BY <1>1, <1>2, CallInit DEF Init, EngineInit, MarketInv

LEMMA StepKeepsSweep ==
  ASSUME SortedBooks, MarketInv, [Next]_vars
  PROVE  SweepInv'
<1>1. SweepInv /\ PoolInv /\ PriceInv
  BY DEF MarketInv, TradingInv
<1>2. CASE CallExecutor
  <2>1. Current \in OwnTicket
    BY <1>1, <1>2, CurrentFirst DEF CallExecutor, PoolInv
  <2>2. Current.order \in Order
    BY <2>1, OrdersAssumption DEF OwnTicket
  <2>3. snapshot \in LOBData /\ SortedBook(snapshot)
    BY <1>1, <1>2, BooksAssumption DEF CallExecutor, PriceInv, SortedBooks
  <2> QED BY <1>2, <2>2, <2>3, ExecuteOrderSweep DEF CallExecutor
<1>3. CASE RunExecutor
  BY <1>1, <1>3, TakeLevelSweep, EndSweepSweep DEF RunExecutor
<1>4. CASE Keep \/ Trade
  BY <1>1, <1>4, ReturnSweep DEF Keep, Trade
<1>5. CASE UNCHANGED ordersVars
  BY <1>1, <1>5, SameSweep
<1>6. ASSUME NEW answer \in Answers, OnTick(answer)
      PROVE  UNCHANGED ordersVars
  BY <1>6 DEF OnTick, Answer
<1>7. CASE UNCHANGED vars
  BY <1>5, <1>7 DEF vars
<1>8. CASE UserCall \/ StartTick \/ Exception \/ InvalidData \/ RecordValue \/ EndOfData \/ Crash
  BY <1>5, <1>8 DEF UserCall, LinkPortfolio, AddData, SetStrategy, RunWithoutStrategy, Run,
                    StartTick, Exception, Throw, InvalidData, RecordValue, EndOfData, Crash
<1>9. CASE EngineStep
  BY <1>2, <1>3, <1>4, <1>5, <1>9 DEF EngineStep, RunPortfolio, DropExecuted, EraseRemoved
<1> QED BY <1>5, <1>6, <1>7, <1>8, <1>9 DEF Next, RunStep, LoopStep

LEMMA StepKeepsQuotes ==
  ASSUME MarketInv, [Next]_vars
  PROVE  engine' = "idle" => snapshot' = EmptyBook
<1>1. engine = "idle" => snapshot = EmptyBook
  BY DEF MarketInv
<1>2. ASSUME NEW answer \in Answers, OnTick(answer)
      PROVE  UNCHANGED <<engine, snapshot>>
  BY <1>2 DEF OnTick, Answer, AddOrder, engineVars
<1>3. CASE UNCHANGED vars
  BY <1>1, <1>3 DEF vars, engineVars
<1>4. CASE UserCall \/ InvalidData \/ RecordValue \/ EndOfData \/ Crash
  <2>1. UNCHANGED engineVars
    BY <1>4 DEF UserCall, LinkPortfolio, AddData, SetStrategy, RunWithoutStrategy, Run,
                InvalidData, RecordValue, EndOfData, Crash
  <2> QED BY <1>1, <2>1 DEF engineVars
<1>5. CASE StartTick
  BY <1>5 DEF StartTick, BeginTick
<1>6. CASE Exception
  BY <1>6 DEF Exception, Throw, LeaveTick
<1>7. CASE EngineStep
  <2>1. CASE RunExecutor \/ RunPortfolio
    BY <1>1, <2>1 DEF RunExecutor, RunPortfolio, engineVars
  <2>2. CASE CallExecutor \/ Keep \/ Trade \/ DropExecuted
    BY <2>2 DEF CallExecutor, Keep, Trade, DropExecuted
  <2>3. CASE EraseRemoved
    BY <2>3 DEF EraseRemoved, LeaveTick
  <2> QED BY <1>7, <2>1, <2>2, <2>3 DEF EngineStep
<1> QED BY <1>1, <1>2, <1>3, <1>4, <1>5, <1>6, <1>7 DEF Next, RunStep, LoopStep

LEMMA StepKeepsMarket ==
  ASSUME SortedBooks, MarketInv, [Next]_vars
  PROVE  MarketInv'
<1>1. TradingInv'
  BY StepKeepsAccount, StepKeepsPool, StepKeepsPrices DEF MarketInv, TradingInv
<1> QED BY <1>1, StepKeepsCalls, StepKeepsSweep, StepKeepsQuotes DEF MarketInv

----------------------------------------------------------------------------
(* The steps of the backtest, seen through the mapping.                    *)

LEMMA NotSeen ==
  ASSUME run' = "idle" <=> run = "idle",
         UNCHANGED <<snapshot, Waiting, SettledCash, SettledAssets>>
  PROVE  UNCHANGED Abstract!exchangeVars
BY Zenon DEF Abstract!exchangeVars

LEMMA SameBalances ==
  ASSUME UNCHANGED portfolioVars
  PROVE  SettledCash' = SettledCash /\ SettledAssets' = SettledAssets
BY DEF portfolioVars, SettledCash, SettledAssets

LEMMA SamePool ==
  ASSUME UNCHANGED engineVars
  PROVE  Waiting' = Waiting /\ snapshot' = snapshot
BY DEF engineVars, Waiting, Undecided

\* A session starts and ends with the loop, which ends between two passes.
LEMMA LoopIsSession ==
  ASSUME MarketInv, engine = "idle", run' = "idle" <=> run # "idle",
         UNCHANGED <<portfolioVars, engineVars>>
  PROVE  Abstract!StartOrStop
<1>1. snapshot.asks = << >> /\ snapshot.bids = << >>
  BY DEF MarketInv, EmptyBook
<1>2. /\ snapshot' = snapshot /\ Waiting' = Waiting
      /\ SettledCash' = SettledCash /\ SettledAssets' = SettledAssets
  BY SameBalances, SamePool
<1>3. (run # "idle")' = ~(run # "idle")
  OBVIOUS
<1> QED BY <1>1, <1>2, <1>3 DEF Abstract!StartOrStop

LEMMA UserCallSeen ==
  ASSUME MarketInv, UserCall
  PROVE  [Abstract!ExchangeNext]_(Abstract!exchangeVars)
<1>1. run = "idle" /\ engine = "idle" /\ ledger = "idle"
  BY DEF MarketInv, TradingInv, PriceInv, UserCall, LinkPortfolio, AddData, SetStrategy,
         RunWithoutStrategy, Run
<1>2. UNCHANGED engineVars
  BY DEF UserCall, LinkPortfolio, AddData, SetStrategy, RunWithoutStrategy, Run
<1>3. ASSUME NEW balances \in Openings, LinkPortfolio(balances)
      PROVE  Abstract!OpenAccount
  <2>1. /\ run' = "idle" /\ ledger' = "idle" /\ cash' = balances.cash
        /\ asset_amount' = balances.assets
    BY <1>1, <1>3 DEF LinkPortfolio, Create
  <2>2. SettledCash' = balances.cash /\ SettledAssets' = balances.assets
    BY <2>1, SettledAtRest
  <2>3. balances \in [cash : Nat, assets : Nat]
    BY OpeningsAssumption
  <2>4. [cash |-> balances.cash, assets |-> balances.assets] = balances
    BY <2>3
  <2>5. [cash |-> SettledCash', assets |-> SettledAssets'] \in Openings
    BY <2>2, <2>4
  <2>6. Waiting' = Waiting /\ snapshot' = snapshot
    BY <1>2, SamePool
  <2>7. ~(run # "idle") /\ (run # "idle")' = (run # "idle")
    BY <1>1, <2>1
  <2> QED BY <2>5, <2>6, <2>7 DEF Abstract!OpenAccount
<1>4. CASE (\E d \in DataSets : AddData(d)) \/ SetStrategy \/ RunWithoutStrategy
  <2>1. run' = "idle" /\ UNCHANGED portfolioVars
    BY <1>1, <1>4 DEF AddData, SetStrategy, RunWithoutStrategy
  <2> QED BY <1>1, <1>2, <2>1, NotSeen, SameBalances, SamePool
<1>5. CASE Run
  <2>1. run' = "tick" /\ UNCHANGED portfolioVars
    BY <1>5 DEF Run
  <2> QED BY <1>1, <1>2, <2>1, LoopIsSession DEF Abstract!ExchangeNext
<1> QED BY <1>3, <1>4, <1>5 DEF UserCall, Abstract!ExchangeNext

LEMMA OnTickSeen ==
  ASSUME MarketInv, MarketInv', NEW answer \in Answers, OnTick(answer)
  PROVE  [Abstract!ExchangeNext]_(Abstract!exchangeVars)
<1>1. /\ run = "tick" /\ run' = "trade" /\ engine = "idle" /\ engine' = "idle"
      /\ UNCHANGED portfolioVars
  BY DEF MarketInv, TradingInv, PriceInv, OnTick, Answer, AddOrder, engineVars
<1>2. CASE answer = << >>
  <2>1. UNCHANGED engineVars
    BY <1>2 DEF OnTick, Answer
  <2> QED BY <1>1, <2>1, NotSeen, SameBalances, SamePool
<1>3. CASE answer # << >>
  <2> DEFINE t == [id |-> submitted + 1, order |-> answer[1]]
  <2>1. answer[1] \in OrderSet
    BY <1>3 DEF Answers
  <2>2. pending_orders' = Append(pending_orders, t) /\ snapshot' = snapshot
    BY <1>3 DEF OnTick, Answer, AddOrder
  <2>3. pending_orders \in Seq(OwnTicket) /\ t \in OwnTicket
    BY <2>1 DEF MarketInv, TradingInv, PoolInv, PoolTypeOK, OwnTicket, Positive
  <2>4. Waiting = pending_orders /\ Waiting' = pending_orders'
    BY <1>1 DEF Waiting
  <2> HIDE DEF t
  <2>5. Len(pending_orders') = Len(pending_orders) + 1
    BY <2>2, <2>3
  <2>6. Abstract!Front(pending_orders') = pending_orders
    <3>1. SubSeq(pending_orders', 1, Len(pending_orders') - 1) = pending_orders
      BY <2>2, <2>3
    <3> QED BY <3>1 DEF Abstract!Front
  <2>7. (run # "idle") /\ (run # "idle")' = (run # "idle")
    BY <1>1
  <2>8. SettledCash' = SettledCash /\ SettledAssets' = SettledAssets
    BY <1>1, SameBalances
  <2>9. Abstract!Submit
    BY <2>2, <2>4, <2>5, <2>6, <2>7, <2>8 DEF Abstract!Submit
  <2> QED BY <2>9 DEF Abstract!ExchangeNext
<1> QED BY <1>2, <1>3

\* Only the snapshot changes: at the start and at the end of a pass.
LEMMA SnapshotSeen ==
  ASSUME run # "idle", run' # "idle",
         UNCHANGED <<Waiting, SettledCash, SettledAssets>>
  PROVE  Abstract!Quote
BY DEF Abstract!Quote

LEMMA StartTickSeen ==
  ASSUME MarketInv, MarketInv', StartTick
  PROVE  Abstract!Quote
<1>1. /\ run = "trade" /\ run' = "value" /\ engine = "idle" /\ engine' = "scan"
      /\ UNCHANGED <<pending_orders, kept, cursor, portfolioVars>>
  BY DEF StartTick, BeginTick
<1>2. /\ PoolTypeOK /\ Positions /\ PoolTypeOK' /\ Positions'
      /\ kept = << >> /\ cursor = 1 /\ pending_orders \in Seq(OwnTicket)
  BY <1>1 DEF MarketInv, TradingInv, PoolInv, PoolTypeOK, Positions
<1>3. Waiting = pending_orders
  BY <1>1, <1>2, WaitingList
<1>4. Waiting' = << >> \o RestFrom(pending_orders, 1)
  BY <1>1, <1>2, WaitingListNext
<1>5. RestFrom(pending_orders, 1) = pending_orders
  BY <1>2, SubSeqFull DEF RestFrom
<1>6. << >> \o pending_orders = pending_orders
  BY <1>2, ConcatEmptySeq
<1>7. Waiting' = Waiting
  BY <1>3, <1>4, <1>5, <1>6
<1> QED BY <1>1, <1>7, SameBalances, SnapshotSeen

----------------------------------------------------------------------------
(* The steps of a pass.                                                    *)

\* In a pass the list is seen as it is wherever the pass has not changed.
LEMMA PassNotSeen ==
  ASSUME run # "idle", run' = run, snapshot' = snapshot, Waiting' = Waiting,
         UNCHANGED portfolioVars
  PROVE  UNCHANGED Abstract!exchangeVars
BY NotSeen, SameBalances

LEMMA CallExecutorSeen ==
  ASSUME MarketInv, MarketInv', CallExecutor, run' = run
  PROVE  UNCHANGED Abstract!exchangeVars
<1>1. /\ engine = "scan" /\ engine' = "execute" /\ run # "idle"
      /\ UNCHANGED <<pending_orders, kept, cursor, snapshot, portfolioVars>>
  BY DEF CallExecutor, MarketInv, TradingInv, PriceInv
<1>2. PoolTypeOK /\ Positions /\ PoolTypeOK' /\ Positions'
  BY DEF MarketInv, TradingInv, PoolInv
<1>3. Waiting = kept \o RestFrom(pending_orders, cursor)
  BY <1>1, <1>2, WaitingList
<1>4. Waiting' = kept \o RestFrom(pending_orders, cursor)
  BY <1>1, <1>2, WaitingListNext
<1> QED BY <1>1, <1>3, <1>4, PassNotSeen

LEMMA KeepSeen ==
  ASSUME MarketInv, MarketInv', Keep, run' = run
  PROVE  UNCHANGED Abstract!exchangeVars
<1>1. /\ engine = "execute" /\ engine' = "scan" /\ run # "idle"
      /\ kept' = Append(kept, pending_orders[cursor]) /\ cursor' = cursor + 1
      /\ UNCHANGED <<pending_orders, snapshot, portfolioVars>>
  BY DEF Keep, Current, MarketInv, TradingInv, PriceInv
<1>2. PoolTypeOK /\ Positions /\ PoolTypeOK' /\ Positions'
  BY DEF MarketInv, TradingInv, PoolInv
<1>3. /\ kept \in Seq(OwnTicket) /\ pending_orders \in Seq(OwnTicket)
      /\ cursor \in 1..Len(pending_orders)
  BY <1>1, <1>2 DEF PoolTypeOK, Positions, Positive
<1>4. Waiting = kept \o RestFrom(pending_orders, cursor)
  BY <1>1, <1>2, WaitingList
<1>5. Waiting' = Append(kept, pending_orders[cursor]) \o RestFrom(pending_orders, cursor + 1)
  BY <1>1, <1>2, WaitingListNext
<1>6. Waiting' = Waiting
  BY <1>3, <1>4, <1>5, KeptOrder
<1> QED BY <1>1, <1>6, PassNotSeen

LEMMA DropExecutedSeen ==
  ASSUME MarketInv, MarketInv', DropExecuted, run' = run
  PROVE  UNCHANGED Abstract!exchangeVars
<1>1. /\ engine = "settle" /\ engine' = "scan" /\ run # "idle" /\ cursor' = cursor + 1
      /\ UNCHANGED <<pending_orders, kept, snapshot, portfolioVars>>
  BY DEF DropExecuted, MarketInv, TradingInv, PriceInv
<1>2. PoolTypeOK /\ Positions /\ PoolTypeOK' /\ Positions'
  BY DEF MarketInv, TradingInv, PoolInv
<1>3. Waiting = kept \o RestFrom(pending_orders, cursor + 1)
  BY <1>1, <1>2, WaitingList
<1>4. Waiting' = kept \o RestFrom(pending_orders, cursor + 1)
  BY <1>1, <1>2, WaitingListNext
<1> QED BY <1>1, <1>3, <1>4, PassNotSeen

LEMMA EraseRemovedSeen ==
  ASSUME MarketInv, MarketInv', EraseRemoved, run' = run
  PROVE  Abstract!Quote
<1>1. /\ engine = "scan" /\ engine' = "idle" /\ run # "idle" /\ cursor > Len(pending_orders)
      /\ pending_orders' = kept /\ UNCHANGED portfolioVars
  BY DEF EraseRemoved, LeaveTick, MarketInv, TradingInv, PriceInv
<1>2. PoolTypeOK /\ Positions /\ PoolTypeOK' /\ Positions'
  BY DEF MarketInv, TradingInv, PoolInv
<1>3. Waiting = kept \o RestFrom(pending_orders, cursor)
  BY <1>1, <1>2, WaitingList
<1>4. Waiting' = kept
  BY <1>1, <1>2, WaitingListNext
<1>5. /\ kept \in Seq(OwnTicket) /\ RestFrom(pending_orders, cursor) = << >>
  <2>1. pending_orders \in Seq(OwnTicket) /\ cursor \in 1..Len(pending_orders) + 1
        /\ Len(pending_orders) + 1 - cursor = 0
    BY <1>1, <1>2 DEF PoolTypeOK, Positions, Positive
  <2>2. /\ RestFrom(pending_orders, cursor) \in Seq(OwnTicket)
        /\ Len(RestFrom(pending_orders, cursor)) = 0
    BY <2>1, RestElements
  <2> QED BY <1>2, <2>2, EmptySeq DEF PoolTypeOK
<1>6. Waiting' = Waiting
  BY <1>3, <1>4, <1>5, ConcatEmptySeq
<1> QED BY <1>1, <1>6, SameBalances, SnapshotSeen

(* Trade is the execution: from here on the balances of the exchange are   *)
(* those after the update, and the order has left the list.                *)
LEMMA TradeSeen ==
  ASSUME SortedBooks, MarketInv, MarketInv', Trade, run' = run
  PROVE  Abstract!Execute
<1> DEFINE o == Current.order
           k == Len(kept) + 1
<1>1. /\ engine = "execute" /\ engine' = "settle" /\ run # "idle" /\ exec = "done" /\ fills # << >>
      /\ ledger = "idle" /\ order = o
      /\ UNCHANGED <<pending_orders, kept, cursor, snapshot>>
  BY DEF Trade, AsksPortfolio, UpdateAfterBuy, UpdateAfterSell, MarketInv, TradingInv, PriceInv,
         CallInv
<1>2. PoolTypeOK /\ Positions /\ PoolTypeOK' /\ Positions'
  BY DEF MarketInv, TradingInv, PoolInv
<1>3. /\ kept \in Seq(OwnTicket) /\ pending_orders \in Seq(OwnTicket)
      /\ cursor \in 1..Len(pending_orders)
  BY <1>1, <1>2 DEF PoolTypeOK, Positions, Positive
<1>4. Waiting = kept \o RestFrom(pending_orders, cursor)
  BY <1>1, <1>2, WaitingList
<1>5. Waiting' = kept \o RestFrom(pending_orders, cursor + 1)
  BY <1>1, <1>2, WaitingListNext
<1>6. /\ k \in 1..Len(Waiting) /\ Waiting[k].order = o
      /\ Waiting' = Abstract!RemoveAt(Waiting, k)
  BY <1>3, <1>4, <1>5, TakenOrder DEF Current
<1>7. /\ snapshot \in LOBData /\ o \in Order /\ fills \in Seq(ExecutionFill)
      /\ Ranked(o, Levels(o, snapshot)) /\ Greedy(fills, o, Levels(o, snapshot))
      /\ TotalAmount(fills) = Entitled(o, Levels(o, snapshot))
  BY <1>1 DEF MarketInv, SweepInv, OrdersTypeOK, TradingInv, AccountInv, PriceInv
<1>8. /\ cash \in Int /\ asset_amount \in Int /\ SettledCash = cash /\ SettledAssets = asset_amount
  BY <1>1, SettledAtRest DEF MarketInv, TradingInv, AccountInv, PortfolioInv, PortfolioTypeOK
<1>9. TotalAmount(fills) \in Int /\ TotalCost(fills) \in Int
  BY <1>7, FillTotals
<1>10. o.side \in {"Buy", "Sell"} => Abstract!Deal(o, TotalAmount(fills), TotalCost(fills))
  BY <1>1, <1>7, SweepIsDeal
<1> HIDE DEF o, k
<1>11. ASSUME o.side = "Buy", UpdateAfterBuy(fills) PROVE Abstract!Buy(o)
  <2>1. /\ cash >= TotalCost(fills) /\ ledger' = "buying" /\ due' = fills
        /\ UNCHANGED <<cash, asset_amount>>
    BY <1>11 DEF UpdateAfterBuy, CanBuy
  <2>2. SettledCash' = cash - TotalCost(fills) /\ SettledAssets' = asset_amount + TotalAmount(fills)
    BY <2>1 DEF SettledCash, SettledAssets
  <2>3. /\ SettledAssets' - SettledAssets = TotalAmount(fills)
        /\ SettledCash - SettledCash' = TotalCost(fills)
        /\ SettledCash' >= 0
    BY <1>8, <1>9, <2>1, <2>2
  <2> QED BY <1>10, <1>11, <2>3 DEF Abstract!Buy
<1>12. ASSUME o.side = "Sell", UpdateAfterSell(fills) PROVE Abstract!Sell(o)
  <2>1. /\ asset_amount >= TotalAmount(fills) /\ ledger' = "matching" /\ due' = fills
        /\ UNCHANGED <<cash, asset_amount>>
    BY <1>12 DEF UpdateAfterSell, CanSell
  <2>2. SettledCash' = cash + TotalCost(fills) /\ SettledAssets' = asset_amount - TotalAmount(fills)
    BY <2>1 DEF SettledCash, SettledAssets
  <2>3. /\ SettledAssets - SettledAssets' = TotalAmount(fills)
        /\ SettledCash' - SettledCash = TotalCost(fills)
        /\ SettledAssets' >= 0
    BY <1>8, <1>9, <2>1, <2>2
  <2> QED BY <1>10, <1>12, <2>3 DEF Abstract!Sell
<1>13. Abstract!Buy(o) \/ Abstract!Sell(o)
  BY <1>1, <1>11, <1>12 DEF Trade
<1>14. (run # "idle") /\ (run # "idle")' = (run # "idle")
  BY <1>1
<1> QED BY <1>1, <1>6, <1>13, <1>14 DEF Abstract!Execute

LEMMA EngineStepSeen ==
  ASSUME SortedBooks, MarketInv, MarketInv', EngineStep
  PROVE  [Abstract!ExchangeNext]_(Abstract!exchangeVars)
<1>1. run' = run
  BY DEF EngineStep, runVars
<1>2. CASE CallExecutor
  BY <1>1, <1>2, CallExecutorSeen
<1>3. CASE RunExecutor
  <2>1. UNCHANGED <<portfolioVars, engineVars>>
    BY <1>3 DEF RunExecutor
  <2> QED BY <1>1, <2>1, NotSeen, SameBalances, SamePool
<1>4. CASE Keep
  BY <1>1, <1>4, KeepSeen
<1>5. CASE Trade
  BY <1>1, <1>5, TradeSeen DEF Abstract!ExchangeNext
<1>6. CASE RunPortfolio
  <2>1. PortfolioInv /\ PortfolioStep /\ UNCHANGED engineVars
    BY <1>6 DEF RunPortfolio, MarketInv, TradingInv, AccountInv
  <2> QED BY <1>1, <2>1, NotSeen, BookingIsSettled, SamePool
<1>7. CASE DropExecuted
  BY <1>1, <1>7, DropExecutedSeen
<1>8. CASE EraseRemoved
  BY <1>1, <1>8, EraseRemovedSeen DEF Abstract!ExchangeNext
<1> QED BY <1>2, <1>3, <1>4, <1>5, <1>6, <1>7, <1>8 DEF EngineStep

LEMMA RestOfLoopSeen ==
  ASSUME MarketInv, InvalidData \/ RecordValue \/ EndOfData \/ Crash
  PROVE  [Abstract!ExchangeNext]_(Abstract!exchangeVars)
<1>1. UNCHANGED engineVars
  BY DEF InvalidData, RecordValue, EndOfData, Crash
<1>2. CASE InvalidData \/ EndOfData
  <2>1. engine = "idle" /\ run # "idle" /\ run' = "idle" /\ UNCHANGED portfolioVars
    BY <1>2 DEF InvalidData, EndOfData, TickDone, Finish, MarketInv, TradingInv, PriceInv
  <2> QED BY <1>1, <2>1, LoopIsSession DEF Abstract!ExchangeNext
<1>3. CASE RecordValue
  <2>1. /\ run # "idle" /\ run' # "idle" /\ ledger = "idle" /\ ledger' = "idle"
        /\ UNCHANGED <<cash, asset_amount>>
    BY <1>3 DEF RecordValue, TickDone, UpdatePortfolioValue
  <2>2. SettledCash' = SettledCash /\ SettledAssets' = SettledAssets
    BY <2>1, SettledAtRest
  <2> QED BY <1>1, <2>1, <2>2, NotSeen, SamePool
<1>4. CASE Crash
  <2>1. run # "idle" /\ run' # "idle" /\ UNCHANGED portfolioVars
    BY <1>4 DEF Crash, AsksPortfolio, TickDone, MarketInv, TradingInv, PriceInv
  <2> QED BY <1>1, <2>1, NotSeen, SameBalances, SamePool
<1> QED BY <1>2, <1>3, <1>4

LEMMA StepSeen ==
  ASSUME SortedBooks, AllHaveExecutors, MarketInv, MarketInv', [Next]_vars
  PROVE  [Abstract!ExchangeNext]_(Abstract!exchangeVars)
<1>1. CASE UNCHANGED vars
  <2>1. run' = run /\ UNCHANGED <<portfolioVars, engineVars>>
    BY <1>1 DEF vars, runVars
  <2> QED BY <2>1, NotSeen, SameBalances, SamePool
<1>2. CASE UserCall
  BY <1>2, UserCallSeen
<1>3. ASSUME NEW answer \in Answers, OnTick(answer)
      PROVE  [Abstract!ExchangeNext]_(Abstract!exchangeVars)
  BY <1>3, OnTickSeen
<1>4. CASE StartTick
  BY <1>4, StartTickSeen DEF Abstract!ExchangeNext
<1>5. CASE EngineStep
  BY <1>5, EngineStepSeen
<1>6. ~Exception
  BY NothingThrown DEF MarketInv, TradingInv, PoolInv
<1>7. CASE InvalidData \/ RecordValue \/ EndOfData \/ Crash
  BY <1>7, RestOfLoopSeen
<1> QED BY <1>1, <1>2, <1>3, <1>4, <1>5, <1>6, <1>7 DEF Next, RunStep, LoopStep

LEMMA InitSeen == ASSUME Init PROVE Abstract!ExchangeInit
<1>1. /\ run = "idle" /\ snapshot = EmptyBook /\ engine = "idle" /\ pending_orders = << >>
      /\ ledger = "idle" /\ cash = 0 /\ asset_amount = 0
  BY DEF Init, EngineInit, PortfolioInit, Holds
<1>2. SettledCash = 0 /\ SettledAssets = 0 /\ Waiting = << >>
  BY <1>1 DEF SettledCash, SettledAssets, Waiting
<1> QED BY <1>1, <1>2 DEF EmptyBook, Abstract!ExchangeInit

----------------------------------------------------------------------------
(* On sorted snapshots and in every reachable state the executors have     *)
(* swept as they should, and no snapshot outlives its pass.                *)
THEOREM MarketInvInductive ==
  ASSUME SortedBooks
  PROVE  Spec => []MarketInv
<1>1. Init => MarketInv
  BY MarketInit
<1>2. MarketInv /\ [Next]_vars => MarketInv'
  BY SortedBooks, StepKeepsMarket
<1> QED BY <1>1, <1>2, PTL DEF Spec

(* The engines implement Exchange (src/market_engine.cpp, orders.cpp,      *)
(* portfolio.cpp, backtesting_engine.cpp): on snapshots sorted as          *)
(* include/types.hpp:67-70 says, and where every order has an executor, an *)
(* order is executed at most once, in one piece, within the balances and   *)
(* for the best the snapshot of the tick holds, whatever else trades in    *)
(* the tick.                                                               *)
THEOREM EnginesImplementExchange ==
  ASSUME SortedBooks, AllHaveExecutors
  PROVE  Spec => ImplementsExchange
<1>1. Init => Abstract!ExchangeInit
  BY InitSeen
<1>2. MarketInv /\ MarketInv' /\ [Next]_vars => [Abstract!ExchangeNext]_(Abstract!exchangeVars)
  BY SortedBooks, AllHaveExecutors, StepSeen
<1>3. Spec => []MarketInv
  BY SortedBooks, MarketInvInductive
<1> QED BY <1>1, <1>2, <1>3, PTL DEF Spec, ImplementsExchange, Abstract!ExchangeSpec
=============================================================================
