----------------------------- MODULE MCCrossover -----------------------------
EXTENDS Crossover

Lv(p, a) == [price |-> p, amount |-> a]
Flat(p, a) == [local_timestamp |-> p, asks |-> <<Lv(p + 1, a)>>, bids |-> <<Lv(p, a)>>]

\* Prices up, down and sideways; thin books that a stake exceeds.
MCBooks == {Flat(p, a) : p \in 1..4, a \in {1, 9}} \cup {EmptyBook}

MCDataSets ==
  {<<Flat(1, 9), Flat(2, 9), Flat(4, 9), Flat(3, 9), Flat(1, 1), Flat(3, 9), Flat(4, 9)>>,
   <<Flat(3, 9), Flat(2, 9), Flat(2, 9), Flat(2, 1), Flat(3, 1), Flat(4, 9)>>,
   <<Flat(1, 1), Flat(3, 1), EmptyBook>>}
MCOpenings == {[cash |-> 24, assets |-> 4], [cash |-> 12, assets |-> 0]}
=============================================================================
