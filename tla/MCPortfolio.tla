----------------------------- MODULE MCPortfolio -----------------------------
EXTENDS Metrics

Fill(a, p) == [amount |-> a, price |-> p]

MCFillLists == {<<Fill(2, 3)>>, <<Fill(3, 1)>>, <<Fill(1, 1), Fill(3, 2)>>}
MCQuotes    == {[bid |-> 1, ask |-> 2], [bid |-> 3, ask |-> 3], [bid |-> 2, ask |-> 2]}
MCSettings  == {5}
MCOpenings  == {[cash |-> 13, assets |-> 0], [cash |-> 7, assets |-> 3]}
=============================================================================
