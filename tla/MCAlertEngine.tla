---------------------------- MODULE MCAlertEngine -----------------------------
EXTENDS AlertEngine

Price(breed, avg, created) ==
    [cate |-> "fruit", breed |-> breed, region |-> "wuhan", avg |-> avg, created |-> created]

MCPriceValues == {Price("pear", 5, 1), Price("pear", 9, 0), Price("fig", 2, 2)}

\* Nothing, as shipped; a pear that trebles while a fig halves; two that swing.
MCFeeds ==
    {[prices |-> <<>>, history |-> <<>>],
     [prices |-> <<Price("pear", 9, 1), Price("fig", 2, 1)>>,
      history |-> <<Price("pear", 3, 0), Price("fig", 4, 0)>>],
     [prices |-> <<>>,
      history |-> <<Price("pear", 1, 0), Price("fig", 9, 0), Price("pear", 9, 0), Price("fig", 1, 0)>>]}
==============================================================================
