------------------------------ MODULE MCRrdFile ------------------------------
(* An instance of RrdFetch and RrdFile for TLC.                            *)
EXTENDS RrdFetch

N(n) == [kind |-> "num", num |-> n]
Bad == [kind |-> "bad", num |-> 0]

MCDataSources ==
    <<[type |-> "GAUGE", mrhb |-> 5, min |-> DNAN, max |-> DNAN],
      [type |-> "COUNTER", mrhb |-> 5, min |-> Num(0), max |-> Num(9)],
      [type |-> "DERIVE", mrhb |-> 4, min |-> Num(-2), max |-> DNAN]>>
MCInputs == {<<U, N(3), N(-1)>>, <<N(1), U, N(-2)>>,
             <<N(4), N(1), N(1)>>, <<N(4), Bad, N(2)>>}

RRA(cf, cnt, n) == [cf |-> cf, pdp_cnt |-> cnt, row_cnt |-> n, xff |-> <<1, 2>>]
MCArchives == <<RRA("AVERAGE", 1, 3), RRA("AVERAGE", 2, 2), RRA("MAXIMUM", 3, 2),
                RRA("MINIMUM", 2, 2), RRA("LAST", 2, 2)>>

Wish(cf, start, end, step) == [cf |-> cf, start |-> start, end |-> end, step |-> step]
MCWishes == {Wish("AVERAGE", 3, 13, 1), Wish("AVERAGE", 3, 8, 4), Wish("AVERAGE", 8, 8, 4),
             Wish("AVERAGE", 8, 13, 1), Wish("MAXIMUM", 3, 13, 6)}
=============================================================================
