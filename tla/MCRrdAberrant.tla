--------------------------- MODULE MCRrdAberrant ----------------------------
(* RrdAberrant for TLC.  Files with DEVPREDICT at one end, HWPREDICT before *)
(* or after SEASONAL, FAILURES not between SEASONAL and DEVSEASONAL.       *)
EXTENDS RrdAberrant
LOCAL INSTANCE SequencesExt

HWFirst == <<HW, SEA, DEV, DEVP, FAIL>>
MCOrders ==
    {o \in SetToSeqs(CFs) :
       LET at(c) == CHOOSE i \in 1..5 : o[i] = c
       IN  /\ (at(FAIL) < at(SEA)) = (at(FAIL) < at(DEV))
           /\ at(DEVP) = IF at(SEA) < at(HW) THEN 1 ELSE 5}
MCAberrantFiles ==
    {[order |-> o, method |-> m, offset |-> 0, smooth_idx |-> 0, init |-> 1,
      window |-> <<2, 2>>, known |-> m # "additive"] :
         o \in MCOrders, m \in {"additive", "multiplicative"}}
    \cup {[order |-> o, method |-> "additive", offset |-> 0, smooth_idx |-> 0, init |-> 1,
           window |-> <<2, 2>>, known |-> TRUE] : o \in MCOrders}
    \cup {[order |-> o, method |-> "additive", offset |-> 1, smooth_idx |-> x, init |-> i,
           window |-> <<2, 1>>, known |-> FALSE] :
         o \in {HWFirst, Reverse(HWFirst)}, x \in {0, 1}, i \in {1, 3}}
MCObserved == {DNAN, Num(1), Num(3)}
=============================================================================
