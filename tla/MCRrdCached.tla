---------------------------- MODULE MCRrdCached -----------------------------
(* RrdCached for TLC.  The threads of a kind are interchangeable; files    *)
(* are not, since flush_old_values visits them in order.                   *)
EXTENDS RrdCached, TLC

Threads == Permutations(Conns) \cup Permutations(QueueThreads)

\* Requests with one value.
One == {<<s>> : s \in Stamps}

\* Requests whose second value moves forward, stays or moves back as well.
Two == One \cup {<<1, 2>>, <<1, 1>>, <<2, 1>>}
=============================================================================
