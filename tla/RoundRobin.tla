----------------------------- MODULE RoundRobin -----------------------------
(***************************************************************************)
(* What the archives of an RRD file promise: each one keeps the rows       *)
(* written last, newest first, as many as it has room for.  Resizing adds  *)
(* unknown rows at the old end, or drops the oldest ones.                  *)
(***************************************************************************)
EXTENDS Integers, Sequences

CONSTANTS RRAs,     \* the archives
          Unknown   \* a row without data

VARIABLE archive

Pushed(a, row) == [k \in 1..Len(a) |-> IF k = 1 THEN row ELSE a[k - 1]]
Grown(a, m) == [k \in 1..(Len(a) + m) |-> IF k <= Len(a) THEN a[k] ELSE Unknown]
Shrunk(a, m) == [k \in 1..(Len(a) - m) |-> a[k]]

Init == \A i \in RRAs : \A k \in 1..Len(archive[i]) : archive[i][k] = Unknown

Becomes(i, a) == archive' = [archive EXCEPT ![i] = a]

\* The new row is whatever the writer gives.
Push(i) == Becomes(i, Pushed(archive[i], archive'[i][1]))
Grow(i) == \E m \in 1..Len(archive'[i]) : Becomes(i, Grown(archive[i], m))
Shrink(i) == \E m \in 1..(Len(archive[i]) - 1) : Becomes(i, Shrunk(archive[i], m))

Next == \E i \in RRAs : Push(i) \/ Grow(i) \/ Shrink(i)

Spec == Init /\ [][Next]_archive
=============================================================================
