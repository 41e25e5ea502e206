----------------------------- MODULE WriteQueue -----------------------------
(***************************************************************************)
(* What the update queue of rrdcached promises: a duplicate-free sequence  *)
(* of files that have cached values.  FLUSH puts a file at the head, a     *)
(* file that became old is put at the tail and keeps its place, the update *)
(* threads take the head, and FORGET takes a file out of the middle.       *)
(***************************************************************************)
EXTENDS QueueOps

CONSTANT Files          \* the names of the cached RRD files

VARIABLES queue,        \* the files waiting for an update thread, head first
          filled        \* the files whose cache entry holds values

vars == <<queue, filled>>

Init == queue = <<>> /\ filled = {}

\* A value arrives for f.
Fill(f) == filled' = filled \cup {f} /\ UNCHANGED queue

\* A file without values is never enqueued.
PutHead(f) ==
    /\ f \in filled
    /\ queue' = AtHead(queue, f)
    /\ UNCHANGED filled

PutTail(f) ==
    /\ f \in filled
    /\ queue' = AtTail(queue, f)
    /\ UNCHANGED filled

\* An update thread takes the first file and its values.
Take ==
    /\ queue # <<>>
    /\ filled' = filled \ {Head(queue)}
    /\ queue' = Tail(queue)

\* The values of f are dropped, wherever f is in the queue.
Drop(f) ==
    /\ filled' = filled \ {f}
    /\ queue' = Without(queue, f)

Next == Take \/ \E f \in Files : Fill(f) \/ PutHead(f) \/ PutTail(f) \/ Drop(f)

Spec == Init /\ [][Next]_vars
=============================================================================
