------------------------------ MODULE QueueOps ------------------------------
(***************************************************************************)
(* The operations of rrdcached's update queue on sequences of files.  They *)
(* are used by WriteQueue, which says what the queue promises and which    *)
(* the linked list of CacheQueue implements, and by RrdCached, the model   *)
(* of the whole daemon.                                                    *)
(***************************************************************************)
EXTENDS Naturals, Sequences

InQueue(q, f) == \E i \in DOMAIN q : q[i] = f

\* Every file is queued at most once (the CI_FLAGS_IN_QUEUE flag).
NoDuplicates(q) == \A i, j \in DOMAIN q : q[i] = q[j] => i = j

DropIndex(q, i) == SubSeq(q, 1, i - 1) \o SubSeq(q, i + 1, Len(q))

\* remove_from_queue: nothing happens to a file that is not queued.
Without(q, f) ==
    IF InQueue(q, f) THEN DropIndex(q, CHOOSE i \in DOMAIN q : q[i] = f) ELSE q

\* enqueue_cache_item(ci, HEAD): moves the file up if it is further down.
AtHead(q, f) == <<f>> \o Without(q, f)

\* enqueue_cache_item(ci, TAIL): a queued file is not moved back.
AtTail(q, f) == IF InQueue(q, f) THEN q ELSE Append(q, f)
=============================================================================
