----------------------------- MODULE CacheQueue -----------------------------
(***************************************************************************)
(* The update queue as rrd_daemon.c keeps it: an intrusive doubly linked   *)
(* list threaded through the cache items, with a head and a tail pointer,  *)
(* a flag in each item and a counter for STATS.  All of it is protected by *)
(* cache_lock, so that each operation is one step.                         *)
(*                                                                         *)
(* The history variable order records the sequence the list is meant to    *)
(* represent; no action reads it.                                          *)
(***************************************************************************)
EXTENDS QueueOps, Integers

CONSTANTS Files,        \* a cache item is identified with its file
          NULL          \* the null pointer

ASSUME NullAssumption == NULL \notin Files

VARIABLES head, tail,   \* cache_queue_head, cache_queue_tail
          next, prev,   \* the links of each item
          flagged,      \* the items with CI_FLAGS_IN_QUEUE
          filled,       \* the items with values_num > 0
          length,       \* stats_queue_length
          order         \* history: the represented sequence

links == <<head, tail, next, prev, flagged, length>>
vars == <<links, filled, order>>

WQ == INSTANCE WriteQueue WITH queue <- order

Pointers == Files \cup {NULL}

TypeOK ==
    /\ head \in Pointers /\ tail \in Pointers
    /\ next \in [Files -> Pointers] /\ prev \in [Files -> Pointers]
    /\ flagged \subseteq Files /\ filled \subseteq Files
    /\ length \in Nat
    /\ order \in Seq(Files)

Init ==
    /\ head = NULL /\ tail = NULL
    /\ next = [f \in Files |-> NULL] /\ prev = [f \in Files |-> NULL]
    /\ flagged = {} /\ filled = {}
    /\ length = 0
    /\ order = <<>>

\* The list a queue operation works on.
List == [head |-> head, tail |-> tail, next |-> next, prev |-> prev,
         flagged |-> flagged, length |-> length]

-----------------------------------------------------------------------------
(* remove_from_queue(ci), as a function from a list to a list              *)

\* A slip to guard against: the tail is left alone when the last item goes.
UnlinkKeepsTail(l, ci) ==
    [head |-> IF l.prev[ci] = NULL THEN l.next[ci] ELSE l.head,
     tail |-> l.tail,
     next |-> [f \in Files |-> IF f = ci THEN NULL
                               ELSE IF f = l.prev[ci] THEN l.next[ci]
                               ELSE l.next[f]],
     prev |-> [f \in Files |-> IF f = ci THEN NULL
                               ELSE IF f = l.next[ci] THEN l.prev[ci]
                               ELSE l.prev[f]],
     flagged |-> l.flagged \ {ci},
     length |-> l.length - 1]

Unlink(l, ci) ==
    [head |-> IF l.prev[ci] = NULL THEN l.next[ci] ELSE l.head,
     tail |-> IF l.next[ci] = NULL THEN l.prev[ci] ELSE l.tail,
     next |-> [f \in Files |-> IF f = ci THEN NULL
                               ELSE IF f = l.prev[ci] THEN l.next[ci]
                               ELSE l.next[f]],
     prev |-> [f \in Files |-> IF f = ci THEN NULL
                               ELSE IF f = l.next[ci] THEN l.prev[ci]
                               ELSE l.prev[f]],
     flagged |-> l.flagged \ {ci},
     length |-> l.length - 1]

RemoveFromQueue(l, ci) == IF ci \in l.flagged THEN Unlink(l, ci) ELSE l

-----------------------------------------------------------------------------
(* The two sides of enqueue_cache_item                                     *)

\* Links an item that is not in the list in front of the head.
LinkHead(l, ci) ==
    [head |-> ci,
     tail |-> IF l.tail = NULL THEN ci ELSE l.tail,
     next |-> [l.next EXCEPT ![ci] = l.head],
     prev |-> [f \in Files |-> IF f = ci THEN NULL
                               ELSE IF f = l.head THEN ci
                               ELSE l.prev[f]],
     flagged |-> l.flagged \cup {ci},
     length |-> l.length + 1]

\* A slip to guard against: the item stays linked further down as well.
PushHeadUnremoved(l, ci) == LinkHead(l, ci)

PushHead(l, ci) == LinkHead(RemoveFromQueue(l, ci), ci)

PushTail(l, ci) ==
    [head |-> IF l.tail = NULL THEN ci ELSE l.head,
     tail |-> ci,
     next |-> [f \in Files |-> IF f = l.tail THEN ci ELSE l.next[f]],
     prev |-> [l.prev EXCEPT ![ci] = l.tail],
     flagged |-> l.flagged \cup {ci},
     length |-> l.length + 1]

Becomes(l) ==
    /\ head' = l.head /\ tail' = l.tail
    /\ next' = l.next /\ prev' = l.prev
    /\ flagged' = l.flagged
    /\ length' = l.length

-----------------------------------------------------------------------------
(* Actions                                                                 *)

\* handle_request_update appends a value to the item.
AddValue(ci) ==
    /\ filled' = filled \cup {ci}
    /\ UNCHANGED <<links, order>>

\* enqueue_cache_item(ci, HEAD), called by flush_file.
EnqueueHead(ci) ==
    /\ ci \in filled
    /\ head # ci
    /\ Becomes(PushHead(List, ci))
    /\ order' = AtHead(order, ci)
    /\ UNCHANGED filled

\* enqueue_cache_item(ci, TAIL), called for old values.
EnqueueTail(ci) ==
    /\ ci \in filled
    /\ ci \notin flagged
    /\ Becomes(PushTail(List, ci))
    /\ order' = AtTail(order, ci)
    /\ UNCHANGED filled

\* The early returns of enqueue_cache_item: no values, or nothing to move.
EnqueueNothing(ci) ==
    /\ ci \notin filled \/ head = ci \/ ci \in flagged
    /\ UNCHANGED vars

\* queue_thread_main takes the values of the head and unlinks it.
Dequeue ==
    /\ head # NULL
    /\ filled' = filled \ {head}
    /\ Becomes(RemoveFromQueue(List, head))
    /\ order' = Tail(order)

\* free_cache_item (FORGET and the purge) and handle_request_wrote.
Forget(ci) ==
    /\ filled' = filled \ {ci}
    /\ Becomes(RemoveFromQueue(List, ci))
    /\ order' = Without(order, ci)

Next ==
    \/ Dequeue
    \/ \E ci \in Files : \/ AddValue(ci)
                         \/ EnqueueHead(ci)
                         \/ EnqueueTail(ci)
                         \/ EnqueueNothing(ci)
                         \/ Forget(ci)

Spec == Init /\ [][Next]_vars

-----------------------------------------------------------------------------
(* Properties                                                              *)

\* The pointers, the flags and the counter of the list represent one and the
\* same sequence of distinct items: following next from cache_queue_head, or
\* prev from cache_queue_tail, meets exactly the items flagged as queued, and
\* an item outside the queue has no links left (the assertions of
\* enqueue_cache_item).
ListSound ==
    /\ NoDuplicates(order)
    /\ head = IF order = <<>> THEN NULL ELSE order[1]
    /\ tail = IF order = <<>> THEN NULL ELSE order[Len(order)]
    /\ \A f \in Files : f \in flagged <=> InQueue(order, f)
    /\ \A f \in Files \ flagged : next[f] = NULL /\ prev[f] = NULL
    /\ \A i \in DOMAIN order :
          /\ next[order[i]] = IF i = Len(order) THEN NULL ELSE order[i + 1]
          /\ prev[order[i]] = IF i = 1 THEN NULL ELSE order[i - 1]
    /\ \A f \in flagged : f \in filled

\* The linked list implements the abstract queue.
Refinement == WQ!Spec
=============================================================================
