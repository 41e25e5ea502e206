------------------------------ MODULE RrdCache ------------------------------
(***************************************************************************)
(* The cache of rrdcached: the tree of cache items and the update queue,   *)
(* all of it protected by cache_lock.  This module holds the state and the *)
(* operations; RrdCached says which thread performs them and when.         *)
(*                                                                         *)
(* A value is represented by its time stamp.  Time is kept relative to     *)
(* now, so that it needs no bound: age[f] is now - ci->last_flush_time,    *)
(* cut off where no comparison of the code can tell the difference.        *)
(***************************************************************************)
EXTENDS RrdTypes, QueueOps, Integers

CONSTANTS
    WriteInterval,  \* config_write_interval (-w)
    FlushInterval,  \* config_flush_interval (-f)
    WriteJitter,    \* config_write_jitter (-z)
    MaxLag          \* how far the `now' of a request can lag behind the clock

ASSUME CacheAssumption ==
    /\ WriteInterval \in Nat \ {0} /\ FlushInterval \in Nat \ {0}
    /\ WriteJitter \in Nat /\ MaxLag \in Nat

VARIABLES
    tree,           \* cache_tree: the files that have a cache item
    values,         \* ci->values
    lastStamp,      \* ci->last_update_stamp
    age,            \* now - ci->last_flush_time
    waited,         \* history: how long the oldest unqueued value has waited
    queue           \* cache_queue_head .. cache_queue_tail

cacheVars == <<tree, values, lastStamp, age, waited, queue>>

\* Ages at and beyond the cap answer every comparison alike.
AgeCap == WriteInterval + FlushInterval + MaxLag

\* The youngest an item can be: last_flush_time may lie in the future.
MinAge == IF WriteJitter > 0 THEN -(WriteJitter - 1) ELSE 0

\* The longest a value may sit in the cache before it is queued.
StalenessBound == WriteInterval + FlushInterval - 1 - MinAge

Older(a, cap) == IF a < cap THEN a + 1 ELSE a

CacheTypeOK ==
    /\ tree \subseteq Files
    /\ values \in [Files -> Seq(Stamps)]
    /\ lastStamp \in [Files -> Stamps \cup {0}]
    /\ age \in [Files -> MinAge .. AgeCap]
    /\ waited \in [Files -> 0 .. StalenessBound + 1]
    /\ queue \in Seq(Files)

CacheInit ==
    /\ tree = {}
    /\ values = [f \in Files |-> <<>>]
    /\ lastStamp = [f \in Files |-> 0]
    /\ age = [f \in Files |-> 0]
    /\ waited = [f \in Files |-> 0]
    /\ queue = <<>>

\* The cache of a process that has ended or has just started.
CacheGone ==
    /\ tree' = {}
    /\ values' = [f \in Files |-> <<>>]
    /\ lastStamp' = [f \in Files |-> 0]
    /\ age' = [f \in Files |-> 0]
    /\ waited' = [f \in Files |-> 0]
    /\ queue' = <<>>

\* Time passes for every item; unqueued values wait for the flush thread.
CacheTick(flushThreadRuns) ==
    /\ age' = [f \in Files |-> IF f \in tree THEN Older(age[f], AgeCap) ELSE age[f]]
    /\ waited' = [f \in Files |->
                    IF flushThreadRuns /\ values[f] # <<>> /\ ~InQueue(queue, f)
                    THEN Older(waited[f], StalenessBound + 1) ELSE waited[f]]
    /\ UNCHANGED <<tree, values, lastStamp, queue>>

-----------------------------------------------------------------------------
(* Items                                                                   *)

\* A slip to guard against: the jitter is one second too long.
JitterTooLong == -WriteJitter .. 0

\* wipe_ci_values puts last_flush_time up to WriteJitter - 1 into the future.
FreshAges == MinAge .. 0

\* A new item for f, made by a request whose `now' is lag behind the clock.
AddItem(f, lag) ==
    /\ tree' = tree \cup {f}
    /\ \E a \in FreshAges : age' = [age EXCEPT ![f] = a + lag]
    /\ UNCHANGED <<values, lastStamp, waited, queue>>

\* g_tree_remove and its free_cache_item, for every file of R.
RemoveItems(R, q) ==
    /\ tree' = tree \ R
    /\ values' = [f \in Files |-> IF f \in R THEN <<>> ELSE values[f]]
    /\ lastStamp' = [f \in Files |-> IF f \in R THEN 0 ELSE lastStamp[f]]
    /\ age' = [f \in Files |-> IF f \in R THEN 0 ELSE age[f]]
    /\ waited' = [f \in Files |-> IF f \in R \/ InQueue(q, f) THEN 0 ELSE waited[f]]
    /\ queue' = q

\* A slip to guard against: the freed item is left in the queue.
ForgetQueued(f) == RemoveItems({f}, queue)

ForgetItem(f) == RemoveItems({f}, Without(queue, f))

\* The values leave the item: an update thread takes them, or the journal
\* says during replay that they are in the file already.
TakeValues(f) ==
    /\ values' = [values EXCEPT ![f] = <<>>]
    /\ \E a \in FreshAges : age' = [age EXCEPT ![f] = a]
    /\ waited' = [waited EXCEPT ![f] = 0]
    /\ queue' = Without(queue, f)
    /\ UNCHANGED <<tree, lastStamp>>

-----------------------------------------------------------------------------
(* handle_request_update, the loop over the values                         *)

\* A slip to guard against: a stamp equal to the last one is let through.
NotBackward(stamp, last) == stamp >= last

MovesForward(stamp, last) == stamp > last

\* How many of the values vals are appended to an item whose last stamp is
\* last: the loop returns at the first stamp that does not move forward.
Taken(last, vals) ==
    LET Good(k) == \A i \in 1 .. k :
                      MovesForward(vals[i], IF i = 1 THEN last ELSE vals[i - 1])
    IN  {k \in 0 .. Len(vals) : Good(k) /\ (k < Len(vals) => ~Good(k + 1))}

\* Whether an item is due when the request's `now' lags behind by lag.
Due(f, lag) == age[f] - lag >= WriteInterval

\* The first n of vals are appended.  The early return of a bad stamp skips
\* the check that enqueues an old item.
AppendValues(f, vals, n, lag) ==
    LET newValues == values[f] \o SubSeq(vals, 1, n)
        enqueue   == n = Len(vals) /\ Due(f, lag) /\ newValues # <<>>
    IN  /\ values' = [values EXCEPT ![f] = newValues]
        /\ lastStamp' = [lastStamp EXCEPT ![f] = IF n = 0 THEN @ ELSE vals[n]]
        /\ queue' = IF enqueue THEN AtTail(queue, f) ELSE queue
        /\ waited' = [waited EXCEPT ![f] = IF enqueue THEN 0 ELSE @]
        /\ UNCHANGED <<tree, age>>

\* A journal replay meets f for the first time: the item is made and the first
\* n of vals are appended, all within one second.
AddItemWith(f, vals, n) ==
    /\ tree' = tree \cup {f}
    /\ values' = [values EXCEPT ![f] = SubSeq(vals, 1, n)]
    /\ lastStamp' = [lastStamp EXCEPT ![f] = IF n = 0 THEN 0 ELSE vals[n]]
    /\ \E a \in FreshAges : age' = [age EXCEPT ![f] = a]
    /\ UNCHANGED <<waited, queue>>

\* enqueue_cache_item(ci, HEAD) for an item with values.
PutAtHead(f) ==
    /\ queue' = AtHead(queue, f)
    /\ waited' = [waited EXCEPT ![f] = 0]
    /\ UNCHANGED <<tree, values, lastStamp, age>>

-----------------------------------------------------------------------------
(* flush_old_values and its callback tree_callback_flush                   *)

\* A slip to guard against: an item is purged although it holds values.
PurgeableUnlessQueued(f) == age[f] >= FlushInterval

Purgeable(f) == age[f] >= FlushInterval /\ values[f] = <<>>

\* flush_old_values(-1) looks for last_flush_time <= now + 2 * jitter + 1.
EverythingAge == -(2 * WriteJitter + 1)

\* A slip to guard against: an item that has just reached the age is not old.
TooOldItems(minAge, running) ==
    {f \in tree : /\ ~InQueue(queue, f)
                  /\ values[f] # <<>>
                  /\ age[f] > minAge \/ ~running}

\* The items that are enqueued, when the oldest allowed age is minAge.
OldItems(minAge, running) ==
    {f \in tree : /\ ~InQueue(queue, f)
                  /\ values[f] # <<>>
                  /\ age[f] >= minAge \/ ~running}

\* The items that are purged.
IdleItems(minAge, running) ==
    {f \in tree \ OldItems(minAge, running) : ~InQueue(queue, f) /\ Purgeable(f)}

\* g_tree_foreach visits the files in ascending order.
Ascending(S) ==
    {s \in [1 .. Cardinality(S) -> S] :
        /\ \A i, j \in 1 .. Cardinality(S) : i < j => s[i] < s[j]
        /\ \A f \in S : \E i \in 1 .. Cardinality(S) : s[i] = f}

FlushOldValues(minAge, running) ==
    \E s \in Ascending(OldItems(minAge, running)) :
        RemoveItems(IdleItems(minAge, running), queue \o s)

-----------------------------------------------------------------------------
(* Properties of the cache                                                 *)

\* The assertions of queue_thread_main and enqueue_cache_item: whatever the
\* threads do, a queued file has a cache item with values, and only once.
QueueSound ==
    /\ NoDuplicates(queue)
    /\ \A i \in DOMAIN queue : queue[i] \in tree /\ values[queue[i]] # <<>>

\* The stamps of s increase, up to last.
Forward(s, last) ==
    \A i \in 1 .. Len(s) :
        /\ i > 1 => s[i - 1] < s[i]
        /\ i = Len(s) => s[i] <= last

\* A file without a cache item has no trace of an earlier one, and the values
\* of an item move forward in time up to last_update_stamp.
ItemsSound ==
    /\ \A f \in Files \ tree : values[f] = <<>> /\ lastStamp[f] = 0
    /\ \A f \in Files : Forward(values[f], lastStamp[f])

\* No value waits longer than write interval, flush interval and jitter
\* together before it is queued, even if updates to its file have stopped
\* (the options -w, -f and -z).
StalenessBounded == \A f \in Files : waited[f] <= StalenessBound
=============================================================================
