-------------------------- MODULE RrdCachedProofs ---------------------------
(***************************************************************************)
(* What the checks of the daemon show on small instances, proved for any   *)
(* number of files, connections and update threads, for all intervals and  *)
(* for any number of signals, crashes and restarts.                        *)
(***************************************************************************)
EXTENDS RrdCached, QueueLemmas, FiniteSetTheorems

-----------------------------------------------------------------------------
(* The cache: what its operations keep, whichever thread performs them     *)

\* What holds of the cache whenever cache_lock is free.
CacheInv == CacheTypeOK /\ QueueSound /\ ItemsSound

\* What a thread may do to the cache.
CacheOp ==
    \/ UNCHANGED cacheVars
    \/ CacheGone
    \/ \E f \in Files \ tree, lag \in 0 .. MaxLag : AddItem(f, lag)
    \/ \E f \in tree : ForgetItem(f) \/ TakeValues(f)
    \/ \E f \in tree, vals \in Seq(Stamps), lag \in 0 .. MaxLag :
          \E n \in Taken(lastStamp[f], vals) : AppendValues(f, vals, n, lag)
    \/ \E f \in Files \ tree, vals \in Seq(Stamps) :
          \E n \in Taken(0, vals) : AddItemWith(f, vals, n)
    \/ \E f \in tree : values[f] # <<>> /\ PutAtHead(f)
    \/ \E minAge \in Int, running \in BOOLEAN : FlushOldValues(minAge, running)

\* What a step of the daemon may do to the cache.
CacheStep == CacheOp \/ \E b \in BOOLEAN : CacheTick(b)

\* How long a value has waited, as far as the cache knows it: values of queued
\* files do not wait, and no value has waited longer than its item is old.
WaitsSound ==
    \A f \in Files :
        /\ values[f] = <<>> \/ InQueue(queue, f) => waited[f] = 0
        /\ age[f] < AgeCap => waited[f] <= age[f] - MinAge

-----------------------------------------------------------------------------
(* Arithmetic of the ages.                                                 *)
LEMMA AgeFacts ==
    /\ MinAge \in Int /\ MinAge <= 0
    /\ AgeCap \in Nat /\ MaxLag <= AgeCap
    /\ StalenessBound + 1 \in Nat
    /\ FreshAges = MinAge .. 0
    /\ 0 \in MinAge .. AgeCap
    /\ 0 \in 0 .. StalenessBound + 1
<1>1. MinAge \in Int /\ MinAge <= 0
  BY CacheAssumption DEF MinAge
<1>2. AgeCap \in Nat /\ MaxLag <= AgeCap
  BY CacheAssumption DEF AgeCap
<1>3. StalenessBound + 1 \in Nat
  BY <1>1, CacheAssumption DEF StalenessBound
<1> QED BY <1>1, <1>2, <1>3 DEF FreshAges

(* Ageing stays within the bounds of an age.                               *)
LEMMA OlderFacts ==
    ASSUME NEW lo \in Int, NEW hi \in Int, NEW a \in lo .. hi
    PROVE  Older(a, hi) \in lo .. hi
BY DEF Older

(* Stamps are natural numbers.                                             *)
LEMMA StampsAreNumbers == \A s \in Stamps \cup {0} : s \in Nat
BY TypesAssumption

(* QueueSound in terms of InQueue.                                         *)
LEMMA QueuedItems ==
    ASSUME NEW q, NEW t, NEW v
    PROVE  (\A i \in DOMAIN q : q[i] \in t /\ v[q[i]] # <<>>)
           <=> (\A g : InQueue(q, g) => g \in t /\ v[g] # <<>>)
BY DEF InQueue

(* The stamps that handle_request_update appends move on from the last.    *)
LEMMA TakenFacts ==
    ASSUME NEW last \in Nat, NEW vals \in Seq(Stamps), NEW n \in Taken(last, vals)
    PROVE  /\ n \in 0 .. Len(vals)
           /\ \A i \in 1 .. n : /\ vals[i] \in Stamps
                                /\ vals[i] > IF i = 1 THEN last ELSE vals[i - 1]
BY DEF Taken, MovesForward

(* Appending what handle_request_update takes keeps an item in order.      *)
LEMMA AppendedForward ==
    ASSUME NEW s \in Seq(Stamps), NEW last \in Stamps \cup {0}, Forward(s, last),
           NEW vals \in Seq(Stamps), NEW n \in Taken(last, vals)
    PROVE  /\ s \o SubSeq(vals, 1, n) \in Seq(Stamps)
           /\ (IF n = 0 THEN last ELSE vals[n]) \in Stamps \cup {0}
           /\ Forward(s \o SubSeq(vals, 1, n), IF n = 0 THEN last ELSE vals[n])
<1>1. last \in Nat /\ Stamps \subseteq Nat
  BY TypesAssumption
<1>2. /\ n \in 0 .. Len(vals)
      /\ \A i \in 1 .. n : /\ vals[i] \in Stamps
                           /\ vals[i] > IF i = 1 THEN last ELSE vals[i - 1]
  BY <1>1, TakenFacts
<1> DEFINE t == SubSeq(vals, 1, n)
<1>3. t \in Seq(Stamps) /\ Len(t) = n /\ \A i \in 1 .. n : t[i] = vals[i]
  BY <1>2
<1> DEFINE r == s \o t
<1>4. /\ r \in Seq(Stamps) /\ Len(r) = Len(s) + n
      /\ \A i \in 1 .. Len(s) + n : r[i] = IF i <= Len(s) THEN s[i] ELSE t[i - Len(s)]
  <2> HIDE DEF t
  <2> QED BY <1>3, ConcatProperties
<1> HIDE DEF r, t
<1>5. (IF n = 0 THEN last ELSE vals[n]) \in Stamps \cup {0}
  BY <1>2
<1>6. Len(s) \in Nat /\ \A i \in 1 .. Len(s) : s[i] \in Stamps
  OBVIOUS
<1>7. ASSUME NEW i \in 1 .. Len(s) + n, i > 1 PROVE r[i - 1] < r[i]
  <2>1. CASE i <= Len(s)
    BY <2>1, <1>4, <1>6, <1>7 DEF Forward
  <2>2. CASE i = Len(s) + 1
    <3>1. i - 1 = Len(s) /\ Len(s) \in 1 .. Len(s) /\ i - Len(s) = 1 /\ 1 \in 1 .. n
      BY <2>2, <1>6, <1>7, <1>2
    <3>2. r[i] = vals[1] /\ r[i - 1] = s[Len(s)]
      BY <3>1, <1>4, <1>3, <1>6, <1>7
    <3>3. s[Len(s)] <= last /\ vals[1] > last
      BY <3>1, <1>2 DEF Forward
    <3>4. s[Len(s)] \in Nat /\ vals[1] \in Nat
      BY <3>1, <1>1, <1>2, <1>6
    <3> QED BY <3>2, <3>3, <3>4, <1>1
  <2>3. CASE i > Len(s) + 1
    <3> DEFINE k == i - Len(s)
    <3>1. k \in 1 .. n /\ k - 1 \in 1 .. n /\ k # 1 /\ (i - 1) - Len(s) = k - 1
      BY <2>3, <1>6, <1>2
    <3>2. r[i] = vals[k] /\ r[i - 1] = vals[k - 1]
      BY <3>1, <1>4, <1>3, <1>6, <1>7, <2>3
    <3> QED BY <3>1, <3>2, <1>1, <1>2
  <2> QED BY <2>1, <2>2, <2>3, <1>6, <1>2
<1>8. ASSUME NEW i \in 1 .. Len(s) + n, i = Len(s) + n
      PROVE  r[i] <= IF n = 0 THEN last ELSE vals[n]
  <2>1. CASE n = 0
    BY <2>1, <1>4, <1>6, <1>8 DEF Forward
  <2>2. CASE n # 0
    <3>1. r[i] = vals[n] /\ vals[n] \in Nat
      <4>1. i - Len(s) = n /\ ~(i <= Len(s)) /\ n \in 1 .. n
        BY <2>2, <1>2, <1>6, <1>8
      <4> QED BY <4>1, <1>1, <1>2, <1>3, <1>4
    <3> QED BY <3>1, <2>2
  <2> QED BY <2>1, <2>2
<1>9. Forward(r, IF n = 0 THEN last ELSE vals[n])
  BY <1>4, <1>7, <1>8 DEF Forward
<1> QED BY <1>4, <1>5, <1>9 DEF r, t

-----------------------------------------------------------------------------
(* The operations, one by one.                                             *)

(* Items leave the cache, and the queue becomes q.                         *)
LEMMA RemoveItemsKeeps ==
    ASSUME CacheInv, NEW R \in SUBSET Files, NEW q \in Seq(Files), NoDuplicates(q),
           \A g : InQueue(q, g) => g \in tree /\ g \notin R /\ values[g] # <<>>,
           RemoveItems(R, q)
    PROVE  CacheInv'
<1> USE DEF CacheInv, RemoveItems
<1>1. CacheTypeOK'
  BY AgeFacts DEF CacheTypeOK
<1>2. \A g : InQueue(q, g) => g \in tree' /\ values'[g] # <<>>
  BY DEF CacheTypeOK
<1>3. QueueSound'
  BY <1>2 DEF QueueSound, InQueue
<1>4. ItemsSound'
  <2>1. ASSUME NEW f \in Files \ tree' PROVE values'[f] = <<>> /\ lastStamp'[f] = 0
    BY DEF ItemsSound
  <2>2. ASSUME NEW f \in Files PROVE Forward(values'[f], lastStamp'[f])
    <3>1. CASE f \in R
      BY <3>1 DEF Forward
    <3>2. CASE f \notin R
      BY <3>2 DEF ItemsSound
    <3> QED BY <3>1, <3>2
  <2> QED BY <2>1, <2>2 DEF ItemsSound
<1> QED BY <1>1, <1>3, <1>4

(* FORGET.                                                                 *)
LEMMA ForgetItemKeeps ==
    ASSUME CacheInv, NEW f \in tree, ForgetItem(f)
    PROVE  CacheInv'
<1>1. /\ Without(queue, f) \in Seq(Files) /\ NoDuplicates(Without(queue, f))
      /\ \A g : InQueue(Without(queue, f), g) <=> InQueue(queue, g) /\ g # f
  BY WithoutKeeps DEF CacheInv, CacheTypeOK, QueueSound
<1>2. \A g : InQueue(queue, g) => g \in tree /\ values[g] # <<>>
  BY QueuedItems DEF CacheInv, QueueSound
<1>3. {f} \in SUBSET Files
  BY DEF CacheInv, CacheTypeOK
<1> QED BY <1>1, <1>2, <1>3, RemoveItemsKeeps DEF ForgetItem

(* An update thread takes the values of an item.                           *)
LEMMA TakeValuesKeeps ==
    ASSUME CacheInv, NEW f \in tree, TakeValues(f)
    PROVE  CacheInv'
<1>1. /\ Without(queue, f) \in Seq(Files) /\ NoDuplicates(Without(queue, f))
      /\ \A g : InQueue(Without(queue, f), g) <=> InQueue(queue, g) /\ g # f
  BY WithoutKeeps DEF CacheInv, CacheTypeOK, QueueSound
<1>2. CacheTypeOK'
  BY <1>1, AgeFacts DEF CacheInv, CacheTypeOK, TakeValues
<1>3. \A g : InQueue(queue, g) => g \in tree /\ values[g] # <<>>
  BY QueuedItems DEF CacheInv, QueueSound
<1>4. \A g : InQueue(queue', g) => g \in tree' /\ values'[g] # <<>>
  BY <1>1, <1>3 DEF CacheInv, CacheTypeOK, TakeValues
<1>5. QueueSound'
  BY <1>1, <1>4 DEF QueueSound, TakeValues, InQueue
<1>6. ItemsSound'
  BY DEF CacheInv, CacheTypeOK, ItemsSound, Forward, TakeValues
<1> QED BY <1>2, <1>5, <1>6 DEF CacheInv

(* UPDATE makes a new item.                                                *)
LEMMA AddItemKeeps ==
    ASSUME CacheInv, NEW f \in Files \ tree, NEW lag \in 0 .. MaxLag, AddItem(f, lag)
    PROVE  CacheInv'
<1>1. PICK a \in MinAge .. 0 : age' = [age EXCEPT ![f] = a + lag]
  BY AgeFacts DEF AddItem
<1>2. a + lag \in MinAge .. AgeCap
  BY AgeFacts, CacheAssumption
<1>3. CacheTypeOK'
  BY <1>1, <1>2 DEF CacheInv, CacheTypeOK, AddItem
<1>4. QueueSound' /\ ItemsSound'
  BY DEF CacheInv, QueueSound, ItemsSound, AddItem
<1> QED BY <1>3, <1>4 DEF CacheInv

(* A replayed UPDATE makes a new item with values.                         *)
LEMMA AddItemWithKeeps ==
    ASSUME CacheInv, NEW f \in Files \ tree, NEW vals \in Seq(Stamps),
           NEW n \in Taken(0, vals), AddItemWith(f, vals, n)
    PROVE  CacheInv'
<1> DEFINE last == IF n = 0 THEN 0 ELSE vals[n]
           new  == SubSeq(vals, 1, n)
<1>1. new \in Seq(Stamps) /\ last \in Stamps \cup {0} /\ Forward(new, last)
  <2>1. <<>> \in Seq(Stamps) /\ Forward(<<>>, 0)
    BY DEF Forward
  <2>2. /\ <<>> \o new \in Seq(Stamps) /\ last \in Stamps \cup {0}
        /\ Forward(<<>> \o new, last)
    BY <2>1, AppendedForward
  <2>3. new \in Seq(Stamps)
    BY TakenFacts
  <2>4. <<>> \o new = new
    BY <2>3, ConcatEmptySeq
  <2> QED BY <2>2, <2>4
<1>2. values' = [values EXCEPT ![f] = new] /\ lastStamp' = [lastStamp EXCEPT ![f] = last]
  BY DEF AddItemWith
<1> HIDE DEF last, new
<1>3. PICK a \in MinAge .. 0 : age' = [age EXCEPT ![f] = a]
  BY AgeFacts DEF AddItemWith
<1>4. a \in MinAge .. AgeCap
  BY AgeFacts
<1>5. CacheTypeOK'
  <2>1. /\ values' \in [Files -> Seq(Stamps)]
        /\ lastStamp' \in [Files -> Stamps \cup {0}]
    BY <1>1, <1>2 DEF CacheInv, CacheTypeOK
  <2>2. age' \in [Files -> MinAge .. AgeCap]
    BY <1>3, <1>4 DEF CacheInv, CacheTypeOK
  <2> QED BY <2>1, <2>2 DEF CacheInv, CacheTypeOK, AddItemWith
<1>6. \A g : InQueue(queue, g) => g \in tree /\ values[g] # <<>>
  BY QueuedItems DEF CacheInv, QueueSound
<1>7. \A g : InQueue(queue', g) => g \in tree' /\ values'[g] # <<>>
  BY <1>2, <1>6 DEF CacheInv, CacheTypeOK, AddItemWith
<1>8. QueueSound'
  <2>1. NoDuplicates(queue')
    BY DEF CacheInv, QueueSound, AddItemWith
  <2> QED BY <2>1, <1>7 DEF QueueSound, InQueue
<1>9. ItemsSound'
  BY <1>1, <1>2 DEF CacheInv, CacheTypeOK, ItemsSound, AddItemWith
<1> QED BY <1>5, <1>8, <1>9 DEF CacheInv

(* UPDATE appends values and enqueues an item that is due.                 *)
LEMMA AppendValuesKeeps ==
    ASSUME CacheInv, NEW f \in tree, NEW vals \in Seq(Stamps), NEW lag \in 0 .. MaxLag,
           NEW n \in Taken(lastStamp[f], vals), AppendValues(f, vals, n, lag)
    PROVE  CacheInv'
<1> DEFINE last == IF n = 0 THEN lastStamp[f] ELSE vals[n]
           new  == values[f] \o SubSeq(vals, 1, n)
<1>0. f \in Files
  BY DEF CacheInv, CacheTypeOK
<1>1. new \in Seq(Stamps) /\ last \in Stamps \cup {0} /\ Forward(new, last)
  BY <1>0, AppendedForward DEF CacheInv, CacheTypeOK, ItemsSound
<1>2. /\ values' = [values EXCEPT ![f] = new]
      /\ lastStamp' = [lastStamp EXCEPT ![f] = last]
      /\ UNCHANGED <<tree, age>>
      /\ \/ UNCHANGED queue /\ waited' = [waited EXCEPT ![f] = @]
         \/ /\ queue' = AtTail(queue, f) /\ new # <<>>
            /\ waited' = [waited EXCEPT ![f] = 0]
  BY DEF AppendValues
<1>3. new = <<>> => values[f] = <<>>
  <2>1. SubSeq(vals, 1, n) \in Seq(Stamps)
    <3>1. lastStamp[f] \in Nat
      <4>1. lastStamp[f] \in Stamps \cup {0}
        BY <1>0 DEF CacheInv, CacheTypeOK
      <4> QED BY <4>1, StampsAreNumbers
    <3> QED BY <3>1, TakenFacts
  <2>2. values[f] \in Seq(Stamps)
    BY <1>0 DEF CacheInv, CacheTypeOK
  <2> QED BY <2>1, <2>2, ConcatSimplifications
<1> HIDE DEF last, new
<1>4. /\ AtTail(queue, f) \in Seq(Files) /\ NoDuplicates(AtTail(queue, f))
      /\ \A g : InQueue(AtTail(queue, f), g) <=> InQueue(queue, g) \/ g = f
  BY <1>0, AtTailKeeps DEF CacheInv, CacheTypeOK, QueueSound
<1>5. CacheTypeOK'
  <2>1. /\ values' \in [Files -> Seq(Stamps)]
        /\ lastStamp' \in [Files -> Stamps \cup {0}]
    BY <1>0, <1>1, <1>2 DEF CacheInv, CacheTypeOK
  <2>2. waited' \in [Files -> 0 .. StalenessBound + 1]
    BY <1>0, <1>2, AgeFacts DEF CacheInv, CacheTypeOK
  <2> QED BY <2>1, <2>2, <1>2, <1>4 DEF CacheInv, CacheTypeOK
<1>6. \A g : InQueue(queue, g) => g \in tree /\ values[g] # <<>>
  BY QueuedItems DEF CacheInv, QueueSound
<1>7. \A g : InQueue(queue', g) => g \in tree' /\ values'[g] # <<>>
  BY <1>0, <1>2, <1>3, <1>4, <1>6 DEF CacheInv, CacheTypeOK
<1>8. QueueSound'
  <2>1. NoDuplicates(queue')
    BY <1>2, <1>4 DEF CacheInv, QueueSound
  <2> QED BY <2>1, <1>7 DEF QueueSound, InQueue
<1>9. ItemsSound'
  BY <1>0, <1>1, <1>2 DEF CacheInv, CacheTypeOK, ItemsSound
<1> QED BY <1>5, <1>8, <1>9 DEF CacheInv

(* FLUSH moves a file to the head of the queue.                            *)
LEMMA PutAtHeadKeeps ==
    ASSUME CacheInv, NEW f \in tree, values[f] # <<>>, PutAtHead(f)
    PROVE  CacheInv'
<1>0. f \in Files
  BY DEF CacheInv, CacheTypeOK
<1>1. /\ AtHead(queue, f) \in Seq(Files) /\ NoDuplicates(AtHead(queue, f))
      /\ \A g : InQueue(AtHead(queue, f), g) <=> InQueue(queue, g) \/ g = f
  BY <1>0, AtHeadKeeps DEF CacheInv, CacheTypeOK, QueueSound
<1>2. CacheTypeOK'
  BY <1>0, <1>1, AgeFacts DEF CacheInv, CacheTypeOK, PutAtHead
<1>3. \A g : InQueue(queue, g) => g \in tree /\ values[g] # <<>>
  BY QueuedItems DEF CacheInv, QueueSound
<1>4. \A g : InQueue(queue', g) => g \in tree' /\ values'[g] # <<>>
  BY <1>1, <1>3 DEF PutAtHead
<1>5. QueueSound'
  BY <1>1, <1>4 DEF QueueSound, InQueue, PutAtHead
<1>6. ItemsSound'
  BY DEF CacheInv, ItemsSound, PutAtHead
<1> QED BY <1>2, <1>5, <1>6 DEF CacheInv

(* Time passes.                                                            *)
LEMMA CacheTickKeeps ==
    ASSUME CacheInv, NEW b \in BOOLEAN, CacheTick(b)
    PROVE  CacheInv'
<1>1. age' \in [Files -> MinAge .. AgeCap]
  BY AgeFacts, OlderFacts DEF CacheInv, CacheTypeOK, CacheTick
<1>2. waited' \in [Files -> 0 .. StalenessBound + 1]
  <2>1. ASSUME NEW f \in Files
        PROVE  Older(waited[f], StalenessBound + 1) \in 0 .. StalenessBound + 1
    BY AgeFacts, OlderFacts DEF CacheInv, CacheTypeOK
  <2> QED BY <2>1 DEF CacheInv, CacheTypeOK, CacheTick
<1>3. CacheTypeOK'
  BY <1>1, <1>2 DEF CacheInv, CacheTypeOK, CacheTick
<1>4. QueueSound' /\ ItemsSound'
  BY DEF CacheInv, QueueSound, ItemsSound, CacheTick
<1> QED BY <1>3, <1>4 DEF CacheInv

(* The empty cache is sound.                                               *)
LEMMA CacheGoneKeeps == CacheInit => CacheInv
BY AgeFacts DEF CacheInit, CacheInv, CacheTypeOK, QueueSound, ItemsSound, Forward,
                NoDuplicates

(* The files in the order in which g_tree_foreach visits them.             *)
LEMMA AscendingFacts ==
    ASSUME NEW S \in SUBSET Files, NEW s \in Ascending(S)
    PROVE  /\ s \in Seq(Files) /\ NoDuplicates(s)
           /\ \A g : InQueue(s, g) <=> g \in S
<1> DEFINE n == Cardinality(S)
<1>1. n \in Nat
  <2>1. IsFiniteSet(S)
    BY TypesAssumption, FS_Subset
  <2> QED BY <2>1, FS_CardinalityType
<1>2. /\ s \in [1 .. n -> S]
      /\ \A i, j \in 1 .. n : i < j => s[i] < s[j]
      /\ \A f \in S : \E i \in 1 .. n : s[i] = f
  BY DEF Ascending
<1> HIDE DEF n
<1>3. s \in Seq(Files)
  BY <1>1, <1>2
<1>4. NoDuplicates(s)
  <2>1. SUFFICES ASSUME NEW i \in 1 .. n, NEW j \in 1 .. n, s[i] = s[j]
                 PROVE  i = j
    BY <1>2 DEF NoDuplicates
  <2>2. s[i] \in Nat /\ s[j] \in Nat
    BY <1>2, TypesAssumption
  <2>3. ~(s[i] < s[j]) /\ ~(s[j] < s[i])
    BY <2>1, <2>2
  <2>4. ~(i < j) /\ ~(j < i)
    BY <2>3, <1>2
  <2> QED BY <2>4, <1>1
<1>5. \A g : InQueue(s, g) <=> g \in S
  BY <1>2 DEF InQueue
<1> QED BY <1>3, <1>4, <1>5

(* flush_old_values enqueues old items and purges idle ones.               *)
LEMMA FlushOldValuesKeeps ==
    ASSUME CacheInv, NEW minAge \in Int, NEW running \in BOOLEAN,
           FlushOldValues(minAge, running)
    PROVE  CacheInv'
<1> DEFINE old  == OldItems(minAge, running)
           idle == IdleItems(minAge, running)
<1>1. PICK s \in Ascending(old) : RemoveItems(idle, queue \o s)
  BY DEF FlushOldValues
<1>2. old \in SUBSET tree /\ idle \in SUBSET tree /\ tree \subseteq Files
  BY DEF OldItems, IdleItems, CacheInv, CacheTypeOK
<1>3. s \in Seq(Files) /\ NoDuplicates(s) /\ \A g : InQueue(s, g) <=> g \in old
  BY <1>2, AscendingFacts
<1>4. \A g : InQueue(s, g) => ~InQueue(queue, g) /\ g \in tree /\ g \notin idle
                              /\ values[g] # <<>>
  BY <1>3 DEF OldItems, IdleItems
<1>5. \A g : InQueue(queue, g) => g \in tree /\ g \notin idle /\ values[g] # <<>>
  <2>1. \A g : InQueue(queue, g) => g \in tree /\ values[g] # <<>>
    BY QueuedItems DEF CacheInv, QueueSound
  <2> QED BY <2>1 DEF IdleItems
<1> HIDE DEF old, idle
<1>6. /\ queue \o s \in Seq(Files) /\ NoDuplicates(queue \o s)
      /\ \A g : InQueue(queue \o s, g) <=> InQueue(queue, g) \/ InQueue(s, g)
  BY <1>3, <1>4, ConcatKeeps DEF CacheInv, CacheTypeOK, QueueSound
<1>7. \A g : InQueue(queue \o s, g) => g \in tree /\ g \notin idle /\ values[g] # <<>>
  BY <1>4, <1>5, <1>6
<1>8. idle \in SUBSET Files
  BY <1>2
<1> QED BY <1>1, <1>6, <1>7, <1>8, RemoveItemsKeeps

(* Whatever thread acts on the cache, a queued file has an item with       *)
(* values and is queued once, and the values of an item move forward: the  *)
(* operations of rrd_daemon.c keep the cache sound, for every set of files *)
(* and values and for all intervals.                                       *)
THEOREM CacheStaysSound == ASSUME CacheInv, CacheStep PROVE CacheInv'
<1>1. CASE UNCHANGED cacheVars
  BY <1>1 DEF cacheVars, CacheInv, CacheTypeOK, QueueSound, ItemsSound
<1>2. CASE CacheGone
  <2>1. CacheInit'
    BY <1>2 DEF CacheGone, CacheInit
  <2> QED BY <2>1, CacheGoneKeeps, PTL
<1> QED BY <1>1, <1>2, CacheTickKeeps, AddItemKeeps, ForgetItemKeeps, TakeValuesKeeps,
           AppendValuesKeeps, AddItemWithKeeps, PutAtHeadKeeps, FlushOldValuesKeeps
           DEF CacheStep, CacheOp

-----------------------------------------------------------------------------
(* What the operations do to the queue and to the time that values wait    *)

(* Removing a file from the queue leaves the others queued.                *)
LEMMA RemovedFromQueue ==
    ASSUME CacheInv, NEW f, queue' = Without(queue, f)
    PROVE  \A g : InQueue(queue', g) <=> InQueue(queue, g) /\ g # f
BY WithoutKeeps DEF CacheInv, CacheTypeOK, QueueSound

(* What flush_old_values changes, file by file.                            *)
LEMMA FlushedOldValues ==
    ASSUME CacheInv, NEW minAge \in Int, NEW running \in BOOLEAN,
           FlushOldValues(minAge, running)
    PROVE  /\ \A g : InQueue(queue', g) <=> InQueue(queue, g) \/ g \in OldItems(minAge, running)
           /\ tree' \subseteq tree
           /\ \A g \in Files : /\ values'[g] = values[g]
                               /\ g \in tree' \/ values[g] = <<>>
                               /\ age'[g] = age[g] \/ (age'[g] = 0 /\ values[g] = <<>>)
                               /\ waited'[g] = 0 \/ (waited'[g] = waited[g] /\ ~InQueue(queue', g))
<1> DEFINE old  == OldItems(minAge, running)
           idle == IdleItems(minAge, running)
<1>1. PICK s \in Ascending(old) : RemoveItems(idle, queue \o s)
  BY DEF FlushOldValues
<1>2. old \in SUBSET tree /\ tree \subseteq Files
  BY DEF OldItems, CacheInv, CacheTypeOK
<1>3. s \in Seq(Files) /\ NoDuplicates(s) /\ \A g : InQueue(s, g) <=> g \in old
  BY <1>2, AscendingFacts
<1>4. \A g : InQueue(s, g) => ~InQueue(queue, g)
  BY <1>3 DEF OldItems
<1>5. \A g \in idle : values[g] = <<>>
  BY DEF IdleItems, Purgeable
<1>6. \A g \in Files \ tree : values[g] = <<>>
  BY DEF CacheInv, ItemsSound
<1> HIDE DEF old, idle
<1>7. \A g : InQueue(queue \o s, g) <=> InQueue(queue, g) \/ InQueue(s, g)
  BY <1>3, <1>4, ConcatKeeps DEF CacheInv, CacheTypeOK, QueueSound
<1>8. \A g : InQueue(queue', g) <=> InQueue(queue, g) \/ g \in old
  BY <1>1, <1>3, <1>7 DEF RemoveItems
<1>9. ASSUME NEW g \in Files
      PROVE  /\ values'[g] = values[g]
             /\ g \in tree' \/ values[g] = <<>>
             /\ age'[g] = age[g] \/ (age'[g] = 0 /\ values[g] = <<>>)
             /\ waited'[g] = 0 \/ (waited'[g] = waited[g] /\ ~InQueue(queue', g))
  BY <1>1, <1>5, <1>6 DEF RemoveItems
<1> QED BY <1>1, <1>8, <1>9 DEF RemoveItems, old

(* No operation but the passing of time makes a value wait longer, and     *)
(* each keeps WaitsSound.                                                  *)
LEMMA WaitsStaySound ==
    ASSUME CacheInv, WaitsSound, CacheOp
    PROVE  WaitsSound' /\ \A f \in Files : waited'[f] <= waited[f]
<1>0. /\ \A f \in Files : waited[f] \in Nat /\ age[f] \in Int /\ age[f] >= MinAge
      /\ MinAge \in Int /\ MinAge <= 0 /\ AgeCap \in Nat
      /\ CacheTypeOK
  BY AgeFacts DEF CacheInv, CacheTypeOK
<1>1. CASE UNCHANGED cacheVars
  BY <1>0, <1>1 DEF cacheVars, WaitsSound
<1>2. CASE CacheGone
  BY <1>0, <1>2 DEF CacheGone, WaitsSound
<1>3. ASSUME NEW f \in Files \ tree, NEW lag \in 0 .. MaxLag, AddItem(f, lag)
      PROVE  WaitsSound' /\ \A g \in Files : waited'[g] <= waited[g]
  <2>1. waited[f] = 0
    BY DEF CacheInv, ItemsSound, WaitsSound
  <2>2. PICK a \in MinAge .. 0 : age' = [age EXCEPT ![f] = a + lag]
    BY <1>3, AgeFacts DEF AddItem
  <2>3. a + lag \in Int /\ 0 <= (a + lag) - MinAge
    BY <1>0, CacheAssumption
  <2> QED BY <1>0, <1>3, <2>1, <2>2, <2>3 DEF AddItem, WaitsSound, CacheTypeOK
<1>4. ASSUME NEW f \in tree, ForgetItem(f)
      PROVE  WaitsSound' /\ \A g \in Files : waited'[g] <= waited[g]
  <2>1. \A g : InQueue(queue', g) <=> InQueue(queue, g) /\ g # f
    BY <1>4, RemovedFromQueue DEF ForgetItem, RemoveItems
  <2>2. \A g \in Files : /\ values'[g] = IF g = f THEN <<>> ELSE values[g]
                         /\ age'[g] = IF g = f THEN 0 ELSE age[g]
                         /\ waited'[g] = 0 \/ (g # f /\ waited'[g] = waited[g])
    BY <1>4 DEF ForgetItem, RemoveItems
  <2>3. waited'[f] = 0
    BY <2>2, <1>0 DEF CacheTypeOK
  <2>4. ASSUME NEW g \in Files
        PROVE  /\ waited'[g] <= waited[g]
               /\ values'[g] = <<>> \/ InQueue(queue', g) => waited'[g] = 0
               /\ age'[g] < AgeCap => waited'[g] <= age'[g] - MinAge
    BY <1>0, <2>1, <2>2, <2>3 DEF WaitsSound
  <2> QED BY <2>4 DEF WaitsSound
<1>5. ASSUME NEW f \in tree, TakeValues(f)
      PROVE  WaitsSound' /\ \A g \in Files : waited'[g] <= waited[g]
  <2>1. \A g : InQueue(queue', g) <=> InQueue(queue, g) /\ g # f
    BY <1>5, RemovedFromQueue DEF TakeValues
  <2>2. PICK a \in MinAge .. 0 : age' = [age EXCEPT ![f] = a]
    BY <1>5, AgeFacts DEF TakeValues
  <2>3. ASSUME NEW g \in Files
        PROVE  /\ values'[g] = IF g = f THEN <<>> ELSE values[g]
               /\ age'[g] = IF g = f THEN a ELSE age[g]
               /\ waited'[g] = IF g = f THEN 0 ELSE waited[g]
    BY <1>0, <1>5, <2>2 DEF TakeValues, CacheTypeOK
  <2>4. ASSUME NEW g \in Files
        PROVE  /\ waited'[g] <= waited[g]
               /\ values'[g] = <<>> \/ InQueue(queue', g) => waited'[g] = 0
               /\ age'[g] < AgeCap => waited'[g] <= age'[g] - MinAge
    BY <1>0, <2>1, <2>3 DEF WaitsSound
  <2> QED BY <2>4 DEF WaitsSound
<1>6. ASSUME NEW f \in tree, NEW vals \in Seq(Stamps), NEW lag \in 0 .. MaxLag,
             NEW n \in Taken(lastStamp[f], vals), AppendValues(f, vals, n, lag)
      PROVE  WaitsSound' /\ \A g \in Files : waited'[g] <= waited[g]
  <2> DEFINE new == values[f] \o SubSeq(vals, 1, n)
  <2>0. f \in Files
    BY <1>0 DEF CacheTypeOK
  <2>1. /\ values' = [values EXCEPT ![f] = new] /\ UNCHANGED age
        /\ \/ UNCHANGED queue /\ waited' = [waited EXCEPT ![f] = @]
           \/ queue' = AtTail(queue, f) /\ waited' = [waited EXCEPT ![f] = 0]
    BY <1>6 DEF AppendValues
  <2>2. new = <<>> => values[f] = <<>>
    <3>1. lastStamp[f] \in Nat /\ values[f] \in Seq(Stamps)
      BY <1>0, <2>0, StampsAreNumbers DEF CacheTypeOK
    <3>2. SubSeq(vals, 1, n) \in Seq(Stamps)
      BY <3>1, TakenFacts
    <3> QED BY <3>1, <3>2, ConcatSimplifications
  <2>3. \A g : InQueue(AtTail(queue, f), g) <=> InQueue(queue, g) \/ g = f
    BY <2>0, AtTailKeeps DEF CacheInv, CacheTypeOK, QueueSound
  <2> HIDE DEF new
  <2>4. ASSUME NEW g \in Files
        PROVE  /\ values'[g] = IF g = f THEN new ELSE values[g]
               /\ waited'[g] = waited[g] \/ waited'[g] = 0
               /\ InQueue(queue', g) => InQueue(queue, g) \/ waited'[g] = 0
    BY <1>0, <2>0, <2>1, <2>3 DEF CacheTypeOK
  <2>5. ASSUME NEW g \in Files
        PROVE  /\ waited'[g] <= waited[g]
               /\ values'[g] = <<>> \/ InQueue(queue', g) => waited'[g] = 0
               /\ age'[g] < AgeCap => waited'[g] <= age'[g] - MinAge
    BY <1>0, <2>1, <2>2, <2>4 DEF WaitsSound
  <2> QED BY <2>5 DEF WaitsSound
<1>7. ASSUME NEW f \in Files \ tree, NEW vals \in Seq(Stamps), NEW n \in Taken(0, vals),
             AddItemWith(f, vals, n)
      PROVE  WaitsSound' /\ \A g \in Files : waited'[g] <= waited[g]
  <2>1. waited[f] = 0
    BY DEF CacheInv, ItemsSound, WaitsSound
  <2>2. PICK a \in MinAge .. 0 : age' = [age EXCEPT ![f] = a]
    BY <1>7, AgeFacts DEF AddItemWith
  <2>3. ASSUME NEW g \in Files
        PROVE  /\ g = f \/ values'[g] = values[g]
               /\ age'[g] = IF g = f THEN a ELSE age[g]
    BY <1>0, <1>7, <2>2 DEF AddItemWith, CacheTypeOK
  <2>4. ASSUME NEW g \in Files
        PROVE  /\ waited'[g] <= waited[g]
               /\ values'[g] = <<>> \/ InQueue(queue', g) => waited'[g] = 0
               /\ age'[g] < AgeCap => waited'[g] <= age'[g] - MinAge
    BY <1>0, <1>7, <2>1, <2>3 DEF WaitsSound, AddItemWith
  <2> QED BY <2>4 DEF WaitsSound
<1>8. ASSUME NEW f \in tree, values[f] # <<>>, PutAtHead(f)
      PROVE  WaitsSound' /\ \A g \in Files : waited'[g] <= waited[g]
  <2>0. f \in Files
    BY <1>0 DEF CacheTypeOK
  <2>1. \A g : InQueue(AtHead(queue, f), g) <=> InQueue(queue, g) \/ g = f
    BY <2>0, AtHeadKeeps DEF CacheInv, CacheTypeOK, QueueSound
  <2>2. ASSUME NEW g \in Files PROVE waited'[g] = IF g = f THEN 0 ELSE waited[g]
    BY <1>0, <1>8 DEF PutAtHead, CacheTypeOK
  <2> QED BY <1>0, <1>8, <2>1, <2>2 DEF PutAtHead, WaitsSound
<1>9. ASSUME NEW minAge \in Int, NEW running \in BOOLEAN, FlushOldValues(minAge, running)
      PROVE  WaitsSound' /\ \A g \in Files : waited'[g] <= waited[g]
  <2>1. ASSUME NEW g \in Files
        PROVE  /\ values'[g] = values[g]
               /\ age'[g] = age[g] \/ (age'[g] = 0 /\ values[g] = <<>>)
               /\ waited'[g] = 0 \/ (waited'[g] = waited[g] /\ ~InQueue(queue', g))
    BY <1>9, FlushedOldValues
  <2>2. ASSUME NEW g \in Files
        PROVE  /\ waited'[g] <= waited[g]
               /\ values'[g] = <<>> \/ InQueue(queue', g) => waited'[g] = 0
               /\ age'[g] < AgeCap => waited'[g] <= age'[g] - MinAge
    <3>1. age'[g] \in Int /\ age'[g] >= MinAge
      BY <1>0, <2>1
    <3> QED BY <1>0, <2>1, <3>1 DEF WaitsSound
  <2> QED BY <2>2 DEF WaitsSound
<1> QED BY <1>1, <1>2, <1>3, <1>4, <1>5, <1>6, <1>7, <1>8, <1>9 DEF CacheOp

(* As time passes, a value waits and its item grows older together.        *)
LEMMA TickWaits ==
    ASSUME CacheInv, WaitsSound, NEW b \in BOOLEAN, CacheTick(b)
    PROVE  /\ WaitsSound'
           /\ \A f \in Files : waited'[f] = waited[f] \/ (b /\ waited'[f] = waited[f] + 1)
<1>0. /\ \A f \in Files : waited[f] \in Nat /\ age[f] \in Int /\ age[f] <= AgeCap
      /\ MinAge \in Int /\ AgeCap \in Nat
  BY AgeFacts DEF CacheInv, CacheTypeOK
<1>1. ASSUME NEW f \in Files
      PROVE  /\ waited'[f] = waited[f] \/ (b /\ waited'[f] = waited[f] + 1)
             /\ values[f] = <<>> \/ InQueue(queue, f) => waited'[f] = waited[f]
             /\ f \in tree \/ values[f] = <<>>
             /\ f \in tree => age'[f] = IF age[f] < AgeCap THEN age[f] + 1 ELSE age[f]
             /\ f \notin tree => age'[f] = age[f]
  BY DEF CacheTick, Older, CacheInv, ItemsSound
<1>2. ASSUME NEW f \in Files
      PROVE  /\ values'[f] = <<>> \/ InQueue(queue', f) => waited'[f] = 0
             /\ age'[f] < AgeCap => waited'[f] <= age'[f] - MinAge
  <2>1. values' = values /\ queue' = queue
    BY DEF CacheTick
  <2> QED BY <1>0, <1>1, <2>1 DEF WaitsSound
<1> QED BY <1>1, <1>2 DEF WaitsSound

-----------------------------------------------------------------------------
(* The daemon                                                              *)

\* The control state: who may hold cache_lock, and how the threads follow the
\* state of the daemon.
ControlSound ==
    /\ LockSound
    /\ state = "SHUTDOWN" => fpc = "done"
    /\ mpc = "replay" =>
          fpc = "off" /\ cacheLock = "none" /\ \A c \in Conns : cpc[c] = "none"
    /\ mpc \in {"drain", "join_flush", "join_queue", "exit"} => state # "RUNNING"
    /\ NoRequestDuringCleanup

\* The item an UPDATE has looked up stays while the request holds the lock.
LookupSound == \A c \in Conns : cpc[c] = "apply" => arg[c].file \in tree

\* The inductive invariant.
IInv == TypeOK /\ QueueSound /\ ItemsSound /\ ControlSound /\ LookupSound

-----------------------------------------------------------------------------
(* The control state                                                       *)

(* The control state of a new daemon.                                      *)
LEMMA ControlInit == Init => ControlSound
BY DaemonAssumption
   DEF Init, ControlSound, LockSound, NoRequestDuringCleanup

(* The steps of a connection keep the control state.                       *)
LEMMA ConnControl ==
    ASSUME TypeOK, ControlSound, NEW c \in Conns, ConnStep(c)
    PROVE  ControlSound'
<1> USE DaemonAssumption
    DEF TypeOK, ControlSound, LockSound, NoRequestDuringCleanup, LockFree
<1>1. CASE ConnStart(c)
  BY <1>1 DEF ConnStart, Goes
<1>2. CASE ConnPoll(c)
  BY <1>2 DEF ConnPoll, Goes
<1>3. CASE ConnAgain(c)
  BY <1>3 DEF ConnAgain, Goes
<1>4. CASE ConnClose(c)
  BY <1>4 DEF ConnClose, Goes
<1>5. CASE Command(c)
  BY <1>5 DEF Command, Request
<1>6. CASE UpdateLookup(c)
  <2>1. /\ cpc[c] = "update" /\ cacheLock = "none" /\ UNCHANGED <<state, fpc, mpc>>
        /\ \/ cacheLock' = c /\ cpc' = [cpc EXCEPT ![c] = "apply"]
           \/ UNCHANGED cacheLock /\ cpc' = [cpc EXCEPT ![c] = "stat"]
    BY <1>6 DEF UpdateLookup
  <2>2. LockSound'
    BY <2>1
  <2> QED BY <2>1, <2>2
<1>7. CASE UpdateStat(c)
  BY <1>7 DEF UpdateStat, Goes, Answers
<1>8. CASE UpdateInsert(c)
  <2>1. /\ cpc[c] = "insert" /\ cacheLock = "none" /\ UNCHANGED <<state, fpc, mpc>>
        /\ \/ cacheLock' = c /\ cpc' = [cpc EXCEPT ![c] = "apply"]
           \/ /\ state = "SHUTDOWN" /\ cacheLock' = "leaked"
              /\ cpc' = [cpc EXCEPT ![c] = "none"]
    BY <1>8 DEF UpdateInsert
  <2>2. LockSound'
    BY <2>1
  <2> QED BY <2>1, <2>2
<1>9. CASE UpdateApply(c)
  BY <1>9 DEF UpdateApply
<1>10. CASE FlushFile(c)
  BY <1>10 DEF FlushFile
<1>11. CASE FlushReturn(c)
  BY <1>11 DEF FlushReturn, Goes
<1>12. CASE FlushAnswer(c)
  BY <1>12 DEF FlushAnswer, Answers
<1>13. CASE FlushAll(c)
  BY <1>13 DEF FlushAll, Flushed
<1>14. CASE ForgetRemove(c)
  BY <1>14 DEF ForgetRemove, Flushed
<1>15. CASE ForgetJournal(c)
  BY <1>15 DEF ForgetJournal
<1> QED BY <1>1, <1>2, <1>3, <1>4, <1>5, <1>6, <1>7, <1>8, <1>9, <1>10, <1>11,
           <1>12, <1>13, <1>14, <1>15 DEF ConnStep

(* The steps of an update thread keep the control state.                   *)
LEMMA QueueControl ==
    ASSUME TypeOK, ControlSound, NEW q \in QueueThreads, QueueStep(q)
    PROVE  ControlSound'
<1> USE DEF TypeOK, ControlSound, LockSound, NoRequestDuringCleanup, LockFree
<1>1. UNCHANGED <<state, cacheLock, fpc, mpc>>
  BY DEF QueueStep, QueueLoop, QueueWoken, QueueUpdate, QueueJournal, QueueBroadcast
<1>2. /\ cpc' \in [Conns -> ConnPCs]
      /\ \A c \in Conns : cpc'[c] = cpc[c] \/ (cpc[c] = "wait" /\ cpc'[c] = "woken")
  BY DEF QueueStep, QueueLoop, QueueWoken, QueueUpdate, QueueJournal, QueueBroadcast,
         WokenBy, Flushed, ConnPCs
<1> QED BY <1>1, <1>2

(* The steps of the flush thread keep the control state.                   *)
LEMMA FlushControl ==
    ASSUME TypeOK, ControlSound, FlushStep
    PROVE  ControlSound'
<1> USE DaemonAssumption
    DEF TypeOK, ControlSound, LockSound, NoRequestDuringCleanup, LockFree
<1>1. CASE FlushOld
  BY <1>1 DEF FlushOld, Flushed
<1>2. CASE FlushPrepare
  BY <1>2 DEF FlushPrepare, FlushGoes
<1>3. CASE FlushWait
  BY <1>3 DEF FlushWait, FlushGoes
<1>4. CASE FlushTimeout
  BY <1>4 DEF FlushTimeout, FlushGoes
<1>5. CASE FlushRelock
  BY <1>5 DEF FlushRelock, FlushGoes
<1>6. CASE RotateClose
  BY <1>6 DEF RotateClose
<1>7. CASE RotateOpen
  BY <1>7 DEF RotateOpen
<1>8. CASE RotateRemove
  BY <1>8 DEF RotateRemove
<1>9. CASE FlushExit
  BY <1>9 DEF FlushExit, Flushed
<1> QED BY <1>1, <1>2, <1>3, <1>4, <1>5, <1>6, <1>7, <1>8, <1>9 DEF FlushStep

(* The end of a process resets the control state.                          *)
LEMMA DieControl == ASSUME NEW kept, Die(kept) PROVE ControlSound'
BY DaemonAssumption DEF Die, ControlSound, LockSound, NoRequestDuringCleanup

(* The steps of the main thread keep the control state.                    *)
LEMMA MainControl ==
    ASSUME TypeOK, ControlSound, MainStep
    PROVE  ControlSound'
<1> USE DaemonAssumption
    DEF TypeOK, ControlSound, LockSound, NoRequestDuringCleanup, LockFree
<1>1. CASE ListenPoll
  BY <1>1 DEF ListenPoll
<1>2. CASE ListenAccept
  BY <1>2 DEF ListenAccept
<1>3. CASE ListenStop
  BY <1>3 DEF ListenStop, MainGoes
<1>4. CASE Drain
  BY <1>4 DEF Drain, Drained, Counted, MainGoes, FlushWoken
<1>5. CASE JoinFlush
  BY <1>5 DEF JoinFlush, MainGoes
<1>6. CASE Cleanup
  BY <1>6 DEF Cleanup
<1>7. CASE ReplayEntry
  BY <1>7 DEF ReplayEntry, threadVars
<1>8. CASE ReplayDone
  BY <1>8 DEF ReplayDone
<1>9. CASE AssertFails
  BY <1>9, DieControl DEF AssertFails
<1> QED BY <1>1, <1>2, <1>3, <1>4, <1>5, <1>6, <1>7, <1>8, <1>9 DEF MainStep

(* Every step keeps the control state.                                     *)
LEMMA NextControl ==
    ASSUME TypeOK, ControlSound, [Next]_vars
    PROVE  ControlSound'
<1> USE DEF TypeOK, ControlSound, LockSound, NoRequestDuringCleanup
<1>1. CASE Tick
  BY <1>1 DEF Tick
<1>2. ASSUME NEW s \in Signals, Signal(s) PROVE ControlSound'
  BY <1>2 DEF Signal, FlushWoken
<1>3. CASE Crash
  BY <1>3, DieControl DEF Crash
<1>4. CASE NullWrite
  BY <1>4, DieControl DEF NullWrite
<1>5. CASE Restart
  BY <1>5, DaemonAssumption DEF Restart
<1>6. CASE UNCHANGED vars
  BY <1>6 DEF vars, threadVars
<1> QED BY <1>1, <1>2, <1>3, <1>4, <1>5, <1>6, ConnControl, QueueControl,
           FlushControl, MainControl DEF Next

-----------------------------------------------------------------------------
(* The cache: every step of the daemon is an operation of RrdCache         *)

(* A free lock means that no UPDATE is between its lookup and its end.     *)
LEMMA NobodyApplies ==
    ASSUME ControlSound, LockFree
    PROVE  \A c \in Conns : cpc[c] # "apply"
BY DaemonAssumption DEF ControlSound, LockSound, LockFree

(* The age that flush_old_values(-1) looks for is a number.                *)
LEMMA EverythingAgeType == EverythingAge \in Int
BY CacheAssumption DEF EverythingAge

(* The assertions of queue_thread_main on the file it takes.               *)
LEMMA HeadQueued ==
    ASSUME IInv, queue # <<>>
    PROVE  Head(queue) \in tree /\ values[Head(queue)] # <<>> /\ InQueue(queue, Head(queue))
<1>1. queue \in Seq(Files)
  BY DEF IInv, TypeOK, CacheTypeOK
<1>2. 1 \in DOMAIN queue /\ Head(queue) = queue[1]
  BY <1>1
<1> QED BY <1>2 DEF IInv, QueueSound, InQueue

(* A connection changes the cache by operations of RrdCache only.          *)
LEMMA ConnCache ==
    ASSUME IInv, NEW c \in Conns, ConnStep(c)
    PROVE  CacheOp /\ LookupSound'
<1>0. arg[c].file \in Files /\ arg[c].vals \in Seq(Stamps)
  BY DEF IInv, TypeOK
<1>1. CASE ConnStart(c) \/ ConnPoll(c) \/ ConnAgain(c) \/ ConnClose(c)
  BY <1>1 DEF IInv, TypeOK, LookupSound, CacheOp, cacheVars,
              ConnStart, ConnPoll, ConnAgain, ConnClose, Goes
<1>2. CASE Command(c)
  BY <1>2 DEF IInv, TypeOK, LookupSound, CacheOp, cacheVars, Command, Request
<1>3. CASE UpdateLookup(c)
  BY <1>3 DEF IInv, TypeOK, LookupSound, CacheOp, cacheVars, UpdateLookup
<1>4. CASE UpdateStat(c)
  BY <1>4 DEF IInv, TypeOK, LookupSound, CacheOp, cacheVars, UpdateStat, Goes, Answers
<1>5. CASE UpdateInsert(c)
  <2> DEFINE f == arg[c].file
  <2>1. PICK lag \in 0 .. MaxLag : InsertItem(f, lag)
    BY <1>5 DEF UpdateInsert
  <2>2. CacheOp
    BY <2>1, <1>0 DEF InsertItem, CacheOp
  <2>3. tree' = tree \cup {f}
    BY <2>1 DEF InsertItem, AddItem, cacheVars
  <2>4. LookupSound'
    <3>1. \A d \in Conns : cpc[d] # "apply"
      BY <1>5, NobodyApplies DEF UpdateInsert, IInv
    <3> QED BY <1>5, <2>3, <3>1 DEF UpdateInsert, LookupSound, IInv, TypeOK
  <2> QED BY <2>2, <2>4
<1>6. CASE UpdateApply(c)
  <2> DEFINE f == arg[c].file
             vals == arg[c].vals
  <2>1. PICK n \in Taken(lastStamp[f], vals), lag \in 0 .. MaxLag :
           AppendValues(f, vals, n, lag)
    BY <1>6 DEF UpdateApply
  <2>2. f \in tree
    BY <1>6 DEF UpdateApply, IInv, LookupSound
  <2>3. CacheOp
    BY <2>1, <2>2, <1>0 DEF CacheOp
  <2>4. tree' = tree
    BY <2>1 DEF AppendValues
  <2>5. LookupSound'
    BY <1>6, <2>4 DEF UpdateApply, LookupSound, IInv, TypeOK
  <2> QED BY <2>3, <2>5
<1>7. CASE FlushFile(c)
  <2>1. CacheOp /\ tree' = tree
    BY <1>7 DEF FlushFile, CacheOp, PutAtHead, cacheVars
  <2> QED BY <1>7, <2>1 DEF FlushFile, LookupSound, IInv, TypeOK
<1>8. CASE FlushReturn(c) \/ FlushAnswer(c)
  BY <1>8 DEF IInv, TypeOK, LookupSound, CacheOp, cacheVars,
              FlushReturn, FlushAnswer, Goes, Answers
<1>9. CASE FlushAll(c)
  <2>1. CacheOp
    BY <1>9, EverythingAgeType DEF FlushAll, CacheOp
  <2>2. \A d \in Conns : cpc[d] # "apply"
    BY <1>9, NobodyApplies DEF FlushAll, IInv
  <2>3. LookupSound'
    BY <1>9, <2>2 DEF FlushAll, Flushed, LookupSound
  <2> QED BY <2>1, <2>3
<1>10. CASE ForgetRemove(c)
  <2>1. CacheOp
    BY <1>10 DEF ForgetRemove, CacheOp
  <2>2. \A d \in Conns : cpc[d] # "apply"
    BY <1>10, NobodyApplies DEF ForgetRemove, IInv
  <2>3. LookupSound'
    BY <1>10, <2>2 DEF ForgetRemove, Flushed, LookupSound, IInv, TypeOK
  <2> QED BY <2>1, <2>3
<1>11. CASE ForgetJournal(c)
  BY <1>11 DEF IInv, TypeOK, LookupSound, CacheOp, cacheVars, ForgetJournal
<1> QED BY <1>1, <1>2, <1>3, <1>4, <1>5, <1>6, <1>7, <1>8, <1>9, <1>10, <1>11
        DEF ConnStep

(* So does an update thread,                                               *)
LEMMA QueueCache ==
    ASSUME IInv, NEW q \in QueueThreads, QueueStep(q)
    PROVE  CacheOp /\ LookupSound'
<1>1. CacheOp /\ tree' = tree
  <2>1. CASE Dequeue(q)
    <3>1. CacheOp
      BY <2>1, HeadQueued DEF Dequeue, CacheOp
    <3> QED BY <2>1, <3>1 DEF Dequeue, TakeValues
  <2>2. CASE UNCHANGED cacheVars
    BY <2>2 DEF CacheOp, cacheVars
  <2> QED BY <2>1, <2>2
          DEF QueueStep, QueueLoop, QueueWoken, QueueUpdate, QueueJournal, QueueBroadcast
<1>2. \A c \in Conns : cpc'[c] = "apply" => cpc[c] = "apply" /\ arg'[c] = arg[c]
  BY DEF QueueStep, QueueLoop, QueueWoken, QueueUpdate, QueueJournal, QueueBroadcast,
         WokenBy, Flushed
<1> QED BY <1>1, <1>2 DEF IInv, LookupSound

(* the flush thread,                                                       *)
LEMMA FlushCache ==
    ASSUME IInv, FlushStep
    PROVE  CacheOp /\ LookupSound'
<1>1. CASE FlushOld
  <2>1. CacheOp
    <3>1. WriteInterval \in Int
      BY CacheAssumption
    <3> QED BY <1>1, <3>1 DEF FlushOld, CacheOp
  <2>2. \A c \in Conns : cpc[c] # "apply"
    BY <1>1, NobodyApplies DEF FlushOld, IInv
  <2> QED BY <1>1, <2>1, <2>2 DEF FlushOld, Flushed, LookupSound
<1>2. CASE FlushExit
  <2>1. CacheOp
    BY <1>2, EverythingAgeType DEF FlushExit, CacheOp
  <2>2. \A c \in Conns : cpc[c] # "apply"
    BY <1>2, NobodyApplies DEF FlushExit, IInv
  <2> QED BY <1>2, <2>1, <2>2 DEF FlushExit, Flushed, LookupSound
<1>3. CASE UNCHANGED <<cacheVars, cpc, arg>>
  BY <1>3 DEF CacheOp, cacheVars, LookupSound, IInv
<1> QED BY <1>1, <1>2, <1>3 DEF FlushStep, FlushPrepare, FlushWait, FlushTimeout,
           FlushRelock, FlushGoes, RotateClose, RotateOpen, RotateRemove

(* the end of a process,                                                   *)
LEMMA DieCache == ASSUME NEW kept, Die(kept) PROVE CacheOp /\ LookupSound'
BY DEF Die, CacheOp, LookupSound

(* and the main thread,                                                    *)
LEMMA MainCache ==
    ASSUME IInv, MainStep
    PROVE  CacheOp /\ LookupSound'
<1>1. CASE ListenPoll \/ ListenStop \/ Drain \/ JoinFlush
  BY <1>1 DEF CacheOp, LookupSound, IInv, ListenPoll, ListenStop, Drain, JoinFlush,
              MainGoes, cacheVars
<1>2. CASE ListenAccept
  BY <1>2 DEF CacheOp, LookupSound, IInv, TypeOK, ListenAccept, cacheVars
<1>3. CASE Cleanup
  <2>1. \A c \in Conns : cpc[c] # "apply"
    BY <1>3, NobodyApplies DEF Cleanup, IInv
  <2> QED BY <1>3, <2>1 DEF Cleanup, CacheOp, LookupSound
<1>4. CASE ReplayEntry
  <2>1. \A c \in Conns : cpc[c] # "apply"
    BY <1>4 DEF ReplayEntry, IInv, ControlSound
  <2>2. LookupSound'
    BY <1>4, <2>1 DEF ReplayEntry, threadVars, LookupSound
  <2> DEFINE e == Head(rlog)
             f == e.file
  <2>3. e.file \in Files /\ e.vals \in Seq(Stamps)
    <3>1. e \in Entries
      BY <1>4 DEF IInv, TypeOK, ReplayEntry
    <3> QED BY <3>1 DEF Entries
  <2>4. CacheOp
    <3>1. CASE /\ e.op = "update" /\ f \in tree
               /\ \E n \in Taken(lastStamp[f], e.vals), lag \in 0 .. MaxLag :
                     AppendValues(f, e.vals, n, lag)
      BY <3>1, <2>3 DEF CacheOp
    <3>2. CASE /\ e.op = "update" /\ f \notin tree
               /\ \E n \in Taken(0, e.vals) : AddItemWith(f, e.vals, n)
      BY <3>2, <2>3 DEF CacheOp
    <3>3. CASE f \in tree /\ (TakeValues(f) \/ ForgetItem(f))
      BY <3>3 DEF CacheOp
    <3>4. CASE UNCHANGED cacheVars
      BY <3>4 DEF CacheOp
    <3> QED BY <1>4, <3>1, <3>2, <3>3, <3>4 DEF ReplayEntry, DropWrote
  <2> QED BY <2>2, <2>4
<1>5. CASE ReplayDone
  <2>1. \A c \in Conns : cpc[c] # "apply"
    BY <1>5 DEF ReplayDone, IInv, ControlSound
  <2>2. CacheOp
    BY <1>5, EverythingAgeType DEF ReplayDone, CacheOp
  <2> QED BY <1>5, <2>1, <2>2 DEF ReplayDone, LookupSound
<1>6. CASE AssertFails
  BY <1>6, DieCache DEF AssertFails
<1> QED BY <1>1, <1>2, <1>3, <1>4, <1>5, <1>6 DEF MainStep

(* and hence every step but the clock's.                                   *)
LEMMA NextCache ==
    ASSUME IInv, [Next]_vars
    PROVE  (Tick \/ CacheOp) /\ LookupSound'
<1>1. CASE Tick
  BY <1>1 DEF Tick, CacheTick, IInv, LookupSound
<1>2. ASSUME NEW s \in Signals, Signal(s) PROVE CacheOp /\ LookupSound'
  BY <1>2 DEF Signal, CacheOp, cacheVars, IInv, LookupSound
<1>3. CASE Crash
  BY <1>3, DieCache DEF Crash
<1>4. CASE NullWrite
  BY <1>4, DieCache DEF NullWrite
<1>5. CASE Restart
  BY <1>5 DEF Restart, CacheOp, LookupSound
<1>6. CASE UNCHANGED vars
  BY <1>6 DEF vars, threadVars, cacheVars, CacheOp, IInv, LookupSound
<1> QED BY <1>1, <1>2, <1>3, <1>4, <1>5, <1>6, ConnCache, QueueCache,
           FlushCache, MainCache DEF Next

-----------------------------------------------------------------------------
(* The journal                                                             *)

\* What a step of the daemon may do to the journal.
JournalStep ==
    \/ UNCHANGED journalVars
    \/ \E e \in Entries, failed \in BOOLEAN : Write(e, failed)
    \/ \E failed \in BOOLEAN : NewFile(jcur, failed)
    \/ Rotate \/ RemoveDead \/ Reopen
    \/ \E flushed \in BOOLEAN : Done(flushed)
    \/ \E kept \in jsafe .. Len(jcur) : Lose(kept)

(* Opening a journal file keeps the types.                                 *)
LEMMA NewFileKeeps ==
    ASSUME JournalTypeOK, NEW es \in Seq(Entries), NEW failed \in BOOLEAN,
           NewFile(es, failed)
    PROVE  JournalTypeOK'
<1>1. jfails' \in 0 .. MaxJournalFailures
  BY JournalAssumption DEF JournalTypeOK, NewFile
<1>2. jsafe' \in 0 .. Len(jcur')
  BY DEF NewFile
<1> QED BY <1>1, <1>2 DEF JournalTypeOK, NewFile

(* Every operation on the journal keeps its types.                         *)
LEMMA JournalStaysTyped ==
    ASSUME JournalTypeOK, JournalStep
    PROVE  JournalTypeOK'
<1>1. CASE UNCHANGED journalVars
  BY <1>1 DEF journalVars, JournalTypeOK
<1>2. ASSUME NEW e \in Entries, NEW failed \in BOOLEAN, Write(e, failed)
      PROVE  JournalTypeOK'
  <2>1. Append(jcur, e) \in Seq(Entries) /\ Len(Append(jcur, e)) = Len(jcur) + 1
    BY DEF JournalTypeOK
  <2>2. CASE Len(jcur) + 1 - jsafe > JournalMax
    BY <1>2, <2>1, <2>2, NewFileKeeps DEF Write
  <2>3. CASE ~(Len(jcur) + 1 - jsafe > JournalMax)
    <3>1. jsafe' \in 0 .. Len(jcur')
      BY <1>2, <2>1, <2>3 DEF Write, JournalTypeOK
    <3> QED BY <1>2, <2>1, <2>3, <3>1 DEF Write, JournalTypeOK
  <2> QED BY <2>2, <2>3
<1>3. ASSUME NEW failed \in BOOLEAN, NewFile(jcur, failed) PROVE JournalTypeOK'
  BY <1>3, NewFileKeeps DEF JournalTypeOK
<1>4. CASE Rotate
  <2>1. jsafe' \in 0 .. Len(jcur')
    BY <1>4 DEF Rotate
  <2>2. jcur' \in Seq(Entries) /\ jold' \in Seq(Entries) /\ jdead' \in Seq(Entries)
    BY <1>4 DEF Rotate, JournalTypeOK
  <2>3. jopen' \in BOOLEAN /\ jfails' \in 0 .. MaxJournalFailures
    BY <1>4 DEF Rotate, JournalTypeOK
  <2> QED BY <2>1, <2>2, <2>3 DEF JournalTypeOK
<1>5. CASE RemoveDead
  BY <1>5 DEF RemoveDead, JournalTypeOK
<1>6. CASE Reopen
  <2>1. Found \in Seq(Entries)
    BY DEF Found, JournalTypeOK
  <2> QED BY <1>6, <2>1 DEF Reopen, JournalTypeOK
<1>7. ASSUME NEW flushed \in BOOLEAN, Done(flushed) PROVE JournalTypeOK'
  <2>1. jsafe' \in 0 .. Len(jcur')
    BY <1>7 DEF Done, JournalTypeOK
  <2>2. jcur' \in Seq(Entries) /\ jold' \in Seq(Entries) /\ jdead' \in Seq(Entries)
    BY <1>7 DEF Done, JournalTypeOK
  <2>3. jopen' \in BOOLEAN /\ jfails' \in 0 .. MaxJournalFailures
    BY <1>7 DEF Done, JournalTypeOK
  <2> QED BY <2>1, <2>2, <2>3 DEF JournalTypeOK
<1>8. ASSUME NEW kept \in jsafe .. Len(jcur), Lose(kept) PROVE JournalTypeOK'
  <2>1. kept \in 0 .. Len(jcur) /\ jcur \in Seq(Entries)
    BY DEF JournalTypeOK
  <2>2. SubSeq(jcur, 1, kept) \in Seq(Entries) /\ Len(SubSeq(jcur, 1, kept)) = kept
    BY <2>1
  <2>3. jsafe' \in 0 .. Len(jcur')
    BY <1>8, <2>1, <2>2 DEF Lose
  <2> QED BY <1>8, <2>2, <2>3 DEF Lose, JournalTypeOK
<1> QED BY <1>1, <1>2, <1>3, <1>4, <1>5, <1>6, <1>7, <1>8 DEF JournalStep

(* The journal entries the handlers make.                                  *)
LEMMA EntryTypes ==
    ASSUME NEW f \in Files, NEW vals \in Seq(Stamps)
    PROVE  UpdateEntry(f, vals) \in Entries /\ WroteEntry(f) \in Entries
           /\ ForgetEntry(f) \in Entries
BY DEF Entries, UpdateEntry, WroteEntry, ForgetEntry

(* journal_write is an operation on the journal.                           *)
LEMMA JournalWriteIsStep ==
    ASSUME NEW e \in Entries, JournalWrite(e)
    PROVE  JournalStep
BY DEF JournalWrite, JournalStep

(* Every step changes the journal by operations of RrdJournal only.        *)
LEMMA NextJournal ==
    ASSUME TypeOK, [Next]_vars
    PROVE  JournalStep
<1>0. jsafe \in 0 .. Len(jcur) /\ Len(jcur) \in Nat
  BY DEF TypeOK, JournalTypeOK
<1>1. ASSUME NEW c \in Conns, ConnStep(c) PROVE JournalStep
  <2>0. arg[c].file \in Files /\ arg[c].vals \in Seq(Stamps)
    BY DEF TypeOK
  <2>1. CASE UpdateApply(c) \/ ForgetJournal(c)
    BY <2>0, <2>1, EntryTypes, JournalWriteIsStep
       DEF UpdateApply, ForgetJournal, JournalStep
  <2>2. CASE UNCHANGED journalVars
    BY <2>2 DEF JournalStep
  <2> QED BY <1>1, <2>1, <2>2
          DEF ConnStep, ConnStart, ConnPoll, ConnAgain, ConnClose, Command, Request,
              UpdateLookup, UpdateStat, UpdateInsert, FlushFile, FlushReturn,
              FlushAnswer, FlushAll, ForgetRemove, Goes, Answers
<1>2. ASSUME NEW q \in QueueThreads, QueueStep(q) PROVE JournalStep
  <2>0. job[q].file \in Files /\ <<>> \in Seq(Stamps)
    BY DEF TypeOK
  <2>1. CASE QueueJournal(q)
    BY <2>0, <2>1, EntryTypes, JournalWriteIsStep DEF QueueJournal, JournalStep
  <2> QED BY <1>2, <2>1
          DEF QueueStep, QueueLoop, QueueWoken, QueueUpdate, QueueBroadcast, JournalStep
<1>3. CASE FlushStep
  BY <1>3 DEF FlushStep, FlushOld, FlushExit, FlushPrepare, FlushWait, FlushTimeout,
              FlushRelock, FlushGoes, RotateClose, RotateOpen, RotateRemove, JournalStep
<1>4. ASSUME NEW kept \in jsafe .. Len(jcur), Die(kept) PROVE JournalStep
  BY <1>4 DEF Die, JournalStep
<1>5. Len(jcur) \in jsafe .. Len(jcur)
  BY <1>0
<1>6. CASE MainStep
  <2>1. CASE Cleanup
    BY <2>1 DEF Cleanup, JournalStep, TypeOK
  <2>2. CASE ReplayDone
    BY <2>2 DEF ReplayDone, JournalStep
  <2>3. CASE AssertFails
    BY <2>3, <1>4 DEF AssertFails
  <2> QED BY <1>6, <2>1, <2>2, <2>3
          DEF MainStep, ListenPoll, ListenAccept, ListenStop, Drain, JoinFlush,
              ReplayEntry, MainGoes, JournalStep
<1>7. CASE Crash \/ NullWrite
  BY <1>7, <1>4, <1>5 DEF Crash, NullWrite
<1>8. CASE Restart \/ Tick
  BY <1>8 DEF Restart, Tick, JournalStep
<1>9. ASSUME NEW s \in Signals, Signal(s) PROVE JournalStep
  BY <1>9 DEF Signal, JournalStep
<1>10. CASE UNCHANGED vars
  BY <1>10 DEF vars, JournalStep
<1> QED BY <1>1, <1>2, <1>3, <1>6, <1>7, <1>8, <1>9, <1>10 DEF Next

-----------------------------------------------------------------------------
(* Types                                                                   *)

\* The conjuncts of TypeOK, by the parts of the daemon.
StateTypeOK ==
    /\ state \in {"RUNNING", "FLUSHING", "SHUTDOWN"}
    /\ flushAtShutdown \in BOOLEAN
    /\ cacheLock \in Conns \cup {"none", "flush", "leaked"}
    /\ mpc \in MainPCs /\ had \in BOOLEAN /\ fpc \in FlushPCs
    /\ timer \in 0 .. FlushInterval
ConnTypeOK ==
    /\ cpc \in [Conns -> ConnPCs]
    /\ arg \in [Conns -> [file : Files, vals : Seq(Stamps),
                          jtest : BOOLEAN, due : SUBSET Stamps]]
QueueTypeOK ==
    /\ qpc \in [QueueThreads -> QueuePCs]
    /\ job \in [QueueThreads -> [file : Files, batch : Seq(Stamps),
                                 jtest : BOOLEAN, raced : BOOLEAN]]
DiskTypeOK ==
    /\ rlog \in Seq(Entries)
    /\ rrd \in [Files -> Stamps \cup {0}]
    /\ owed \in [Files -> SUBSET Stamps] /\ excused \in [Files -> SUBSET Stamps]
    /\ newest \in [Files -> Stamps \cup {0}]
CountTypeOK ==
    /\ signals \in 0 .. MaxSignals /\ crashes \in 0 .. MaxCrashes
    /\ starts \in 0 .. MaxStarts /\ journalled \in 0 .. MaxJournalled

(* TypeOK is the conjunction of its parts.                                 *)
LEMMA TypeParts ==
    TypeOK <=> /\ CacheTypeOK /\ JournalTypeOK /\ StateTypeOK /\ ConnTypeOK
               /\ QueueTypeOK /\ DiskTypeOK /\ CountTypeOK
BY DEF TypeOK, StateTypeOK, ConnTypeOK, QueueTypeOK, DiskTypeOK, CountTypeOK

(* An idle connection and an idle update thread.                           *)
LEMMA NoArgType ==
    /\ AnyFile \in Files
    /\ NoArg \in [file : Files, vals : Seq(Stamps), jtest : BOOLEAN, due : SUBSET Stamps]
    /\ NoJob \in [file : Files, batch : Seq(Stamps), jtest : BOOLEAN, raced : BOOLEAN]
<1>1. AnyFile \in Files
  BY TypesAssumption DEF AnyFile
<1> QED BY <1>1 DEF NoArg, NoJob

(* State, locks, the main thread and the flush thread.                     *)
LEMMA StateType ==
    ASSUME TypeOK, [Next]_vars
    PROVE  StateTypeOK'
<1> USE DEF StateTypeOK
<1>1. ASSUME NEW c \in Conns, ConnStep(c) PROVE StateTypeOK'
  <2> USE <1>1 DEF TypeOK
  <2>1. CASE UpdateApply(c) \/ ForgetJournal(c)
    BY <2>1 DEF UpdateApply, ForgetJournal, JournalWrite, replayVars
  <2> QED BY <2>1
          DEF ConnStep, ConnStart, ConnPoll, ConnAgain, ConnClose, Command, Request,
              UpdateLookup, UpdateStat, UpdateInsert, FlushFile, FlushReturn,
              FlushAnswer, FlushAll, ForgetRemove, Goes, Answers, replayVars
<1>2. ASSUME NEW q \in QueueThreads, QueueStep(q) PROVE StateTypeOK'
  BY <1>2 DEF TypeOK, QueueStep, QueueLoop, QueueWoken, QueueUpdate, QueueJournal,
              QueueBroadcast, JournalWrite, replayVars
<1>3. CASE FlushStep
  <2>1. FlushInterval \in 0 .. FlushInterval
    BY CacheAssumption
  <2> QED BY <1>3, <2>1 DEF TypeOK, FlushPCs, FlushStep, FlushOld, FlushExit, FlushPrepare,
              FlushWait, FlushTimeout, FlushRelock, FlushGoes, RotateClose, RotateOpen,
              RotateRemove, replayVars
<1>4. ASSUME NEW kept, Die(kept) PROVE StateTypeOK'
  <2>1. FlushInterval \in 0 .. FlushInterval
    BY CacheAssumption
  <2> QED BY <1>4, <2>1, DaemonAssumption DEF Die, MainPCs, FlushPCs
<1>5. CASE MainStep
  <2>1. FlushInterval \in 0 .. FlushInterval
    BY CacheAssumption
  <2>2. CASE AssertFails
    BY <2>2, <1>4 DEF AssertFails
  <2>3. CASE ReplayEntry
    BY <2>3 DEF ReplayEntry, threadVars, TypeOK
  <2>4. CASE ReplayDone
    BY <2>1, <2>4 DEF ReplayDone, replayVars, MainPCs, FlushPCs, TypeOK
  <2>5. CASE ListenPoll \/ ListenAccept \/ ListenStop \/ Drain \/ JoinFlush \/ Cleanup
    BY <2>5 DEF ListenPoll, ListenAccept, ListenStop, Drain, JoinFlush, Cleanup, MainGoes,
                FlushWoken, replayVars, MainPCs, FlushPCs, TypeOK
  <2> QED BY <1>5, <2>2, <2>3, <2>4, <2>5 DEF MainStep
<1>6. CASE Crash \/ NullWrite
  BY <1>6, <1>4 DEF Crash, NullWrite
<1>7. CASE Restart
  <2>1. FlushInterval \in 0 .. FlushInterval
    BY CacheAssumption
  <2> QED BY <1>7, <2>1, DaemonAssumption DEF Restart, MainPCs, FlushPCs
<1>8. CASE Tick
  <2>1. timer' \in 0 .. FlushInterval
    BY <1>8, CacheAssumption DEF Tick, TypeOK
  <2> QED BY <1>8, <2>1 DEF Tick, replayVars, TypeOK
<1>9. ASSUME NEW s \in Signals, Signal(s) PROVE StateTypeOK'
  <2>1. flushAtShutdown' \in BOOLEAN
    BY <1>9 DEF Signal, TypeOK
  <2> QED BY <1>9, <2>1 DEF Signal, FlushWoken, FlushPCs, replayVars, TypeOK
<1>10. CASE UNCHANGED vars
  BY <1>10 DEF vars, threadVars, replayVars, TypeOK
<1> QED BY <1>1, <1>2, <1>3, <1>5, <1>6, <1>7, <1>8, <1>9, <1>10 DEF Next

(* The connections and their requests.                                     *)
LEMMA ConnType ==
    ASSUME TypeOK, [Next]_vars
    PROVE  ConnTypeOK'
<1> DEFINE Args == [file : Files, vals : Seq(Stamps), jtest : BOOLEAN, due : SUBSET Stamps]
<1>0. /\ NoArg \in Args /\ jopen \in BOOLEAN
      /\ cpc \in [Conns -> ConnPCs] /\ arg \in [Conns -> Args]
      /\ \A f \in Files : owed[f] \in SUBSET Stamps
  BY NoArgType DEF TypeOK, JournalTypeOK
<1>1. ASSUME NEW c \in Conns, ConnStep(c) PROVE ConnTypeOK'
  <2>1. ASSUME NEW command \in Commands, NEW f \in Files, NEW vals \in Seq(Stamps),
               Request(c, command, f, vals)
        PROVE  ConnTypeOK'
    <3>1. command \in ConnPCs
      BY DaemonAssumption DEF ConnPCs
    <3>2. [NoArg EXCEPT !.file = f, !.vals = vals] \in Args
      BY <1>0
    <3> QED BY <1>0, <2>1, <3>1, <3>2 DEF Request, ConnTypeOK
  <2>2. CASE Command(c)
    <3>1. <<>> \in Seq(Stamps) /\ UpdateArgs \subseteq Seq(Stamps)
      BY DaemonAssumption
    <3> QED BY <2>1, <2>2, <3>1 DEF Command, Request
  <2>3. CASE ConnStart(c) \/ ConnPoll(c) \/ ConnAgain(c) \/ ConnClose(c) \/ UpdateStat(c)
             \/ FlushReturn(c) \/ FlushAnswer(c)
    BY <1>0, <2>3 DEF ConnTypeOK, ConnPCs, ConnStart, ConnPoll, ConnAgain, ConnClose,
                      UpdateStat, FlushReturn, FlushAnswer, Goes, Answers
  <2>0. [arg EXCEPT ![c].jtest = jopen] \in [Conns -> Args]
    <3>1. arg[c] \in Args
      BY <1>0
    <3>2. [arg[c] EXCEPT !.jtest = jopen] \in Args
      BY <1>0, <3>1
    <3> QED BY <1>0, <3>2
  <2>4. CASE UpdateLookup(c)
    BY <1>0, <2>4, <2>0 DEF UpdateLookup, ConnTypeOK, ConnPCs
  <2>5. CASE UpdateInsert(c)
    BY <1>0, <2>5, <2>0 DEF UpdateInsert, ConnTypeOK, ConnPCs
  <2>6. CASE UpdateApply(c) \/ ForgetJournal(c)
    BY <1>0, <2>6 DEF UpdateApply, ForgetJournal, ConnTypeOK, ConnPCs
  <2>7. CASE FlushFile(c)
    BY <1>0, <2>7 DEF FlushFile, ConnTypeOK, ConnPCs
  <2>8. CASE FlushAll(c)
    BY <1>0, <2>8 DEF FlushAll, Flushed, ConnTypeOK, ConnPCs
  <2>9. CASE ForgetRemove(c)
    BY <1>0, <2>9, <2>0 DEF ForgetRemove, Flushed, ConnTypeOK, ConnPCs
  <2> QED BY <1>1, <2>2, <2>3, <2>4, <2>5, <2>6, <2>7, <2>8, <2>9 DEF ConnStep
<1>2. ASSUME NEW q \in QueueThreads, QueueStep(q) PROVE ConnTypeOK'
  BY <1>0, <1>2 DEF QueueStep, QueueLoop, QueueWoken, QueueUpdate, QueueJournal,
                    QueueBroadcast, WokenBy, Flushed, ConnTypeOK, ConnPCs
<1>3. CASE FlushStep
  BY <1>0, <1>3 DEF FlushStep, FlushOld, FlushExit, FlushPrepare, FlushWait, FlushTimeout,
              FlushRelock, FlushGoes, RotateClose, RotateOpen, RotateRemove, Flushed,
              ConnTypeOK, ConnPCs
<1>4. ASSUME NEW kept, Die(kept) PROVE ConnTypeOK'
  BY <1>0, <1>4 DEF Die, ConnTypeOK, ConnPCs
<1>5. CASE MainStep
  BY <1>0, <1>4, <1>5 DEF MainStep, ListenPoll, ListenAccept, ListenStop, Drain, JoinFlush,
              Cleanup, MainGoes, AssertFails, ReplayEntry, ReplayDone, threadVars,
              ConnTypeOK, ConnPCs
<1>6. CASE Crash \/ NullWrite
  BY <1>6, <1>4 DEF Crash, NullWrite
<1>7. CASE Restart
  BY <1>0, <1>7 DEF Restart, ConnTypeOK, ConnPCs
<1>8. CASE Tick \/ UNCHANGED vars
  BY <1>0, <1>8 DEF Tick, vars, threadVars, ConnTypeOK
<1>9. ASSUME NEW s \in Signals, Signal(s) PROVE ConnTypeOK'
  BY <1>0, <1>9 DEF Signal, ConnTypeOK
<1> QED BY <1>1, <1>2, <1>3, <1>5, <1>6, <1>7, <1>8, <1>9 DEF Next

(* Waking update threads keeps their types.                                *)
LEMMA WakeQueueType ==
    ASSUME qpc \in [QueueThreads -> QueuePCs], NEW n, WakeQueue(n)
    PROVE  qpc' \in [QueueThreads -> QueuePCs]
BY DEF WakeQueue, QueuePCs

(* The update threads and their batches.                                   *)
LEMMA QueueType ==
    ASSUME IInv, [Next]_vars
    PROVE  QueueTypeOK'
<1> DEFINE Jobs == [file : Files, batch : Seq(Stamps), jtest : BOOLEAN, raced : BOOLEAN]
<1>0. /\ NoJob \in Jobs /\ jopen \in BOOLEAN
      /\ qpc \in [QueueThreads -> QueuePCs] /\ job \in [QueueThreads -> Jobs]
  BY NoArgType DEF IInv, TypeOK, JournalTypeOK
<1>1. ASSUME NEW c \in Conns, ConnStep(c) PROVE QueueTypeOK'
  <2>1. job' = job /\ (UNCHANGED qpc \/ \E n : WakeQueue(n))
    BY <1>1 DEF ConnStep, ConnStart, ConnPoll, ConnAgain, ConnClose, Command, Request,
              UpdateLookup, UpdateStat, UpdateInsert, UpdateApply, FlushFile, FlushReturn,
              FlushAnswer, FlushAll, ForgetRemove, ForgetJournal, Goes, Answers
  <2> QED BY <1>0, <2>1, WakeQueueType DEF QueueTypeOK
<1>2. ASSUME NEW q \in QueueThreads, QueueStep(q) PROVE QueueTypeOK'
  <2>1. CASE Dequeue(q)
    <3>1. Head(queue) \in Files /\ values[Head(queue)] \in Seq(Stamps)
      BY <2>1, HeadQueued DEF Dequeue, IInv, TypeOK, CacheTypeOK
    <3>2. ASSUME NEW b \in BOOLEAN
          PROVE  [file |-> Head(queue), batch |-> values[Head(queue)],
                  jtest |-> FALSE, raced |-> b] \in Jobs
      BY <3>1
    <3>3. ASSUME NEW p \in QueueThreads PROVE [job[p] EXCEPT !.raced = TRUE] \in Jobs
      BY <1>0
    <3>4. job' \in [QueueThreads -> Jobs]
      BY <1>0, <2>1, <3>2, <3>3 DEF Dequeue
    <3> QED BY <1>0, <2>1, <3>4 DEF Dequeue, QueueTypeOK, QueuePCs
  <2>2. CASE QueueUpdate(q)
    <3>1. [job[q] EXCEPT !.batch = <<>>, !.raced = FALSE, !.jtest = jopen] \in Jobs
      <4>1. job[q] \in Jobs /\ <<>> \in Seq(Stamps)
        BY <1>0
      <4> QED BY <4>1, <1>0
    <3>2. job' = [job EXCEPT ![q] =
                    [job[q] EXCEPT !.batch = <<>>, !.raced = FALSE, !.jtest = jopen]]
      BY <1>0, <2>2 DEF QueueUpdate
    <3> QED BY <1>0, <2>2, <3>1, <3>2 DEF QueueUpdate, QueueTypeOK, QueuePCs
  <2>3. CASE QueueJournal(q)
    BY <1>0, <2>3 DEF QueueJournal, QueueTypeOK, QueuePCs
  <2>4. CASE QueueBroadcast(q)
    BY <1>0, <2>4 DEF QueueBroadcast, QueueTypeOK, QueuePCs
  <2>5. CASE job' = job /\ \E pc \in {"done", "wait", "loop"} :
                              qpc' = [qpc EXCEPT ![q] = pc]
    BY <1>0, <2>5 DEF QueueTypeOK, QueuePCs
  <2> QED BY <1>2, <2>1, <2>2, <2>3, <2>4, <2>5 DEF QueueStep, QueueLoop, QueueWoken
<1>3. CASE FlushStep
  <2>1. job' = job /\ (UNCHANGED qpc \/ \E n : WakeQueue(n))
    BY <1>3 DEF FlushStep, FlushOld, FlushExit, FlushPrepare, FlushWait, FlushTimeout,
              FlushRelock, FlushGoes, RotateClose, RotateOpen, RotateRemove
  <2> QED BY <1>0, <2>1, WakeQueueType DEF QueueTypeOK
<1>4. ASSUME NEW kept, Die(kept) PROVE QueueTypeOK'
  BY <1>0, <1>4 DEF Die, QueueTypeOK, QueuePCs
<1>5. CASE MainStep
  BY <1>0, <1>4, <1>5 DEF MainStep, ListenPoll, ListenAccept, ListenStop, Drain, JoinFlush,
              Cleanup, MainGoes, AllWoken, AssertFails, ReplayEntry, ReplayDone, threadVars,
              QueueTypeOK, QueuePCs
<1>6. CASE Crash \/ NullWrite
  BY <1>6, <1>4 DEF Crash, NullWrite
<1>7. CASE Restart
  BY <1>0, <1>7 DEF Restart, QueueTypeOK, QueuePCs
<1>8. CASE Tick \/ UNCHANGED vars
  BY <1>0, <1>8 DEF Tick, vars, threadVars, QueueTypeOK
<1>9. ASSUME NEW s \in Signals, Signal(s) PROVE QueueTypeOK'
  BY <1>0, <1>9 DEF Signal, AllWoken, QueueTypeOK, QueuePCs
<1> QED BY <1>1, <1>2, <1>3, <1>5, <1>6, <1>7, <1>8, <1>9 DEF Next

(* The elements of a list of values are stamps.                            *)
LEMMA ElementsType ==
    ASSUME NEW s \in Seq(Stamps), NEW m \in 1 .. Len(s) + 1, NEW n \in 0 .. Len(s)
    PROVE  ElementsOf(s) \subseteq Stamps /\ ElementsOf(SubSeq(s, m, n)) \subseteq Stamps
<1>1. SubSeq(s, m, n) \in Seq(Stamps)
  <2>1. \A i \in m .. n : s[i] \in Stamps
    OBVIOUS
  <2> QED BY <2>1, SubSeqProperties
<1> HIDE DEF ElementsOf
<1>2. ASSUME NEW t \in Seq(Stamps) PROVE ElementsOf(t) \subseteq Stamps
  BY DEF ElementsOf
<1> QED BY <1>1, <1>2

(* Recording a gap of the journal keeps the type.                          *)
LEMMA ExcusedType ==
    ASSUME TypeOK, NEW e \in [Files -> SUBSET Stamps], ExcusedIs(e)
    PROVE  excused' \in [Files -> SUBSET Stamps]
BY DEF TypeOK, ExcusedIs

(* The RRD files, what is owed to them, and what clients have sent.        *)
LEMMA DiskType ==
    ASSUME IInv, [Next]_vars
    PROVE  DiskTypeOK'
<1>0. /\ rlog \in Seq(Entries) /\ rrd \in [Files -> Stamps \cup {0}]
      /\ owed \in [Files -> SUBSET Stamps] /\ excused \in [Files -> SUBSET Stamps]
      /\ newest \in [Files -> Stamps \cup {0}]
  BY DEF IInv, TypeOK
<1>1. CASE UNCHANGED <<rlog, rrd, owed, excused, newest>>
  BY <1>0, <1>1 DEF DiskTypeOK
<1>2. ASSUME NEW c \in Conns, ConnStep(c) PROVE DiskTypeOK'
  <2>0. arg[c].file \in Files /\ arg[c].vals \in Seq(Stamps)
    BY DEF IInv, TypeOK
  <2>1. CASE Command(c)
    <3>1. \/ UNCHANGED newest
          \/ \E f \in Files, vals \in UpdateArgs :
                \E m \in {newest[f]} \cup ElementsOf(vals) :
                   newest' = [newest EXCEPT ![f] =
                                 IF StaleClients \/ f \notin RrdFiles THEN @ ELSE m]
      BY <2>1 DEF Command
    <3>2. ASSUME NEW f \in Files, NEW vals \in UpdateArgs,
                 NEW m \in {newest[f]} \cup ElementsOf(vals)
          PROVE  m \in Stamps \cup {0}
      BY <1>0, DaemonAssumption DEF ElementsOf
    <3>3. newest' \in [Files -> Stamps \cup {0}]
      BY <1>0, <3>1, <3>2
    <3>4. UNCHANGED <<rlog, rrd, owed, excused>>
      BY <2>1 DEF Command, Request, replayVars, diskVars
    <3> QED BY <1>0, <3>3, <3>4 DEF DiskTypeOK
  <2>2. CASE UpdateApply(c)
    <3> DEFINE f == arg[c].file
               vals == arg[c].vals
    <3>1. PICK n \in Taken(lastStamp[f], vals) :
            /\ owed' = [owed EXCEPT ![f] = @ \cup ElementsOf(SubSeq(vals, 1, n))]
            /\ ExcusedIs([excused EXCEPT ![f] =
                  IF arg[c].jtest /\ (fpc = "done" => ~flushAtShutdown') THEN @
                  ELSE @ \cup ElementsOf(SubSeq(vals, 1, n))])
      BY <2>2 DEF UpdateApply
    <3>2. ElementsOf(SubSeq(vals, 1, n)) \subseteq Stamps
      <4>1. n \in 0 .. Len(vals) /\ 1 \in 1 .. Len(vals) + 1
        BY <2>0 DEF Taken
      <4> QED BY <2>0, <4>1, ElementsType
    <3> DEFINE new == ElementsOf(SubSeq(vals, 1, n))
               e == [excused EXCEPT ![f] =
                        IF arg[c].jtest /\ (fpc = "done" => ~flushAtShutdown') THEN @
                        ELSE @ \cup new]
    <3>3. owed' \in [Files -> SUBSET Stamps] /\ e \in [Files -> SUBSET Stamps]
      <4> HIDE DEF new
      <4>1. new \subseteq Stamps /\ owed' = [owed EXCEPT ![f] = @ \cup new]
        BY <3>1, <3>2 DEF new
      <4> QED BY <1>0, <2>0, <4>1
    <3>4. ExcusedIs(e)
      BY <3>1
    <3> HIDE DEF e, new
    <3>5. excused' \in [Files -> SUBSET Stamps]
      BY <3>3, <3>4, ExcusedType DEF IInv
    <3>6. UNCHANGED <<rlog, rrd, newest>>
      BY <2>2 DEF UpdateApply, replayVars
    <3> QED BY <1>0, <3>3, <3>5, <3>6 DEF DiskTypeOK
  <2>3. CASE ForgetRemove(c)
    <3>1. UNCHANGED <<rlog, rrd, newest>>
      BY <2>3 DEF ForgetRemove, replayVars
    <3>2. owed' \in [Files -> SUBSET Stamps]
      BY <1>0, <2>0, <2>3 DEF ForgetRemove
    <3>3. excused' \in [Files -> SUBSET Stamps]
      BY <1>0, <2>0, <2>3 DEF ForgetRemove
    <3> QED BY <1>0, <3>1, <3>2, <3>3 DEF DiskTypeOK
  <2>4. CASE ForgetJournal(c)
    <3> DEFINE e == [excused EXCEPT ![arg[c].file] = @ \cup owed[arg[c].file]]
    <3>1. e \in [Files -> SUBSET Stamps]
      BY <1>0, <2>0
    <3>2. UNCHANGED <<rlog, rrd, owed, newest>> /\ (UNCHANGED excused \/ ExcusedIs(e))
      BY <2>4 DEF ForgetJournal, replayVars
    <3> HIDE DEF e
    <3> QED BY <1>0, <3>1, <3>2, ExcusedType DEF IInv, DiskTypeOK
  <2> QED BY <1>1, <1>2, <2>1, <2>2, <2>3, <2>4
          DEF ConnStep, ConnStart, ConnPoll, ConnAgain, ConnClose, UpdateLookup,
              UpdateStat, UpdateInsert, FlushFile, FlushReturn, FlushAnswer, FlushAll,
              Goes, Answers, replayVars, diskVars
<1>3. ASSUME NEW q \in QueueThreads, QueueStep(q) PROVE DiskTypeOK'
  <2>0. job[q].file \in Files /\ job[q].batch \in Seq(Stamps)
    BY DEF IInv, TypeOK
  <2>1. CASE QueueUpdate(q)
    <3> DEFINE f == job[q].file
               batch == job[q].batch
    <3>1. PICK n \in Written(q) :
            /\ rrd' = [rrd EXCEPT ![f] = IF n = 0 THEN @ ELSE batch[n]]
            /\ owed' = [owed EXCEPT ![f] = @ \ ElementsOf(SubSeq(batch, 1, n))]
            /\ excused' = [excused EXCEPT ![f] =
                  (@ \ ElementsOf(SubSeq(batch, 1, n)))
                  \cup (ElementsOf(SubSeq(batch, n + 1, Len(batch))) \cap owed[f])]
      BY <2>1 DEF QueueUpdate
    <3>2. n \in 0 .. Len(batch)
      BY DEF Written, Taken
    <3>3. n # 0 => batch[n] \in Stamps
      BY <2>0, <3>2
    <3>4. rrd' \in [Files -> Stamps \cup {0}]
      BY <1>0, <2>0, <3>1, <3>3
    <3>5. owed' \in [Files -> SUBSET Stamps] /\ excused' \in [Files -> SUBSET Stamps]
      BY <1>0, <2>0, <3>1
    <3>6. UNCHANGED <<rlog, newest>>
      BY <2>1 DEF QueueUpdate, replayVars
    <3> QED BY <1>0, <3>4, <3>5, <3>6 DEF DiskTypeOK
  <2>2. CASE QueueJournal(q)
    <3> DEFINE e == [excused EXCEPT ![job[q].file] = @ \cup owed[job[q].file]]
    <3>1. e \in [Files -> SUBSET Stamps]
      BY <1>0, <2>0
    <3>2. UNCHANGED <<rlog, rrd, owed, newest>> /\ (UNCHANGED excused \/ ExcusedIs(e))
      BY <2>2 DEF QueueJournal, replayVars
    <3> HIDE DEF e
    <3> QED BY <1>0, <3>1, <3>2, ExcusedType DEF IInv, DiskTypeOK
  <2> QED BY <1>1, <1>3, <2>1, <2>2
          DEF QueueStep, QueueLoop, QueueWoken, QueueBroadcast, replayVars, diskVars
<1>4. CASE FlushStep
  <2>1. CASE RotateClose
    BY <1>0, <2>1 DEF RotateClose, replayVars, DiskTypeOK
  <2> QED BY <1>1, <1>4, <2>1
          DEF FlushStep, FlushOld, FlushExit, FlushPrepare, FlushWait, FlushTimeout,
              FlushRelock, FlushGoes, RotateOpen, RotateRemove, replayVars, diskVars
<1>5. ASSUME NEW kept, Die(kept) PROVE DiskTypeOK'
  BY <1>0, <1>5 DEF Die, DiskTypeOK
<1>6. CASE MainStep
  <2>1. CASE AssertFails
    BY <2>1, <1>5 DEF AssertFails
  <2>2. CASE ReplayEntry
    <3>1. rlog' \in Seq(Entries)
      BY <1>0, <2>2 DEF ReplayEntry
    <3> QED BY <1>0, <2>2, <3>1 DEF ReplayEntry, diskVars, DiskTypeOK
  <2> QED BY <1>1, <1>6, <2>1, <2>2
          DEF MainStep, ListenPoll, ListenAccept, ListenStop, Drain, JoinFlush,
              Cleanup, MainGoes, ReplayDone, replayVars, diskVars
<1>7. CASE Crash \/ NullWrite
  BY <1>7, <1>5 DEF Crash, NullWrite
<1>8. CASE Restart
  <2>1. Found \in Seq(Entries)
    BY DEF Found, IInv, TypeOK, JournalTypeOK
  <2> QED BY <1>0, <1>8, <2>1 DEF Restart, diskVars, DiskTypeOK
<1>9. CASE Tick \/ UNCHANGED vars
  BY <1>1, <1>9 DEF Tick, vars, replayVars, diskVars
<1>10. ASSUME NEW s \in Signals, Signal(s) PROVE DiskTypeOK'
  <2>1. UNCHANGED <<rlog, rrd, owed, newest>> /\ ExcusedIs(excused)
    BY <1>10 DEF Signal, replayVars
  <2> QED BY <1>0, <2>1, ExcusedType DEF IInv, DiskTypeOK
<1> QED BY <1>2, <1>3, <1>4, <1>6, <1>7, <1>8, <1>9, <1>10 DEF Next

(* The counters that bound the signals, crashes, starts and requests.      *)
LEMMA CountType ==
    ASSUME TypeOK, [Next]_vars
    PROVE  CountTypeOK'
<1>0. /\ signals \in 0 .. MaxSignals /\ crashes \in 0 .. MaxCrashes
      /\ starts \in 0 .. MaxStarts /\ journalled \in 0 .. MaxJournalled
      /\ MaxSignals \in Nat /\ MaxCrashes \in Nat /\ MaxStarts \in Nat
      /\ MaxJournalled \in Nat
  BY DaemonAssumption DEF TypeOK
<1>1. CASE UNCHANGED countVars
  BY <1>0, <1>1 DEF countVars, CountTypeOK
<1>2. ASSUME NEW c \in Conns, ConnStep(c) PROVE CountTypeOK'
  <2>1. CASE Command(c)
    <3>1. /\ UNCHANGED <<signals, crashes, starts>>
          /\ \/ UNCHANGED journalled
             \/ journalled < MaxJournalled /\ journalled' = journalled + 1
      BY <2>1 DEF Command, Request
    <3>2. journalled' \in 0 .. MaxJournalled
      BY <1>0, <3>1
    <3> QED BY <1>0, <3>1, <3>2 DEF CountTypeOK
  <2> QED BY <1>1, <1>2, <2>1
          DEF ConnStep, ConnStart, ConnPoll, ConnAgain, ConnClose, UpdateLookup,
              UpdateStat, UpdateInsert, UpdateApply, FlushFile, FlushReturn, FlushAnswer,
              FlushAll, ForgetRemove, ForgetJournal, Goes, Answers
<1>3. ASSUME NEW q \in QueueThreads, QueueStep(q) PROVE CountTypeOK'
  BY <1>1, <1>3 DEF QueueStep, QueueLoop, QueueWoken, QueueUpdate, QueueJournal,
                    QueueBroadcast
<1>4. CASE FlushStep
  BY <1>1, <1>4 DEF FlushStep, FlushOld, FlushExit, FlushPrepare, FlushWait, FlushTimeout,
                    FlushRelock, FlushGoes, RotateClose, RotateOpen, RotateRemove
<1>5. CASE MainStep
  BY <1>1, <1>5 DEF MainStep, ListenPoll, ListenAccept, ListenStop, Drain, JoinFlush,
                    Cleanup, MainGoes, ReplayEntry, ReplayDone, AssertFails, Die, countVars
<1>6. CASE Crash
  <2>1. crashes < MaxCrashes /\ crashes' = crashes + 1 /\ UNCHANGED <<signals, starts, journalled>>
    BY <1>6 DEF Crash, Die
  <2>2. crashes' \in 0 .. MaxCrashes
    BY <1>0, <2>1
  <2> QED BY <1>0, <2>1, <2>2 DEF CountTypeOK
<1>7. CASE NullWrite
  BY <1>1, <1>7 DEF NullWrite, Die, countVars
<1>8. CASE Restart
  <2>1. starts < MaxStarts /\ starts' = starts + 1 /\ UNCHANGED <<signals, crashes, journalled>>
    BY <1>8 DEF Restart
  <2>2. starts' \in 0 .. MaxStarts
    BY <1>0, <2>1
  <2> QED BY <1>0, <2>1, <2>2 DEF CountTypeOK
<1>9. ASSUME NEW s \in Signals, Signal(s) PROVE CountTypeOK'
  <2>1. /\ signals < MaxSignals /\ signals' = signals + 1
        /\ UNCHANGED <<crashes, starts, journalled>>
    BY <1>9 DEF Signal
  <2>2. signals' \in 0 .. MaxSignals
    BY <1>0, <2>1
  <2> QED BY <1>0, <2>1, <2>2 DEF CountTypeOK
<1>10. CASE Tick \/ UNCHANGED vars
  BY <1>1, <1>10 DEF Tick, vars
<1> QED BY <1>2, <1>3, <1>4, <1>5, <1>6, <1>7, <1>8, <1>9, <1>10 DEF Next

-----------------------------------------------------------------------------
(* The inductive invariant                                                 *)

(* The invariant holds of a new daemon.                                    *)
LEMMA InitInv == Init => IInv
<1> SUFFICES ASSUME Init PROVE IInv
  OBVIOUS
<1>1. CacheInv
  BY CacheGoneKeeps DEF Init
<1>2. JournalTypeOK
  <2>1. <<>> \in Seq(Entries) /\ 0 \in 0 .. Len(<<>>) /\ 0 \in 0 .. MaxJournalFailures
    BY JournalAssumption
  <2> QED BY <2>1 DEF Init, JournalInit, JournalTypeOK
<1>3. StateTypeOK
  <2>1. FlushInterval \in 0 .. FlushInterval
    BY CacheAssumption
  <2> QED BY <2>1, DaemonAssumption DEF Init, StateTypeOK, MainPCs, FlushPCs
<1>4. ConnTypeOK /\ QueueTypeOK
  BY NoArgType DEF Init, ConnTypeOK, QueueTypeOK, ConnPCs, QueuePCs
<1>5. DiskTypeOK
  BY DEF Init, DiskTypeOK
<1>6. CountTypeOK
  BY DaemonAssumption DEF Init, CountTypeOK
<1>7. LookupSound
  BY DEF Init, LookupSound
<1> QED BY <1>1, <1>2, <1>3, <1>4, <1>5, <1>6, <1>7, TypeParts, ControlInit
        DEF CacheInv, IInv

(* Every step keeps the invariant.                                         *)
LEMMA NextInv == IInv /\ [Next]_vars => IInv'
<1> SUFFICES ASSUME IInv, [Next]_vars PROVE IInv'
  OBVIOUS
<1>1. TypeOK /\ ControlSound /\ CacheInv /\ JournalTypeOK
  BY DEF IInv, TypeOK, CacheInv
<1>2. ControlSound'
  BY <1>1, NextControl
<1>3. CacheInv' /\ LookupSound'
  BY <1>1, NextCache, CacheStaysSound DEF Tick, CacheStep
<1>4. JournalTypeOK'
  BY <1>1, NextJournal, JournalStaysTyped
<1>5. StateTypeOK' /\ ConnTypeOK' /\ CountTypeOK'
  BY <1>1, StateType, ConnType, CountType
<1>6. QueueTypeOK' /\ DiskTypeOK'
  BY QueueType, DiskType
<1>7. TypeOK'
  BY <1>3, <1>4, <1>5, <1>6
     DEF CacheInv, TypeOK, StateTypeOK, ConnTypeOK, QueueTypeOK, DiskTypeOK, CountTypeOK
<1> QED BY <1>2, <1>3, <1>7 DEF IInv, CacheInv

(* The invariant always holds.                                             *)
LEMMA AlwaysInv == Spec => []IInv
BY InitInv, NextInv, PTL DEF Spec

(* Every variable of the daemon keeps its type.                            *)
THEOREM DaemonTyped == Spec => []TypeOK
<1>1. IInv => TypeOK
  BY DEF IInv
<1> QED BY <1>1, AlwaysInv, PTL

(* However the threads interleave, crash and restart, the assertions of    *)
(* queue_thread_main and enqueue_cache_item hold: a queued file is queued  *)
(* once and has a cache item with values.                                  *)
THEOREM DaemonQueueSound == Spec => []QueueSound
<1>1. IInv => QueueSound
  BY DEF IInv
<1> QED BY <1>1, AlwaysInv, PTL

(* The values of an item always move forward in time, and a purged or      *)
(* forgotten item leaves nothing behind.                                   *)
THEOREM DaemonItemsSound == Spec => []ItemsSound
<1>1. IInv => ItemsSound
  BY DEF IInv
<1> QED BY <1>1, AlwaysInv, PTL

(* cache_lock is held by an UPDATE that is being applied, by the flush     *)
(* thread on its way to its wait, or it has been leaked, and then the      *)
(* flush thread has ended.                                                 *)
THEOREM DaemonLockSound == Spec => []LockSound
<1>1. IInv => LockSound
  BY DEF IInv, ControlSound
<1> QED BY <1>1, AlwaysInv, PTL

(* cleanup takes the daemon apart only when no request is being handled.   *)
THEOREM DaemonCleanupAlone == Spec => []NoRequestDuringCleanup
<1>1. IInv => NoRequestDuringCleanup
  BY DEF IInv, ControlSound
<1> QED BY <1>1, AlwaysInv, PTL

-----------------------------------------------------------------------------
(* How long a value waits                                                  *)

\* Every value is queued by the time the flush thread has come round.
TimerSound ==
    /\ mpc \in {"replay", "exit", "crashed"} => \A f \in Files : waited[f] = 0
    /\ \A f \in Files : waited[f] + timer <= StalenessBound

WaitInv == WaitsSound /\ TimerSound

(* The types of what the bound on waiting is computed from.                *)
LEMMA WaitNumbers ==
    TypeOK => /\ \A f \in Files : waited[f] \in Nat
              /\ timer \in Nat /\ timer <= FlushInterval
              /\ StalenessBound \in Int /\ FlushInterval <= StalenessBound
              /\ FlushInterval \in Nat
<1> SUFFICES ASSUME TypeOK
             PROVE  /\ \A f \in Files : waited[f] \in Nat
                    /\ timer \in Nat /\ timer <= FlushInterval
                    /\ StalenessBound \in Int /\ FlushInterval <= StalenessBound
                    /\ FlushInterval \in Nat
  OBVIOUS
<1>1. StalenessBound \in Int /\ FlushInterval <= StalenessBound
  BY CacheAssumption, AgeFacts DEF StalenessBound
<1>2. \A f \in Files : waited[f] \in Nat
  BY AgeFacts DEF TypeOK, CacheTypeOK
<1>3. timer \in Nat /\ timer <= FlushInterval
  BY CacheAssumption DEF TypeOK
<1> QED BY <1>1, <1>2, <1>3, CacheAssumption

(* Nothing waits in a new daemon.                                          *)
LEMMA InitWaits == Init => WaitInv
<1> SUFFICES ASSUME Init PROVE WaitInv
  OBVIOUS
<1>1. TypeOK
  BY InitInv DEF IInv
<1>2. WaitsSound
  BY AgeFacts DEF Init, CacheInit, WaitsSound
<1>3. \A f \in Files : waited[f] = 0
  BY DEF Init, CacheInit
<1>4. TimerSound
  BY <1>1, <1>3, WaitNumbers DEF TimerSound
<1> QED BY <1>2, <1>4 DEF WaitInv

(* Only the clock, the flush thread's round and a new process change the   *)
(* timer, and only the main thread moves.                                  *)
LEMMA TimerMoves ==
    ASSUME TypeOK, [Next]_vars
    PROVE  \/ UNCHANGED timer /\ (mpc' \in {"replay", "exit", "crashed"} => mpc' = mpc)
           \/ Tick \/ FlushOld \/ ReplayDone \/ Cleanup \/ Restart
           \/ \E kept : Die(kept)
<1>1. ASSUME NEW c \in Conns, ConnStep(c) PROVE UNCHANGED <<timer, mpc>>
  BY <1>1 DEF ConnStep, ConnStart, ConnPoll, ConnAgain, ConnClose, Command, Request,
              UpdateLookup, UpdateStat, UpdateInsert, UpdateApply, FlushFile, FlushReturn,
              FlushAnswer, FlushAll, ForgetRemove, ForgetJournal, Goes, Answers
<1>2. ASSUME NEW q \in QueueThreads, QueueStep(q) PROVE UNCHANGED <<timer, mpc>>
  BY <1>2 DEF QueueStep, QueueLoop, QueueWoken, QueueUpdate, QueueJournal, QueueBroadcast
<1>3. CASE FlushStep
  BY <1>3 DEF FlushStep, FlushExit, FlushPrepare, FlushWait, FlushTimeout,
              FlushRelock, FlushGoes, RotateClose, RotateOpen, RotateRemove
<1>4. CASE MainStep
  BY <1>4 DEF MainStep, ListenPoll, ListenAccept, ListenStop, Drain, JoinFlush,
              MainGoes, ReplayEntry, AssertFails, threadVars
<1>5. ASSUME NEW s \in Signals, Signal(s) PROVE UNCHANGED <<timer, mpc>>
  BY <1>5 DEF Signal
<1>6. CASE Crash \/ NullWrite
  BY <1>6 DEF Crash, NullWrite
<1>7. CASE UNCHANGED vars
  BY <1>7 DEF vars, threadVars
<1> QED BY <1>1, <1>2, <1>3, <1>4, <1>5, <1>6, <1>7 DEF Next

(* Every step keeps the bound on waiting.                                  *)
LEMMA NextWaits ==
    ASSUME IInv, IInv', WaitInv, [Next]_vars
    PROVE  WaitInv'
<1>0. /\ CacheInv /\ TypeOK /\ TypeOK' /\ WaitsSound /\ TimerSound
      /\ \A f \in Files : waited[f] \in Nat /\ waited'[f] \in Nat
      /\ timer \in Nat /\ timer' \in Nat /\ timer' <= FlushInterval
      /\ StalenessBound \in Int /\ FlushInterval <= StalenessBound
      /\ FlushInterval \in Nat
  <2>1. TypeOK /\ TypeOK'
    BY DEF IInv
  <2>2. \A f \in Files : waited'[f] \in Nat
    BY <2>1, AgeFacts DEF TypeOK, CacheTypeOK
  <2>3. timer' \in Nat /\ timer' <= FlushInterval
    BY <2>1, CacheAssumption DEF TypeOK
  <2> QED BY <2>1, <2>2, <2>3, WaitNumbers DEF IInv, WaitInv, TypeOK, CacheInv
<1>1. CASE Tick
  <2> DEFINE b == fpc \notin {"off", "done"} /\ state = "RUNNING"
  <2>1. CacheTick(b) /\ b \in BOOLEAN /\ UNCHANGED mpc
    BY <1>1 DEF Tick
  <2>2. /\ WaitsSound'
        /\ \A f \in Files : waited'[f] = waited[f] \/ (b /\ waited'[f] = waited[f] + 1)
    BY <1>0, <2>1, TickWaits
  <2>3. b => timer > 0 /\ timer' = timer - 1
    BY <1>1 DEF Tick
  <2>4. timer' <= timer
    BY <1>0, <1>1 DEF Tick
  <2>5. mpc' \in {"replay", "exit", "crashed"} => ~b
    BY <1>1, <2>1 DEF Tick, Alive, IInv, ControlSound
  <2> HIDE DEF b
  <2>6. TimerSound'
    BY <1>0, <2>1, <2>2, <2>3, <2>4, <2>5 DEF TimerSound
  <2> QED BY <2>2, <2>6 DEF WaitInv
<1>2. CASE ~Tick
  <2>1. WaitsSound' /\ \A f \in Files : waited'[f] <= waited[f]
    BY <1>0, <1>2, NextCache, WaitsStaySound
  <2>2. CASE UNCHANGED timer /\ (mpc' \in {"replay", "exit", "crashed"} => mpc' = mpc)
    BY <1>0, <2>1, <2>2 DEF TimerSound, WaitInv
  <2>3. CASE (\A f \in Files : waited'[f] = 0)
    BY <1>0, <2>1, <2>3 DEF TimerSound, WaitInv
  <2>4. CASE FlushOld
    <3>1. ASSUME NEW f \in Files PROVE waited'[f] + timer' <= StalenessBound
      <4>1. WriteInterval \in Int /\ FlushOldValues(WriteInterval, TRUE)
            /\ timer' = FlushInterval
        <5>1. WriteInterval \in Int
          BY CacheAssumption
        <5> QED BY <2>4, <5>1 DEF FlushOld
      <4>2. /\ \A g : InQueue(queue', g) <=>
                        InQueue(queue, g) \/ g \in OldItems(WriteInterval, TRUE)
            /\ waited'[f] = 0 \/ (waited'[f] = waited[f] /\ ~InQueue(queue', f))
        BY <1>0, <4>1, FlushedOldValues
      <4>3. CASE waited'[f] = 0
        BY <1>0, <4>3
      <4>4. CASE waited[f] # 0 /\ waited'[f] = waited[f] /\ ~InQueue(queue', f)
        <5>1. values[f] # <<>> /\ f \notin OldItems(WriteInterval, TRUE)
              /\ ~InQueue(queue, f) /\ f \in tree
          BY <1>0, <4>2, <4>4 DEF WaitsSound, CacheInv, ItemsSound
        <5>2. age[f] \in Int /\ ~(age[f] >= WriteInterval)
          BY <1>0, <5>1 DEF OldItems, CacheInv, CacheTypeOK
        <5>3. age[f] < AgeCap /\ age[f] <= WriteInterval - 1
          BY <5>2, CacheAssumption DEF AgeCap
        <5>4. waited[f] <= age[f] - MinAge
          BY <1>0, <5>3 DEF WaitsSound
        <5> QED BY <1>0, <4>1, <4>4, <5>2, <5>3, <5>4, AgeFacts, CacheAssumption
                DEF StalenessBound
      <4> QED BY <4>2, <4>3, <4>4
    <3>2. UNCHANGED mpc /\ mpc # "replay" /\ (mpc \in {"exit", "crashed"} =>
              \A f \in Files : waited'[f] = 0)
      BY <1>0, <2>1, <2>4 DEF FlushOld, TimerSound, IInv, ControlSound
    <3> QED BY <2>1, <3>1, <3>2 DEF TimerSound, WaitInv
  <2>5. CASE ReplayDone
    BY <1>0, <2>1, <2>3, <2>5 DEF ReplayDone, TimerSound
  <2>6. CASE Cleanup \/ \E kept : Die(kept)
    BY <2>3, <2>6 DEF Cleanup, Die, CacheGone
  <2>7. CASE Restart
    BY <1>0, <2>3, <2>7 DEF Restart, cacheVars, Alive, TimerSound
  <2> QED BY <1>0, <1>2, <2>2, <2>4, <2>5, <2>6, <2>7, TimerMoves
<1> QED BY <1>1, <1>2

(* No value waits longer than write interval, flush interval and jitter    *)
(* together before it is queued, whatever the intervals are, even if       *)
(* updates to its file have stopped (rrdcached.pod on -w, -f and -z).      *)
THEOREM DaemonStalenessBounded == Spec => []StalenessBounded
<1>1. TypeOK /\ WaitInv => StalenessBounded
  <2> SUFFICES ASSUME TypeOK, WaitInv PROVE StalenessBounded
    OBVIOUS
  <2> QED BY WaitNumbers DEF WaitInv, TimerSound, StalenessBounded
<1>2. IInv /\ IInv' /\ WaitInv /\ [Next]_vars => WaitInv'
  BY NextWaits
<1>3. IInv => TypeOK
  BY DEF IInv
<1> QED BY <1>1, <1>2, <1>3, InitWaits, AlwaysInv, PTL DEF Spec

-----------------------------------------------------------------------------
(* Who wakes a FLUSH                                                       *)

WaiterInv == WaitedItemStays /\ WaiterCovered

Busy(q) == qpc[q] \in {"update", "journal", "broadcast"}

\* What is enough for a step to keep WaiterInv: busy threads go on with their
\* files, and a thread that still waits has its item, and its file is still
\* queued if it was.
BusyStay == \A q \in QueueThreads : Busy(q) => Busy(q)' /\ job'[q].file = job[q].file
WaitersStay ==
    \A c \in Conns : cpc'[c] = "wait" =>
        LET f == arg'[c].file IN
        /\ f \in tree'
        /\ \/ InQueue(queue', f)
           \/ cpc[c] = "wait" /\ arg[c].file = f /\ ~InQueue(queue, f)

(* A step under which busy threads and waiters stay keeps WaiterInv.       *)
LEMMA StayIsEnough ==
    ASSUME WaiterInv, BusyStay, WaitersStay
    PROVE  WaiterInv'
BY DEF WaiterInv, WaitedItemStays, WaiterCovered, BusyStay, WaitersStay, Busy

(* Waking sleeping update threads does not disturb the busy ones.          *)
LEMMA WakeQueueStay ==
    ASSUME qpc \in [QueueThreads -> QueuePCs], job' = job,
           UNCHANGED qpc \/ \E n : WakeQueue(n)
    PROVE  BusyStay
BY DEF WakeQueue, Waiting, BusyStay, Busy

(* The steps of a connection keep WaiterInv.                               *)
LEMMA ConnWaiters ==
    ASSUME IInv, WaiterInv, NEW c \in Conns, ConnStep(c)
    PROVE  WaiterInv'
<1>0. /\ cpc \in [Conns -> ConnPCs] /\ qpc \in [QueueThreads -> QueuePCs] /\ CacheInv
      /\ arg \in [Conns -> [file : Files, vals : Seq(Stamps),
                            jtest : BOOLEAN, due : SUBSET Stamps]]
  BY DEF IInv, TypeOK, CacheInv
<1>1. BusyStay
  <2>1. job' = job /\ (UNCHANGED qpc \/ \E n : WakeQueue(n))
    BY DEF ConnStep, ConnStart, ConnPoll, ConnAgain, ConnClose, Command, Request,
           UpdateLookup, UpdateStat, UpdateInsert, UpdateApply, FlushFile, FlushReturn,
           FlushAnswer, FlushAll, ForgetRemove, ForgetJournal, Goes, Answers
  <2> QED BY <1>0, <2>1, WakeQueueStay
<1>2. ASSUME tree \subseteq tree', \A g : InQueue(queue, g) => InQueue(queue', g),
             \A d \in Conns : cpc'[d] = "wait" =>
                cpc[d] = "wait" /\ arg'[d].file = arg[d].file
      PROVE  WaitersStay
  BY <1>2 DEF WaiterInv, WaitedItemStays, WaitersStay
<1>3. CASE ConnStart(c) \/ ConnPoll(c) \/ ConnAgain(c) \/ ConnClose(c) \/ Command(c)
           \/ UpdateLookup(c) \/ UpdateStat(c) \/ FlushReturn(c) \/ FlushAnswer(c)
           \/ ForgetJournal(c)
  <2>1. UNCHANGED <<tree, queue>>
    BY <1>3 DEF ConnStart, ConnPoll, ConnAgain, ConnClose, Command, Request,
           UpdateLookup, UpdateStat, FlushReturn, FlushAnswer, ForgetJournal, Goes,
           Answers, cacheVars
  <2>2. /\ cpc'[c] # "wait"
        /\ \A d \in Conns : d # c => cpc'[d] = cpc[d] /\ arg'[d] = arg[d]
    <3>1. CASE Command(c)
      BY <1>0, <3>1, DaemonAssumption DEF Command, Request
    <3>2. CASE ~Command(c)
      BY <1>0, <1>3, <3>2 DEF ConnStart, ConnPoll, ConnAgain, ConnClose,
           UpdateLookup, UpdateStat, FlushReturn, FlushAnswer, ForgetJournal, Goes, Answers
    <3> QED BY <3>1, <3>2
  <2> QED BY <1>1, <1>2, <2>1, <2>2, StayIsEnough
<1>4. CASE UpdateInsert(c)
  <2>1. tree \subseteq tree' /\ queue' = queue
    BY <1>4 DEF UpdateInsert, InsertItem, AddItem, cacheVars
  <2>2. /\ cpc'[c] # "wait"
        /\ \A d \in Conns : d # c => cpc'[d] = cpc[d] /\ arg'[d] = arg[d]
    BY <1>0, <1>4 DEF UpdateInsert
  <2> QED BY <1>1, <1>2, <2>1, <2>2, StayIsEnough
<1>5. CASE UpdateApply(c)
  <2>1. arg[c].file \in Files
    BY <1>0
  <2>2. tree' = tree /\ (queue' = queue \/ queue' = AtTail(queue, arg[c].file))
    BY <1>5 DEF UpdateApply, AppendValues
  <2>3. \A g : InQueue(queue, g) => InQueue(queue', g)
    BY <1>0, <2>1, <2>2, AtTailKeeps DEF CacheInv, CacheTypeOK, QueueSound
  <2>4. /\ cpc'[c] # "wait"
        /\ \A d \in Conns : d # c => cpc'[d] = cpc[d] /\ arg'[d] = arg[d]
    BY <1>0, <1>5 DEF UpdateApply
  <2> QED BY <1>1, <1>2, <2>2, <2>3, <2>4, StayIsEnough
<1>6. CASE FlushFile(c)
  <2> DEFINE f == arg[c].file
  <2>1. f \in Files /\ arg' = [arg EXCEPT ![c].due = owed[f]]
    BY <1>0, <1>6 DEF FlushFile
  <2>2. \A d \in Conns : arg'[d].file = arg[d].file
    BY <1>0, <2>1
  <2>3. CASE f \in tree /\ values[f] # <<>>
    <3>1. tree' = tree /\ queue' = AtHead(queue, f) /\ cpc' = [cpc EXCEPT ![c] = "wait"]
      BY <1>6, <2>3 DEF FlushFile, PutAtHead
    <3>2. \A g : InQueue(queue', g) <=> InQueue(queue, g) \/ g = f
      BY <1>0, <2>1, <3>1, AtHeadKeeps DEF CacheInv, CacheTypeOK, QueueSound
    <3>3. WaitersStay
      BY <1>0, <2>2, <2>3, <3>1, <3>2 DEF WaitersStay, WaiterInv, WaitedItemStays
    <3> QED BY <1>1, <3>3, StayIsEnough
  <2>4. CASE ~(f \in tree /\ values[f] # <<>>)
    <3>1. UNCHANGED <<tree, queue>> /\ cpc' = [cpc EXCEPT ![c] = "flushed"]
      BY <1>6, <2>4 DEF FlushFile, cacheVars
    <3> QED BY <1>0, <1>1, <1>2, <2>2, <3>1, StayIsEnough
  <2> QED BY <2>3, <2>4
<1>7. CASE FlushAll(c)
  <2>1. \A g : InQueue(queue, g) => InQueue(queue', g)
    BY <1>0, <1>7, EverythingAgeType, FlushedOldValues DEF FlushAll
  <2>2. \A d \in Conns : cpc'[d] = "wait" =>
           cpc[d] = "wait" /\ arg'[d] = arg[d] /\ arg[d].file \notin tree \ tree'
    BY <1>0, <1>7 DEF FlushAll, Flushed
  <2>3. WaitersStay
    BY <2>1, <2>2 DEF WaitersStay, WaiterInv, WaitedItemStays
  <2> QED BY <1>1, <2>3, StayIsEnough
<1>8. CASE ForgetRemove(c)
  <2> DEFINE f == arg[c].file
  <2>1. CASE f \in tree
    <3>1. tree' = tree \ {f} /\ queue' = Without(queue, f)
      BY <1>8, <2>1 DEF ForgetRemove, ForgetItem, RemoveItems
    <3>2. \A g : InQueue(queue', g) <=> InQueue(queue, g) /\ g # f
      BY <1>0, <3>1, RemovedFromQueue
    <3>3. \A d \in Conns : cpc'[d] = "wait" =>
             d # c /\ cpc[d] = "wait" /\ arg'[d] = arg[d] /\ arg[d].file # f
      BY <1>0, <1>8, <2>1 DEF ForgetRemove, Flushed
    <3>4. WaitersStay
      BY <3>1, <3>2, <3>3 DEF WaitersStay, WaiterInv, WaitedItemStays
    <3> QED BY <1>1, <3>4, StayIsEnough
  <2>2. CASE f \notin tree
    <3>1. UNCHANGED <<tree, queue>> /\ cpc'[c] # "wait"
          /\ \A d \in Conns : d # c => cpc'[d] = cpc[d] /\ arg'[d] = arg[d]
      BY <1>0, <1>8, <2>2 DEF ForgetRemove, cacheVars
    <3> QED BY <1>1, <1>2, <3>1, StayIsEnough
  <2> QED BY <2>1, <2>2
<1> QED BY <1>3, <1>4, <1>5, <1>6, <1>7, <1>8 DEF ConnStep

(* The steps of an update thread keep WaiterInv.                           *)
LEMMA QueueWaiters ==
    ASSUME IInv, WaiterInv, NEW q \in QueueThreads, QueueStep(q)
    PROVE  WaiterInv'
<1>0. /\ cpc \in [Conns -> ConnPCs] /\ qpc \in [QueueThreads -> QueuePCs] /\ CacheInv
      /\ job \in [QueueThreads -> [file : Files, batch : Seq(Stamps),
                                   jtest : BOOLEAN, raced : BOOLEAN]]
  BY DEF IInv, TypeOK, CacheInv
<1>1. arg' = arg
  BY DEF QueueStep, QueueLoop, QueueWoken, QueueUpdate, QueueJournal, QueueBroadcast
<1>2. CASE Dequeue(q) /\ cpc' = cpc /\ qpc[q] \in {"loop", "woken"}
  <2>1. tree' = tree /\ \A g : InQueue(queue', g) <=> InQueue(queue, g) /\ g # Head(queue)
    BY <1>0, <1>2, RemovedFromQueue DEF Dequeue, TakeValues
  <2>2. BusyStay
    <3>1. ASSUME NEW p \in QueueThreads, Busy(p) PROVE p # q
      BY <1>2, <3>1 DEF Busy
    <3>2. ASSUME NEW p \in QueueThreads, p # q
          PROVE  qpc'[p] = qpc[p] /\ job'[p].file = job[p].file
      BY <1>0, <1>2, <3>2 DEF Dequeue
    <3> QED BY <3>1, <3>2 DEF BusyStay, Busy
  <2>3. qpc'[q] = "update" /\ job'[q].file = Head(queue)
    BY <1>0, <1>2 DEF Dequeue
  <2> QED BY <1>1, <1>2, <2>1, <2>2, <2>3
          DEF WaiterInv, WaitedItemStays, WaiterCovered, BusyStay, Busy
<1>3. CASE /\ UNCHANGED <<cacheVars, cpc>> /\ ~Busy(q)
           /\ \A p \in QueueThreads \ {q} : qpc'[p] = qpc[p] /\ job'[p] = job[p]
  <2>1. BusyStay
    BY <1>3 DEF BusyStay, Busy
  <2>2. WaitersStay
    BY <1>1, <1>3 DEF WaitersStay, WaiterInv, WaitedItemStays, cacheVars
  <2> QED BY <2>1, <2>2, StayIsEnough
<1>4. CASE QueueUpdate(q) \/ QueueJournal(q)
  <2>1. BusyStay
    <3>1. ASSUME NEW p \in QueueThreads, p # q PROVE qpc'[p] = qpc[p] /\ job'[p] = job[p]
      BY <1>0, <1>4, <3>1 DEF QueueUpdate, QueueJournal
    <3>2. qpc'[q] \in {"journal", "broadcast"} /\ job'[q].file = job[q].file
      BY <1>0, <1>4 DEF QueueUpdate, QueueJournal
    <3> QED BY <3>1, <3>2 DEF BusyStay, Busy
  <2>2. UNCHANGED <<tree, queue, cpc>>
    BY <1>4 DEF QueueUpdate, QueueJournal, cacheVars
  <2>3. WaitersStay
    BY <1>1, <2>2 DEF WaitersStay, WaiterInv, WaitedItemStays
  <2> QED BY <2>1, <2>3, StayIsEnough
<1>5. CASE QueueBroadcast(q)
  <2> DEFINE f == job[q].file
  <2>1. UNCHANGED <<tree, queue>>
    BY <1>5 DEF QueueBroadcast, cacheVars
  <2>2. \A c \in Conns : cpc'[c] = "wait" => cpc[c] = "wait" /\ arg[c].file # f
    BY <1>0, <1>5 DEF QueueBroadcast, WokenBy, Flushed, WaiterInv, WaitedItemStays
  <2>3. \A p \in QueueThreads : p # q => qpc'[p] = qpc[p] /\ job'[p] = job[p]
    BY <1>0, <1>5 DEF QueueBroadcast
  <2> QED BY <1>1, <2>1, <2>2, <2>3 DEF WaiterInv, WaitedItemStays, WaiterCovered
<1>6. CASE QueueLoop(q) \/ QueueWoken(q)
  <2>1. cpc' = cpc /\ qpc[q] \in {"loop", "woken"} /\ ~Busy(q)
    BY <1>6 DEF QueueLoop, QueueWoken, Busy
  <2>2. CASE Dequeue(q)
    BY <1>2, <2>1, <2>2
  <2>3. CASE /\ UNCHANGED <<job, cacheVars>>
             /\ \E pc \in {"done", "wait", "loop"} : qpc' = [qpc EXCEPT ![q] = pc]
    BY <1>0, <1>3, <2>1, <2>3
  <2> QED BY <1>6, <2>2, <2>3 DEF QueueLoop, QueueWoken
<1> QED BY <1>4, <1>5, <1>6 DEF QueueStep

(* Every step keeps WaiterInv.                                             *)
LEMMA NextWaiters ==
    ASSUME IInv, WaiterInv, [Next]_vars
    PROVE  WaiterInv'
<1>0. /\ cpc \in [Conns -> ConnPCs] /\ qpc \in [QueueThreads -> QueuePCs] /\ CacheInv
  BY DEF IInv, TypeOK, CacheInv
<1>1. CASE FlushStep
  <2>1. arg' = arg /\ job' = job /\ (UNCHANGED qpc \/ \E n : WakeQueue(n))
    BY <1>1 DEF FlushStep, FlushOld, FlushExit, FlushPrepare, FlushWait, FlushTimeout,
              FlushRelock, FlushGoes, RotateClose, RotateOpen, RotateRemove
  <2>2. BusyStay
    BY <1>0, <2>1, WakeQueueStay
  <2>3. WriteInterval \in Int
    BY CacheAssumption
  <2>4. \/ UNCHANGED <<tree, queue, cpc>>
        \/ /\ \E minAge \in Int, running \in BOOLEAN : FlushOldValues(minAge, running)
           /\ cpc' = Flushed(tree \ tree')
    BY <1>1, <2>3, EverythingAgeType
       DEF FlushStep, FlushOld, FlushExit, FlushPrepare, FlushWait, FlushTimeout,
           FlushRelock, FlushGoes, RotateClose, RotateOpen, RotateRemove, cacheVars
  <2>5. \A g : InQueue(queue, g) => InQueue(queue', g)
    BY <1>0, <2>4, FlushedOldValues
  <2>6. \A c \in Conns : cpc'[c] = "wait" =>
           cpc[c] = "wait" /\ arg[c].file \notin tree \ tree'
    BY <1>0, <2>4 DEF Flushed
  <2>7. WaitersStay
    BY <2>1, <2>5, <2>6 DEF WaitersStay, WaiterInv, WaitedItemStays
  <2> QED BY <2>2, <2>7, StayIsEnough
<1>2. CASE \A c \in Conns : cpc'[c] # "wait"
  BY <1>2 DEF WaiterInv, WaitedItemStays, WaiterCovered
<1>3. ASSUME NEW kept, Die(kept) PROVE WaiterInv'
  BY <1>2, <1>3 DEF Die
<1>4. CASE UNCHANGED <<tree, queue, arg, job>>
           /\ (\A q \in QueueThreads : Busy(q) => qpc'[q] = qpc[q])
           /\ (\A c \in Conns : cpc'[c] = "wait" => cpc[c] = "wait")
  <2>1. BusyStay
    BY <1>4 DEF BusyStay, Busy
  <2>2. WaitersStay
    BY <1>4 DEF WaitersStay, WaiterInv, WaitedItemStays
  <2> QED BY <2>1, <2>2, StayIsEnough
<1>5. CASE MainStep
  <2>1. CASE ListenPoll \/ ListenAccept \/ ListenStop \/ Drain \/ JoinFlush
    <3>1. UNCHANGED <<tree, queue, arg, job>>
      BY <2>1 DEF ListenPoll, ListenAccept, ListenStop, Drain, JoinFlush, MainGoes, cacheVars
    <3>2. \A q \in QueueThreads : Busy(q) => qpc'[q] = qpc[q]
      BY <2>1 DEF ListenPoll, ListenAccept, ListenStop, Drain, JoinFlush, MainGoes,
                  AllWoken, Busy
    <3>3. \A c \in Conns : cpc'[c] = "wait" => cpc[c] = "wait"
      BY <1>0, <2>1 DEF ListenPoll, ListenAccept, ListenStop, Drain, JoinFlush, MainGoes
    <3> QED BY <1>4, <3>1, <3>2, <3>3
  <2>2. CASE Cleanup
    BY <1>2, <2>2 DEF Cleanup, IInv, ControlSound, NoRequestDuringCleanup
  <2>3. CASE ReplayEntry \/ ReplayDone
    BY <1>2, <2>3 DEF ReplayEntry, ReplayDone, threadVars, IInv, ControlSound
  <2>4. CASE AssertFails
    BY <1>3, <2>4 DEF AssertFails
  <2> QED BY <1>5, <2>1, <2>2, <2>3, <2>4 DEF MainStep
<1>6. CASE Crash \/ NullWrite
  BY <1>3, <1>6 DEF Crash, NullWrite
<1>7. CASE Restart
  BY <1>2, <1>7 DEF Restart
<1>8. CASE Tick \/ UNCHANGED vars
  BY <1>4, <1>8 DEF Tick, CacheTick, vars, threadVars, cacheVars
<1>9. ASSUME NEW s \in Signals, Signal(s) PROVE WaiterInv'
  BY <1>4, <1>9 DEF Signal, AllWoken, Busy, cacheVars
<1> QED BY <1>1, <1>5, <1>6, <1>7, <1>8, <1>9, ConnWaiters, QueueWaiters DEF Next

(* WaiterInv always holds.                                                 *)
LEMMA AlwaysWaiterInv == Spec => []WaiterInv
<1>1. Init => WaiterInv
  BY DEF Init, WaiterInv, WaitedItemStays, WaiterCovered
<1>2. IInv /\ WaiterInv /\ [Next]_vars => WaiterInv'
  BY NextWaiters
<1> QED BY <1>1, <1>2, AlwaysInv, PTL DEF Spec

(* A FLUSH that waits for ci->flushed, which it does without a timeout and *)
(* without testing a predicate, is never forgotten: its file is queued or  *)
(* an update thread is on the way to the broadcast, whatever FORGETs,      *)
(* purges and other update threads do meanwhile.                           *)
THEOREM DaemonWaiterCovered == Spec => []WaiterCovered
<1>1. WaiterInv => WaiterCovered
  BY DEF WaiterInv
<1> QED BY <1>1, AlwaysWaiterInv, PTL

(* The item whose condition variable a FLUSH waits on stays in the tree.   *)
THEOREM DaemonWaitedItemStays == Spec => []WaitedItemStays
<1>1. WaiterInv => WaitedItemStays
  BY DEF WaiterInv
<1> QED BY <1>1, AlwaysWaiterInv, PTL
=============================================================================
