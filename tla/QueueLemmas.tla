---------------------------- MODULE QueueLemmas ----------------------------
(***************************************************************************)
(* What the queue operations return, index by index, and what they keep.   *)
(***************************************************************************)
EXTENDS QueueOps, SequenceTheorems, TLAPS

(* What DropIndex and Without return, index by index. *)
LEMMA DropIndexFacts ==
    ASSUME NEW S, NEW q \in Seq(S), NEW k \in 1 .. Len(q)
    PROVE  /\ DropIndex(q, k) \in Seq(S)
           /\ Len(DropIndex(q, k)) = Len(q) - 1
           /\ \A i \in 1 .. Len(q) - 1 :
                 DropIndex(q, k)[i] = IF i < k THEN q[i] ELSE q[i + 1]
<1> DEFINE a == SubSeq(q, 1, k - 1)
           b == SubSeq(q, k + 1, Len(q))
<1>1. /\ a \in Seq(S) /\ Len(a) = k - 1
      /\ \A i \in 1 .. k - 1 : a[i] = q[i]
  OBVIOUS
<1>2. /\ b \in Seq(S) /\ Len(b) = Len(q) - k
      /\ \A i \in 1 .. Len(q) - k : b[i] = q[i + k]
  OBVIOUS
<1>3. /\ a \o b \in Seq(S)
      /\ Len(a \o b) = Len(q) - 1
      /\ \A i \in 1 .. Len(q) - 1 :
            (a \o b)[i] = IF i <= Len(a) THEN a[i] ELSE b[i - Len(a)]
  <2> HIDE DEF a, b
  <2> QED BY <1>1, <1>2, ConcatProperties
<1>4. \A i \in 1 .. Len(q) - 1 : (a \o b)[i] = IF i < k THEN q[i] ELSE q[i + 1]
  <2> HIDE DEF a, b
  <2> QED BY <1>1, <1>2, <1>3
<1> QED BY <1>3, <1>4 DEF DropIndex

(* Without drops the index at which the file is queued.                    *)
LEMMA WithoutFacts ==
    ASSUME NEW S, NEW q \in Seq(S), NoDuplicates(q),
           NEW k \in 1 .. Len(q)
    PROVE  /\ Without(q, q[k]) \in Seq(S)
           /\ Len(Without(q, q[k])) = Len(q) - 1
           /\ \A i \in 1 .. Len(q) - 1 :
                 Without(q, q[k])[i] = IF i < k THEN q[i] ELSE q[i + 1]
<1>1. DOMAIN q = 1 .. Len(q)
  OBVIOUS
<1>2. (CHOOSE i \in DOMAIN q : q[i] = q[k]) = k
  BY <1>1 DEF NoDuplicates
<1>3. InQueue(q, q[k])
  BY <1>1 DEF InQueue
<1>4. Without(q, q[k]) = DropIndex(q, k)
  BY <1>2, <1>3 DEF Without
<1> QED BY <1>4, DropIndexFacts

(* Removing a file removes that file only. *)
LEMMA WithoutKeeps ==
    ASSUME NEW S, NEW q \in Seq(S), NoDuplicates(q), NEW f
    PROVE  /\ Without(q, f) \in Seq(S)
           /\ NoDuplicates(Without(q, f))
           /\ \A g : InQueue(Without(q, f), g) <=> InQueue(q, g) /\ g # f
<1>1. CASE InQueue(q, f)
  <2>1. PICK k \in 1 .. Len(q) : q[k] = f
    BY <1>1 DEF InQueue
  <2> DEFINE r == Without(q, f)
  <2>2. /\ r \in Seq(S) /\ Len(r) = Len(q) - 1
        /\ \A i \in 1 .. Len(q) - 1 : r[i] = IF i < k THEN q[i] ELSE q[i + 1]
    BY <2>1, WithoutFacts
  <2> HIDE DEF r
  <2>3. /\ DOMAIN r = 1 .. Len(q) - 1
        /\ DOMAIN q = 1 .. Len(q)
    BY <2>2
  <2>4. NoDuplicates(r)
    BY <2>2, <2>3 DEF NoDuplicates
  <2>5. ASSUME NEW g PROVE InQueue(r, g) <=> InQueue(q, g) /\ g # f
    <3>1. ASSUME InQueue(r, g) PROVE InQueue(q, g) /\ g # f
      <4>1. PICK i \in 1 .. Len(q) - 1 : r[i] = g
        BY <3>1, <2>3 DEF InQueue
      <4>2. CASE i < k
        BY <4>1, <4>2, <2>1, <2>2, <2>3 DEF InQueue, NoDuplicates
      <4>3. CASE ~(i < k)
        <5>1. g = q[i + 1] /\ i + 1 \in 1 .. Len(q) /\ i + 1 # k
          BY <4>1, <4>3, <2>2
        <5> QED BY <5>1, <2>1, <2>3 DEF InQueue, NoDuplicates
      <4> QED BY <4>2, <4>3
    <3>2. ASSUME InQueue(q, g), g # f PROVE InQueue(r, g)
      <4>1. PICK i \in 1 .. Len(q) : q[i] = g
        BY <3>2, <2>3 DEF InQueue
      <4>2. i # k
        BY <4>1, <3>2, <2>1
      <4>3. CASE i < k
        BY <4>1, <4>3, <2>2, <2>3 DEF InQueue
      <4>4. CASE i > k
        <5>1. r[i - 1] = g /\ i - 1 \in 1 .. Len(q) - 1
          BY <4>1, <4>4, <2>2
        <5> QED BY <5>1, <2>3 DEF InQueue
      <4> QED BY <4>2, <4>3, <4>4
    <3> QED BY <3>1, <3>2
  <2> QED BY <2>2, <2>4, <2>5 DEF r
<1>2. CASE ~InQueue(q, f)
  BY <1>2 DEF Without, InQueue
<1> QED BY <1>1, <1>2

(* Concatenating two duplicate-free queues without a common file. *)
LEMMA ConcatKeeps ==
    ASSUME NEW S, NEW q \in Seq(S), NEW s \in Seq(S),
           NoDuplicates(q), NoDuplicates(s),
           \A g : ~(InQueue(q, g) /\ InQueue(s, g))
    PROVE  /\ q \o s \in Seq(S)
           /\ NoDuplicates(q \o s)
           /\ \A g : InQueue(q \o s, g) <=> InQueue(q, g) \/ InQueue(s, g)
<1> DEFINE r == q \o s
<1>1. /\ r \in Seq(S) /\ Len(r) = Len(q) + Len(s)
      /\ \A i \in 1 .. Len(q) + Len(s) :
            r[i] = IF i <= Len(q) THEN q[i] ELSE s[i - Len(q)]
  BY ConcatProperties
<1> HIDE DEF r
<1>2. /\ DOMAIN r = 1 .. Len(q) + Len(s)
      /\ DOMAIN q = 1 .. Len(q) /\ DOMAIN s = 1 .. Len(s)
      /\ Len(q) \in Nat /\ Len(s) \in Nat
  BY <1>1
<1>3. ASSUME NEW g PROVE InQueue(r, g) <=> InQueue(q, g) \/ InQueue(s, g)
  <2>1. ASSUME InQueue(r, g) PROVE InQueue(q, g) \/ InQueue(s, g)
    <3>1. PICK i \in 1 .. Len(q) + Len(s) : r[i] = g
      BY <2>1, <1>2 DEF InQueue
    <3>2. CASE i <= Len(q)
      BY <3>1, <3>2, <1>1, <1>2 DEF InQueue
    <3>3. CASE i > Len(q)
      <4>1. s[i - Len(q)] = g /\ i - Len(q) \in 1 .. Len(s)
        BY <3>1, <3>3, <1>1, <1>2
      <4> QED BY <4>1, <1>2 DEF InQueue
    <3> QED BY <3>2, <3>3, <1>2
  <2>2. ASSUME InQueue(q, g) PROVE InQueue(r, g)
    BY <2>2, <1>1, <1>2 DEF InQueue
  <2>3. ASSUME InQueue(s, g) PROVE InQueue(r, g)
    <3>1. PICK i \in 1 .. Len(s) : s[i] = g
      BY <2>3, <1>2 DEF InQueue
    <3>2. r[i + Len(q)] = g /\ i + Len(q) \in 1 .. Len(q) + Len(s)
      BY <3>1, <1>1, <1>2
    <3> QED BY <3>2, <1>2 DEF InQueue
  <2> QED BY <2>1, <2>2, <2>3
<1>4. NoDuplicates(r)
  <2>1. SUFFICES ASSUME NEW i \in DOMAIN r, NEW j \in DOMAIN r, r[i] = r[j]
                 PROVE  i = j
    BY DEF NoDuplicates
  <2>2. CASE i <= Len(q) /\ j <= Len(q)
    BY <2>1, <2>2, <1>1, <1>2 DEF NoDuplicates
  <2>3. CASE i > Len(q) /\ j > Len(q)
    <3>1. /\ s[i - Len(q)] = s[j - Len(q)]
          /\ i - Len(q) \in DOMAIN s /\ j - Len(q) \in DOMAIN s
      BY <2>1, <2>3, <1>1, <1>2
    <3>2. i - Len(q) = j - Len(q)
      BY <3>1 DEF NoDuplicates
    <3> QED BY <3>2, <1>2
  <2>4. ASSUME NEW a \in DOMAIN r, NEW b \in DOMAIN r,
               a <= Len(q), b > Len(q)
        PROVE  r[a] # r[b]
    <3>1. InQueue(q, r[a])
      BY <2>4, <1>1, <1>2 DEF InQueue
    <3>2. s[b - Len(q)] = r[b] /\ b - Len(q) \in DOMAIN s
      BY <2>4, <1>1, <1>2
    <3>3. InQueue(s, r[b])
      BY <3>2 DEF InQueue
    <3> QED BY <3>1, <3>3
  <2> QED BY <2>1, <2>2, <2>3, <2>4, <1>2
<1> QED BY <1>1, <1>3, <1>4 DEF r

(* A queue of one file.                                                    *)
LEMMA SingletonQueue ==
    ASSUME NEW S, NEW f \in S
    PROVE  /\ <<f>> \in Seq(S)
           /\ NoDuplicates(<<f>>)
           /\ \A g : InQueue(<<f>>, g) <=> g = f
BY DEF NoDuplicates, InQueue

(* Moving a file to the head adds at most that file. *)
LEMMA AtHeadKeeps ==
    ASSUME NEW S, NEW q \in Seq(S), NoDuplicates(q), NEW f \in S
    PROVE  /\ AtHead(q, f) \in Seq(S)
           /\ NoDuplicates(AtHead(q, f))
           /\ \A g : InQueue(AtHead(q, f), g) <=> InQueue(q, g) \/ g = f
<1> DEFINE r == Without(q, f)
<1>1. /\ r \in Seq(S) /\ NoDuplicates(r)
      /\ \A g : InQueue(r, g) <=> InQueue(q, g) /\ g # f
  BY WithoutKeeps
<1>2. /\ <<f>> \in Seq(S) /\ NoDuplicates(<<f>>)
      /\ \A g : InQueue(<<f>>, g) <=> g = f
  BY SingletonQueue
<1> HIDE DEF r
<1>3. /\ <<f>> \o r \in Seq(S) /\ NoDuplicates(<<f>> \o r)
      /\ \A g : InQueue(<<f>> \o r, g) <=> InQueue(<<f>>, g) \/ InQueue(r, g)
  BY <1>1, <1>2, ConcatKeeps
<1> QED BY <1>1, <1>2, <1>3 DEF AtHead, r

(* Appending a file adds that file, and nothing if it is queued. *)
LEMMA AtTailKeeps ==
    ASSUME NEW S, NEW q \in Seq(S), NoDuplicates(q), NEW f \in S
    PROVE  /\ AtTail(q, f) \in Seq(S)
           /\ NoDuplicates(AtTail(q, f))
           /\ \A g : InQueue(AtTail(q, f), g) <=> InQueue(q, g) \/ g = f
<1>1. CASE InQueue(q, f)
  BY <1>1 DEF AtTail
<1>2. CASE ~InQueue(q, f)
  <2>1. AtTail(q, f) = q \o <<f>>
    BY <1>2, AppendIsConcat DEF AtTail
  <2>2. /\ <<f>> \in Seq(S) /\ NoDuplicates(<<f>>)
        /\ \A g : InQueue(<<f>>, g) <=> g = f
    BY SingletonQueue
  <2>3. /\ q \o <<f>> \in Seq(S) /\ NoDuplicates(q \o <<f>>)
        /\ \A g : InQueue(q \o <<f>>, g) <=> InQueue(q, g) \/ InQueue(<<f>>, g)
    <3> DEFINE s == <<f>>
    <3>1. \A g : ~(InQueue(q, g) /\ InQueue(s, g))
      BY <1>2, <2>2
    <3> HIDE DEF s
    <3>2. s \in Seq(S) /\ NoDuplicates(s)
      BY <2>2 DEF s
    <3>3. /\ q \o s \in Seq(S) /\ NoDuplicates(q \o s)
          /\ \A g : InQueue(q \o s, g) <=> InQueue(q, g) \/ InQueue(s, g)
      BY <3>1, <3>2, ConcatKeeps
    <3> QED BY <3>3 DEF s
  <2> QED BY <2>1, <2>2, <2>3
<1> QED BY <1>1, <1>2

(* Taking the head removes the head only. *)
LEMMA TailKeeps ==
    ASSUME NEW S, NEW q \in Seq(S), NoDuplicates(q), q # <<>>
    PROVE  /\ Tail(q) \in Seq(S)
           /\ NoDuplicates(Tail(q))
           /\ \A g : InQueue(Tail(q), g) <=> InQueue(q, g) /\ g # Head(q)
           /\ Head(q) \in S /\ InQueue(q, Head(q))
<1> DEFINE r == Tail(q)
<1>1. /\ r \in Seq(S) /\ Len(r) = Len(q) - 1
      /\ \A i \in 1 .. Len(q) - 1 : r[i] = q[i + 1]
      /\ Head(q) = q[1] /\ 1 \in 1 .. Len(q)
  OBVIOUS
<1> HIDE DEF r
<1>2. DOMAIN r = 1 .. Len(q) - 1 /\ DOMAIN q = 1 .. Len(q) /\ Len(q) \in Nat
  BY <1>1
<1>3. NoDuplicates(r)
  <2>1. SUFFICES ASSUME NEW i \in DOMAIN r, NEW j \in DOMAIN r, r[i] = r[j]
                 PROVE  i = j
    BY DEF NoDuplicates
  <2>2. q[i + 1] = q[j + 1] /\ i + 1 \in DOMAIN q /\ j + 1 \in DOMAIN q
    BY <2>1, <1>1, <1>2
  <2>3. i + 1 = j + 1
    BY <2>2 DEF NoDuplicates
  <2> QED BY <2>3, <1>2
<1>4. ASSUME NEW g PROVE InQueue(r, g) <=> InQueue(q, g) /\ g # Head(q)
  <2>1. ASSUME InQueue(r, g) PROVE InQueue(q, g) /\ g # Head(q)
    <3>1. PICK i \in 1 .. Len(q) - 1 : r[i] = g
      BY <2>1, <1>2 DEF InQueue
    <3>2. q[i + 1] = g /\ i + 1 \in DOMAIN q /\ i + 1 # 1 /\ 1 \in DOMAIN q
      BY <3>1, <1>1, <1>2
    <3> QED BY <3>2, <1>1 DEF InQueue, NoDuplicates
  <2>2. ASSUME InQueue(q, g), g # Head(q) PROVE InQueue(r, g)
    <3>1. PICK i \in 1 .. Len(q) : q[i] = g
      BY <2>2, <1>2 DEF InQueue
    <3>2. r[i - 1] = g /\ i - 1 \in DOMAIN r
      BY <3>1, <2>2, <1>1, <1>2
    <3> QED BY <3>2 DEF InQueue
  <2> QED BY <2>1, <2>2
<1> QED BY <1>1, <1>2, <1>3, <1>4 DEF r, InQueue
=============================================================================
