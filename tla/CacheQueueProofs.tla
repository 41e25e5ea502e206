-------------------------- MODULE CacheQueueProofs --------------------------
(***************************************************************************)
(* The linked list of CacheQueue represents a duplicate-free sequence and  *)
(* implements WriteQueue, for any set of files.                            *)
(***************************************************************************)
EXTENDS CacheQueue, QueueLemmas

(* The counter is part of the inductive invariant: without it length could *)
(* become negative in Unlink (the assertion of remove_from_queue).         *)
IInv == TypeOK /\ ListSound /\ length = Len(order)

-----------------------------------------------------------------------------
(* Lists as values.  Represents(l, q) says for a list l and a sequence q   *)
(* what IInv says for the variables.                                       *)

ListType(l) ==
    /\ l.head \in Pointers /\ l.tail \in Pointers
    /\ l.next \in [Files -> Pointers] /\ l.prev \in [Files -> Pointers]
    /\ l.flagged \subseteq Files
    /\ l.length \in Nat

Represents(l, q) ==
    /\ ListType(l)
    /\ q \in Seq(Files) /\ NoDuplicates(q)
    /\ l.length = Len(q)
    /\ l.head = IF q = <<>> THEN NULL ELSE q[1]
    /\ l.tail = IF q = <<>> THEN NULL ELSE q[Len(q)]
    /\ \A f \in Files : f \in l.flagged <=> InQueue(q, f)
    /\ \A f \in Files \ l.flagged : l.next[f] = NULL /\ l.prev[f] = NULL
    /\ \A i \in 1 .. Len(q) :
          /\ l.next[q[i]] = IF i = Len(q) THEN NULL ELSE q[i + 1]
          /\ l.prev[q[i]] = IF i = 1 THEN NULL ELSE q[i - 1]

(* The inductive invariant says that the list represents order.            *)
LEMMA IInvIsRepresents ==
    IInv <=> Represents(List, order) /\ filled \subseteq Files /\ flagged \subseteq filled
<1>1. order \in Seq(Files) => DOMAIN order = 1 .. Len(order)
  OBVIOUS
<1> QED BY <1>1 DEF IInv, TypeOK, ListSound, Represents, ListType, List

(* Unlinking the item at position k gives the list without position k. *)
LEMMA UnlinkRepresents ==
    ASSUME NEW l, NEW q, Represents(l, q), NEW k \in 1 .. Len(q)
    PROVE  Represents(Unlink(l, q[k]), Without(q, q[k]))
<1> DEFINE ci == q[k]
           m == Unlink(l, ci)
           r == Without(q, ci)
<1>1. /\ ListType(l) /\ q \in Seq(Files) /\ NoDuplicates(q) /\ l.length = Len(q)
      /\ DOMAIN q = 1 .. Len(q) /\ Len(q) \in Nat
      /\ ci \in Files /\ k \in Nat
  BY DEF Represents
<1>2. /\ r \in Seq(Files) /\ Len(r) = Len(q) - 1 /\ NoDuplicates(r)
      /\ \A i \in 1 .. Len(q) - 1 : r[i] = IF i < k THEN q[i] ELSE q[i + 1]
      /\ \A g : InQueue(r, g) <=> InQueue(q, g) /\ g # ci
      /\ DOMAIN r = 1 .. Len(q) - 1
  <2>1. /\ r \in Seq(Files) /\ Len(r) = Len(q) - 1
        /\ \A i \in 1 .. Len(q) - 1 : r[i] = IF i < k THEN q[i] ELSE q[i + 1]
    BY <1>1, WithoutFacts
  <2>2. NoDuplicates(r) /\ \A g : InQueue(r, g) <=> InQueue(q, g) /\ g # ci
    BY <1>1, WithoutKeeps
  <2> HIDE DEF r, ci
  <2> QED BY <2>1, <2>2
<1>3. /\ l.next[ci] = IF k = Len(q) THEN NULL ELSE q[k + 1]
      /\ l.prev[ci] = IF k = 1 THEN NULL ELSE q[k - 1]
  BY DEF Represents
<1>4. /\ m.head = IF l.prev[ci] = NULL THEN l.next[ci] ELSE l.head
      /\ m.tail = IF l.next[ci] = NULL THEN l.prev[ci] ELSE l.tail
      /\ m.next = [f \in Files |-> IF f = ci THEN NULL
                                   ELSE IF f = l.prev[ci] THEN l.next[ci]
                                   ELSE l.next[f]]
      /\ m.prev = [f \in Files |-> IF f = ci THEN NULL
                                   ELSE IF f = l.next[ci] THEN l.prev[ci]
                                   ELSE l.prev[f]]
      /\ m.flagged = l.flagged \ {ci}
      /\ m.length = l.length - 1
  BY DEF Unlink
<1> DEFINE nci == l.next[ci]
           pci == l.prev[ci]
<1> HIDE DEF m, r, ci, nci, pci
<1>5. /\ ci = q[k] /\ ci # NULL
      /\ \A i \in 1 .. Len(q) : q[i] \in Files /\ q[i] # NULL
      /\ \A i, j \in 1 .. Len(q) : q[i] = q[j] => i = j
  BY <1>1, NullAssumption DEF ci, NoDuplicates
<1>6. /\ (k = Len(q) /\ nci = NULL) \/ (k + 1 \in 1 .. Len(q) /\ nci = q[k + 1])
      /\ (k = 1 /\ pci = NULL) \/ (k - 1 \in 1 .. Len(q) /\ pci = q[k - 1])
      /\ nci = NULL <=> k = Len(q)
      /\ pci = NULL <=> k = 1
  <2> HIDE DEF Represents
  <2>0. Len(q) \in Nat
    BY <1>1
  <2>1. k = Len(q) \/ k + 1 \in 1 .. Len(q)
    BY <2>0
  <2>2. k = 1 \/ k - 1 \in 1 .. Len(q)
    BY <2>0
  <2> QED BY <2>1, <2>2, <1>3, <1>5 DEF nci, pci
<1>6n. Len(q) \in Nat /\ Len(r) = Len(q) - 1 /\ k \in Nat /\ 1 <= k /\ k <= Len(q)
      /\ q # <<>>
  BY <1>1, <1>2
<1>7. /\ m.head = IF pci = NULL THEN nci ELSE l.head
      /\ m.tail = IF nci = NULL THEN pci ELSE l.tail
      /\ m.next \in [Files -> Pointers] /\ m.prev \in [Files -> Pointers]
      /\ \A f \in Files : m.next[f] = IF f = ci THEN NULL
                                       ELSE IF f = pci THEN nci ELSE l.next[f]
      /\ \A f \in Files : m.prev[f] = IF f = ci THEN NULL
                                       ELSE IF f = nci THEN pci ELSE l.prev[f]
      /\ m.flagged = l.flagged \ {ci}
      /\ m.length = l.length - 1
  <2>1. /\ nci \in Pointers /\ pci \in Pointers
        /\ l.next \in [Files -> Pointers] /\ l.prev \in [Files -> Pointers]
    BY <1>1, <1>5, <1>6 DEF ListType, Pointers
  <2>2. m.next \in [Files -> Pointers] /\ m.prev \in [Files -> Pointers]
    BY <2>1, <1>4 DEF nci, pci, Pointers
  <2> QED BY <2>2, <1>4 DEF nci, pci
<1>8. m.length = Len(r) /\ m.length \in Nat
  BY <1>1, <1>2, <1>7
<1>9. m.head = IF r = <<>> THEN NULL ELSE r[1]
  <2>1. l.head = q[1]
    BY <1>6n DEF Represents
  <2>2. CASE k = 1 /\ k = Len(q)
    BY <2>2, <1>2, <1>6, <1>7
  <2>3. CASE k = 1 /\ k # Len(q)
    <3>1. r # <<>> /\ r[1] = q[2]
      BY <2>3, <1>1, <1>2
    <3> QED BY <2>3, <3>1, <1>1, <1>6, <1>7
  <2>4. CASE k # 1
    <3>1. r # <<>> /\ r[1] = q[1]
      BY <2>4, <1>1, <1>2
    <3> QED BY <2>1, <2>4, <3>1, <1>6, <1>7
  <2> QED BY <2>2, <2>3, <2>4
<1>10. m.tail = IF r = <<>> THEN NULL ELSE r[Len(r)]
  <2>1. l.tail = q[Len(q)]
    BY <1>6n DEF Represents
  <2>2. CASE k = Len(q) /\ k = 1
    BY <2>2, <1>2, <1>6, <1>7
  <2>3. CASE k = Len(q) /\ k # 1
    <3>1. r # <<>> /\ r[Len(r)] = q[k - 1]
      BY <2>3, <1>1, <1>2
    <3> QED BY <2>3, <3>1, <1>1, <1>6, <1>7
  <2>4. CASE k # Len(q)
    <3>1. Len(r) \in 1 .. Len(q) - 1 /\ ~(Len(r) < k) /\ Len(r) + 1 = Len(q)
      BY <2>4, <1>6n
    <3>2. r # <<>> /\ r[Len(r)] = q[Len(q)]
      BY <3>1, <1>1, <1>2
    <3> QED BY <2>1, <2>4, <3>2, <1>6, <1>7
  <2> QED BY <2>2, <2>3, <2>4
<1>11. \A f \in Files : f \in m.flagged <=> InQueue(r, f)
  BY <1>2, <1>7 DEF Represents
<1>12. ASSUME NEW f \in Files \ m.flagged
       PROVE  m.next[f] = NULL /\ m.prev[f] = NULL
  <2>1. CASE f = ci
    BY <2>1, <1>7
  <2>2. CASE f # ci
    <3>1. f \notin l.flagged
      BY <2>2, <1>7
    <3>2. ~InQueue(q, f) /\ l.next[f] = NULL /\ l.prev[f] = NULL
      BY <3>1 DEF Represents
    <3>3. \A i \in 1 .. Len(q) : f # q[i]
      BY <3>2, <1>1 DEF InQueue
    <3>4. f # pci
      BY <3>3, <1>6, NullAssumption
    <3>5. f # nci
      BY <3>3, <1>6, NullAssumption
    <3> QED BY <2>2, <3>2, <3>4, <3>5, <1>7
  <2> QED BY <2>1, <2>2
<1>12a. ASSUME NEW i \in 1 .. Len(r)
       PROVE  /\ m.next[r[i]] = IF i = Len(r) THEN NULL ELSE r[i + 1]
              /\ m.prev[r[i]] = IF i = 1 THEN NULL ELSE r[i - 1]
  <2>1. PICK j \in 1 .. Len(q) : j = IF i < k THEN i ELSE i + 1
    BY <1>6n
  <2>2n. /\ i \in Nat /\ j \in Nat /\ 1 <= i /\ i <= Len(q) - 1
         /\ 1 <= j /\ j <= Len(q) /\ j # k
    BY <2>1, <1>6n
  <2>2. r[i] = q[j]
    BY <2>1, <2>2n, <1>2
  <2>3. /\ l.next[q[j]] = IF j = Len(q) THEN NULL ELSE q[j + 1]
        /\ l.prev[q[j]] = IF j = 1 THEN NULL ELSE q[j - 1]
    BY <2>1 DEF Represents
  <2>4. q[j] # ci /\ q[j] \in Files /\ q[j] # NULL
    BY <2>2n, <1>5
  <2>5. q[j] = pci <=> j = k - 1
    <3>1. CASE k = 1
      BY <3>1, <2>2n, <2>4, <1>6
    <3>2. CASE k - 1 \in 1 .. Len(q) /\ pci = q[k - 1]
      BY <3>2, <1>5
    <3> QED BY <3>1, <3>2, <1>6
  <2>6. q[j] = nci <=> j = k + 1
    <3>1. CASE k = Len(q)
      BY <3>1, <2>2n, <2>4, <1>6
    <3>2. CASE k + 1 \in 1 .. Len(q) /\ nci = q[k + 1]
      BY <3>2, <1>5
    <3> QED BY <3>1, <3>2, <1>6
  <2>7. m.next[r[i]] = IF j = k - 1 THEN nci ELSE l.next[q[j]]
    BY <2>2, <2>4, <2>5, <1>7
  <2>8. m.prev[r[i]] = IF j = k + 1 THEN pci ELSE l.prev[q[j]]
    BY <2>2, <2>4, <2>6, <1>7
  <2>9. m.next[r[i]] = IF i = Len(r) THEN NULL ELSE r[i + 1]
    <3>1. CASE i = Len(r)
      <4>1. CASE j = k - 1
        BY <3>1, <4>1, <2>1, <2>2n, <2>7, <1>6n, <1>6
      <4>2. CASE j # k - 1
        <5>1. j = Len(q)
          BY <3>1, <4>2, <2>1, <2>2n, <1>6n
        <5> QED BY <3>1, <4>2, <5>1, <2>3, <2>7
      <4> QED BY <4>1, <4>2
    <3>2. CASE i # Len(r)
      <4>1. i + 1 \in 1 .. Len(q) - 1
        BY <3>2, <2>2n, <1>6n
      <4>2. r[i + 1] = IF i + 1 < k THEN q[i + 1] ELSE q[i + 1 + 1]
        BY <4>1, <1>2
      <4>3. CASE j = k - 1
        <5>1. i = k - 1 /\ k # Len(q)
          BY <3>2, <4>3, <2>1, <2>2n, <1>6n
        <5>2. nci = q[k + 1]
          BY <5>1, <1>6
        <5>3. i + 1 + 1 = k + 1 /\ ~(i + 1 < k)
          BY <5>1, <1>6n
        <5>4. r[i + 1] = q[k + 1]
          BY <5>3, <4>2
        <5> QED BY <3>2, <4>3, <5>2, <5>4, <2>7
      <4>4. CASE j # k - 1
        <5>1. j # Len(q) /\ j + 1 = IF i + 1 < k THEN i + 1 ELSE i + 1 + 1
          BY <4>1, <4>4, <2>1, <2>2n, <1>6n
        <5>2. r[i + 1] = q[j + 1]
          BY <5>1, <4>2
        <5> QED BY <3>2, <4>4, <5>1, <5>2, <2>3, <2>7
      <4> QED BY <4>3, <4>4
    <3> QED BY <3>1, <3>2
  <2>10. m.prev[r[i]] = IF i = 1 THEN NULL ELSE r[i - 1]
    <3>1. CASE i = 1
      <4>1. CASE j = k + 1
        <5>1. k = 1
          BY <3>1, <4>1, <2>1, <2>2n, <1>6n
        <5> QED BY <3>1, <4>1, <5>1, <2>8, <1>6
      <4>2. CASE j # k + 1
        <5>1. j = 1
          BY <3>1, <4>2, <2>1, <2>2n, <1>6n
        <5> QED BY <3>1, <4>2, <5>1, <2>3, <2>8
      <4> QED BY <4>1, <4>2
    <3>2. CASE i # 1
      <4>1. i - 1 \in 1 .. Len(q) - 1
        BY <3>2, <2>2n, <1>6n
      <4>2. r[i - 1] = IF i - 1 < k THEN q[i - 1] ELSE q[i - 1 + 1]
        BY <4>1, <1>2
      <4>3. CASE j = k + 1
        <5>1. i = k /\ k # 1
          BY <3>2, <4>3, <2>1, <2>2n, <1>6n
        <5>2. pci = q[k - 1]
          BY <5>1, <1>6
        <5>3. i - 1 < k /\ i - 1 = k - 1
          BY <5>1, <1>6n
        <5>4. r[i - 1] = q[k - 1]
          BY <5>3, <4>2
        <5> QED BY <3>2, <4>3, <5>2, <5>4, <2>8
      <4>4. CASE j # k + 1
        <5>1. j # 1 /\ j - 1 = IF i - 1 < k THEN i - 1 ELSE i - 1 + 1
          BY <3>2, <4>4, <2>1, <2>2n, <1>6n
        <5>2. r[i - 1] = q[j - 1]
          BY <5>1, <4>2
        <5> QED BY <3>2, <4>4, <5>1, <5>2, <2>3, <2>8
      <4> QED BY <4>3, <4>4
    <3> QED BY <3>1, <3>2
  <2> QED BY <2>9, <2>10
<1>12b. ListType(m)
  BY <1>1, <1>4, <1>5, <1>6, <1>7, <1>8 DEF ListType, Pointers
<1>13. Represents(m, r)
  BY <1>2, <1>8, <1>9, <1>10, <1>11, <1>12, <1>12a, <1>12b DEF Represents
<1> QED BY <1>13 DEF m, r, ci

(* Linking an unqueued item in front of the head. *)
LEMMA LinkHeadRepresents ==
    ASSUME NEW l, NEW q, Represents(l, q), NEW ci \in Files, ~InQueue(q, ci)
    PROVE  Represents(LinkHead(l, ci), <<ci>> \o q)
<1> DEFINE m == LinkHead(l, ci)
           r == <<ci>> \o q
<1>1. /\ q \in Seq(Files) /\ NoDuplicates(q) /\ l.length = Len(q)
      /\ l.flagged \subseteq Files
      /\ l.head \in Pointers /\ l.tail \in Pointers
      /\ l.next \in [Files -> Pointers] /\ l.prev \in [Files -> Pointers]
  BY DEF Represents, ListType
<1>2n. Len(q) \in Nat
  BY <1>1
<1>2. Len(q) \in Nat /\ DOMAIN q = 1 .. Len(q)
  BY <1>1
<1>3. /\ r \in Seq(Files) /\ Len(r) = Len(q) + 1
      /\ r[1] = ci
      /\ \A i \in 1 .. Len(q) : r[i + 1] = q[i]
  <2>1. <<ci>> \in Seq(Files) /\ Len(<<ci>>) = 1 /\ <<ci>>[1] = ci
    OBVIOUS
  <2>2. /\ r \in Seq(Files) /\ Len(r) = 1 + Len(q)
        /\ \A i \in 1 .. 1 + Len(q) : r[i] = IF i <= 1 THEN <<ci>>[i] ELSE q[i - 1]
    BY <1>1, <2>1, ConcatProperties
  <2> HIDE DEF r
  <2>3. r[1] = ci
    BY <2>1, <2>2, <1>2
  <2>4. ASSUME NEW i \in 1 .. Len(q) PROVE r[i + 1] = q[i]
    <3>1. i + 1 \in 1 .. 1 + Len(q) /\ ~(i + 1 <= 1) /\ (i + 1) - 1 = i
      BY <1>2
    <3> QED BY <2>2, <3>1
  <2> QED BY <2>2, <2>3, <2>4, <1>2
<1>4. /\ NoDuplicates(r)
      /\ \A g : InQueue(r, g) <=> g = ci \/ InQueue(q, g)
  <2> DEFINE s == <<ci>>
  <2>1. /\ s \in Seq(Files) /\ NoDuplicates(s)
        /\ \A g : InQueue(s, g) <=> g = ci
    BY SingletonQueue
  <2> HIDE DEF s
  <2>2. /\ NoDuplicates(s \o q)
        /\ \A g : InQueue(s \o q, g) <=> InQueue(s, g) \/ InQueue(q, g)
    BY <1>1, <2>1, ConcatKeeps
  <2> QED BY <2>1, <2>2 DEF s
<1>5. /\ m.head = ci
      /\ m.tail = IF l.tail = NULL THEN ci ELSE l.tail
      /\ m.next = [l.next EXCEPT ![ci] = l.head]
      /\ m.prev = [f \in Files |-> IF f = ci THEN NULL
                                   ELSE IF f = l.head THEN ci ELSE l.prev[f]]
      /\ m.flagged = l.flagged \cup {ci}
      /\ m.length = l.length + 1
  BY DEF LinkHead
<1> HIDE DEF m, r
<1>6. ListType(m)
  BY <1>1, <1>2, <1>5 DEF ListType, Pointers
<1>7. \A i \in 1 .. Len(q) : q[i] \in Files /\ q[i] # NULL /\ q[i] # ci
  BY <1>1, <1>2, NullAssumption DEF InQueue
<1>8. /\ q = <<>> => l.head = NULL /\ l.tail = NULL
      /\ q # <<>> => l.head = q[1] /\ l.tail = q[Len(q)]
                     /\ 1 \in 1 .. Len(q) /\ Len(q) \in 1 .. Len(q)
      /\ q = <<>> <=> Len(q) = 0
  <2>1. q = <<>> <=> Len(q) = 0
    BY <1>1
  <2>2. Len(q) # 0 => 1 \in 1 .. Len(q) /\ Len(q) \in 1 .. Len(q)
    BY <1>2n
  <2> QED BY <2>1, <2>2 DEF Represents
<1>9. /\ \A f \in Files : m.next[f] = IF f = ci THEN l.head ELSE l.next[f]
      /\ \A f \in Files : m.prev[f] = IF f = ci THEN NULL
                                      ELSE IF f = l.head THEN ci ELSE l.prev[f]
  BY <1>1, <1>5
<1>10. r # <<>> /\ m.head = r[1]
  BY <1>2, <1>3, <1>5
<1>11. m.tail = r[Len(r)]
  <2>1. CASE q = <<>>
    BY <2>1, <1>3, <1>5, <1>8
  <2>2. CASE q # <<>>
    BY <2>2, <1>3, <1>5, <1>7, <1>8
  <2> QED BY <2>1, <2>2
<1>12. \A f \in Files : f \in m.flagged <=> InQueue(r, f)
  BY <1>4, <1>5 DEF Represents
<1>13. ASSUME NEW f \in Files \ m.flagged
       PROVE  m.next[f] = NULL /\ m.prev[f] = NULL
  <2>1. f # ci /\ f \notin l.flagged
    BY <1>5
  <2>2. ~InQueue(q, f) /\ l.next[f] = NULL /\ l.prev[f] = NULL
    BY <2>1 DEF Represents
  <2>3. f # l.head
    BY <2>2, <1>2, <1>8, NullAssumption DEF InQueue
  <2> QED BY <2>1, <2>2, <2>3, <1>9
<1>14. ASSUME NEW i \in 1 .. Len(r)
       PROVE  /\ m.next[r[i]] = IF i = Len(r) THEN NULL ELSE r[i + 1]
              /\ m.prev[r[i]] = IF i = 1 THEN NULL ELSE r[i - 1]
  <2>1. CASE i = 1
    <3>1. m.prev[r[i]] = NULL
      BY <2>1, <1>3, <1>9
    <3>2. m.next[r[i]] = l.head
      BY <2>1, <1>3, <1>9
    <3>3. CASE q = <<>>
      BY <2>1, <3>1, <3>2, <3>3, <1>3, <1>8
    <3>4. CASE q # <<>>
      <4>1. r[1 + 1] = q[1] /\ 1 # Len(r)
        BY <3>4, <1>2, <1>3, <1>8
      <4> QED BY <2>1, <3>1, <3>2, <3>4, <4>1, <1>8
    <3> QED BY <3>3, <3>4
  <2>2. CASE i # 1
    <3>1. PICK j \in 1 .. Len(q) : i = j + 1
      <4>1. i - 1 \in 1 .. Len(q) /\ i = (i - 1) + 1
        BY <2>2, <1>2, <1>3
      <4> QED BY <4>1
    <3>2. j \in Nat /\ 1 <= j /\ j <= Len(q)
      BY <1>2
    <3>3. r[i] = q[j] /\ q[j] # ci /\ q[j] \in Files
      BY <3>1, <1>3, <1>7
    <3>4. /\ l.next[q[j]] = IF j = Len(q) THEN NULL ELSE q[j + 1]
          /\ l.prev[q[j]] = IF j = 1 THEN NULL ELSE q[j - 1]
      BY DEF Represents
    <3>5. m.next[r[i]] = IF i = Len(r) THEN NULL ELSE r[i + 1]
      <4>1. m.next[r[i]] = l.next[q[j]]
        BY <3>3, <1>9
      <4>2. CASE j = Len(q)
        BY <4>1, <4>2, <3>1, <3>4, <1>3
      <4>3. CASE j # Len(q)
        <5>0. Len(r) = Len(q) + 1
          BY <1>3
        <5>1. j + 1 \in 1 .. Len(q) /\ i # Len(r) /\ i + 1 = (j + 1) + 1
          BY <4>3, <5>0, <3>1, <3>2, <1>2n
        <5>2. r[(j + 1) + 1] = q[j + 1]
          BY <5>1, <1>3
        <5> QED BY <4>1, <4>3, <5>1, <5>2, <3>4
      <4> QED BY <4>2, <4>3
    <3>6. m.prev[r[i]] = r[i - 1]
      <4>1. q[j] = l.head <=> j = 1
        <5>1. q # <<>> /\ l.head = q[1] /\ 1 \in DOMAIN q /\ j \in DOMAIN q
          BY <3>2, <1>2, <1>8
        <5> QED BY <5>1, <1>1 DEF NoDuplicates
      <4>2. CASE j = 1
        BY <4>1, <4>2, <3>1, <3>3, <1>3, <1>9
      <4>3. CASE j # 1
        <5>1. j - 1 \in 1 .. Len(q) /\ i - 1 = (j - 1) + 1
          BY <4>3, <3>1, <3>2, <1>2
        <5>2. r[(j - 1) + 1] = q[j - 1]
          BY <5>1, <1>3
        <5> QED BY <4>1, <4>3, <5>1, <5>2, <3>3, <3>4, <1>9
      <4> QED BY <4>2, <4>3
    <3> QED BY <2>2, <3>5, <3>6
  <2> QED BY <2>1, <2>2
<1>15. Represents(m, r)
  <2>1. m.length = Len(r)
    BY <1>1, <1>3, <1>5, <1>2
  <2> QED BY <2>1, <1>3, <1>4, <1>6, <1>10, <1>11, <1>12, <1>13, <1>14 DEF Represents
<1> QED BY <1>15 DEF m, r

(* Linking an unqueued item behind the tail. *)
LEMMA PushTailRepresents ==
    ASSUME NEW l, NEW q, Represents(l, q), NEW ci \in Files, ~InQueue(q, ci)
    PROVE  Represents(PushTail(l, ci), Append(q, ci))
<1> DEFINE m == PushTail(l, ci)
           r == Append(q, ci)
<1>1. /\ q \in Seq(Files) /\ NoDuplicates(q) /\ l.length = Len(q)
      /\ l.flagged \subseteq Files
      /\ l.head \in Pointers /\ l.tail \in Pointers
      /\ l.next \in [Files -> Pointers] /\ l.prev \in [Files -> Pointers]
  BY DEF Represents, ListType
<1>2n. Len(q) \in Nat
  BY <1>1
<1>2. Len(q) \in Nat /\ DOMAIN q = 1 .. Len(q)
  BY <1>1
<1>3. /\ r \in Seq(Files) /\ Len(r) = Len(q) + 1
      /\ r[Len(q) + 1] = ci
      /\ \A i \in 1 .. Len(q) : r[i] = q[i]
  BY <1>1
<1>4. /\ NoDuplicates(r)
      /\ \A g : InQueue(r, g) <=> g = ci \/ InQueue(q, g)
  <2>1. r = AtTail(q, ci)
    BY DEF AtTail
  <2> HIDE DEF r
  <2>2. /\ NoDuplicates(AtTail(q, ci))
        /\ \A g : InQueue(AtTail(q, ci), g) <=> InQueue(q, g) \/ g = ci
    BY <1>1, AtTailKeeps
  <2> QED BY <2>1, <2>2
<1>5. /\ m.head = IF l.tail = NULL THEN ci ELSE l.head
      /\ m.tail = ci
      /\ m.next = [f \in Files |-> IF f = l.tail THEN ci ELSE l.next[f]]
      /\ m.prev = [l.prev EXCEPT ![ci] = l.tail]
      /\ m.flagged = l.flagged \cup {ci}
      /\ m.length = l.length + 1
  BY DEF PushTail
<1> HIDE DEF m, r
<1>6. ListType(m)
  BY <1>1, <1>2, <1>5 DEF ListType, Pointers
<1>7. \A i \in 1 .. Len(q) : q[i] \in Files /\ q[i] # NULL /\ q[i] # ci
  BY <1>1, <1>2, NullAssumption DEF InQueue
<1>8. /\ q = <<>> => l.head = NULL /\ l.tail = NULL
      /\ q # <<>> => l.head = q[1] /\ l.tail = q[Len(q)]
                     /\ 1 \in 1 .. Len(q) /\ Len(q) \in 1 .. Len(q)
      /\ q = <<>> <=> Len(q) = 0
  <2>1. q = <<>> <=> Len(q) = 0
    BY <1>1
  <2>2. Len(q) # 0 => 1 \in 1 .. Len(q) /\ Len(q) \in 1 .. Len(q)
    BY <1>2n
  <2> QED BY <2>1, <2>2 DEF Represents
<1>9. /\ \A f \in Files : m.next[f] = IF f = l.tail THEN ci ELSE l.next[f]
      /\ \A f \in Files : m.prev[f] = IF f = ci THEN l.tail ELSE l.prev[f]
      /\ l.next[ci] = NULL /\ ci # l.tail
  <2>1. l.next[ci] = NULL
    BY DEF Represents
  <2>2. ci # l.tail
    BY <1>7, <1>8, NullAssumption
  <2> QED BY <2>1, <2>2, <1>1, <1>5
<1>10. r # <<>> /\ m.tail = r[Len(r)]
  BY <1>2, <1>3, <1>5
<1>11. m.head = r[1]
  <2>1. CASE q = <<>>
    BY <2>1, <1>3, <1>5, <1>8
  <2>2. CASE q # <<>>
    BY <2>2, <1>3, <1>5, <1>7, <1>8
  <2> QED BY <2>1, <2>2
<1>12. \A f \in Files : f \in m.flagged <=> InQueue(r, f)
  BY <1>4, <1>5 DEF Represents
<1>13. ASSUME NEW f \in Files \ m.flagged
       PROVE  m.next[f] = NULL /\ m.prev[f] = NULL
  <2>1. f # ci /\ f \notin l.flagged
    BY <1>5
  <2>2. ~InQueue(q, f) /\ l.next[f] = NULL /\ l.prev[f] = NULL
    BY <2>1 DEF Represents
  <2>3. f # l.tail
    BY <2>2, <1>2, <1>8, NullAssumption DEF InQueue
  <2> QED BY <2>1, <2>2, <2>3, <1>9
<1>14. ASSUME NEW i \in 1 .. Len(r)
       PROVE  /\ m.next[r[i]] = IF i = Len(r) THEN NULL ELSE r[i + 1]
              /\ m.prev[r[i]] = IF i = 1 THEN NULL ELSE r[i - 1]
  <2>0. i \in Nat /\ 1 <= i /\ i <= Len(q) + 1
    BY <1>2, <1>3
  <2>1. CASE i = Len(q) + 1
    <3>1. r[i] = ci /\ m.next[ci] = NULL /\ m.prev[ci] = l.tail
      BY <2>1, <1>3, <1>9
    <3>2. CASE q = <<>>
      BY <2>1, <3>1, <3>2, <1>3, <1>8
    <3>3. CASE q # <<>>
      <4>1. i # 1 /\ i - 1 = Len(q) /\ i = Len(r)
        BY <2>1, <3>3, <1>2, <1>3, <1>8
      <4>2. r[Len(q)] = q[Len(q)]
        BY <3>3, <1>3, <1>8
      <4> QED BY <3>1, <3>3, <4>1, <4>2, <1>8
    <3> QED BY <3>2, <3>3
  <2>2. CASE i # Len(q) + 1
    <3>1. i \in 1 .. Len(q) /\ i # Len(r)
      BY <2>0, <2>2, <1>2, <1>3
    <3>2. r[i] = q[i] /\ q[i] # ci /\ q[i] \in Files
      BY <3>1, <1>3, <1>7
    <3>3. /\ l.next[q[i]] = IF i = Len(q) THEN NULL ELSE q[i + 1]
          /\ l.prev[q[i]] = IF i = 1 THEN NULL ELSE q[i - 1]
      BY <3>1 DEF Represents
    <3>4. m.prev[r[i]] = IF i = 1 THEN NULL ELSE r[i - 1]
      <4>1. CASE i = 1
        BY <4>1, <3>2, <3>3, <1>9
      <4>2. CASE i # 1
        <5>1. i - 1 \in 1 .. Len(q)
          BY <4>2, <2>0, <2>2, <1>2
        <5>2. r[i - 1] = q[i - 1]
          BY <5>1, <1>3
        <5> QED BY <4>2, <5>2, <3>2, <3>3, <1>9
      <4> QED BY <4>1, <4>2
    <3>5. m.next[r[i]] = r[i + 1]
      <4>1. q[i] = l.tail <=> i = Len(q)
        <5>1. q # <<>> /\ l.tail = q[Len(q)] /\ Len(q) \in DOMAIN q /\ i \in DOMAIN q
          BY <3>1, <1>2, <1>8
        <5> QED BY <5>1, <1>1 DEF NoDuplicates
      <4>2. CASE i = Len(q)
        BY <4>1, <4>2, <3>2, <1>3, <1>9
      <4>3. CASE i # Len(q)
        <5>1. i + 1 \in 1 .. Len(q)
          BY <4>3, <2>0, <2>2, <1>2n
        <5>2. r[i + 1] = q[i + 1]
          BY <5>1, <1>3
        <5> QED BY <4>1, <4>3, <5>2, <3>2, <3>3, <1>9
      <4> QED BY <4>2, <4>3
    <3> QED BY <3>1, <3>4, <3>5
  <2> QED BY <2>1, <2>2
<1>15. Represents(m, r)
  <2>1. m.length = Len(r)
    BY <1>1, <1>3, <1>5, <1>2
  <2> QED BY <2>1, <1>3, <1>4, <1>6, <1>10, <1>11, <1>12, <1>13, <1>14 DEF Represents
<1> QED BY <1>15 DEF m, r

-----------------------------------------------------------------------------
(* The steps of the state machine                                          *)

(* remove_from_queue takes one item out of the represented sequence.       *)
LEMMA RemoveRepresents ==
    ASSUME NEW l, NEW q, Represents(l, q), NEW ci \in Files
    PROVE  Represents(RemoveFromQueue(l, ci), Without(q, ci))
<1>1. CASE InQueue(q, ci)
  <2>1. q \in Seq(Files) /\ ci \in l.flagged
    BY <1>1 DEF Represents
  <2>2. PICK k \in 1 .. Len(q) : q[k] = ci
    BY <1>1, <2>1 DEF InQueue
  <2> QED BY <2>1, <2>2, UnlinkRepresents DEF RemoveFromQueue
<1>2. CASE ~InQueue(q, ci)
  <2>1. ci \notin l.flagged
    BY <1>2 DEF Represents
  <2> QED BY <1>2, <2>1 DEF RemoveFromQueue, Without
<1> QED BY <1>1, <1>2

(* enqueue_cache_item at the head moves the item to the front.             *)
LEMMA PushHeadRepresents ==
    ASSUME NEW l, NEW q, Represents(l, q), NEW ci \in Files
    PROVE  Represents(PushHead(l, ci), AtHead(q, ci))
<1> DEFINE m == RemoveFromQueue(l, ci)
           r == Without(q, ci)
<1>1. Represents(m, r)
  BY RemoveRepresents
<1>2. ~InQueue(r, ci)
  <2>1. q \in Seq(Files) /\ NoDuplicates(q)
    BY DEF Represents
  <2> QED BY <2>1, WithoutKeeps
<1> HIDE DEF m, r
<1>3. Represents(LinkHead(m, ci), <<ci>> \o r)
  BY <1>1, <1>2, LinkHeadRepresents
<1> QED BY <1>3 DEF PushHead, AtHead, m, r

(* Dequeue removes the first element, which is the head pointer's item. *)
LEMMA DequeueIsTail ==
    ASSUME NEW l, NEW q, Represents(l, q), l.head # NULL
    PROVE  q # <<>> /\ l.head = Head(q) /\ Without(q, Head(q)) = Tail(q)
<1>1. q \in Seq(Files) /\ NoDuplicates(q) /\ q # <<>> /\ l.head = q[1]
  BY DEF Represents
<1>2. 1 \in 1 .. Len(q) /\ Head(q) = q[1] /\ Len(q) \in Nat
  BY <1>1
<1> DEFINE r == Without(q, q[1])
           t == Tail(q)
<1>3. /\ r \in Seq(Files) /\ Len(r) = Len(q) - 1
      /\ \A i \in 1 .. Len(q) - 1 : r[i] = IF i < 1 THEN q[i] ELSE q[i + 1]
  BY <1>1, <1>2, WithoutFacts
<1>4. /\ t \in Seq(Files) /\ Len(t) = Len(q) - 1
      /\ \A i \in 1 .. Len(q) - 1 : t[i] = q[i + 1]
  BY <1>1
<1> HIDE DEF r, t
<1>5. \A i \in 1 .. Len(r) : r[i] = t[i]
  BY <1>2, <1>3, <1>4
<1>6. r = t
  BY <1>3, <1>4, <1>5, SeqEqual
<1> QED BY <1>1, <1>2, <1>6 DEF r, t

(* A list that represents s makes s the new order.                         *)
LEMMA BecomesRepresents ==
    ASSUME NEW l, Becomes(l), NEW q, Represents(l, q), order' = q,
           filled' \subseteq Files, l.flagged \subseteq filled'
    PROVE  IInv'
<1>1. Represents(List, order)'
  BY DEF Becomes, List, Represents, ListType
<1>2. flagged' = l.flagged
  BY DEF Becomes
<1>3. (Represents(List, order) /\ filled \subseteq Files /\ flagged \subseteq filled)'
  BY <1>1, <1>2
<1> QED BY <1>3, IInvIsRepresents, PTL

(* Every operation keeps the inductive invariant.                          *)
LEMMA ListInvariant == IInv /\ [Next]_vars => IInv'
<1> SUFFICES ASSUME IInv, [Next]_vars PROVE IInv'
  OBVIOUS
<1>0. Represents(List, order) /\ filled \subseteq Files /\ flagged \subseteq filled
  BY IInvIsRepresents
<1>0a. List.flagged = flagged /\ List.head = head
  BY DEF List
<1>0b. order \in Seq(Files) /\ NoDuplicates(order)
       /\ \A f \in Files : f \in flagged <=> InQueue(order, f)
  BY <1>0, <1>0a DEF Represents
<1>1. CASE Dequeue
  <2>1. /\ order # <<>> /\ head = Head(order)
        /\ Without(order, head) = Tail(order)
    BY <1>0, <1>0a, <1>1, DequeueIsTail DEF Dequeue
  <2>2. head \in Files
    BY <1>0b, <2>1
  <2>3. Represents(RemoveFromQueue(List, head), Tail(order))
    BY <1>0, <2>1, <2>2, RemoveRepresents
  <2>4. RemoveFromQueue(List, head).flagged = flagged \ {head}
    BY <1>0a DEF RemoveFromQueue, Unlink
  <2> QED BY <1>0, <1>1, <2>3, <2>4, BecomesRepresents DEF Dequeue
<1>2. ASSUME NEW ci \in Files, AddValue(ci) PROVE IInv'
  BY <1>2 DEF AddValue, IInv, TypeOK, ListSound, links, Pointers
<1>3. ASSUME NEW ci \in Files, EnqueueHead(ci) PROVE IInv'
  <2>1. Represents(PushHead(List, ci), AtHead(order, ci))
    BY <1>0, PushHeadRepresents
  <2>2. PushHead(List, ci).flagged = flagged \cup {ci}
    BY <1>0a DEF PushHead, LinkHead, RemoveFromQueue, Unlink
  <2> QED BY <1>0, <1>3, <2>1, <2>2, BecomesRepresents DEF EnqueueHead
<1>4. ASSUME NEW ci \in Files, EnqueueTail(ci) PROVE IInv'
  <2>1. ~InQueue(order, ci) /\ AtTail(order, ci) = Append(order, ci)
    BY <1>0b, <1>4 DEF EnqueueTail, AtTail
  <2>2. Represents(PushTail(List, ci), Append(order, ci))
    BY <1>0, <2>1, PushTailRepresents
  <2>3. PushTail(List, ci).flagged = flagged \cup {ci}
    BY <1>0a DEF PushTail
  <2> QED BY <1>0, <1>4, <2>1, <2>2, <2>3, BecomesRepresents DEF EnqueueTail
<1>5. ASSUME NEW ci \in Files, Forget(ci) PROVE IInv'
  <2>1. Represents(RemoveFromQueue(List, ci), Without(order, ci))
    BY <1>0, RemoveRepresents
  <2>2. RemoveFromQueue(List, ci).flagged = flagged \ {ci}
    BY <1>0a DEF RemoveFromQueue, Unlink
  <2> QED BY <1>0, <1>5, <2>1, <2>2, BecomesRepresents DEF Forget
<1>6. CASE UNCHANGED vars
  BY <1>6 DEF IInv, TypeOK, ListSound, vars, links, Pointers
<1> QED BY <1>1, <1>2, <1>3, <1>4, <1>5, <1>6 DEF Next, EnqueueNothing

(* The pointers, flags and counter of the update queue represent one       *)
(* duplicate-free sequence of items with values, whatever enqueue, dequeue *)
(* and forget operations are applied (rrd_daemon.c, remove_from_queue and  *)
(* enqueue_cache_item).                                                    *)
THEOREM ListIsSound == Spec => [](TypeOK /\ ListSound /\ length = Len(order))
<1>1. Init => IInv
  BY DEF Init, IInv, TypeOK, ListSound, NoDuplicates, InQueue, Pointers
<1>2. IInv => TypeOK /\ ListSound /\ length = Len(order)
  BY DEF IInv
<1> QED BY <1>1, <1>2, ListInvariant, PTL DEF Spec

(* The linked list implements the abstract update queue: every operation   *)
(* of rrd_daemon.c on the pointers is a step of WriteQueue on the          *)
(* represented sequence.                                                   *)
THEOREM ListImplementsQueue == Spec => Refinement
<1>1. Init => WQ!Init
  BY DEF Init, WQ!Init
<1>2. IInv /\ [Next]_vars => [WQ!Next]_(WQ!vars)
  <2> SUFFICES ASSUME IInv, [Next]_vars PROVE [WQ!Next]_(WQ!vars)
    OBVIOUS
  <2>1. CASE Dequeue
    <3>1. Represents(List, order) /\ List.head = head
      BY IInvIsRepresents DEF List
    <3>2. order # <<>> /\ head = Head(order)
      BY <2>1, <3>1, DequeueIsTail DEF Dequeue
    <3> QED BY <2>1, <3>2 DEF Dequeue, WQ!Next, WQ!Take
  <2>2. ASSUME NEW ci \in Files, AddValue(ci) PROVE WQ!Fill(ci)
    BY <2>2 DEF AddValue, WQ!Fill
  <2>3. ASSUME NEW ci \in Files, EnqueueHead(ci) PROVE WQ!PutHead(ci)
    BY <2>3 DEF EnqueueHead, WQ!PutHead, AtHead, WQ!AtHead, Without, WQ!Without,
                InQueue, WQ!InQueue, DropIndex, WQ!DropIndex
  <2>4. ASSUME NEW ci \in Files, EnqueueTail(ci) PROVE WQ!PutTail(ci)
    BY <2>4 DEF EnqueueTail, WQ!PutTail, AtTail, WQ!AtTail, InQueue, WQ!InQueue
  <2>5. ASSUME NEW ci \in Files, Forget(ci) PROVE WQ!Drop(ci)
    BY <2>5 DEF Forget, WQ!Drop, Without, WQ!Without, InQueue, WQ!InQueue,
                DropIndex, WQ!DropIndex
  <2>6. CASE UNCHANGED vars
    BY <2>6 DEF vars, WQ!vars
  <2> QED BY <2>1, <2>2, <2>3, <2>4, <2>5, <2>6
          DEF Next, EnqueueNothing, WQ!Next
<1>3. Spec => []IInv
  <2>1. Init => IInv
    BY DEF Init, IInv, TypeOK, ListSound, NoDuplicates, InQueue, Pointers
  <2> QED BY <2>1, ListInvariant, PTL DEF Spec
<1> QED BY <1>1, <1>2, <1>3, PTL DEF Spec, WQ!Spec, Refinement
=============================================================================
